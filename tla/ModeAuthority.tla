--------------------------- MODULE ModeAuthority ---------------------------
(***************************************************************************)
(* What SAFE MODE promises, with the shared memory, the semaphore, the     *)
(* signals and the watchdog's steps left out: one authority (the OBC)      *)
(* commands a mode and every living subsystem follows it.  The authority   *)
(* never changes its mind before every living subsystem has followed, so   *)
(* no subsystem ever skips a mode, however slow it is.                     *)
(***************************************************************************)
CONSTANTS Follower,         \* the subsystem processes
          NORMAL, SAFE      \* the two modes

VARIABLES mode,             \* the mode last commanded
          obeys,            \* the mode each follower runs in
          live              \* the followers that are still running

vars == <<mode, obeys, live>>

Modes == {NORMAL, SAFE}

Init == /\ mode = NORMAL
        /\ obeys = [f \in Follower |-> NORMAL]
        /\ live = Follower

\* The authority commands the other mode, which all have to be ready for.
Switch == /\ \A f \in live : obeys[f] = mode
          /\ mode' \in Modes \ {mode}
          /\ UNCHANGED <<obeys, live>>

Follow(f) == /\ f \in live
             /\ obeys' = [obeys EXCEPT ![f] = mode]
             /\ UNCHANGED <<mode, live>>

Fail(f) == /\ live' = live \ {f}
           /\ UNCHANGED <<mode, obeys>>

Next == Switch \/ \E f \in Follower : Follow(f) \/ Fail(f)

Spec == Init /\ [][Next]_vars

\* Every living follower eventually runs in the commanded mode.
FairSpec == Spec /\ \A f \in Follower : WF_vars(Follow(f))
=============================================================================
