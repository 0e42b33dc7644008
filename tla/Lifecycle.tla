----------------------------- MODULE Lifecycle ------------------------------
(***************************************************************************)
(* The OBC as the parent of its subsystems: it forks them one by one,      *)
(* reaps those that exit from its SIGCHLD handler, signals them through    *)
(* the pids it remembers, and on SIGINT stops them, waits for them and     *)
(* removes the IPC objects they use.                                       *)
(*                                                                         *)
(* Sources: main.c, signals/signal_handler.c and the start and the end of  *)
(* the main functions of the four subsystems.                              *)
(*                                                                         *)
(* A definition whose name ends in _Bug is the definition after it with a  *)
(* plausible mistake in it; the specification does not use it.             *)
(***************************************************************************)
EXTENDS Integers, FiniteSets

CONSTANT N            \* children 1..N, in the order in which the broadcasts
                      \* signal them; the last is the logger

ASSUME NAssumption == N \in Nat /\ N >= 1

Children == 1..N

\* The logger, the last to be signalled, is the first to be started.
StartOrder(k) == IF k = 1 THEN N ELSE k - 1

Broadcasts == {"SIGUSR", "SIGTERM"}    \* SIGUSR: either of the mode signals

Locations == {"fork", "assign", "loop", "second", "check", "kill", "store",
              "wait", "clean", "done"}

(***************************************************************************)
(* unborn, then forked: fork() returned, handlers inherited from the OBC;  *)
(* exec: execlp() reset the handlers to their defaults; ready:             *)
(* setup_child_signals() has run; stopping: SIGTERM set its g_shutdown;    *)
(* zombie: it exited; reaped: the OBC has waited for it.                   *)
(***************************************************************************)
Lives == {"unborn", "forked", "exec", "ready", "stopping", "zombie", "reaped"}

VARIABLES
  obc,        \* main(): where it is, the next child, the signal being sent
  waits,      \* the calls of wait() that wait_children has made
  g_shutdown, \* of the OBC
  g_pid,      \* for each child, whether its g_pid is positive (it is -1 else)
  child,      \* the life of each child
  sigchld,    \* SIGCHLD is pending for the OBC
  ipc,        \* the IPC objects exist
  sem_lost,   \* the semaphore is at 0 and nobody is left to post it
  clogged     \* the queue is full and nobody reads it

lost == <<sem_lost, clogged>>

vars == <<obc, waits, g_shutdown, g_pid, child, sigchld, ipc, lost>>

Running == {c \in Children :
              child[c] \in {"forked", "exec", "ready", "stopping"}}
Zombies == {c \in Children : child[c] = "zombie"}
Unreaped == Running \cup Zombies

Init ==
  /\ obc = [pc |-> "fork", next |-> 1, signal |-> "SIGTERM"]
  /\ waits = 0
  /\ g_shutdown = FALSE
  /\ g_pid = [c \in Children |-> FALSE]
  /\ child = [c \in Children |-> "unborn"]
  /\ sigchld = FALSE
  /\ ipc = TRUE
  /\ sem_lost \in BOOLEAN    \* sem_create() opens what a crashed run has left
  /\ clogged = FALSE

-----------------------------------------------------------------------------
(***************************************************************************)
(* main(): start                                                           *)
(***************************************************************************)
\* One too many: the loop runs past the last child.
Proceed_Bug(pc, end) ==
  obc' = IF obc.next > N THEN [obc EXCEPT !.pc = end, !.next = 1]
                         ELSE [obc EXCEPT !.pc = pc, !.next = @ + 1]

\* On to the next child at pc, or, after the last one, on to end.
Proceed(pc, end) ==
  obc' = IF obc.next = N THEN [obc EXCEPT !.pc = end, !.next = 1]
                         ELSE [obc EXCEPT !.pc = pc, !.next = @ + 1]

Fork ==
  /\ obc.pc = "fork"
  /\ child' = [child EXCEPT ![StartOrder(obc.next)] = "forked"]
  /\ obc' = [obc EXCEPT !.pc = "assign"]
  /\ UNCHANGED <<waits, g_shutdown, g_pid, sigchld, ipc, lost>>

\* fork() returns -1 and start_process returns it.
ForkFails ==
  /\ obc.pc = "fork"
  /\ Proceed("fork", "loop")
  /\ UNCHANGED <<waits, g_shutdown, g_pid, child, sigchld, ipc, lost>>

\* The assignment of what start_process returned: the child may have died,
\* and handle_sigchld may have run, between the fork() and this.
AssignPid ==
  /\ obc.pc = "assign"
  /\ g_pid' = [g_pid EXCEPT ![StartOrder(obc.next)] = TRUE]
  /\ Proceed("fork", "loop")
  /\ UNCHANGED <<waits, g_shutdown, child, sigchld, ipc, lost>>

-----------------------------------------------------------------------------
(***************************************************************************)
(* main(): the broadcasts, of the watchdog and of the shutdown             *)
(***************************************************************************)
StartBroadcast(s) ==
  /\ obc' = [pc |-> "check", next |-> 1, signal |-> s]
  /\ UNCHANGED <<waits, g_shutdown, g_pid, child, sigchld, ipc, lost>>

\* while (!g_shutdown): one more second, or the shutdown.
TestShutdown ==
  /\ obc.pc = "loop"
  /\ \/ g_shutdown /\ StartBroadcast("SIGTERM")
     \/ /\ ~g_shutdown
        /\ obc' = [obc EXCEPT !.pc = "second"]
        /\ UNCHANGED <<waits, g_shutdown, g_pid, child, sigchld, ipc, lost>>

\* In one second of the mission, watchdog(), which runs in every other one,
\* takes the semaphore for its copies of the bus, and may broadcast a mode.
MissionSecond ==
  /\ obc.pc = "second"
  /\ \/ ~sem_lost /\ StartBroadcast("SIGUSR")
     \/ /\ obc' = [obc EXCEPT !.pc = "loop"]
        /\ UNCHANGED <<waits, g_shutdown, g_pid, child, sigchld, ipc, lost>>

AfterBroadcast == IF obc.signal = "SIGTERM" THEN "wait" ELSE "store"

\* After the broadcast watchdog() takes the semaphore again, for safe_mode.
StoreMode ==
  /\ obc.pc = "store" /\ ~sem_lost
  /\ obc' = [obc EXCEPT !.pc = "loop"]
  /\ UNCHANGED <<waits, g_shutdown, g_pid, child, sigchld, ipc, lost>>

\* g_pid > 0 is the first of two reads of g_pid: without optimisation the
\* compiler reads the variable, which is not volatile, again for the call.
CheckPid ==
  /\ obc.pc = "check"
  /\ IF g_pid[obc.next] THEN obc' = [obc EXCEPT !.pc = "kill"]
                        ELSE Proceed("check", AfterBroadcast)
  /\ UNCHANGED <<waits, g_shutdown, g_pid, child, sigchld, ipc, lost>>

\* What a signal does to a child: the handlers that a forked child inherits
\* do not outlive execlp(); before setup_child_signals() every signal kills.
Struck(c, s) ==
  CASE child[c] = "forked" /\ s = "SIGTERM" -> "zombie"
    [] child[c] = "exec" -> "zombie"
    [] child[c] = "ready" /\ s = "SIGTERM" -> "stopping"
    [] OTHER -> child[c]

Strike(targets, s) ==
  /\ child' = [c \in Children |-> IF c \in targets THEN Struck(c, s)
                                                   ELSE child[c]]
  /\ sigchld' = (sigchld \/ \E c \in targets \cap Running :
                              Struck(c, s) = "zombie")

\* broadcast_shutdown leaves out the last child.
KillChild_Bug ==
  /\ obc.pc = "kill"
  /\ LET c == obc.next
     IN  Strike(IF ~g_pid[c] THEN Children ELSE {c} \ {N}, obc.signal)
  /\ Proceed("check", AfterBroadcast)
  /\ UNCHANGED <<waits, g_shutdown, g_pid, ipc, lost>>

\* kill(g_pid): when handle_sigchld has reset it to -1 since the check, the
\* call is kill(-1), which signals every process that it may.  The pid of a
\* child that was reaped before AssignPid is nobody's, or a stranger's.
KillChild ==
  /\ obc.pc = "kill"
  /\ LET c == obc.next
     IN  Strike(IF g_pid[c] THEN {c} ELSE Children, obc.signal)
  /\ Proceed("check", AfterBroadcast)
  /\ UNCHANGED <<waits, g_shutdown, g_pid, ipc, lost>>

-----------------------------------------------------------------------------
(***************************************************************************)
(* main(): the end                                                         *)
(***************************************************************************)
AfterWait == IF waits + 1 = N THEN [obc EXCEPT !.pc = "clean"] ELSE obc

\* One of the four waits is missing.
WaitChild_Bug ==
  /\ obc.pc = "wait"
  /\ \/ \E c \in Zombies : child' = [child EXCEPT ![c] = "reaped"]
     \/ Unreaped = {} /\ UNCHANGED child
  /\ waits' = waits + 1
  /\ obc' = IF waits + 2 >= N THEN [obc EXCEPT !.pc = "clean"] ELSE obc
  /\ UNCHANGED <<g_shutdown, g_pid, sigchld, ipc, lost>>

\* wait(NULL) reaps a zombie, fails at once when there is no child left, and
\* blocks otherwise; wait_children calls it as often as there are children.
WaitChild ==
  /\ obc.pc = "wait"
  /\ \/ \E c \in Zombies : child' = [child EXCEPT ![c] = "reaped"]
     \/ Unreaped = {} /\ UNCHANGED child
  /\ waits' = waits + 1
  /\ obc' = AfterWait
  /\ UNCHANGED <<g_shutdown, g_pid, sigchld, ipc, lost>>

CleanIpc ==
  /\ obc.pc = "clean"
  /\ ipc' = FALSE
  /\ obc' = [obc EXCEPT !.pc = "done"]
  /\ UNCHANGED <<waits, g_shutdown, g_pid, child, sigchld, lost>>

-----------------------------------------------------------------------------
(***************************************************************************)
(* The OBC's signal handlers                                               *)
(***************************************************************************)
\* One child is reaped per SIGCHLD, as if signals were queued.
HandleSigchldOne_Bug ==
  /\ sigchld /\ obc.pc # "done"
  /\ sigchld' = FALSE
  /\ \/ Zombies = {} /\ UNCHANGED <<child, g_pid>>
     \/ \E c \in Zombies : /\ child' = [child EXCEPT ![c] = "reaped"]
                           /\ g_pid' = [g_pid EXCEPT ![c] = FALSE]
  /\ UNCHANGED <<obc, waits, g_shutdown, ipc, lost>>

\* A missing else: the first pid is reset whoever exited.
HandleSigchldElse_Bug ==
  /\ sigchld /\ obc.pc # "done"
  /\ sigchld' = FALSE
  /\ child' = [c \in Children |-> IF c \in Zombies THEN "reaped" ELSE child[c]]
  /\ g_pid' = [c \in Children |->
                 g_pid[c] /\ c \notin Zombies /\ (c = 1 => Zombies = {})]
  /\ UNCHANGED <<obc, waits, g_shutdown, ipc, lost>>

\* handle_sigchld interrupts main() anywhere; SIGCHLDs coalesce, so that it
\* loops until no zombie is left, and resets the pids that it recognises.
HandleSigchld ==
  /\ sigchld /\ obc.pc # "done"
  /\ sigchld' = FALSE
  /\ child' = [c \in Children |-> IF c \in Zombies THEN "reaped" ELSE child[c]]
  /\ g_pid' = [c \in Children |-> g_pid[c] /\ c \notin Zombies]
  /\ UNCHANGED <<obc, waits, g_shutdown, ipc, lost>>

\* Ctrl+C goes to the whole foreground group: the OBC's handler sets its
\* flag, a child that has just called execlp() dies, a ready one ignores it.
Interrupt ==
  /\ obc.pc # "done"
  /\ g_shutdown' = TRUE
  /\ Strike(Children, "SIGINT")
  /\ UNCHANGED <<obc, waits, g_pid, ipc, lost>>

-----------------------------------------------------------------------------
(***************************************************************************)
(* The children                                                            *)
(***************************************************************************)
Become(c, from, to) ==
  /\ child[c] = from
  /\ child' = [child EXCEPT ![c] = to]
  /\ UNCHANGED <<obc, waits, g_shutdown, g_pid, sigchld, ipc, lost>>

Exec(c) == Become(c, "forked", "exec")

InstallHandlers(c) == Become(c, "exec", "ready")

Exit(c) ==
  /\ child' = [child EXCEPT ![c] = "zombie"]
  /\ sigchld' = TRUE
  /\ UNCHANGED <<obc, waits, g_shutdown, g_pid, ipc, clogged>>

\* The main loop has seen g_shutdown: the threads are joined, the IPC objects
\* released, and the process exits.
Finish(c) == child[c] = "stopping" /\ Exit(c) /\ UNCHANGED sem_lost

\* All but the logger write the bus, with the semaphore in their hands.
UsesBus(c) == c # N /\ child[c] \in {"ready", "stopping"}

\* execlp() fails, an IPC object cannot be opened, or the process crashes,
\* which between sem_wait() and sem_post() takes the semaphore along.
Die(c) ==
  /\ c \in Running
  /\ Exit(c)
  /\ sem_lost' \in {sem_lost, sem_lost \/ UsesBus(c)}

\* The children that report fill the queue when no logger reads it: it was
\* not started, has ended, or has been told to stop.
Clog ==
  /\ ~clogged
  /\ child[N] \notin {"forked", "exec", "ready"}
  /\ \E c \in Children \ {N} : child[c] \in {"ready", "stopping"}
  /\ clogged' = TRUE
  /\ UNCHANGED <<obc, waits, g_shutdown, g_pid, child, sigchld, ipc, sem_lost>>

-----------------------------------------------------------------------------
Terminated == obc.pc = "done" /\ UNCHANGED vars

Next ==
  \/ Fork \/ ForkFails \/ AssignPid
  \/ TestShutdown \/ MissionSecond \/ StoreMode \/ CheckPid \/ KillChild
  \/ WaitChild \/ CleanIpc
  \/ HandleSigchld \/ Interrupt
  \/ \E c \in Children : Exec(c) \/ InstallHandlers(c) \/ Finish(c) \/ Die(c)
  \/ Clog
  \/ Terminated

Spec == Init /\ [][Next]_vars

\* What a told child may be waiting for in vain: sem_wait() on a semaphore
\* that a dead process took along, mq_send() to a queue that nobody reads.
Obstructed(c) == c # N /\ (sem_lost \/ clogged)

(***************************************************************************)
(* The OBC runs, unless watchdog() hangs in sem_wait(), which no signal    *)
(* interrupts (SA_RESTART); a pending SIGCHLD is handled even then; and a  *)
(* child that was told to stop does, unless it is obstructed.  Nothing is  *)
(* assumed of children that were not told.                                 *)
(***************************************************************************)
Fairness ==
  /\ WF_vars(Fork \/ ForkFails) /\ WF_vars(AssignPid)
  /\ WF_vars(TestShutdown) /\ WF_vars(~sem_lost /\ MissionSecond)
  /\ WF_vars(CheckPid) /\ WF_vars(KillChild) /\ WF_vars(StoreMode)
  /\ WF_vars(WaitChild) /\ WF_vars(CleanIpc)
  /\ WF_vars(HandleSigchld)
  /\ \A c \in Children : WF_vars(~Obstructed(c) /\ Finish(c))

FairSpec == Spec /\ Fairness

-----------------------------------------------------------------------------
(***************************************************************************)
(* Properties                                                              *)
(***************************************************************************)
\* Every variable stays in its domain.
TypeOK ==
  /\ obc \in [pc : Locations, next : Children, signal : Broadcasts]
  /\ waits \in Nat
  /\ g_shutdown \in BOOLEAN
  /\ g_pid \in [Children -> BOOLEAN]
  /\ child \in [Children -> Lives]
  /\ sigchld \in BOOLEAN
  /\ ipc \in BOOLEAN
  /\ sem_lost \in BOOLEAN
  /\ clogged \in BOOLEAN

(***************************************************************************)
(* The IPC objects are removed only when no child is left that could use   *)
(* them, nor any zombie: the four calls of wait() are enough although      *)
(* handle_sigchld takes children away from them at any moment.             *)
(***************************************************************************)
CleanupAfterLastChild ==
  /\ obc.pc \in {"clean", "done"} => Unreaped = {}
  /\ ipc \/ obc.pc = "done"

(***************************************************************************)
(* Whoever runs can be signalled: main() knows the pid of every running    *)
(* child but the one it is just assigning, and knows no pid of a child     *)
(* that it has not started.  handle_sigchld never loses a pid of another.  *)
(***************************************************************************)
RunningChildrenKnown ==
  /\ \A c \in Running :
       ~g_pid[c] => obc.pc = "assign" /\ c = StartOrder(obc.next)
  /\ \A c \in Children : g_pid[c] => child[c] # "unborn"

(***************************************************************************)
(* main() as a Supervision of its children.                                *)
(***************************************************************************)
Phase == CASE obc.pc \in {"check", "kill"} /\ obc.signal = "SIGTERM"
                -> "stopping"
           [] obc.pc \in {"wait", "clean"} -> "waiting"
           [] obc.pc = "done" -> "closed"
           [] OTHER -> "mission"

Status(c) == CASE child[c] = "unborn" -> "absent"
               [] child[c] \in {"forked", "exec", "ready"} -> "up"
               [] child[c] = "stopping" -> "told"
               [] child[c] = "zombie" -> "zombie"
               [] child[c] = "reaped" -> "buried"

Supervisor == INSTANCE Supervision
                WITH Child <- Children, phase <- Phase,
                     status <- [c \in Children |-> Status(c)]

\* The children are started, stopped, waited for and outlived in the order
\* that Supervision allows, whatever dies or interrupts meanwhile.
SupervisionSafe == Supervisor!Spec

(***************************************************************************)
(* SIGINT leads to the end of the OBC, whenever it comes and whichever     *)
(* children die on their own meanwhile, but for two obstacles: one of them *)
(* died with the semaphore in its hands (main.c:67 and the bus writers     *)
(* then wait for ever), or the queue filled up with no logger left to read *)
(* it (the children that report then wait for ever, and wait() with them). *)
(***************************************************************************)
ShutdownTerminates == g_shutdown ~> (obc.pc = "done" \/ sem_lost \/ clogged)

\* README.md:297 "zero zombie processes": each is reaped, in the mission too,
\* although SIGCHLDs coalesce.
ZombiesReaped == \A c \in Children : child[c] = "zombie" ~> child[c] = "reaped"

(***************************************************************************)
(* signal_handler.h:42-44: a broadcast "sends [a signal] to all children": *)
(* when it comes to kill(), the pid is that of a child, never -1, which    *)
(* would send the signal to every process of the system.                   *)
(***************************************************************************)
NeverKillsEverybody == obc.pc = "kill" => g_pid[obc.next]
=============================================================================
