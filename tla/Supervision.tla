---------------------------- MODULE Supervision ----------------------------
(***************************************************************************)
(* What the OBC promises as the parent of its subsystems, with pids,       *)
(* signal handlers, broadcasts and the calls of wait() left out: children  *)
(* are started in the mission only; a shutdown waits only when each child  *)
(* that still runs has been told to stop; what the children share is       *)
(* removed only when each of them has ended and was buried, and from then  *)
(* on nothing happens.                                                     *)
(*                                                                         *)
(* Children do not wait for each other: a signal to the process group may  *)
(* end several in one step, and so may a handler bury several.             *)
(***************************************************************************)
CONSTANT Child

VARIABLES phase,          \* of the supervisor
          status          \* of each child

vars == <<phase, status>>

Phases == {"mission", "stopping", "waiting", "closed"}
Statuses == {"absent", "up", "told", "zombie", "buried"}

Init == /\ phase = "mission"
        /\ status = [c \in Child |-> "absent"]

Changes(c, from, to) == status[c] = from /\ status'[c] = to

Start(c) == phase = "mission" /\ Changes(c, "absent", "up")

Tell(c) == phase = "stopping" /\ Changes(c, "up", "told")

End(c) == Changes(c, "up", "zombie") \/ Changes(c, "told", "zombie")

Bury(c) == Changes(c, "zombie", "buried")

Stop == phase = "mission" /\ phase' = "stopping"

Await == /\ phase = "stopping" /\ phase' = "waiting"
         /\ \A c \in Child : status'[c] # "up"

Close == /\ phase = "waiting" /\ phase' = "closed"
         /\ \A c \in Child : status[c] \in {"absent", "buried"}

Next ==
  /\ Stop \/ Await \/ Close \/ UNCHANGED phase
  /\ status' \in [Child -> Statuses]
  /\ \A c \in Child : \/ Start(c) \/ Tell(c) \/ End(c) \/ Bury(c)
                      \/ status'[c] = status[c]

Spec == Init /\ [][Next]_vars
=============================================================================
