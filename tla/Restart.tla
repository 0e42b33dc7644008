------------------------------ MODULE Restart ------------------------------
(***************************************************************************)
(* The IPC objects over several runs of the program: the names under which *)
(* main() creates the shared memory, the semaphore, the message queue and  *)
(* the FIFO outlive a run that crashes, and so do its children, which      *)
(* nobody stops; the next run opens what it finds.  clean_ipc removes the  *)
(* names, one after another, and the run may crash in between.             *)
(*                                                                         *)
(* Sources: main.c, ipc/shm_manager.c, ipc/msgq_manager.c,                 *)
(* ipc/fifo_manager.c, and what main() of each subsystem opens.            *)
(*                                                                         *)
(* A run is started when the OBC of the one before is gone and its         *)
(* children have opened what they use.  What is in the objects, the value  *)
(* of the semaphores excepted, is left out.                                *)
(*                                                                         *)
(* A definition whose name ends in _Bug is the definition after it with a  *)
(* plausible mistake in it; the specification does not use it.             *)
(***************************************************************************)
EXTENDS Integers, Sequences

CONSTANTS
  Child,       \* the subsystems of this instance
  MaxRuns      \* bound: how often the program is started

ASSUME RestartAssumption ==
  /\ Child \subseteq {"POWER", "THERMAL", "COMMS", "LOGGER"}
  /\ MaxRuns \in Nat \ {0}

Kinds == {"shm", "sem", "mq", "fifo"}

\* What init_ipc creates, one after another, and clean_ipc removes.
IpcOrder == <<"shm", "sem", "mq", "fifo">>

\* The semaphore is removed first.
CleanOrder_Bug == <<"sem", "shm", "mq", "fifo">>

CleanOrder == <<"shm", "sem", "mq", "fifo">>

Run == 1..MaxRuns

\* An object is known by the run that has created it.
Object == Run
None == 0

OBC == "OBC"

Process == [run : Run, is : Child \cup {OBC}]

\* What main() of a subsystem opens.  (The OBC only creates the FIFO.)
Uses(is) == CASE is = "LOGGER" -> {"mq"}
              [] is = "COMMS"  -> Kinds
              [] OTHER         -> {"shm", "sem", "mq"}

VARIABLES
  obc,       \* the number of the run, where main() is, the next IPC object
  names,     \* the object that each name stands for, or None
  sem,       \* the value of each semaphore
  running,   \* the processes that run, orphans of earlier runs included
  has,       \* the objects that each process has opened
  inside,    \* who is between sem_wait and sem_post, or died there
  ended      \* history: the runs that ended with a complete clean_ipc

vars == <<obc, names, sem, running, has, inside, ended>>

Self == [run |-> obc.run, is |-> OBC]

Init ==
  /\ obc = [run |-> 1, at |-> "init", next |-> 1]
  /\ names = [k \in Kinds |-> None]
  /\ sem = [o \in Object |-> 1]
  /\ running = {[run |-> 1, is |-> OBC]}
  /\ has = [p \in Process |-> [k \in Kinds |-> None]]
  /\ inside = {}
  /\ ended = {}

-----------------------------------------------------------------------------
(***************************************************************************)
(* The start of a run                                                      *)
(***************************************************************************)
\* The FIFO of an earlier run is taken over.
Opened_Bug(k) == IF names[k] = None THEN obc.run ELSE names[k]

\* O_CREAT opens what is there already; fifo_create removes it first.
Opened(k) == IF names[k] = None \/ k = "fifo" THEN obc.run ELSE names[k]

\* sem_create sets the value of a semaphore that is there already.
InitIpc_Bug ==
  /\ obc.at = "init"
  /\ LET k == IpcOrder[obc.next]
     IN  /\ names' = [names EXCEPT ![k] = Opened(k)]
         /\ has' = IF k \in Uses(OBC)
                   THEN [has EXCEPT ![Self][k] = Opened(k)] ELSE has
         /\ sem' = IF k = "sem" THEN [sem EXCEPT ![Opened(k)] = 1] ELSE sem
  /\ obc' = IF obc.next = Len(IpcOrder) THEN [obc EXCEPT !.at = "up"]
                                        ELSE [obc EXCEPT !.next = @ + 1]
  /\ UNCHANGED <<running, inside, ended>>

\* shm_create, sem_create, msgq_create or fifo_create.  The initial value is
\* that of a new semaphore: one that is there keeps its own.
InitIpc ==
  /\ obc.at = "init"
  /\ LET k == IpcOrder[obc.next]
     IN  /\ names' = [names EXCEPT ![k] = Opened(k)]
         /\ has' = IF k \in Uses(OBC)
                   THEN [has EXCEPT ![Self][k] = Opened(k)] ELSE has
  /\ obc' = IF obc.next = Len(IpcOrder) THEN [obc EXCEPT !.at = "up"]
                                        ELSE [obc EXCEPT !.next = @ + 1]
  /\ UNCHANGED <<sem, running, inside, ended>>

\* start_process, and the beginning of main() of the child.
Start(c) ==
  LET p == [run |-> obc.run, is |-> c]
  IN  /\ obc.at = "up"
      /\ p \notin running /\ has[p] = [k \in Kinds |-> None]
      /\ running' = running \cup {p}
      /\ has' = [has EXCEPT ![p] = [k \in Kinds |-> IF k \in Uses(c)
                                                    THEN names[k] ELSE None]]
      /\ UNCHANGED <<obc, names, sem, inside, ended>>

-----------------------------------------------------------------------------
(***************************************************************************)
(* The telemetry bus                                                       *)
(***************************************************************************)
MaySem(p) == p \in running /\ (p.is = OBC => obc.at = "up")

SemWait(p) ==
  /\ MaySem(p) /\ p \notin inside
  /\ has[p]["sem"] # None /\ sem[has[p]["sem"]] > 0
  /\ sem' = [sem EXCEPT ![has[p]["sem"]] = @ - 1]
  /\ inside' = inside \cup {p}
  /\ UNCHANGED <<obc, names, running, has, ended>>

\* An error path posts what it has not taken.
SemPost_Bug(p) ==
  /\ MaySem(p) /\ has[p]["sem"] # None
  /\ sem' = [sem EXCEPT ![has[p]["sem"]] = @ + 1]
  /\ inside' = inside \ {p}
  /\ UNCHANGED <<obc, names, running, has, ended>>

SemPost(p) ==
  /\ MaySem(p) /\ p \in inside
  /\ sem' = [sem EXCEPT ![has[p]["sem"]] = @ + 1]
  /\ inside' = inside \ {p}
  /\ UNCHANGED <<obc, names, running, has, ended>>

-----------------------------------------------------------------------------
(***************************************************************************)
(* Crashes, the end of a run, and the next                                 *)
(***************************************************************************)
\* What the process has taken stays taken.
Die(p) ==
  /\ p \in running /\ p.is # OBC
  /\ running' = running \ {p}
  /\ UNCHANGED <<obc, names, sem, has, inside, ended>>

\* The OBC crashes, anywhere; its children go on.
CrashObc ==
  /\ Self \in running
  /\ obc' = [obc EXCEPT !.at = "gone"]
  /\ running' = running \ {Self}
  /\ UNCHANGED <<names, sem, has, inside, ended>>

\* broadcast_shutdown, which reaches the children of this run.
Shutdown ==
  /\ obc.at = "up" /\ Self \notin inside
  /\ obc' = [obc EXCEPT !.at = "stopping"]
  /\ UNCHANGED <<names, sem, running, has, inside, ended>>

Stop(p) ==
  /\ obc.at = "stopping"
  /\ p \in running \ inside /\ p.run = obc.run /\ p.is # OBC
  /\ running' = running \ {p}
  /\ UNCHANGED <<obc, names, sem, has, inside, ended>>

\* The last of wait_children.
WaitChildren ==
  /\ obc.at = "stopping"
  /\ \A p \in running : p.run = obc.run => p = Self
  /\ obc' = [obc EXCEPT !.at = "clean", !.next = 1]
  /\ UNCHANGED <<names, sem, running, has, inside, ended>>

\* sem_destroy_handle closes the handle and keeps the name.
CleanIpc_Bug ==
  /\ obc.at = "clean"
  /\ names' = IF CleanOrder[obc.next] = "sem" THEN names
              ELSE [names EXCEPT ![CleanOrder[obc.next]] = None]
  /\ IF obc.next = Len(CleanOrder)
     THEN /\ obc' = [obc EXCEPT !.at = "gone"]
          /\ running' = running \ {Self}
          /\ ended' = ended \cup {obc.run}
     ELSE /\ obc' = [obc EXCEPT !.next = @ + 1]
          /\ UNCHANGED <<running, ended>>
  /\ UNCHANGED <<sem, has, inside>>

\* shm_destroy, sem_destroy_handle, msgq_destroy or fifo_destroy: the object
\* lasts until nobody has it open.
CleanIpc ==
  /\ obc.at = "clean"
  /\ names' = [names EXCEPT ![CleanOrder[obc.next]] = None]
  /\ IF obc.next = Len(CleanOrder)
     THEN /\ obc' = [obc EXCEPT !.at = "gone"]
          /\ running' = running \ {Self}
          /\ ended' = ended \cup {obc.run}
     ELSE /\ obc' = [obc EXCEPT !.next = @ + 1]
          /\ UNCHANGED <<running, ended>>
  /\ UNCHANGED <<sem, has, inside>>

NextRun ==
  /\ obc.at = "gone" /\ obc.run < MaxRuns
  /\ obc' = [run |-> obc.run + 1, at |-> "init", next |-> 1]
  /\ running' = running \cup {[run |-> obc.run + 1, is |-> OBC]}
  /\ UNCHANGED <<names, sem, has, inside, ended>>

-----------------------------------------------------------------------------
Next ==
  \/ InitIpc \/ CrashObc \/ Shutdown \/ WaitChildren \/ CleanIpc \/ NextRun
  \/ \E c \in Child : Start(c)
  \/ \E p \in Process : SemWait(p) \/ SemPost(p) \/ Die(p) \/ Stop(p)

Spec == Init /\ [][Next]_vars

-----------------------------------------------------------------------------
(***************************************************************************)
(* Properties                                                              *)
(***************************************************************************)
\* Every variable stays in its domain.
TypeOK ==
  /\ obc \in [run : Run, next : 1..4,
              at : {"init", "up", "stopping", "clean", "gone"}]
  /\ names \in [Kinds -> Object \cup {None}]
  /\ sem \in [Object -> {0, 1}]
  /\ running \subseteq Process
  /\ has \in [Process -> [Kinds -> Object \cup {None}]]
  /\ inside \subseteq Process
  /\ ended \subseteq Run

(***************************************************************************)
(* A semaphore excludes the processes of all the runs that have it open:   *)
(* its value is 1 exactly when nobody has taken it, living or dead, and it *)
(* is never taken twice, although each run creates it anew with value 1.   *)
(***************************************************************************)
SemExcludes ==
  /\ \A o \in Object :
       sem[o] = 1 <=> \A p \in inside : has[p]["sem"] # o
  /\ \A p, q \in inside : has[p]["sem"] = has[q]["sem"] => p = q

(***************************************************************************)
(* Processes that share a bus share the semaphore that guards it, orphans  *)
(* of earlier runs included, wherever a run has crashed.  It takes the     *)
(* order of clean_ipc: the bus goes first.                                 *)
(***************************************************************************)
SharedBusSharedSem ==
  \A p, q \in running :
    /\ has[p]["shm"] # None /\ has[p]["shm"] = has[q]["shm"]
    /\ has[p]["sem"] # None /\ has[q]["sem"] # None
    => has[p]["sem"] = has[q]["sem"]

(***************************************************************************)
(* At most one living process reads the FIFO that the ground writes to:    *)
(* an orphan of an earlier run never takes a command from the comms        *)
(* process of this one.                                                    *)
(***************************************************************************)
OneGroundReader ==
  \A p, q \in running :
    has[p]["fifo"] = names["fifo"] /\ has[q]["fifo"] = names["fifo"]
    /\ names["fifo"] # None => p = q

(***************************************************************************)
(* A complete clean_ipc heals: no process started after it shares anything *)
(* with one started before it, be it an orphan, or dead with the semaphore *)
(* taken or with reports left in the queue.                                *)
(***************************************************************************)
CleanEndHeals ==
  \A e \in ended, p, q \in Process, k \in Kinds :
    p.run <= e /\ e < q.run /\ has[p][k] # None => has[p][k] # has[q][k]
=============================================================================
