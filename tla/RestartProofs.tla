--------------------------- MODULE RestartProofs ---------------------------
(***************************************************************************)
(* Theorems about Restart, for any subsystems and any number of runs: a    *)
(* semaphore excludes across runs, processes with the same bus have the    *)
(* same semaphore, one process reads the ground's FIFO, and a complete     *)
(* clean_ipc separates the runs before it from those after it.             *)
(*                                                                         *)
(* The argument: an object is known by the run that created it, so that    *)
(* what a process or a name can stand for is bounded by when it came to    *)
(* be; and names are created and removed in an order.                      *)
(***************************************************************************)
EXTENDS Restart, TLAPS

USE DEF OBC, None, Object, Run

\* Who takes part in a run has been started in it or before; until it is up,
\* only main() runs in it; and the only living OBC is that of this run.
RunInv ==
  /\ \A p \in running \cup inside : p.run <= obc.run
  /\ \A p \in running : p.is = OBC => p = Self /\ obc.at # "gone"
  /\ obc.at = "init" =>
       /\ \A p \in running : p.run = obc.run => p = Self
       /\ \A p \in inside : p.run < obc.run

\* SemExcludes, and whoever has taken a semaphore has one.
SemInv ==
  /\ SemExcludes
  /\ \A p \in inside : has[p]["sem"] # None

\* A process that is not started has opened nothing; main() opens in order.
Fresh ==
  /\ \A p \in Process, k \in Kinds :
       \/ p.run > obc.run
       \/ obc.at = "init" /\ p.run = obc.run /\ p.is # OBC
       => has[p][k] = None
  /\ obc.at = "init" /\ obc.next = 1 => has[Self]["shm"] = None
  /\ obc.at = "init" /\ obc.next <= 2 => has[Self]["sem"] = None

\* No object is younger than whoever has it open, or than the current run.
Age ==
  /\ \A k \in Kinds : names[k] <= obc.run
  /\ \A p \in Process, k \in Kinds : has[p][k] <= p.run

\* The FIFO is the one of the run, and only a comms process has it open.
Fifo ==
  /\ obc.at = "up" => names["fifo"] = obc.run
  /\ \A p \in Process : has[p]["fifo"] # None
       => has[p]["fifo"] = p.run /\ p.is = "COMMS"

\* How far clean_ipc has come.
Cleaned ==
  obc.at = "clean" =>
    /\ obc.next >= 2 => names["shm"] = None
    /\ obc.next >= 3 => names["sem"] = None
    /\ obc.next >= 4 => names["mq"] = None

\* After a complete clean_ipc names and new processes have new objects only.
Healed ==
  \A e \in ended :
    /\ e <= obc.run /\ (e = obc.run => obc.at = "gone")
    /\ \A k \in Kinds : names[k] = None \/ names[k] > e
    /\ \A q \in Process, k \in Kinds :
         q.run > e => has[q][k] = None \/ has[q][k] > e

\* Whoever has the bus that the name stands for has the semaphore, if any,
\* that its name stands for; and the bus determines the semaphore.
Paired ==
  /\ names["shm"] # None =>
       \A p \in Process :
         has[p]["shm"] = names["shm"] /\ has[p]["sem"] # None
           => has[p]["sem"] = names["sem"]
  /\ \A p, q \in Process :
       /\ has[p]["shm"] # None /\ has[p]["shm"] = has[q]["shm"]
       /\ has[p]["sem"] # None /\ has[q]["sem"] # None
       => has[p]["sem"] = has[q]["sem"]
  /\ obc.at = "init" /\ obc.next >= 2 => has[Self]["shm"] = names["shm"]

\* What concerns names and objects.
ObjInv == Fresh /\ Age /\ Fifo /\ Cleaned /\ Healed /\ Paired

Inv == TypeOK /\ RunInv /\ SemInv /\ ObjInv

-----------------------------------------------------------------------------
(***************************************************************************)
(* Lemmas about the actions                                                *)
(***************************************************************************)
\* What each of the four steps of init_ipc does.
LEMMA InitEffect ==
  ASSUME TypeOK, InitIpc
  PROVE  /\ obc.at = "init" /\ obc'.run = obc.run
         /\ UNCHANGED <<sem, running, inside, ended>>
         /\ \/ /\ obc.next = 1 /\ obc'.at = "init" /\ obc'.next = 2
               /\ names' = [names EXCEPT !["shm"] = Opened("shm")]
               /\ has' = [has EXCEPT ![Self]["shm"] = Opened("shm")]
            \/ /\ obc.next = 2 /\ obc'.at = "init" /\ obc'.next = 3
               /\ names' = [names EXCEPT !["sem"] = Opened("sem")]
               /\ has' = [has EXCEPT ![Self]["sem"] = Opened("sem")]
            \/ /\ obc.next = 3 /\ obc'.at = "init" /\ obc'.next = 4
               /\ names' = [names EXCEPT !["mq"] = Opened("mq")]
               /\ has' = [has EXCEPT ![Self]["mq"] = Opened("mq")]
            \/ /\ obc.next = 4 /\ obc'.at = "up" /\ obc'.next = 4
               /\ names' = [names EXCEPT !["fifo"] = Opened("fifo")]
               /\ has' = has
<1>1. obc \in [run : Run, next : 1..4,
               at : {"init", "up", "stopping", "clean", "gone"}]
  BY DEF TypeOK
<1>2. Len(IpcOrder) = 4
  BY DEF IpcOrder
<1>3. Uses("OBC") = {"shm", "sem", "mq"}
  BY DEF Uses
<1>4. obc.next = 1 \/ obc.next = 2 \/ obc.next = 3 \/ obc.next = 4
  BY <1>1
<1>5. CASE obc.next = 1
  <2>1. IpcOrder[obc.next] = "shm"
    BY <1>5 DEF IpcOrder
  <2> QED BY <1>1, <1>2, <1>3, <1>5, <2>1 DEF InitIpc
<1>6. CASE obc.next = 2
  <2>1. IpcOrder[obc.next] = "sem"
    BY <1>6 DEF IpcOrder
  <2> QED BY <1>1, <1>2, <1>3, <1>6, <2>1 DEF InitIpc
<1>7. CASE obc.next = 3
  <2>1. IpcOrder[obc.next] = "mq"
    BY <1>7 DEF IpcOrder
  <2> QED BY <1>1, <1>2, <1>3, <1>7, <2>1 DEF InitIpc
<1>8. CASE obc.next = 4
  <2>1. IpcOrder[obc.next] = "fifo"
    BY <1>8 DEF IpcOrder
  <2> QED BY <1>1, <1>2, <1>3, <1>8, <2>1 DEF InitIpc
<1> QED BY <1>4, <1>5, <1>6, <1>7, <1>8

\* An opened object is an object, and not younger than the run.
LEMMA OpenedObject ==
  ASSUME TypeOK, Age, NEW k \in Kinds
  PROVE  Opened(k) \in Object /\ Opened(k) <= obc.run
BY RestartAssumption DEF TypeOK, Age, Opened

\* What each of the four steps of clean_ipc does.
LEMMA CleanEffect ==
  ASSUME TypeOK, CleanIpc
  PROVE  /\ obc.at = "clean" /\ obc'.run = obc.run
         /\ UNCHANGED <<sem, has, inside>>
         /\ \/ /\ obc.next = 1 /\ obc'.at = "clean" /\ obc'.next = 2
               /\ names' = [names EXCEPT !["shm"] = None]
               /\ UNCHANGED <<running, ended>>
            \/ /\ obc.next = 2 /\ obc'.at = "clean" /\ obc'.next = 3
               /\ names' = [names EXCEPT !["sem"] = None]
               /\ UNCHANGED <<running, ended>>
            \/ /\ obc.next = 3 /\ obc'.at = "clean" /\ obc'.next = 4
               /\ names' = [names EXCEPT !["mq"] = None]
               /\ UNCHANGED <<running, ended>>
            \/ /\ obc.next = 4 /\ obc'.at = "gone" /\ obc'.next = 4
               /\ names' = [names EXCEPT !["fifo"] = None]
               /\ running' = running \ {Self}
               /\ ended' = ended \cup {obc.run}
<1>1. obc \in [run : Run, next : 1..4,
               at : {"init", "up", "stopping", "clean", "gone"}]
  BY DEF TypeOK
<1>2. Len(CleanOrder) = 4
  BY DEF CleanOrder
<1>4. obc.next = 1 \/ obc.next = 2 \/ obc.next = 3 \/ obc.next = 4
  BY <1>1
<1>5. CASE obc.next = 1
  <2>1. CleanOrder[obc.next] = "shm"
    BY <1>5 DEF CleanOrder
  <2> QED BY <1>1, <1>2, <1>5, <2>1 DEF CleanIpc
<1>6. CASE obc.next = 2
  <2>1. CleanOrder[obc.next] = "sem"
    BY <1>6 DEF CleanOrder
  <2> QED BY <1>1, <1>2, <1>6, <2>1 DEF CleanIpc
<1>7. CASE obc.next = 3
  <2>1. CleanOrder[obc.next] = "mq"
    BY <1>7 DEF CleanOrder
  <2> QED BY <1>1, <1>2, <1>7, <2>1 DEF CleanIpc
<1>8. CASE obc.next = 4
  <2>1. CleanOrder[obc.next] = "fifo"
    BY <1>8 DEF CleanOrder
  <2> QED BY <1>1, <1>2, <1>8, <2>1 DEF CleanIpc
<1> QED BY <1>4, <1>5, <1>6, <1>7, <1>8

\* What a subsystem has opened once it is started.
LEMMA StartEffect ==
  ASSUME TypeOK, NEW c \in Child, Start(c)
  PROVE  LET p == [run |-> obc.run, is |-> c]
         IN  /\ p \in Process /\ c # OBC
             /\ obc.at = "up" /\ UNCHANGED <<obc, names, sem, inside, ended>>
             /\ running' = running \cup {p}
             /\ has[p] = [k \in Kinds |-> None]
             /\ \A q \in Process : q # p => has'[q] = has[q]
             /\ has'[p] \in [Kinds -> Object \cup {None}]
             /\ \A k \in Kinds : has'[p][k] \in {names[k], None}
             /\ has'[p]["fifo"] # None => c = "COMMS"
             /\ has'[p]["sem"] # None => has'[p]["sem"] = names["sem"]
<1> DEFINE p == [run |-> obc.run, is |-> c]
<1>1. p \in Process /\ c # OBC
  BY RestartAssumption DEF TypeOK, Process
<1>2. has' = [has EXCEPT ![p] = [k \in Kinds |-> IF k \in Uses(c)
                                                 THEN names[k] ELSE None]]
  BY DEF Start
<1>3. has'[p] = [k \in Kinds |-> IF k \in Uses(c) THEN names[k] ELSE None]
  BY <1>1, <1>2 DEF TypeOK
<1>4. has'[p] \in [Kinds -> Object \cup {None}]
  BY <1>3 DEF TypeOK
<1>5. \A k \in Kinds : has'[p][k] \in {names[k], None}
  BY <1>3
<1>6. has'[p]["fifo"] # None => c = "COMMS"
  BY <1>3, RestartAssumption DEF Kinds, Uses
<1>7. \A q \in Process : q # p => has'[q] = has[q]
  BY <1>1, <1>2 DEF TypeOK
<1> QED BY <1>1, <1>3, <1>4, <1>5, <1>6, <1>7 DEF Start, Kinds

-----------------------------------------------------------------------------
(***************************************************************************)
(* The invariant                                                           *)
(***************************************************************************)
\* It holds when the program is started for the first time.
LEMMA InitInv == Init => Inv
<1> SUFFICES ASSUME Init PROVE Inv
  OBVIOUS
<1> USE RestartAssumption
<1>1. [run |-> 1, is |-> OBC] \in Process
  BY DEF Process
<1>2. TypeOK
  BY <1>1 DEF Init, TypeOK
<1>3. RunInv
  BY DEF Init, RunInv, Self
<1>4. SemInv
  BY DEF Init, SemInv, SemExcludes
<1>5. \A p \in Process, k \in Kinds : has[p][k] = None
  BY DEF Init
<1>6. Self \in Process /\ "shm" \in Kinds /\ "sem" \in Kinds /\ "fifo" \in Kinds
  BY <1>1 DEF Init, Self, Kinds
<1>7. Fresh /\ Age /\ Fifo /\ Paired
  BY <1>5, <1>6 DEF Init, Fresh, Age, Fifo, Paired, Process
<1>8. Cleaned /\ Healed
  BY DEF Init, Cleaned, Healed
<1> QED BY <1>2, <1>3, <1>4, <1>7, <1>8 DEF Inv, ObjInv

\* Main() of the run is a process.
LEMMA SelfProcess ==
  ASSUME TypeOK
  PROVE  Self \in Process /\ Self.run = obc.run /\ Self.is = OBC
BY DEF TypeOK, Self, Process

\* Every step keeps the variables in their domains.
LEMMA TypeNext ==
  ASSUME Inv, Next
  PROVE  TypeOK'
<1> USE RestartAssumption
<1>0. TypeOK /\ SemInv /\ Age
  BY DEF Inv, ObjInv
<1>1. CASE InitIpc
  <2>1. \A k \in Kinds : Opened(k) \in Object
    BY <1>0, OpenedObject
  <2>2. obc' \in [run : Run, next : 1..4,
                 at : {"init", "up", "stopping", "clean", "gone"}]
    <3>1. obc.next # Len(IpcOrder) => obc.next + 1 \in 1..4
      BY <1>0, SMT DEF TypeOK, IpcOrder
    <3> QED BY <1>0, <1>1, <3>1 DEF InitIpc, TypeOK
  <2>3. names' \in [Kinds -> Object \cup {None}]
    BY <1>0, <1>1, <2>1, InitEffect DEF TypeOK, Kinds
  <2>4. has' \in [Process -> [Kinds -> Object \cup {None}]]
    <3>1. ASSUME NEW k \in Kinds
          PROVE  [has EXCEPT ![Self][k] = Opened(k)]
                   \in [Process -> [Kinds -> Object \cup {None}]]
      <4>1. has \in [Process -> [Kinds -> Object \cup {None}]]
        BY <1>0 DEF TypeOK
      <4>2. [has[Self] EXCEPT ![k] = Opened(k)] \in [Kinds -> Object \cup {None}]
        BY <1>0, <2>1, <4>1, SelfProcess
      <4> QED BY <1>0, <4>1, <4>2, SelfProcess
    <3>2. has \in [Process -> [Kinds -> Object \cup {None}]]
      BY <1>0 DEF TypeOK
    <3> QED BY <1>0, <1>1, <3>1, <3>2, InitEffect DEF Kinds
  <2> QED BY <1>0, <1>1, <2>2, <2>3, <2>4 DEF TypeOK, InitIpc
<1>2. CASE CrashObc
  BY <1>0, <1>2 DEF CrashObc, TypeOK
<1>3. CASE Shutdown
  BY <1>0, <1>3 DEF Shutdown, TypeOK
<1>4. CASE WaitChildren
  <2>1. obc' = [run |-> obc.run, at |-> "clean", next |-> 1]
    <3>1. obc \in [run : Run, next : 1..4,
                  at : {"init", "up", "stopping", "clean", "gone"}]
      BY <1>0 DEF TypeOK
    <3> QED BY <1>4, <3>1, Zenon DEF WaitChildren
  <2>2. obc' \in [run : Run, next : 1..4,
                 at : {"init", "up", "stopping", "clean", "gone"}]
    BY <1>0, <2>1 DEF TypeOK
  <2> QED BY <1>0, <1>4, <2>2 DEF WaitChildren, TypeOK
<1>5. CASE CleanIpc
  <2>1. obc' \in [run : Run, next : 1..4,
                 at : {"init", "up", "stopping", "clean", "gone"}]
    <3>1. obc.next # Len(CleanOrder) => obc.next + 1 \in 1..4
      BY <1>0, SMT DEF TypeOK, CleanOrder
    <3> QED BY <1>0, <1>5, <3>1 DEF CleanIpc, TypeOK
  <2>2. names' \in [Kinds -> Object \cup {None}]
    BY <1>0, <1>5 DEF CleanIpc, TypeOK
  <2>3. running' \subseteq Process /\ ended' \subseteq Run
    BY <1>0, <1>5 DEF CleanIpc, TypeOK
  <2> QED BY <1>0, <1>5, <2>1, <2>2, <2>3 DEF CleanIpc, TypeOK
<1>6. CASE NextRun
  <2>1. obc.run + 1 \in Run
    BY <1>0, <1>6 DEF NextRun, TypeOK
  <2>2. [run |-> obc.run + 1, is |-> OBC] \in Process
    BY <2>1 DEF Process
  <2> QED BY <1>0, <1>6, <2>1, <2>2 DEF NextRun, TypeOK
<1>7. ASSUME NEW c \in Child, Start(c)
      PROVE  TypeOK'
  <2> DEFINE p == [run |-> obc.run, is |-> c]
  <2>1. p \in Process
    BY <1>0, <1>7, StartEffect
  <2>2. has' \in [Process -> [Kinds -> Object \cup {None}]]
    BY <1>0, <1>7 DEF Start, TypeOK
  <2> QED BY <1>0, <1>7, <2>1, <2>2 DEF TypeOK, Start
<1>8. ASSUME NEW p \in Process, SemWait(p)
      PROVE  TypeOK'
  <2>1. has[p]["sem"] \in Object
    BY <1>0, <1>8 DEF SemWait, TypeOK, Kinds
  <2>2. sem[has[p]["sem"]] = 1
    BY <1>0, <1>8, <2>1 DEF SemWait, TypeOK
  <2> QED BY <1>0, <1>8, <2>1, <2>2 DEF SemWait, TypeOK
<1>9. ASSUME NEW p \in Process, SemPost(p)
      PROVE  TypeOK'
  <2>1. has[p]["sem"] \in Object
    BY <1>0, <1>9 DEF SemPost, SemInv, TypeOK, Kinds
  <2>2. sem[has[p]["sem"]] = 0
    BY <1>0, <1>9, <2>1 DEF SemPost, SemInv, SemExcludes, TypeOK
  <2> QED BY <1>0, <1>9, <2>1, <2>2 DEF SemPost, TypeOK
<1>10. ASSUME NEW p \in Process, Die(p) \/ Stop(p)
       PROVE  TypeOK'
  BY <1>0, <1>10 DEF Die, Stop, TypeOK
<1> QED BY <1>1, <1>2, <1>3, <1>4, <1>5, <1>6, <1>7, <1>8, <1>9, <1>10 DEF Next

\* Every step keeps track of who takes part in which run.
LEMMA RunNext ==
  ASSUME Inv, Next
  PROVE  RunInv'
<1> USE RestartAssumption
<1>0. TypeOK /\ RunInv
  BY DEF Inv
<1>1. obc.run \in Run /\ \A p \in running \cup inside : p.run \in Run
  BY <1>0 DEF TypeOK, Process
<1>2. CASE InitIpc
  BY <1>0, <1>2, InitEffect DEF RunInv, Self
<1>3. CASE CrashObc
  BY <1>0, <1>3 DEF CrashObc, RunInv, Self, TypeOK
<1>4. CASE Shutdown
  BY <1>0, <1>4 DEF Shutdown, RunInv, Self, TypeOK
<1>5. CASE WaitChildren
  BY <1>0, <1>5 DEF WaitChildren, RunInv, Self, TypeOK
<1>6. CASE CleanIpc
  BY <1>0, <1>6, CleanEffect DEF RunInv, Self
<1>7. CASE NextRun
  <2> DEFINE q == [run |-> obc.run + 1, is |-> OBC]
  <2>1. q.run = obc'.run /\ Self' = q /\ obc'.run = obc.run + 1
    BY <1>7 DEF NextRun, Self
  <2>2. \A p \in running \cup inside : p.run < obc'.run
    BY <1>0, <1>1, <2>1 DEF RunInv
  <2>3. \A p \in running : p.is # OBC
    BY <1>0, <1>7 DEF NextRun, RunInv
  <2>4. running' = running \cup {q} /\ inside' = inside /\ obc'.at = "init"
    BY <1>7 DEF NextRun
  <2>5. obc'.run \in Int /\ \A p \in running \cup inside : p.run \in Int
    BY <1>1, <2>1
  <2> HIDE DEF q
  <2> QED BY <2>1, <2>2, <2>3, <2>4, <2>5 DEF RunInv
<1>8. ASSUME NEW c \in Child, Start(c)
      PROVE  RunInv'
  <2> DEFINE p == [run |-> obc.run, is |-> c]
  <2>1. p.run = obc.run /\ p.is # OBC
    BY <1>0, <1>8, StartEffect
  <2>2. /\ running' = running \cup {p} /\ UNCHANGED <<obc, inside>>
        /\ obc.at # "init"
    BY <1>8 DEF Start
  <2> HIDE DEF p
  <2> QED BY <1>0, <1>1, <2>1, <2>2 DEF RunInv, Self
<1>9. ASSUME NEW p \in Process, SemWait(p)
      PROVE  RunInv'
  <2>1. p.run <= obc.run /\ (obc.at = "init" => p.run # obc.run)
    BY <1>0, <1>9 DEF SemWait, MaySem, RunInv, Self
  <2> QED BY <1>0, <1>1, <1>9, <2>1 DEF SemWait, MaySem, RunInv, Self
<1>10. ASSUME NEW p \in Process, SemPost(p) \/ Die(p) \/ Stop(p)
       PROVE  RunInv'
  BY <1>0, <1>10 DEF SemPost, Die, Stop, RunInv, Self
<1> QED BY <1>2, <1>3, <1>4, <1>5, <1>6, <1>7, <1>8, <1>9, <1>10 DEF Next

\* Every step keeps the semaphores exclusive.
LEMMA SemNext ==
  ASSUME Inv, Next
  PROVE  SemInv'
<1> USE RestartAssumption
<1>0. TypeOK /\ RunInv /\ SemInv
  BY DEF Inv
<1>1. inside \subseteq Process /\ "sem" \in Kinds
  BY <1>0 DEF TypeOK, Kinds
<1>2. CASE InitIpc
  <2>1. \A p \in inside : p # Self
    BY <1>0, <1>1, <1>2, InitEffect, SelfProcess DEF RunInv, Process
  <2>2. \A p \in inside : has'[p]["sem"] = has[p]["sem"]
    BY <1>0, <1>1, <1>2, <2>1, InitEffect DEF TypeOK
  <2>3. sem' = sem /\ inside' = inside
    BY <1>2 DEF InitIpc
  <2> QED BY <1>0, <2>2, <2>3 DEF SemInv, SemExcludes
<1>3. CASE CrashObc \/ Shutdown \/ WaitChildren \/ NextRun
  BY <1>0, <1>3 DEF CrashObc, Shutdown, WaitChildren, NextRun, SemInv,
                    SemExcludes
<1>4. CASE CleanIpc
  BY <1>0, <1>4, CleanEffect DEF SemInv, SemExcludes
<1>5. ASSUME NEW c \in Child, Start(c)
      PROVE  SemInv'
  <2>1. [run |-> obc.run, is |-> c] \notin inside
    BY <1>0, <1>1, <1>5, StartEffect DEF SemInv
  <2>2. \A p \in inside : has'[p] = has[p]
    BY <1>0, <1>1, <1>5, <2>1, StartEffect
  <2>3. sem' = sem /\ inside' = inside
    BY <1>5 DEF Start
  <2> QED BY <1>0, <2>2, <2>3 DEF SemInv, SemExcludes
<1>6. ASSUME NEW p \in Process, SemWait(p)
      PROVE  SemInv'
  <2> DEFINE o == has[p]["sem"]
  <2>1. o \in Object /\ o # None /\ sem[o] = 1
    BY <1>0, <1>1, <1>6 DEF SemWait, TypeOK
  <2>2. \A q \in inside : has[q]["sem"] # o
    BY <1>0, <2>1 DEF SemInv, SemExcludes
  <2>3. /\ sem' = [sem EXCEPT ![o] = 0] /\ inside' = inside \cup {p}
        /\ has' = has
    BY <1>6, <2>1 DEF SemWait
  <2>4. sem'[o] = 0 /\ \A x \in Object : x # o => sem'[x] = sem[x]
    BY <1>0, <2>1, <2>3 DEF TypeOK
  <2> QED BY <1>0, <2>1, <2>2, <2>3, <2>4 DEF SemInv, SemExcludes
<1>7. ASSUME NEW p \in Process, SemPost(p)
      PROVE  SemInv'
  <2> DEFINE o == has[p]["sem"]
  <2>1. p \in inside /\ o \in Object /\ o # None
    BY <1>0, <1>1, <1>7 DEF SemPost, SemInv, TypeOK
  <2>2. sem[o] = 0
    BY <1>0, <2>1 DEF SemInv, SemExcludes, TypeOK
  <2>3. /\ sem' = [sem EXCEPT ![o] = 1] /\ inside' = inside \ {p}
        /\ has' = has
    BY <1>7, <2>2 DEF SemPost
  <2>4. sem'[o] = 1 /\ \A x \in Object : x # o => sem'[x] = sem[x]
    BY <1>0, <2>1, <2>3 DEF TypeOK
  <2> QED BY <1>0, <2>1, <2>2, <2>3, <2>4 DEF SemInv, SemExcludes
<1>8. ASSUME NEW p \in Process, Die(p) \/ Stop(p)
      PROVE  SemInv'
  BY <1>0, <1>8 DEF Die, Stop, SemInv, SemExcludes
<1> QED BY <1>2, <1>3, <1>4, <1>5, <1>6, <1>7, <1>8 DEF Next

\* A step that leaves names and objects alone, and does not begin a run.
Quiet ==
  /\ UNCHANGED <<names, has, ended>> /\ obc'.run = obc.run
  /\ \/ UNCHANGED obc
     \/ obc'.at = "gone"
     \/ obc.at # "gone" /\ obc'.at = "stopping"
     \/ obc.at # "gone" /\ obc'.at = "clean" /\ obc'.next = 1

\* Most steps are quiet.
LEMMA QuietSteps ==
  ASSUME TypeOK,
         \/ CrashObc \/ Shutdown \/ WaitChildren
         \/ \E p \in Process : SemWait(p) \/ SemPost(p) \/ Die(p) \/ Stop(p)
  PROVE  Quiet
<1>1. obc \in [run : Run, next : 1..4,
               at : {"init", "up", "stopping", "clean", "gone"}]
  BY DEF TypeOK
<1>2. CASE CrashObc
  BY <1>1, <1>2 DEF CrashObc, Quiet
<1>3. CASE Shutdown
  BY <1>1, <1>3 DEF Shutdown, Quiet
<1>4. CASE WaitChildren
  <2>1. obc' = [run |-> obc.run, at |-> "clean", next |-> 1]
    BY <1>1, <1>4, Zenon DEF WaitChildren
  <2> QED BY <1>4, <2>1 DEF WaitChildren, Quiet
<1>5. CASE \E p \in Process : SemWait(p) \/ SemPost(p) \/ Die(p) \/ Stop(p)
  BY <1>5 DEF SemWait, SemPost, Die, Stop, Quiet
<1> QED BY <1>2, <1>3, <1>4, <1>5

\* A quiet step keeps everything about names and objects.
LEMMA QuietKeeps ==
  ASSUME TypeOK, ObjInv, Quiet
  PROVE  ObjInv'
<1>1. /\ names' = names /\ has' = has /\ ended' = ended
      /\ obc'.run = obc.run /\ Self' = Self
      /\ obc'.at \in {"init", "up"} => obc' = obc
      /\ obc'.at = "clean" => obc' = obc \/ obc'.next = 1
      /\ obc.at = "gone" => obc'.at = "gone"
  BY DEF Quiet, Self
<1>2. Fresh'
  BY <1>1 DEF ObjInv, Fresh
<1>3. Age' /\ Fifo'
  BY <1>1 DEF ObjInv, Age, Fifo
<1>4. Cleaned'
  BY <1>1 DEF ObjInv, Cleaned
<1>5. Healed'
  BY <1>1 DEF ObjInv, Healed
<1>6. Paired'
  BY <1>1 DEF ObjInv, Paired
<1> QED BY <1>2, <1>3, <1>4, <1>5, <1>6 DEF ObjInv

\* The start of a subsystem, which opens what the names stand for.
LEMMA StartKeeps ==
  ASSUME TypeOK, ObjInv, NEW c \in Child, Start(c)
  PROVE  ObjInv'
<1> DEFINE p == [run |-> obc.run, is |-> c]
<1>1. /\ p \in Process /\ p.run = obc.run /\ p.is = c /\ c # OBC
      /\ obc.at = "up" /\ obc' = obc /\ names' = names /\ ended' = ended
      /\ \A q \in Process : q # p => has'[q] = has[q]
      /\ \A k \in Kinds : has'[p][k] \in {names[k], None}
      /\ has'[p]["fifo"] # None => c = "COMMS"
      /\ has'[p]["sem"] # None => has'[p]["sem"] = names["sem"]
  BY StartEffect
<1>2. obc.run \in Run /\ \A k \in Kinds : names[k] \in Object \cup {None}
  BY DEF TypeOK
<1>3. {"shm", "sem", "fifo"} \subseteq Kinds
  BY DEF Kinds
<1>4. Self' = Self /\ Self # p
  BY <1>1 DEF Self
<1> HIDE DEF p
<1>5. Fresh'
  BY <1>1, <1>2, RestartAssumption DEF ObjInv, Fresh
<1>6. Age'
  BY <1>1, <1>2, RestartAssumption DEF ObjInv, Age
<1>7. Fifo'
  <2>1. names["fifo"] = obc.run
    BY <1>1 DEF ObjInv, Fifo
  <2> QED BY <1>1, <1>3, <2>1 DEF ObjInv, Fifo
<1>8. Cleaned'
  BY <1>1 DEF Cleaned
<1>9. Healed'
  BY <1>1, <1>2 DEF ObjInv, Healed
<1>10. Paired'
  <2>1. ASSUME NEW q \in Process, has'[q]["shm"] = names["shm"],
               has'[q]["sem"] # None, names["shm"] # None
        PROVE  has'[q]["sem"] = names["sem"]
    BY <1>1, <2>1 DEF ObjInv, Paired
  <2>2. ASSUME NEW q \in Process, NEW r \in Process,
               has'[q]["shm"] # None, has'[q]["shm"] = has'[r]["shm"],
               has'[q]["sem"] # None, has'[r]["sem"] # None
        PROVE  has'[q]["sem"] = has'[r]["sem"]
    <3>1. CASE q # p /\ r # p
      BY <1>1, <2>2, <3>1 DEF ObjInv, Paired
    <3>2. CASE q = p \/ r = p
      <4>1. has'[q]["shm"] = names["shm"] /\ has'[r]["shm"] = names["shm"]
        BY <1>1, <1>3, <2>2, <3>2
      <4> QED BY <2>1, <2>2, <4>1
    <3> QED BY <3>1, <3>2
  <2> QED BY <1>1, <2>1, <2>2 DEF Paired
<1> QED BY <1>5, <1>6, <1>7, <1>8, <1>9, <1>10 DEF ObjInv

\* One step of clean_ipc, after the last of which the run counts as ended.
LEMMA CleanKeeps ==
  ASSUME TypeOK, ObjInv, CleanIpc
  PROVE  ObjInv'
<1>1. /\ obc.at = "clean" /\ obc'.at \in {"clean", "gone"}
      /\ obc'.run = obc.run /\ has' = has
      /\ \A k \in Kinds : names'[k] \in {names[k], None}
      /\ names'["shm"] = None
  BY CleanEffect DEF TypeOK, ObjInv, Cleaned, Kinds
<1>2. names \in [Kinds -> Object \cup {None}] /\ obc.run \in Run
  BY DEF TypeOK
<1>3. Fresh'
  BY <1>1 DEF ObjInv, Fresh
<1>4. Age' /\ Fifo'
  BY <1>1, <1>2, RestartAssumption DEF ObjInv, Age, Fifo
<1>5. Cleaned'
  BY <1>1, <1>2, CleanEffect DEF ObjInv, Cleaned, Kinds
<1>6. Healed'
  <2>1. CASE ended' = ended
    <3>1. \A e \in ended : e # obc.run
      BY <1>1 DEF ObjInv, Healed
    <3> QED BY <1>1, <2>1, <3>1 DEF ObjInv, Healed
  <2>2. CASE ended' = ended \cup {obc.run} /\ obc'.at = "gone"
             /\ obc.next = 4 /\ names' = [names EXCEPT !["fifo"] = None]
    <3>1. \A k \in Kinds : names'[k] = None
      BY <1>1, <1>2, <2>2 DEF ObjInv, Cleaned, Kinds
    <3>2. \A q \in Process, k \in Kinds : q.run > obc.run => has[q][k] = None
      BY DEF ObjInv, Fresh
    <3>3. \A e \in ended' : e <= obc.run
      BY <1>2, <2>2, RestartAssumption DEF ObjInv, Healed
    <3>4. \A e \in ended', q \in Process, k \in Kinds :
             q.run > e => has[q][k] = None \/ has[q][k] > e
      BY <2>2, <3>2 DEF ObjInv, Healed
    <3> QED BY <1>1, <2>2, <3>1, <3>3, <3>4 DEF Healed
  <2> QED BY <2>1, <2>2, CleanEffect
<1>7. Paired'
  BY <1>1 DEF ObjInv, Paired
<1> QED BY <1>3, <1>4, <1>5, <1>6, <1>7 DEF ObjInv

\* The next run is started.
LEMMA NextRunKeeps ==
  ASSUME TypeOK, ObjInv, NextRun
  PROVE  ObjInv'
<1>1. /\ obc.at = "gone" /\ obc'.at = "init" /\ obc'.next = 1
      /\ obc'.run = obc.run + 1 /\ obc'.run \in Run /\ obc.run \in Run
      /\ Self' = [run |-> obc.run + 1, is |-> OBC]
      /\ UNCHANGED <<names, has, ended>>
  BY RestartAssumption DEF TypeOK, NextRun, Self
<1>2. Self' \in Process /\ Self'.run > obc.run
  BY <1>1, RestartAssumption DEF Process
<1>3. /\ \A k \in Kinds : names[k] \in Nat
      /\ \A p \in Process : p.run \in Nat
      /\ ended \subseteq Nat
      /\ {"shm", "sem"} \subseteq Kinds
  BY RestartAssumption DEF TypeOK, Process, Kinds
<1>4. Fresh'
  <2>1. \A p \in Process, k \in Kinds : p.run > obc.run => has[p][k] = None
    BY DEF ObjInv, Fresh
  <2>2. \A p \in Process : p.run >= obc.run + 1 => p.run > obc.run
    BY <1>1, <1>3, RestartAssumption
  <2> QED BY <1>1, <1>2, <1>3, <2>1, <2>2 DEF Fresh
<1>5. Age'
  BY <1>1, <1>3, RestartAssumption DEF ObjInv, Age
<1>6. Fifo' /\ Cleaned' /\ Paired'
  BY <1>1 DEF ObjInv, Fifo, Cleaned, Paired
<1>7. Healed'
  <2>1. \A e \in ended : e <= obc.run + 1 /\ e # obc.run + 1
    BY <1>1, <1>3, RestartAssumption DEF ObjInv, Healed
  <2> QED BY <1>1, <2>1 DEF ObjInv, Healed
<1> QED BY <1>4, <1>5, <1>6, <1>7 DEF ObjInv

\* One step of init_ipc, which creates or opens one object.
LEMMA InitKeeps ==
  ASSUME TypeOK, ObjInv, InitIpc
  PROVE  ObjInv'
<1> USE RestartAssumption
<1>1. /\ obc.at = "init" /\ obc'.run = obc.run /\ Self' = Self
      /\ obc'.at \in {"init", "up"} /\ ended' = ended
  BY InitEffect DEF Self
<1>2. /\ names \in [Kinds -> Object \cup {None}] /\ obc.run \in Run
      /\ has \in [Process -> [Kinds -> Object \cup {None}]]
      /\ Kinds = {"shm", "sem", "mq", "fifo"}
      /\ Self \in Process /\ Self.run = obc.run /\ Self.is = OBC
      /\ \A p \in Process : p.run \in Run
      /\ \A p \in Process : p.run = obc.run /\ p.is = OBC => p = Self
  BY SelfProcess DEF TypeOK, Kinds, Process, Self
<1>3. PICK k \in Kinds :
        /\ names' = [names EXCEPT ![k] = Opened(k)]
        /\ has' = IF k = "fifo" THEN has
                  ELSE [has EXCEPT ![Self][k] = Opened(k)]
        /\ obc.next = 1 <=> k = "shm"
        /\ obc.next = 2 <=> k = "sem"
        /\ obc'.next \in {obc.next, obc.next + 1}
        /\ obc'.next # 1
        /\ obc'.next = 2 <=> k = "shm"
        /\ obc'.at = "up" <=> k = "fifo"
  BY <1>2, InitEffect
<1>4. /\ Opened(k) \in Object /\ Opened(k) <= obc.run
      /\ Opened(k) \in {names[k], obc.run}
      /\ names[k] # None /\ k # "fifo" => Opened(k) = names[k]
      /\ names[k] = None \/ k = "fifo" => Opened(k) = obc.run
  BY OpenedObject DEF ObjInv, Opened
<1>5. /\ names'[k] = Opened(k)
      /\ \A j \in Kinds : j # k => names'[j] = names[j]
      /\ \A p \in Process : p # Self => has'[p] = has[p]
      /\ \A j \in Kinds : j # k => has'[Self][j] = has[Self][j]
      /\ has'[Self][k] = IF k = "fifo" THEN has[Self][k] ELSE Opened(k)
  BY <1>2, <1>3
<1>6. Fresh'
  <2>1. \A p \in Process, j \in Kinds :
          \/ p.run > obc.run
          \/ p.run = obc.run /\ p.is # OBC
          => has'[p][j] = None
    BY <1>1, <1>2, <1>5 DEF ObjInv, Fresh
  <2>2. obc'.next <= 2 => obc'.next = 2
    BY <1>2, <1>3, InitEffect
  <2>3. obc'.at = "init" /\ obc'.next <= 2 => has'[Self]["sem"] = None
    BY <1>1, <1>2, <1>3, <1>5, <2>2 DEF ObjInv, Fresh
  <2> QED BY <1>1, <1>3, <2>1, <2>3 DEF Fresh
<1>7. Age'
  BY <1>1, <1>2, <1>4, <1>5 DEF ObjInv, Age
<1>8. Fifo'
  <2>1. \A p \in Process : has'[p]["fifo"] = has[p]["fifo"]
    BY <1>2, <1>5
  <2> QED BY <1>1, <1>3, <1>4, <1>5, <2>1 DEF ObjInv, Fifo
<1>9. Cleaned'
  BY <1>1 DEF Cleaned
<1>10. Healed'
  <2>1. \A e \in ended : e < obc.run
    <3>1. \A e \in ended : e \in Nat /\ e # obc.run /\ e <= obc.run
      BY <1>1 DEF TypeOK, ObjInv, Healed
    <3> QED BY <1>2, <3>1
  <2>2. \A e \in ended : Opened(k) > e
    BY <1>2, <1>4, <2>1 DEF ObjInv, Healed
  <2>3. ASSUME NEW e \in ended, NEW q \in Process, NEW j \in Kinds, q.run > e
        PROVE  has'[q][j] = None \/ has'[q][j] > e
    <3>1. CASE q = Self /\ j = k /\ k # "fifo"
      BY <1>5, <2>2, <3>1
    <3>2. CASE ~(q = Self /\ j = k /\ k # "fifo")
      <4>1. has'[q][j] = has[q][j]
        BY <1>5, <3>2
      <4> QED BY <2>3, <4>1 DEF ObjInv, Healed
    <3> QED BY <3>1, <3>2
  <2>4. \A e \in ended, j \in Kinds : names'[j] = None \/ names'[j] > e
    BY <1>5, <2>2 DEF ObjInv, Healed
  <2> QED BY <1>1, <2>1, <2>3, <2>4 DEF ObjInv, Healed
<1>11. Paired'
  <2>1. CASE k = "shm"
    <3>1. has[Self]["sem"] = None /\ \A p \in Process : has'[p]["sem"] = has[p]["sem"]
      BY <1>1, <1>2, <1>3, <1>5, <2>1 DEF ObjInv, Fresh
    <3>2. ASSUME NEW p \in Process, p # Self, has[p]["shm"] = names'["shm"],
                 has[p]["sem"] # None
          PROVE  has[p]["sem"] = names["sem"]
      <4>1. has[p]["shm"] # obc.run
        BY <1>1, <1>2, <2>1, <3>2 DEF ObjInv, Fresh, Age
      <4> QED BY <1>2, <1>4, <1>5, <2>1, <3>2, <4>1 DEF ObjInv, Paired
    <3> QED BY <1>1, <1>2, <1>3, <1>4, <1>5, <2>1, <3>1, <3>2 DEF ObjInv, Paired
  <2>2. CASE k = "sem"
    <3>1. has[Self]["shm"] = names["shm"]
      BY <1>1, <1>3, <2>2 DEF ObjInv, Paired
    <3>2. \A p \in Process : has'[p]["shm"] = has[p]["shm"]
      BY <1>2, <1>5, <2>2
    <3>3. ASSUME NEW p \in Process, p # Self, names["shm"] # None,
                 has[p]["shm"] = names["shm"], has[p]["sem"] # None
          PROVE  has[p]["sem"] = Opened("sem")
      BY <1>2, <1>4, <2>2, <3>3 DEF ObjInv, Paired
    <3>4. /\ names'["shm"] = names["shm"] /\ names'["sem"] = Opened("sem")
          /\ has'[Self]["sem"] = Opened("sem")
          /\ \A p \in Process : p # Self => has'[p]["sem"] = has[p]["sem"]
      BY <1>2, <1>5, <2>2
    <3>5. ASSUME NEW p \in Process, names["shm"] # None,
                 has[p]["shm"] = names["shm"], has'[p]["sem"] # None
          PROVE  has'[p]["sem"] = Opened("sem")
      BY <3>3, <3>4, <3>5
    <3>6. ASSUME NEW p \in Process, NEW q \in Process,
                 has[p]["shm"] # None, has[p]["shm"] = has[q]["shm"],
                 has'[p]["sem"] # None, has'[q]["sem"] # None
          PROVE  has'[p]["sem"] = has'[q]["sem"]
      <4>1. CASE p # Self /\ q # Self
        BY <3>4, <3>6, <4>1 DEF ObjInv, Paired
      <4>2. CASE p = Self \/ q = Self
        BY <3>1, <3>5, <3>6, <4>2
      <4> QED BY <4>1, <4>2
    <3>7. has'[Self]["shm"] = names["shm"] /\ "shm" \in Kinds
      BY <1>2, <3>1, <3>2
    <3> QED BY <1>1, <3>2, <3>4, <3>5, <3>6, <3>7 DEF Paired
  <2>3. CASE k \in {"mq", "fifo"}
    <3>1. /\ names'["shm"] = names["shm"] /\ names'["sem"] = names["sem"]
          /\ \A p \in Process : /\ has'[p]["shm"] = has[p]["shm"]
                                /\ has'[p]["sem"] = has[p]["sem"]
      BY <1>2, <1>5, <2>3
    <3>2. obc.next >= 2
      BY <1>2, <1>3, <2>3, InitEffect
    <3> QED BY <1>1, <1>2, <3>1, <3>2 DEF ObjInv, Paired
  <2> QED BY <1>2, <2>1, <2>2, <2>3
<1> QED BY <1>6, <1>7, <1>8, <1>9, <1>10, <1>11 DEF ObjInv

-----------------------------------------------------------------------------
(***************************************************************************)
(* Theorems                                                                *)
(***************************************************************************)
\* The invariant holds throughout.
LEMMA Invariant == Spec => []Inv
<1>1. Inv /\ [Next]_vars => Inv'
  <2> SUFFICES ASSUME Inv, [Next]_vars PROVE Inv'
    OBVIOUS
  <2>1. CASE Next
    <3>1. TypeOK /\ ObjInv
      BY DEF Inv
    <3>2. ObjInv'
      <4>1. CASE InitIpc
        BY <3>1, <4>1, InitKeeps
      <4>2. CASE \E c \in Child : Start(c)
        BY <3>1, <4>2, StartKeeps
      <4>3. CASE CleanIpc
        BY <3>1, <4>3, CleanKeeps
      <4>4. CASE NextRun
        BY <3>1, <4>4, NextRunKeeps
      <4>5. CASE \/ CrashObc \/ Shutdown \/ WaitChildren
                 \/ \E p \in Process :
                      SemWait(p) \/ SemPost(p) \/ Die(p) \/ Stop(p)
        BY <3>1, <4>5, QuietSteps, QuietKeeps
      <4> QED BY <2>1, <4>1, <4>2, <4>3, <4>4, <4>5 DEF Next
    <3> QED BY <2>1, <3>2, TypeNext, RunNext, SemNext DEF Inv
  <2>2. CASE UNCHANGED vars
    BY <2>2 DEF vars, Inv, TypeOK, RunInv, SemInv, SemExcludes, ObjInv, Fresh,
                Age, Fifo, Cleaned, Healed, Paired, Self
  <2> QED BY <2>1, <2>2
<1> QED BY <1>1, InitInv, PTL DEF Spec

\* Every variable stays in its domain, in particular every semaphore is binary.
THEOREM TypeCorrect == Spec => []TypeOK
<1>1. Inv => TypeOK
  BY DEF Inv
<1> QED BY <1>1, Invariant, PTL

\* A semaphore excludes the processes of all the runs that have it open, and
\* is 1 exactly when nobody, living or dead, has taken it.
THEOREM SemaphoreExcludes == Spec => []SemExcludes
<1>1. Inv => SemExcludes
  BY DEF Inv, SemInv
<1> QED BY <1>1, Invariant, PTL

\* Processes of whatever runs that share a bus share its semaphore.
THEOREM BusHasOneSemaphore == Spec => []SharedBusSharedSem
<1>1. Inv => SharedBusSharedSem
  <2> SUFFICES ASSUME Inv PROVE SharedBusSharedSem
    OBVIOUS
  <2>1. running \subseteq Process
    BY DEF Inv, TypeOK
  <2> QED BY <2>1 DEF Inv, ObjInv, Paired, SharedBusSharedSem
<1> QED BY <1>1, Invariant, PTL

\* At most one process reads the FIFO of the ground: whoever has it open is
\* the comms process of the run that created it.
THEOREM OneReader == Spec => []OneGroundReader
<1>1. Inv => OneGroundReader
  <2> SUFFICES ASSUME Inv, NEW p \in running, NEW q \in running,
                      has[p]["fifo"] = names["fifo"],
                      has[q]["fifo"] = names["fifo"], names["fifo"] # None
               PROVE  p = q
    BY DEF OneGroundReader
  <2>1. p \in Process /\ q \in Process
    BY DEF Inv, TypeOK
  <2>2. p.run = q.run /\ p.is = q.is
    BY <2>1 DEF Inv, ObjInv, Fifo
  <2> QED BY <2>1, <2>2 DEF Process
<1> QED BY <1>1, Invariant, PTL

\* A complete clean_ipc separates the processes started before it from those
\* started after it, dead ones included.
THEOREM CleanEndSeparates == Spec => []CleanEndHeals
<1>1. Inv => CleanEndHeals
  <2> SUFFICES ASSUME Inv, NEW e \in ended, NEW p \in Process, NEW q \in Process,
                      NEW k \in Kinds, p.run <= e, e < q.run, has[p][k] # None
               PROVE  has[p][k] # has[q][k]
    BY DEF CleanEndHeals
  <2>1. /\ has[p][k] \in Nat /\ has[q][k] \in Nat /\ e \in Nat
        /\ p.run \in Nat /\ q.run \in Nat
    <3>1. /\ has \in [Process -> [Kinds -> Object \cup {None}]]
          /\ ended \subseteq Run
      BY DEF Inv, TypeOK
    <3>2. has[p][k] \in Object \cup {None} /\ has[q][k] \in Object \cup {None}
      BY <3>1
    <3>3. p.run \in Run /\ q.run \in Run
      BY DEF Process
    <3> QED BY <3>1, <3>2, <3>3, RestartAssumption
  <2>2. has[p][k] <= p.run
    BY DEF Inv, ObjInv, Age
  <2>3. has[q][k] = None \/ has[q][k] > e
    BY <2>1 DEF Inv, ObjInv, Healed
  <2> QED BY <2>1, <2>2, <2>3
<1> QED BY <1>1, Invariant, PTL
=============================================================================
