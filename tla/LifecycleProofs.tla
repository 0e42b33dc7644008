--------------------------- MODULE LifecycleProofs --------------------------
(***************************************************************************)
(* For any number of children, which may fail to start, die or be stopped  *)
(* at any moment: the variables keep their types, the IPC objects outlive  *)
(* every child, main() knows the pid of every child that runs, the         *)
(* shutdown tells each of them to stop, no zombie is forgotten, and        *)
(* Lifecycle implements Supervision.                                       *)
(***************************************************************************)
EXTENDS Lifecycle, FiniteSetTheorems, TLAPS

USE DEF Children, Broadcasts, Locations, Lives

-----------------------------------------------------------------------------
\* Every position of the start order is a child.
LEMMA StartOrderType == \A k \in Children : StartOrder(k) \in Children
  BY NAssumption DEF StartOrder

\* A loop over the children stays within them.
LEMMA ProceedType ==
  ASSUME TypeOK, NEW pc \in Locations, NEW end \in Locations,
         Proceed(pc, end)
  PROVE  obc' \in [pc : Locations, next : Children, signal : Broadcasts]
  <1>1. CASE obc.next = N
    <2>1. 1 \in 1..N
      BY NAssumption
    <2>2. obc' = [obc EXCEPT !.pc = end, !.next = 1]
      BY <1>1 DEF Proceed
    <2>3. QED
      BY <2>1, <2>2 DEF TypeOK
  <1>2. CASE obc.next # N
    <2>1. obc.next + 1 \in 1..N
      BY <1>2, NAssumption DEF TypeOK
    <2>2. obc' = [obc EXCEPT !.pc = pc, !.next = obc.next + 1]
      BY <1>2 DEF Proceed
    <2>3. QED
      BY <2>1, <2>2 DEF TypeOK
  <1>3. QED
    BY <1>1, <1>2

\* A signal takes a child from one of its states to another.
LEMMA StrikeType ==
  ASSUME TypeOK, NEW targets, NEW s, Strike(targets, s)
  PROVE  child' \in [Children -> Lives] /\ sigchld' \in BOOLEAN
  <1>1. \A c \in Children : Struck(c, s) \in Lives
    BY DEF Struck, TypeOK
  <1>2. QED
    BY <1>1 DEF Strike, TypeOK

\* The initial values have their types.
LEMMA TypeInit == Init => TypeOK
  <1>1. 1 \in 1..N
    BY NAssumption
  <1>2. Init => obc \in [pc : Locations, next : Children, signal : Broadcasts]
    BY <1>1 DEF Init
  <1>3. Init => g_pid \in [Children -> BOOLEAN] /\ child \in [Children -> Lives]
    BY DEF Init
  <1>4. Init => /\ g_shutdown \in BOOLEAN /\ sigchld \in BOOLEAN
                   /\ ipc \in BOOLEAN /\ sem_lost \in BOOLEAN
                   /\ clogged \in BOOLEAN
    BY Zenon DEF Init
  <1>5. Init => waits \in Nat
    BY DEF Init
  <1>6. QED
    BY <1>2, <1>3, <1>4, <1>5 DEF TypeOK

\* Every step keeps the types.
LEMMA TypeStep == TypeOK /\ [Next]_vars => TypeOK'
  <1> SUFFICES ASSUME TypeOK, [Next]_vars PROVE TypeOK'
    OBVIOUS
  <1>1. CASE Fork
    BY <1>1, StartOrderType DEF Fork, lost, TypeOK
  <1>2. CASE ForkFails
    BY <1>2, ProceedType DEF ForkFails, lost, TypeOK
  <1>3. CASE AssignPid
    <2>1. obc' \in [pc : Locations, next : Children, signal : Broadcasts]
      BY <1>3, ProceedType DEF AssignPid
    <2>2. g_pid' \in [Children -> BOOLEAN]
      BY <1>3 DEF AssignPid, TypeOK
    <2>3. QED
      BY <1>3, <2>1, <2>2 DEF AssignPid, lost, TypeOK
  <1>4. CASE TestShutdown \/ MissionSecond \/ StoreMode
    <2>1. obc' \in [pc : Locations, next : Children, signal : Broadcasts]
      BY <1>4, NAssumption
         DEF TestShutdown, MissionSecond, StoreMode, StartBroadcast,
             TypeOK
    <2>2. QED
      BY <1>4, <2>1 DEF TestShutdown, MissionSecond, StoreMode, StartBroadcast,
             lost, TypeOK
  <1>5. CASE CheckPid
    <2>1. obc' \in [pc : Locations, next : Children, signal : Broadcasts]
      BY <1>5, ProceedType DEF CheckPid, AfterBroadcast, TypeOK
    <2>2. QED
      BY <1>5, <2>1 DEF CheckPid, lost, TypeOK
  <1>6. CASE KillChild
    <2>1. obc' \in [pc : Locations, next : Children, signal : Broadcasts]
      BY <1>6, ProceedType DEF KillChild, AfterBroadcast
    <2>2. child' \in [Children -> Lives] /\ sigchld' \in BOOLEAN
      BY <1>6, StrikeType DEF KillChild
    <2>3. QED
      BY <1>6, <2>1, <2>2 DEF KillChild, lost, TypeOK
  <1>7. CASE WaitChild
    <2>1. child' \in [Children -> Lives]
      BY <1>7 DEF WaitChild, TypeOK
    <2>2. QED
      BY <1>7, <2>1 DEF WaitChild, AfterWait, lost, TypeOK
  <1>8. CASE CleanIpc
    BY <1>8 DEF CleanIpc, lost, TypeOK
  <1>9. CASE HandleSigchld
    BY <1>9 DEF HandleSigchld, lost, TypeOK
  <1>10. CASE Interrupt
    BY <1>10, StrikeType DEF Interrupt, lost, TypeOK
  <1>11. ASSUME NEW c \in Children,
                Exec(c) \/ InstallHandlers(c) \/ Finish(c) \/ Die(c)
         PROVE  TypeOK'
    BY <1>11 DEF Exec, InstallHandlers, Become, Finish, Die, Exit, UsesBus,
                 lost, TypeOK
  <1>12. CASE Clog \/ Terminated \/ UNCHANGED vars
    BY <1>12 DEF Clog, Terminated, vars, lost, TypeOK
  <1>13. QED
    BY <1>1, <1>2, <1>3, <1>4, <1>5, <1>6, <1>7, <1>8, <1>9, <1>10, <1>11,
       <1>12 DEF Next

\* The types of Lifecycle hold for any number of children.
THEOREM TypeCorrect == Spec => []TypeOK
  BY TypeInit, TypeStep, PTL DEF Spec

-----------------------------------------------------------------------------
(***************************************************************************)
(* Cleanup.  CleanupAfterLastChild is not inductive: that the last wait()  *)
(* leaves nobody behind follows from the count of the earlier ones.        *)
(* WaitsSuffice keeps that count: a wait() either takes one child away,    *)
(* or fails because there is none.                                         *)
(***************************************************************************)

\* The strengthening: no more children are left than calls of wait() to come,
\* and children are only forked before that.
WaitsSuffice ==
  /\ obc.pc = "wait" => waits < N /\ Cardinality(Unreaped) + waits <= N
  /\ obc.pc \notin {"wait", "clean", "done"} => waits = 0 /\ ipc

\* Children are finitely many, and so are those not yet reaped.
LEMMA UnreapedFinite ==
  /\ Unreaped \subseteq Children
  /\ IsFiniteSet(Unreaped)
  /\ Cardinality(Unreaped) \in Nat /\ Cardinality(Unreaped) <= N
  <1>1. IsFiniteSet(Children) /\ Cardinality(Children) = N
    BY FS_Interval, NAssumption
  <1>2. Unreaped \in SUBSET Children
    BY DEF Unreaped, Running, Zombies
  <1>3. QED
    BY <1>1, <1>2, FS_Subset, FS_CardinalityType

\* A signal makes no child that was not there.
LEMMA StrikeKeeps ==
  ASSUME TypeOK, NEW targets, NEW s, Strike(targets, s)
  PROVE  Unreaped' \subseteq Unreaped
  BY DEF Strike, Struck, Unreaped, Running, Zombies

\* Only fork() adds a child to those not yet reaped.
LEMMA UnreapedShrinks ==
  ASSUME TypeOK, [Next]_vars, ~Fork
  PROVE  Unreaped' \subseteq Unreaped
  <1>1. CASE \/ ForkFails \/ AssignPid \/ TestShutdown \/ MissionSecond
             \/ StoreMode \/ Clog \/ CheckPid \/ CleanIpc \/ Terminated
             \/ UNCHANGED vars
    BY <1>1 DEF ForkFails, AssignPid, TestShutdown, MissionSecond, StoreMode,
                Clog,
                CheckPid,
                StartBroadcast, CleanIpc, Terminated, vars, Unreaped, Running,
                Zombies
  <1>2. CASE KillChild \/ Interrupt
    BY <1>2, StrikeKeeps DEF KillChild, Interrupt
  <1>3. CASE WaitChild
    BY <1>3 DEF WaitChild, Unreaped, Running, Zombies, TypeOK
  <1>4. CASE HandleSigchld
    BY <1>4 DEF HandleSigchld, Unreaped, Running, Zombies, TypeOK
  <1>5. ASSUME NEW c \in Children,
               Exec(c) \/ InstallHandlers(c) \/ Finish(c) \/ Die(c)
        PROVE  Unreaped' \subseteq Unreaped
    BY <1>5 DEF Exec, InstallHandlers, Become, Finish, Die, Exit, Unreaped,
                Running, Zombies, TypeOK
  <1>6. QED
    BY <1>1, <1>2, <1>3, <1>4, <1>5 DEF Next

\* As many children or fewer are left after a step that forks none.
LEMMA UnreapedCount ==
  ASSUME Unreaped' \subseteq Unreaped
  PROVE  Cardinality(Unreaped') <= Cardinality(Unreaped)
  BY UnreapedFinite, FS_Subset

Cleanup == WaitsSuffice /\ CleanupAfterLastChild

\* Every step keeps the count and what follows from it.
LEMMA CleanupStep == TypeOK /\ Cleanup /\ [Next]_vars => Cleanup'
  <1> SUFFICES ASSUME TypeOK, Cleanup, [Next]_vars PROVE Cleanup'
    OBVIOUS
  <1>1. TypeOK' /\ Cardinality(Unreaped') \in Nat /\ Cardinality(Unreaped') <= N
    <2>1. TypeOK'
      BY TypeStep
    <2>2. IsFiniteSet(Children) /\ Cardinality(Children) = N
      BY FS_Interval, NAssumption
    <2>3. Unreaped' \in SUBSET Children
      BY DEF Unreaped, Running, Zombies
    <2>4. QED
      BY <2>1, <2>2, <2>3, FS_Subset, FS_CardinalityType
  <1>2. CASE Fork
    BY <1>2 DEF Fork, Cleanup, WaitsSuffice, CleanupAfterLastChild, TypeOK
  <1>3. CASE ForkFails \/ AssignPid
    <2>1. obc.pc \in {"fork", "assign"} /\ UNCHANGED <<waits, ipc>>
          /\ obc'.pc \in {"fork", "loop"}
      BY <1>3 DEF ForkFails, AssignPid, Proceed, TypeOK
    <2>2. QED
      BY <2>1 DEF Cleanup, WaitsSuffice, CleanupAfterLastChild
  <1>4. CASE TestShutdown \/ MissionSecond \/ StoreMode
    <2>1. obc.pc \in {"loop", "second", "store"} /\ UNCHANGED <<waits, ipc>>
          /\ obc'.pc \in {"check", "loop", "second"}
      BY <1>4 DEF TestShutdown, MissionSecond, StoreMode, StartBroadcast,
             TypeOK
    <2>2. QED
      BY <2>1 DEF Cleanup, WaitsSuffice, CleanupAfterLastChild
  <1>5. CASE CheckPid \/ KillChild
    <2>1. obc.pc \in {"check", "kill"} /\ UNCHANGED <<waits, ipc>>
          /\ obc'.pc \in {"check", "kill", "wait", "store"}
      BY <1>5 DEF CheckPid, KillChild, Proceed, AfterBroadcast, TypeOK
    <2>2. QED
      BY <1>1, <2>1, NAssumption
         DEF Cleanup, WaitsSuffice, CleanupAfterLastChild
  <1>6. CASE WaitChild
    <2>1. /\ obc.pc = "wait" /\ waits < N /\ waits' = waits + 1 /\ UNCHANGED ipc
          /\ Cardinality(Unreaped) + waits <= N
      BY <1>6 DEF WaitChild, Cleanup, WaitsSuffice
    <2>2. Cardinality(Unreaped') + waits' <= N
      <3>1. CASE \E c \in Zombies : child' = [child EXCEPT ![c] = "reaped"]
        <4>1. PICK c \in Zombies : child' = [child EXCEPT ![c] = "reaped"]
          BY <3>1
        <4>2. Unreaped' = Unreaped \ {c} /\ c \in Unreaped
          BY <4>1 DEF Unreaped, Running, Zombies, TypeOK
        <4>3. Cardinality(Unreaped') = Cardinality(Unreaped) - 1
          BY <4>2, UnreapedFinite, FS_RemoveElement
        <4>4. QED
          BY <2>1, <4>3, UnreapedFinite DEF TypeOK
      <3>2. CASE Unreaped = {} /\ UNCHANGED child
        <4>1. Unreaped' = {}
          BY <3>2 DEF Unreaped, Running, Zombies
        <4>2. Cardinality(Unreaped') = 0
          BY <4>1, FS_EmptySet
        <4>3. QED
          BY <2>1, <4>2, NAssumption DEF TypeOK
      <3>3. QED
        BY <1>6, <3>1, <3>2 DEF WaitChild
    <2>3. CASE waits + 1 = N
      <3>1. obc'.pc = "clean"
        BY <1>6, <2>3 DEF WaitChild, AfterWait, TypeOK
      <3>2. Cardinality(Unreaped') = 0
        BY <1>1, <2>1, <2>2, <2>3, NAssumption
      <3>3. Unreaped' = {}
        <4>1. IsFiniteSet(Unreaped')
          BY <1>1, UnreapedFinite, UnreapedShrinks, FS_Subset, <1>6
             DEF WaitChild, Fork
        <4>2. QED
          BY <3>2, <4>1, FS_EmptySet
      <3>4. QED
        BY <2>1, <3>1, <3>3 DEF Cleanup, WaitsSuffice, CleanupAfterLastChild
    <2>4. CASE waits + 1 # N
      <3>1. obc' = obc /\ waits' < N
        BY <1>6, <2>1, <2>4, NAssumption DEF WaitChild, AfterWait, TypeOK
      <3>2. QED
        BY <2>1, <2>2, <3>1 DEF Cleanup, WaitsSuffice, CleanupAfterLastChild
    <2>5. QED
      BY <2>3, <2>4
  <1>7. CASE CleanIpc
    <2>1. obc.pc = "clean" /\ obc'.pc = "done" /\ UNCHANGED child
      BY <1>7 DEF CleanIpc, TypeOK
    <2>2. Unreaped' = {}
      BY <2>1 DEF Cleanup, CleanupAfterLastChild, Unreaped, Running, Zombies
    <2>3. QED
      BY <2>1, <2>2 DEF Cleanup, WaitsSuffice, CleanupAfterLastChild
  <1>8. CASE \/ HandleSigchld \/ Interrupt \/ Clog \/ Terminated
             \/ UNCHANGED vars
             \/ \E c \in Children :
                  Exec(c) \/ InstallHandlers(c) \/ Finish(c) \/ Die(c)
    <2>1. UNCHANGED <<obc, waits, ipc>>
      BY <1>8 DEF HandleSigchld, Interrupt, Clog, Terminated, Exec,
                  InstallHandlers, Become, Finish, Die, Exit, vars
    <2>2. Unreaped' \subseteq Unreaped
      <3>1. CASE Fork
        BY <2>1, <3>1 DEF Fork, TypeOK
      <3>2. QED
        BY <3>1, UnreapedShrinks
    <2>3. Cardinality(Unreaped') <= Cardinality(Unreaped)
      BY <2>2, UnreapedCount
    <2>4. WaitsSuffice'
      BY <1>1, <2>1, <2>3, UnreapedFinite, NAssumption
         DEF Cleanup, WaitsSuffice, TypeOK
    <2>5. CleanupAfterLastChild'
      BY <2>1, <2>2 DEF Cleanup, CleanupAfterLastChild
    <2>6. QED
      BY <2>4, <2>5 DEF Cleanup
  <1>9. QED
    BY <1>2, <1>3, <1>4, <1>5, <1>6, <1>7, <1>8 DEF Next

\* The count holds from the start.
LEMMA CleanupInvariant == Spec => []Cleanup
  <1>1. Init => Cleanup
    BY DEF Init, Cleanup, WaitsSuffice, CleanupAfterLastChild
  <1>2. QED
    BY <1>1, CleanupStep, TypeCorrect, PTL DEF Spec

\* The IPC objects are removed only when every child has been reaped.
THEOREM CleanupIsLast == Spec => []CleanupAfterLastChild
  BY CleanupInvariant, PTL DEF Cleanup

\* There are never more children left than calls of wait() to come.
THEOREM WaitsAreEnough == Spec => []WaitsSuffice
  BY CleanupInvariant, PTL DEF Cleanup

-----------------------------------------------------------------------------
(***************************************************************************)
(* Whoever runs can be signalled.  RunningChildrenKnown is inductive but   *)
(* for AssignPid, which must not assign the pid of somebody unborn.        *)
(***************************************************************************)

\* The two parts of RunningChildrenKnown.
RunningKnown ==
  \A c \in Running :
    ~g_pid[c] => obc.pc = "assign" /\ c = StartOrder(obc.next)

UnbornUnknown == \A c \in Children : g_pid[c] => child[c] # "unborn"

\* The child whose pid is being assigned has been forked.
AssignedIsBorn == obc.pc = "assign" => child[StartOrder(obc.next)] # "unborn"

\* A step that adds nobody to those who run, and takes no pid from them.
LEMMA KnownFrame ==
  ASSUME RunningKnown, Running' \subseteq Running,
         \A c \in Running' : g_pid'[c] = g_pid[c],
         obc' = obc \/ obc.pc # "assign"
  PROVE  RunningKnown'
  BY DEF RunningKnown

\* Every step keeps the pids of those who run known.
LEMMA KnownStep ==
  TypeOK /\ RunningKnown /\ [Next]_vars => RunningKnown'
  <1> SUFFICES ASSUME TypeOK, RunningKnown, [Next]_vars
               PROVE  RunningKnown'
    OBVIOUS
  <1>1. CASE Fork
    <2> DEFINE new == StartOrder(obc.next)
    <2>1. Running' \subseteq Running \cup {new}
      BY <1>1 DEF Fork, Running, TypeOK
    <2>2. obc.pc = "fork" /\ obc'.pc = "assign" /\ obc'.next = obc.next
          /\ UNCHANGED g_pid
      BY <1>1 DEF Fork, TypeOK
    <2>3. QED
      BY <2>1, <2>2 DEF RunningKnown
  <1>2. CASE AssignPid
    <2>1. Running' = Running /\ obc.pc = "assign"
      BY <1>2 DEF AssignPid, Running
    <2>2. \A c \in Running : g_pid'[c]
      BY <1>2, <2>1 DEF AssignPid, RunningKnown, Running, TypeOK
    <2>3. QED
      BY <2>1, <2>2 DEF RunningKnown
  <1>3. CASE \/ ForkFails \/ TestShutdown \/ MissionSecond \/ StoreMode \/ Clog
             \/ CheckPid \/ CleanIpc
             \/ Terminated \/ UNCHANGED vars
    <2>1. Running' = Running /\ UNCHANGED g_pid
          /\ (obc' = obc \/ obc.pc # "assign")
      BY <1>3 DEF ForkFails, TestShutdown, MissionSecond, StoreMode,
                Clog, CheckPid, CleanIpc,
                  StartBroadcast, Terminated, vars, Running
    <2>2. QED
      BY <2>1, KnownFrame
  <1>4. CASE KillChild \/ Interrupt
    <2>1. Running' \subseteq Running
      BY <1>4 DEF KillChild, Interrupt, Strike, Struck, Running
    <2>2. UNCHANGED g_pid /\ (obc' = obc \/ obc.pc # "assign")
      BY <1>4 DEF KillChild, Interrupt
    <2>3. QED
      BY <2>1, <2>2, KnownFrame
  <1>5. CASE WaitChild
    <2>1. Running' \subseteq Running
      BY <1>5 DEF WaitChild, Running, TypeOK
    <2>2. QED
      BY <1>5, <2>1, KnownFrame DEF WaitChild
  <1>6. CASE HandleSigchld
    <2>1. Running' \subseteq Running
      BY <1>6 DEF HandleSigchld, Running
    <2>2. \A c \in Running' : g_pid'[c] = g_pid[c]
      BY <1>6, <2>1 DEF HandleSigchld, Running, Zombies, TypeOK
    <2>3. QED
      BY <1>6, <2>1, <2>2, KnownFrame DEF HandleSigchld
  <1>7. ASSUME NEW c \in Children,
               Exec(c) \/ InstallHandlers(c) \/ Finish(c) \/ Die(c)
        PROVE  RunningKnown'
    <2>1. Running' \subseteq Running /\ UNCHANGED <<g_pid, obc>>
      BY <1>7 DEF Exec, InstallHandlers, Become, Finish, Die, Exit, Running,
                  TypeOK
    <2>2. QED
      BY <2>1, KnownFrame
  <1>8. QED
    BY <1>1, <1>2, <1>3, <1>4, <1>5, <1>6, <1>7 DEF Next

\* Nobody becomes unborn again.
LEMMA BornStays ==
  ASSUME TypeOK, [Next]_vars, NEW c \in Children, child[c] # "unborn"
  PROVE  child'[c] # "unborn"
  <1>1. CASE Fork
    BY <1>1 DEF Fork, TypeOK
  <1>2. CASE \/ ForkFails \/ AssignPid \/ TestShutdown \/ MissionSecond
             \/ StoreMode \/ Clog \/ CheckPid \/ CleanIpc \/ Terminated
             \/ UNCHANGED vars
    BY <1>2 DEF ForkFails, AssignPid, TestShutdown, MissionSecond, StoreMode,
                Clog, CheckPid, StartBroadcast, CleanIpc, Terminated, vars
  <1>3. CASE KillChild \/ Interrupt
    BY <1>3 DEF KillChild, Interrupt, Strike, Struck
  <1>4. CASE WaitChild
    <2>1. ASSUME NEW d \in Zombies, child' = [child EXCEPT ![d] = "reaped"]
          PROVE  child'[c] # "unborn"
      BY <2>1 DEF Zombies, TypeOK
    <2>2. QED
      BY <1>4, <2>1 DEF WaitChild
  <1>5. CASE HandleSigchld
    BY <1>5 DEF HandleSigchld
  <1>6. ASSUME NEW d \in Children,
               Exec(d) \/ InstallHandlers(d) \/ Finish(d) \/ Die(d)
        PROVE  child'[c] # "unborn"
    BY <1>6 DEF Exec, InstallHandlers, Become, Finish, Die, Exit, TypeOK
  <1>7. QED
    BY <1>1, <1>2, <1>3, <1>4, <1>5, <1>6 DEF Next

\* main() comes to an assignment only through a fork() that succeeded.
LEMMA AssignedStep ==
  TypeOK /\ AssignedIsBorn /\ [Next]_vars => AssignedIsBorn'
  <1> SUFFICES ASSUME TypeOK, AssignedIsBorn, [Next]_vars, obc'.pc = "assign"
               PROVE  child'[StartOrder(obc'.next)] # "unborn"
    BY DEF AssignedIsBorn
  <1>1. CASE Fork
    <2>1. obc'.next = obc.next /\ StartOrder(obc.next) \in Children
      BY <1>1, StartOrderType DEF Fork, TypeOK
    <2>2. QED
      BY <1>1, <2>1 DEF Fork, TypeOK
  <1>2. CASE ~Fork
    <2>1. obc' = obc
      <3>1. CASE ForkFails \/ AssignPid
        BY <3>1 DEF ForkFails, AssignPid, Proceed, TypeOK
      <3>2. CASE TestShutdown \/ MissionSecond \/ StoreMode
        BY <3>2 DEF TestShutdown, MissionSecond, StoreMode, StartBroadcast,
           TypeOK
      <3>3. CASE CheckPid \/ KillChild
        BY <3>3 DEF CheckPid, KillChild, Proceed, AfterBroadcast, TypeOK
      <3>4. CASE WaitChild \/ CleanIpc
        BY <3>4 DEF WaitChild, AfterWait, CleanIpc, TypeOK
      <3>5. CASE \/ HandleSigchld \/ Interrupt \/ Clog \/ Terminated
                 \/ UNCHANGED vars
                 \/ \E c \in Children :
                      Exec(c) \/ InstallHandlers(c) \/ Finish(c) \/ Die(c)
        BY <3>5 DEF HandleSigchld, Interrupt, Clog, Terminated, Exec,
           InstallHandlers, Become, Finish, Die, Exit, vars
      <3>6. QED
        BY <1>2, <3>1, <3>2, <3>3, <3>4, <3>5 DEF Next
    <2>2. StartOrder(obc.next) \in Children
      BY StartOrderType DEF TypeOK
    <2>3. QED
      BY <2>1, <2>2, BornStays DEF AssignedIsBorn
  <1>3. QED
    BY <1>1, <1>2

\* A pid is assigned to the child that has just been forked, and to no other.
LEMMA UnknownStep ==
  TypeOK /\ UnbornUnknown /\ AssignedIsBorn /\ [Next]_vars => UnbornUnknown'
  <1> SUFFICES ASSUME TypeOK, UnbornUnknown, AssignedIsBorn, [Next]_vars,
                      NEW c \in Children, g_pid'[c]
               PROVE  child'[c] # "unborn"
    BY DEF UnbornUnknown
  <1>1. CASE g_pid[c]
    BY <1>1, BornStays DEF UnbornUnknown
  <1>2. CASE ~g_pid[c]
    <2>1. AssignPid
      <3>1. ~HandleSigchld
        BY <1>2 DEF HandleSigchld
      <3>2. g_pid' # g_pid
        BY <1>2
      <3>3. QED
        BY <3>1, <3>2 DEF Next, Fork, ForkFails, TestShutdown, MissionSecond,
           StoreMode, StartBroadcast, CheckPid, KillChild, WaitChild, CleanIpc,
           Interrupt, Exec, InstallHandlers, Become, Finish, Die, Exit, Clog,
           Terminated, vars
    <2>2. c = StartOrder(obc.next) /\ obc.pc = "assign"
      BY <1>2, <2>1 DEF AssignPid, TypeOK
    <2>3. QED
      BY <2>2, BornStays DEF AssignedIsBorn
  <1>3. QED
    BY <1>1, <1>2

\* main() knows the pid of every running child but the one it is starting, and
\* of no child that it has not started.
THEOREM RunningAreKnown == Spec => []RunningChildrenKnown
  <1> DEFINE Known == RunningKnown /\ UnbornUnknown /\ AssignedIsBorn
  <1>1. Init => Known
    BY DEF Init, RunningKnown, UnbornUnknown, AssignedIsBorn, Running
  <1>2. TypeOK /\ Known /\ [Next]_vars => Known'
    BY KnownStep, UnknownStep, AssignedStep
  <1>3. Known => RunningChildrenKnown
    BY DEF RunningChildrenKnown, RunningKnown, UnbornUnknown
  <1>4. QED
    BY <1>1, <1>2, <1>3, TypeCorrect, PTL DEF Spec

-----------------------------------------------------------------------------
(***************************************************************************)
(* No zombie is forgotten.  NoZombieForgotten is inductive: whatever makes *)
(* a zombie raises SIGCHLD, and the handler leaves none when it clears it. *)
(***************************************************************************)

\* No zombie is forgotten: while there is one, a SIGCHLD is pending, however
\* many children exit before the handler runs and whoever else reaps.
NoZombieForgotten == Zombies # {} => sigchld

\* Every step keeps a SIGCHLD pending while there is a zombie.
LEMMA ForgottenStep ==
  TypeOK /\ NoZombieForgotten /\ [Next]_vars => NoZombieForgotten'
  <1> SUFFICES ASSUME TypeOK, NoZombieForgotten, [Next]_vars
               PROVE  NoZombieForgotten'
    OBVIOUS
  <1>1. CASE Fork
    <2>1. Zombies' \subseteq Zombies /\ UNCHANGED sigchld
      BY <1>1 DEF Fork, Zombies, TypeOK
    <2>2. QED
      BY <2>1 DEF NoZombieForgotten
  <1>2. CASE \/ ForkFails \/ AssignPid \/ TestShutdown \/ MissionSecond
             \/ StoreMode \/ Clog \/ CheckPid \/ CleanIpc \/ Terminated
             \/ UNCHANGED vars
    <2>1. Zombies' = Zombies /\ UNCHANGED sigchld
      BY <1>2 DEF ForkFails, AssignPid, TestShutdown, MissionSecond, StoreMode,
                Clog,
                CheckPid,
                  StartBroadcast, CleanIpc, Terminated, vars, Zombies
    <2>2. QED
      BY <2>1 DEF NoZombieForgotten
  <1>3. CASE KillChild \/ Interrupt
    <2>1. PICK targets, s : Strike(targets, s)
      BY <1>3 DEF KillChild, Interrupt
    <2>2. \A c \in Zombies' : c \in Zombies \/ sigchld'
      BY <2>1 DEF Strike, Struck, Zombies, Running, TypeOK
    <2>3. sigchld => sigchld'
      BY <2>1 DEF Strike
    <2>4. QED
      BY <2>2, <2>3 DEF NoZombieForgotten
  <1>4. CASE WaitChild
    <2>1. Zombies' \subseteq Zombies /\ UNCHANGED sigchld
      BY <1>4 DEF WaitChild, Zombies, TypeOK
    <2>2. QED
      BY <2>1 DEF NoZombieForgotten
  <1>5. CASE HandleSigchld
    <2>1. Zombies' = {}
      BY <1>5 DEF HandleSigchld, Zombies, TypeOK
    <2>2. QED
      BY <2>1 DEF NoZombieForgotten
  <1>6. ASSUME NEW c \in Children, Exec(c) \/ InstallHandlers(c)
        PROVE  NoZombieForgotten'
    <2>1. Zombies' \subseteq Zombies /\ UNCHANGED sigchld
      BY <1>6 DEF Exec, InstallHandlers, Become, Zombies, TypeOK
    <2>2. QED
      BY <2>1 DEF NoZombieForgotten
  <1>7. ASSUME NEW c \in Children, Finish(c) \/ Die(c)
        PROVE  NoZombieForgotten'
    BY <1>7 DEF Finish, Die, Exit, NoZombieForgotten
  <1>8. QED
    BY <1>1, <1>2, <1>3, <1>4, <1>5, <1>6, <1>7 DEF Next

\* While there is a zombie, the SIGCHLD that will bury it is pending.
THEOREM NoneForgotten == Spec => []NoZombieForgotten
  <1>1. Init => NoZombieForgotten
    BY DEF Init, NoZombieForgotten, Zombies
  <1>2. QED
    BY <1>1, ForgottenStep, TypeCorrect, PTL DEF Spec

-----------------------------------------------------------------------------
(***************************************************************************)
(* Everybody is told to stop.  AllToldToStop is inductive together with    *)
(* RunningChildrenKnown: who has no pid when the broadcast comes to him    *)
(* does not run.                                                           *)
(***************************************************************************)

(***************************************************************************)
(* A wait() that is called before a child was told to stop may never       *)
(* return.  When broadcast_shutdown has passed a child, or has returned,   *)
(* that child is stopping or has ended: the broadcast misses none,         *)
(* although handle_sigchld resets pids while it runs and children may be   *)
(* anywhere between fork() and their handlers.                             *)
(***************************************************************************)
AllToldToStop ==
  \A c \in Running :
    \/ obc.pc \in {"wait", "clean", "done"}
    \/ obc.pc \in {"check", "kill"} /\ obc.signal = "SIGTERM" /\ c < obc.next
    => child[c] = "stopping"

\* Once fork() is over nobody comes to life, and who is stopping stays so as
\* long as he runs.
LEMMA StoppingStays ==
  ASSUME TypeOK, [Next]_vars, ~Fork
  PROVE  \A c \in Running' :
           c \in Running /\ (child[c] = "stopping" => child'[c] = "stopping")
  <1>1. CASE \/ ForkFails \/ AssignPid \/ TestShutdown \/ MissionSecond
             \/ StoreMode \/ Clog \/ CheckPid \/ CleanIpc \/ Terminated
             \/ UNCHANGED vars
    BY <1>1 DEF ForkFails, AssignPid, TestShutdown, MissionSecond, StoreMode,
                Clog,
                CheckPid,
                StartBroadcast, CleanIpc, Terminated, vars, Running
  <1>2. CASE KillChild \/ Interrupt
    BY <1>2 DEF KillChild, Interrupt, Strike, Struck, Running, TypeOK
  <1>3. CASE WaitChild
    BY <1>3 DEF WaitChild, Running, Zombies, TypeOK
  <1>4. CASE HandleSigchld
    BY <1>4 DEF HandleSigchld, Running, Zombies, TypeOK
  <1>5. ASSUME NEW c \in Children,
               Exec(c) \/ InstallHandlers(c) \/ Finish(c) \/ Die(c)
        PROVE  \A d \in Running' :
                 d \in Running /\ (child[d] = "stopping" => child'[d] = "stopping")
    BY <1>5 DEF Exec, InstallHandlers, Become, Finish, Die, Exit, Running, TypeOK
  <1>6. QED
    BY <1>1, <1>2, <1>3, <1>4, <1>5 DEF Next

\* A step that leaves main() where it is.
LEMMA ToldFrame ==
  ASSUME TypeOK, AllToldToStop, [Next]_vars, ~Fork, UNCHANGED obc
  PROVE  AllToldToStop'
  BY StoppingStays DEF AllToldToStop

\* The broadcast of the shutdown goes on from a child that has ended or stops.
LEMMA ToldPassed ==
  ASSUME TypeOK, AllToldToStop, CheckPid \/ KillChild,
         Proceed("check", AfterBroadcast),
         obc.signal = "SIGTERM" /\ obc.next \in Running'
           => child'[obc.next] = "stopping"
  PROVE  AllToldToStop'
  <1>1. obc.pc \in {"check", "kill"} /\ obc.next \in 1..N
        /\ obc'.signal = obc.signal
    BY DEF CheckPid, KillChild, Proceed, TypeOK
  <1>2. \A c \in Running' :
          c \in Running /\ (child[c] = "stopping" => child'[c] = "stopping")
    <2>1. ~Fork
      BY <1>1 DEF Fork
    <2>2. QED
      BY <2>1, StoppingStays DEF Next
  <1>3. \/ obc'.pc = "check" /\ obc'.next = obc.next + 1
        \/ obc'.pc = AfterBroadcast /\ obc.next = N
    BY DEF Proceed, TypeOK
  <1>4. obc'.pc = "check" \/ obc.next = N
    BY <1>3
  <1>5. ASSUME NEW c \in Running', obc.signal = "SIGTERM", c <= obc.next
        PROVE  child'[c] = "stopping"
    <2>1. CASE c = obc.next
      BY <1>5, <2>1
    <2>2. CASE c # obc.next
      <3>1. c \in 1..N /\ c < obc.next
        BY <1>1, <1>5, <2>2, NAssumption DEF Running
      <3>2. QED
        BY <1>1, <1>2, <1>5, <3>1 DEF AllToldToStop
    <2>3. QED
      BY <2>1, <2>2
  <1>6. CASE obc.signal = "SIGTERM"
    <2>1. ASSUME NEW c \in Running',
                 \/ obc'.pc \in {"wait", "clean", "done"}
                 \/ obc'.pc \in {"check", "kill"} /\ c < obc'.next
          PROVE  c <= obc.next
      BY <1>1, <1>3, <1>6, <2>1, NAssumption DEF AfterBroadcast, Running
    <2>2. QED
      BY <1>5, <1>6, <2>1 DEF AllToldToStop
  <1>7. CASE obc.signal # "SIGTERM"
    <2>1. obc'.pc \in {"check", "store"} /\ obc'.signal # "SIGTERM"
      BY <1>1, <1>3, <1>7 DEF AfterBroadcast
    <2>2. QED
      BY <2>1 DEF AllToldToStop
  <1>8. QED
    BY <1>6, <1>7

\* Every step keeps those told whom the broadcast has passed.
LEMMA ToldStep ==
  TypeOK /\ RunningChildrenKnown /\ AllToldToStop /\ [Next]_vars
    => AllToldToStop'
  <1> SUFFICES ASSUME TypeOK, RunningChildrenKnown, AllToldToStop, [Next]_vars
               PROVE  AllToldToStop'
    OBVIOUS
  <1>1. CASE Fork \/ ForkFails \/ AssignPid
    <2>1. obc'.pc \in {"assign", "fork", "loop"}
      BY <1>1 DEF Fork, ForkFails, AssignPid, Proceed, TypeOK
    <2>2. QED
      BY <2>1 DEF AllToldToStop
  <1>2. CASE TestShutdown \/ MissionSecond \/ StoreMode
    <2>1. \/ obc'.pc \in {"second", "loop"}
          \/ obc'.pc = "check" /\ obc'.next = 1
      BY <1>2 DEF TestShutdown, MissionSecond, StoreMode, StartBroadcast,
             TypeOK
    <2>2. \A c \in Running' : ~(c < 1)
      BY NAssumption DEF Running
    <2>3. QED
      BY <2>1, <2>2 DEF AllToldToStop
  <1>3. CASE CheckPid
    <2>1. CASE g_pid[obc.next]
      <3>1. obc.pc = "check" /\ UNCHANGED child /\ obc' = [obc EXCEPT !.pc = "kill"]
        BY <1>3, <2>1 DEF CheckPid
      <3>2. Running' = Running /\ obc'.pc = "kill" /\ obc'.next = obc.next
            /\ obc'.signal = obc.signal
        BY <3>1 DEF Running, TypeOK
      <3>3. QED
        BY <3>1, <3>2 DEF AllToldToStop
    <2>2. CASE ~g_pid[obc.next]
      <3>1. Proceed("check", AfterBroadcast) /\ obc.pc = "check" /\ UNCHANGED child
        BY <1>3, <2>2 DEF CheckPid
      <3>2. obc.next \notin Running
        BY <2>2, <3>1 DEF RunningChildrenKnown
      <3>3. obc.next \notin Running'
        BY <3>1, <3>2 DEF Running
      <3>4. QED
        BY <1>3, <3>1, <3>3, ToldPassed
    <2>3. QED
      BY <2>1, <2>2
  <1>4. CASE KillChild
    <2>1. ASSUME obc.signal = "SIGTERM", obc.next \in Running'
          PROVE  child'[obc.next] = "stopping"
      BY <1>4, <2>1 DEF KillChild, Strike, Struck, Running, TypeOK
    <2>2. QED
      BY <1>4, <2>1, ToldPassed DEF KillChild
  <1>5. CASE WaitChild \/ CleanIpc
    <2>1. obc.pc \in {"wait", "clean"}
      BY <1>5 DEF WaitChild, CleanIpc
    <2>2. QED
      BY <2>1, StoppingStays DEF AllToldToStop, Fork
  <1>6. CASE \/ HandleSigchld \/ Interrupt \/ Clog \/ Terminated
             \/ UNCHANGED vars
             \/ \E c \in Children :
                  Exec(c) \/ InstallHandlers(c) \/ Finish(c) \/ Die(c)
    <2>1. UNCHANGED obc
      BY <1>6 DEF HandleSigchld, Interrupt, Clog, Terminated, Exec,
                  InstallHandlers, Become, Finish, Die, Exit, vars
    <2>2. ~Fork
      BY <2>1 DEF Fork, TypeOK
    <2>3. QED
      BY <2>1, <2>2, ToldFrame
  <1>7. QED
    BY <1>1, <1>2, <1>3, <1>4, <1>5, <1>6 DEF Next

\* broadcast_shutdown leaves no running child that was not told to stop.
THEOREM AllAreTold == Spec => []AllToldToStop
  <1>1. Init => AllToldToStop
    BY DEF Init, AllToldToStop, Running
  <1>2. QED
    BY <1>1, ToldStep, TypeCorrect, RunningAreKnown, PTL DEF Spec

-----------------------------------------------------------------------------
(***************************************************************************)
(* main() implements Supervision.  A child is started only once, because   *)
(* main() goes along StartOrder, which names each child once; it is told   *)
(* only in the broadcast of the shutdown; and AllToldToStop and            *)
(* CleanupAfterLastChild are what Await and Close ask for.                 *)
(***************************************************************************)

\* Who is still to be forked is not born.
StillUnborn ==
  \A j \in Children :
    \/ obc.pc = "fork" /\ j >= obc.next
    \/ obc.pc = "assign" /\ j > obc.next
    => child[StartOrder(j)] = "unborn"

\* No child comes twice in the order in which they are started.
LEMMA StartOnce ==
  \A j, k \in Children : StartOrder(j) = StartOrder(k) => j = k
  BY NAssumption DEF StartOrder

\* Only fork() gives birth.
LEMMA UnbornStays ==
  ASSUME TypeOK, [Next]_vars, ~Fork
  PROVE  \A c \in Children : child[c] = "unborn" => child'[c] = "unborn"
  <1>1. CASE \/ ForkFails \/ AssignPid \/ TestShutdown \/ MissionSecond
             \/ StoreMode \/ Clog \/ CheckPid \/ CleanIpc \/ Terminated
             \/ UNCHANGED vars
    BY <1>1 DEF ForkFails, AssignPid, TestShutdown, MissionSecond, StoreMode,
                Clog,
                CheckPid,
                StartBroadcast, CleanIpc, Terminated, vars
  <1>2. CASE KillChild \/ Interrupt
    BY <1>2 DEF KillChild, Interrupt, Strike, Struck, TypeOK
  <1>3. CASE WaitChild
    BY <1>3 DEF WaitChild, Zombies, TypeOK
  <1>4. CASE HandleSigchld
    BY <1>4 DEF HandleSigchld, Zombies, TypeOK
  <1>5. ASSUME NEW d \in Children,
               Exec(d) \/ InstallHandlers(d) \/ Finish(d) \/ Die(d)
        PROVE  \A c \in Children : child[c] = "unborn" => child'[c] = "unborn"
    BY <1>5 DEF Exec, InstallHandlers, Become, Finish, Die, Exit, Running, TypeOK
  <1>6. QED
    BY <1>1, <1>2, <1>3, <1>4, <1>5 DEF Next

\* Every step keeps those unborn whom main() has not come to.
LEMMA UnbornStep == TypeOK /\ StillUnborn /\ [Next]_vars => StillUnborn'
  <1> SUFFICES ASSUME TypeOK, StillUnborn, [Next]_vars PROVE StillUnborn'
    OBVIOUS
  <1>1. CASE Fork
    <2>1. /\ obc.pc = "fork" /\ obc'.pc = "assign" /\ obc'.next = obc.next
          /\ obc.next \in Children
          /\ child' = [child EXCEPT ![StartOrder(obc.next)] = "forked"]
      BY <1>1 DEF Fork, TypeOK
    <2>2. ASSUME NEW j \in Children, j > obc.next
          PROVE  child'[StartOrder(j)] = "unborn"
      <3>1. StartOrder(j) # StartOrder(obc.next)
        BY <2>1, <2>2, StartOnce, NAssumption
      <3>2. child[StartOrder(j)] = "unborn"
        BY <2>1, <2>2, NAssumption DEF StillUnborn
      <3>3. QED
        BY <2>1, <3>1, <3>2, StartOrderType DEF TypeOK
    <2>3. QED
      BY <2>1, <2>2 DEF StillUnborn
  <1>2. CASE ForkFails \/ AssignPid
    <2>1. /\ obc.pc \in {"fork", "assign"} /\ UNCHANGED child
          /\ \/ obc'.pc = "loop"
             \/ obc'.pc = "fork" /\ obc'.next = obc.next + 1
      BY <1>2 DEF ForkFails, AssignPid, Proceed, TypeOK
    <2>2. obc.next \in 1..N
      BY DEF TypeOK
    <2>3. QED
      BY <2>1, <2>2, NAssumption DEF StillUnborn
  <1>3. CASE ~Fork /\ ~ForkFails /\ ~AssignPid
    <2>1. obc' = obc \/ obc'.pc \notin {"fork", "assign"}
      <3>1. CASE TestShutdown \/ MissionSecond \/ StoreMode
        BY <3>1 DEF TestShutdown, MissionSecond, StoreMode, StartBroadcast,
             TypeOK
      <3>2. CASE CheckPid \/ KillChild
        BY <3>2 DEF CheckPid, KillChild, Proceed, AfterBroadcast, TypeOK
      <3>3. CASE WaitChild \/ CleanIpc
        BY <3>3 DEF WaitChild, AfterWait, CleanIpc, TypeOK
      <3>4. CASE \/ HandleSigchld \/ Interrupt \/ Clog \/ Terminated
             \/ UNCHANGED vars
                 \/ \E c \in Children :
                      Exec(c) \/ InstallHandlers(c) \/ Finish(c) \/ Die(c)
        BY <3>4 DEF HandleSigchld, Interrupt, Clog, Terminated, Exec,
           InstallHandlers, Become, Finish, Die, Exit, vars
      <3>5. QED
        BY <1>3, <3>1, <3>2, <3>4, <3>3 DEF Next
    <2>2. \A c \in Children : child[c] = "unborn" => child'[c] = "unborn"
      BY <1>3, UnbornStays
    <2>3. QED
      BY <2>1, <2>2, StartOrderType DEF StillUnborn
  <1>4. QED
    BY <1>1, <1>2, <1>3

\* What a child may do in a phase.
MayDo(c) ==
  \/ Status(c)' = Status(c)
  \/ Phase = "mission" /\ Status(c) = "absent" /\ Status(c)' = "up"
  \/ Phase = "stopping" /\ Status(c) = "up" /\ Status(c)' = "told"
  \/ Status(c) \in {"up", "told"} /\ Status(c)' = "zombie"
  \/ Status(c) = "zombie" /\ Status(c)' = "buried"

\* No child does in a step what Supervision does not let it do.
LEMMA ChildMoves ==
  ASSUME TypeOK, StillUnborn, [Next]_vars, NEW c \in Children
  PROVE  MayDo(c)
  <1>1. CASE child'[c] = child[c]
    BY <1>1 DEF MayDo, Status
  <1>2. CASE Fork
    <2>1. child[StartOrder(obc.next)] = "unborn" /\ obc.pc = "fork"
      BY <1>2, NAssumption DEF Fork, StillUnborn, TypeOK
    <2>2. c = StartOrder(obc.next) => child'[c] = "forked"
      BY <1>2 DEF Fork, TypeOK
    <2>3. c # StartOrder(obc.next) => child'[c] = child[c]
      BY <1>2 DEF Fork, TypeOK
    <2>4. QED
      BY <1>1, <2>1, <2>2, <2>3 DEF MayDo, Status, Phase
  <1>3. CASE \/ ForkFails \/ AssignPid \/ TestShutdown \/ MissionSecond
             \/ StoreMode \/ Clog \/ CheckPid \/ CleanIpc \/ Terminated
             \/ UNCHANGED vars
    BY <1>1, <1>3 DEF ForkFails, AssignPid, TestShutdown, MissionSecond,
       StoreMode, Clog, CheckPid, StartBroadcast, CleanIpc, Terminated, vars
  <1>4. CASE KillChild
    <2>1. obc.pc = "kill" /\ child'[c] \in {child[c], Struck(c, obc.signal)}
      BY <1>4 DEF KillChild, Strike
    <2>2. \/ Struck(c, obc.signal) = child[c]
          \/ child[c] \in {"forked", "exec"} /\ Struck(c, obc.signal) = "zombie"
          \/ /\ child[c] = "ready" /\ obc.signal = "SIGTERM"
             /\ Struck(c, obc.signal) = "stopping"
      BY DEF Struck
    <2>3. QED
      BY <1>1, <2>1, <2>2 DEF MayDo, Status, Phase
  <1>5. CASE Interrupt
    <2>1. child'[c] \in {child[c], Struck(c, "SIGINT")}
      BY <1>5 DEF Interrupt, Strike
    <2>2. \/ Struck(c, "SIGINT") = child[c]
          \/ child[c] = "exec" /\ Struck(c, "SIGINT") = "zombie"
      BY DEF Struck
    <2>3. QED
      BY <1>1, <2>1, <2>2 DEF MayDo, Status
  <1>6. CASE WaitChild \/ HandleSigchld
    <2>1. \/ child'[c] = child[c]
          \/ child[c] = "zombie" /\ child'[c] = "reaped"
      <3>1. CASE HandleSigchld
        BY <3>1 DEF HandleSigchld, Zombies
      <3>2. CASE WaitChild
        <4>1. ASSUME NEW d \in Zombies, child' = [child EXCEPT ![d] = "reaped"]
              PROVE  \/ child'[c] = child[c]
                     \/ child[c] = "zombie" /\ child'[c] = "reaped"
          BY <4>1 DEF Zombies, TypeOK
        <4>2. QED
          BY <3>2, <4>1 DEF WaitChild
      <3>3. QED
        BY <1>6, <3>1, <3>2
    <2>2. QED
      BY <1>1, <2>1 DEF MayDo, Status
  <1>7. ASSUME NEW d \in Children,
               Exec(d) \/ InstallHandlers(d) \/ Finish(d) \/ Die(d)
        PROVE  MayDo(c)
    <2>1. \/ child'[c] = child[c]
          \/ child[c] = "forked" /\ child'[c] = "exec"
          \/ child[c] = "exec" /\ child'[c] = "ready"
          \/ child[c] \in {"forked", "exec", "ready", "stopping"}
             /\ child'[c] = "zombie"
      BY <1>7 DEF Exec, InstallHandlers, Become, Finish, Die, Exit, Running,
                  TypeOK
    <2>2. QED
      BY <1>1, <2>1 DEF MayDo, Status
  <1>8. QED
    BY <1>2, <1>3, <1>4, <1>5, <1>6, <1>7 DEF Next

\* The phase goes on only as Supervision lets it.
LEMMA PhaseMoves ==
  ASSUME TypeOK, TypeOK', CleanupAfterLastChild, AllToldToStop', [Next]_vars
  PROVE  \/ Phase' = Phase
         \/ Phase = "mission" /\ Phase' = "stopping"
         \/ /\ Phase = "stopping" /\ Phase' = "waiting"
            /\ \A c \in Children : Status(c)' # "up"
         \/ /\ Phase = "waiting" /\ Phase' = "closed"
            /\ \A c \in Children : Status(c) \in {"absent", "buried"}
  <1>1. CASE Fork \/ ForkFails \/ AssignPid
    <2>1. obc.pc \in {"fork", "assign"} /\ obc'.pc \in {"fork", "assign", "loop"}
      BY <1>1 DEF Fork, ForkFails, AssignPid, Proceed, TypeOK
    <2>2. QED
      BY <2>1 DEF Phase
  <1>2. CASE TestShutdown \/ MissionSecond \/ StoreMode
    <2>1. /\ obc.pc \in {"loop", "second", "store"}
          /\ obc'.pc \in {"loop", "second", "check"}
      BY <1>2 DEF TestShutdown, MissionSecond, StoreMode, StartBroadcast,
             TypeOK
    <2>2. QED
      BY <2>1 DEF Phase
  <1>3. CASE CheckPid \/ KillChild
    <2>1. /\ obc.pc \in {"check", "kill"} /\ obc'.signal = obc.signal
          /\ obc'.pc \in {"check", "kill", AfterBroadcast}
      BY <1>3 DEF CheckPid, KillChild, Proceed, TypeOK
    <2>2. CASE obc.signal = "SIGTERM" /\ obc'.pc = "wait"
      <3>1. \A c \in Children : Status(c)' # "up"
        <4>1. \A c \in Children : child'[c] \notin {"forked", "exec", "ready"}
          BY <2>2 DEF AllToldToStop, Running
        <4>2. QED
          BY <4>1 DEF Status, TypeOK
      <3>2. Phase = "stopping" /\ Phase' = "waiting"
        BY <2>1, <2>2 DEF Phase
      <3>3. QED
        BY <3>1, <3>2
    <2>3. CASE ~(obc.signal = "SIGTERM" /\ obc'.pc = "wait")
      BY <2>1, <2>3 DEF AfterBroadcast, Phase
    <2>4. QED
      BY <2>2, <2>3
  <1>4. CASE WaitChild
    <2>1. obc.pc = "wait" /\ obc'.pc \in {"wait", "clean"}
      BY <1>4 DEF WaitChild, AfterWait, TypeOK
    <2>2. QED
      BY <2>1 DEF Phase
  <1>5. CASE CleanIpc
    <2>1. obc.pc = "clean" /\ obc'.pc = "done"
      BY <1>5 DEF CleanIpc, TypeOK
    <2>2. \A c \in Children : child[c] \in {"unborn", "reaped"}
      BY <2>1 DEF CleanupAfterLastChild, Unreaped, Running, Zombies, TypeOK
    <2>3. QED
      BY <2>1, <2>2 DEF Phase, Status
  <1>6. CASE \/ HandleSigchld \/ Interrupt \/ Clog \/ Terminated
             \/ UNCHANGED vars
             \/ \E c \in Children :
                  Exec(c) \/ InstallHandlers(c) \/ Finish(c) \/ Die(c)
    <2>1. UNCHANGED obc
      BY <1>6 DEF HandleSigchld, Interrupt, Clog, Terminated, Exec,
                  InstallHandlers, Become, Finish, Die, Exit, vars
    <2>2. QED
      BY <2>1 DEF Phase
  <1>7. QED
    BY <1>1, <1>2, <1>3, <1>4, <1>5, <1>6 DEF Next

\* Every step of main() and its children is one of Supervision.
LEMMA SupervisionStep ==
  TypeOK /\ TypeOK' /\ StillUnborn /\ CleanupAfterLastChild /\ AllToldToStop'
    /\ [Next]_vars => Supervisor!Next
  <1> SUFFICES ASSUME TypeOK, TypeOK', StillUnborn, CleanupAfterLastChild,
                      AllToldToStop', [Next]_vars
               PROVE  Supervisor!Next
    OBVIOUS
  <1> DEFINE status == [c \in Children |-> Status(c)]
  <1>1. \A c \in Children : status[c] = Status(c) /\ status'[c] = Status(c)'
    OBVIOUS
  <1>2. \/ Supervisor!Stop \/ Supervisor!Await \/ Supervisor!Close
        \/ UNCHANGED Phase
    BY <1>1, PhaseMoves DEF Supervisor!Stop, Supervisor!Await, Supervisor!Close
  <1>3. status' \in [Children -> Supervisor!Statuses]
    <2>1. \A c \in Children : Status(c)' \in Supervisor!Statuses
      BY DEF TypeOK, Status, Supervisor!Statuses
    <2>2. QED
      BY <2>1
  <1>4. ASSUME NEW c \in Children
        PROVE  \/ Supervisor!Start(c) \/ Supervisor!Tell(c) \/ Supervisor!End(c)
               \/ Supervisor!Bury(c) \/ status'[c] = status[c]
    BY <1>1, ChildMoves DEF MayDo, Supervisor!Start, Supervisor!Tell,
       Supervisor!End, Supervisor!Bury, Supervisor!Changes
  <1>5. QED
    BY <1>2, <1>3, <1>4 DEF Supervisor!Next

\* Children are started, told, waited for and outlived in the order that
\* Supervision allows: main() implements it, whatever dies or interrupts.
THEOREM ImplementsSupervision == Spec => SupervisionSafe
  <1>1. Init => StillUnborn
    BY StartOrderType DEF Init, StillUnborn
  <1>2. Init => Supervisor!Init
    BY DEF Init, Supervisor!Init, Phase, Status
  <1>3. QED
    BY <1>1, <1>2, UnbornStep, SupervisionStep, TypeCorrect, CleanupIsLast,
       AllAreTold, PTL DEF Spec, SupervisionSafe, Supervisor!Spec
=============================================================================
