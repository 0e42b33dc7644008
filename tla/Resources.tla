----------------------------- MODULE Resources -----------------------------
(***************************************************************************)
(* Everything the threads of the system wait for, taken together: the      *)
(* semaphore of the telemetry bus, the mutex of each subsystem, and a slot *)
(* in the message queue, which the logger empties.                         *)
(*                                                                         *)
(* Sources: the thread functions of power/, thermal/ and comms/,           *)
(* watchdog() of main.c, and the main loop of logger/logger.c.             *)
(*                                                                         *)
(* A thread is the sequence of the operations that the rest of its round   *)
(* makes on what it shares.  A branch of the code that shares differently  *)
(* is another sequence; which one a round takes depends on data (the       *)
(* battery, the mode, the ground's command) that are left out here.        *)
(*                                                                         *)
(* A definition whose name ends in _Bug is the definition after it with a  *)
(* plausible mistake in it; the specification does not use it.             *)
(***************************************************************************)
EXTENDS Integers, Sequences

CONSTANTS
  Running,            \* the threads of this instance
  MQ_MAX_MESSAGES,    \* the capacity of the message queue
  LoggerMayDie        \* TRUE: the logger may crash during the mission

Threads == {"watchdog", "solar", "battery", "power_writer", "sensor",
            "heater", "thermal_writer", "uplink", "downlink"}

\* In the order in which they may be taken while others are held.
Locks == {"g_sem", "g_power_mutex", "g_thermal_mutex", "g_comms_mutex"}

\* What they protect.
Data == {"bus", "g_power", "g_thermal", "g_comms"}

Rank == [l \in Locks |-> IF l = "g_sem" THEN 1 ELSE 2]

ASSUME ResourcesAssumption ==
  /\ Running \subseteq Threads
  /\ MQ_MAX_MESSAGES \in Nat \ {0}
  /\ LoggerMayDie \in BOOLEAN

Process == [t \in Threads |->
              CASE t = "watchdog" -> "OBC"
                [] t \in {"solar", "battery", "power_writer"} -> "POWER"
                [] t \in {"sensor", "heater", "thermal_writer"} -> "THERMAL"
                [] t \in {"uplink", "downlink"} -> "COMMS"]

\* The processes that broadcast_shutdown tells to stop.
Subsystems == {"LOGGER"} \cup ({Process[t] : t \in Running} \ {"OBC"})

-----------------------------------------------------------------------------
(***************************************************************************)
(* The rounds of the threads                                               *)
(***************************************************************************)
Take(l) == [do |-> "take", of |-> l]
Give(l) == [do |-> "give", of |-> l]
Use(d)  == [do |-> "use", of |-> d]
Send    == [do |-> "send", of |-> "g_mq"]

\* Use the data d with the lock l held.
Guarded(l, d) == <<Take(l), Use(d), Give(l)>>

OnBus == Guarded("g_sem", "bus")

InPower == Guarded("g_power_mutex", "g_power")

InThermal == Guarded("g_thermal_mutex", "g_thermal")

InComms == Guarded("g_comms_mutex", "g_comms")

\* The sample; and the second access if the mode changes.
WatchdogRounds == {OnBus, OnBus \o OnBus}

SolarRounds == {InPower}

\* The branch of a fault goes on with the loop without the unlock.
BatteryRounds_Bug ==
  {InPower, <<Take("g_power_mutex"), Use("g_power"), Send>>}

\* All is well; CRITICAL or WARNING, reported after the unlock; recovered,
\* which is reported before it.
BatteryRounds ==
  {InPower, InPower \o <<Send>>,
   <<Take("g_power_mutex"), Use("g_power"), Send, Give("g_power_mutex")>>}

\* The mutex is taken before the semaphore.
PowerWriterSwapped_Bug ==
  {<<Take("g_power_mutex"), Take("g_sem"), Use("g_power"), Use("bus"),
     Give("g_sem"), Give("g_power_mutex")>>}

\* The mutex is forgotten.
PowerWriterUnguarded_Bug ==
  {<<Take("g_sem"), Use("g_power"), Use("bus"), Give("g_sem")>>}

PowerWriterRounds ==
  {<<Take("g_sem"), Take("g_power_mutex"), Use("g_power"), Use("bus"),
     Give("g_power_mutex"), Give("g_sem")>>}

\* Each report of sensor_thread comes after the unlock.
SensorRounds == {InThermal, InThermal \o <<Send>>}

\* The zones that sensor_thread simulates never get cold enough for the
\* report that heater_thread makes with the mutex held.
HeaterRounds == {InThermal}

ThermalWriterRounds ==
  {<<Take("g_sem"), Take("g_thermal_mutex"), Use("g_thermal"), Use("bus"),
     Give("g_thermal_mutex"), Give("g_sem")>>}

\* No command; or uplink_active, what the command does, last_command.
UplinkRounds ==
  {InComms} \cup {InComms \o handled \o InComms :
                    handled \in {OnBus, <<Send>>, << >>}}

\* What comes from g_comms is read without the mutex: uplink_active.
ShowLink == <<Take("g_sem"), Use("g_comms"), Use("bus"), Give("g_sem")>>

\* SAFE MODE; a report and no more; the bus, and every so often a snapshot.
DownlinkRounds ==
  {InComms, InComms \o <<Send>>, InComms \o ShowLink,
   InComms \o <<Send>> \o ShowLink}

Rounds(t) ==
  CASE t = "watchdog"       -> WatchdogRounds
    [] t = "solar"          -> SolarRounds
    [] t = "battery"        -> BatteryRounds
    [] t = "power_writer"   -> PowerWriterRounds
    [] t = "sensor"         -> SensorRounds
    [] t = "heater"         -> HeaterRounds
    [] t = "thermal_writer" -> ThermalWriterRounds
    [] t = "uplink"         -> UplinkRounds
    [] t = "downlink"       -> DownlinkRounds

-----------------------------------------------------------------------------
VARIABLES
  todo,      \* what is left of each thread's round
  owner,     \* who has taken each lock
  queued,    \* the number of reports in the queue
  logger,    \* whether the logger is up or gone
  obc,       \* up; asked: SIGINT; stopping: broadcast_shutdown; down
  told       \* the subsystems whose g_shutdown is set

vars == <<todo, owner, queued, logger, obc, told>>

Nobody == "nobody"

Init ==
  /\ todo = [t \in Running |-> << >>]
  /\ owner = [l \in Locks |-> Nobody]
  /\ queued = 0
  /\ logger = "up"
  /\ obc = "up"
  /\ told = {}

Asleep(t) == todo[t] = << >>

Due(t, op) == todo[t] # << >> /\ Head(todo[t]) = op

Done(t) == todo' = [todo EXCEPT ![t] = Tail(@)]

\* while (1).
TestLoop_Bug(t) ==
  /\ Asleep(t)
  /\ \E r \in Rounds(t) : todo' = [todo EXCEPT ![t] = r]
  /\ UNCHANGED <<owner, queued, logger, obc, told>>

\* while (!g_shutdown), and then the sleep() before the first operation.
TestLoop(t) ==
  /\ Asleep(t)
  /\ IF t = "watchdog" THEN obc = "up" ELSE Process[t] \notin told
  /\ \E r \in Rounds(t) : todo' = [todo EXCEPT ![t] = r]
  /\ UNCHANGED <<owner, queued, logger, obc, told>>

\* sem_wait or pthread_mutex_lock.
TakeLock(t, l) ==
  /\ Due(t, Take(l)) /\ owner[l] = Nobody
  /\ owner' = [owner EXCEPT ![l] = t]
  /\ Done(t)
  /\ UNCHANGED <<queued, logger, obc, told>>

\* sem_post or pthread_mutex_unlock.
GiveLock(t, l) ==
  /\ Due(t, Give(l))
  /\ owner' = [owner EXCEPT ![l] = Nobody]
  /\ Done(t)
  /\ UNCHANGED <<queued, logger, obc, told>>

UseData(t) ==
  /\ ~Asleep(t) /\ Head(todo[t]).do = "use"
  /\ Done(t)
  /\ UNCHANGED <<owner, queued, logger, obc, told>>

\* The queue has no bound.
SendReport_Bug(t) ==
  /\ Due(t, Send)
  /\ queued' = queued + 1
  /\ Done(t)
  /\ UNCHANGED <<owner, logger, obc, told>>

\* msgq_send blocks while the queue is full.
SendReport(t) ==
  /\ Due(t, Send) /\ queued < MQ_MAX_MESSAGES
  /\ queued' = queued + 1
  /\ Done(t)
  /\ UNCHANGED <<owner, logger, obc, told>>

Operation(t) ==
  \/ UseData(t) \/ SendReport(t)
  \/ \E l \in Locks : TakeLock(t, l) \/ GiveLock(t, l)

Receive ==
  /\ logger = "up" /\ queued > 0
  /\ queued' = queued - 1
  /\ UNCHANGED <<todo, owner, logger, obc, told>>

LoggerGoes ==
  /\ logger = "up"
  /\ LoggerMayDie \/ "LOGGER" \in told
  /\ logger' = "gone"
  /\ UNCHANGED <<todo, owner, queued, obc, told>>

\* handle_sigint of the OBC.
Interrupt ==
  /\ obc = "up"
  /\ obc' = "asked"
  /\ UNCHANGED <<todo, owner, queued, logger, told>>

\* main() comes to broadcast_shutdown only when watchdog() has returned.
BroadcastShutdown ==
  /\ obc = "asked" /\ ("watchdog" \in Running => Asleep("watchdog"))
  /\ obc' = "stopping"
  /\ UNCHANGED <<todo, owner, queued, logger, told>>

HandleSigterm(p) ==
  /\ obc = "stopping" /\ p \notin told
  /\ told' = told \cup {p}
  /\ UNCHANGED <<todo, owner, queued, logger, obc>>

\* A thread that has seen g_shutdown is joined, its process exits, and
\* wait_children returns.
WaitChildren ==
  /\ obc = "stopping" /\ told = Subsystems /\ logger = "gone"
  /\ \A t \in Running : Asleep(t)
  /\ obc' = "down"
  /\ UNCHANGED <<todo, owner, queued, logger, told>>

Terminated == obc = "down" /\ UNCHANGED vars

Next ==
  \/ \E t \in Running : TestLoop(t) \/ Operation(t)
  \/ Receive \/ LoggerGoes
  \/ Interrupt \/ BroadcastShutdown \/ WaitChildren \/ Terminated
  \/ \E p \in Subsystems : HandleSigterm(p)

Spec == Init /\ [][Next]_vars

(***************************************************************************)
(* Threads that can run do.  A lock, or a slot of the queue, that is free  *)
(* again and again goes to whoever waits for it: it is wanted for          *)
(* microseconds in every two seconds, and the kernel serves the waiting    *)
(* senders of a queue in turn.  Nothing is obliged to begin a round.       *)
(***************************************************************************)
Fairness ==
  /\ \A t \in Running : SF_vars(Operation(t))
  /\ WF_vars(Receive) /\ WF_vars("LOGGER" \in told /\ LoggerGoes)
  /\ WF_vars(BroadcastShutdown) /\ WF_vars(WaitChildren)
  /\ WF_vars(\E p \in Subsystems : HandleSigterm(p))

FairSpec == Spec /\ Fairness

-----------------------------------------------------------------------------
(***************************************************************************)
(* Properties                                                              *)
(***************************************************************************)
Held(t) == {l \in Locks : owner[l] = t}

\* Every variable stays in its domain.
TypeOK ==
  /\ todo \in [Running -> Seq([do : {"take", "give", "use", "send"},
                               of : Locks \cup Data \cup {"g_mq"}])]
  /\ owner \in [Locks -> Running \cup {Nobody}]
  /\ queued \in 0..MQ_MAX_MESSAGES
  /\ logger \in {"up", "gone"}
  /\ obc \in {"up", "asked", "stopping", "down"}
  /\ told \subseteq Subsystems

(***************************************************************************)
(* Locks are taken in one order, the semaphore of the bus before a mutex,  *)
(* in every thread of every process: whoever waits for a lock holds only   *)
(* locks that come before it, so that no set of threads ever waits for     *)
(* each other in a circle.                                                 *)
(***************************************************************************)
LockOrder ==
  \A t \in Running, l \in Locks :
    Due(t, Take(l)) => \A k \in Held(t) : Rank[k] < Rank[l]

(***************************************************************************)
(* No two threads are ever about to use the same data: the semaphore and   *)
(* the mutexes cover the bus, g_power and g_thermal, wherever they are     *)
(* used.  Not so g_comms, from which downlink_thread reads one word        *)
(* without the mutex.                                                      *)
(***************************************************************************)
RaceFree ==
  \A d \in Data \ {"g_comms"} :
    \A t, u \in Running : Due(t, Use(d)) /\ Due(u, Use(d)) => t = u

\* Somebody waits for a slot in a queue that nobody will ever empty.
Clogged == /\ logger = "gone" /\ queued = MQ_MAX_MESSAGES
           /\ \E t \in Running : Due(t, Send)

\* The next operation of thread t has nothing to wait for.
CanGo(t) ==
  /\ ~Asleep(t)
  /\ Head(todo[t]).do = "take" => owner[Head(todo[t]).of] = Nobody
  /\ Head(todo[t]).do = "send" => queued < MQ_MAX_MESSAGES

(***************************************************************************)
(* The threads never all wait for each other, whatever they hold while     *)
(* they wait for a slot of the queue: if any is in its round, then one can *)
(* go on or the logger can take a report, unless the queue is clogged.     *)
(***************************************************************************)
NoStandstill ==
  (\E t \in Running : ~Asleep(t))
    => \/ \E t \in Running : CanGo(t)
       \/ logger = "up" /\ queued > 0
       \/ Clogged

(***************************************************************************)
(* Nobody waits for ever: each round comes to its end, unless the logger   *)
(* has gone and left a full queue.                                         *)
(***************************************************************************)
RoundsEnd == \A t \in Running : ~Asleep(t) ~> Asleep(t) \/ Clogged

(***************************************************************************)
(* However locks are held when it comes, SIGINT ends the program, unless   *)
(* a full queue that nobody empties is in the way.  (Here only the logger  *)
(* dies.  A death with the semaphore held, which is in the way as well, is *)
(* in Lifecycle.)                                                          *)
(***************************************************************************)
ShutdownCompletes == obc = "asked" ~> obc = "down" \/ Clogged

(***************************************************************************)
(* README.md:38: the OBC "Runs a watchdog every 2 seconds": watchdog()     *)
(* returns, whatever becomes of the logger.                                *)
(***************************************************************************)
WatchdogReturns == ~Asleep("watchdog") ~> Asleep("watchdog")
=============================================================================
