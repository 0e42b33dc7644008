------------------------------ MODULE SafeMode ------------------------------
(***************************************************************************)
(* SAFE MODE, end to end: the power and thermal threads that sense a fault *)
(* and publish it on the telemetry bus, the OBC watchdog that samples the  *)
(* bus and broadcasts a mode by signals, one child after another, and the  *)
(* children whose handlers turn the signals into a flag, which the power   *)
(* process publishes back on the bus.                                      *)
(*                                                                         *)
(* Sources: main.c, signals/signal_handler.c, power/power_threads.c,       *)
(* thermal/thermal_threads.c, and the users of the bus semaphore in        *)
(* comms/.  Every process has started and nobody has asked for a shutdown; *)
(* the message queue is drained by the logger, so that a report never      *)
(* blocks its sender.                                                      *)
(*                                                                         *)
(* A definition whose name ends in _Bug is the definition after it with a  *)
(* plausible mistake in it.  The specification does not use it: it is      *)
(* there to see that a property notices the mistake.                       *)
(***************************************************************************)
EXTENDS Integers

CONSTANTS
  N,                  \* children 1..N, in the order the broadcasts signal them
  BATTERY_FULL, BATTERY_WARNING, BATTERY_CRITICAL,
  Drains, Charges,    \* what one battery tick may take or give
  ECLIPSE_START, ECLIPSE_END,
  TEMP_WARNING, TEMP_CRITICAL, NormalTemps,
  THERMAL_SPIKE, SPIKE_TEMP, COOLING_STEP, COOLING_FLOOR, COOLING_TICKS,
  Prompt,             \* the children that handle a signal within one period
  Paced,              \* TRUE: every thread runs once in each period
  Ground,             \* TRUE: the ground station sends commands
  Mortal              \* the children that may die

OBC     == 0
POWER   == 1
THERMAL == 2
COMMS   == 3

MODE_NORMAL == 0
MODE_SAFE   == 1
Modes       == {MODE_NORMAL, MODE_SAFE}

Children  == 1..N
Processes == 0..N
Signals   == {"SIGUSR1", "SIGUSR2"}

\* The loops that sleep for SENSOR_INTERVAL or WATCHDOG_INTERVAL.
Threads == {"solar", "battery", "power_writer", "sensor", "thermal_writer",
            "watchdog"}

ASSUME ChildrenAssumption ==
  /\ N \in Nat /\ N >= COMMS
  /\ Mortal \subseteq Children

ASSUME PowerAssumption ==
  /\ {BATTERY_FULL, BATTERY_WARNING, BATTERY_CRITICAL} \subseteq Nat
  /\ BATTERY_CRITICAL < BATTERY_WARNING /\ BATTERY_WARNING < BATTERY_FULL
  /\ Drains \subseteq Nat /\ Charges \subseteq Nat \ {0} /\ Charges # {}
  /\ {ECLIPSE_START, ECLIPSE_END} \subseteq Nat

ASSUME ThermalAssumption ==
  /\ {TEMP_WARNING, TEMP_CRITICAL, SPIKE_TEMP} \subseteq Nat
  /\ {COOLING_STEP, COOLING_FLOOR, COOLING_TICKS, THERMAL_SPIKE} \subseteq Nat
  /\ NormalTemps \subseteq Nat

\* The pace is that of sleep() in processes nobody interrupts: a signal from
\* the ground or the death of a child cuts a sleep() of the OBC short.
ASSUME PaceAssumption ==
  /\ Prompt \subseteq Children
  /\ {Paced, Ground} \subseteq BOOLEAN
  /\ Paced => ~Ground /\ Mortal = {}

\* In the mission's timeline the eclipse is well under way when the CPU heats
\* up, nothing else heats it, and it takes four ticks to cool below critical
\* and six below the warning level.  The code has an eclipse from 10 to 20, a
\* spike of 110 degrees at 30, a cooling of 5 in each of 7 ticks and of 28 to
\* 45 otherwise, with levels of 85 and 95.
ASSUME TimelineAssumption ==
  Paced => /\ 1 <= ECLIPSE_START /\ ECLIPSE_START <= ECLIPSE_END
           /\ ECLIPSE_START + 2 <= THERMAL_SPIKE
           /\ 30 < TEMP_WARNING /\ COOLING_FLOOR < TEMP_WARNING
           /\ \A t \in NormalTemps : t < TEMP_WARNING
           /\ TEMP_WARNING <= TEMP_CRITICAL
           /\ TEMP_CRITICAL + 3 * COOLING_STEP <= SPIKE_TEMP
           /\ TEMP_WARNING + 5 * COOLING_STEP <= SPIKE_TEMP
           /\ COOLING_TICKS >= 6

VARIABLES
  power,     \* g_power and solar_thread's elapsed; solar: solar_watts > 0
  thermal,   \* g_thermal and sensor_thread's elapsed
  report,    \* the severity of the last fault report each sensor has sent
  bus,       \* the telemetry bus in shared memory
  sem,       \* the value of the semaphore that guards the bus
  holders,   \* the processes between sem_wait and sem_post
  obc,       \* where watchdog() is, the mode it commands, the next to signal
  pending,   \* the signals sent to a process and not yet handled
  flag,      \* g_safe_mode of each process
  restart,   \* g_restart of the OBC
  alive,     \* the children that run, which are those with g_pid > 0
  ran        \* when Paced, the threads that have run in this period

vars == <<power, thermal, report, bus, sem, holders, obc, pending, flag,
          restart, alive, ran>>

Init ==
  /\ power = [solar |-> TRUE, battery |-> BATTERY_FULL,
              fault_active |-> FALSE, elapsed |-> 0]
  /\ thermal = [temp_cpu |-> 30, fault_active |-> FALSE, elapsed |-> 0]
  /\ report = [c \in {POWER, THERMAL} |-> "NONE"]
  /\ bus = [solar |-> TRUE, battery |-> BATTERY_FULL, temp_cpu |-> 30,
            safe_mode |-> MODE_NORMAL]
  /\ sem = 1
  /\ holders = {}
  /\ obc = [pc |-> "sleep", command |-> MODE_NORMAL, next |-> 1]
  /\ pending = [p \in Processes |-> {}]
  /\ flag = [p \in Processes |-> MODE_NORMAL]
  /\ restart = FALSE
  /\ alive = Children
  /\ ran = {}

-----------------------------------------------------------------------------
(***************************************************************************)
(* The semaphore and the pace                                              *)
(***************************************************************************)
SemWait(p) == /\ sem = 1
              /\ sem' = 0
              /\ holders' = holders \cup {p}

SemPost(p) == /\ sem' = 1
              /\ holders' = holders \ {p}

Due(t) == Paced => t \notin ran

Ran(t) == ran' = IF Paced THEN ran \cup {t} ELSE ran

\* No prompt child has a signal still to handle.
Quiet == \A c \in Prompt : pending[c] = {}

\* A period has passed: SENSOR_INTERVAL and WATCHDOG_INTERVAL are both 2 s.
NextPeriod ==
  /\ Paced /\ ran = Threads
  /\ obc.pc = "sleep" /\ Quiet
  /\ ran' = {}
  /\ UNCHANGED <<power, thermal, report, bus, sem, holders, obc, pending,
                 flag, restart, alive>>

-----------------------------------------------------------------------------
(***************************************************************************)
(* The power process                                                       *)
(***************************************************************************)
Lowest(a, b) == IF a < b THEN a ELSE b

\* solar_thread's clock; past the eclipse its value no longer matters.
SolarTick ==
  /\ POWER \in alive /\ Due("solar")
  /\ LET t == Lowest(power.elapsed + 1, ECLIPSE_END + 1)
     IN  power' = [power EXCEPT !.elapsed = t,
                                !.solar = t \notin ECLIPSE_START..ECLIPSE_END]
  /\ Ran("solar")
  /\ UNCHANGED <<thermal, report, bus, sem, holders, obc, pending, flag,
                 restart, alive>>

\* The floor at 0 is forgotten.
NextBattery_Bug ==
  IF power.solar
  THEN {Lowest(power.battery + g, BATTERY_FULL) : g \in Charges}
  ELSE {power.battery - d : d \in Drains}

\* The values one tick of battery_thread may leave in battery_pct.
NextBattery ==
  IF power.solar
  THEN {Lowest(power.battery + g, BATTERY_FULL) : g \in Charges}
  ELSE {IF d > power.battery THEN 0 ELSE power.battery - d : d \in Drains}

BatteryTick ==
  /\ POWER \in alive /\ Due("battery")
  /\ \E batt \in NextBattery :
       LET latched == power.fault_active
           severity == CASE batt <= BATTERY_CRITICAL /\ ~latched -> "CRITICAL"
                         [] batt > BATTERY_CRITICAL /\ batt <= BATTERY_WARNING
                              /\ ~latched -> "WARNING"
                         [] batt > BATTERY_WARNING /\ latched -> "INFO"
                         [] OTHER -> report[POWER]
       IN  /\ power' = [power EXCEPT
                          !.battery = batt,
                          !.fault_active = \/ latched /\ batt <= BATTERY_WARNING
                                           \/ batt <= BATTERY_CRITICAL]
           /\ report' = [report EXCEPT ![POWER] = severity]
  /\ Ran("battery")
  /\ UNCHANGED <<thermal, bus, sem, holders, obc, pending, flag, restart,
                 alive>>

PowerWriterLock ==
  /\ POWER \in alive \ holders /\ Due("power_writer")
  /\ SemWait(POWER)
  /\ UNCHANGED <<power, thermal, report, bus, obc, pending, flag, restart,
                 alive, ran>>

\* The copy includes the process's own flag: it may overwrite the OBC's.
PowerWriterPublish ==
  /\ POWER \in alive \cap holders
  /\ bus' = [bus EXCEPT !.solar = power.solar, !.battery = power.battery,
                        !.safe_mode = flag[POWER]]
  /\ SemPost(POWER)
  /\ Ran("power_writer")
  /\ UNCHANGED <<power, thermal, report, obc, pending, flag, restart, alive>>

-----------------------------------------------------------------------------
(***************************************************************************)
(* The thermal process                                                     *)
(***************************************************************************)
\* The values one tick of sensor_thread may leave in temp_cpu, t ticks in.
NextTemps(t) ==
  IF t = THERMAL_SPIKE THEN {SPIKE_TEMP}
  ELSE IF t > THERMAL_SPIKE /\ t < THERMAL_SPIKE + COOLING_TICKS
    THEN {IF thermal.temp_cpu < COOLING_FLOOR + COOLING_STEP
          THEN COOLING_FLOOR ELSE thermal.temp_cpu - COOLING_STEP}
    ELSE NormalTemps

\* The clock stops once the spike is over: its value no longer matters.
SensorTick ==
  /\ THERMAL \in alive /\ Due("sensor")
  /\ LET t == Lowest(thermal.elapsed + 1, THERMAL_SPIKE + COOLING_TICKS)
         latched == thermal.fault_active
     IN  \E temp \in NextTemps(t) :
           /\ thermal' = [temp_cpu |-> temp,
                          fault_active |-> \/ latched /\ temp >= TEMP_WARNING
                                           \/ temp >= TEMP_CRITICAL,
                          elapsed |-> t]
           /\ report' =
                [report EXCEPT ![THERMAL] =
                   CASE temp >= TEMP_CRITICAL /\ ~latched -> "CRITICAL"
                     [] temp < TEMP_CRITICAL /\ temp >= TEMP_WARNING
                          /\ ~latched -> "WARNING"
                     [] temp < TEMP_WARNING /\ latched -> "INFO"
                     [] OTHER -> @]
  /\ Ran("sensor")
  /\ UNCHANGED <<power, bus, sem, holders, obc, pending, flag, restart, alive>>

ThermalWriterLock ==
  /\ THERMAL \in alive \ holders /\ Due("thermal_writer")
  /\ SemWait(THERMAL)
  /\ UNCHANGED <<power, thermal, report, bus, obc, pending, flag, restart,
                 alive, ran>>

ThermalWriterPublish ==
  /\ THERMAL \in alive \cap holders
  /\ bus' = [bus EXCEPT !.temp_cpu = thermal.temp_cpu]
  /\ SemPost(THERMAL)
  /\ Ran("thermal_writer")
  /\ UNCHANGED <<power, thermal, report, obc, pending, flag, restart, alive>>

-----------------------------------------------------------------------------
(***************************************************************************)
(* The comms process: downlink_thread writes the link fields of the bus,   *)
(* which nobody in this module reads, and STATUS only reads the bus.       *)
(***************************************************************************)
CommsLock ==
  /\ COMMS \in alive \ holders
  /\ SemWait(COMMS)
  /\ UNCHANGED <<power, thermal, report, bus, obc, pending, flag, restart,
                 alive, ran>>

CommsUnlock ==
  /\ COMMS \in alive \cap holders
  /\ SemPost(COMMS)
  /\ UNCHANGED <<power, thermal, report, bus, obc, pending, flag, restart,
                 alive, ran>>

\* SAFE_MODE sends SIGUSR1 to the OBC, RESET_ADCS sends it SIGUSR2.
GroundCommand ==
  /\ Ground /\ COMMS \in alive
  /\ \E s \in Signals : pending' = [pending EXCEPT ![OBC] = @ \cup {s}]
  /\ UNCHANGED <<power, thermal, report, bus, sem, holders, obc, flag,
                 restart, alive, ran>>

-----------------------------------------------------------------------------
(***************************************************************************)
(* The OBC: watchdog(), once in each WATCHDOG_INTERVAL                     *)
(***************************************************************************)
SignalFor(m) == IF m = MODE_SAFE THEN "SIGUSR1" ELSE "SIGUSR2"

\* Prompt children have handled the signals of a broadcast by the next tick;
\* any other child may still have those of several broadcasts to handle.
WatchdogLock ==
  /\ obc.pc = "sleep" /\ Due("watchdog") /\ Quiet
  /\ SemWait(OBC)
  /\ obc' = [obc EXCEPT !.pc = "sample"]
  /\ UNCHANGED <<power, thermal, report, bus, pending, flag, restart, alive,
                 ran>>

\* The wrong level of the battery.
EnterConditionWarning_Bug ==
  /\ bus.safe_mode = MODE_NORMAL
  /\ bus.battery <= BATTERY_WARNING \/ bus.temp_cpu >= TEMP_CRITICAL

\* && instead of ||: both faults are needed.
EnterCondition_Bug ==
  /\ bus.safe_mode = MODE_NORMAL
  /\ bus.battery <= BATTERY_CRITICAL /\ bus.temp_cpu >= TEMP_CRITICAL

EnterCondition ==
  /\ bus.safe_mode = MODE_NORMAL
  /\ bus.battery <= BATTERY_CRITICAL \/ bus.temp_cpu >= TEMP_CRITICAL

\* The battery level is not looked at.
ExitConditionBattery_Bug ==
  /\ bus.safe_mode = MODE_SAFE
  /\ bus.temp_cpu < TEMP_WARNING /\ bus.solar

\* The test of the solar panels is inverted.
ExitConditionSolar_Bug ==
  /\ bus.safe_mode = MODE_SAFE
  /\ bus.battery > BATTERY_WARNING /\ bus.temp_cpu < TEMP_WARNING
  /\ ~bus.solar

ExitCondition ==
  /\ bus.safe_mode = MODE_SAFE
  /\ bus.battery > BATTERY_WARNING /\ bus.temp_cpu < TEMP_WARNING
  /\ bus.solar

Broadcast(m) ==
  /\ obc' = [pc |-> "signal", command |-> m, next |-> 1]
  /\ UNCHANGED ran

\* The four reads are made under the semaphore, the decision from the copies.
WatchdogSample ==
  /\ obc.pc = "sample"
  /\ SemPost(OBC)
  /\ \/ EnterCondition /\ Broadcast(MODE_SAFE)
     \/ ExitCondition /\ Broadcast(MODE_NORMAL)
     \/ /\ ~EnterCondition /\ ~ExitCondition
        /\ obc' = [obc EXCEPT !.pc = "sleep"]
        /\ Ran("watchdog")
  /\ UNCHANGED <<power, thermal, report, bus, pending, flag, restart, alive>>

\* The last child is left out of the broadcasts.
SignalChildShort_Bug ==
  /\ obc.pc = "signal"
  /\ pending' = IF obc.next \in alive \ {N}
                THEN [pending EXCEPT
                        ![obc.next] = @ \cup {SignalFor(obc.command)}]
                ELSE pending
  /\ obc' = IF obc.next = N THEN [obc EXCEPT !.pc = "update"]
                            ELSE [obc EXCEPT !.next = @ + 1]
  /\ UNCHANGED <<power, thermal, report, bus, sem, holders, flag, restart,
                 alive, ran>>

\* broadcast_safe_mode_exit, a copy, still sends SIGUSR1.
SignalChildCopy_Bug ==
  /\ obc.pc = "signal"
  /\ pending' = IF obc.next \in alive
                THEN [pending EXCEPT ![obc.next] = @ \cup {"SIGUSR1"}]
                ELSE pending
  /\ obc' = IF obc.next = N THEN [obc EXCEPT !.pc = "update"]
                            ELSE [obc EXCEPT !.next = @ + 1]
  /\ UNCHANGED <<power, thermal, report, bus, sem, holders, flag, restart,
                 alive, ran>>

\* One line of broadcast_safe_mode or broadcast_safe_mode_exit; kill() leaves
\* a signal that is already pending as it is.
SignalChild ==
  /\ obc.pc = "signal"
  /\ pending' = IF obc.next \in alive
                THEN [pending EXCEPT
                        ![obc.next] = @ \cup {SignalFor(obc.command)}]
                ELSE pending
  /\ obc' = IF obc.next = N THEN [obc EXCEPT !.pc = "update"]
                            ELSE [obc EXCEPT !.next = @ + 1]
  /\ UNCHANGED <<power, thermal, report, bus, sem, holders, flag, restart,
                 alive, ran>>

\* The sem_wait before the update is forgotten.
UpdateLock_Bug ==
  /\ obc.pc = "update"
  /\ obc' = [obc EXCEPT !.pc = "store"]
  /\ UNCHANGED <<power, thermal, report, bus, sem, holders, pending, flag,
                 restart, alive, ran>>

UpdateLock ==
  /\ obc.pc = "update"
  /\ SemWait(OBC)
  /\ obc' = [obc EXCEPT !.pc = "store"]
  /\ UNCHANGED <<power, thermal, report, bus, pending, flag, restart, alive,
                 ran>>

\* The sem_post after the update is forgotten.
UpdateStore_Bug ==
  /\ obc.pc = "store"
  /\ bus' = [bus EXCEPT !.safe_mode = obc.command]
  /\ obc' = [obc EXCEPT !.pc = "sleep"]
  /\ Ran("watchdog")
  /\ UNCHANGED <<power, thermal, report, sem, holders, pending, flag, restart,
                 alive>>

UpdateStore ==
  /\ obc.pc = "store"
  /\ bus' = [bus EXCEPT !.safe_mode = obc.command]
  /\ SemPost(OBC)
  /\ obc' = [obc EXCEPT !.pc = "sleep"]
  /\ Ran("watchdog")
  /\ UNCHANGED <<power, thermal, report, pending, flag, restart, alive>>

-----------------------------------------------------------------------------
(***************************************************************************)
(* Signal handlers and failures                                            *)
(***************************************************************************)
\* The children keep the parent's SIGUSR2 handler.
Deliver_Bug(p, s) ==
  /\ p \in alive \cup {OBC} /\ s \in pending[p]
  /\ pending' = [pending EXCEPT ![p] = @ \ {s}]
  /\ IF s = "SIGUSR1"
     THEN flag' = [flag EXCEPT ![p] = MODE_SAFE] /\ UNCHANGED restart
     ELSE restart' = TRUE /\ UNCHANGED flag
  /\ UNCHANGED <<power, thermal, report, bus, sem, holders, obc, alive, ran>>

\* Pending signals are delivered in any order.  The OBC's SIGUSR2 handler is
\* handle_sigusr2_parent, which does not touch g_safe_mode.
Deliver(p, s) ==
  /\ p \in alive \cup {OBC} /\ s \in pending[p]
  /\ pending' = [pending EXCEPT ![p] = @ \ {s}]
  /\ IF s = "SIGUSR1"
     THEN flag' = [flag EXCEPT ![p] = MODE_SAFE] /\ UNCHANGED restart
     ELSE IF p = OBC
       THEN restart' = TRUE /\ UNCHANGED flag
       ELSE flag' = [flag EXCEPT ![p] = MODE_NORMAL] /\ UNCHANGED restart
  /\ UNCHANGED <<power, thermal, report, bus, sem, holders, obc, alive, ran>>

\* A child dies and handle_sigchld resets its g_pid.  A named semaphore is not
\* robust: what the dead child held stays taken.
Die(c) ==
  /\ c \in alive \cap Mortal
  /\ alive' = alive \ {c}
  /\ pending' = [pending EXCEPT ![c] = {}]
  /\ UNCHANGED <<power, thermal, report, bus, sem, holders, obc, flag,
                 restart, ran>>

-----------------------------------------------------------------------------
Next ==
  \/ NextPeriod
  \/ SolarTick \/ BatteryTick \/ PowerWriterLock \/ PowerWriterPublish
  \/ SensorTick \/ ThermalWriterLock \/ ThermalWriterPublish
  \/ CommsLock \/ CommsUnlock \/ GroundCommand
  \/ WatchdogLock \/ WatchdogSample \/ SignalChild \/ UpdateLock \/ UpdateStore
  \/ \E p \in Processes, s \in Signals : Deliver(p, s)
  \/ \E c \in Children : Die(c)

Spec == Init /\ [][Next]_vars

(***************************************************************************)
(* Threads run again after every sleep() and signals are delivered.  A     *)
(* sem_wait gets strong fairness: the semaphore is held for microseconds   *)
(* in every two seconds, so nobody finds it taken each time.               *)
(***************************************************************************)
Fairness ==
  /\ WF_vars(NextPeriod)
  /\ WF_vars(SolarTick) /\ WF_vars(BatteryTick) /\ WF_vars(SensorTick)
  /\ SF_vars(PowerWriterLock) /\ WF_vars(PowerWriterPublish)
  /\ SF_vars(ThermalWriterLock) /\ WF_vars(ThermalWriterPublish)
  /\ WF_vars(CommsUnlock)
  /\ SF_vars(WatchdogLock) /\ WF_vars(WatchdogSample) /\ WF_vars(SignalChild)
  /\ SF_vars(UpdateLock) /\ WF_vars(UpdateStore)
  /\ \A p \in Processes, s \in Signals : WF_vars(Deliver(p, s))

FairSpec == Spec /\ Fairness

-----------------------------------------------------------------------------
(***************************************************************************)
(* Properties                                                              *)
(***************************************************************************)
\* Every variable stays in its domain.
TypeOK ==
  /\ power \in [solar : BOOLEAN, battery : 0..BATTERY_FULL,
                fault_active : BOOLEAN, elapsed : 0..(ECLIPSE_END + 1)]
  /\ thermal \in [temp_cpu : Nat, fault_active : BOOLEAN,
                  elapsed : 0..(THERMAL_SPIKE + COOLING_TICKS)]
  /\ report \in [{POWER, THERMAL} -> {"NONE", "INFO", "WARNING", "CRITICAL"}]
  /\ bus \in [solar : BOOLEAN, battery : 0..BATTERY_FULL, temp_cpu : Nat,
              safe_mode : Modes]
  /\ sem \in {0, 1}
  /\ holders \subseteq {OBC, POWER, THERMAL, COMMS}
  /\ obc \in [pc : {"sleep", "sample", "signal", "update", "store"},
              command : Modes, next : Children]
  /\ pending \in [Processes -> SUBSET Signals]
  /\ flag \in [Processes -> Modes]
  /\ restart \in BOOLEAN
  /\ alive \subseteq Children
  /\ ran \subseteq Threads

(***************************************************************************)
(* The bus semaphore excludes: its value is 1 exactly when nobody is       *)
(* between sem_wait and sem_post, and at most one process is, a process    *)
(* that died there included; the OBC is there exactly when watchdog()      *)
(* touches the bus.                                                        *)
(***************************************************************************)
BusExclusion ==
  /\ sem = 1 <=> holders = {}
  /\ \A p, q \in holders : p = q
  /\ OBC \in holders <=> obc.pc \in {"sample", "store"}

\* The broadcast under way, if any, has already signalled child c.
Told(c) == obc.pc = "signal" => c < obc.next

(***************************************************************************)
(* A prompt child that has been signalled and has handled its signals runs *)
(* in the mode the OBC last commanded, in whatever order the signals of a  *)
(* broadcast reach the children, whoever died meanwhile, and although the  *)
(* slow children may handle the signals of several broadcasts in the wrong *)
(* order, and a slow power process publishes an old mode on the bus.       *)
(***************************************************************************)
SettledAgreement ==
  \A c \in alive \cap Prompt :
    Told(c) /\ pending[c] = {} => flag[c] = obc.command

(***************************************************************************)
(* The strengthening that makes SettledAgreement inductive: what is        *)
(* pending is the signal of the current command, a child not yet told has  *)
(* nothing pending, and the OBC samples only when all is quiet.            *)
(***************************************************************************)
OnlyCurrentSignals ==
  \A c \in alive \cap Prompt :
    /\ pending[c] \subseteq {SignalFor(obc.command)}
    /\ ~Told(c) => pending[c] = {}
    /\ obc.pc = "sample" => pending[c] = {}

(***************************************************************************)
(* A CPU that overheats is never missed: before it has cooled below        *)
(* TEMP_CRITICAL, watchdog() has commanded SAFE MODE, although the sensor, *)
(* the bus writer and the watchdog run on clocks of their own.             *)
(***************************************************************************)
OverheatCaught ==
  [][thermal.temp_cpu >= TEMP_CRITICAL /\ thermal'.temp_cpu < TEMP_CRITICAL
       => obc.command = MODE_SAFE]_vars

(***************************************************************************)
(* From end to end: before a CPU that overheated has cooled below          *)
(* TEMP_WARNING, every living subsystem is in SAFE MODE, five threads of   *)
(* three processes later.                                                  *)
(***************************************************************************)
OverheatObeyed ==
  [][thermal.temp_cpu >= TEMP_WARNING /\ thermal'.temp_cpu < TEMP_WARNING
       => \A c \in alive : flag[c] = MODE_SAFE]_vars

(***************************************************************************)
(* No subsystem leaves SAFE MODE while the fault it is in SAFE MODE for    *)
(* lasts: the decision is taken on a stale copy of the sensors and carried *)
(* out later, but the battery has recovered when a child obeys, and a CPU  *)
(* that overheats can only just have started to.                           *)
(***************************************************************************)
LeavesAfterRecovery ==
  [][\A c \in alive : flag[c] = MODE_SAFE /\ flag'[c] = MODE_NORMAL
       => /\ power.battery > BATTERY_WARNING /\ ~power.fault_active
          /\ thermal.fault_active
               => thermal.temp_cpu >= SPIKE_TEMP - COOLING_STEP]_vars

(***************************************************************************)
(* Once the eclipse and the spike are over, the OBC, every living          *)
(* subsystem and the bus settle in NORMAL mode for good, although the      *)
(* power process may overwrite the mode the OBC stores on the bus.         *)
(***************************************************************************)
MissionEndsNormal ==
  <>[](/\ \A c \in alive : flag[c] = MODE_NORMAL
       /\ bus.safe_mode = MODE_NORMAL /\ obc.command = MODE_NORMAL)

\* The eclipse and the spike are over, for the sensors and on the bus.
MissionOver ==
  /\ power.elapsed > ECLIPSE_END
  /\ power.battery > BATTERY_CRITICAL /\ bus.battery > BATTERY_CRITICAL
  /\ thermal.elapsed = THERMAL_SPIKE + COOLING_TICKS
  /\ thermal.temp_cpu < TEMP_CRITICAL /\ bus.temp_cpu < TEMP_CRITICAL

\* Nobody is in SAFE MODE, nor about to be.
AllNormal ==
  /\ obc.command = MODE_NORMAL /\ bus.safe_mode = MODE_NORMAL
  /\ \A c \in alive :
       flag[c] = MODE_NORMAL /\ "SIGUSR1" \notin pending[c]

(***************************************************************************)
(* There is no relapse: once the mission is over and all are in NORMAL     *)
(* mode they stay there, whatever old signals a slow power process has     *)
(* still to handle, whatever it then puts on the bus, whoever dies, and    *)
(* whatever the ground commands.                                           *)
(***************************************************************************)
NoRelapse ==
  [][MissionOver /\ AllNormal => (MissionOver /\ AllNormal)']_vars

\* watchdog() never stops sampling the bus.
WatchdogKeepsRunning == []<>(obc.pc = "sample")

\* README.md:83: the ground's SAFE_MODE is to "manually trigger safe mode".
GroundCommandObeyed ==
  flag[OBC] = MODE_SAFE ~> \A c \in alive : flag[c] = MODE_SAFE

(***************************************************************************)
(* SafeMode implements ModeAuthority: the mode is the one the OBC last     *)
(* broadcast, the followers are the prompt children, and a follower's mode *)
(* is its g_safe_mode.                                                     *)
(***************************************************************************)
Authority == INSTANCE ModeAuthority
               WITH Follower <- Prompt, NORMAL <- MODE_NORMAL,
                    SAFE <- MODE_SAFE, mode <- obc.command,
                    live <- alive \cap Prompt,
                    obeys <- [c \in Prompt |-> flag[c]]

AuthoritySafe == Authority!Spec
AuthorityFair == Authority!FairSpec
=============================================================================
