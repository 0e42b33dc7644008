# A formal model of the spacecraft FDIR system

TLA+ modules, TLC configurations and TLAPS proofs for the Fault Detection,
Isolation and Recovery system in `src/`.  Lines are quoted as `file:line`.
`PROJECT.json` maps each definition to the lines it models.

The definitions are translated from the C code, not from its README.  Where the
code and a comment or the README disagree, the model follows the code, and the
disagreement is a run whose expected result is a violation.

Contents: [the system](#1-the-system) · [the modules](#2-the-modules) ·
[runs](#3-the-runs) · [bounds](#4-bounds) · [fairness](#5-fairness) ·
[proofs](#6-the-proofs) · [disagreements](#7-where-code-and-documentation-disagree) ·
[what is not modelled](#8-what-is-not-modelled) · [plan](#9-plan)

## 1. The system

Five Linux processes.  The OBC (`main.c`) forks power, thermal, comms and the
logger, and shares four IPC objects with them.

| Component | State | Operations |
|---|---|---|
| OBC watchdog (`main.c:64-100`) | `g_bus` (mapped), its own `g_safe_mode` and `g_restart` | every 2 s: sample four bus fields under the semaphore, decide on the copies, broadcast a mode, store the mode under a second `sem_wait` |
| OBC lifecycle (`main.c:17-62,102-146`) | `g_pid_*`, `g_shutdown` | fork and exec, mission loop, broadcast SIGTERM, `wait()` four times, destroy the IPC objects |
| Signals (`signals/`) | `g_safe_mode`, `g_shutdown`, `g_pid_*` of each process | SIGUSR1/2 set and clear SAFE MODE, SIGINT/SIGTERM stop, SIGCHLD reaps and resets pids, the three broadcasts |
| Power (`power/`) | `g_power` with the latch `fault_active`, `g_power_mutex` | three threads: panels and eclipse; battery and reports; publication on the bus |
| Thermal (`thermal/`) | `g_thermal` with its latch, `g_thermal_mutex` | three threads: temperatures, the CPU spike and reports; heater; publication |
| Comms (`comms/`) | `g_comms`, `g_comms_mutex` | two threads: commands from the ground station; link simulation, publication, snapshots |
| Logger (`logger/`) | `g_paused`, the file `fdr.log` (header with a count, then entries) | receive a report, skip or write it; two writes per entry |
| Telemetry bus (`ipc/shm_manager.c`) | one struct, a named semaphore | create, attach, wait, post, destroy |
| Message queue (`ipc/msgq_manager.c`) | at most 10 reports, by priority | blocking send, receive with a timeout of 1 s |
| Ground FIFO (`ipc/fifo_manager.c`) | a named pipe | non-blocking open and read |

How they interact: sensors publish on the **bus**, the watchdog reads it and
answers with **signals**, the children's handlers set a flag, and the power
process writes that flag back on the bus.  Every sensor process also sends
**reports** through the queue to the logger.  The ground sends **commands**,
which comms turns into signals to the OBC.

What is hard here:

* *Asynchrony everywhere.*  Sensors, writers and the watchdog sleep on clocks of
  their own.  A fault is sensed, published, sampled, commanded and obeyed in five
  steps of three processes; each works on a copy of the step before.
* *Two writers of one field.*  `bus->safe_mode` is stored by the OBC
  (`main.c:84,96`) and by the power process (`power_threads.c:168`).
* *Signals are not messages.*  Pending ones merge, have no order among different
  signals, and are sent to pids that a handler changes at any instruction.
* *Processes may die anywhere*, also with the semaphore taken, or between the two
  writes of a log entry; and a write to the log may fail, which nobody notices.
* *A bounded queue* whose reader may have stopped, and whose senders block, one
  of them with a mutex held that another thread wants with the semaphore held.
* *Bytes are not commands.*  One read of the FIFO may return several lines or a
  part of one, and a read that fills the buffer ends wherever it does.
* *Names outlive the program.*  A run that crashes leaves its IPC objects and its
  children to the next.

What makes the parts correct:

* Control loop: mutual exclusion on the bus; every overheating leads to SAFE MODE;
  no child resumes before the fault is over; children agree with the last command.
* Lifecycle: no child outlives the OBC or is left a zombie; the IPC objects are
  removed last; the OBC knows whom to signal; SIGINT ends the program, unless the
  semaphore or the queue is lost.
* Logging: a report has one fate for good, a critical one is never skipped; reports
  of one source stay in order; the count in the header and the entry ids lag no
  more than crashes and failed writes account for.
* Resources: locks are taken in one order, cover the data, and nobody waits for
  ever while the logger lives.
* Comms: what is obeyed was written, in order and once; the link is reported before it is
  shown as lost, and loss and return alternate.
* Restart: whoever shares the bus shares its semaphore, across runs; a clean end
  leaves nothing behind.

`PROJECT.json` lists under "hazards" every place where one of these could fail
and which property watches it.

## 2. The modules

| Module | Models |
|---|---|
| `SafeMode` | the control loop: sensors, bus, semaphore, watchdog, mode signals, flags |
| `ModeAuthority` | abstract: an authority commands a mode, followers follow |
| `Lifecycle` | fork to reap: pids, SIGCHLD, broadcasts by pid, shutdown, removal of IPC |
| `Supervision` | abstract: a parent starts children, tells them to stop, waits, and closes |
| `FaultLog` | reporting threads, message queue, logger, log file, several missions |
| `ReportFate` | abstract: what becomes of one report |
| `Resources` | the nine threads and the watchdog as users of four locks and the queue |
| `Comms` | the FIFO, `uplink_thread` with its commands, `downlink_thread` with its link |
| `MCComms` | the bytes of the commands and what the ground writes, for the run of `Comms` |
| `Restart` | the four IPC objects and their names over several runs of the program |
| `SafeModeProofs`, `SafeModeTimelineProofs`, `LifecycleProofs`, `FaultLogProofs`, `FaultLogFateProofs`, `ResourcesProofs`, `CommsProofs`, `RestartProofs` | theorems about each |

The concrete modules look at the same processes from six sides, and each says in
its header what it leaves to the others: `SafeMode` assumes that all have started
and that the queue never blocks, `FaultLog`, `Comms` and `Lifecycle` that mode
signals come at any time.  `Resources` is the composition: of every thread it
keeps what it shares with others and nothing else.  It is what entitles the
others to treat a critical section as one step (`RaceFree`) and to leave out
waiting for locks (`NoStandstill`, `RoundsEnd`).

Definitions that end in `_Bug` are not part of a specification.  Each is the
definition after it with a plausible mistake; put in its place, it makes a
property fail, which shows that the property depends on that code.

### SafeMode

| Variable | In the code |
|---|---|
| `power`, `thermal` | `g_power`, `g_thermal` and the `elapsed` of their threads; `solar` stands for `solar_watts > 0` |
| `report` | the severity of the last `*_send_fault` of power and thermal (the latch decides it) |
| `bus` | the fields of `telemetry_bus_t` the watchdog decides on |
| `sem`, `holders` | the named semaphore; who is between `sem_wait` and `sem_post` |
| `obc` | the position in `watchdog()`, the mode of the last broadcast, the next child to signal |
| `pending`, `flag` | pending SIGUSR1/2 and `g_safe_mode`, per process |
| `restart` | `g_restart` of the OBC |
| `alive` | the children that run |
| `ran` | which loops have run in this period of 2 s (only when `Paced`) |

A thread's round is one action where it holds a mutex all the time (`SolarTick`,
`BatteryTick`, `SensorTick`), and is split where others can interfere: before and
after `sem_wait` (`...Lock`, `...Publish`), and in `watchdog()` at the sample, at
each `kill()` and at the store (`WatchdogLock`, `WatchdogSample`, `SignalChild`,
`UpdateLock`, `UpdateStore`).  `Deliver` is a handler.  `Die` is a crash, which
leaves the semaphore as it was.

Two constants say what is assumed of the scheduler.  `Paced`: each loop runs once
per period, in any order, which is what `sleep(2)` gives threads that nobody
interrupts.  `Prompt`: the children that handle their mode signals before the next
watchdog tick; the others may be arbitrarily slow.  Everything else is interleaved
freely.

### Lifecycle

`obc` is the position in `main()` and in a broadcast; `waits` counts the calls
of `wait()`; `g_pid[c]` says whether the pid variable is positive; `child[c]` is
the life of a child from fork to reaped.  A pid variable is read twice by
`if (g_pid > 0) kill(g_pid, ...)`, and it is not volatile: `CheckPid` and
`KillChild` are two steps, and `HandleSigchld` may run between any two steps.
`Struck` says what a signal does to a child at each stage: what is sent before
`setup_child_signals()` kills it.  Of what can keep a process from going on the
module has two flags: `sem_lost`, the semaphore is at 0 with nobody left to post it,
because a process died inside it (`Die`) or a crashed run left it so (`Init`); and
`clogged`, the queue is full and the logger reads no more (`Clog`).  `watchdog()`
needs the semaphore before a broadcast and after it (`MissionSecond`, `StoreMode`).
The refinement mapping to `Supervision` takes
`forked`, `exec` and `ready` together as up, and `main()`'s place as the phase: the
mission, the broadcast of SIGTERM, the waiting, and closed when the IPC objects are
gone.

### FaultLog

`sender` are the threads that report; `queue` holds one FIFO per priority, and
`MqSend` blocks when they hold `MQ_MAX_MESSAGES` together; `logger` has its
position, `g_paused`, the report it holds and the count it read from the header;
`entries` and `entry_count` are the file, which outlives a mission.  `raised`,
`skipped`, `lost`, `crashed` and `failed` are history.  An entry is written in two
steps, `AppendEntry` and `UpdateCount`, as in `fdr_write_entry`, with a crash
possible before, between and after.  A failed read of the header drops the report, a
failed write of the entry is counted all the same (`AppendFails`), and a failed write
of the count leaves the entry uncounted (`CountFails`).  `fate` is the refinement
mapping to `ReportFate`: a report in a thread's hand, in the queue or taken by the
logger is pending, and the history says what has become of the others.

### Resources

`todo[t]` is what is left of thread `t`'s round: a sequence of the operations
take, give, use and send.  `Rounds(t)` are the sequences that the branches of its
loop amount to; `TestLoop` picks one, and so abstracts from the data that decide.
`owner` says who has taken each lock, `queued` how full the queue is.  `Operation`
is the next operation of a thread, which waits if it is a `take` of a lock that is
taken or a `send` to a full queue.  `battery_thread` is the one that sends with its
mutex held (`power_threads.c:138`); the similar `heater_thread` never does, because
the zones that `sensor_thread` simulates do not fall below 15 °C.
`downlink_thread` reads `g_comms.uplink_active` without the mutex (`ShowLink`).

### Comms

`written` are all the bytes that the ground has written, `ends` the places where its
writes end, and `taken` how many bytes `read()` has returned: what is between `taken`
and the end is in the FIFO.  The bytes may be any (but `'\0'`, which would end the
string that is compared), the writes of any length, with newlines anywhere.
`uplink` is the position of
`uplink_thread` with the text it has read and where that began; `comms` is `g_comms`; `downlink` is the
position of `downlink_thread`, its `elapsed`, and the severity of the report it is
about to send; `bus` are the two fields comms writes.  `asked` are the signals sent
to the OBC.  `obeyed`, which has each command with its
place, and `reported` are history.  Signal quality has three
classes, those the two thresholds tell apart.

### Restart

`names` says which object each of the four names stands for; an object is known by
the run that has created it.  `has` says which objects each process has open, a
process being a role in a run, so that orphans of earlier runs go on.  `sem` is the
value of each semaphore object, `inside` who has taken one.  `InitIpc` and
`CleanIpc` create and remove one object at a time; `CrashObc` may come anywhere.
`Stop` lets a child of a run that ends exit at any moment outside of the semaphore;
that the child must have been told is left out, since nothing here depends on it.

## 3. The runs

`tlc -config <cfg> <module>`.  State counts are distinct states.

| Run | Checks | Shows |
|---|---|---|
| `safe_mode_protocol` (1.76 M) | `TypeOK`, `BusExclusion`, `SettledAgreement`, `OnlyCurrentSignals`, `AuthoritySafe`, `NoRelapse` | ground commands at any time, and a power process that handles signals as late as it likes and may die at any step: the semaphore excludes, a prompt child that has handled its signals runs in the commanded mode, the broadcasts implement `ModeAuthority` for the prompt children, and when the mission is over and everything shows NORMAL it stays so |
| `safe_mode_timeline` (1.59 M) | `OverheatCaught`, `OverheatObeyed`, `LeavesAfterRecovery` | a whole mission with the code's thresholds: an overheating is never missed, although three loops run in any order in each period, and every child is in SAFE MODE before the CPU has cooled below its warning level; no child resumes while the battery is below its warning level, or while the CPU is hot, unless it has only just become so |
| `safe_mode_live` (35 k) | `AuthorityFair`, `MissionEndsNormal`, `WatchdogKeepsRunning` | nobody waits for ever; every mode is obeyed; after the eclipse and the spike all settle in NORMAL mode, although the power process may overwrite the OBC's store |
| `lifecycle` (210 k) | `TypeOK`, `CleanupAfterLastChild`, `RunningChildrenKnown`, `SupervisionSafe`, `ShutdownTerminates`, `ZombiesReaped` | with children that fail to start, die or stop at any step: the IPC objects outlive them all, four waits suffice although the SIGCHLD handler takes children from them, the shutdown passes over no running child although the handler resets pids meanwhile, `main()` implements `Supervision`; and SIGINT ends the OBC whenever it comes, but for two obstacles: a semaphore that a dead process took along, and a full queue without a reader |
| `fault_log` (601 k) | `TypeOK`, `LogOrder`, `CountLags`, `FateSpec` | two missions, two crashes of the logger and two failed reads or writes on one log: reports of one thread and severity are logged in order, each once; a report's fate is final, and no critical one is skipped although `g_paused` may be stale; count and ids are ahead by at most one per failed entry, behind by at most one per crash or failed count |
| `fault_log_live` (371 k) | `CriticalEventuallyLogged` | every critical report is logged if the mission lasts, with two threads competing for one slot and mode signals at any time |
| `resources` (68 k) | `TypeOK`, `LockOrder`, `RaceFree`, `NoStandstill`, `RoundsEnd`, `ShutdownCompletes` | watchdog, battery, power writer and downlink, and a logger that may die: locks are taken in one order, no two threads are at the same data, nobody waits for ever and SIGINT ends the program, unless a dead logger has left a full queue.  Only the logger dies here: that a process dies with the semaphore taken is in `Lifecycle` and `SafeMode` |
| `comms` (358 k, module `MCComms`) | `TypeOK`, `ObeyedInOrder`, `ShownAfterReported`, `ReportsAlternate`, `LoneCommandObeyed`, `GoodLinkShown` | however writes run together or are cut, what is obeyed is a stretch of the bytes written that spells the command, bounded by the ends of writes or of full buffers, in order and at most once; a command that is alone in the FIFO is obeyed; reports on the link alternate and come before the bus shows a loss; a link that stays good comes to be shown |
| `restart` (236 k) | `TypeOK`, `SemExcludes`, `SharedBusSharedSem`, `OneGroundReader`, `CleanEndHeals` | three runs, crashes anywhere, orphans: a semaphore excludes across runs, a bus has one semaphore even if `clean_ipc` was cut short, the FIFO has one living reader, and a complete `clean_ipc` separates what follows from what was before |
| `safe_mode_stuck_ground`, `lifecycle_kill_all`, `resources_dead_logger` | one property each | violations, see [section 7](#7-where-code-and-documentation-disagree) |

Deadlock is checked in the runs of `SafeMode`, `Comms` and `Lifecycle` (there,
`Terminated` stands for the end of the OBC).  The `FaultLog`, `Resources` and
`Restart` runs have `CHECK_DEADLOCK FALSE`: these systems really stop, at the end
of the last mission or run, or before a full queue whose reader is gone.

## 4. Bounds

| Bound | Value | Why it is enough |
|---|---|---|
| `SafeMode!N` | 3 | the children with a role in the loop; the logger is a follower like comms.  The theorems hold for any N |
| thresholds in `safe_mode_timeline` | those of `common.h` | the margins between two samples are what the properties are about |
| eclipse 2..8, spike at 15, cooling of 8 ticks | code: 10..20, 30, 8 | the ticks before, between and after only charge and idle; the eclipse is long enough to empty the battery and the gap to refill it past the warning level |
| `Drains` {12, 15}, `Charges` {6} | code: 8..15, 3..6 | faster and slower within the code's range, so that the critical level is crossed at different ticks |
| `NormalTemps` {30} | code: 28..45 | all below `TEMP_WARNING`, the lowest limit there is |
| protocol runs: battery 0..2, drain 2 | | the battery crosses both levels up and down in few states; these runs ask about order, not about margins |
| `Mortal` {1}, `Prompt` {2, 3} | | power is the writer of both sensor data and mode, and the one child whose slowness the others can feel |
| `Lifecycle!N` | 4 | the children of the code |
| queue | 1 or 2 slots (code: 10) | blocking, overtaking and a queue that is full when the logger stops need no more |
| `MaxReports` | 2 or 3 per thread | more reports than slots, so that the queue fills, drains and fills again |
| `Severities` | critical and info | logged in SAFE MODE or not; the highest and the lowest priority |
| `MaxMissions`, `Crashes`, `IoErrors` | 2, 2, 2 | a log that has lost a count is opened again, and loses another; a failed entry and a failed count, two of either, and each with crashes |
| `Resources!Running` | 4 threads | the chain from the queue over `g_power_mutex` to the semaphore and the OBC, and a thread of another process.  The theorems hold for any set of threads |
| `CMD_MAX_LEN`, `MaxLines` | 16, 2 (code: 32) | two commands together are longer than one read, so that both joining and cutting happen; with 32 it would take three lines |
| `Words` | SNAPSHOT and RESET_ADCS with their newlines, STATUS without, and SAFE_MODE at the end of a line that fills the buffer before it | each command, alone, joined and cut; and the tail of a long line, which is obeyed.  The theorems hold for any bytes |
| `SNAPSHOT_ROUNDS` | 2 (code: 30) | rounds with and without a snapshot |
| `Restart!Child`, `MaxRuns` | comms and the logger, 3 | the children that use all and that use one of the objects; an object can be left by one run, inherited by the next and missing or replaced in the third |

Clocks are cut off where their value no longer matters (`SolarTick`,
`SensorTick`).  Nothing else is capped.

## 5. Fairness

* Threads, handlers and steps of `main()` have weak fairness: the kernel runs
  whoever can run, and nothing in the code blocks them but what the guards say.
* `sem_wait` has strong fairness (`SF` of `PowerWriterLock`,
  `ThermalWriterLock`, `WatchdogLock`, `UpdateLock`): the semaphore is held for
  microseconds in every two seconds, so no waiter finds it taken every time.
  Posting it, when held, has weak fairness.  In `Resources` the same is said of
  the semaphore, the mutexes and the slots of the queue (`SF` of `Operation` per
  thread).
* `mq_send` has strong fairness per thread (`SendReport`; in `Comms`, `SF` of the
  two threads): the kernel hands a free slot to the waiting sender, in order of
  arrival for equal priority.
* In `Lifecycle`, a child that was told to stop does (`Finish`), unless it may be
  waiting in vain (`Obstructed`): in `sem_wait` when the semaphore is lost, in
  `mq_send` when the queue is clogged.  The logger uses neither: it receives with a
  timeout.  The steps of `main()` are fair, but those of `watchdog()` only while the
  semaphore is not lost: it is taken at `main.c:67`, `SA_RESTART` makes every handler
  return into `sem_wait`, and the OBC stays there.  No child is obliged to exec, to
  install its handlers, or to die.
* Nobody is obliged to raise a report, to begin a round of `Resources`, to ask for
  a shutdown or to crash.  Ground commands and mode signals are not fair either.

## 6. The proofs

Checked by TLAPS for every value of the constants.

| Theorem | States | Argument |
|---|---|---|
| `SafeModeProofs!TypeCorrect` | `[]TypeOK` | inductive as it is |
| `SafeModeProofs!Exclusion` | `[]BusExclusion` | inductive with `TypeOK`: the semaphore's value and the set of holders change together, and the OBC holds it at "sample" and "store" only |
| `SafeModeProofs!NoOldSignals` | `[]OnlyCurrentSignals` | see below |
| `SafeModeProofs!SettledChildrenAgree` | `[]SettledAgreement` | from `OnlyCurrentSignals` |
| `SafeModeProofs!ImplementsAuthority` | `Spec => AuthoritySafe` | from both: a step of `SafeMode` is `Switch` (the start of a broadcast), `Follow` (a handler), `Fail` (a death), or a stutter |
| `SafeModeProofs!NormalForGood` | `Spec => NoRelapse`, for normal temperatures below `TEMP_CRITICAL` and at least one tick of cooling | see below |
| `SafeModeTimelineProofs!OverheatIsCaught` | `Spec => OverheatCaught`, if `Paced` and the power process is prompt | see below |
| `SafeModeTimelineProofs!OverheatIsObeyed`, `RecoveredBeforeLeaving` | `Spec => OverheatObeyed`, `Spec => LeavesAfterRecovery`, if `Paced` and all children are prompt | see below |
| `LifecycleProofs!TypeCorrect` | `[]TypeOK` | inductive |
| `LifecycleProofs!RunningAreKnown` | `[]RunningChildrenKnown` | inductive: a handler resets the pids of zombies only, and `main()` assigns the pid of a child it has forked (`AssignedIsBorn`) |
| `LifecycleProofs!WaitsAreEnough` | `[]WaitsSuffice` | a cardinality argument: reaping can only lower `Cardinality(Unreaped)`, and each `wait()` lowers it or finds it 0 |
| `LifecycleProofs!CleanupIsLast` | `[]CleanupAfterLastChild` | after the Nth wait at most 0 children are left |
| `LifecycleProofs!AllAreTold` | `[]AllToldToStop` | inductive with `RunningChildrenKnown`: whose pid is not positive when the broadcast comes to him does not run |
| `LifecycleProofs!NoneForgotten` | `[]NoZombieForgotten` | inductive |
| `LifecycleProofs!ImplementsSupervision` | `Spec => SupervisionSafe` | see below |
| `FaultLogProofs!TypeCorrect` | `[]TypeOK` | the capacity of the queue included: a send is possible only below it |
| `FaultLogProofs!CountAndIdsLag` | `[]CountLags` | see below |
| `FaultLogProofs!LogInOrder` | `[]LogOrder` | see below |
| `FaultLogFateProofs!ImplementsReportFate` | `Spec => FateSpec` | see below |
| `ResourcesProofs!TypeCorrect`, `LocksInOrder`, `NoRaces` | `[]TypeOK`, `[]LockOrder`, `[]RaceFree` | see below |
| `ResourcesProofs!NeverAtStandstill` | `[]NoStandstill` | from the invariant of the other three |
| `RestartProofs!TypeCorrect`, `SemaphoreExcludes`, `BusHasOneSemaphore`, `OneReader`, `CleanEndSeparates` | `[]` of each invariant of the run `restart` | see below |
| `CommsProofs!TypeCorrect`, `CommandsInOrder` | `[]TypeOK`, `[]ObeyedInOrder` | see below |
| `CommsProofs!BadLinkReportedFirst`, `LinkReportsAlternate` | `ShownAfterReported`, `ReportsAlternate` | see below |

`SettledAgreement` is not inductive: it says nothing of signals that are still
pending, and an old SIGUSR1 delivered late would break it.  `OnlyCurrentSignals`
adds that whatever is pending belongs to the current command, that a child not
yet told has nothing pending, and that the OBC samples only then.  It holds of
the children in `Prompt`, which may be any set; for a child outside it
`SettledAgreement` is false, because SIGUSR1 and SIGUSR2 pending together may be
delivered in either order.

The timeline is proved by following the news of a change from thread to thread.
When each loop runs once per period, in any order, a change that a sensor makes in
one period is on the bus, at the latest, when the bus writer has run in the next, in
the watchdog's sample one period later, and in the flags of prompt children before
the sample after that.  The invariant `HeatInv` says what is known by when: `Heat` how hot the
CPU is at least and at most in each tick after the spike, `BusHeat` that the bus
shows it from `BusKnows` on; `CommandInTime` and `ObeyedInTime` that the command and
the flags follow.  That nobody leaves early (`LeavesSafely`) rests on `Eclipse`:
whenever a mode is SAFE anywhere, in a signal, a flag, on the bus or with the OBC
(`SafeTrace`), the bus knows of what caused it, so that the `ExitCondition` sees the
recovery and not the time before the fault; `Recovered` says that a battery which
has come back above its warning level after the eclipse stays there.  The theorems
hold for any eclipse, drains, charges and thresholds that `TimelineAssumption`
admits.  Its temperature bounds leave nothing to spare: the code's constants meet
both with equality (110 - 3·5 = 95, 110 - 5·5 = 85), and if the CPU cooled by 6
degrees per tick it would be missed when the spike comes just as the system leaves the
SAFE MODE of the eclipse, because the power process still shows SAFE on the bus then
and `watchdog()` does not enter SAFE MODE anew.  (TLC finds this without the
assumption, with `COOLING_STEP = 6` and `THERMAL_SPIKE = 14` in the run
`safe_mode_timeline`.)

`NormalForGood` is the safety half of `MissionEndsNormal`.  That the mission is over
and all is NORMAL is inductive by itself with `SunAfterEclipse` (after the eclipse the
panels have power, so that the battery only charges), because it names all the
places that a SAFE could come from: sensors, the bus, the OBC and pending SIGUSR1s.

`WaitsSuffice`, `AllToldToStop` and `NoZombieForgotten` are defined with the proofs.
Of `Supervision`, `Await` asks for `AllToldToStop` and `Close` for
`CleanupAfterLastChild`.  That a child is started only once needs `StillUnborn`:
`main()` goes along `StartOrder`, which names each child once.  `AllToldToStop` and
`NoZombieForgotten` are the safety halves of `ShutdownTerminates` and
`ZombiesReaped`: no wait is for a child that was not told, and no zombie is left
without a SIGCHLD to come.

`CountLags` is not inductive either.  Between its two writes the logger works
on a copy of the count: `CountInv` adds that the copy is the count
(`logger.at = "count" => logger.header = entry_count`), and `LoggerGone` that no
mission ends before the logger is gone, without which the next mission could
start in the middle of an entry without a crash.  A failed count does as a crash
does, and a failed entry the opposite; the bound has each on its side.

`LogOrder` speaks of the log alone; `OrderInv` extends it over the way there.  What
a thread has in hand is younger than what it has queued, the FIFO of a severity is
in order, what is queued is younger than what the logger has taken, and that than
what is in the log.

The refinement of `ReportFate` needs to know that a report leaves its way once.
`OrderInv` gives half of it: what the logger takes is older than what is queued and
than what the sender has in hand, so that it is in one place only and is gone
when it is skipped, logged or lost.  `FateInv` gives the other half: what is lost or
skipped is not on its way, and has a number that its thread does not use again,
over all missions; and a mission that is down has no thread with a report in hand.

`Resources` is proved by rounds.  `HeldAt(r, i)` is what a round has taken and not
given after its first `i` operations, and a round is `Fine` if each operation is
right with what is held there (a lock taken only above those held, given only if
held, data used only under their lock) and nothing is held at its end.
`FineRounds` shows that of every round of every thread, and the invariant says
that each thread is at some place of some fine round and holds exactly
`HeldAt` of it.  The three properties are then about single operations.
`NoStandstill` follows because the locks that a chain of waiting threads waits for
rise in rank, so that the chain ends with a thread that can go on or waits for a
slot.

The invariants of `Restart` need what an object's number says about who may have
it: `Age` (nobody has an object younger than itself), `Fresh` (a process not yet
started has nothing), `Fifo` (the FIFO is always that of the current run),
`Cleaned` and `Healed` (how far `clean_ipc` has come, and that after a complete one
names and new processes have new objects only).  `Paired` is the heart of
`SharedBusSharedSem`: whoever has the bus that the name stands for has the
semaphore that its name stands for, if any.  It survives a `clean_ipc` that is cut
short because the name of the bus is the first to go.

In `Comms`, `PlacesInv` says that a read begins where a write does, or full buffers
after that (`Begins`), and that what is written ends with a write.  A read takes all
there is or a full buffer, so that it ends at such a place too.  `TextInv` says that
the text is what the bytes are at its place, which no later write changes
(`StableUnderWrites`), and `ObeyedInv` that what was obeyed lies before it.  Nothing is
assumed of the bytes, of the length of a write, or of how commands are spelled.
`LinkInv` ties the latch `fault_active` to the last report, sent or on its
way.

The proofs rest on the named assumptions of the modules (at least one child, at
least three with a role; thresholds in order; what the timeline needs of schedule
and thresholds, `TimelineAssumption`; a queue with at least one slot; a buffer for at
least one byte) and on the hypotheses that the theorems state.  `Paced` and
`Prompt = Children` are what `sleep(2)` and signal handlers give an undisturbed
program, and hold in the run `safe_mode_timeline`; the other theorems about
`SafeMode` do without them.

Only model-checked: liveness, which is out of the prover's reach (`AuthorityFair`,
`MissionEndsNormal`, `WatchdogKeepsRunning`, `ShutdownTerminates`, `ZombiesReaped`,
`CriticalEventuallyLogged`, `RoundsEnd`, `ShutdownCompletes`, `LoneCommandObeyed`,
`GoodLinkShown`).  Every invariant and action property of the runs is a theorem.

## 7. Where code and documentation disagree

| Run | Code | Said |
|---|---|---|
| `safe_mode_stuck_ground` | `SAFE_MODE` from the ground makes comms send SIGUSR1 to the OBC (`comms.c:77`), whose handler sets a flag that nothing in the OBC reads: no subsystem enters SAFE MODE | `README.md:83` "manually trigger safe mode" |
| `lifecycle_kill_all` | `g_pid` is read twice, and the handler may set it to -1 in between: `kill(-1, ...)` signals every process it may | `signal_handler.h:42` "sends SIGUSR1 to all children" |
| `resources_dead_logger` | with a dead logger and a full queue, `battery_thread` waits in `mq_send` with `g_power_mutex` held (`power_threads.c:138`), the power bus writer for that mutex with the semaphore held, and `watchdog()` for the semaphore, for ever | `README.md:38` "Runs a watchdog every 2 seconds reading shared memory" |

More follow from the code and are visible in the models, where the properties say
what holds in spite of them:

* The power process stores its own flag in `bus->safe_mode` (`power_threads.c:168`),
  over what the OBC has stored, and the watchdog decides on it; `common.h:114` says
  "0=normal 1=safe mode active".  `MissionEndsNormal` holds all the same.
* A battery that is critical for one tick can be published before and after it
  only; `common.h:50` says "trigger SAFE MODE".
* A thread in `mq_send` on a full queue never sees `g_shutdown` when the logger has
  stopped first, and the wait for its process never ends; `README.md:150` says
  "Graceful shutdown of all processes".  `ShutdownCompletes` names this (`Clogged`)
  as the only obstacle while none but the logger dies, `ShutdownTerminates` (`clogged`)
  as one of two.
* A process that dies with the semaphore taken leaves it taken, and the watchdog
  then waits for ever, SIGINT or not: the other obstacle of `ShutdownTerminates`
  (`sem_lost`).  The next run, if there was no `clean_ipc`, opens the same
  semaphore at 0, although `shm_manager.c:134` says "Creates a named semaphore with
  value 1".
* After a crash of the OBC an orphaned logger and the new one share the queue and
  `fdr.log`; an orphaned comms sends the ground's signals to init.
* `fifo_manager.c:72` says "Reads one command from the FIFO"; commands written
  within a second are read as one text and none of them is recognised, and what is
  left of a line after 31 bytes is read as a command of its own, and obeyed if it is
  one: `ObeyedInOrder` says what can be obeyed and what cannot.
* A weak signal is reported every round and never reaches the bus unless the latch
  is set; the "every 30 seconds" of the snapshot (`comms_threads.c:146`) are 30
  rounds of 2 s, and a round that reports or is in SAFE MODE leaves it out.
  `ECLIPSE_START` and its like are counted in the same way (`common.h:41`).
* `SNAPSHOT → save current state to fdr.log` (`README.md:84`): the report carries the
  value 0.0 and is skipped in SAFE MODE, being of severity INFO.
* A child that exits before `main()` has stored its pid is reaped unrecognised and
  its pid stays (`main.c:112`).
* After a crash between the two writes of an entry, or when the second fails
  (`file_io.c:84`), an entry id is used twice; and an entry whose write fails is
  counted all the same (`file_io.c:78`).  `CountLags` bounds the damage.

## 8. What is not modelled

* ADCS: constants and bus fields only, there is no such process.
* Console output, colours, timestamps, the texts of reports; `last_command`, which
  nobody reads; the fields of the bus that nobody decides on.
* Failures of `init_ipc` (`main.c:33`): ignored by the code, which then uses a null
  pointer at the first watchdog tick.
* The write of the header of a new log (`file_io.c:33`), whose result is ignored too:
  without a header no entry is written, which is `AppendFails` with every report.  A
  write that is cut short, after which the entries are no longer where their ids say.
* `'\0'` among the bytes of the ground: the compared text would end there.
* `msgq_receive` and `fifo_open_write`, which are never called.
* The report of `heater_thread` (`thermal_threads.c:142`): no simulated zone gets cold
  enough.
* The contents of the bus and of the queue over a restart: `Restart` is about who
  shares what.
* With `Paced`, mode signals are taken to reach the main thread of a child, which
  only tests `g_shutdown` and joins: Linux prefers it.  If one reached a thread in `sleep()`
  that loop would run early, which only the runs with `Paced` FALSE cover.
* The widths of counters: none of them is close to overflow in a mission.

## 9. Plan

* `SafeMode` in terms of `Resources`: the two are related in section 2 by argument; a
  refinement of the publication as one step would be a proof.
* The safety half of the other liveness properties, as `AllToldToStop` is of
  `ShutdownTerminates`: what each waiting thread of `SafeMode` and `Comms` waits for,
  and who will bring it.
