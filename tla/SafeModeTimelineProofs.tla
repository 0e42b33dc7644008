----------------------- MODULE SafeModeTimelineProofs -----------------------
(***************************************************************************)
(* The mission's timeline, for any length of the eclipse, any drains and   *)
(* charges and any thresholds that TimelineAssumption allows: when every   *)
(* thread runs once in each period, an overheated CPU never cools down     *)
(* before watchdog() has commanded SAFE MODE, and no child leaves SAFE     *)
(* MODE while the fault lasts.                                             *)
(*                                                                         *)
(* Both follow the news of a change from thread to thread.  The sensor     *)
(* makes the change in one period; the bus shows it when the writer has    *)
(* run in the next one, watchdog() has acted on it one period later, and   *)
(* so on.  An invariant says what is known by when.                        *)
(***************************************************************************)
EXTENDS SafeModeProofs

USE DEF OBC, POWER, THERMAL, COMMS, MODE_NORMAL, MODE_SAFE, Modes, Children,
        Processes, Signals

-----------------------------------------------------------------------------
(***************************************************************************)
(* The clocks                                                              *)
(***************************************************************************)
\* The tick of sensor_thread of this period, made or still to be made.
Tick == thermal.elapsed + (IF "sensor" \in ran THEN 0 ELSE 1)

\* The tick of solar_thread of this period.
SolarClock == power.elapsed + (IF "solar" \in ran THEN 0 ELSE 1)

\* This period, or an earlier one, has the k-th tick after the spike.
Since(k) == Tick >= THERMAL_SPIKE + k

\* The constants as numbers, with what the timeline says of them.
LEMMA TimelineTypes ==
  /\ BATTERY_FULL \in Nat /\ BATTERY_WARNING \in Nat
  /\ BATTERY_CRITICAL \in Nat
  /\ ECLIPSE_START \in Nat /\ ECLIPSE_END \in Nat
  /\ TEMP_WARNING \in Nat /\ TEMP_CRITICAL \in Nat /\ SPIKE_TEMP \in Nat
  /\ COOLING_STEP \in Nat /\ COOLING_FLOOR \in Nat
  /\ COOLING_TICKS \in Nat /\ THERMAL_SPIKE \in Nat
  /\ BATTERY_CRITICAL < BATTERY_WARNING /\ BATTERY_WARNING < BATTERY_FULL
  BY PowerAssumption, ThermalAssumption

\* What TypeOK says of the clocks and the temperatures.
LEMMA TimelineNumbers ==
  ASSUME TypeOK
  PROVE  /\ thermal.elapsed \in Nat /\ thermal.temp_cpu \in Nat
         /\ bus.temp_cpu \in Nat /\ power.elapsed \in Nat
         /\ Tick \in Nat /\ SolarClock \in Nat
  <1>1. THERMAL_SPIKE + COOLING_TICKS \in Nat /\ ECLIPSE_END + 1 \in Nat
    BY TimelineTypes
  <1>2. thermal.elapsed \in Nat /\ power.elapsed \in Nat
    BY <1>1 DEF TypeOK
  <1>3. QED
    BY <1>2 DEF TypeOK, Tick, SolarClock

\* Nobody dies and the ground is silent.
LEMMA PacedSteps ==
  ASSUME Paced
  PROVE  ~GroundCommand /\ \A c \in Children : ~Die(c)
  BY PaceAssumption DEF GroundCommand, Die

\* When it is paced, a thread that has run in this period does not run again.
LEMMA PacedRuns ==
  ASSUME Paced, NEW t
  PROVE  (Due(t) <=> t \notin ran) /\ (Ran(t) <=> ran' = ran \cup {t})
  BY DEF Due, Ran

\* The sensor's clock moves in a SensorTick, solar_thread's in a SolarTick.
LEMMA ClockFrame ==
  ASSUME [Next]_vars
  PROVE  /\ SensorTick \/ UNCHANGED thermal
         /\ SolarTick \/ BatteryTick \/ UNCHANGED power
  BY DEF Next, NextPeriod, SolarTick, BatteryTick, PowerWriterLock,
     PowerWriterPublish, SensorTick, ThermalWriterLock, ThermalWriterPublish,
     CommsLock, CommsUnlock, GroundCommand, WatchdogLock, WatchdogSample,
     SignalChild, UpdateLock, UpdateStore, Deliver, Die, vars

\* Who adds a thread to ran, and that only a new period empties it.
LEMMA RanFrame ==
  ASSUME Paced, [Next]_vars
  PROVE  \/ NextPeriod
         \/ SolarTick /\ ran' = ran \cup {"solar"}
         \/ BatteryTick /\ ran' = ran \cup {"battery"}
         \/ PowerWriterPublish /\ ran' = ran \cup {"power_writer"}
         \/ SensorTick /\ ran' = ran \cup {"sensor"}
         \/ ThermalWriterPublish /\ ran' = ran \cup {"thermal_writer"}
         \/ (WatchdogSample \/ UpdateStore) /\ ran' = ran \cup {"watchdog"}
         \/ UNCHANGED ran
  <1>1. CASE SolarTick
    BY <1>1 DEF SolarTick, Ran
  <1>2. CASE BatteryTick
    BY <1>2 DEF BatteryTick, Ran
  <1>3. CASE PowerWriterPublish
    BY <1>3 DEF PowerWriterPublish, Ran
  <1>4. CASE SensorTick
    BY <1>4 DEF SensorTick, Ran
  <1>5. CASE ThermalWriterPublish
    BY <1>5 DEF ThermalWriterPublish, Ran
  <1>6. CASE WatchdogSample
    BY <1>6 DEF WatchdogSample, Ran, Broadcast
  <1>7. CASE UpdateStore
    BY <1>7 DEF UpdateStore, Ran
  <1>8. CASE \/ PowerWriterLock \/ ThermalWriterLock \/ CommsLock
             \/ CommsUnlock \/ GroundCommand \/ WatchdogLock \/ SignalChild
             \/ UpdateLock \/ UNCHANGED vars
             \/ \E p \in Processes, s \in Signals : Deliver(p, s)
             \/ \E c \in Children : Die(c)
    BY <1>8
       DEF PowerWriterLock, ThermalWriterLock, CommsLock, CommsUnlock,
           GroundCommand, WatchdogLock, SignalChild, UpdateLock, Deliver,
           Die, vars
  <1>9. QED
    BY <1>1, <1>2, <1>3, <1>4, <1>5, <1>6, <1>7, <1>8 DEF Next

\* One tick of sensor_thread.
LEMMA SensorTickClock ==
  ASSUME Paced, TypeOK, SensorTick
  PROVE  /\ "sensor" \notin ran /\ ran' = ran \cup {"sensor"}
         /\ thermal'.elapsed = Lowest(thermal.elapsed + 1,
                                      THERMAL_SPIKE + COOLING_TICKS)
  BY DEF SensorTick, Due, Ran

\* A period later a clock shows one tick more; otherwise it stands still.
LEMMA ClockStep ==
  ASSUME Paced, TypeOK, [Next]_vars, NEW k \in 0..6
  PROVE  /\ NextPeriod => (Since(k)' <=> Tick + 1 >= THERMAL_SPIKE + k)
         /\ ~NextPeriod => (Since(k)' <=> Since(k))
         /\ Since(k) => Since(k)'
         /\ NextPeriod => Tick' = Tick + 1
         /\ ~NextPeriod => Tick' <= Tick
  <1> DEFINE cap == THERMAL_SPIKE + COOLING_TICKS
  <1>1. /\ thermal.elapsed \in 0..cap /\ THERMAL_SPIKE \in Nat
        /\ COOLING_TICKS \in Nat /\ COOLING_TICKS >= 6
    BY TimelineTypes, TimelineAssumption DEF TypeOK
  <1>2. CASE NextPeriod
    <2>1. "sensor" \in ran /\ "sensor" \notin ran' /\ UNCHANGED thermal
      BY <1>2 DEF NextPeriod, Threads
    <2>2. Tick = thermal.elapsed /\ Tick' = thermal.elapsed + 1
      BY <1>1, <2>1 DEF Tick
    <2>3. QED
      BY <1>1, <1>2, <2>2 DEF Since
  <1>3. CASE SensorTick
    <2>1. /\ "sensor" \notin ran /\ "sensor" \in ran' /\ ~NextPeriod
          /\ thermal'.elapsed = Lowest(thermal.elapsed + 1, cap)
      BY <1>3, SensorTickClock DEF NextPeriod, Threads
    <2>2. Tick = thermal.elapsed + 1 /\ Tick \in Nat
      BY <1>1, <2>1 DEF Tick
    <2>3. Tick' = Lowest(Tick, cap) /\ Lowest(Tick, cap) \in Nat
      <3>1. thermal'.elapsed = Lowest(Tick, cap)
        BY <2>1, <2>2
      <3>2. Lowest(Tick, cap) \in Nat
        BY <1>1, <2>2 DEF Lowest
      <3>3. Tick' = thermal'.elapsed + 0
        BY <2>1 DEF Tick
      <3>4. QED
        BY <3>1, <3>2, <3>3
    <2>5. Tick' <= Tick
          /\ (Tick' >= THERMAL_SPIKE + k <=> Tick >= THERMAL_SPIKE + k)
      BY <1>1, <2>2, <2>3 DEF Lowest
    <2>6. QED
      BY <2>1, <2>5 DEF Since
  <1>4. CASE ~NextPeriod /\ ~SensorTick
    <2>1. "sensor" \in ran' <=> "sensor" \in ran
      BY <1>4, RanFrame
    <2>2. UNCHANGED thermal
      BY <1>4, ClockFrame
    <2>3. Tick' = Tick /\ Tick \in Nat
      BY <1>1, <2>1, <2>2 DEF Tick
    <2>4. QED
      BY <1>4, <2>3 DEF Since
  <1>5. QED
    BY <1>2, <1>3, <1>4

-----------------------------------------------------------------------------
(***************************************************************************)
(* The heat: before the spike the CPU is cool, then it cools down step by  *)
(* step, and the latch shows from the spike on whether it is still warm.   *)
(***************************************************************************)
Hot == thermal.temp_cpu >= TEMP_CRITICAL

\* The lowest the temperature may be k ticks after the spike.
Cooled(k) == thermal.elapsed = THERMAL_SPIKE + k
               => thermal.temp_cpu >= SPIKE_TEMP - k * COOLING_STEP

Heat ==
  /\ thermal.elapsed < THERMAL_SPIKE
       => thermal.temp_cpu < TEMP_WARNING /\ ~thermal.fault_active
  /\ Cooled(0) /\ Cooled(1) /\ Cooled(2) /\ Cooled(3) /\ Cooled(4) /\ Cooled(5)
  /\ thermal.fault_active => thermal.temp_cpu >= TEMP_WARNING
  /\ thermal.elapsed >= THERMAL_SPIKE /\ thermal.temp_cpu >= TEMP_WARNING
       => thermal.fault_active

\* A CPU that is not hot after the spike does not heat up again.
StaysCool ==
  thermal.elapsed >= THERMAL_SPIKE /\ ~Hot
    => ~Hot' /\ (~thermal.fault_active => ~thermal'.fault_active)

LEMMA HeatInit == Paced /\ Init => Heat
  <1> SUFFICES ASSUME Paced, Init PROVE Heat
    OBVIOUS
  <1>1. thermal.temp_cpu = 30 /\ ~thermal.fault_active /\ thermal.elapsed = 0
    BY DEF Init
  <1>2. THERMAL_SPIKE \in Nat /\ 3 <= THERMAL_SPIKE
        /\ TEMP_WARNING \in Nat /\ 30 < TEMP_WARNING
    BY TimelineTypes, TimelineAssumption
  <1>3. \A k \in 0..5 : thermal.elapsed # THERMAL_SPIKE + k
    BY <1>1, <1>2
  <1>4. /\ Cooled(0) /\ Cooled(1) /\ Cooled(2)
        /\ Cooled(3) /\ Cooled(4) /\ Cooled(5)
    BY <1>3 DEF Cooled
  <1>5. QED
    BY <1>1, <1>2, <1>4 DEF Heat

\* Every step keeps what is known of the heat.
LEMMA HeatStep ==
  ASSUME Paced, TypeOK, Heat, [Next]_vars
  PROVE  Heat' /\ StaysCool /\ thermal'.elapsed >= thermal.elapsed
  <1> DEFINE cap == THERMAL_SPIKE + COOLING_TICKS
  <1>1. /\ thermal.elapsed \in 0..cap /\ thermal.temp_cpu \in Nat
        /\ {THERMAL_SPIKE, COOLING_TICKS, COOLING_STEP, COOLING_FLOOR,
            TEMP_CRITICAL, TEMP_WARNING, SPIKE_TEMP} \subseteq Nat
        /\ NormalTemps \subseteq Nat
    BY TimelineTypes, ThermalAssumption DEF TypeOK
  <1>2. CASE UNCHANGED thermal
    BY <1>1, <1>2 DEF Heat, Hot, Cooled, StaysCool
  <1>3. CASE SensorTick
    <2> DEFINE t == Lowest(thermal.elapsed + 1, cap)
    <2>1. PICK temp \in NextTemps(t) :
            thermal' = [temp_cpu |-> temp,
                        fault_active |-> \/ thermal.fault_active
                                              /\ temp >= TEMP_WARNING
                                         \/ temp >= TEMP_CRITICAL,
                        elapsed |-> t]
      BY <1>3 DEF SensorTick
    <2>2. /\ thermal'.temp_cpu = temp /\ thermal'.elapsed = t
          /\ thermal'.fault_active <=> \/ thermal.fault_active
                                            /\ temp >= TEMP_WARNING
                                       \/ temp >= TEMP_CRITICAL
      BY <2>1
    <2>3. t \in 0..cap /\ t >= thermal.elapsed
          /\ (thermal.elapsed < cap => t = thermal.elapsed + 1)
      BY <1>1 DEF Lowest
    <2>4. temp \in Nat
      BY <2>3, NextTempsType
    <2>5. /\ TEMP_WARNING <= TEMP_CRITICAL /\ COOLING_FLOOR < TEMP_WARNING
          /\ TEMP_CRITICAL <= SPIKE_TEMP /\ COOLING_TICKS >= 6
          /\ \A n \in NormalTemps : n < TEMP_WARNING
      BY <1>1, TimelineAssumption
    <2>6. t = THERMAL_SPIKE => temp = SPIKE_TEMP
      BY DEF NextTemps
    <2>7. t < THERMAL_SPIKE => temp < TEMP_WARNING
      <3>1. SUFFICES ASSUME t < THERMAL_SPIKE PROVE temp \in NormalTemps
        BY <2>5
      <3>2. t # THERMAL_SPIKE /\ ~(t > THERMAL_SPIKE)
        BY <1>1, <2>3, <3>1
      <3>3. QED
        BY <3>2 DEF NextTemps
    <2>8. t > THERMAL_SPIKE /\ t < cap
            => temp = IF thermal.temp_cpu < COOLING_FLOOR + COOLING_STEP
                      THEN COOLING_FLOOR ELSE thermal.temp_cpu - COOLING_STEP
      BY <1>1, <2>3 DEF NextTemps
    <2>9. t >= cap => temp < TEMP_WARNING
      <3>1. SUFFICES ASSUME t >= cap PROVE temp \in NormalTemps
        BY <2>5
      <3>2. t # THERMAL_SPIKE /\ ~(t < cap)
        BY <1>1, <2>3, <2>5, <3>1
      <3>3. QED
        BY <3>2 DEF NextTemps
    <2>10. ASSUME NEW k \in 0..4, Cooled(k)
           PROVE  t = THERMAL_SPIKE + k + 1
                    => temp >= SPIKE_TEMP - (k * COOLING_STEP + COOLING_STEP)
      <3> DEFINE drop == k * COOLING_STEP
      <3>1. drop \in Nat
        BY <1>1
      <3>2. SUFFICES ASSUME t = THERMAL_SPIKE + k + 1
                     PROVE  temp >= SPIKE_TEMP - (drop + COOLING_STEP)
        OBVIOUS
      <3>3. t > THERMAL_SPIKE /\ t < cap
        BY <1>1, <2>5, <3>2
      <3>4. thermal.elapsed = THERMAL_SPIKE + k
        BY <1>1, <2>3, <2>5, <3>2 DEF Lowest
      <3>5. thermal.temp_cpu >= SPIKE_TEMP - drop
        BY <2>10, <3>4 DEF Cooled
      <3> HIDE DEF drop
      <3>6. QED
        BY <1>1, <2>4, <2>8, <3>1, <3>3, <3>5
    <2>11. /\ Cooled(0)' /\ Cooled(1)' /\ Cooled(2)'
           /\ Cooled(3)' /\ Cooled(4)' /\ Cooled(5)'
      <3>1. Cooled(0)'
        BY <1>1, <2>2, <2>6 DEF Cooled
      <3>2. Cooled(1)'
        BY <1>1, <2>2, <2>10 DEF Cooled, Heat
      <3>3. Cooled(2)'
        BY <1>1, <2>2, <2>10 DEF Cooled, Heat
      <3>4. Cooled(3)'
        BY <1>1, <2>2, <2>10 DEF Cooled, Heat
      <3>5. Cooled(4)'
        BY <1>1, <2>2, <2>10 DEF Cooled, Heat
      <3>6. Cooled(5)'
        BY <1>1, <2>2, <2>10 DEF Cooled, Heat
      <3>7. QED
        BY <3>1, <3>2, <3>3, <3>4, <3>5, <3>6
    <2>12. StaysCool
      <3>1. SUFFICES ASSUME thermal.elapsed >= THERMAL_SPIKE,
                            thermal.temp_cpu < TEMP_CRITICAL
                     PROVE  temp < TEMP_CRITICAL
        BY <1>1, <2>2, <2>4 DEF StaysCool, Hot
      <3>2. t > THERMAL_SPIKE
        BY <1>1, <2>3, <2>5, <3>1
      <3>3. QED
        BY <1>1, <2>3, <2>4, <2>5, <2>8, <2>9, <3>1, <3>2
    <2>13. t < THERMAL_SPIKE => temp < TEMP_WARNING /\ ~thermal'.fault_active
      <3>1. SUFFICES ASSUME t < THERMAL_SPIKE
                     PROVE  temp < TEMP_CRITICAL /\ ~thermal.fault_active
        BY <1>1, <2>2, <2>4, <2>7
      <3>2. thermal.elapsed < THERMAL_SPIKE
        BY <1>1, <2>3, <3>1
      <3>3. QED
        BY <1>1, <2>4, <2>5, <2>7, <3>1, <3>2 DEF Heat
    <2>14. thermal'.fault_active => temp >= TEMP_WARNING
      BY <1>1, <2>2, <2>4, <2>5
    <2>15. t >= THERMAL_SPIKE /\ temp >= TEMP_WARNING => thermal'.fault_active
      <3>1. SUFFICES ASSUME t >= THERMAL_SPIKE, temp >= TEMP_WARNING,
                            t # THERMAL_SPIKE
                     PROVE  thermal.fault_active
        BY <1>1, <2>2, <2>4, <2>5, <2>6
      <3>2. t > THERMAL_SPIKE /\ t < cap
        BY <1>1, <2>3, <2>4, <2>9, <3>1
      <3>3. thermal.elapsed >= THERMAL_SPIKE
        BY <1>1, <2>3, <2>5, <3>2
      <3>4. thermal.temp_cpu >= TEMP_WARNING
        BY <1>1, <2>4, <2>5, <2>8, <3>1, <3>2
      <3>5. QED
        BY <3>3, <3>4 DEF Heat
    <2>16. QED
      BY <2>2, <2>3, <2>11, <2>12, <2>13, <2>14, <2>15 DEF Heat
  <1>4. QED
    BY <1>2, <1>3, ClockFrame

-----------------------------------------------------------------------------
(***************************************************************************)
(* The bus: since the period after the spike, once the thermal writer has  *)
(* run in it, the bus does not call a hot CPU cool.  What the bus says may *)
(* be old, but then the CPU has only cooled down since.                    *)
(***************************************************************************)
BusKnows == Since(2) \/ (Since(1) /\ "thermal_writer" \in ran)

BusHeat ==
  /\ bus.temp_cpu >= TEMP_CRITICAL => thermal.elapsed >= THERMAL_SPIKE
  /\ BusKnows /\ bus.temp_cpu < TEMP_CRITICAL => ~Hot
  /\ BusKnows /\ bus.temp_cpu < TEMP_WARNING => ~thermal.fault_active

LEMMA BusHeatInit == Paced /\ Init => BusHeat
  <1> SUFFICES ASSUME Paced, Init PROVE BusHeat
    OBVIOUS
  <1>1. /\ thermal.temp_cpu = 30 /\ ~thermal.fault_active
        /\ bus.temp_cpu = 30
    BY DEF Init
  <1>2. TEMP_CRITICAL \in Nat /\ 30 < TEMP_CRITICAL
    BY TimelineTypes, TimelineAssumption
  <1>3. QED
    BY <1>1, <1>2 DEF BusHeat, Hot

\* Only the thermal writer changes the temperature on the bus.
LEMMA BusTemperatureFrame ==
  ASSUME TypeOK, [Next]_vars
  PROVE  ThermalWriterPublish \/ bus'.temp_cpu = bus.temp_cpu
  BY DEF TypeOK, Next, NextPeriod, SolarTick, BatteryTick, PowerWriterLock,
     PowerWriterPublish, SensorTick, ThermalWriterLock, CommsLock,
     CommsUnlock, GroundCommand, WatchdogLock, WatchdogSample, SignalChild,
     UpdateLock, UpdateStore, Deliver, Die, vars

\* The bus learns of the heat from the thermal writer, or keeps what it knew.
LEMMA BusKnowsStep ==
  ASSUME Paced, TypeOK, [Next]_vars, BusKnows'
  PROVE  ThermalWriterPublish \/ BusKnows
  <1>1. CASE NextPeriod
    <2>1. "thermal_writer" \in ran /\ "thermal_writer" \notin ran'
      BY <1>1 DEF NextPeriod, Threads
    <2>2. Since(2)'
      BY <2>1 DEF BusKnows
    <2>3. Tick + 1 >= THERMAL_SPIKE + 2
      BY <1>1, <2>2, ClockStep
    <2>4. Tick \in Int /\ THERMAL_SPIKE \in Nat
      BY TimelineTypes, TimelineNumbers
    <2>5. Since(1)
      BY <2>3, <2>4 DEF Since
    <2>6. QED
      BY <2>1, <2>5 DEF BusKnows
  <1>2. CASE ~NextPeriod /\ ~ThermalWriterPublish
    <2>1. (Since(1)' <=> Since(1)) /\ (Since(2)' <=> Since(2))
      BY <1>2, ClockStep
    <2>2. "thermal_writer" \in ran' => "thermal_writer" \in ran
      BY <1>2, RanFrame
    <2>3. QED
      BY <2>1, <2>2 DEF BusKnows
  <1>3. QED
    BY <1>1, <1>2

\* When the bus knows, the spike is in the past of every step of the sensor.
LEMMA BusKnowsSpike ==
  ASSUME TypeOK, Since(1) \/ Since(2), SensorTick, Paced
  PROVE  thermal.elapsed >= THERMAL_SPIKE
  <1>1. "sensor" \notin ran /\ THERMAL_SPIKE \in Nat
        /\ thermal.elapsed \in Int
    BY SensorTickClock, TimelineTypes, TimelineNumbers
  <1>2. QED
    BY <1>1 DEF Since, Tick

\* Every step keeps what the bus says of the heat.
LEMMA BusHeatStep ==
  ASSUME Paced, TypeOK, Heat, BusHeat, [Next]_vars
  PROVE  BusHeat'
  <1>1. /\ thermal.elapsed \in Nat /\ thermal'.elapsed \in Nat
        /\ THERMAL_SPIKE \in Nat /\ thermal.temp_cpu \in Nat
        /\ {TEMP_CRITICAL, TEMP_WARNING} \subseteq Nat
        /\ TEMP_WARNING <= TEMP_CRITICAL
    <2>1. thermal'.elapsed \in Nat
      BY TypeStep, ConstantTypes DEF TypeOK
    <2>2. QED
      BY <2>1, TimelineNumbers, TimelineTypes, TimelineAssumption
  <1>2. Heat' /\ StaysCool /\ thermal'.elapsed >= thermal.elapsed
    BY HeatStep
  <1>3. CASE ThermalWriterPublish
    <2>1. bus'.temp_cpu = thermal.temp_cpu /\ UNCHANGED thermal
      BY <1>3 DEF ThermalWriterPublish, TypeOK
    <2>2. QED
      BY <1>1, <2>1 DEF Heat, BusHeat, Hot
  <1>4. CASE ~ThermalWriterPublish
    <2>1. bus'.temp_cpu = bus.temp_cpu /\ bus.temp_cpu \in Nat
      BY <1>4, BusTemperatureFrame DEF TypeOK
    <2>2. BusKnows' => BusKnows
      BY <1>4, BusKnowsStep
    <2>3. bus'.temp_cpu >= TEMP_CRITICAL => thermal'.elapsed >= THERMAL_SPIKE
      BY <1>1, <1>2, <2>1 DEF BusHeat
    <2>4. CASE UNCHANGED thermal
      BY <2>1, <2>2, <2>3, <2>4 DEF BusHeat, Hot
    <2>5. CASE SensorTick
      <3>1. BusKnows => thermal.elapsed >= THERMAL_SPIKE
        BY <2>5, BusKnowsSpike DEF BusKnows
      <3>2. BusKnows /\ bus.temp_cpu < TEMP_CRITICAL => ~Hot'
        BY <1>2, <3>1 DEF BusHeat, StaysCool
      <3>3. BusKnows /\ bus.temp_cpu < TEMP_WARNING => ~thermal'.fault_active
        <4>1. SUFFICES ASSUME BusKnows, bus.temp_cpu < TEMP_WARNING
                       PROVE  ~thermal'.fault_active
          OBVIOUS
        <4>2. ~thermal.fault_active /\ ~Hot
          BY <1>1, <2>1, <4>1 DEF BusHeat
        <4>3. QED
          BY <1>2, <3>1, <4>1, <4>2 DEF StaysCool
      <3>4. QED
        BY <2>1, <2>2, <2>3, <3>2, <3>3 DEF BusHeat
    <2>6. QED
      BY <2>4, <2>5, ClockFrame
  <1>5. QED
    BY <1>3, <1>4

-----------------------------------------------------------------------------
(***************************************************************************)
(* The command.  A CPU still hot two ticks after the spike finds the OBC   *)
(* either in SAFE MODE or idle in NORMAL mode, with nothing on its way to  *)
(* the power process; then the power writer has put NORMAL on the bus by   *)
(* the third tick, and watchdog() commands SAFE MODE by the fourth.        *)
(***************************************************************************)
HotNormal == Since(2) /\ Hot /\ obc.command = MODE_NORMAL

Idle == pending[POWER] = {} /\ obc.pc \in {"sleep", "sample"}

CommandInTime ==
  /\ HotNormal => Idle
  /\ HotNormal /\ ("power_writer" \in ran \/ Since(3))
       => bus.safe_mode = MODE_NORMAL
  /\ Hot /\ Since(3) /\ ("watchdog" \in ran \/ Since(4))
       => obc.command = MODE_SAFE

\* No CPU is hot in the initial state.
LEMMA CommandInit == Paced /\ Init => CommandInTime
  <1> SUFFICES ASSUME Paced, Init PROVE CommandInTime
    OBVIOUS
  <1>1. thermal.temp_cpu = 30 /\ TEMP_CRITICAL \in Nat /\ 30 < TEMP_CRITICAL
    BY TimelineTypes, TimelineAssumption DEF Init
  <1>2. QED
    BY <1>1 DEF CommandInTime, HotNormal, Hot

\* Two ticks after the spike, a CPU that is hot after a step was before it.
LEMMA HotBefore ==
  ASSUME Paced, TypeOK, Heat, [Next]_vars, ~NextPeriod, Since(2), Hot'
  PROVE  Hot
  <1>1. CASE UNCHANGED thermal
    BY <1>1 DEF Hot
  <1>2. CASE SensorTick
    BY <1>2, BusKnowsSpike, HeatStep DEF StaysCool
  <1>3. QED
    BY <1>1, <1>2, ClockFrame

\* From the first tick after the spike, watchdog() does not leave SAFE MODE
\* while the CPU is hot, and enters it when the bus is in NORMAL mode.
LEMMA HotSample ==
  ASSUME TypeOK, BusHeat, BusKnows, Hot, Paced
  PROVE  /\ ~ExitCondition
         /\ bus.safe_mode = MODE_NORMAL => EnterCondition
  <1>1. {TEMP_CRITICAL, TEMP_WARNING, bus.temp_cpu} \subseteq Nat
        /\ TEMP_WARNING <= TEMP_CRITICAL
    BY TimelineTypes, TimelineAssumption DEF TypeOK
  <1>2. bus.temp_cpu >= TEMP_CRITICAL
    BY <1>1 DEF BusHeat
  <1>3. QED
    BY <1>1, <1>2 DEF ExitCondition, EnterCondition

\* Later periods are later than the earlier ones.
LEMMA SinceOrder ==
  ASSUME TypeOK
  PROVE  /\ Since(5) => Since(4)
         /\ Since(4) => Since(3)
         /\ Since(3) => Since(2)
         /\ Since(2) => Since(1)
  BY TimelineTypes, TimelineNumbers DEF Since

\* A step that leaves the command, the broadcast and the mode on the bus alone
\* keeps the command in time.
LEMMA CommandFrame ==
  ASSUME Paced, TypeOK, Heat, CommandInTime, [Next]_vars, ~NextPeriod,
         obc'.command = obc.command,
         obc.pc \in {"sleep", "sample"} => obc'.pc \in {"sleep", "sample"},
         pending'[POWER] \subseteq pending[POWER],
         bus'.safe_mode = bus.safe_mode,
         "power_writer" \in ran' => "power_writer" \in ran,
         "watchdog" \in ran' => "watchdog" \in ran
  PROVE  CommandInTime'
  <1>1. \A k \in 2..4 : Since(k)' <=> Since(k)
    BY ClockStep
  <1>2. Since(2) /\ Hot' => Hot
    BY HotBefore
  <1>3. HotNormal' => HotNormal
    BY <1>1, <1>2 DEF HotNormal
  <1>4. HotNormal' => Idle'
    BY <1>3 DEF CommandInTime, Idle
  <1>5. HotNormal' /\ ("power_writer" \in ran' \/ Since(3)')
          => bus'.safe_mode = MODE_NORMAL
    BY <1>1, <1>3 DEF CommandInTime
  <1>6. Hot' /\ Since(3)' /\ ("watchdog" \in ran' \/ Since(4)')
          => obc'.command = MODE_SAFE
    BY <1>1, <1>2, SinceOrder DEF CommandInTime
  <1>7. QED
    BY <1>4, <1>5, <1>6 DEF CommandInTime

\* The other steps: the OBC's own mode, the signals and the bus.
LEMMA CommandStep ==
  ASSUME Paced, POWER \in Prompt, TypeOK, Heat, BusHeat, Agreement,
         CommandInTime, [Next]_vars
  PROVE  CommandInTime'
  <1>1. CASE NextPeriod
    <2>1. /\ ran = Threads /\ ran' = {} /\ obc.pc = "sleep"
          /\ pending[POWER] = {}
          /\ UNCHANGED <<thermal, obc, pending, bus>>
      BY <1>1 DEF NextPeriod, Quiet
    <2>2. (Since(3)' => Since(2)) /\ (Since(4)' => Since(3))
      BY <1>1, ClockStep, TimelineTypes, TimelineNumbers DEF Since
    <2>3. HotNormal' => Idle'
      BY <2>1 DEF Idle
    <2>4. HotNormal' /\ Since(3)' => bus'.safe_mode = MODE_NORMAL
      BY <2>1, <2>2 DEF HotNormal, Hot, CommandInTime, Threads
    <2>5. Hot' /\ Since(4)' => obc'.command = MODE_SAFE
      BY <2>1, <2>2 DEF Hot, CommandInTime, Threads
    <2>6. QED
      BY <2>1, <2>3, <2>4, <2>5 DEF CommandInTime
  <1>2. CASE WatchdogSample
    <2>1. obc.pc = "sample" /\ UNCHANGED <<thermal, pending, bus>>
          /\ ("power_writer" \in ran' <=> "power_writer" \in ran)
      BY <1>2 DEF WatchdogSample, Ran, Broadcast
    <2>2. ~NextPeriod
      BY <2>1 DEF NextPeriod
    <2>3. \A k \in 2..4 : Since(k)' <=> Since(k)
      BY <2>2, ClockStep
    <2>4. Hot' <=> Hot
      BY <2>1 DEF Hot
    <2>5. CASE EnterCondition /\ Broadcast(MODE_SAFE)
      <3>1. obc'.command = MODE_SAFE
        BY <2>5 DEF Broadcast
      <3>2. QED
        BY <3>1 DEF CommandInTime, HotNormal
    <2>6. CASE ExitCondition /\ Broadcast(MODE_NORMAL)
      <3>1. Since(2) => ~Hot
        BY <2>6, HotSample DEF BusKnows
      <3>2. ~(Since(2)' /\ Hot')
        BY <2>3, <2>4, <3>1
      <3>3. Since(3)' => Since(2)'
        BY <2>3, SinceOrder
      <3>4. QED
        BY <3>2, <3>3 DEF CommandInTime, HotNormal
    <2>7. CASE ~EnterCondition /\ ~ExitCondition
                 /\ obc' = [obc EXCEPT !.pc = "sleep"]
      <3>1. obc'.command = obc.command /\ obc'.pc = "sleep"
        BY <2>7 DEF TypeOK
      <3>2. HotNormal' => HotNormal
        BY <2>3, <2>4, <3>1 DEF HotNormal
      <3>3. HotNormal' => Idle'
        BY <2>1, <3>1, <3>2 DEF CommandInTime, Idle
      <3>4. HotNormal' /\ ("power_writer" \in ran' \/ Since(3)')
              => bus'.safe_mode = MODE_NORMAL
        BY <2>1, <2>3, <3>2 DEF CommandInTime
      <3>5. Hot /\ Since(3) => obc.command = MODE_SAFE
        <4>1. SUFFICES ASSUME Hot, Since(3), obc.command # MODE_SAFE
                       PROVE  FALSE
          OBVIOUS
        <4>2. HotNormal
          BY <4>1, SinceOrder DEF HotNormal, TypeOK
        <4>3. bus.safe_mode = MODE_NORMAL
          BY <4>1, <4>2 DEF CommandInTime
        <4>4. BusKnows
          BY <4>2 DEF BusKnows, HotNormal
        <4>5. QED
          BY <2>7, <4>1, <4>3, <4>4, HotSample
      <3>6. QED
        BY <2>3, <2>4, <3>1, <3>3, <3>4, <3>5 DEF CommandInTime
    <2>8. QED
      BY <1>2, <2>5, <2>6, <2>7 DEF WatchdogSample
  <1>3. CASE SignalChild \/ UpdateLock \/ UpdateStore
    <2>1. /\ obc.pc \in {"signal", "update", "store"}
          /\ obc'.command = obc.command /\ UNCHANGED thermal
      BY <1>3 DEF SignalChild, UpdateLock, UpdateStore, TypeOK
    <2>2. \A k \in 2..4 : Since(k)' <=> Since(k)
      BY <2>1, ClockStep DEF NextPeriod
    <2>3. Hot' <=> Hot
      BY <2>1 DEF Hot
    <2>4. ~HotNormal
      BY <2>1 DEF CommandInTime, Idle
    <2>5. ~HotNormal'
      BY <2>1, <2>2, <2>3, <2>4 DEF HotNormal
    <2>6. Hot' /\ Since(3)' => obc'.command = MODE_SAFE
      BY <2>1, <2>2, <2>3, <2>4, SinceOrder DEF HotNormal, TypeOK
    <2>7. QED
      BY <2>5, <2>6 DEF CommandInTime
  <1>4. CASE PowerWriterPublish
    <2>1. /\ POWER \in alive /\ UNCHANGED <<thermal, obc, pending>>
          /\ bus'.safe_mode = flag[POWER]
          /\ "watchdog" \in ran' => "watchdog" \in ran
      BY <1>4, RanFrame DEF PowerWriterPublish, TypeOK, Ran
    <2>2. ~NextPeriod
      BY <1>4, ConstantTypes
         DEF PowerWriterPublish, NextPeriod, SemPost, Ran, Threads, TypeOK
    <2>3. \A k \in 2..4 : Since(k)' <=> Since(k)
      BY <2>2, ClockStep
    <2>4. (Hot' <=> Hot) /\ (HotNormal' <=> HotNormal)
      BY <2>1, <2>3 DEF Hot, HotNormal
    <2>5. HotNormal => Idle
      BY DEF CommandInTime
    <2>6. HotNormal /\ Idle => flag[POWER] = MODE_NORMAL
      BY <2>1 DEF HotNormal, Idle, Agreement, SettledAgreement, Told
    <2>7. HotNormal' => Idle' /\ bus'.safe_mode = MODE_NORMAL
      BY <2>1, <2>4, <2>5, <2>6 DEF Idle
    <2>8. Hot' /\ Since(3)' /\ ("watchdog" \in ran' \/ Since(4)')
            => obc'.command = MODE_SAFE
      BY <2>1, <2>3, <2>4 DEF CommandInTime
    <2>9. QED
      BY <2>7, <2>8 DEF CommandInTime
  <1>5. CASE \E p \in Processes, s \in Signals : Deliver(p, s)
    <2>1. PICK p \in Processes, s \in Signals : Deliver(p, s)
      BY <1>5
    <2>2. pending'[POWER] \subseteq pending[POWER]
      BY <2>1, ConstantTypes DEF Deliver, TypeOK
    <2>3. UNCHANGED <<obc, bus, ran>>
      BY <2>1 DEF Deliver
    <2>4. QED
      BY <2>2, <2>3, CommandFrame DEF NextPeriod, Threads
  <1>6. CASE WatchdogLock
    <2>1. /\ obc'.command = obc.command /\ obc'.pc = "sample"
          /\ UNCHANGED <<pending, bus, ran>>
      BY <1>6 DEF WatchdogLock, TypeOK
    <2>2. QED
      BY <2>1, CommandFrame DEF NextPeriod, Threads
  <1>7. CASE \/ SolarTick \/ BatteryTick \/ SensorTick \/ PowerWriterLock
             \/ ThermalWriterLock \/ CommsLock \/ CommsUnlock
    <2>1. UNCHANGED <<obc, pending, bus>>
      BY <1>7 DEF SolarTick, BatteryTick, SensorTick, PowerWriterLock,
                  ThermalWriterLock, CommsLock, CommsUnlock
    <2>2. UNCHANGED ran \/ \E t \in {"solar", "battery", "sensor"} : Ran(t)
      <3>1. CASE SolarTick \/ BatteryTick \/ SensorTick
        BY <3>1 DEF SolarTick, BatteryTick, SensorTick
      <3>2. CASE PowerWriterLock \/ ThermalWriterLock \/ CommsLock \/ CommsUnlock
        BY <3>2 DEF PowerWriterLock, ThermalWriterLock, CommsLock, CommsUnlock
      <3>3. QED
        BY <1>7, <3>1, <3>2
    <2>3. /\ "power_writer" \in ran' => "power_writer" \in ran
          /\ "watchdog" \in ran' => "watchdog" \in ran
      BY <2>2, PacedRuns
    <2>4. CASE NextPeriod
      BY <1>1, <2>4
    <2>5. CASE ~NextPeriod
      BY <2>1, <2>3, <2>5, CommandFrame
    <2>6. QED
      BY <2>4, <2>5
  <1>8. CASE ThermalWriterPublish
    <2>1. UNCHANGED <<obc, pending>> /\ bus'.safe_mode = bus.safe_mode
      BY <1>8 DEF ThermalWriterPublish, TypeOK
    <2>2. ran' = ran \cup {"thermal_writer"}
      BY <1>8, PacedRuns DEF ThermalWriterPublish
    <2>3. CASE NextPeriod
      BY <1>1, <2>3
    <2>4. CASE ~NextPeriod
      BY <2>1, <2>2, <2>4, CommandFrame
    <2>5. QED
      BY <2>3, <2>4
  <1>9. CASE UNCHANGED vars
    BY <1>1, <1>9, CommandFrame DEF vars
  <1>10. QED
    BY <1>1, <1>2, <1>3, <1>4, <1>5, <1>6, <1>7, <1>8, <1>9, PacedSteps
       DEF Next

-----------------------------------------------------------------------------
(***************************************************************************)
(* The invariant of the heat, from the sensor to the command, and what it  *)
(* says of the step in which the CPU cools below TEMP_CRITICAL.            *)
(***************************************************************************)
HeatInv == TypeOK /\ Agreement /\ Heat /\ BusHeat

LEMMA HeatInvariant == Paced => (Spec => []HeatInv)
  <1> SUFFICES ASSUME Paced PROVE Spec => []HeatInv
    OBVIOUS
  <1>1. Init => Heat /\ BusHeat
    BY HeatInit, BusHeatInit
  <1>2. TypeOK /\ Heat /\ BusHeat /\ [Next]_vars => Heat' /\ BusHeat'
    BY HeatStep, BusHeatStep
  <1>3. QED
    BY <1>1, <1>2, TypeCorrect, AgreementInvariant, PTL DEF Spec, HeatInv

\* The command is in time when the power process is prompt.
LEMMA CommandInvariant ==
  Paced /\ POWER \in Prompt => (Spec => []CommandInTime)
  <1> SUFFICES ASSUME Paced, POWER \in Prompt PROVE Spec => []CommandInTime
    OBVIOUS
  <1>1. Spec => []HeatInv
    BY HeatInvariant
  <1>2. Init => CommandInTime
    BY CommandInit
  <1>3. HeatInv /\ CommandInTime /\ [Next]_vars => CommandInTime'
    BY CommandStep DEF HeatInv
  <1>4. QED
    BY <1>1, <1>2, <1>3, PTL DEF Spec

\* One step in which the CPU cools down.
LEMMA CoolingStep ==
  ASSUME Paced, HeatInv, CommandInTime, [Next]_vars, Hot, ~Hot'
  PROVE  obc.command = MODE_SAFE
  <1>1. SensorTick /\ "sensor" \notin ran
    BY ClockFrame, SensorTickClock DEF Hot, HeatInv
  <1>2. Heat /\ Heat' /\ TypeOK /\ TypeOK'
    BY HeatStep, TypeStep DEF HeatInv
  <1>3. thermal'.elapsed \notin THERMAL_SPIKE..(THERMAL_SPIKE + 3)
    <2>1. \A k \in 0..3 : TEMP_CRITICAL <= SPIKE_TEMP - k * COOLING_STEP
      BY TimelineTypes, TimelineAssumption
    <2>2. thermal'.elapsed \in Nat /\ thermal'.temp_cpu \in Nat
          /\ {TEMP_CRITICAL, THERMAL_SPIKE} \subseteq Nat
      BY <1>2, TimelineTypes, ConstantTypes DEF TypeOK
    <2>3. \A k \in 0..3 : thermal'.elapsed # THERMAL_SPIKE + k
      <3>1. Cooled(0)' /\ Cooled(1)' /\ Cooled(2)' /\ Cooled(3)'
        BY <1>2 DEF Heat
      <3>2. QED
        BY <2>1, <2>2, <3>1, TimelineTypes DEF Cooled, Hot
    <2>4. QED
      BY <2>2, <2>3
  <1>4. thermal.elapsed >= THERMAL_SPIKE
    BY <1>2, TimelineTypes, TimelineNumbers, TimelineAssumption DEF Heat, Hot
  <1>5. thermal.elapsed + 1 >= THERMAL_SPIKE + 4
    <2>1. COOLING_TICKS \in Nat /\ COOLING_TICKS >= 4
      BY TimelineTypes, TimelineAssumption
    <2>2. thermal'.elapsed
            = Lowest(thermal.elapsed + 1, THERMAL_SPIKE + COOLING_TICKS)
      BY <1>1, <1>2, SensorTickClock
    <2>3. thermal.elapsed \in Nat /\ THERMAL_SPIKE \in Nat
      BY <1>2, TimelineTypes, TimelineNumbers
    <2>4. QED
      BY <1>3, <1>4, <2>1, <2>2, <2>3 DEF Lowest
  <1>6. Since(4) /\ Since(3)
    BY <1>1, <1>2, <1>5, SinceOrder DEF Since, Tick
  <1>7. QED
    BY <1>6 DEF CommandInTime

(***************************************************************************)
(* A CPU that overheats is never missed, whatever the order in which the   *)
(* threads run within a period, for any length and depth of the eclipse:   *)
(* if the power process handles its signals in time, watchdog() has        *)
(* commanded SAFE MODE before the CPU cools below TEMP_CRITICAL.           *)
(***************************************************************************)
THEOREM OverheatIsCaught ==
  Paced /\ POWER \in Prompt => (Spec => OverheatCaught)
  <1> SUFFICES ASSUME Paced, POWER \in Prompt PROVE Spec => OverheatCaught
    OBVIOUS
  <1>1. Spec => [](HeatInv /\ CommandInTime)
    BY HeatInvariant, CommandInvariant, PTL
  <1>2. HeatInv /\ CommandInTime /\ [Next]_vars
          => [thermal.temp_cpu >= TEMP_CRITICAL
                /\ thermal'.temp_cpu < TEMP_CRITICAL
                => obc.command = MODE_SAFE]_vars
    <2>1. SUFFICES ASSUME HeatInv, CommandInTime, [Next]_vars,
                          thermal.temp_cpu >= TEMP_CRITICAL,
                          thermal'.temp_cpu < TEMP_CRITICAL
                   PROVE  obc.command = MODE_SAFE
      OBVIOUS
    <2>2. thermal'.temp_cpu \in Nat /\ TEMP_CRITICAL \in Nat
      BY <2>1, TypeStep, TimelineTypes DEF HeatInv, TypeOK
    <2>3. QED
      BY <2>1, <2>2, CoolingStep DEF Hot
  <1>3. QED
    BY <1>1, <1>2, PTL DEF Spec, OverheatCaught

-----------------------------------------------------------------------------
(***************************************************************************)
(* Obedience.  While the latch of the CPU's fault is set, the OBC stays in *)
(* SAFE MODE, as the bus does not call the CPU cool; and a period after    *)
(* the command the children have obeyed it.                                *)
(***************************************************************************)
ObeyedInTime ==
  /\ Since(4) /\ thermal.fault_active => obc.command = MODE_SAFE
  /\ Since(5) /\ thermal.fault_active => \A c \in alive : flag[c] = MODE_SAFE

\* Who changes the command, who changes a flag, and that nobody is born.
LEMMA CommandChange ==
  ASSUME TypeOK, [Next]_vars
  PROVE  \/ obc'.command = obc.command
         \/ obc'.command = MODE_SAFE
         \/ WatchdogSample /\ ExitCondition
  <1>1. CASE WatchdogSample
    BY <1>1 DEF WatchdogSample, Broadcast, TypeOK
  <1>2. CASE WatchdogLock \/ SignalChild \/ UpdateLock \/ UpdateStore
    BY <1>2 DEF WatchdogLock, SignalChild, UpdateLock, UpdateStore, TypeOK
  <1>3. CASE ~(\/ WatchdogSample \/ WatchdogLock \/ SignalChild \/ UpdateLock
               \/ UpdateStore)
    BY <1>3 DEF Next, NextPeriod, SolarTick, BatteryTick, PowerWriterLock,
         PowerWriterPublish, SensorTick, ThermalWriterLock,
         ThermalWriterPublish, CommsLock, CommsUnlock, GroundCommand,
         Deliver, Die, vars
  <1>4. QED
    BY <1>1, <1>2, <1>3

LEMMA FlagChange ==
  ASSUME [Next]_vars
  PROVE  /\ alive' \subseteq alive
         /\ UNCHANGED flag \/ \E p \in Processes, s \in Signals : Deliver(p, s)
  BY DEF Next, NextPeriod, SolarTick, BatteryTick, PowerWriterLock,
     PowerWriterPublish, SensorTick, ThermalWriterLock, ThermalWriterPublish,
     CommsLock, CommsUnlock, GroundCommand, WatchdogLock, WatchdogSample,
     SignalChild, UpdateLock, UpdateStore, Deliver, Die, vars

\* After the spike the latch of the CPU's fault is not set again.
LEMMA WarmBefore ==
  ASSUME Paced, TypeOK, Heat, [Next]_vars, Since(2), ~NextPeriod,
         thermal'.fault_active
  PROVE  thermal.fault_active
  <1>1. CASE SensorTick
    <2>1. thermal.elapsed >= THERMAL_SPIKE
      BY <1>1, BusKnowsSpike
    <2>2. ~thermal.fault_active => ~Hot
      BY <2>1, TimelineNumbers, TimelineTypes, TimelineAssumption DEF Heat, Hot
    <2>3. QED
      BY <2>1, <2>2, HeatStep DEF StaysCool
  <1>2. QED
    BY <1>1, ClockFrame

\* A new period brings the command first, and the obedience one later.
LEMMA ObeyedNextPeriod ==
  ASSUME Paced, Prompt = Children, TypeOK, Agreement, Heat, CommandInTime,
         ObeyedInTime, NextPeriod, [Next]_vars
  PROVE  ObeyedInTime'
  <1>1. /\ ran = Threads /\ obc.pc = "sleep"
        /\ \A c \in Children : pending[c] = {}
        /\ UNCHANGED <<thermal, obc, flag, alive>>
    BY DEF NextPeriod, Quiet
  <1>2. (Since(4)' => Since(3)) /\ (Since(5)' => Since(4))
    <2>1. \A k \in 4..5 : Since(k)' <=> Tick + 1 >= THERMAL_SPIKE + k
      BY ClockStep
    <2>2. Tick \in Nat /\ THERMAL_SPIKE \in Nat
      BY TimelineTypes, TimelineNumbers
    <2>3. QED
      BY <2>1, <2>2 DEF Since
  <1>3. Since(3) /\ ~Since(4) => Hot
    <2>1. Tick = thermal.elapsed
      BY <1>1, TimelineNumbers DEF Tick, Threads
    <2>2. thermal.elapsed \in Nat /\ THERMAL_SPIKE \in Nat
      BY TimelineTypes, TimelineNumbers
    <2>3. Since(3) /\ ~Since(4) => thermal.elapsed = THERMAL_SPIKE + 3
      BY <2>1, <2>2 DEF Since
    <2>4. TEMP_CRITICAL <= SPIKE_TEMP - 3 * COOLING_STEP
      BY TimelineTypes, TimelineAssumption
    <2>5. Cooled(3)
      BY DEF Heat
    <2>6. QED
      BY <2>3, <2>4, <2>5, TimelineTypes, TimelineNumbers DEF Cooled, Hot
  <1>4. Since(3) /\ thermal.fault_active => obc.command = MODE_SAFE
    BY <1>1, <1>3 DEF CommandInTime, ObeyedInTime, Threads
  <1>5. Since(4) /\ thermal.fault_active
          => \A c \in alive : flag[c] = MODE_SAFE
    <2>1. \A c \in alive : c \in Children
      BY DEF TypeOK
    <2>2. \A c \in alive : flag[c] = obc.command
      BY <1>1, <2>1 DEF Agreement, SettledAgreement, Told
    <2>3. QED
      BY <2>2 DEF ObeyedInTime
  <1>6. QED
    BY <1>1, <1>2, <1>4, <1>5 DEF ObeyedInTime

\* Every step keeps the obedience.
LEMMA ObeyedStep ==
  ASSUME Paced, Prompt = Children, TypeOK, Agreement, Heat, BusHeat,
         CommandInTime, ObeyedInTime, [Next]_vars
  PROVE  ObeyedInTime'
  <1>1. CASE NextPeriod
    BY <1>1, ObeyedNextPeriod
  <1>2. CASE ~NextPeriod
    <2>1. \A k \in 4..5 : Since(k)' <=> Since(k)
      BY <1>2, ClockStep
    <2>2. (Since(4) => Since(2)) /\ (Since(5) => Since(4))
      BY SinceOrder
    <2>3. Since(4) /\ thermal'.fault_active => thermal.fault_active
      BY <1>2, <2>2, WarmBefore
    <2>4. Since(4) /\ thermal.fault_active => obc'.command = MODE_SAFE
      <3>1. SUFFICES ASSUME Since(4), thermal.fault_active, ExitCondition
                     PROVE  FALSE
        BY CommandChange DEF ObeyedInTime
      <3>2. bus.temp_cpu < TEMP_WARNING
        BY <3>1 DEF ExitCondition
      <3>3. QED
        BY <2>2, <3>1, <3>2 DEF BusHeat, BusKnows
    <2>5. ASSUME Since(5), thermal.fault_active, NEW c \in alive'
          PROVE  flag'[c] = MODE_SAFE
      <3>1. c \in alive /\ flag[c] = MODE_SAFE /\ obc.command = MODE_SAFE
        BY <2>2, <2>5, FlagChange DEF ObeyedInTime
      <3>2. ASSUME NEW p \in Processes, NEW s \in Signals, Deliver(p, s)
            PROVE  flag'[c] = MODE_SAFE
        <4>1. c \in 1..N /\ c \in 0..N
          BY <3>1, ConstantTypes DEF TypeOK
        <4>2. CASE p = c
          <5>1. s \in pending[c]
            BY <3>2, <4>2 DEF Deliver
          <5>2. pending[c] \subseteq {"SIGUSR1"}
            BY <3>1, <4>1 DEF Agreement, OnlyCurrentSignals, SignalFor
          <5>3. flag' = [flag EXCEPT ![c] = MODE_SAFE]
            BY <3>2, <4>2, <5>1, <5>2 DEF Deliver
          <5>4. QED
            BY <4>1, <5>3 DEF TypeOK
        <4>3. CASE p # c
          <5>1. \/ UNCHANGED flag
                \/ flag' = [flag EXCEPT ![p] = MODE_SAFE]
                \/ flag' = [flag EXCEPT ![p] = MODE_NORMAL]
            BY <3>2 DEF Deliver
          <5>2. QED
            BY <3>1, <4>1, <4>3, <5>1 DEF TypeOK
        <4>4. QED
          BY <4>2, <4>3
      <3>3. QED
        BY <3>1, <3>2, FlagChange
    <2>6. QED
      BY <2>1, <2>2, <2>3, <2>4, <2>5 DEF ObeyedInTime
  <1>3. QED
    BY <1>1, <1>2

\* One step in which the CPU cools below the warning level.
LEMMA WarmStep ==
  ASSUME Paced, HeatInv, ObeyedInTime, [Next]_vars,
         thermal.temp_cpu >= TEMP_WARNING, thermal'.temp_cpu < TEMP_WARNING
  PROVE  \A c \in alive : flag[c] = MODE_SAFE
  <1>1. Heat /\ Heat' /\ TypeOK /\ TypeOK'
    BY HeatStep, TypeStep DEF HeatInv
  <1>2. thermal'.elapsed \in Nat /\ thermal'.temp_cpu \in Nat
    BY <1>1, ConstantTypes DEF TypeOK
  <1>3. SensorTick /\ "sensor" \notin ran
    BY <1>1, <1>2, ClockFrame, SensorTickClock, TimelineTypes
  <1>4. thermal.elapsed >= THERMAL_SPIKE /\ thermal.fault_active
    BY <1>1, TimelineTypes, TimelineNumbers DEF Heat
  <1>5. \A k \in 0..5 : thermal'.elapsed # THERMAL_SPIKE + k
    <2>1. \A k \in 0..5 : TEMP_WARNING <= SPIKE_TEMP - k * COOLING_STEP
      BY TimelineTypes, TimelineAssumption
    <2>2. /\ Cooled(0)' /\ Cooled(1)' /\ Cooled(2)'
          /\ Cooled(3)' /\ Cooled(4)' /\ Cooled(5)'
      BY <1>1 DEF Heat
    <2>3. QED
      BY <1>2, <2>1, <2>2, TimelineTypes DEF Cooled
  <1>6. Tick >= THERMAL_SPIKE + 6
    <2>1. COOLING_TICKS \in Nat /\ COOLING_TICKS >= 6
      BY TimelineTypes, TimelineAssumption
    <2>2. thermal'.elapsed
            = Lowest(thermal.elapsed + 1, THERMAL_SPIKE + COOLING_TICKS)
      BY <1>1, <1>3, SensorTickClock
    <2>3. thermal.elapsed \in Nat /\ THERMAL_SPIKE \in Nat
      BY <1>1, TimelineTypes, TimelineNumbers
    <2>4. QED
      BY <1>3, <1>4, <1>5, <2>1, <2>2, <2>3 DEF Lowest, Tick
  <1>7. Since(5)
    BY <1>1, <1>6, TimelineTypes, TimelineNumbers DEF Since
  <1>8. QED
    BY <1>4, <1>7 DEF ObeyedInTime

(***************************************************************************)
(* From end to end: if every child handles its signals within a period,    *)
(* then each of them is in SAFE MODE before the CPU has cooled below       *)
(* TEMP_WARNING, whatever the order of the threads in each period.         *)
(***************************************************************************)
THEOREM OverheatIsObeyed ==
  Paced /\ Prompt = Children => (Spec => OverheatObeyed)
  <1> SUFFICES ASSUME Paced, Prompt = Children PROVE Spec => OverheatObeyed
    OBVIOUS
  <1>1. POWER \in Prompt
    BY ConstantTypes
  <1>2. Spec => [](HeatInv /\ CommandInTime)
    BY <1>1, HeatInvariant, CommandInvariant, PTL
  <1>3. Init => ObeyedInTime
    BY DEF Init, ObeyedInTime
  <1>4. HeatInv /\ CommandInTime /\ ObeyedInTime /\ [Next]_vars
          => ObeyedInTime'
    BY ObeyedStep DEF HeatInv
  <1>5. HeatInv /\ ObeyedInTime /\ [Next]_vars
          => [thermal.temp_cpu >= TEMP_WARNING
                /\ thermal'.temp_cpu < TEMP_WARNING
                => \A c \in alive : flag[c] = MODE_SAFE]_vars
    BY WarmStep
  <1>6. QED
    BY <1>2, <1>3, <1>4, <1>5, PTL DEF Spec, OverheatObeyed

-----------------------------------------------------------------------------
(***************************************************************************)
(* The eclipse: the battery is full before it and charges after it.        *)
(***************************************************************************)
Sun ==
  /\ power.solar <=> power.elapsed \notin ECLIPSE_START..ECLIPSE_END
  /\ power.elapsed < ECLIPSE_START => power.battery = BATTERY_FULL
  /\ power.fault_active => power.battery <= BATTERY_WARNING

\* The eclipse is over, and what is charged is above the warning level.
Recovered == power.elapsed > ECLIPSE_END /\ power.battery > BATTERY_WARNING

LEMMA SunInit == Paced /\ Init => Sun
  <1> SUFFICES ASSUME Paced, Init PROVE Sun
    OBVIOUS
  <1>1. /\ power.elapsed = 0 /\ power.solar /\ ~power.fault_active
        /\ power.battery = BATTERY_FULL
    BY DEF Init
  <1>2. ECLIPSE_START \in Nat /\ ECLIPSE_END \in Nat /\ 1 <= ECLIPSE_START
    BY TimelineTypes, TimelineAssumption
  <1>3. QED
    BY <1>1, <1>2 DEF Sun

\* What TypeOK says of the power.
LEMMA PowerNumbers ==
  ASSUME TypeOK, [Next]_vars
  PROVE  /\ power.elapsed \in Nat /\ power'.elapsed \in Nat
         /\ power.battery \in Nat /\ power'.battery \in Nat
         /\ bus.battery \in Nat
  <1>1. power'.elapsed \in Nat /\ power'.battery \in Nat
    <2>1. /\ power' \in [solar : BOOLEAN, battery : 0..BATTERY_FULL,
                         fault_active : BOOLEAN, elapsed : 0..(ECLIPSE_END + 1)]
          /\ BATTERY_FULL \in Nat /\ ECLIPSE_END + 1 \in Nat
      BY TypeStep, ConstantTypes DEF TypeOK
    <2>2. QED
      BY <2>1
  <1>2. power.battery \in Nat /\ bus.battery \in Nat
    BY ConstantTypes DEF TypeOK
  <1>3. QED
    BY <1>1, <1>2, TimelineNumbers

\* The clock of the sun goes on, and after the eclipse no charge is lost.
SunGoesOn ==
  /\ power'.elapsed >= power.elapsed
  /\ power.elapsed > ECLIPSE_END => power'.battery >= power.battery

LEMMA SunStep ==
  ASSUME Paced, TypeOK, Sun, [Next]_vars
  PROVE  Sun' /\ SunGoesOn
  <1>1. /\ power.elapsed \in 0..(ECLIPSE_END + 1)
        /\ power.battery \in 0..BATTERY_FULL
        /\ {ECLIPSE_START, ECLIPSE_END, BATTERY_FULL, BATTERY_WARNING,
            BATTERY_CRITICAL} \subseteq Nat
        /\ BATTERY_CRITICAL < BATTERY_WARNING /\ ECLIPSE_START <= ECLIPSE_END
    BY TimelineTypes, TimelineAssumption DEF TypeOK
  <1>2. CASE UNCHANGED power
    BY <1>1, <1>2 DEF Sun, SunGoesOn
  <1>3. CASE SolarTick
    <2> DEFINE t   == Lowest(power.elapsed + 1, ECLIPSE_END + 1)
               sun == t \notin ECLIPSE_START..ECLIPSE_END
    <2>1. power' = [power EXCEPT !.elapsed = t, !.solar = sun]
      BY <1>3 DEF SolarTick
    <2>2. t \in 0..(ECLIPSE_END + 1) /\ t >= power.elapsed
      BY <1>1 DEF Lowest
    <2>3. sun <=> t \notin ECLIPSE_START..ECLIPSE_END
      OBVIOUS
    <2> HIDE DEF t, sun
    <2>4. /\ power'.elapsed = t /\ power'.battery = power.battery
          /\ power'.fault_active = power.fault_active
          /\ power'.solar = sun
      BY <2>1 DEF TypeOK
    <2>5. t < ECLIPSE_START => power.elapsed < ECLIPSE_START
      BY <1>1, <2>2
    <2>6. QED
      BY <1>1, <2>2, <2>3, <2>4, <2>5 DEF Sun, SunGoesOn
  <1>4. CASE BatteryTick
    <2>1. PICK batt \in NextBattery :
            power' = [power EXCEPT !.battery = batt,
                        !.fault_active = \/ power.fault_active
                                              /\ batt <= BATTERY_WARNING
                                         \/ batt <= BATTERY_CRITICAL]
      BY <1>4 DEF BatteryTick
    <2>2. batt \in 0..BATTERY_FULL
      BY NextBatteryType
    <2>3. /\ power'.battery = batt /\ power'.elapsed = power.elapsed
          /\ power'.solar = power.solar
          /\ power'.fault_active <=> \/ power.fault_active
                                          /\ batt <= BATTERY_WARNING
                                     \/ batt <= BATTERY_CRITICAL
      BY <2>1 DEF TypeOK
    <2>4. power.solar => batt >= power.battery
      <3>1. SUFFICES ASSUME power.solar PROVE batt >= power.battery
        OBVIOUS
      <3>2. PICK g \in Charges : batt = Lowest(power.battery + g, BATTERY_FULL)
        BY <3>1 DEF NextBattery
      <3>3. g \in Nat
        BY PowerAssumption
      <3>4. QED
        BY <1>1, <3>2, <3>3 DEF Lowest
    <2>5. power.elapsed < ECLIPSE_START => batt = BATTERY_FULL
      BY <1>1, <2>2, <2>4 DEF Sun
    <2>6. power.elapsed > ECLIPSE_END => batt >= power.battery
      BY <1>1, <2>4 DEF Sun
    <2>7. QED
      BY <1>1, <2>2, <2>3, <2>5, <2>6 DEF Sun, SunGoesOn
  <1>5. QED
    BY <1>2, <1>3, <1>4, ClockFrame

\* Once the battery has recovered it stays so.
LEMMA RecoveredStep ==
  ASSUME Paced, TypeOK, Sun, [Next]_vars, Recovered
  PROVE  Recovered'
  BY PowerNumbers, TimelineTypes, SunStep DEF Recovered, SunGoesOn

-----------------------------------------------------------------------------
(***************************************************************************)
(* The bus, again: since the period after the eclipse has begun, once the  *)
(* power writer has run in it, a bus that shows the sun says no more of    *)
(* the battery than is true.                                               *)
(***************************************************************************)
Shown ==
  /\ power.elapsed >= ECLIPSE_START
  /\ bus.solar => power.elapsed > ECLIPSE_END /\ bus.battery <= power.battery

BusKnowsEclipse ==
  \/ Tick >= ECLIPSE_START + 2
  \/ Tick >= ECLIPSE_START + 1 /\ "power_writer" \in ran

\* What is on its way shows that there has been an eclipse or a spike.
SafeTrace ==
  \/ obc.command = MODE_SAFE \/ bus.safe_mode = MODE_SAFE
  \/ \E c \in Children : flag[c] = MODE_SAFE \/ "SIGUSR1" \in pending[c]

Eclipse ==
  /\ Tick <= SolarClock \/ power.elapsed >= ECLIPSE_START
  /\ BusKnowsEclipse => Shown
  /\ bus.battery < BATTERY_FULL => Shown
  /\ SafeTrace => Shown

LEMMA EclipseInit == Paced /\ Init => Eclipse
  <1> SUFFICES ASSUME Paced, Init PROVE Eclipse
    OBVIOUS
  <1>1. Tick = 1 /\ SolarClock = 1 /\ bus.battery = BATTERY_FULL
    BY DEF Init, Tick, SolarClock
  <1>2. ~BusKnowsEclipse
    BY <1>1, TimelineTypes, TimelineAssumption DEF BusKnowsEclipse
  <1>3. ~SafeTrace
    BY ConstantTypes DEF Init, SafeTrace
  <1>4. QED
    BY <1>1, <1>2, <1>3, TimelineTypes DEF Eclipse

\* Only the power writer changes what the bus says of the power.
LEMMA BusPowerFrame ==
  ASSUME TypeOK, [Next]_vars
  PROVE  \/ PowerWriterPublish
         \/ bus'.solar = bus.solar /\ bus'.battery = bus.battery
  BY DEF TypeOK, Next, NextPeriod, SolarTick, BatteryTick, PowerWriterLock,
     SensorTick, ThermalWriterLock, ThermalWriterPublish, CommsLock,
     CommsUnlock, GroundCommand, WatchdogLock, WatchdogSample, SignalChild,
     UpdateLock, UpdateStore, Deliver, Die, vars

\* What the power writer publishes after the start of the eclipse is true.
LEMMA PublishShown ==
  ASSUME TypeOK, Sun, PowerWriterPublish, power.elapsed >= ECLIPSE_START
  PROVE  Shown'
  <1>1. /\ UNCHANGED power /\ bus'.solar = power.solar
        /\ bus'.battery = power.battery
    BY DEF PowerWriterPublish, TypeOK
  <1>2. {power.elapsed, ECLIPSE_START, ECLIPSE_END} \subseteq Nat
        /\ power.battery \in Nat
    BY TimelineTypes, TimelineNumbers, ConstantTypes DEF TypeOK
  <1>3. QED
    BY <1>1, <1>2 DEF Shown, Sun

\* What the bus has shown stays shown.
LEMMA ShownStep ==
  ASSUME Paced, TypeOK, Sun, [Next]_vars, Shown
  PROVE  Shown'
  <1>1. CASE PowerWriterPublish
    BY <1>1, PublishShown DEF Shown
  <1>2. CASE ~PowerWriterPublish
    <2>1. bus'.solar = bus.solar /\ bus'.battery = bus.battery
      BY <1>2, BusPowerFrame
    <2>2. QED
      BY <2>1, PowerNumbers, TimelineTypes, SunStep DEF Shown, SunGoesOn
  <1>3. QED
    BY <1>1, <1>2

\* solar_thread's clock keeps pace with the sensor's until the eclipse is over.
LEMMA SolarClockStep ==
  ASSUME Paced, TypeOK, [Next]_vars
  PROVE  /\ NextPeriod => SolarClock' = SolarClock + 1
         /\ ~NextPeriod => \/ SolarClock' = SolarClock
                           \/ power.elapsed > ECLIPSE_END
  <1>1. CASE NextPeriod
    <2>1. "solar" \in ran /\ "solar" \notin ran' /\ UNCHANGED power
      BY <1>1 DEF NextPeriod, Threads
    <2>2. QED
      BY <1>1, <2>1, TimelineNumbers DEF SolarClock
  <1>2. CASE SolarTick
    <2>1. /\ "solar" \notin ran /\ ran' = ran \cup {"solar"}
          /\ power'.elapsed = Lowest(power.elapsed + 1, ECLIPSE_END + 1)
      <3>1. "solar" \notin ran /\ ran' = ran \cup {"solar"}
        BY <1>2, PacedRuns DEF SolarTick
      <3>2. PICK b : power' = [power EXCEPT
                       !.elapsed = Lowest(power.elapsed + 1, ECLIPSE_END + 1),
                       !.solar = b]
        BY <1>2 DEF SolarTick
      <3>3. QED
        BY <3>1, <3>2 DEF TypeOK
    <2>2. SolarClock = power.elapsed + 1 /\ SolarClock' = power'.elapsed + 0
      BY <2>1 DEF SolarClock
    <2>3. ~NextPeriod
      BY <2>1 DEF NextPeriod, Threads
    <2>4. ~(power.elapsed > ECLIPSE_END) => power'.elapsed = power.elapsed + 1
      BY <2>1, TimelineNumbers, TimelineTypes DEF Lowest
    <2>5. QED
      BY <2>2, <2>3, <2>4, TimelineNumbers
  <1>3. CASE ~NextPeriod /\ ~SolarTick
    <2>1. "solar" \in ran' <=> "solar" \in ran
      BY <1>3, RanFrame
    <2>2. power'.elapsed = power.elapsed
      <3>1. CASE BatteryTick
        BY <3>1 DEF BatteryTick, TypeOK
      <3>2. QED
        BY <1>3, <3>1, ClockFrame
    <2>3. SolarClock' = SolarClock
      BY <2>1, <2>2 DEF SolarClock
    <2>4. QED
      BY <1>3, <2>3
  <1>4. QED
    BY <1>1, <1>2, <1>3

\* The bus learns of the eclipse from the power writer.
LEMMA BusKnowsEclipseStep ==
  ASSUME Paced, TypeOK, [Next]_vars, BusKnowsEclipse'
  PROVE  \/ BusKnowsEclipse
         \/ PowerWriterPublish /\ Tick >= ECLIPSE_START + 1
  <1>1. /\ Tick \in Nat /\ ECLIPSE_START \in Nat /\ Tick' \in Int
    <2>1. thermal'.elapsed \in Nat
      BY TypeStep, ConstantTypes DEF TypeOK
    <2>2. QED
      BY <2>1, TimelineNumbers, TimelineTypes DEF Tick
  <1>2. CASE NextPeriod
    <2>1. "power_writer" \in ran /\ "power_writer" \notin ran'
      BY <1>2 DEF NextPeriod, Threads
    <2>2. Tick' = Tick + 1
      BY <1>2, ClockStep
    <2>3. QED
      BY <1>1, <2>1, <2>2 DEF BusKnowsEclipse
  <1>3. CASE ~NextPeriod
    <2>1. Tick' <= Tick
      BY <1>3, ClockStep
    <2>2. \/ PowerWriterPublish
          \/ "power_writer" \in ran' => "power_writer" \in ran
      BY <1>3, RanFrame
    <2>3. QED
      BY <1>1, <2>1, <2>2 DEF BusKnowsEclipse
  <1>4. QED
    BY <1>2, <1>3

\* A trace of SAFE MODE appears where watchdog() decides to enter it.
LEMMA SafeTraceStep ==
  ASSUME Paced, TypeOK, [Next]_vars, ~SafeTrace,
         ~(WatchdogSample /\ EnterCondition)
  PROVE  ~SafeTrace'
  <1>1. /\ obc.command = MODE_NORMAL /\ bus.safe_mode = MODE_NORMAL
        /\ \A c \in Children : flag[c] = MODE_NORMAL
                                /\ "SIGUSR1" \notin pending[c]
    <2>1. \A c \in 1..N : c \in 0..N
      BY ConstantTypes
    <2>2. QED
      BY <2>1 DEF SafeTrace, TypeOK
  <1>2. SUFFICES /\ obc'.command = MODE_NORMAL /\ bus'.safe_mode = MODE_NORMAL
                 /\ \A c \in Children : flag'[c] = MODE_NORMAL
                                         /\ "SIGUSR1" \notin pending'[c]
    BY DEF SafeTrace
  <1>3. CASE WatchdogSample
    <2>1. UNCHANGED <<bus, flag, pending>>
      BY <1>3 DEF WatchdogSample
    <2>2. obc'.command = MODE_NORMAL
      BY <1>1, <1>3 DEF WatchdogSample, Broadcast, TypeOK
    <2>3. QED
      BY <1>1, <2>1, <2>2
  <1>4. CASE SignalChild
    <2>1. UNCHANGED <<bus, flag>> /\ obc'.command = obc.command
      BY <1>4 DEF SignalChild, TypeOK
    <2>2. \A c \in Children : "SIGUSR1" \notin pending'[c]
      <3>1. CASE UNCHANGED pending
        BY <1>1, <3>1
      <3>2. CASE pending' = [pending EXCEPT
                               ![obc.next] = pending[obc.next] \cup {"SIGUSR2"}]
        BY <1>1, <3>2, ConstantTypes DEF TypeOK
      <3>3. SignalFor(obc.command) = "SIGUSR2"
        BY <1>1 DEF SignalFor
      <3>4. QED
        BY <1>4, <3>1, <3>2, <3>3 DEF SignalChild
    <2>3. QED
      BY <1>1, <2>1, <2>2
  <1>5. CASE UpdateStore
    <2>1. UNCHANGED <<flag, pending>>
      BY <1>5 DEF UpdateStore
    <2>2. obc'.command = obc.command /\ bus'.safe_mode = obc.command
      BY <1>5 DEF UpdateStore, TypeOK
    <2>3. QED
      BY <1>1, <2>1, <2>2
  <1>6. CASE PowerWriterPublish
    <2>1. UNCHANGED <<obc, flag, pending>> /\ bus'.safe_mode = flag[POWER]
      BY <1>6 DEF PowerWriterPublish, TypeOK
    <2>2. POWER \in Children
      BY ConstantTypes
    <2>3. QED
      BY <1>1, <2>1, <2>2
  <1>7. ASSUME NEW p \in Processes, NEW s \in Signals, Deliver(p, s)
        PROVE  /\ obc'.command = MODE_NORMAL /\ bus'.safe_mode = MODE_NORMAL
               /\ \A c \in Children : flag'[c] = MODE_NORMAL
                                       /\ "SIGUSR1" \notin pending'[c]
    <2>1. UNCHANGED <<obc, bus>> /\ s \in pending[p]
          /\ pending' = [pending EXCEPT ![p] = pending[p] \ {s}]
      BY <1>7 DEF Deliver
    <2>2. \A c \in 1..N : c \in 0..N /\ c # OBC
      BY ConstantTypes
    <2>3. \A c \in Children : "SIGUSR1" \notin pending'[c]
      BY <1>1, <2>1, <2>2 DEF TypeOK
    <2>4. \A c \in Children : flag'[c] = MODE_NORMAL
      <3>1. CASE s = "SIGUSR1"
        <4>1. p = OBC
          BY <1>1, <2>1, <3>1
        <4>2. flag' = [flag EXCEPT ![OBC] = MODE_SAFE]
          BY <1>7, <3>1, <4>1 DEF Deliver
        <4>3. QED
          BY <1>1, <2>2, <4>2 DEF TypeOK
      <3>2. CASE s # "SIGUSR1"
        <4>1. UNCHANGED flag \/ flag' = [flag EXCEPT ![p] = MODE_NORMAL]
          BY <1>7, <3>2 DEF Deliver
        <4>2. QED
          BY <1>1, <2>2, <4>1 DEF TypeOK
      <3>3. QED
        BY <3>1, <3>2
    <2>5. QED
      BY <1>1, <2>1, <2>3, <2>4
  <1>8. CASE \/ NextPeriod \/ SolarTick \/ BatteryTick \/ SensorTick
             \/ PowerWriterLock \/ ThermalWriterLock \/ ThermalWriterPublish
             \/ CommsLock \/ CommsUnlock \/ WatchdogLock \/ UpdateLock
             \/ UNCHANGED vars
    <2>1. UNCHANGED <<flag, pending>>
      BY <1>8 DEF NextPeriod, SolarTick, BatteryTick, SensorTick,
           PowerWriterLock, ThermalWriterLock, ThermalWriterPublish,
           CommsLock, CommsUnlock, WatchdogLock, UpdateLock, vars
    <2>2. obc'.command = obc.command
      BY <1>8 DEF NextPeriod, SolarTick, BatteryTick, SensorTick,
           PowerWriterLock, ThermalWriterLock, ThermalWriterPublish,
           CommsLock, CommsUnlock, WatchdogLock, UpdateLock, vars, TypeOK
    <2>3. bus'.safe_mode = bus.safe_mode
      BY <1>8 DEF NextPeriod, SolarTick, BatteryTick, SensorTick,
           PowerWriterLock, ThermalWriterLock, ThermalWriterPublish,
           CommsLock, CommsUnlock, WatchdogLock, UpdateLock, vars, TypeOK
    <2>4. QED
      BY <1>1, <2>1, <2>2, <2>3
  <1>9. QED
    BY <1>3, <1>4, <1>5, <1>6, <1>7, <1>8, PacedSteps DEF Next

\* watchdog() does not enter SAFE MODE before the bus knows of the eclipse.
LEMMA EnterShown ==
  ASSUME Paced, TypeOK, BusHeat, Eclipse, EnterCondition
  PROVE  Shown
  <1>1. CASE bus.battery <= BATTERY_CRITICAL
    <2>1. bus.battery < BATTERY_FULL
      BY <1>1, TimelineTypes, ConstantTypes DEF TypeOK
    <2>2. QED
      BY <2>1 DEF Eclipse
  <1>2. CASE bus.temp_cpu >= TEMP_CRITICAL
    <2>1. thermal.elapsed >= THERMAL_SPIKE
      BY <1>2 DEF BusHeat
    <2>2. Tick >= ECLIPSE_START + 2
      BY <2>1, TimelineNumbers, TimelineTypes, TimelineAssumption DEF Tick
    <2>3. QED
      BY <2>2 DEF Eclipse, BusKnowsEclipse
  <1>3. QED
    BY <1>1, <1>2 DEF EnterCondition

\* Every step keeps what is known of the eclipse.
LEMMA EclipseStep ==
  ASSUME Paced, TypeOK, BusHeat, Sun, Eclipse, [Next]_vars
  PROVE  Eclipse'
  <1>1. {ECLIPSE_START, ECLIPSE_END, BATTERY_FULL} \subseteq Nat
        /\ ECLIPSE_START <= ECLIPSE_END
    BY TimelineTypes, TimelineAssumption
  <1>2. Shown => Shown'
    BY ShownStep
  <1>3. Tick' <= SolarClock' \/ power'.elapsed >= ECLIPSE_START
    <2>1. CASE power.elapsed >= ECLIPSE_START
      BY <1>1, <2>1, PowerNumbers, SunStep DEF SunGoesOn
    <2>2. CASE ~(power.elapsed >= ECLIPSE_START)
      <3>1. ~(power.elapsed > ECLIPSE_END) /\ Tick <= SolarClock
        BY <1>1, <2>2, PowerNumbers DEF Eclipse
      <3>2. Tick' \in Int
        <4>1. thermal'.elapsed \in Nat
          BY TypeStep, ConstantTypes DEF TypeOK
        <4>2. QED
          BY <4>1 DEF Tick
      <3>3. QED
        BY <3>1, <3>2, TimelineNumbers, SolarClockStep, ClockStep
    <2>3. QED
      BY <2>1, <2>2
  <1>4. BusKnowsEclipse' => Shown'
    <2>1. SUFFICES ASSUME PowerWriterPublish, Tick >= ECLIPSE_START + 1
                   PROVE  Shown'
      BY <1>2, BusKnowsEclipseStep DEF Eclipse
    <2>2. SolarClock <= power.elapsed + 1
      BY TimelineNumbers DEF SolarClock
    <2>3. power.elapsed >= ECLIPSE_START
      BY <1>1, <2>1, <2>2, TimelineNumbers DEF Eclipse
    <2>4. QED
      BY <2>1, <2>3, PublishShown
  <1>5. bus'.battery < BATTERY_FULL => Shown'
    <2>1. CASE PowerWriterPublish
      <3>1. bus'.battery = power.battery
        BY <2>1 DEF PowerWriterPublish, TypeOK
      <3>2. power.battery < BATTERY_FULL => power.elapsed >= ECLIPSE_START
        BY <1>1, PowerNumbers DEF Sun
      <3>3. QED
        BY <2>1, <3>1, <3>2, PublishShown
    <2>2. CASE ~PowerWriterPublish
      BY <1>2, <2>2, BusPowerFrame DEF Eclipse
    <2>3. QED
      BY <2>1, <2>2
  <1>6. SafeTrace' => Shown'
    BY <1>2, SafeTraceStep, EnterShown DEF Eclipse
  <1>7. QED
    BY <1>3, <1>4, <1>5, <1>6 DEF Eclipse

-----------------------------------------------------------------------------
(***************************************************************************)
(* Leaving SAFE MODE.  From the decision to leave until the last child has *)
(* obeyed, the battery stays recovered, and a fault of the CPU can only be *)
(* one that began in this period or the one before.                        *)
(***************************************************************************)
Leaving ==
  \/ obc.command = MODE_NORMAL /\ obc.pc = "signal"
  \/ \E c \in Children : "SIGUSR2" \in pending[c]

LeavesSafely ==
  Leaving => Recovered /\ (Since(2) => ~Hot /\ ~thermal.fault_active)

\* A broadcast of NORMAL begins where watchdog() decides to leave SAFE MODE.
LEMMA LeavingStep ==
  ASSUME Paced, TypeOK, [Next]_vars, ~Leaving,
         ~(WatchdogSample /\ ExitCondition)
  PROVE  ~Leaving'
  <1>1. /\ ~(obc.command = MODE_NORMAL /\ obc.pc = "signal")
        /\ \A c \in Children : "SIGUSR2" \notin pending[c]
    BY DEF Leaving
  <1>2. SUFFICES /\ ~(obc'.command = MODE_NORMAL /\ obc'.pc = "signal")
                 /\ \A c \in Children : "SIGUSR2" \notin pending'[c]
    BY DEF Leaving
  <1>3. CASE WatchdogSample
    <2>1. UNCHANGED pending
      BY <1>3 DEF WatchdogSample
    <2>2. ~(obc'.command = MODE_NORMAL /\ obc'.pc = "signal")
      BY <1>1, <1>3 DEF WatchdogSample, Broadcast, TypeOK
    <2>3. QED
      BY <1>1, <2>1, <2>2
  <1>4. CASE SignalChild
    <2>1. obc.command = MODE_SAFE /\ obc'.command = MODE_SAFE
      BY <1>1, <1>4 DEF SignalChild, TypeOK
    <2>2. \A c \in Children : "SIGUSR2" \notin pending'[c]
      <3>1. CASE UNCHANGED pending
        BY <1>1, <3>1
      <3>2. CASE pending' = [pending EXCEPT
                               ![obc.next] = pending[obc.next] \cup {"SIGUSR1"}]
        BY <1>1, <3>2, ConstantTypes DEF TypeOK
      <3>3. SignalFor(obc.command) = "SIGUSR1"
        BY <2>1 DEF SignalFor
      <3>4. QED
        BY <1>4, <3>1, <3>2, <3>3 DEF SignalChild
    <2>3. QED
      BY <2>1, <2>2
  <1>5. CASE UpdateLock \/ UpdateStore \/ WatchdogLock
    <2>1. UNCHANGED pending /\ obc'.pc # "signal"
      BY <1>5 DEF UpdateLock, UpdateStore, WatchdogLock, TypeOK
    <2>2. QED
      BY <1>1, <2>1
  <1>6. ASSUME NEW p \in Processes, NEW s \in Signals, Deliver(p, s)
        PROVE  /\ ~(obc'.command = MODE_NORMAL /\ obc'.pc = "signal")
               /\ \A c \in Children : "SIGUSR2" \notin pending'[c]
    <2>1. UNCHANGED obc /\ pending' = [pending EXCEPT ![p] = pending[p] \ {s}]
      BY <1>6 DEF Deliver
    <2>2. QED
      BY <1>1, <2>1, ConstantTypes DEF TypeOK
  <1>7. CASE \/ NextPeriod \/ SolarTick \/ BatteryTick \/ SensorTick
             \/ PowerWriterLock \/ ThermalWriterLock \/ ThermalWriterPublish
             \/ PowerWriterPublish \/ CommsLock \/ CommsUnlock
             \/ UNCHANGED vars
    <2>1. UNCHANGED <<obc, pending>>
      BY <1>7 DEF NextPeriod, SolarTick, BatteryTick, SensorTick,
           PowerWriterLock, PowerWriterPublish, ThermalWriterLock,
           ThermalWriterPublish, CommsLock, CommsUnlock, vars
    <2>2. QED
      BY <1>1, <2>1
  <1>8. QED
    BY <1>3, <1>4, <1>5, <1>6, <1>7, PacedSteps DEF Next

\* What watchdog() reads when it decides to leave is true enough.
LEMMA ExitRecovered ==
  ASSUME Paced, TypeOK, BusHeat, Eclipse, ExitCondition
  PROVE  Recovered /\ (Since(2) => ~Hot /\ ~thermal.fault_active)
  <1>1. Shown
    BY DEF Eclipse, SafeTrace, ExitCondition
  <1>2. Recovered
    <2>1. bus.battery > BATTERY_WARNING /\ bus.battery <= power.battery
          /\ power.elapsed > ECLIPSE_END
      BY <1>1 DEF Shown, ExitCondition
    <2>2. {bus.battery, power.battery, BATTERY_WARNING} \subseteq Int
      BY TimelineTypes, ConstantTypes DEF TypeOK
    <2>3. QED
      BY <2>1, <2>2 DEF Recovered
  <1>3. bus.temp_cpu < TEMP_WARNING /\ bus.temp_cpu < TEMP_CRITICAL
    BY TimelineTypes, TimelineAssumption, TimelineNumbers DEF ExitCondition
  <1>4. QED
    BY <1>2, <1>3 DEF BusHeat, BusKnows

\* Every step keeps it, if every child handles its signals within a period.
LEMMA LeavesStep ==
  ASSUME Paced, Prompt = Children, TypeOK, Heat, BusHeat, Sun, Eclipse,
         LeavesSafely, [Next]_vars
  PROVE  LeavesSafely'
  <1>1. CASE NextPeriod
    <2>1. obc.pc = "sleep" /\ UNCHANGED <<obc, pending>>
          /\ \A c \in Children : pending[c] = {}
      BY <1>1 DEF NextPeriod, Quiet
    <2>2. ~Leaving'
      BY <2>1 DEF Leaving
    <2>3. QED
      BY <2>2 DEF LeavesSafely
  <1>2. CASE ~NextPeriod
    <2>1. SUFFICES ASSUME Leaving'
                   PROVE  Recovered' /\ (Since(2)' => ~Hot'
                                                      /\ ~thermal'.fault_active)
      BY DEF LeavesSafely
    <2>2. Recovered /\ (Since(2) => ~Hot /\ ~thermal.fault_active)
      BY <2>1, LeavingStep, ExitRecovered DEF LeavesSafely
    <2>3. Since(2)' <=> Since(2)
      BY <1>2, ClockStep
    <2>4. Since(2) => ~Hot' /\ ~thermal'.fault_active
      <3>1. CASE UNCHANGED thermal
        BY <2>2, <3>1 DEF Hot
      <3>2. CASE SensorTick
        BY <2>2, <3>2, BusKnowsSpike, HeatStep DEF StaysCool
      <3>3. QED
        BY <3>1, <3>2, ClockFrame
    <2>5. QED
      BY <2>2, <2>3, <2>4, RecoveredStep
  <1>3. QED
    BY <1>1, <1>2

LEMMA LeavesInvariant ==
  Paced /\ Prompt = Children => (Spec => [](Sun /\ LeavesSafely))
  <1> SUFFICES ASSUME Paced, Prompt = Children
               PROVE  Spec => [](Sun /\ LeavesSafely)
    OBVIOUS
  <1>1. Spec => []HeatInv
    BY HeatInvariant
  <1>2. Init => Sun /\ Eclipse
    BY SunInit, EclipseInit
  <1>3. Init => LeavesSafely
    <2>1. Init => ~Leaving
      BY ConstantTypes DEF Init, Leaving
    <2>2. QED
      BY <2>1 DEF LeavesSafely
  <1>4. HeatInv /\ Sun /\ Eclipse /\ LeavesSafely /\ [Next]_vars
          => Sun' /\ Eclipse' /\ LeavesSafely'
    BY SunStep, EclipseStep, LeavesStep DEF HeatInv
  <1>5. QED
    BY <1>1, <1>2, <1>3, <1>4, PTL DEF Spec

\* One step in which a child leaves SAFE MODE.
LEMMA LeaveStep ==
  ASSUME Paced, TypeOK, Heat, Sun, LeavesSafely, [Next]_vars,
         NEW c \in alive, flag[c] = MODE_SAFE, flag'[c] = MODE_NORMAL
  PROVE  /\ power.battery > BATTERY_WARNING /\ ~power.fault_active
         /\ thermal.fault_active
              => thermal.temp_cpu >= SPIKE_TEMP - COOLING_STEP
  <1>1. c \in Children
    BY DEF TypeOK
  <1>2. "SIGUSR2" \in pending[c]
    <2>1. flag' # flag
      OBVIOUS
    <2>2. PICK p \in Processes, s \in Signals : Deliver(p, s)
      BY <2>1 DEF Next, NextPeriod, SolarTick, BatteryTick, PowerWriterLock,
           PowerWriterPublish, SensorTick, ThermalWriterLock,
           ThermalWriterPublish, CommsLock, CommsUnlock, GroundCommand,
           WatchdogLock, WatchdogSample, SignalChild, UpdateLock,
           UpdateStore, Die, vars
    <2>3. c \in Processes /\ flag \in [Processes -> Modes]
      BY <1>1, ConstantTypes DEF TypeOK
    <2>4. s # "SIGUSR1"
      <3>1. s = "SIGUSR1" => flag' = [flag EXCEPT ![p] = MODE_SAFE]
        BY <2>2 DEF Deliver
      <3>2. flag' = [flag EXCEPT ![p] = MODE_SAFE] => flag'[c] = MODE_SAFE
        BY <2>3
      <3>3. QED
        BY <3>1, <3>2
    <2>5. flag' = [flag EXCEPT ![p] = MODE_NORMAL]
      BY <2>1, <2>2, <2>4 DEF Deliver
    <2>6. p = c
      BY <2>3, <2>5
    <2>7. QED
      BY <2>2, <2>4, <2>6 DEF Deliver
  <1>3. Recovered /\ (Since(2) => ~thermal.fault_active)
    BY <1>1, <1>2 DEF Leaving, LeavesSafely
  <1>4. power.battery > BATTERY_WARNING /\ ~power.fault_active
    <2>1. power.battery \in Nat /\ BATTERY_WARNING \in Nat
      BY PowerNumbers, TimelineTypes
    <2>2. QED
      BY <1>3, <2>1 DEF Recovered, Sun
  <1>5. ASSUME thermal.fault_active
        PROVE  thermal.temp_cpu >= SPIKE_TEMP - COOLING_STEP
    <2>1. thermal.elapsed >= THERMAL_SPIKE
      BY <1>5, TimelineNumbers, TimelineTypes DEF Heat
    <2>2. ~(Tick >= THERMAL_SPIKE + 2)
      BY <1>3, <1>5 DEF Since
    <2>3. Tick >= thermal.elapsed
      BY TimelineNumbers DEF Tick
    <2>4. thermal.elapsed = THERMAL_SPIKE \/ thermal.elapsed = THERMAL_SPIKE + 1
      BY <2>1, <2>2, <2>3, TimelineNumbers, TimelineTypes
    <2>5. Cooled(0) /\ Cooled(1)
      BY DEF Heat
    <2>6. QED
      BY <2>4, <2>5, TimelineNumbers, TimelineTypes DEF Cooled
  <1>6. QED
    BY <1>4, <1>5

(***************************************************************************)
(* Nobody leaves SAFE MODE early, whatever the order in which the threads  *)
(* run within a period, for any eclipse, drains and charges: if every      *)
(* child handles its signals in time, the battery has recovered when a     *)
(* child obeys, and a CPU that overheats has only just started to.         *)
(***************************************************************************)
THEOREM RecoveredBeforeLeaving ==
  Paced /\ Prompt = Children => (Spec => LeavesAfterRecovery)
  <1> SUFFICES ASSUME Paced, Prompt = Children
               PROVE  Spec => LeavesAfterRecovery
    OBVIOUS
  <1>1. Spec => [](HeatInv /\ Sun /\ LeavesSafely)
    BY HeatInvariant, LeavesInvariant, PTL
  <1>2. HeatInv /\ Sun /\ LeavesSafely /\ [Next]_vars
          => [\A c \in alive : flag[c] = MODE_SAFE /\ flag'[c] = MODE_NORMAL
                => /\ power.battery > BATTERY_WARNING /\ ~power.fault_active
                   /\ thermal.fault_active
                        => thermal.temp_cpu >= SPIKE_TEMP - COOLING_STEP]_vars
    BY LeaveStep DEF HeatInv
  <1>3. QED
    BY <1>1, <1>2, PTL DEF Spec, LeavesAfterRecovery
=============================================================================
