--------------------------- MODULE SafeModeProofs ---------------------------
(***************************************************************************)
(* For any number of children, any thresholds, drains and temperatures,    *)
(* and any sets of children that are slow or may die: the variables keep   *)
(* their types, the bus semaphore excludes, a prompt child that is done    *)
(* with its signals runs in the commanded mode, and SafeMode implements    *)
(* ModeAuthority.                                                          *)
(***************************************************************************)
EXTENDS SafeMode, TLAPS

USE DEF OBC, POWER, THERMAL, COMMS, MODE_NORMAL, MODE_SAFE, Modes, Children,
        Processes, Signals

-----------------------------------------------------------------------------
(***************************************************************************)
(* Types                                                                   *)
(***************************************************************************)

\* The numbers among the constants, one by one.
LEMMA ConstantTypes ==
  /\ N \in Nat /\ N >= 3
  /\ BATTERY_FULL \in Nat /\ ECLIPSE_END \in Nat
  /\ SPIKE_TEMP \in Nat /\ COOLING_STEP \in Nat /\ COOLING_FLOOR \in Nat
  /\ THERMAL_SPIKE \in Nat /\ COOLING_TICKS \in Nat
  BY ChildrenAssumption, PowerAssumption, ThermalAssumption

\* One tick of battery_thread stays between 0 and 100 percent.
LEMMA NextBatteryType ==
  ASSUME TypeOK
  PROVE  NextBattery \subseteq 0..BATTERY_FULL
  <1>1. power.battery \in 0..BATTERY_FULL /\ power.solar \in BOOLEAN
    BY DEF TypeOK
  <1>2. QED
    BY <1>1, PowerAssumption DEF NextBattery, Lowest

\* One tick of sensor_thread leaves a temperature.
LEMMA NextTempsType ==
  ASSUME TypeOK, NEW t \in Nat
  PROVE  NextTemps(t) \subseteq Nat
  <1>1. thermal.temp_cpu \in Nat
    BY DEF TypeOK
  <1>2. COOLING_STEP \in Nat /\ COOLING_FLOOR \in Nat /\ SPIKE_TEMP \in Nat
    BY ConstantTypes
  <1>3. ASSUME ~(thermal.temp_cpu < COOLING_FLOOR + COOLING_STEP)
        PROVE  thermal.temp_cpu - COOLING_STEP \in Nat
    BY <1>1, <1>2, <1>3
  <1>4. NormalTemps \subseteq Nat
    BY ThermalAssumption
  <1>5. QED
    BY <1>2, <1>3, <1>4 DEF NextTemps

\* The initial values have their types.
LEMMA TypeInit == Init => TypeOK
  <1>1. /\ BATTERY_FULL \in 0..BATTERY_FULL /\ 0 \in 0..(ECLIPSE_END + 1)
        /\ 0 \in 0..(THERMAL_SPIKE + COOLING_TICKS) /\ 1 \in 1..N
    BY ConstantTypes
  <1>2. Init => /\ power \in [solar : BOOLEAN, battery : 0..BATTERY_FULL,
                             fault_active : BOOLEAN,
                             elapsed : 0..(ECLIPSE_END + 1)]
                /\ thermal \in [temp_cpu : Nat, fault_active : BOOLEAN,
                               elapsed : 0..(THERMAL_SPIKE + COOLING_TICKS)]
                /\ bus \in [solar : BOOLEAN, battery : 0..BATTERY_FULL,
                           temp_cpu : Nat, safe_mode : Modes]
    BY <1>1 DEF Init
  <1>3. Init => /\ obc \in [pc : {"sleep", "sample", "signal", "update",
                                 "store"}, command : Modes, next : Children]
                /\ report \in [{POWER, THERMAL}
                                -> {"NONE", "INFO", "WARNING", "CRITICAL"}]
                /\ pending \in [Processes -> SUBSET Signals]
                /\ flag \in [Processes -> Modes]
    BY <1>1 DEF Init
  <1>4. QED
    BY <1>2, <1>3 DEF Init, TypeOK

\* Every step keeps the types.
LEMMA TypeStep == TypeOK /\ [Next]_vars => TypeOK'
  <1> SUFFICES ASSUME TypeOK, [Next]_vars PROVE TypeOK'
    OBVIOUS
  <1>1. CASE NextPeriod
    BY <1>1 DEF NextPeriod, TypeOK
  <1>2. CASE SolarTick
    <2>1. power.elapsed + 1 \in Nat /\ ECLIPSE_END + 1 \in Nat
      BY ConstantTypes DEF TypeOK
    <2>2. Lowest(power.elapsed + 1, ECLIPSE_END + 1) \in 0..(ECLIPSE_END + 1)
      BY <2>1 DEF Lowest
    <2>3. QED
      BY <1>2, <2>2 DEF SolarTick, TypeOK, Ran, Threads
  <1>3. CASE BatteryTick
    <2>1. PICK batt \in NextBattery :
            power' = [power EXCEPT !.battery = batt,
                        !.fault_active = \/ power.fault_active
                                              /\ batt <= BATTERY_WARNING
                                         \/ batt <= BATTERY_CRITICAL]
      BY <1>3 DEF BatteryTick
    <2>2. batt \in 0..BATTERY_FULL
      BY NextBatteryType
    <2>3. power' \in [solar : BOOLEAN, battery : 0..BATTERY_FULL,
                      fault_active : BOOLEAN, elapsed : 0..(ECLIPSE_END + 1)]
      BY <2>1, <2>2 DEF TypeOK
    <2>4. report' \in [{POWER, THERMAL}
                         -> {"NONE", "INFO", "WARNING", "CRITICAL"}]
      BY <1>3 DEF BatteryTick, TypeOK
    <2>5. QED
      BY <1>3, <2>3, <2>4 DEF BatteryTick, TypeOK, Ran, Threads
  <1>4. CASE PowerWriterLock
    BY <1>4 DEF PowerWriterLock, SemWait, TypeOK
  <1>5. CASE PowerWriterPublish
    <2>1. flag[POWER] \in Modes
      BY ConstantTypes DEF TypeOK
    <2>2. bus' \in [solar : BOOLEAN, battery : 0..BATTERY_FULL,
                    temp_cpu : Nat, safe_mode : Modes]
      BY <1>5, <2>1 DEF PowerWriterPublish, TypeOK
    <2>3. QED
      BY <1>5, <2>2 DEF PowerWriterPublish, SemPost, TypeOK, Ran, Threads
  <1>6. CASE SensorTick
    <2> DEFINE t == Lowest(thermal.elapsed + 1, THERMAL_SPIKE + COOLING_TICKS)
    <2>1. t \in 0..(THERMAL_SPIKE + COOLING_TICKS)
      <3>1. thermal.elapsed + 1 \in Nat /\ THERMAL_SPIKE + COOLING_TICKS \in Nat
        BY ConstantTypes DEF TypeOK
      <3>2. QED
        BY <3>1 DEF Lowest
    <2>2. PICK temp \in NextTemps(t) :
            thermal' = [temp_cpu |-> temp,
                        fault_active |-> \/ thermal.fault_active
                                              /\ temp >= TEMP_WARNING
                                         \/ temp >= TEMP_CRITICAL,
                        elapsed |-> t]
      BY <1>6 DEF SensorTick
    <2>3. temp \in Nat
      BY <2>1, NextTempsType
    <2>4. thermal' \in [temp_cpu : Nat, fault_active : BOOLEAN,
                        elapsed : 0..(THERMAL_SPIKE + COOLING_TICKS)]
      BY <2>1, <2>2, <2>3
    <2>5. report' \in [{POWER, THERMAL}
                         -> {"NONE", "INFO", "WARNING", "CRITICAL"}]
      BY <1>6 DEF SensorTick, TypeOK
    <2>6. QED
      BY <1>6, <2>4, <2>5 DEF SensorTick, TypeOK, Ran, Threads
  <1>7. CASE ThermalWriterLock
    BY <1>7 DEF ThermalWriterLock, SemWait, TypeOK
  <1>8. CASE ThermalWriterPublish
    BY <1>8 DEF ThermalWriterPublish, SemPost, TypeOK, Ran, Threads
  <1>9. CASE CommsLock
    BY <1>9 DEF CommsLock, SemWait, TypeOK
  <1>10. CASE CommsUnlock
    BY <1>10 DEF CommsUnlock, SemPost, TypeOK
  <1>11. CASE GroundCommand
    <2>1. PICK s \in Signals : pending' = [pending EXCEPT ![0] = @ \cup {s}]
      BY <1>11 DEF GroundCommand
    <2>2. pending' \in [Processes -> SUBSET Signals]
      BY <2>1 DEF TypeOK
    <2>3. QED
      BY <1>11, <2>2 DEF GroundCommand, TypeOK
  <1>12. CASE WatchdogLock
    BY <1>12 DEF WatchdogLock, SemWait, TypeOK
  <1>13. CASE WatchdogSample
    <2>1. obc' \in [pc : {"sleep", "sample", "signal", "update", "store"},
                    command : Modes, next : Children]
      <3>1. 1 \in 1..N
        BY ConstantTypes
      <3>2. CASE \E m \in Modes : Broadcast(m)
        BY <3>1, <3>2 DEF Broadcast
      <3>3. CASE obc' = [obc EXCEPT !.pc = "sleep"]
        BY <3>3 DEF TypeOK
      <3>4. QED
        BY <1>13, <3>2, <3>3 DEF WatchdogSample
    <2>2. ran' \subseteq Threads
      BY <1>13 DEF WatchdogSample, Broadcast, TypeOK, Ran, Threads
    <2>3. QED
      BY <1>13, <2>1, <2>2 DEF WatchdogSample, SemPost, TypeOK
  <1>14. CASE SignalChild
    <2>1. SignalFor(obc.command) \in Signals
      BY DEF SignalFor
    <2>2. pending' \in [Processes -> SUBSET Signals]
      BY <1>14, <2>1 DEF SignalChild, TypeOK
    <2>3. obc' \in [pc : {"sleep", "sample", "signal", "update", "store"},
                    command : Modes, next : Children]
      <3>1. CASE obc.next = N
        BY <1>14, <3>1 DEF SignalChild, TypeOK
      <3>2. CASE obc.next # N
        <4>1. obc.next + 1 \in 1..N
          BY <3>2, ConstantTypes DEF TypeOK
        <4>2. obc' = [obc EXCEPT !.next = obc.next + 1]
          BY <1>14, <3>2 DEF SignalChild
        <4>3. QED
          BY <4>1, <4>2 DEF TypeOK
      <3>3. QED
        BY <3>1, <3>2
    <2>4. QED
      BY <1>14, <2>2, <2>3 DEF SignalChild, TypeOK
  <1>15. CASE UpdateLock
    BY <1>15 DEF UpdateLock, SemWait, TypeOK
  <1>16. CASE UpdateStore
    BY <1>16 DEF UpdateStore, SemPost, TypeOK, Ran, Threads
  <1>17. CASE \E p \in Processes, s \in Signals : Deliver(p, s)
    <2>1. PICK p \in Processes, s \in Signals : Deliver(p, s)
      BY <1>17
    <2>2. pending' \in [Processes -> SUBSET Signals]
      BY <2>1 DEF Deliver, TypeOK
    <2>3. flag' \in [Processes -> Modes] /\ restart' \in BOOLEAN
      BY <2>1 DEF Deliver, TypeOK
    <2>4. QED
      BY <2>1, <2>2, <2>3 DEF Deliver, TypeOK
  <1>18. CASE \E c \in Children : Die(c)
    BY <1>18 DEF Die, TypeOK
  <1>19. CASE UNCHANGED vars
    BY <1>19 DEF vars, TypeOK
  <1>20. QED
    BY <1>1, <1>2, <1>3, <1>4, <1>5, <1>6, <1>7, <1>8, <1>9, <1>10, <1>11,
       <1>12, <1>13, <1>14, <1>15, <1>16, <1>17, <1>18, <1>19 DEF Next

\* The types of SafeMode hold whatever the constants.
THEOREM TypeCorrect == Spec => []TypeOK
  BY TypeInit, TypeStep, PTL DEF Spec

-----------------------------------------------------------------------------
(***************************************************************************)
(* Exclusion on the bus.  BusExclusion is inductive as it stands: only a   *)
(* sem_wait that finds the value 1 adds a holder, when there is none.      *)
(***************************************************************************)

\* What sem_wait does to the first two conjuncts of BusExclusion.
LEMMA SemWaitExcludes ==
  ASSUME BusExclusion, NEW p, SemWait(p)
  PROVE  sem' = 0 /\ holders = {} /\ holders' = {p}
  BY DEF BusExclusion, SemWait

\* What sem_post does to them, when its caller holds the semaphore.
LEMMA SemPostExcludes ==
  ASSUME BusExclusion, NEW p \in holders, SemPost(p)
  PROVE  sem' = 1 /\ holders = {p} /\ holders' = {}
  BY DEF BusExclusion, SemPost

\* A step that does not touch the semaphore keeps the exclusion.
LEMMA ExclusionFrame ==
  ASSUME BusExclusion, UNCHANGED <<sem, holders>>,
         obc'.pc \in {"sample", "store"} <=> obc.pc \in {"sample", "store"}
  PROVE  BusExclusion'
  BY DEF BusExclusion

\* Every step keeps the exclusion.
LEMMA ExclusionStep == TypeOK /\ BusExclusion /\ [Next]_vars => BusExclusion'
  <1> SUFFICES ASSUME TypeOK, BusExclusion, [Next]_vars PROVE BusExclusion'
    OBVIOUS
  <1>1. ASSUME NEW p \in {POWER, THERMAL, COMMS}, SemWait(p), UNCHANGED obc
        PROVE  BusExclusion'
    BY <1>1, SemWaitExcludes DEF BusExclusion
  <1>2. ASSUME NEW p \in {POWER, THERMAL, COMMS}, p \in holders, SemPost(p),
               UNCHANGED obc
        PROVE  BusExclusion'
    BY <1>2, SemPostExcludes DEF BusExclusion
  <1>3. CASE PowerWriterLock \/ ThermalWriterLock \/ CommsLock
    BY <1>1, <1>3 DEF PowerWriterLock, ThermalWriterLock, CommsLock
  <1>4. CASE PowerWriterPublish \/ ThermalWriterPublish \/ CommsUnlock
    BY <1>2, <1>4 DEF PowerWriterPublish, ThermalWriterPublish, CommsUnlock
  <1>5. CASE WatchdogLock
    <2>1. obc'.pc = "sample" /\ SemWait(OBC)
      BY <1>5 DEF WatchdogLock, TypeOK
    <2>2. QED
      BY <2>1, SemWaitExcludes DEF BusExclusion
  <1>6. CASE WatchdogSample
    <2>1. obc.pc = "sample" /\ SemPost(OBC)
      BY <1>6 DEF WatchdogSample
    <2>2. obc'.pc \in {"signal", "sleep"}
      BY <1>6 DEF WatchdogSample, Broadcast, TypeOK
    <2>3. OBC \in holders
      BY <2>1 DEF BusExclusion
    <2>4. QED
      BY <2>1, <2>2, <2>3, SemPostExcludes DEF BusExclusion
  <1>7. CASE SignalChild
    <2>1. obc'.pc \in {"signal", "update"} /\ obc.pc = "signal"
      BY <1>7 DEF SignalChild, TypeOK
    <2>2. QED
      BY <1>7, <2>1, ExclusionFrame DEF SignalChild
  <1>8. CASE UpdateLock
    <2>1. obc'.pc = "store" /\ SemWait(OBC)
      BY <1>8 DEF UpdateLock, TypeOK
    <2>2. QED
      BY <2>1, SemWaitExcludes DEF BusExclusion
  <1>9. CASE UpdateStore
    <2>1. obc.pc = "store" /\ obc'.pc = "sleep" /\ SemPost(OBC)
      BY <1>9 DEF UpdateStore, TypeOK
    <2>2. OBC \in holders
      BY <2>1 DEF BusExclusion
    <2>3. QED
      BY <2>1, <2>2, SemPostExcludes DEF BusExclusion
  <1>10. CASE NextPeriod \/ SolarTick \/ BatteryTick \/ SensorTick
    BY <1>10, ExclusionFrame
       DEF NextPeriod, SolarTick, BatteryTick, SensorTick
  <1>11. CASE \/ GroundCommand
              \/ \E p \in Processes, s \in Signals : Deliver(p, s)
              \/ \E c \in Children : Die(c)
    BY <1>11, ExclusionFrame DEF GroundCommand, Deliver, Die
  <1>12. CASE UNCHANGED vars
    BY <1>12, ExclusionFrame DEF vars
  <1>13. QED
    BY <1>3, <1>4, <1>5, <1>6, <1>7, <1>8, <1>9, <1>10, <1>11, <1>12 DEF Next

\* The bus semaphore excludes, even when its holders may die.
THEOREM Exclusion == Spec => []BusExclusion
  <1>1. Init => BusExclusion
    BY DEF Init, BusExclusion
  <1>2. QED
    BY <1>1, ExclusionStep, TypeCorrect, PTL DEF Spec

-----------------------------------------------------------------------------
(***************************************************************************)
(* Agreement.  SettledAgreement alone is not inductive: a step that        *)
(* handles an old signal, or a new command to a child that still has one   *)
(* pending, would break it.  OnlyCurrentSignals excludes both.             *)
(***************************************************************************)
Agreement == OnlyCurrentSignals /\ SettledAgreement

\* The two conjuncts of Agreement, for one child.
AgreesWith(c) ==
  /\ pending[c] \subseteq {SignalFor(obc.command)}
  /\ ~Told(c) => pending[c] = {}
  /\ obc.pc = "sample" => pending[c] = {}
  /\ Told(c) /\ pending[c] = {} => flag[c] = obc.command

\* Agreement is what holds of each living prompt child.
LEMMA AgreementByChild ==
  Agreement <=> \A c \in alive \cap Prompt : AgreesWith(c)
  BY DEF Agreement, AgreesWith, OnlyCurrentSignals, SettledAgreement

\* A step that leaves the OBC and the signals alone keeps the agreement.
LEMMA AgreementFrame ==
  ASSUME NEW c, AgreesWith(c), UNCHANGED <<obc, pending, flag>>
  PROVE  AgreesWith(c)'
  BY DEF AgreesWith, Told

\* Every step keeps the agreement.
LEMMA AgreementStep == TypeOK /\ Agreement /\ [Next]_vars => Agreement'
  <1> SUFFICES ASSUME TypeOK, Agreement, [Next]_vars,
                      NEW c \in alive' \cap Prompt
               PROVE  AgreesWith(c)'
    BY DEF Agreement, AgreesWith, OnlyCurrentSignals, SettledAgreement
  <1>1. c \in alive /\ c \in 1..N
    BY DEF TypeOK, Next, NextPeriod, SolarTick, BatteryTick, PowerWriterLock,
       PowerWriterPublish, SensorTick, ThermalWriterLock,
       ThermalWriterPublish, CommsLock, CommsUnlock, GroundCommand,
       WatchdogLock, WatchdogSample, SignalChild, UpdateLock, UpdateStore,
       Deliver, Die, vars
  <1>2. AgreesWith(c)
    BY <1>1, AgreementByChild
  <1>3. CASE WatchdogLock
    <2>1. pending[c] = {} /\ obc.pc = "sleep"
      BY <1>1, <1>3 DEF WatchdogLock, Quiet
    <2>2. obc'.pc = "sample" /\ obc'.command = obc.command
          /\ UNCHANGED <<pending, flag>>
      BY <1>3 DEF WatchdogLock, TypeOK
    <2>3. QED
      BY <1>2, <2>1, <2>2 DEF AgreesWith, Told
  <1>4. CASE WatchdogSample
    <2>1. obc.pc = "sample" /\ pending[c] = {} /\ flag[c] = obc.command
      BY <1>2, <1>4 DEF WatchdogSample, AgreesWith, Told
    <2>2. UNCHANGED <<pending, flag>>
      BY <1>4 DEF WatchdogSample
    <2>3. CASE \E m \in Modes : Broadcast(m)
      <3>1. obc'.pc = "signal" /\ obc'.next = 1
        BY <2>3 DEF Broadcast
      <3>2. QED
        BY <1>1, <2>1, <2>2, <3>1, ConstantTypes DEF AgreesWith, Told
    <2>4. CASE obc' = [obc EXCEPT !.pc = "sleep"]
      <3>1. obc'.pc = "sleep" /\ obc'.command = obc.command
        BY <2>4 DEF TypeOK
      <3>2. QED
        BY <2>1, <2>2, <3>1 DEF AgreesWith, Told
    <2>5. QED
      BY <1>4, <2>3, <2>4 DEF WatchdogSample
  <1>5. CASE SignalChild
    <2>1. obc.pc = "signal" /\ obc.next \in 1..N /\ UNCHANGED flag
          /\ obc'.command = obc.command
      BY <1>5 DEF SignalChild, TypeOK
    <2>2. CASE c = obc.next
      <3>1. pending[c] = {}
        BY <1>2, <2>1, <2>2, ConstantTypes DEF AgreesWith, Told
      <3>2. pending'[c] = {SignalFor(obc.command)}
        BY <1>1, <1>5, <2>2, <3>1 DEF SignalChild, TypeOK
      <3>3. Told(c)' /\ obc'.pc # "sample"
        <4>1. CASE obc.next = N
          BY <1>5, <4>1 DEF SignalChild, TypeOK, Told
        <4>2. CASE obc.next # N
          <5>1. obc'.pc = "signal" /\ obc'.next = obc.next + 1
            BY <1>5, <4>2 DEF SignalChild, TypeOK
          <5>2. QED
            BY <2>1, <2>2, <5>1, ConstantTypes DEF Told
        <4>3. QED
          BY <4>1, <4>2
      <3>4. QED
        BY <2>1, <3>2, <3>3 DEF AgreesWith, SignalFor
    <2>3. CASE c # obc.next
      <3>1. pending'[c] = pending[c]
        BY <1>1, <1>5, <2>3 DEF SignalChild, TypeOK
      <3>2. Told(c)' <=> Told(c)
        <4>1. CASE obc.next = N
          BY <1>1, <1>5, <2>1, <2>3, <4>1, ConstantTypes
             DEF SignalChild, TypeOK, Told
        <4>2. CASE obc.next # N
          <5>1. obc'.pc = "signal" /\ obc'.next = obc.next + 1
            BY <1>5, <4>2 DEF SignalChild, TypeOK
          <5>2. QED
            BY <1>1, <2>1, <2>3, <5>1, ConstantTypes DEF Told
        <4>3. QED
          BY <4>1, <4>2
      <3>3. obc'.pc # "sample"
        BY <1>5 DEF SignalChild, TypeOK
      <3>4. QED
        BY <1>2, <2>1, <3>1, <3>2, <3>3 DEF AgreesWith
    <2>4. QED
      BY <2>2, <2>3
  <1>6. CASE UpdateLock \/ UpdateStore
    <2>1. /\ obc.pc # "signal" /\ obc'.pc \notin {"signal", "sample"}
          /\ obc'.command = obc.command /\ UNCHANGED <<pending, flag>>
      BY <1>6 DEF UpdateLock, UpdateStore, TypeOK
    <2>2. QED
      BY <1>2, <2>1 DEF AgreesWith, Told
  <1>7. ASSUME NEW p \in Processes, NEW s \in Signals, Deliver(p, s)
        PROVE  AgreesWith(c)'
    <2>1. CASE p = c
      <3>1. s = SignalFor(obc.command) /\ UNCHANGED obc /\ p # OBC
        BY <1>1, <1>2, <1>7, <2>1 DEF Deliver, AgreesWith
      <3>2. pending'[c] = {} /\ Told(c)'
        BY <1>1, <1>2, <1>7, <2>1, <3>1 DEF Deliver, AgreesWith, TypeOK, Told
      <3>3. flag'[c] = obc.command
        <4>1. CASE obc.command = MODE_SAFE
          BY <1>1, <1>7, <2>1, <3>1, <4>1 DEF Deliver, SignalFor, TypeOK
        <4>2. CASE obc.command = MODE_NORMAL
          <5>1. s = "SIGUSR2" /\ p # OBC
            BY <3>1, <4>2 DEF SignalFor
          <5>2. flag' = [flag EXCEPT ![p] = MODE_NORMAL]
            BY <1>7, <5>1 DEF Deliver
          <5>3. c \in 0..N /\ flag \in [0..N -> {0, 1}]
            BY <1>1, ConstantTypes DEF TypeOK
          <5>4. QED
            BY <2>1, <4>2, <5>2, <5>3
        <4>3. QED
          BY <4>1, <4>2 DEF TypeOK
      <3>4. QED
        BY <3>1, <3>2, <3>3 DEF AgreesWith
    <2>2. CASE p # c
      <3>1. pending'[c] = pending[c] /\ UNCHANGED obc
        BY <1>1, <1>7, <2>2 DEF Deliver, TypeOK
      <3>2. flag'[c] = flag[c]
        <4>1. \/ UNCHANGED flag
              \/ flag' = [flag EXCEPT ![p] = MODE_SAFE]
              \/ flag' = [flag EXCEPT ![p] = MODE_NORMAL]
          BY <1>7 DEF Deliver
        <4>2. c \in 0..N /\ flag \in [0..N -> {0, 1}]
          BY <1>1, ConstantTypes DEF TypeOK
        <4>3. QED
          BY <2>2, <4>1, <4>2
      <3>3. QED
        BY <1>2, <3>1, <3>2 DEF AgreesWith, Told
    <2>3. QED
      BY <2>1, <2>2
  <1>8. ASSUME NEW d \in Children, Die(d)
        PROVE  AgreesWith(c)'
    <2>1. c # d
      BY <1>8 DEF Die
    <2>2. pending'[c] = pending[c] /\ UNCHANGED <<obc, flag>>
      BY <1>1, <1>8, <2>1 DEF Die, TypeOK
    <2>3. QED
      BY <1>2, <2>2 DEF AgreesWith, Told
  <1>9. CASE GroundCommand
    <2>1. pending'[c] = pending[c] /\ UNCHANGED <<obc, flag>>
      BY <1>1, <1>9 DEF GroundCommand, TypeOK
    <2>2. QED
      BY <1>2, <2>1 DEF AgreesWith, Told
  <1>10. CASE \/ NextPeriod \/ SolarTick \/ BatteryTick \/ SensorTick
              \/ PowerWriterLock \/ ThermalWriterLock \/ CommsLock
              \/ PowerWriterPublish \/ ThermalWriterPublish \/ CommsUnlock
              \/ UNCHANGED vars
    BY <1>2, <1>10, AgreementFrame
       DEF NextPeriod, SolarTick, BatteryTick, SensorTick, PowerWriterLock,
           ThermalWriterLock, CommsLock, PowerWriterPublish,
           ThermalWriterPublish, CommsUnlock, vars
  <1>11. QED
    BY <1>3, <1>4, <1>5, <1>6, <1>7, <1>8, <1>9, <1>10 DEF Next

\* Nobody has been told anything yet, and everyone runs in NORMAL mode.
LEMMA AgreementInit == Init => Agreement
  <1>1. Init => \A c \in alive : AgreesWith(c)
    BY DEF Init, AgreesWith, Told
  <1>2. QED
    BY <1>1, AgreementByChild

\* Agreement is an invariant: the induction.
LEMMA AgreementInvariant == Spec => []Agreement
  BY AgreementInit, AgreementStep, TypeCorrect, PTL DEF Spec

(***************************************************************************)
(* A prompt child that has been signalled and has handled its signals runs *)
(* in the mode last commanded, whichever the prompt children are.          *)
(***************************************************************************)
THEOREM SettledChildrenAgree == Spec => []SettledAgreement
  BY AgreementInvariant, PTL DEF Agreement

\* Every pending signal of a child belongs to the broadcast under way.
THEOREM NoOldSignals == Spec => []OnlyCurrentSignals
  BY AgreementInvariant, PTL DEF Agreement

-----------------------------------------------------------------------------
(***************************************************************************)
(* No relapse.  Once the mission is over, no sensor and no copy of one on  *)
(* the bus can start a broadcast, and when all are in NORMAL mode nobody   *)
(* has anything else to publish.                                           *)
(***************************************************************************)
\* What the sensors show when nothing is wrong is no fault.
Uneventful == COOLING_TICKS >= 1 /\ \A t \in NormalTemps : t < TEMP_CRITICAL

\* After the eclipse the sun is out.
SunAfterEclipse == power.elapsed > ECLIPSE_END => power.solar

LEMMA SunAfterEclipseInit == Init => SunAfterEclipse
  BY PowerAssumption DEF Init, SunAfterEclipse

\* Which steps change the power, the temperatures, the bus and the flags.
LEMMA SensorFrame ==
  ASSUME [Next]_vars
  PROVE  /\ SensorTick \/ UNCHANGED thermal
         /\ SolarTick \/ BatteryTick \/ UNCHANGED power
         /\ \/ PowerWriterPublish \/ ThermalWriterPublish \/ UpdateStore
            \/ UNCHANGED bus
  BY DEF Next, NextPeriod, SolarTick, BatteryTick, PowerWriterLock,
     PowerWriterPublish, SensorTick, ThermalWriterLock, ThermalWriterPublish,
     CommsLock, CommsUnlock, GroundCommand, WatchdogLock, WatchdogSample,
     SignalChild, UpdateLock, UpdateStore, Deliver, Die, vars

\* The panels work again when the clock of the eclipse has passed its end, and
\* then the battery loses nothing.
LEMMA SunAfterEclipseStep ==
  ASSUME TypeOK, SunAfterEclipse, [Next]_vars
  PROVE  /\ SunAfterEclipse'
         /\ power.elapsed > ECLIPSE_END
              => /\ power'.elapsed > ECLIPSE_END
                 /\ power'.battery >= power.battery
  <1>1. /\ power.elapsed \in 0..(ECLIPSE_END + 1)
        /\ power.battery \in 0..BATTERY_FULL
        /\ ECLIPSE_START \in Nat /\ ECLIPSE_END \in Nat /\ BATTERY_FULL \in Nat
    BY PowerAssumption DEF TypeOK
  <1>2. CASE UNCHANGED power
    BY <1>1, <1>2 DEF SunAfterEclipse
  <1>3. CASE SolarTick
    <2> DEFINE t   == Lowest(power.elapsed + 1, ECLIPSE_END + 1)
               sun == t \notin ECLIPSE_START..ECLIPSE_END
    <2>1. power' = [power EXCEPT !.elapsed = t, !.solar = sun]
      BY <1>3 DEF SolarTick
    <2>2. t \in Nat /\ t >= power.elapsed
      BY <1>1 DEF Lowest
    <2>3. t > ECLIPSE_END => sun
      BY <1>1, <2>2
    <2> HIDE DEF t, sun
    <2>4. /\ power'.elapsed = t /\ power'.battery = power.battery
          /\ power'.solar = sun
      BY <2>1 DEF TypeOK
    <2>5. QED
      BY <1>1, <2>2, <2>3, <2>4 DEF SunAfterEclipse
  <1>4. CASE BatteryTick
    <2>1. PICK batt \in NextBattery :
            power' = [power EXCEPT !.battery = batt,
                        !.fault_active = \/ power.fault_active
                                              /\ batt <= BATTERY_WARNING
                                         \/ batt <= BATTERY_CRITICAL]
      BY <1>4 DEF BatteryTick
    <2>2. /\ power'.battery = batt /\ power'.elapsed = power.elapsed
          /\ power'.solar = power.solar
      BY <2>1 DEF TypeOK
    <2>3. power.solar => batt >= power.battery
      <3>1. SUFFICES ASSUME power.solar PROVE batt >= power.battery
        OBVIOUS
      <3>2. PICK g \in Charges : batt = Lowest(power.battery + g, BATTERY_FULL)
        BY <3>1 DEF NextBattery
      <3>3. g \in Nat
        BY PowerAssumption
      <3>4. QED
        BY <1>1, <3>2, <3>3 DEF Lowest
    <2>4. QED
      BY <2>2, <2>3 DEF SunAfterEclipse
  <1>5. QED
    BY <1>2, <1>3, <1>4, SensorFrame

\* Once the mission is over it stays over.
LEMMA MissionStaysOver ==
  ASSUME Uneventful, TypeOK, SunAfterEclipse, [Next]_vars, MissionOver
  PROVE  MissionOver'
  <1>1. /\ ECLIPSE_END \in Nat /\ BATTERY_CRITICAL \in Nat
        /\ THERMAL_SPIKE \in Nat /\ COOLING_TICKS \in Nat
    BY PowerAssumption, ThermalAssumption
  <1>2. power'.elapsed > ECLIPSE_END /\ power'.battery > BATTERY_CRITICAL
    <2>1. power.battery \in Nat /\ power'.battery \in Nat
      BY TypeStep, ConstantTypes DEF TypeOK
    <2>2. QED
      BY <1>1, <2>1, SunAfterEclipseStep DEF MissionOver
  <1>3. /\ thermal'.elapsed = THERMAL_SPIKE + COOLING_TICKS
        /\ thermal'.temp_cpu < TEMP_CRITICAL
    <2>1. CASE UNCHANGED thermal
      BY <2>1 DEF MissionOver
    <2>2. CASE SensorTick
      <3> DEFINE t == Lowest(thermal.elapsed + 1, THERMAL_SPIKE + COOLING_TICKS)
      <3>1. t = THERMAL_SPIKE + COOLING_TICKS
        BY <1>1 DEF MissionOver, Lowest
      <3>2. PICK temp \in NextTemps(t) :
              thermal' = [temp_cpu |-> temp,
                          fault_active |-> \/ thermal.fault_active
                                                /\ temp >= TEMP_WARNING
                                           \/ temp >= TEMP_CRITICAL,
                          elapsed |-> t]
        BY <2>2 DEF SensorTick
      <3>3. t # THERMAL_SPIKE /\ ~(t < THERMAL_SPIKE + COOLING_TICKS)
        BY <1>1, <3>1 DEF Uneventful
      <3>4. temp \in NormalTemps
        BY <3>3 DEF NextTemps
      <3>5. thermal'.elapsed = t /\ thermal'.temp_cpu = temp
        BY <3>2
      <3>6. QED
        BY <3>1, <3>4, <3>5 DEF Uneventful
    <2>3. QED
      BY <2>1, <2>2, SensorFrame
  <1>4. bus'.battery > BATTERY_CRITICAL /\ bus'.temp_cpu < TEMP_CRITICAL
    <2>1. CASE PowerWriterPublish
      <3>1. bus'.battery = power.battery /\ bus'.temp_cpu = bus.temp_cpu
        BY <2>1 DEF PowerWriterPublish, TypeOK
      <3>2. QED
        BY <3>1 DEF MissionOver
    <2>2. CASE ThermalWriterPublish
      <3>1. bus'.battery = bus.battery /\ bus'.temp_cpu = thermal.temp_cpu
        BY <2>2 DEF ThermalWriterPublish, TypeOK
      <3>2. QED
        BY <3>1 DEF MissionOver
    <2>3. CASE UpdateStore
      <3>1. bus'.battery = bus.battery /\ bus'.temp_cpu = bus.temp_cpu
        BY <2>3 DEF UpdateStore, TypeOK
      <3>2. QED
        BY <3>1 DEF MissionOver
    <2>4. CASE UNCHANGED bus
      BY <2>4 DEF MissionOver
    <2>5. QED
      BY <2>1, <2>2, <2>3, <2>4, SensorFrame
  <1>5. QED
    BY <1>2, <1>3, <1>4 DEF MissionOver

\* watchdog() has no reason to enter SAFE MODE any more.
LEMMA NoEntry ==
  ASSUME TypeOK, MissionOver
  PROVE  ~EnterCondition
  <1>1. bus.battery \in Nat /\ bus.temp_cpu \in Nat
        /\ BATTERY_CRITICAL \in Nat /\ TEMP_CRITICAL \in Nat
    BY ConstantTypes, PowerAssumption, ThermalAssumption DEF TypeOK
  <1>2. QED
    BY <1>1 DEF EnterCondition, MissionOver

\* Nobody leaves NORMAL mode after the mission.
LEMMA StaysNormal ==
  ASSUME TypeOK, [Next]_vars, MissionOver, AllNormal
  PROVE  AllNormal'
  <1> DEFINE Calm(c) == flag[c] = MODE_NORMAL /\ "SIGUSR1" \notin pending[c]
  <1>1. /\ obc.command = MODE_NORMAL /\ bus.safe_mode = MODE_NORMAL
        /\ \A c \in alive : Calm(c)
    BY DEF AllNormal
  <1>2. \A c \in alive : c \in 1..N /\ c \in 0..N /\ c # OBC
    BY ConstantTypes DEF TypeOK
  <1>3. SUFFICES /\ obc'.command = MODE_NORMAL /\ bus'.safe_mode = MODE_NORMAL
                 /\ \A c \in alive' : Calm(c)'
    BY DEF AllNormal
  <1>4. CASE WatchdogSample
    <2>1. UNCHANGED <<bus, flag, pending, alive>> /\ ~EnterCondition
      BY <1>4, NoEntry DEF WatchdogSample
    <2>2. obc'.command = MODE_NORMAL
      BY <1>1, <1>4, <2>1 DEF WatchdogSample, Broadcast, TypeOK
    <2>3. QED
      BY <1>1, <2>1, <2>2
  <1>5. CASE SignalChild
    <2>1. UNCHANGED <<bus, flag, alive>> /\ obc'.command = obc.command
      BY <1>5 DEF SignalChild, TypeOK
    <2>2. \A c \in alive : "SIGUSR1" \notin pending'[c]
      <3>1. CASE UNCHANGED pending
        BY <1>1, <3>1
      <3>2. CASE pending' = [pending EXCEPT
                               ![obc.next] = pending[obc.next] \cup {"SIGUSR2"}]
        BY <1>1, <1>2, <3>2 DEF TypeOK
      <3>3. SignalFor(obc.command) = "SIGUSR2"
        BY <1>1 DEF SignalFor
      <3>4. QED
        BY <1>5, <3>1, <3>2, <3>3 DEF SignalChild
    <2>3. QED
      BY <1>1, <2>1, <2>2
  <1>6. CASE UpdateStore
    <2>1. UNCHANGED <<flag, pending, alive>>
      BY <1>6 DEF UpdateStore
    <2>2. obc'.command = obc.command /\ bus'.safe_mode = obc.command
      BY <1>6 DEF UpdateStore, TypeOK
    <2>3. QED
      BY <1>1, <2>1, <2>2
  <1>7. CASE PowerWriterPublish
    <2>1. UNCHANGED <<obc, flag, pending, alive>> /\ POWER \in alive
          /\ bus'.safe_mode = flag[POWER]
      BY <1>7 DEF PowerWriterPublish, TypeOK
    <2>2. QED
      BY <1>1, <2>1
  <1>8. ASSUME NEW p \in Processes, NEW s \in Signals, Deliver(p, s)
        PROVE  /\ obc'.command = MODE_NORMAL /\ bus'.safe_mode = MODE_NORMAL
               /\ \A c \in alive' : Calm(c)'
    <2>1. UNCHANGED <<obc, bus, alive>> /\ s \in pending[p]
          /\ p \in alive \cup {OBC}
          /\ pending' = [pending EXCEPT ![p] = pending[p] \ {s}]
      BY <1>8 DEF Deliver
    <2>2. \A c \in alive : "SIGUSR1" \notin pending'[c]
      BY <1>1, <1>2, <2>1 DEF TypeOK
    <2>3. \A c \in alive : flag'[c] = MODE_NORMAL
      <3>1. CASE p = OBC
        <4>1. UNCHANGED flag \/ flag' = [flag EXCEPT ![OBC] = MODE_SAFE]
          BY <1>8, <3>1 DEF Deliver
        <4>2. QED
          BY <1>1, <1>2, <4>1 DEF TypeOK
      <3>2. CASE p # OBC
        <4>1. s # "SIGUSR1"
          BY <1>1, <2>1, <3>2
        <4>2. flag' = [flag EXCEPT ![p] = MODE_NORMAL]
          BY <1>8, <3>2, <4>1 DEF Deliver
        <4>3. QED
          BY <1>1, <1>2, <4>2 DEF TypeOK
      <3>3. QED
        BY <3>1, <3>2
    <2>4. QED
      BY <1>1, <2>1, <2>2, <2>3
  <1>9. CASE GroundCommand
    <2>1. UNCHANGED <<obc, bus, flag, alive>>
      BY <1>9 DEF GroundCommand
    <2>2. \A c \in alive : pending'[c] = pending[c]
      BY <1>2, <1>9 DEF GroundCommand, TypeOK
    <2>3. QED
      BY <1>1, <2>1, <2>2
  <1>10. ASSUME NEW d \in Children, Die(d)
         PROVE  /\ obc'.command = MODE_NORMAL /\ bus'.safe_mode = MODE_NORMAL
                /\ \A c \in alive' : Calm(c)'
    <2>1. UNCHANGED <<obc, bus, flag>> /\ alive' = alive \ {d}
          /\ pending' = [pending EXCEPT ![d] = {}]
      BY <1>10 DEF Die
    <2>2. \A c \in alive' : c \in alive /\ pending'[c] = pending[c]
      BY <1>2, <2>1 DEF TypeOK
    <2>3. QED
      BY <1>1, <2>1, <2>2
  <1>11. CASE \/ NextPeriod \/ SolarTick \/ BatteryTick \/ SensorTick
              \/ PowerWriterLock \/ ThermalWriterLock \/ ThermalWriterPublish
              \/ CommsLock \/ CommsUnlock \/ WatchdogLock \/ UpdateLock
              \/ UNCHANGED vars
    <2>1. UNCHANGED <<flag, pending, alive>>
      BY <1>11 DEF NextPeriod, SolarTick, BatteryTick, SensorTick,
           PowerWriterLock, ThermalWriterLock, ThermalWriterPublish,
           CommsLock, CommsUnlock, WatchdogLock, UpdateLock, vars
    <2>2. obc'.command = obc.command
      BY <1>11 DEF NextPeriod, SolarTick, BatteryTick, SensorTick,
           PowerWriterLock, ThermalWriterLock, ThermalWriterPublish,
           CommsLock, CommsUnlock, WatchdogLock, UpdateLock, vars, TypeOK
    <2>3. bus'.safe_mode = bus.safe_mode
      BY <1>11 DEF NextPeriod, SolarTick, BatteryTick, SensorTick,
           PowerWriterLock, ThermalWriterLock, ThermalWriterPublish,
           CommsLock, CommsUnlock, WatchdogLock, UpdateLock, vars, TypeOK
    <2>4. QED
      BY <1>1, <2>1, <2>2, <2>3
  <1>12. QED
    BY <1>4, <1>5, <1>6, <1>7, <1>8, <1>9, <1>10, <1>11 DEF Next

(***************************************************************************)
(* NORMAL mode is for good: once the sensors and the bus show no fault     *)
(* after the mission and all are in NORMAL mode, nothing brings SAFE MODE  *)
(* back, for any set of slow or mortal children.                           *)
(***************************************************************************)
THEOREM NormalForGood == Uneventful => (Spec => NoRelapse)
  <1> SUFFICES ASSUME Uneventful PROVE Spec => NoRelapse
    OBVIOUS
  <1>1. TypeOK /\ SunAfterEclipse /\ [Next]_vars => SunAfterEclipse'
    BY SunAfterEclipseStep
  <1>2. TypeOK /\ SunAfterEclipse /\ [Next]_vars
          => [MissionOver /\ AllNormal => (MissionOver /\ AllNormal)']_vars
    BY MissionStaysOver, StaysNormal
  <1>3. QED
    BY <1>1, <1>2, SunAfterEclipseInit, TypeCorrect, PTL DEF Spec, NoRelapse

-----------------------------------------------------------------------------
(***************************************************************************)
(* Refinement.  The OBC commands a mode when its decision starts a         *)
(* broadcast of the other one, which is a Switch: agreement says that      *)
(* every living child has followed by then.  A handler that changes a flag *)
(* is a Follow, a death is a Fail, and every other step a stutter.         *)
(***************************************************************************)
\* The initial states are initial states of ModeAuthority.
LEMMA InitRefines == Init => Authority!Init
  <1> SUFFICES ASSUME Init PROVE Authority!Init
    OBVIOUS
  <1>1. \A c \in Prompt : c \in 1..N /\ c \in 0..N
    BY PaceAssumption, ConstantTypes
  <1>2. \A c \in Prompt : flag[c] = MODE_NORMAL
    BY <1>1 DEF Init
  <1>3. alive \cap Prompt = Prompt
    BY <1>1 DEF Init
  <1>4. [c \in Prompt |-> flag[c]] = [c \in Prompt |-> MODE_NORMAL]
    BY <1>2
  <1>5. obc.command = MODE_NORMAL
    BY DEF Init
  <1>6. QED
    BY <1>3, <1>4, <1>5 DEF Authority!Init

\* The modes of the followers are the flags of the prompt children.
Obeys == [c \in Prompt |-> flag[c]]

\* A step that leaves the flags, the command and the living alone stutters.
LEMMA StutterRefines ==
  ASSUME UNCHANGED <<flag, alive>>, obc'.command = obc.command
  PROVE  UNCHANGED Authority!vars
  BY DEF Authority!vars

\* Every step of SafeMode is a step of ModeAuthority or a stutter.
LEMMA StepRefines ==
  TypeOK /\ Agreement /\ [Next]_vars => [Authority!Next]_(Authority!vars)
  <1> SUFFICES ASSUME TypeOK, Agreement, [Next]_vars
               PROVE  [Authority!Next]_(Authority!vars)
    OBVIOUS
  <1>1. CASE WatchdogSample
    <2>1. \A c \in alive \cap Prompt : flag[c] = obc.command
      BY <1>1, AgreementByChild DEF WatchdogSample, AgreesWith, Told
    <2>2. UNCHANGED <<flag, alive>>
      BY <1>1 DEF WatchdogSample
    <2>3. CASE obc'.command = obc.command
      BY <2>2, <2>3, StutterRefines
    <2>4. CASE obc'.command # obc.command
      <3>1. obc'.command \in Modes \ {obc.command}
        BY <2>4, TypeStep DEF TypeOK
      <3>2. \A c \in alive \cap Prompt : Obeys[c] = obc.command
        BY <2>1 DEF Obeys, TypeOK
      <3>3. Authority!Switch
        BY <2>2, <3>1, <3>2 DEF Authority!Switch, Authority!Modes, Obeys
      <3>4. QED
        BY <3>3 DEF Authority!Next
    <2>5. QED
      BY <2>3, <2>4
  <1>2. ASSUME NEW p \in Processes, NEW s \in Signals, Deliver(p, s)
        PROVE  [Authority!Next]_(Authority!vars)
    <2>1. UNCHANGED <<obc, alive>> /\ flag \in [0..N -> {0, 1}]
      BY <1>2 DEF Deliver, TypeOK
    <2>2. CASE p \notin Prompt
      <3>1. \A c \in Prompt : flag'[c] = flag[c]
        <4>1. \/ UNCHANGED flag
              \/ flag' = [flag EXCEPT ![p] = MODE_SAFE]
              \/ flag' = [flag EXCEPT ![p] = MODE_NORMAL]
          BY <1>2 DEF Deliver
        <4>2. \A c \in Prompt : c # p /\ c \in 0..N
          BY <2>2, PaceAssumption, ConstantTypes
        <4>3. QED
          BY <2>1, <4>1, <4>2
      <3>2. Obeys' = Obeys
        BY <3>1 DEF Obeys
      <3>3. QED
        BY <2>1, <3>2 DEF Authority!vars, Obeys
    <2>3. CASE p \in Prompt
      <3>1. p \in alive \cap Prompt /\ p # OBC /\ s = SignalFor(obc.command)
        <4>1. p # OBC
          BY <2>3, PaceAssumption, ConstantTypes
        <4>2. p \in alive \cap Prompt
          BY <1>2, <2>3, <4>1 DEF Deliver
        <4>3. QED
          BY <1>2, <4>1, <4>2, AgreementByChild DEF Deliver, AgreesWith
      <3>2. flag' = [flag EXCEPT ![p] = obc.command]
        BY <1>2, <2>3, <3>1 DEF Deliver, SignalFor, TypeOK
      <3>3. Obeys' = [Obeys EXCEPT ![p] = obc.command]
        <4>1. \A c \in Prompt : c \in 0..N
          BY PaceAssumption, ConstantTypes
        <4>2. \A c \in Prompt :
                flag'[c] = IF c = p THEN obc.command ELSE flag[c]
          BY <2>1, <3>2, <4>1
        <4>3. QED
          BY <3>1, <4>2 DEF Obeys
      <3>4. Authority!Follow(p)
        BY <2>1, <3>1, <3>3 DEF Authority!Follow, Obeys
      <3>5. QED
        BY <3>1, <3>4 DEF Authority!Next
    <2>4. QED
      BY <2>2, <2>3
  <1>3. ASSUME NEW c \in Children, Die(c)
        PROVE  [Authority!Next]_(Authority!vars)
    <2>1. UNCHANGED <<obc, flag>> /\ alive' = alive \ {c}
      BY <1>3 DEF Die
    <2>2. CASE c \in Prompt
      BY <2>1, <2>2 DEF Authority!Fail, Authority!Next
    <2>3. CASE c \notin Prompt
      BY <2>1, <2>3 DEF Authority!vars
    <2>4. QED
      BY <2>2, <2>3
  <1>4. CASE WatchdogLock \/ SignalChild \/ UpdateLock \/ UpdateStore
    <2>1. UNCHANGED <<flag, alive>> /\ obc'.command = obc.command
      BY <1>4
         DEF WatchdogLock, SignalChild, UpdateLock, UpdateStore, TypeOK
    <2>2. QED
      BY <2>1, StutterRefines
  <1>5. CASE \/ NextPeriod \/ SolarTick \/ BatteryTick \/ SensorTick
             \/ PowerWriterLock \/ ThermalWriterLock \/ CommsLock
             \/ PowerWriterPublish \/ ThermalWriterPublish \/ CommsUnlock
             \/ GroundCommand \/ UNCHANGED vars
    BY <1>5, StutterRefines
       DEF NextPeriod, SolarTick, BatteryTick, SensorTick, PowerWriterLock,
           ThermalWriterLock, CommsLock, PowerWriterPublish,
           ThermalWriterPublish, CommsUnlock, GroundCommand, vars
  <1>6. QED
    BY <1>1, <1>2, <1>3, <1>4, <1>5 DEF Next

(***************************************************************************)
(* Whatever the other children do, the children that handle their signals  *)
(* within a period never skip a mode: SafeMode implements ModeAuthority.   *)
(***************************************************************************)
THEOREM ImplementsAuthority == Spec => AuthoritySafe
  <1>1. Spec => [](TypeOK /\ Agreement)
    BY TypeCorrect, AgreementInvariant, PTL
  <1>2. TypeOK /\ Agreement /\ [Next]_vars
          => [Authority!Next]_(Authority!vars)
    BY StepRefines
  <1>3. QED
    BY <1>1, <1>2, InitRefines, PTL DEF Spec, AuthoritySafe, Authority!Spec
=============================================================================
