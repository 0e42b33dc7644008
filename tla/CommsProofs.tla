---------------------------- MODULE CommsProofs ----------------------------
(***************************************************************************)
(* Theorems about Comms, for any bytes, any spelling of the commands, any  *)
(* size of the buffer and any number of writes: what is obeyed is what was *)
(* written, in order and once, and the reports on the link agree with what *)
(* the bus shows.                                                          *)
(*                                                                         *)
(* The argument for the commands: a read begins where a write does, or     *)
(* full buffers later, and ends with all that is written, so where a write *)
(* does, or with a full buffer.  The text stays what was read there, since *)
(* writes only add to the bytes; and the places of the commands obeyed lie *)
(* before it.                                                              *)
(***************************************************************************)
EXTENDS Comms, TLAPS

\* TypeOK in two parts: the commands, and the link with what both share.
UplinkType ==
  /\ written \in Seq(Byte)
  /\ ends \in Seq(0..Len(written)) /\ Len(ends) <= MaxLines
  /\ taken \in 0..Len(written)
  /\ uplink \in [at : {"sleep", "idle", "active", "handle"},
                 from : 0..taken, text : Seq(Byte)]
  /\ Len(uplink.text) < CMD_MAX_LEN
  /\ obeyed \in Seq([command : Commands, from : 0..taken, upto : 0..taken])

LinkType ==
  /\ comms \in [quality : Qualities, uplink_active : BOOLEAN,
                downlink_active : BOOLEAN, fault_active : BOOLEAN]
  /\ downlink \in [at : {"sleep", "report", "snapshot", "write"},
                   elapsed : 0..(SNAPSHOT_ROUNDS - 1),
                   severity : {"NONE", "INFO", "WARNING", "CRITICAL"}]
  /\ bus \in [quality : Qualities, uplink_active : BOOLEAN]
  /\ queued \in 0..MQ_MAX_MESSAGES
  /\ asked \subseteq {"SIGUSR1", "SIGUSR2"}
  /\ safe \in BOOLEAN
  /\ reported \in {"NONE", "INFO", "CRITICAL"}

\* Reads begin, and writes end, where they may.
PlacesInv ==
  /\ Begins(taken)
  /\ Len(written) = 0 \/ \E i \in DOMAIN ends : Len(written) = ends[i]

\* The text is there only while it is handled, and is what was read.
TextInv ==
  IF uplink.at \in {"sleep", "idle"}
  THEN uplink.text = << >>
  ELSE /\ uplink.text = Stripped(SubSeq(written, uplink.from + 1, taken))
       /\ IsText(uplink.from, taken)

\* What is obeyed lies before the text, and before what is still to be read.
ObeyedInv ==
  /\ ObeyedInOrder
  /\ uplink.at \in {"active", "handle"} =>
       \A i \in DOMAIN obeyed : obeyed[i].upto <= uplink.from

UplinkInv == PlacesInv /\ TextInv /\ ObeyedInv

\* The latch agrees with the last report, but for a report on its way; and
\* what is about to be shown has been reported.
LinkInv ==
  /\ downlink.at = "report" <=> downlink.severity # "NONE"
  /\ downlink.severity = "CRITICAL" =>
       comms.fault_active /\ reported # "CRITICAL"
  /\ downlink.severity \in {"INFO", "WARNING"} => ~comms.fault_active
  /\ downlink.severity = "INFO" => reported = "CRITICAL"
  /\ downlink.severity \in {"NONE", "WARNING"} =>
       (comms.fault_active <=> reported = "CRITICAL")
  /\ downlink.at \in {"snapshot", "write"} /\ comms.quality # "good" =>
       comms.fault_active

Inv == TypeOK /\ UplinkInv /\ LinkInv

-----------------------------------------------------------------------------
(***************************************************************************)
(* Lemmas about the definitions                                            *)
(***************************************************************************)
\* A part of a sequence, and its length.
LEMMA SubSeqType ==
  ASSUME NEW S, NEW s \in Seq(S), NEW m \in Nat, NEW n \in Nat, n <= Len(s)
  PROVE  /\ SubSeq(s, m + 1, n) \in Seq(S)
         /\ m <= n => Len(SubSeq(s, m + 1, n)) = n - m
         /\ m = n => SubSeq(s, m + 1, n) = << >>
OBVIOUS

\* What is appended does not change what is there.
LEMMA SubSeqConcat ==
  ASSUME NEW S, NEW s \in Seq(S), NEW t \in Seq(S),
         NEW m \in Nat, NEW n \in Nat, n <= Len(s)
  PROVE  SubSeq(s \o t, m + 1, n) = SubSeq(s, m + 1, n)
OBVIOUS

\* A sequence over a set is one over a larger set.
LEMMA SeqMonotone ==
  ASSUME NEW S, NEW T, S \subseteq T, NEW s \in Seq(S)
  PROVE  s \in Seq(T)
OBVIOUS

\* Stripping takes bytes away.
LEMMA StrippedType ==
  ASSUME NEW s \in Seq(Byte)
  PROVE  Stripped(s) \in Seq(Byte) /\ Len(Stripped(s)) <= Len(s)
         /\ (s = << >> => Stripped(s) = << >>)
BY DEF Stripped

\* The entries of the history.
LEMMA ObeyedElement ==
  ASSUME UplinkType, NEW i \in DOMAIN obeyed
  PROVE  /\ obeyed[i].command \in Commands
         /\ obeyed[i].from \in Nat /\ obeyed[i].upto \in Nat
         /\ obeyed[i].upto <= taken /\ taken <= Len(written)
<1> DEFINE S == [command : Commands, from : 0..taken, upto : 0..taken]
<1>1. obeyed[i] \in S
  <2>1. obeyed \in Seq(S)
    BY DEF UplinkType
  <2> HIDE DEF S
  <2> QED BY <2>1
<1>2. taken \in Nat /\ taken <= Len(written)
  BY DEF UplinkType
<1> QED BY <1>1, <1>2

\* A read takes at most what is there, and less than the buffer.
LEMMA ReadSizeBounds ==
  ASSUME UplinkType
  PROVE  /\ ReadSize \in Nat /\ ReadSize < CMD_MAX_LEN
         /\ taken + ReadSize \in 0..Len(written)
         /\ \/ ReadSize = CMD_MAX_LEN - 1
            \/ taken + ReadSize = Len(written)
BY CommsAssumption DEF UplinkType, ReadSize, Lowest, Unread

\* One more full buffer.
LEMMA NextMultiple ==
  ASSUME NEW k \in Nat, NEW m \in Nat
  PROVE  (k + 1) * m = k * m + m /\ 0 * m = 0
OBVIOUS

\* A full read after a place where a text may begin ends at another one.
LEMMA FullRead ==
  ASSUME UplinkType, NEW p \in Nat, Begins(p)
  PROVE  Begins(p + (CMD_MAX_LEN - 1))
<1> DEFINE M == CMD_MAX_LEN - 1
<1>1. M \in Nat /\ M >= 1
  BY CommsAssumption
<1>2. PICK b \in {0} \cup {ends[i] : i \in DOMAIN ends}, k \in 0..p :
        p = b + k * M
  BY DEF Begins
<1>3. k \in Nat /\ k + 1 \in 0..(p + M)
  BY <1>1
<1>4. (k + 1) * M = k * M + M /\ k * M \in Nat
  BY <1>1, <1>3, NextMultiple
<1>5. b \in Nat
  BY <1>2 DEF UplinkType
<1>6. p + M = b + (k + 1) * M
  <2> HIDE DEF M
  <2> QED BY <1>1, <1>2, <1>4, <1>5
<1> QED BY <1>2, <1>3, <1>6 DEF Begins

\* A text may begin at the start and where a write ends.
LEMMA WriteEndBegins ==
  ASSUME UplinkType, NEW p \in Nat,
         p = 0 \/ \E i \in DOMAIN ends : p = ends[i]
  PROVE  Begins(p)
<1>1. p \in {0} \cup {ends[i] : i \in DOMAIN ends}
  OBVIOUS
<1>2. 0 \in 0..p /\ p = p + 0 * (CMD_MAX_LEN - 1)
  BY CommsAssumption
<1> QED BY <1>1, <1>2 DEF Begins

\* What the ground appends.
LEMMA WriteEffect ==
  ASSUME UplinkType, GroundWrites
  PROVE  /\ written' \in Seq(Byte) /\ Len(written) <= Len(written')
         /\ ends' \in Seq(0..Len(written')) /\ Len(ends') <= MaxLines
         /\ \E i \in DOMAIN ends' : Len(written') = ends'[i]
         /\ \A i \in DOMAIN ends : i \in DOMAIN ends' /\ ends'[i] = ends[i]
         /\ \A m, n \in Nat : n <= Len(written) =>
              SubSeq(written', m + 1, n) = SubSeq(written, m + 1, n)
<1>1. PICK w \in Words : written' = written \o w
  BY DEF GroundWrites
<1>2. written \in Seq(Byte) /\ w \in Seq(Byte)
  BY CommsAssumption DEF UplinkType
<1>3. written' \in Seq(Byte) /\ Len(written) <= Len(written')
  BY <1>1, <1>2
<1>4. \A m, n \in Nat : n <= Len(written) =>
        SubSeq(written', m + 1, n) = SubSeq(written, m + 1, n)
  BY <1>1, <1>2, SubSeqConcat
<1>5. /\ ends \in Seq(0..Len(written')) /\ Len(written') \in 0..Len(written')
      /\ ends' = Append(ends, Len(written')) /\ Len(ends) + 1 <= MaxLines
  <2>1. ends \in Seq(0..Len(written')) /\ Len(written') \in 0..Len(written')
    BY <1>3 DEF UplinkType
  <2>2. ends' = Append(ends, Len(written')) /\ Len(ends) + 1 <= MaxLines
    BY CommsAssumption DEF GroundWrites, UplinkType
  <2> QED BY <2>1, <2>2
<1>6. /\ ends' \in Seq(0..Len(written')) /\ Len(ends') = Len(ends) + 1
      /\ ends'[Len(ends')] = Len(written')
      /\ \A i \in DOMAIN ends : i \in DOMAIN ends' /\ ends'[i] = ends[i]
  BY <1>5
<1>7. Len(ends') \in DOMAIN ends'
  BY <1>6
<1> QED BY <1>3, <1>4, <1>5, <1>6, <1>7

\* A write changes nothing about what was written before it.
LEMMA StableUnderWrites ==
  ASSUME UplinkType, GroundWrites
  PROVE  /\ \A p \in Nat : Begins(p) => Begins(p)'
         /\ \A p, q \in Nat : IsText(p, q) => IsText(p, q)'
         /\ \A p, q \in Nat, c \in Commands :
              q <= Len(written) /\ Spells(p, q, c) => Spells(p, q, c)'
<1>1. \A i \in DOMAIN ends : i \in DOMAIN ends' /\ ends'[i] = ends[i]
  BY WriteEffect
<1>2. \A p \in Nat : Begins(p) => Begins(p)'
  BY <1>1 DEF Begins
<1>3. \A p, q \in Nat : IsText(p, q) => IsText(p, q)'
  BY <1>1, <1>2 DEF IsText
<1>4. \A p, q \in Nat, c \in Commands :
        q <= Len(written) /\ Spells(p, q, c) => Spells(p, q, c)'
  BY WriteEffect DEF Spells
<1> QED BY <1>2, <1>3, <1>4

\* What a read finds.
LEMMA ReadEffect ==
  ASSUME UplinkType, UplinkRead
  PROVE  /\ taken' \in taken..Len(written) /\ taken' = taken + ReadSize
         /\ \/ uplink' = [uplink EXCEPT !.at = "idle"]
            \/ LET text == Stripped(SubSeq(written, taken + 1, taken'))
               IN  /\ uplink' = [at |-> "active", from |-> taken, text |-> text]
                   /\ text \in Seq(Byte) /\ Len(text) < CMD_MAX_LEN
                   /\ taken < taken'
<1>1. /\ taken' = taken + ReadSize /\ ReadSize \in Nat /\ ReadSize < CMD_MAX_LEN
      /\ taken' \in 0..Len(written) /\ taken \in Nat /\ written \in Seq(Byte)
  BY ReadSizeBounds DEF UplinkRead, UplinkType
<1> DEFINE s == SubSeq(written, taken + 1, taken')
<1>2. /\ s \in Seq(Byte) /\ Len(s) = ReadSize
      /\ taken = taken' => s = << >>
  <2>1. taken' \in Nat /\ taken <= taken' /\ taken' <= Len(written)
        /\ taken' - taken = ReadSize
    BY <1>1
  <2> QED BY <1>1, <2>1, SubSeqType
<1>3. \/ uplink' = [uplink EXCEPT !.at = "idle"]
      \/ /\ uplink' = [at |-> "active", from |-> taken, text |-> Stripped(s)]
         /\ Stripped(s) # << >>
  BY DEF UplinkRead
<1> HIDE DEF s
<1>4. /\ Stripped(s) \in Seq(Byte) /\ Len(Stripped(s)) <= Len(s)
      /\ s = << >> => Stripped(s) = << >>
  BY <1>2, StrippedType
<1>5. Len(Stripped(s)) < CMD_MAX_LEN
  BY <1>1, <1>2, <1>4, CommsAssumption
<1>6. Stripped(s) # << >> => taken < taken'
  BY <1>1, <1>2, <1>4
<1>7. taken' \in taken..Len(written) /\ taken' = taken + ReadSize
  BY <1>1
<1> QED BY <1>3, <1>4, <1>5, <1>6, <1>7 DEF s

\* The rounds between two snapshots are counted to the bound.
LEMMA ElapsedType == ASSUME TypeOK PROVE Elapsed \in 0..(SNAPSHOT_ROUNDS - 1)
<1>1. downlink.elapsed + 1 \in Nat /\ SNAPSHOT_ROUNDS \in Nat /\ SNAPSHOT_ROUNDS > 0
  BY CommsAssumption DEF TypeOK
<1> QED BY <1>1 DEF Elapsed

-----------------------------------------------------------------------------
(***************************************************************************)
(* The invariant                                                           *)
(***************************************************************************)
\* It holds at the start.
LEMMA InitInv == Init => Inv
<1> SUFFICES ASSUME Init PROVE Inv
  OBVIOUS
<1>1. TypeOK
  <2>1. UplinkType
    BY CommsAssumption DEF Init, UplinkType, Sleeping
  <2>2. LinkType
    <3>1. comms \in [quality : Qualities, uplink_active : BOOLEAN,
                    downlink_active : BOOLEAN, fault_active : BOOLEAN]
      BY DEF Init, Qualities
    <3>2. downlink \in [at : {"sleep", "report", "snapshot", "write"},
                       elapsed : 0..(SNAPSHOT_ROUNDS - 1),
                       severity : {"NONE", "INFO", "WARNING", "CRITICAL"}]
      BY CommsAssumption DEF Init
    <3>3. bus \in [quality : Qualities, uplink_active : BOOLEAN]
      BY DEF Init, Qualities
    <3>4. queued \in 0..MQ_MAX_MESSAGES /\ reported \in {"NONE", "INFO", "CRITICAL"}
      BY CommsAssumption DEF Init
    <3>5. safe \in BOOLEAN /\ asked \subseteq {"SIGUSR1", "SIGUSR2"}
      BY DEF Init
    <3> QED BY <3>1, <3>2, <3>3, <3>4, <3>5 DEF LinkType
  <2> QED BY <2>1, <2>2 DEF TypeOK, UplinkType, LinkType
<1>2. UplinkInv
  <2>1. UplinkType
    BY <1>1 DEF TypeOK, UplinkType
  <2>2. Begins(taken)
    BY <2>1, WriteEndBegins DEF Init
  <2>3. Len(written) = 0 /\ obeyed = << >> /\ uplink = Sleeping
    BY DEF Init
  <2> QED BY <2>2, <2>3
        DEF UplinkInv, PlacesInv, TextInv, ObeyedInv, ObeyedInOrder, Sleeping
<1>3. LinkInv
  BY DEF Init, LinkInv
<1> QED BY <1>1, <1>2, <1>3 DEF Inv

\* Every step keeps what concerns the commands in its domain.
LEMMA UplinkTypeNext ==
  ASSUME TypeOK, Next
  PROVE  UplinkType'
<1> USE CommsAssumption
<1>0. UplinkType
  BY DEF TypeOK, UplinkType
<1>1. CASE UplinkRead
  <2>1. taken' \in 0..Len(written) /\ taken <= taken' /\ taken \in Nat
    BY <1>0, <1>1, ReadEffect DEF UplinkType
  <2>2. /\ uplink' \in [at : {"sleep", "idle", "active", "handle"},
                        from : 0..taken', text : Seq(Byte)]
        /\ Len(uplink'.text) < CMD_MAX_LEN
    <3>1. CASE uplink' = [uplink EXCEPT !.at = "idle"]
      <4>1. /\ uplink \in [at : {"sleep", "idle", "active", "handle"},
                           from : 0..taken, text : Seq(Byte)]
            /\ Len(uplink.text) < CMD_MAX_LEN
        BY <1>0 DEF UplinkType
      <4>2. uplink.from \in 0..taken'
        BY <2>1, <4>1
      <4>3. uplink' = [at |-> "idle", from |-> uplink.from, text |-> uplink.text]
        BY <3>1, <4>1
      <4> QED BY <4>1, <4>2, <4>3
    <3>2. ASSUME NEW text \in Seq(Byte), Len(text) < CMD_MAX_LEN,
                 uplink' = [at |-> "active", from |-> taken, text |-> text]
          PROVE  <2>2!1 /\ <2>2!2
      BY <2>1, <3>2
    <3> QED BY <1>0, <1>1, <3>1, <3>2, ReadEffect
  <2>3. obeyed' \in Seq([command : Commands, from : 0..taken', upto : 0..taken'])
    <3>1. 0..taken \subseteq 0..taken'
      BY <2>1
    <3>2. [command : Commands, from : 0..taken, upto : 0..taken] \subseteq
            [command : Commands, from : 0..taken', upto : 0..taken']
      BY <3>1
    <3>3. obeyed' = obeyed
      BY <1>1 DEF UplinkRead
    <3>4. obeyed \in Seq([command : Commands, from : 0..taken, upto : 0..taken])
      BY <1>0 DEF UplinkType
    <3> DEFINE S == [command : Commands, from : 0..taken, upto : 0..taken]
               T == [command : Commands, from : 0..taken', upto : 0..taken']
    <3>5. S \subseteq T /\ obeyed \in Seq(S)
      BY <3>2, <3>4
    <3> HIDE DEF S, T
    <3>6. obeyed \in Seq(T)
      BY <3>5, SeqMonotone
    <3> QED BY <3>3, <3>6 DEF T
  <2>4. written' = written /\ ends' = ends
    BY <1>1 DEF UplinkRead
  <2> QED BY <1>0, <2>1, <2>2, <2>3, <2>4 DEF UplinkType
<1>2. CASE UplinkIdle \/ UplinkActive
  BY <1>0, <1>2 DEF UplinkType, UplinkIdle, UplinkActive, fifo
<1>3. CASE UnknownCommand
  <2>1. /\ uplink' \in [at : {"sleep", "idle", "active", "handle"},
                        from : 0..taken, text : Seq(Byte)]
        /\ Len(uplink'.text) < CMD_MAX_LEN
    BY <1>0, <1>3 DEF UplinkType, UnknownCommand, Sleeping
  <2> QED BY <1>0, <1>3, <2>1 DEF UplinkType, UnknownCommand, fifo
<1>4. ASSUME NEW c \in Commands, Obey(c)
      PROVE  UplinkType'
  <2>1. /\ uplink' \in [at : {"sleep", "idle", "active", "handle"},
                        from : 0..taken, text : Seq(Byte)]
        /\ Len(uplink'.text) < CMD_MAX_LEN
    BY <1>0, <1>4 DEF UplinkType, Obey, Sleeping
  <2>2. obeyed' \in Seq([command : Commands, from : 0..taken, upto : 0..taken])
    BY <1>0, <1>4 DEF UplinkType, Obey
  <2> QED BY <1>0, <1>4, <2>1, <2>2 DEF UplinkType, Obey, fifo
<1>5. CASE Downlink \/ LoggerReceives \/ ModeSignal
  <2>1. UNCHANGED <<written, ends, taken, uplink, obeyed>>
    BY <1>5 DEF Downlink, SuspendedRound, LinkRound, SendReport, SendSnapshot,
                WriteBus, LoggerReceives, ModeSignal, fifo
  <2> QED BY <1>0, <2>1 DEF UplinkType
<1>6. CASE GroundWrites
  <2>1. uplink' = uplink /\ obeyed' = obeyed /\ taken' = taken
    BY <1>6 DEF GroundWrites
  <2>2. /\ written' \in Seq(Byte) /\ Len(written) <= Len(written')
        /\ ends' \in Seq(0..Len(written')) /\ Len(ends') <= MaxLines
    BY <1>0, <1>6, WriteEffect
  <2>3. taken' \in 0..Len(written')
    BY <1>0, <2>1, <2>2 DEF UplinkType
  <2> QED BY <1>0, <2>1, <2>2, <2>3 DEF UplinkType
<1> QED BY <1>1, <1>2, <1>3, <1>4, <1>5, <1>6 DEF Next, Uplink

\* Every step keeps what concerns the link, the queue and the mode.
LEMMA LinkTypeNext ==
  ASSUME TypeOK, LinkInv, Next
  PROVE  LinkType'
<1> USE CommsAssumption
<1>0. LinkType
  BY DEF TypeOK, LinkType
<1>1. CASE UplinkRead \/ UplinkIdle \/ UplinkActive \/ UnknownCommand
           \/ GroundWrites
  BY <1>0, <1>1 DEF LinkType, UplinkRead, UplinkIdle, UplinkActive,
                    UnknownCommand, GroundWrites
<1>2. ASSUME NEW c \in Commands, Obey(c)
      PROVE  LinkType'
  <2>1. queued' \in 0..MQ_MAX_MESSAGES
    BY <1>0, <1>2 DEF LinkType, Obey, MsgqSend
  <2>2. asked' \subseteq {"SIGUSR1", "SIGUSR2"}
    BY <1>0, <1>2 DEF LinkType, Obey, Signals
  <2> QED BY <1>0, <1>2, <2>1, <2>2 DEF LinkType, Obey
<1>3. CASE SuspendedRound
  BY <1>0, <1>3, ElapsedType DEF LinkType, SuspendedRound, Qualities
<1>4. CASE LinkRound
  <2>1. PICK q \in Qualities :
          /\ comms' = [comms EXCEPT !.downlink_active = TRUE, !.quality = q,
                                    !.fault_active = FaultActive(q)]
          /\ downlink' =
               [at |-> IF Severity(q) # "NONE" THEN "report"
                       ELSE IF Elapsed = 0 THEN "snapshot" ELSE "write",
                elapsed |-> Elapsed, severity |-> Severity(q)]
    BY <1>4 DEF LinkRound
  <2>2. FaultActive(q) \in BOOLEAN
    BY <1>0 DEF FaultActive, LinkType
  <2>3. Severity(q) \in {"NONE", "INFO", "WARNING", "CRITICAL"}
    BY DEF Severity
  <2>4. comms' \in [quality : Qualities, uplink_active : BOOLEAN,
                    downlink_active : BOOLEAN, fault_active : BOOLEAN]
    BY <1>0, <2>1, <2>2 DEF LinkType
  <2>5. downlink' \in [at : {"sleep", "report", "snapshot", "write"},
                       elapsed : 0..(SNAPSHOT_ROUNDS - 1),
                       severity : {"NONE", "INFO", "WARNING", "CRITICAL"}]
    BY <2>1, <2>3, ElapsedType
  <2> QED BY <1>0, <1>4, <2>4, <2>5 DEF LinkType, LinkRound
<1>5. CASE SendReport
  <2>1. downlink' \in [at : {"sleep", "report", "snapshot", "write"},
                       elapsed : 0..(SNAPSHOT_ROUNDS - 1),
                       severity : {"NONE", "INFO", "WARNING", "CRITICAL"}]
    BY <1>0, <1>5 DEF LinkType, SendReport, AfterReport
  <2>2. reported' \in {"NONE", "INFO", "CRITICAL"}
    BY <1>0, <1>5 DEF LinkType, SendReport, LinkInv
  <2>3. queued' \in 0..MQ_MAX_MESSAGES
    BY <1>0, <1>5 DEF LinkType, SendReport, MsgqSend
  <2> QED BY <1>0, <1>5, <2>1, <2>2, <2>3 DEF LinkType, SendReport
<1>6. CASE SendSnapshot
  BY <1>0, <1>6 DEF LinkType, SendSnapshot, MsgqSend
<1>7. CASE WriteBus
  BY <1>0, <1>7 DEF LinkType, WriteBus
<1>8. CASE LoggerReceives
  BY <1>0, <1>8 DEF LinkType, LoggerReceives
<1>9. CASE ModeSignal
  <2>1. safe' \in BOOLEAN
    BY <1>9, Zenon DEF ModeSignal
  <2> QED BY <1>0, <1>9, <2>1 DEF LinkType, ModeSignal
<1> QED BY <1>1, <1>2, <1>3, <1>4, <1>5, <1>6, <1>7, <1>8, <1>9
        DEF Next, Uplink, Downlink

\* A read moves on to a place where the next text may begin.
LEMMA ReadKeeps ==
  ASSUME UplinkType, UplinkInv, UplinkRead
  PROVE  UplinkInv'
<1>1. written' = written /\ ends' = ends /\ obeyed' = obeyed /\ uplink.at = "sleep"
  BY DEF UplinkRead
<1>2. /\ taken \in Nat /\ taken' \in taken..Len(written)
      /\ taken' = taken + ReadSize
      /\ \/ taken' = taken + (CMD_MAX_LEN - 1)
         \/ taken' = Len(written)
  BY ReadEffect, ReadSizeBounds DEF UplinkType
<1>3. Begins(taken) /\ (Len(written) = 0 \/ \E i \in DOMAIN ends : Len(written) = ends[i])
  BY DEF UplinkInv, PlacesInv
<1>4. Begins(taken')
  <2>1. CASE taken' = taken + (CMD_MAX_LEN - 1)
    BY <1>2, <1>3, <2>1, FullRead
  <2>2. CASE taken' = Len(written)
    <3>1. Len(written) \in Nat
      BY DEF UplinkType
    <3> QED BY <1>3, <2>2, <3>1, WriteEndBegins
  <2> QED BY <1>2, <2>1, <2>2
<1>5. PlacesInv'
  <2>1. Begins(taken)'
    BY <1>1, <1>4 DEF Begins
  <2> QED BY <1>1, <1>3, <2>1 DEF PlacesInv
<1>6. ObeyedInOrder'
  BY <1>1 DEF UplinkInv, ObeyedInv, ObeyedInOrder, Spells, IsText, Begins
<1>7. CASE uplink' = [uplink EXCEPT !.at = "idle"]
  <2>1. uplink'.at = "idle" /\ uplink'.text = << >>
    BY <1>1, <1>7 DEF UplinkInv, TextInv, UplinkType
  <2> QED BY <1>5, <1>6, <2>1 DEF UplinkInv, TextInv, ObeyedInv
<1>8. CASE /\ uplink' = [at |-> "active", from |-> taken, text |->
                           Stripped(SubSeq(written, taken + 1, taken'))]
           /\ taken < taken'
  <2>1. /\ uplink'.at = "active" /\ uplink'.from = taken
        /\ uplink'.text = Stripped(SubSeq(written, taken + 1, taken'))
    BY <1>8
  <2>2. IsText(taken, taken')
    BY <1>2, <1>3, <1>8 DEF IsText
  <2>3. TextInv'
    <3>1. IsText(uplink.from, taken)'
      BY <1>1, <2>1, <2>2 DEF IsText, Begins
    <3> QED BY <1>1, <2>1, <3>1 DEF TextInv
  <2>4. \A i \in DOMAIN obeyed : obeyed[i].upto <= taken
    BY ObeyedElement
  <2> QED BY <1>1, <1>5, <1>6, <2>1, <2>3, <2>4 DEF UplinkInv, ObeyedInv
<1> QED BY <1>7, <1>8, ReadEffect

\* The places stay what they are when the ground writes more.
LEMMA WriteKeeps ==
  ASSUME UplinkType, UplinkInv, GroundWrites
  PROVE  UplinkInv'
<1>1. UNCHANGED <<taken, uplink, obeyed>>
  BY DEF GroundWrites
<1>2. taken \in Nat /\ taken <= Len(written) /\ uplink.from \in Nat
  BY DEF UplinkType
<1>3. PlacesInv'
  <2>1. Begins(taken)'
    <3>1. Begins(taken)
      BY DEF UplinkInv, PlacesInv
    <3> QED BY <1>1, <1>2, <3>1, StableUnderWrites DEF Begins
  <2> QED BY <2>1, WriteEffect DEF PlacesInv
<1>4. TextInv'
  <2>1. CASE uplink.at \in {"sleep", "idle"}
    BY <1>1, <2>1 DEF UplinkInv, TextInv
  <2>2. CASE uplink.at \notin {"sleep", "idle"}
    <3>1. /\ uplink.text = Stripped(SubSeq(written, uplink.from + 1, taken))
          /\ IsText(uplink.from, taken)
      BY <2>2 DEF UplinkInv, TextInv
    <3>2. SubSeq(written', uplink.from + 1, taken) =
            SubSeq(written, uplink.from + 1, taken)
      BY <1>2, WriteEffect
    <3>3. IsText(uplink.from, taken)'
      <4>1. \A p, q \in Nat : IsText(p, q) => IsText(p, q)'
        BY StableUnderWrites
      <4> QED BY <1>1, <1>2, <3>1, <4>1 DEF IsText, Begins
    <3> QED BY <1>1, <2>2, <3>1, <3>2, <3>3 DEF TextInv
  <2> QED BY <2>1, <2>2
<1>5. ObeyedInOrder'
  <2> SUFFICES ASSUME NEW i \in DOMAIN obeyed
               PROVE  /\ Spells(obeyed[i].from, obeyed[i].upto, obeyed[i].command)'
                      /\ IsText(obeyed[i].from, obeyed[i].upto)'
    BY <1>1 DEF UplinkInv, ObeyedInv, ObeyedInOrder
  <2>1. /\ obeyed[i].from \in Nat /\ obeyed[i].upto \in Nat
        /\ obeyed[i].upto <= Len(written) /\ obeyed[i].command \in Commands
    BY ObeyedElement DEF UplinkType
  <2>2. /\ Spells(obeyed[i].from, obeyed[i].upto, obeyed[i].command)
        /\ IsText(obeyed[i].from, obeyed[i].upto)
    BY DEF UplinkInv, ObeyedInv, ObeyedInOrder
  <2>3. SubSeq(written', obeyed[i].from + 1, obeyed[i].upto) =
          SubSeq(written, obeyed[i].from + 1, obeyed[i].upto)
    BY <2>1, WriteEffect
  <2>4. \A p, q \in Nat : IsText(p, q) => IsText(p, q)'
    BY StableUnderWrites
  <2> QED BY <1>1, <2>1, <2>2, <2>3, <2>4 DEF Spells, IsText, Begins
<1>6. uplink'.at \in {"active", "handle"} =>
        \A i \in DOMAIN obeyed' : obeyed'[i].upto <= uplink'.from
  BY <1>1 DEF UplinkInv, ObeyedInv
<1> QED BY <1>3, <1>4, <1>5, <1>6 DEF UplinkInv, ObeyedInv

\* A command that is obeyed is the text, after all that was obeyed before.
LEMMA ObeyKeeps ==
  ASSUME UplinkType, UplinkInv, NEW c \in Commands, Obey(c)
  PROVE  UplinkInv'
<1> DEFINE new == [command |-> c, from |-> uplink.from, upto |-> taken]
<1>1. /\ obeyed' = Append(obeyed, new) /\ UNCHANGED <<written, ends, taken>>
      /\ uplink.at = "handle" /\ uplink.text = Spelling[c]
      /\ uplink'.at = "sleep" /\ uplink'.text = << >>
  BY DEF Obey, fifo, Sleeping
<1>2. /\ Spells(new.from, new.upto, new.command)
      /\ IsText(new.from, new.upto)
  BY <1>1 DEF UplinkInv, TextInv, Spells
<1>3. /\ \A i \in DOMAIN obeyed' :
           \/ /\ i \in DOMAIN obeyed /\ obeyed'[i] = obeyed[i]
              /\ i < Len(obeyed')
           \/ i = Len(obeyed') /\ obeyed'[i] = new
      /\ DOMAIN obeyed' = 1..Len(obeyed')
  <2>1. Len(obeyed) \in Nat /\ DOMAIN obeyed = 1..Len(obeyed)
    BY DEF UplinkType
  <2>2. Len(obeyed') = Len(obeyed) + 1 /\ DOMAIN obeyed' = 1..(Len(obeyed) + 1)
    BY <1>1 DEF UplinkType
  <2>3. \A i \in 1..Len(obeyed) : obeyed'[i] = obeyed[i]
    BY <1>1 DEF UplinkType
  <2>4. obeyed'[Len(obeyed) + 1] = new
    BY <1>1 DEF UplinkType
  <2> HIDE DEF new
  <2> QED BY <2>1, <2>2, <2>3, <2>4
<1>4. /\ \A i \in DOMAIN obeyed :
           /\ Spells(obeyed[i].from, obeyed[i].upto, obeyed[i].command)
           /\ IsText(obeyed[i].from, obeyed[i].upto)
           /\ obeyed[i].upto <= new.from
      /\ \A i, j \in DOMAIN obeyed : i < j => obeyed[i].upto <= obeyed[j].from
  BY <1>1 DEF UplinkInv, ObeyedInv, ObeyedInOrder
<1> HIDE DEF new
<1>5. \A i \in DOMAIN obeyed' :
        /\ Spells(obeyed'[i].from, obeyed'[i].upto, obeyed'[i].command)
        /\ IsText(obeyed'[i].from, obeyed'[i].upto)
  BY <1>2, <1>3, <1>4
<1>6. \A i, j \in DOMAIN obeyed' : i < j => obeyed'[i].upto <= obeyed'[j].from
  <2> SUFFICES ASSUME NEW i \in DOMAIN obeyed', NEW j \in DOMAIN obeyed', i < j
               PROVE  obeyed'[i].upto <= obeyed'[j].from
    OBVIOUS
  <2>1. i \in DOMAIN obeyed /\ obeyed'[i] = obeyed[i]
    <3>1. i # Len(obeyed')
      BY <1>3, Len(obeyed') \in Nat DEF UplinkType
    <3> QED BY <1>3, <3>1
  <2> QED BY <1>3, <1>4, <2>1
<1>7. ObeyedInOrder'
  <2>1. \A p, q, d : Spells(p, q, d)' <=> Spells(p, q, d)
    BY <1>1 DEF Spells
  <2>2. \A p, q : IsText(p, q)' <=> IsText(p, q)
    BY <1>1 DEF IsText, Begins
  <2> QED BY <1>5, <1>6, <2>1, <2>2 DEF ObeyedInOrder
<1>8. PlacesInv'
  BY <1>1 DEF UplinkInv, PlacesInv, Begins
<1> QED BY <1>1, <1>7, <1>8 DEF UplinkInv, TextInv, ObeyedInv

\* A step that changes the bytes and the commands obeyed in nothing.
LEMMA UplinkQuiet ==
  ASSUME UplinkInv, UNCHANGED <<written, ends, taken, obeyed>>,
         \/ UNCHANGED uplink
         \/ uplink'.at = "sleep" /\ uplink'.text = << >>
         \/ /\ uplink.at = "active" /\ uplink'.at = "handle"
            /\ uplink'.text = uplink.text /\ uplink'.from = uplink.from
  PROVE  UplinkInv'
<1>1. PlacesInv' /\ ObeyedInOrder'
  BY DEF UplinkInv, PlacesInv, ObeyedInv, ObeyedInOrder, Spells, IsText, Begins
<1>2. TextInv'
  BY DEF UplinkInv, TextInv, IsText, Begins
<1>3. uplink'.at \in {"active", "handle"} =>
        \A i \in DOMAIN obeyed' : obeyed'[i].upto <= uplink'.from
  BY DEF UplinkInv, ObeyedInv
<1> QED BY <1>1, <1>2, <1>3 DEF UplinkInv, ObeyedInv

\* Every step keeps the places in order.
LEMMA UplinkNext ==
  ASSUME TypeOK, UplinkInv, Next
  PROVE  UplinkInv'
<1>0. UplinkType
  BY DEF TypeOK, UplinkType
<1>1. CASE UplinkRead
  BY <1>0, <1>1, ReadKeeps
<1>2. CASE UplinkIdle
  <2>1. uplink'.at = "sleep" /\ uplink'.text = << >>
    BY <1>0, <1>2 DEF UplinkIdle, UplinkType, UplinkInv, TextInv
  <2> QED BY <1>2, <2>1, UplinkQuiet DEF UplinkIdle, fifo
<1>3. CASE UplinkActive
  <2>1. /\ uplink.at = "active" /\ uplink'.at = "handle"
        /\ uplink'.text = uplink.text /\ uplink'.from = uplink.from
    BY <1>0, <1>3 DEF UplinkActive, UplinkType
  <2> QED BY <1>3, <2>1, UplinkQuiet DEF UplinkActive, fifo
<1>4. CASE UnknownCommand
  <2>1. uplink'.at = "sleep" /\ uplink'.text = << >>
    BY <1>4 DEF UnknownCommand, Sleeping
  <2> QED BY <1>4, <2>1, UplinkQuiet DEF UnknownCommand, fifo
<1>5. CASE \E c \in Commands : Obey(c)
  BY <1>0, <1>5, ObeyKeeps
<1>6. CASE Downlink \/ LoggerReceives \/ ModeSignal
  <2>1. UNCHANGED <<written, ends, taken, uplink, obeyed>>
    BY <1>6 DEF Downlink, SuspendedRound, LinkRound, SendReport, SendSnapshot,
                WriteBus, LoggerReceives, ModeSignal, fifo
  <2> QED BY <2>1, UplinkQuiet
<1>7. CASE GroundWrites
  BY <1>0, <1>7, WriteKeeps
<1> QED BY <1>1, <1>2, <1>3, <1>4, <1>5, <1>6, <1>7 DEF Next, Uplink

\* Every step keeps the latch in agreement with the reports.
LEMMA LinkNext ==
  ASSUME TypeOK, LinkInv, Next
  PROVE  LinkInv'
<1>0. LinkType
  BY DEF TypeOK, LinkType
<1>1. CASE Uplink \/ GroundWrites \/ LoggerReceives \/ ModeSignal \/ WriteBus
  <2>1. /\ UNCHANGED reported /\ comms'.fault_active = comms.fault_active
        /\ comms'.quality = comms.quality /\ downlink'.severity = downlink.severity
        /\ \/ downlink' = downlink
           \/ downlink.at = "write" /\ downlink'.at = "sleep"
    <3>1. CASE UplinkIdle \/ UplinkActive
      <4>1. \E b \in BOOLEAN : comms' = [comms EXCEPT !.uplink_active = b]
        BY <3>1 DEF UplinkIdle, UplinkActive
      <4>2. UNCHANGED <<reported, downlink>>
        BY <3>1 DEF UplinkIdle, UplinkActive
      <4> QED BY <1>0, <4>1, <4>2 DEF LinkType
    <3>2. CASE WriteBus
      BY <1>0, <3>2 DEF LinkType, WriteBus
    <3>3. CASE \/ UplinkRead \/ UnknownCommand \/ \E c \in Commands : Obey(c)
               \/ GroundWrites \/ LoggerReceives \/ ModeSignal
      <4>1. UNCHANGED <<reported, comms, downlink>>
        BY <3>3, Zenon DEF UplinkRead, UnknownCommand, Obey, GroundWrites,
                           LoggerReceives, ModeSignal
      <4> QED BY <4>1
    <3> QED BY <1>1, <3>1, <3>2, <3>3 DEF Uplink
  <2> QED BY <2>1 DEF LinkInv
<1>2. CASE SuspendedRound
  <2>1. /\ UNCHANGED reported /\ comms'.fault_active = comms.fault_active
        /\ downlink'.severity = downlink.severity /\ downlink'.at = "sleep"
        /\ downlink.at = "sleep"
    BY <1>0, <1>2 DEF LinkType, SuspendedRound
  <2> QED BY <2>1 DEF LinkInv
<1>3. CASE LinkRound
  <2>1. PICK q \in Qualities :
          /\ comms' = [comms EXCEPT !.downlink_active = TRUE, !.quality = q,
                                    !.fault_active = FaultActive(q)]
          /\ downlink' =
               [at |-> IF Severity(q) # "NONE" THEN "report"
                       ELSE IF Elapsed = 0 THEN "snapshot" ELSE "write",
                elapsed |-> Elapsed, severity |-> Severity(q)]
    BY <1>3 DEF LinkRound
  <2>2. comms'.quality = q /\ comms'.fault_active = FaultActive(q)
    BY <1>0, <2>1 DEF LinkType
  <2>3. /\ downlink'.severity = Severity(q)
        /\ downlink'.at = "report" <=> Severity(q) # "NONE"
    BY <2>1
  <2>4. /\ downlink.severity = "NONE" /\ reported' = reported
        /\ comms.fault_active <=> reported = "CRITICAL"
    BY <1>3 DEF LinkRound, LinkInv
  <2>5. comms.fault_active \in BOOLEAN /\ q \in {"lost", "weak", "good"}
    BY <1>0 DEF LinkType, Qualities
  <2>6. CASE q = "lost"
    BY <2>2, <2>3, <2>4, <2>5, <2>6 DEF LinkInv, Severity, FaultActive
  <2>7. CASE q = "weak"
    BY <2>2, <2>3, <2>4, <2>5, <2>7 DEF LinkInv, Severity, FaultActive
  <2>8. CASE q = "good"
    BY <2>2, <2>3, <2>4, <2>5, <2>8 DEF LinkInv, Severity, FaultActive
  <2> QED BY <2>5, <2>6, <2>7, <2>8
<1>4. CASE SendReport
  <2>1. /\ downlink'.at = "sleep" /\ downlink'.severity = "NONE"
        /\ downlink.at = "report" /\ comms' = comms
        /\ reported' = IF downlink.severity = "WARNING" THEN reported
                                                       ELSE downlink.severity
    BY <1>0, <1>4 DEF LinkType, SendReport, AfterReport
  <2>2. downlink.severity \in {"NONE", "INFO", "WARNING", "CRITICAL"}
    BY <1>0 DEF LinkType
  <2> QED BY <2>1, <2>2 DEF LinkInv
<1>5. CASE SendSnapshot
  <2>1. /\ downlink'.at = "write" /\ downlink'.severity = downlink.severity
        /\ downlink.at = "snapshot" /\ comms' = comms /\ reported' = reported
    BY <1>0, <1>5 DEF LinkType, SendSnapshot
  <2> QED BY <2>1 DEF LinkInv
<1> QED BY <1>1, <1>2, <1>3, <1>4, <1>5 DEF Next, Downlink

-----------------------------------------------------------------------------
(***************************************************************************)
(* Theorems                                                                *)
(***************************************************************************)
\* The invariant is kept by every step.
LEMMA InvNext == Inv /\ [Next]_vars => Inv'
<1> SUFFICES ASSUME Inv, [Next]_vars PROVE Inv'
  OBVIOUS
<1>1. CASE Next
  <2>1. UplinkType' /\ LinkType' /\ UplinkInv' /\ LinkInv'
    BY <1>1, UplinkTypeNext, LinkTypeNext, UplinkNext, LinkNext DEF Inv
  <2>2. TypeOK'
    BY <2>1 DEF TypeOK, UplinkType, LinkType
  <2> QED BY <2>1, <2>2 DEF Inv
<1>2. CASE UNCHANGED vars
  <2>1. UplinkInv'
    BY <1>2, UplinkQuiet DEF vars, fifo, Inv
  <2>2. TypeOK' /\ LinkInv'
    BY <1>2 DEF vars, fifo, Inv, TypeOK, LinkInv
  <2> QED BY <2>1, <2>2 DEF Inv
<1> QED BY <1>1, <1>2

\* Every variable stays in its domain, and the text within its buffer.
THEOREM TypeCorrect == Spec => []TypeOK
<1>1. Inv => TypeOK
  BY DEF Inv
<1> QED BY <1>1, InitInv, InvNext, PTL DEF Spec

\* A command that is obeyed is in the bytes that the ground wrote, by itself
\* but for where writes run together to it or a full buffer cuts it off;
\* commands are obeyed in the order of the bytes, and no byte is part of two.
\* Whatever bytes the ground writes, and in whatever pieces.
THEOREM CommandsInOrder == Spec => []ObeyedInOrder
<1>1. Inv => ObeyedInOrder
  BY DEF Inv, UplinkInv, ObeyedInv
<1> QED BY <1>1, InitInv, InvNext, PTL DEF Spec

\* A bad link is shown on the bus only after its loss has been reported, and
\* before its return is.
THEOREM BadLinkReportedFirst == Spec => ShownAfterReported
<1>1. Inv /\ [Next]_vars =>
        [WriteBus /\ bus'.quality # "good" => reported = "CRITICAL"]_vars
  <2> SUFFICES ASSUME Inv, WriteBus, bus'.quality # "good"
               PROVE  reported = "CRITICAL"
    OBVIOUS
  <2>1. downlink.at = "write" /\ comms.quality # "good"
    BY DEF WriteBus
  <2>2. downlink.severity \in {"NONE", "INFO", "WARNING", "CRITICAL"}
    BY DEF Inv, TypeOK
  <2> QED BY <2>1, <2>2 DEF Inv, LinkInv
<1> QED BY <1>1, InitInv, InvNext, PTL DEF Spec, ShownAfterReported

\* The reports on a lost and on a restored link alternate.
THEOREM LinkReportsAlternate == Spec => ReportsAlternate
<1>1. Inv /\ [Next]_vars =>
        [SendReport => (downlink.severity = "INFO" <=> reported = "CRITICAL")]_vars
  <2> SUFFICES ASSUME Inv, SendReport
               PROVE  downlink.severity = "INFO" <=> reported = "CRITICAL"
    OBVIOUS
  <2>1. downlink.at = "report"
    BY DEF SendReport
  <2>2. downlink.severity \in {"NONE", "INFO", "WARNING", "CRITICAL"}
    BY DEF Inv, TypeOK
  <2> QED BY <2>1, <2>2 DEF Inv, LinkInv
<1> QED BY <1>1, InitInv, InvNext, PTL DEF Spec, ReportsAlternate
=============================================================================
