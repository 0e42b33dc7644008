------------------------- MODULE FaultLogFateProofs -------------------------
(***************************************************************************)
(* FaultLog implements ReportFate, for any threads, any capacity of the    *)
(* queue and any number of reports, missions, crashes and failed writes.   *)
(* OrderInv says enough of where a report can be to show that it leaves    *)
(* its way once; FateInv adds that it does not come back.                  *)
(***************************************************************************)
EXTENDS FaultLogProofs

\* A mission is down only after every thread has stopped.
SendersGone ==
  mission.is = "down" => \A s \in Sender : sender[s].at = "stopped"

\* What is lost or skipped was raised, and is not on its way.
FateInv ==
  /\ SendersGone
  /\ \A r \in lost \cup skipped : r.n <= raised[r.from]
  /\ \A r \in lost \cup skipped : r \notin OnItsWay

\* All that the steps need of the variables.
Known == TypeOK /\ LoggerGone /\ OrderInv /\ FateInv

-----------------------------------------------------------------------------
(***************************************************************************)
(* Where a report is                                                       *)
(***************************************************************************)
\* What is in one of the FIFOs after a step is queued then.
LEMMA InNewQueue ==
  ASSUME NEW v \in Severity, NEW i \in 1..Len(queue'[v])
  PROVE  queue'[v][i] \in Queued'
  BY DEF Queued

\* mq_send adds the report to the queue.
LEMMA QueuedSend ==
  ASSUME TypeOK, NEW r \in Report, MqSend(r)
  PROVE  Queued' = Queued \cup {r}
<1>1. PICK w \in Severity : w = r.severity
  BY DEF Report
<1>2. /\ queue \in [Severity -> Seq(Report)]
      /\ queue' = [queue EXCEPT ![w] = Append(@, r)]
  BY <1>1 DEF TypeOK, MqSend
<1>3. /\ Len(queue'[w]) = Len(queue[w]) + 1 /\ Len(queue[w]) \in Nat
      /\ \A i \in 1..Len(queue[w]) : queue'[w][i] = queue[w][i]
      /\ queue'[w][Len(queue[w]) + 1] = r
  BY <1>2
<1>4. \A v \in Severity \ {w} : queue'[v] = queue[v]
  BY <1>2
<1>5. ASSUME NEW v \in Severity, NEW i \in 1..Len(queue'[v])
      PROVE  queue'[v][i] \in Queued \cup {r}
  <2>1. CASE v # w
    BY <1>4, <2>1, InQueue
  <2>2. CASE v = w
    <3>1. i \in 1..Len(queue[w]) \/ i = Len(queue[w]) + 1
      BY <1>3, <2>2
    <3>2. QED
      BY <1>3, <2>2, <3>1, InQueue
  <2>3. QED
    BY <2>1, <2>2
<1>6. ASSUME NEW v \in Severity, NEW i \in 1..Len(queue[v])
      PROVE  queue[v][i] \in Queued'
  <2>1. i \in 1..Len(queue'[v]) /\ queue'[v][i] = queue[v][i]
    <3>1. CASE v # w
      BY <1>4, <3>1
    <3>2. CASE v = w
      BY <1>3, <3>2
    <3>3. QED
      BY <3>1, <3>2
  <2>2. queue'[v][i] \in Queued'
    BY <2>1 DEF Queued
  <2>3. QED
    BY <2>1, <2>2
<1>7. r \in Queued'
  <2>1. Len(queue[w]) + 1 \in 1..Len(queue'[w])
    BY <1>3
  <2>2. queue'[w][Len(queue[w]) + 1] \in Queued'
    BY <2>1 DEF Queued
  <2>3. QED
    BY <1>3, <2>2
<1>8. ASSUME NEW b \in Queued' PROVE b \in Queued \cup {r}
  <2>1. PICK v \in Severity : \E i \in 1..Len(queue'[v]) : b = queue'[v][i]
    BY DEF Queued
  <2>2. QED
    BY <1>5, <2>1
<1>9. ASSUME NEW b \in Queued PROVE b \in Queued'
  <2>1. PICK v \in Severity : \E i \in 1..Len(queue[v]) : b = queue[v][i]
    BY DEF Queued
  <2>2. QED
    BY <1>6, <2>1
<1>10. QED
  BY <1>7, <1>8, <1>9

\* mq_timedreceive takes one report from the queue and leaves the others.
LEMMA QueuedTake ==
  ASSUME TypeOK, NEW w \in Severity, queue[w] # << >>,
         queue' = [queue EXCEPT ![w] = Tail(@)]
  PROVE  Queued \subseteq Queued' \cup {Head(queue[w])}
<1>1. queue \in [Severity -> Seq(Report)]
  BY DEF TypeOK
<1>2. /\ Len(queue[w]) \in Nat /\ Len(queue[w]) >= 1
      /\ Len(queue'[w]) = Len(queue[w]) - 1
      /\ \A i \in 1..Len(queue'[w]) : queue'[w][i] = queue[w][i + 1]
      /\ Head(queue[w]) = queue[w][1]
  BY <1>1
<1>3. \A v \in Severity \ {w} : queue'[v] = queue[v]
  BY <1>1
<1>4. ASSUME NEW v \in Severity, NEW i \in 1..Len(queue'[v])
      PROVE  queue'[v][i] \in Queued'
  BY InNewQueue
<1>5. ASSUME NEW v \in Severity, NEW i \in 1..Len(queue[v])
      PROVE  queue[v][i] \in Queued' \cup {Head(queue[w])}
  <2>1. CASE v # w
    <3>1. queue'[v][i] = queue[v][i] /\ i \in 1..Len(queue'[v])
      BY <1>3, <2>1
    <3>2. QED
      BY <1>4, <3>1
  <2>2. CASE v = w /\ i # 1
    <3>1. i - 1 \in 1..Len(queue'[w]) /\ (i - 1) + 1 = i
      BY <1>2, <2>2
    <3>2. queue'[w][i - 1] = queue[w][i]
      BY <1>2, <3>1
    <3>3. QED
      BY <1>4, <2>2, <3>1, <3>2
  <2>3. CASE v = w /\ i = 1
    BY <1>2, <2>3
  <2>4. QED
    BY <2>1, <2>2, <2>3
<1>6. ASSUME NEW b \in Queued
      PROVE  b \in Queued' \cup {Head(queue[w])}
  <2>1. PICK v \in Severity : \E i \in 1..Len(queue[v]) : b = queue[v][i]
    BY DEF Queued
  <2>2. PICK i \in 1..Len(queue[v]) : b = queue[v][i]
    BY <2>1
  <2>3. QED
    BY <1>5, <2>2
<1>7. QED
  BY <1>6

\* A report that has been sent is in no sender's hand any more.
LEMMA NotInHand ==
  ASSUME TypeOK, OrderInv, NEW r \in Taken \cup Queued
  PROVE  r \notin InHand
<1>1. SUFFICES ASSUME NEW t \in Sender, sender[t].at = "send",
                      sender[t].report = r
               PROVE  FALSE
  BY DEF InHand
<1>2. r.from = t /\ r.n = raised[t] /\ Sent(r)
  BY <1>1 DEF OrderInv
<1>3. r.n < raised[t] /\ raised[t] \in Nat
  BY <1>1, <1>2, FaultLogAssumption DEF Sent, TypeOK
<1>4. QED
  BY <1>2, <1>3

\* What is on its way are reports.
LEMMA OnItsWayType == TypeOK => OnItsWay \subseteq Report /\ InHand \subseteq Report
<1>1. SUFFICES ASSUME TypeOK PROVE InHand \subseteq Report /\ Taken \subseteq Report
  BY QueuedType DEF OnItsWay, Taken
<1>2. QED
  BY <1>1, SentAreReports DEF InHand, TypeOK

\* A report on its way has been raised.
LEMMA OnItsWayRaised ==
  ASSUME TypeOK, OrderInv, NEW r \in OnItsWay
  PROVE  r.from \in Sender /\ r.n \in Nat /\ r.n <= raised[r.from]
<1>1. r \in Report
  BY OnItsWayType
<1>2. r.from \in Sender /\ r.n \in Nat
  BY <1>1, FaultLogAssumption DEF Report
<1>3. CASE r \in Taken \cup Queued
  BY <1>2, <1>3 DEF OrderInv, Sent
<1>4. CASE r \in InHand
  <2>1. PICK t \in Sender : sender[t].at = "send" /\ sender[t].report = r
    BY <1>4 DEF InHand
  <2>2. r.from = t /\ r.n = raised[t] /\ raised[t] \in Nat
    BY <2>1, FaultLogAssumption DEF OrderInv, TypeOK
  <2>3. QED
    BY <1>2, <2>2
<1>5. QED
  BY <1>3, <1>4 DEF OnItsWay, Taken
-----------------------------------------------------------------------------
(***************************************************************************)
(* The abstract steps                                                      *)
(***************************************************************************)
\* Where a report is decides on its fate.
LEMMA FateOf ==
  ASSUME NEW r \in Report
  PROVE  fate[r] = IF r \in OnItsWay THEN "pending"
                   ELSE IF r \in lost THEN "lost"
                   ELSE IF r \in skipped THEN "skipped"
                   ELSE IF r \in Logged THEN "logged" ELSE "none"
  BY DEF fate

\* A step that moves no report is a stutter.
LEMMA FateSame ==
  ASSUME UNCHANGED <<lost, skipped, entries>>, OnItsWay' = OnItsWay
  PROVE  UNCHANGED fate
<1>1. Logged' = Logged
  BY DEF Logged
<1>2. QED
  BY <1>1 DEF fate

\* A step that moves nothing but h changes the fate of h only.
LEMMA FateMove ==
  ASSUME NEW h \in Report, NEW f,
         \A r \in Report \ {h} : /\ r \in OnItsWay' <=> r \in OnItsWay
                                 /\ r \in lost' <=> r \in lost
                                 /\ r \in skipped' <=> r \in skipped
                                 /\ r \in Logged' <=> r \in Logged,
         fate'[h] = f
  PROVE  fate' = [fate EXCEPT ![h] = f]
<1>1. \A r \in Report \ {h} : fate'[r] = fate[r]
  BY DEF fate
<1>2. DOMAIN fate = Report /\ DOMAIN fate' = Report
  BY DEF fate
<1>3. fate = [r \in Report |-> fate[r]] /\ fate' = [r \in Report |-> fate'[r]]
  BY DEF fate
<1>4. QED
  BY <1>1, <1>2, <1>3
-----------------------------------------------------------------------------
(***************************************************************************)
(* The steps.  Each is a step of ReportFate, and keeps FateInv.            *)
(***************************************************************************)
\* A step that moves no report, and no number of reports, keeps FateInv.
LEMMA FateFrame ==
  ASSUME FateInv, SendersGone', UNCHANGED <<lost, skipped, entries, raised>>,
         OnItsWay' = OnItsWay
  PROVE  UNCHANGED fate /\ FateInv'
  BY FateSame DEF FateInv

\* A thread stops, with no report in its hand.
LEMMA FateStop ==
  ASSUME Known, NEW s \in Sender, StopSender(s)
  PROVE  UNCHANGED fate /\ FateInv'
<1>1. /\ sender' = [sender EXCEPT ![s].at = "stopped"] /\ sender[s].at = "test"
      /\ UNCHANGED <<mission, queue, logger, lost, skipped, entries, raised>>
  BY DEF StopSender
<1>2. \A t \in Sender \ {s} : sender'[t] = sender[t]
  BY <1>1 DEF Known, TypeOK
<1>3. sender'[s].at = "stopped"
  BY <1>1 DEF Known, TypeOK
<1>4. SendersGone'
  BY <1>1, <1>2, <1>3 DEF Known, FateInv, SendersGone
<1>5. InHand' = InHand
  <2>1. {t \in Sender : sender'[t].at = "send"} = {t \in Sender : sender[t].at = "send"}
    BY <1>1, <1>2, <1>3
  <2>2. \A t \in Sender : sender[t].at = "send" => sender'[t].report = sender[t].report
    BY <1>1, <1>2
  <2>3. QED
    BY <2>1, <2>2 DEF InHand
<1>6. OnItsWay' = OnItsWay
  BY <1>1, <1>5 DEF OnItsWay, Queued
<1>7. QED
  BY <1>1, <1>4, <1>6, FateFrame DEF Known

\* The report that a thread raises has met no fate yet.
LEMMA FateRaise ==
  ASSUME Known, NEW s \in Sender, RaiseReport(s)
  PROVE  (\E r \in Report : Fate!Raise(r)) /\ FateInv'
<1>1. PICK v \in Severities :
        sender' = [sender EXCEPT ![s] =
                     [at |-> "send",
                      report |-> [from |-> s, severity |-> v,
                                  n |-> raised[s] + 1]]]
  BY DEF RaiseReport
<1> DEFINE h == [from |-> s, severity |-> v, n |-> raised[s] + 1]
<1>2. /\ sender[s].at = "test" /\ mission' = mission
      /\ UNCHANGED <<queue, logger, lost, skipped, entries>>
      /\ raised' = [raised EXCEPT ![s] = @ + 1]
  BY DEF RaiseReport
<1>3. /\ raised \in [Sender -> 0..MaxReports] /\ MaxReports \in Nat
      /\ raised[s] \in Nat /\ raised[s] < MaxReports
  BY FaultLogAssumption DEF Known, TypeOK, RaiseReport
<1>4. h \in Report /\ h.from = s /\ h.n = raised[s] + 1
  BY <1>3, FaultLogAssumption DEF Report, Severity
<1> HIDE DEF h
<1>5. /\ sender'[s].at = "send" /\ sender'[s].report = h
      /\ \A t \in Sender \ {s} : sender'[t] = sender[t]
  BY <1>1 DEF Known, TypeOK, h
<1>6. InHand' = InHand \cup {h}
  <2>1. {t \in Sender : sender'[t].at = "send"}
          = {t \in Sender : sender[t].at = "send"} \cup {s}
    BY <1>5
  <2>2. s \notin {t \in Sender : sender[t].at = "send"}
    BY <1>2
  <2>3. QED
    BY <1>5, <2>1, <2>2 DEF InHand
<1>7. OnItsWay' = OnItsWay \cup {h} /\ Logged' = Logged
  BY <1>2, <1>6 DEF OnItsWay, Queued, Logged
<1>8. h \notin OnItsWay
  BY <1>3, <1>4, OnItsWayRaised DEF Known
<1>9. h \notin lost /\ h \notin skipped
  BY <1>3, <1>4 DEF Known, FateInv
<1>10. h \notin Logged
  BY <1>3, <1>4 DEF Known, OrderInv, Sent
<1>11. fate[h] = "none" /\ fate'[h] = "pending"
  <2>1. fate[h] = "none"
    BY <1>4, <1>8, <1>9, <1>10, FateOf
  <2>2. fate'[h] = "pending"
    BY <1>4, <1>7 DEF fate
  <2>3. QED
    BY <2>1, <2>2
<1>12. fate' = [fate EXCEPT ![h] = "pending"]
  BY <1>2, <1>4, <1>7, <1>11, FateMove
<1>13. Fate!Raise(h)
  BY <1>11, <1>12 DEF Fate!Raise
<1>14. SendersGone'
  <2>1. mission.is # "down"
    BY <1>2 DEF Known, FateInv, SendersGone
  <2>2. QED
    BY <1>2, <2>1 DEF SendersGone
<1>15. ASSUME NEW r \in lost \cup skipped PROVE r.n <= raised'[r.from]
  <2>1. r.from \in Sender /\ r.n \in Nat /\ r.n <= raised[r.from]
    BY FaultLogAssumption DEF Known, FateInv, TypeOK, Report
  <2>2. CASE r.from = s
    BY <1>2, <1>3, <2>1, <2>2
  <2>3. CASE r.from # s
    BY <1>2, <1>3, <2>1, <2>3
  <2>4. QED
    BY <2>2, <2>3
<1>16. FateInv'
  BY <1>2, <1>7, <1>9, <1>14, <1>15 DEF Known, FateInv
<1>17. QED
  BY <1>4, <1>13, <1>16

\* mq_send hands the report over: it stays on its way.
LEMMA FateSend ==
  ASSUME Known, NEW s \in Sender, SendReport(s)
  PROVE  UNCHANGED fate /\ FateInv'
<1> DEFINE h == sender[s].report
<1>1. /\ sender[s].at = "send" /\ MqSend(h)
      /\ sender' = [sender EXCEPT ![s] = Idle]
      /\ UNCHANGED <<mission, logger, lost, skipped, entries, raised>>
  BY DEF SendReport
<1>2. h \in Report /\ TypeOK
  BY <1>1 DEF Known, TypeOK
<1>3. Queued' = Queued \cup {h}
  BY <1>1, <1>2, QueuedSend
<1>4. /\ sender'[s].at = "test"
      /\ \A t \in Sender \ {s} : sender'[t] = sender[t]
  BY <1>1, <1>2 DEF TypeOK, Idle
<1>5. InHand = InHand' \cup {h}
  <2>1. {t \in Sender : sender[t].at = "send"}
          = {t \in Sender : sender'[t].at = "send"} \cup {s}
    BY <1>1, <1>4
  <2>2. s \notin {t \in Sender : sender'[t].at = "send"}
    BY <1>4
  <2>3. QED
    BY <1>4, <2>1, <2>2 DEF InHand
<1>6. OnItsWay' = OnItsWay
  BY <1>1, <1>3, <1>5 DEF OnItsWay
<1>7. SendersGone'
  BY <1>1 DEF Known, FateInv, SendersGone
<1>8. QED
  BY <1>1, <1>6, <1>7, FateFrame DEF Known

\* A report that the logger takes goes on, or is skipped and nowhere else.
LEMMA FateReceive ==
  ASSUME Known, Receive
  PROVE  (UNCHANGED fate \/ \E r \in Report : Fate!Skip(r)) /\ FateInv'
<1>1. PICK v \in Severity :
        /\ Urgent(v)
        /\ queue' = [queue EXCEPT ![v] = Tail(@)]
        /\ LET r == Head(queue[v])
           IN  IF Loggable(r)
               THEN /\ logger' = [logger EXCEPT !.at = "write", !.report = r]
                    /\ UNCHANGED skipped
               ELSE /\ logger' = [logger EXCEPT !.at = "test"]
                    /\ skipped' = skipped \cup {r}
  BY DEF Receive
<1> DEFINE h == Head(queue[v])
<1>2. TypeOK /\ OrderInv /\ FateInv
  BY DEF Known
<1>3. /\ queue[v] # << >> /\ QueueOrder
  BY <1>1, <1>2 DEF Urgent, OrderInv
<1>4. /\ h \in Queued /\ Queued' \subseteq Queued
      /\ \A b \in Queued' : Before(h, b)
  BY <1>1, <1>2, <1>3, OrderTake
<1>5. Queued = Queued' \cup {h}
  BY <1>1, <1>2, <1>3, <1>4, QueuedTake
<1>6. h \in Report /\ h.n \in Nat
  BY <1>2, <1>4, QueuedType, FaultLogAssumption DEF Report
<1>7. h \notin Queued' /\ h \notin InHand
  <2>1. ~ Before(h, h)
    BY <1>6 DEF Before
  <2>2. QED
    BY <1>2, <1>4, <2>1, NotInHand
<1>8. /\ Taken = {} /\ logger.report = NoReport
      /\ UNCHANGED <<mission, sender, lost, entries, raised>>
  BY <1>2 DEF Receive, Taken, TypeOK
<1>9. InHand' = InHand /\ SendersGone' /\ Logged' = Logged
  BY <1>2, <1>8 DEF InHand, FateInv, SendersGone, Logged
<1>10. OnItsWay = InHand \cup Queued
  BY <1>8 DEF OnItsWay, Taken
<1> HIDE DEF h
<1>11. CASE Loggable(h)
  <2>1. /\ logger' = [logger EXCEPT !.at = "write", !.report = h]
        /\ skipped' = skipped
    BY <1>1, <1>11 DEF h
  <2>2. logger'.report = h /\ h # NoReport
    BY <1>2, <1>6, <2>1, NoReportIsNone DEF TypeOK
  <2>3. OnItsWay' = OnItsWay
    BY <1>5, <1>9, <1>10, <2>2 DEF OnItsWay
  <2>4. QED
    BY <1>2, <1>8, <1>9, <2>1, <2>3, FateFrame
<1>12. CASE ~Loggable(h)
  <2>1. /\ logger' = [logger EXCEPT !.at = "test"]
        /\ skipped' = skipped \cup {h}
    BY <1>1, <1>12 DEF h
  <2>2. logger'.report = NoReport
    BY <1>2, <1>8, <2>1 DEF TypeOK
  <2>3. OnItsWay' = InHand \cup Queued'
    BY <1>9, <2>2 DEF OnItsWay
  <2>4. h \in OnItsWay /\ h \notin OnItsWay' /\ OnItsWay = OnItsWay' \cup {h}
    BY <1>5, <1>7, <1>10, <2>3
  <2>5. h \notin lost /\ h \notin Critical
    BY <1>2, <1>12, <2>4 DEF FateInv, Loggable, Critical
  <2>6. fate[h] = "pending"
    BY <1>6, <2>4, FateOf
  <2>7. fate'[h] = "skipped"
    BY <1>6, <1>8, <2>1, <2>4, <2>5 DEF fate
  <2>8. fate' = [fate EXCEPT ![h] = "skipped"]
    BY <1>6, <1>8, <1>9, <2>1, <2>4, <2>7, FateMove
  <2>9. Fate!Skip(h)
    BY <2>5, <2>6, <2>8 DEF Fate!Skip
  <2>10. h.n <= raised[h.from]
    BY <1>2, <2>4, OnItsWayRaised
  <2>11. FateInv'
    BY <1>2, <1>8, <1>9, <2>1, <2>4, <2>10 DEF FateInv
  <2>12. QED
    BY <1>6, <2>9, <2>11
<1>13. QED
  BY <1>11, <1>12

\* What the logger has taken is nowhere else.
LEMMA TakenOnly ==
  ASSUME Known, NEW r \in Taken
  PROVE  /\ r \in Report /\ r \in OnItsWay /\ r \notin InHand
         /\ r \notin Queued /\ r \notin lost /\ r \notin skipped
         /\ r.n <= raised[r.from]
<1>1. TypeOK /\ OrderInv /\ FateInv
  BY DEF Known
<1>2. r \in Report /\ r.n \in Nat
  BY <1>1, SentAreReports, FaultLogAssumption DEF Report
<1>3. r \in OnItsWay
  BY DEF OnItsWay, Taken
<1>4. r \notin Queued
  BY <1>1, <1>2 DEF OrderInv, Before
<1>5. QED
  BY <1>1, <1>2, <1>3, <1>4, NotInHand, OnItsWayRaised DEF FateInv

\* The entry is appended: the report is logged, and nowhere else.
LEMMA FateAppend ==
  ASSUME Known, AppendEntry
  PROVE  (\E r \in Report : Fate!Log(r)) /\ FateInv'
<1> DEFINE h == logger.report
<1>1. TypeOK /\ FateInv /\ h \in Taken
  BY NoReportIsNone DEF Known, AppendEntry, TypeOK, Taken
<1>2. /\ h \in Report /\ h \in OnItsWay /\ h \notin InHand
      /\ h \notin Queued /\ h \notin lost /\ h \notin skipped
  BY <1>1, TakenOnly
<1>3. /\ UNCHANGED <<mission, sender, queue, lost, skipped, raised>>
      /\ logger'.report = NoReport
  BY <1>1 DEF AppendEntry, TypeOK
<1>4. InHand' = InHand /\ Queued' = Queued /\ SendersGone'
  BY <1>1, <1>3 DEF InHand, Queued, FateInv, SendersGone
<1>5. OnItsWay' = InHand \cup Queued /\ OnItsWay = OnItsWay' \cup {h}
  BY <1>1, <1>3, <1>4 DEF OnItsWay, Taken
<1>6. Logged' = Logged \cup {h}
  <2>1. PICK e : e = [entry_id |-> entry_count + 1, report |-> h]
                 /\ entries' = Append(entries, e)
    BY DEF AppendEntry
  <2>2. e.report = h
    BY <2>1
  <2>3. /\ \A i \in 1..Len(entries) : entries'[i] = entries[i]
        /\ entries'[Len(entries) + 1] = e /\ Len(entries) \in Nat
        /\ DOMAIN entries = 1..Len(entries)
        /\ DOMAIN entries' = 1..(Len(entries) + 1)
    <3>1. entries \in Seq([entry_id : Nat, report : Report])
      BY <1>1 DEF TypeOK
    <3>2. e \in [entry_id : Nat, report : Report]
      BY <1>1, <1>2, <2>1 DEF TypeOK
    <3>3. QED
      BY <2>1, <3>1, <3>2
  <2>4. DOMAIN entries' = DOMAIN entries \cup {Len(entries) + 1}
          /\ Len(entries) + 1 \notin DOMAIN entries
    BY <2>3
  <2>5. QED
    BY <2>2, <2>3, <2>4 DEF Logged
<1> HIDE DEF h
<1>7. fate[h] = "pending"
  BY <1>2, FateOf
<1>8. fate'[h] = "logged"
  BY <1>2, <1>3, <1>5, <1>6 DEF fate
<1>9. fate' = [fate EXCEPT ![h] = "logged"]
  BY <1>2, <1>3, <1>5, <1>6, <1>8, FateMove
<1>10. Fate!Log(h)
  BY <1>7, <1>9 DEF Fate!Log
<1>11. FateInv'
  BY <1>1, <1>3, <1>4, <1>5 DEF FateInv
<1>12. QED
  BY <1>2, <1>10, <1>11

\* A step that drops some of the reports on their way loses them.
LEMMA FateLose ==
  ASSUME Known, SendersGone', NEW S, S \subseteq OnItsWay,
         OnItsWay' = OnItsWay \ S, lost' = lost \cup S,
         UNCHANGED <<skipped, entries, raised>>
  PROVE  Fate!Lose /\ FateInv'
<1>1. TypeOK /\ OrderInv /\ FateInv /\ Logged' = Logged
  BY DEF Known, Logged
<1>2. S \subseteq Report
  BY <1>1, OnItsWayType
<1>3. \A r \in S : fate[r] = "pending"
  BY <1>2, FateOf
<1>4. ASSUME NEW r \in Report
      PROVE  fate'[r] = IF r \in S THEN "lost" ELSE fate[r]
  <2>1. CASE r \in S
    BY <2>1 DEF fate
  <2>2. CASE r \notin S
    BY <1>1, <2>2 DEF fate
  <2>3. QED
    BY <2>1, <2>2
<1>5. fate' = [r \in Report |-> fate'[r]]
  BY DEF fate
<1>6. fate' = [r \in Report |-> IF r \in S THEN "lost" ELSE fate[r]]
  BY <1>4, <1>5
<1>7. S \in SUBSET {r \in Report : fate[r] = "pending"}
  BY <1>2, <1>3
<1>8. Fate!Lose
  BY <1>6, <1>7 DEF Fate!Lose
<1>9. \A r \in S : r.n <= raised[r.from]
  BY <1>1, OnItsWayRaised
<1>10. FateInv'
  BY <1>1, <1>9 DEF FateInv
<1>11. QED
  BY <1>8, <1>10

\* An entry that cannot be written loses the report.
LEMMA FateAppendFails ==
  ASSUME Known, AppendFails
  PROVE  Fate!Lose /\ FateInv'
<1> DEFINE h == logger.report
<1>1. TypeOK /\ FateInv /\ h \in Taken
  BY NoReportIsNone DEF Known, AppendFails, TypeOK, Taken
<1>2. h \in OnItsWay /\ h \notin InHand /\ h \notin Queued
  BY <1>1, TakenOnly
<1>3. /\ UNCHANGED <<mission, sender, queue, skipped, entries, raised>>
      /\ logger'.report = NoReport /\ lost' = lost \cup {h}
  BY <1>1 DEF AppendFails, TypeOK
<1>4. InHand' = InHand /\ Queued' = Queued /\ SendersGone'
  BY <1>1, <1>3 DEF InHand, Queued, FateInv, SendersGone
<1>5. OnItsWay' = OnItsWay \ {h}
  BY <1>1, <1>2, <1>3, <1>4 DEF OnItsWay, Taken
<1>6. QED
  BY <1>2, <1>3, <1>4, <1>5, FateLose

\* A logger that crashes loses the report that it has taken, if any.
LEMMA FateCrash ==
  ASSUME Known, LoggerCrash
  PROVE  Fate!Lose /\ FateInv'
<1>1. TypeOK /\ FateInv
  BY DEF Known
<1>2. /\ UNCHANGED <<mission, sender, queue, skipped, entries, raised>>
      /\ logger'.report = NoReport /\ lost' = lost \cup Taken
  BY <1>1 DEF LoggerCrash, NewLogger, Taken
<1>3. InHand' = InHand /\ Queued' = Queued /\ SendersGone'
  BY <1>1, <1>2 DEF InHand, Queued, FateInv, SendersGone
<1>4. \A r \in Taken : r \in OnItsWay /\ r \notin InHand /\ r \notin Queued
  BY TakenOnly
<1>5. OnItsWay' = OnItsWay \ Taken
  BY <1>2, <1>3, <1>4 DEF OnItsWay, Taken
<1>6. QED
  BY <1>2, <1>3, <1>4, <1>5, FateLose

\* clean_ipc loses what is queued; nothing else is on its way.
LEMMA FateClean ==
  ASSUME Known, CleanIpc
  PROVE  Fate!Lose /\ FateInv'
<1>1. TypeOK /\ FateInv
  BY DEF Known
<1>2. /\ UNCHANGED <<sender, logger, skipped, entries, raised>>
      /\ lost' = lost \cup Queued /\ Queued' = {}
      /\ \A s \in Sender : sender[s].at = "stopped"
  BY DEF CleanIpc, Queued
<1>3. InHand = {} /\ InHand' = {} /\ SendersGone'
  BY <1>2 DEF InHand, SendersGone
<1>4. logger.report = NoReport /\ logger'.report = NoReport
  BY <1>1, <1>2 DEF CleanIpc, TypeOK
<1>5. OnItsWay = Queued /\ OnItsWay' = {}
  BY <1>2, <1>3, <1>4 DEF OnItsWay
<1>6. QED
  BY <1>2, <1>3, <1>5, FateLose

\* When a mission starts no thread and no logger has a report.
LEMMA FateNewMission ==
  ASSUME Known, NewMission
  PROVE  UNCHANGED fate /\ FateInv'
<1>1. TypeOK /\ FateInv /\ LoggerGone
  BY DEF Known
<1>2. /\ UNCHANGED <<queue, lost, skipped, entries, raised>>
      /\ mission.is = "down" /\ mission'.is = "up"
      /\ logger'.report = NoReport
      /\ \A s \in Sender : sender'[s].at = "test"
  BY DEF NewMission, NewLogger, Idle
<1>3. InHand = {} /\ InHand' = {} /\ SendersGone'
  BY <1>1, <1>2 DEF InHand, FateInv, SendersGone
<1>4. logger.report = NoReport
  BY <1>1, <1>2 DEF LoggerGone, TypeOK
<1>5. OnItsWay' = OnItsWay
  BY <1>2, <1>3, <1>4 DEF OnItsWay, Queued
<1>6. QED
  BY <1>1, <1>2, <1>3, <1>5, FateFrame

\* The other steps move no report.
LEMMA FateOther ==
  ASSUME Known,
         \/ TestLoop \/ Timeout \/ UpdateCount \/ CountFails \/ LoggerExit
         \/ ModeSignal \/ Shutdown \/ \E p \in Sender \cup {Logger} : HandleSigterm(p)
         \/ UNCHANGED vars
  PROVE  UNCHANGED fate /\ FateInv'
<1>1. TypeOK /\ FateInv
  BY DEF Known
<1>2. UNCHANGED <<sender, queue, lost, skipped, entries, raised>>
  BY DEF TestLoop, Timeout, UpdateCount, CountFails, LoggerExit, ModeSignal,
         Shutdown, HandleSigterm, vars
<1>3. logger'.report = logger.report
  BY <1>1 DEF TestLoop, Timeout, UpdateCount, CountFails, LoggerExit, ModeSignal,
              Shutdown, HandleSigterm, vars, TypeOK
<1>4. mission'.is = "down" => mission.is = "down"
  BY <1>1 DEF TestLoop, Timeout, UpdateCount, CountFails, LoggerExit, ModeSignal,
              Shutdown, HandleSigterm, vars, TypeOK
<1>5. SendersGone'
  BY <1>1, <1>2, <1>4 DEF FateInv, SendersGone
<1>6. OnItsWay' = OnItsWay
  BY <1>2, <1>3 DEF OnItsWay, InHand, Queued
<1>7. QED
  BY <1>1, <1>2, <1>5, <1>6, FateFrame

-----------------------------------------------------------------------------
\* Nothing has been raised, and every fate is "none".
LEMMA FateInit == Init => Fate!Init /\ FateInv
<1>1. SUFFICES ASSUME Init PROVE Fate!Init /\ FateInv
  OBVIOUS
<1>2. lost = {} /\ skipped = {} /\ Logged = {}
  BY <1>1 DEF Init, Logged
<1>3. InHand = {} /\ Queued = {} /\ logger.report = NoReport
  BY <1>1 DEF Init, InHand, Idle, Queued, NewLogger
<1>4. OnItsWay = {}
  BY <1>3 DEF OnItsWay
<1>5. Fate!Init
  BY <1>2, <1>4 DEF fate, Fate!Init
<1>6. FateInv
  BY <1>1, <1>2 DEF Init, FateInv, SendersGone
<1>7. QED
  BY <1>5, <1>6

\* Every step is a step of ReportFate or a stutter, and keeps FateInv.
LEMMA FateStep == Known /\ [Next]_vars => [Fate!Next]_fate /\ FateInv'
<1> SUFFICES ASSUME Known, [Next]_vars PROVE [Fate!Next]_fate /\ FateInv'
  OBVIOUS
<1>1. CASE \E s \in Sender : StopSender(s) \/ RaiseReport(s) \/ SendReport(s)
  BY <1>1, FateStop, FateRaise, FateSend DEF Fate!Next
<1>2. CASE Receive \/ AppendEntry
  BY <1>2, FateReceive, FateAppend DEF Fate!Next
<1>3. CASE AppendFails \/ LoggerCrash \/ CleanIpc
  BY <1>3, FateAppendFails, FateCrash, FateClean DEF Fate!Next
<1>4. CASE NewMission
  BY <1>4, FateNewMission
<1>5. CASE \/ TestLoop \/ Timeout \/ UpdateCount \/ CountFails \/ LoggerExit
           \/ ModeSignal \/ Shutdown \/ \E p \in Sender \cup {Logger} : HandleSigterm(p)
           \/ UNCHANGED vars
  BY <1>5, FateOther
<1>6. QED
  BY <1>1, <1>2, <1>3, <1>4, <1>5 DEF Next

(***************************************************************************)
(* A report that was raised meets one fate, for good: it is logged, it is  *)
(* skipped, which no critical one is, or it is lost; whoever crashes,      *)
(* whatever write fails, and over any number of missions.                  *)
(***************************************************************************)
THEOREM ImplementsReportFate == Spec => FateSpec
<1>1. Init => LoggerGone
  BY DEF Init, LoggerGone
<1>2. Init => TypeOK /\ LoggerGone /\ OrderInv /\ FateInv /\ Fate!Init
  BY <1>1, TypeInit, OrderInit, FateInit
<1>3. Known /\ [Next]_vars => Known' /\ [Fate!Next]_fate
  BY TypeStep, LoggerGoneStep, OrderStep, FateStep DEF Known
<1>4. Init => Known
  BY <1>2 DEF Known
<1>5. QED
  BY <1>2, <1>3, <1>4, PTL DEF Spec, FateSpec, Fate!Spec
=============================================================================
