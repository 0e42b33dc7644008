--------------------------- MODULE FaultLogProofs ---------------------------
(***************************************************************************)
(* Theorems about FaultLog, for any threads, any capacity of the queue and *)
(* any number of reports, missions and crashes: the types, the capacity of *)
(* the queue among them, how far the count in the header and the entry ids *)
(* can be from the entries that are in the log, and the order of these.    *)
(***************************************************************************)
EXTENDS FaultLog, TLAPS

-----------------------------------------------------------------------------
(***************************************************************************)
(* The queue                                                               *)
(***************************************************************************)
Lengths == [v \in Severity |-> Len(queue[v])]

\* The size of the queue is the sum of three natural numbers.
LEMMA SizeIsSum ==
  ASSUME TypeOK
  PROVE  /\ Lengths \in [Severity -> Nat]
         /\ Size = Lengths["CRITICAL"] + Lengths["WARNING"] + Lengths["INFO"]
<1>1. \A v \in Severity : Len(queue[v]) \in Nat
  BY DEF TypeOK
<1>2. Size = Lengths["CRITICAL"] + Lengths["WARNING"] + Lengths["INFO"]
  BY DEF Size, Lengths, Severity
<1>3. QED  BY <1>1, <1>2 DEF Lengths

\* Making one of the three FIFOs d longer makes the queue d larger.
LEMMA SizeChange ==
  ASSUME TypeOK, NEW v \in Severity, NEW d \in Int,
         \A w \in Severity :
           Lengths'[w] = IF w = v THEN Lengths[w] + d ELSE Lengths[w]
  PROVE  Size' = Size + d /\ Size \in Nat
<1>1. Lengths["CRITICAL"] \in Nat /\ Lengths["WARNING"] \in Nat
        /\ Lengths["INFO"] \in Nat
  BY SizeIsSum DEF Severity
<1>2. Size' = Lengths'["CRITICAL"] + Lengths'["WARNING"] + Lengths'["INFO"]
  BY DEF Size, Lengths, Severity
<1>3. Lengths'["CRITICAL"] + Lengths'["WARNING"] + Lengths'["INFO"]
        = Lengths["CRITICAL"] + Lengths["WARNING"] + Lengths["INFO"] + d
  <2>1. CASE v = "CRITICAL"  BY <1>1, <2>1 DEF Severity
  <2>2. CASE v = "WARNING"   BY <1>1, <2>2 DEF Severity
  <2>3. CASE v = "INFO"      BY <1>1, <2>3 DEF Severity
  <2>4. QED  BY <2>1, <2>2, <2>3 DEF Severity
<1>4. QED  BY <1>1, <1>2, <1>3, SizeIsSum

\* A report sent to a queue that is not full leaves it within its capacity.
LEMMA SendType ==
  ASSUME TypeOK, NEW r \in Report, MqSend(r)
  PROVE  /\ queue' \in [Severity -> Seq(Report)]
         /\ Size' <= MQ_MAX_MESSAGES
<1>1. PICK v \in Severity : v = r.severity
  BY DEF Report
<1>2. queue \in [Severity -> Seq(Report)]
        /\ queue' = [queue EXCEPT ![v] = Append(@, r)]
  BY <1>1 DEF TypeOK, MqSend
<1>3. Len(queue'[v]) = Len(queue[v]) + 1
  BY <1>2
<1>4. \A w \in Severity :
        Lengths'[w] = IF w = v THEN Lengths[w] + 1 ELSE Lengths[w]
  BY <1>2, <1>3 DEF Lengths
<1>5. Size' = Size + 1 /\ Size \in Nat
  BY <1>4, SizeChange
<1>6. Size < MQ_MAX_MESSAGES
  BY DEF MqSend
<1>7. QED  BY <1>2, <1>5, <1>6, FaultLogAssumption

\* Taking the head of one of the FIFOs yields a report, and a smaller queue.
LEMMA TakeType ==
  ASSUME TypeOK, NEW v \in Severity, queue[v] # << >>,
         queue' = [queue EXCEPT ![v] = Tail(@)]
  PROVE  /\ Head(queue[v]) \in Report
         /\ queue' \in [Severity -> Seq(Report)]
         /\ Size' <= MQ_MAX_MESSAGES
<1>1. queue \in [Severity -> Seq(Report)] /\ Size <= MQ_MAX_MESSAGES
  BY DEF TypeOK
<1>2. Head(queue[v]) \in Report /\ Tail(queue[v]) \in Seq(Report)
  BY <1>1
<1>3. Len(queue'[v]) = Len(queue[v]) + (-1)
  BY <1>1
<1>4. \A w \in Severity :
        Lengths'[w] = IF w = v THEN Lengths[w] + (-1) ELSE Lengths[w]
  BY <1>1, <1>3 DEF Lengths
<1>5. Size' = Size + (-1) /\ Size \in Nat
  BY <1>4, SizeChange
<1>6. QED  BY <1>1, <1>2, <1>5, FaultLogAssumption

\* What is queued is a report.
LEMMA QueuedType == TypeOK => Queued \subseteq Report
<1>1. SUFFICES ASSUME TypeOK, NEW v \in Severity, NEW i \in 1..Len(queue[v])
               PROVE  queue[v][i] \in Report
  BY DEF Queued
<1>2. QED  BY <1>1 DEF TypeOK

\* Each element of a sequence over S is in S.
LEMMA ElementType ==
  ASSUME NEW S, NEW q \in Seq(S), NEW i \in 1..Len(q)
  PROVE  q[i] \in S
  OBVIOUS

\* The value that stands for no report is not one of the reports.
LEMMA NoReportIsNone == NoReport \notin Report
  BY FaultLogAssumption DEF Report, NoReport

-----------------------------------------------------------------------------
(***************************************************************************)
(* Types                                                                   *)
(***************************************************************************)
\* The empty queue, the idle senders and the new logger have their types.
LEMMA TypeInit == Init => TypeOK
<1>1. SUFFICES ASSUME Init PROVE TypeOK
  OBVIOUS
<1>2. queue = [v \in Severity |-> << >>]
  BY <1>1 DEF Init
<1>3. queue \in [Severity -> Seq(Report)] /\ Size = 0
  BY <1>2 DEF Size, Severity
<1>4. 0 <= MQ_MAX_MESSAGES /\ 0 \in 0..MaxReports
  BY FaultLogAssumption
<1>5. /\ sender \in [Sender -> [at : {"test", "send", "stopped"},
                                report : Report \cup {NoReport}]]
      /\ \A s \in Sender : sender[s].at = "send" => sender[s].report \in Report
  BY <1>1 DEF Init, Idle
<1>6. /\ logger \in [at : {"test", "receive", "write", "count", "exit", "gone"},
                     paused : BOOLEAN, report : Report \cup {NoReport},
                     header : Nat]
      /\ logger.at # "write" /\ logger.report = NoReport
  BY <1>1 DEF Init, NewLogger
<1>7. g_safe_mode \in BOOLEAN
  BY <1>1, Zenon DEF Init
<1>8. /\ mission \in [number : Nat, is : {"up", "stopping", "down"}]
      /\ g_shutdown \subseteq Sender \cup {Logger}
      /\ entries \in Seq([entry_id : Nat, report : Report])
      /\ entry_count \in Nat /\ raised \in [Sender -> 0..MaxReports]
      /\ skipped \subseteq Report /\ lost \subseteq Report /\ crashed \in Nat
      /\ failed \in [entry : Nat, count : Nat]
  BY <1>1, <1>4 DEF Init
<1>9. QED  BY <1>3, <1>4, <1>5, <1>6, <1>7, <1>8, NoReportIsNone DEF TypeOK

\* The steps of a thread that sends, mq_send's included, keep the types.
LEMMA TypeSender ==
  ASSUME TypeOK, NEW s \in Sender,
         StopSender(s) \/ RaiseReport(s) \/ SendReport(s)
  PROVE  TypeOK'
<1>1. CASE StopSender(s)
  BY <1>1 DEF TypeOK, StopSender, Size
<1>2. CASE RaiseReport(s)
  <2>1. raised[s] + 1 \in 1..MaxReports
    BY <1>2, FaultLogAssumption DEF TypeOK, RaiseReport
  <2>2. PICK v \in Severities :
          sender' = [sender EXCEPT ![s] =
                       [at |-> "send",
                        report |-> [from |-> s, severity |-> v,
                                    n |-> raised[s] + 1]]]
    BY <1>2 DEF RaiseReport
  <2>3. [from |-> s, severity |-> v, n |-> raised[s] + 1] \in Report
    BY <2>1, FaultLogAssumption DEF Report, Severity
  <2>4. /\ sender' \in [Sender -> [at : {"test", "send", "stopped"},
                                   report : Report \cup {NoReport}]]
        /\ \A t \in Sender :
             sender'[t].at = "send" => sender'[t].report \in Report
    BY <2>2, <2>3 DEF TypeOK
  <2>5. raised' \in [Sender -> 0..MaxReports]
    BY <1>2, <2>1 DEF TypeOK, RaiseReport
  <2>6. QED
    BY <1>2, <2>4, <2>5 DEF TypeOK, RaiseReport, Size
<1>3. CASE SendReport(s)
  <2>1. sender[s].report \in Report
    BY <1>3 DEF TypeOK, SendReport
  <2>2. queue' \in [Severity -> Seq(Report)] /\ Size' <= MQ_MAX_MESSAGES
    BY <1>3, <2>1, SendType DEF SendReport
  <2>3. /\ sender' \in [Sender -> [at : {"test", "send", "stopped"},
                                   report : Report \cup {NoReport}]]
        /\ \A t \in Sender :
             sender'[t].at = "send" => sender'[t].report \in Report
    BY <1>3 DEF TypeOK, SendReport, Idle
  <2>4. QED
    BY <1>3, <2>2, <2>3 DEF TypeOK, SendReport
<1>4. QED
  BY <1>1, <1>2, <1>3

\* A receive keeps the types: what it takes from the queue is a report.
LEMMA TypeReceive ==
  ASSUME TypeOK, Receive
  PROVE  TypeOK'
<1>1. PICK v \in Severity :
        /\ Urgent(v)
        /\ queue' = [queue EXCEPT ![v] = Tail(@)]
        /\ LET r == Head(queue[v])
           IN  IF Loggable(r)
               THEN /\ logger' = [logger EXCEPT !.at = "write", !.report = r]
                    /\ UNCHANGED skipped
               ELSE /\ logger' = [logger EXCEPT !.at = "test"]
                    /\ skipped' = skipped \cup {r}
  BY DEF Receive
<1>2. /\ Head(queue[v]) \in Report
      /\ queue' \in [Severity -> Seq(Report)] /\ Size' <= MQ_MAX_MESSAGES
  BY <1>1, TakeType DEF Urgent
<1>3. /\ logger \in [at : {"test", "receive", "write", "count", "exit", "gone"},
                     paused : BOOLEAN, report : Report \cup {NoReport},
                     header : Nat]
      /\ logger.report \notin Report /\ skipped \subseteq Report
  BY DEF TypeOK, Receive
<1>4. /\ logger' \in [at : {"test", "receive", "write", "count", "exit", "gone"},
                      paused : BOOLEAN, report : Report \cup {NoReport},
                      header : Nat]
      /\ logger'.at = "write" <=> logger'.report \in Report
      /\ skipped' \subseteq Report
  <2>1. CASE Loggable(Head(queue[v]))
    <3>1. /\ logger' = [logger EXCEPT !.at = "write", !.report = Head(queue[v])]
          /\ skipped' = skipped
      BY <1>1, <2>1
    <3>2. QED
      BY <1>2, <1>3, <3>1
  <2>2. CASE ~Loggable(Head(queue[v]))
    <3>1. /\ logger' = [logger EXCEPT !.at = "test"]
          /\ skipped' = skipped \cup {Head(queue[v])}
      BY <1>1, <2>2
    <3>2. QED
      BY <1>2, <1>3, <3>1
  <2>3. QED
    BY <2>1, <2>2
<1>5. QED
  BY <1>2, <1>4 DEF TypeOK, Receive

\* The other steps of the logger, its crash included, keep the types.
LEMMA TypeLogger ==
  ASSUME TypeOK,
         \/ TestLoop \/ Timeout \/ AppendEntry \/ AppendFails \/ UpdateCount
         \/ CountFails \/ LoggerExit \/ LoggerCrash
  PROVE  TypeOK'
<1>1. CASE TestLoop
  <2>1. /\ logger' \in [at : {"test", "receive", "write", "count", "exit",
                              "gone"},
                        paused : BOOLEAN, report : Report \cup {NoReport},
                        header : Nat]
        /\ logger'.at # "write" /\ logger'.report = logger.report
    <3>1. CASE g_safe_mode = TRUE
      BY <1>1, <3>1 DEF TypeOK, TestLoop
    <3>2. CASE g_safe_mode = FALSE
      BY <1>1, <3>2 DEF TypeOK, TestLoop
    <3>3. g_safe_mode \in BOOLEAN
      BY DEF TypeOK
    <3>4. QED
      BY <3>1, <3>2, <3>3
  <2>2. logger.report \notin Report
    BY <1>1 DEF TypeOK, TestLoop
  <2>3. QED
    BY <1>1, <2>1, <2>2 DEF TypeOK, TestLoop, Size
<1>2. CASE Timeout
  BY <1>2 DEF TypeOK, Timeout, Size
<1>3. CASE AppendEntry
  <2>1. logger.report \in Report /\ entry_count + 1 \in Nat
    BY <1>3 DEF TypeOK, AppendEntry
  <2>2. [entry_id |-> entry_count + 1, report |-> logger.report]
          \in [entry_id : Nat, report : Report]
    BY <2>1
  <2>3. entries' \in Seq([entry_id : Nat, report : Report])
    BY <1>3, <2>2 DEF TypeOK, AppendEntry
  <2>4. QED
    BY <1>3, <2>3, NoReportIsNone DEF TypeOK, AppendEntry, Size
<1>4. CASE AppendFails
  <2>1. logger.report \in Report
    BY <1>4 DEF TypeOK, AppendFails
  <2>2. failed' \in [entry : Nat, count : Nat]
    BY <1>4 DEF TypeOK, AppendFails
  <2>3. /\ logger' \in [at : {"test", "receive", "write", "count", "exit",
                              "gone"},
                        paused : BOOLEAN, report : Report \cup {NoReport},
                        header : Nat]
        /\ logger'.at = "write" <=> logger'.report \in Report
    BY <1>4, NoReportIsNone DEF TypeOK, AppendFails
  <2>4. QED
    BY <1>4, <2>1, <2>2, <2>3 DEF TypeOK, AppendFails, Size
<1>5. CASE UpdateCount
  <2>1. /\ logger' \in [at : {"test", "receive", "write", "count", "exit",
                              "gone"},
                        paused : BOOLEAN, report : Report \cup {NoReport},
                        header : Nat]
        /\ logger'.at = "write" <=> logger'.report \in Report
    BY <1>5 DEF TypeOK, UpdateCount
  <2>2. entry_count' \in Nat
    BY <1>5 DEF TypeOK, UpdateCount
  <2>3. QED
    BY <1>5, <2>1, <2>2 DEF TypeOK, UpdateCount, Size
<1>6. CASE LoggerExit
  BY <1>6 DEF TypeOK, LoggerExit, Size
<1>7. CASE LoggerCrash
  <2>1. lost' \subseteq Report /\ crashed' \in Nat
    BY <1>7 DEF TypeOK, LoggerCrash
  <2>2. /\ logger' \in [at : {"test", "receive", "write", "count", "exit",
                              "gone"},
                        paused : BOOLEAN, report : Report \cup {NoReport},
                        header : Nat]
        /\ logger'.at = "write" <=> logger'.report \in Report
    BY <1>7, NoReportIsNone DEF LoggerCrash, NewLogger
  <2>3. QED
    BY <1>7, <2>1, <2>2 DEF TypeOK, LoggerCrash, Size
<1>8. CASE CountFails
  <2>1. failed' \in [entry : Nat, count : Nat]
    <3>1. failed \in [entry : Nat, count : Nat] /\ failed.count + 1 \in Nat
      BY DEF TypeOK
    <3>2. failed' = [failed EXCEPT !.count = failed.count + 1]
      BY <1>8 DEF CountFails
    <3>3. QED
      BY <3>1, <3>2
  <2>2. /\ logger' \in [at : {"test", "receive", "write", "count", "exit",
                              "gone"},
                        paused : BOOLEAN, report : Report \cup {NoReport},
                        header : Nat]
        /\ logger'.at = "write" <=> logger'.report \in Report
    BY <1>8 DEF TypeOK, CountFails
  <2>3. UNCHANGED <<mission, g_shutdown, g_safe_mode, sender, queue, entries,
                    entry_count, raised, skipped, lost, crashed>>
    BY <1>8 DEF CountFails
  <2>4. QED
    BY <2>1, <2>2, <2>3 DEF TypeOK, Size
<1>9. QED
  BY <1>1, <1>2, <1>3, <1>4, <1>5, <1>6, <1>7, <1>8

\* Signals, the end of a mission and the start of the next keep the types.
LEMMA TypeMission ==
  ASSUME TypeOK,
         \/ ModeSignal \/ Shutdown \/ CleanIpc \/ NewMission
         \/ \E p \in Sender \cup {Logger} : HandleSigterm(p)
  PROVE  TypeOK'
<1>1. CASE ModeSignal
  <2>1. g_safe_mode' = ~g_safe_mode
    BY <1>1 DEF ModeSignal
  <2>2. g_safe_mode' \in BOOLEAN
    BY <2>1, Zenon
  <2>3. QED
    BY <1>1, <2>2 DEF TypeOK, ModeSignal, Size
<1>2. CASE Shutdown
  BY <1>2 DEF TypeOK, Shutdown, Size
<1>3. CASE CleanIpc
  <2>1. queue' = [v \in Severity |-> << >>] /\ lost' \subseteq Report
    BY <1>3, QueuedType DEF TypeOK, CleanIpc
  <2>2. queue' \in [Severity -> Seq(Report)] /\ Size' = 0
    BY <2>1 DEF Size, Severity
  <2>3. Size' <= MQ_MAX_MESSAGES
    BY <2>2, FaultLogAssumption
  <2>4. QED
    BY <1>3, <2>1, <2>2, <2>3 DEF TypeOK, CleanIpc
<1>4. CASE NewMission
  <2>1. /\ logger' \in [at : {"test", "receive", "write", "count", "exit",
                              "gone"},
                        paused : BOOLEAN, report : Report \cup {NoReport},
                        header : Nat]
        /\ logger'.at = "write" <=> logger'.report \in Report
    BY <1>4, NoReportIsNone DEF NewMission, NewLogger
  <2>2. /\ sender' \in [Sender -> [at : {"test", "send", "stopped"},
                                   report : Report \cup {NoReport}]]
        /\ \A t \in Sender :
             sender'[t].at = "send" => sender'[t].report \in Report
    BY <1>4 DEF NewMission, Idle
  <2>3. mission' \in [number : Nat, is : {"up", "stopping", "down"}]
    BY <1>4 DEF TypeOK, NewMission
  <2>4. QED
    BY <1>4, <2>1, <2>2, <2>3 DEF TypeOK, NewMission, Size
<1>5. CASE \E p \in Sender \cup {Logger} : HandleSigterm(p)
  BY <1>5 DEF TypeOK, HandleSigterm, Size
<1>6. QED
  BY <1>1, <1>2, <1>3, <1>4, <1>5

\* Every step keeps the types.
LEMMA TypeStep == TypeOK /\ [Next]_vars => TypeOK'
<1>1. CASE UNCHANGED vars
  BY <1>1 DEF TypeOK, vars, Size
<1>2. ASSUME TypeOK, Next PROVE TypeOK'
  BY <1>2, TypeSender, TypeReceive, TypeLogger, TypeMission DEF Next
<1>3. QED
  BY <1>1, <1>2

(***************************************************************************)
(* The variables stay in their domains and the queue in its capacity,      *)
(* whichever threads send, whoever crashes, over any number of missions.   *)
(***************************************************************************)
THEOREM TypeCorrect == Spec => []TypeOK
<1>1. QED
  BY TypeInit, TypeStep, PTL DEF Spec

-----------------------------------------------------------------------------
(***************************************************************************)
(* The count and the entries                                               *)
(***************************************************************************)
\* No mission ends, for the next to begin, while the logger still writes.
LoggerGone == mission.is = "down" => logger.at = "gone"

\* wait_children comes before clean_ipc, so that every step keeps LoggerGone.
LEMMA LoggerGoneStep == TypeOK /\ LoggerGone /\ [Next]_vars => LoggerGone'
<1>1. SUFFICES ASSUME TypeOK, LoggerGone, [Next]_vars PROVE LoggerGone'
  OBVIOUS
<1>2. CASE \E s \in Sender : StopSender(s) \/ RaiseReport(s) \/ SendReport(s)
  BY <1>1, <1>2 DEF LoggerGone, StopSender, RaiseReport, SendReport
<1>3. CASE TestLoop \/ Receive \/ Timeout \/ AppendEntry \/ AppendFails
           \/ UpdateCount \/ CountFails
  BY <1>1, <1>3 DEF LoggerGone, TestLoop, Receive, Timeout, AppendEntry,
                   AppendFails, UpdateCount, CountFails
<1>4. CASE LoggerExit \/ LoggerCrash
  BY <1>1, <1>4 DEF LoggerGone, LoggerExit, LoggerCrash, NewLogger, TypeOK
<1>5. CASE ModeSignal \/ Shutdown \/ CleanIpc \/ NewMission
           \/ \E p \in Sender \cup {Logger} : HandleSigterm(p)
  BY <1>1, <1>5 DEF LoggerGone, ModeSignal, Shutdown, CleanIpc, NewMission,
                   HandleSigterm, TypeOK
<1>6. CASE UNCHANGED vars
  BY <1>1, <1>6 DEF LoggerGone, vars
<1>7. QED
  BY <1>1, <1>2, <1>3, <1>4, <1>5, <1>6 DEF Next

\* The inductive form of CountLags: between the two writes of an entry, the
\* header that fdr_write_entry has read is still the one in the file.
CountInv ==
  /\ CountLags
  /\ logger.at = "count" => logger.header = entry_count

\* A new log has no entries and counts none.
LEMMA CountInit == Init => CountInv
  BY DEF Init, CountInv, CountLags, NewLogger

\* What CountLags says of the entry at place i, when c entries have been left
\* out of the count and f writes of an entry have failed.
Near(i, c, f) == entries[i].entry_id <= i + f /\ i <= entries[i].entry_id + c

\* The entries left out of the count: crashes, and failed writes of the count.
Uncounted == crashed + failed.count

\* An entry stays as near to its place whatever else goes wrong later.
LEMMA StaysNear ==
  ASSUME TypeOK, CountInv, NEW i \in DOMAIN entries,
         NEW c \in Nat, c >= Uncounted, NEW f \in Nat, f >= failed.entry
  PROVE  Near(i, c, f)
<1>1. entries \in Seq([entry_id : Nat, report : Report]) /\ i \in 1..Len(entries)
  BY DEF TypeOK
<1>2. entries[i].entry_id \in Nat
  <2>1. entries[i] \in [entry_id : Nat, report : Report]
    BY <1>1, ElementType
  <2>2. QED
    BY <2>1
<1>3. /\ entries[i].entry_id <= i + failed.entry
      /\ i <= entries[i].entry_id + Uncounted
  BY DEF CountInv, CountLags, Uncounted
<1>4. Uncounted \in Nat /\ failed.entry \in Nat
  BY DEF TypeOK, Uncounted
<1>5. i \in Nat
  BY <1>1
<1>6. QED
  BY <1>2, <1>3, <1>4, <1>5 DEF Near

\* Every step keeps the distance between entries, count, crashes and failures.
LEMMA CountStep ==
  ASSUME TypeOK, LoggerGone, CountInv, [Next]_vars
  PROVE  CountInv'
<1>. /\ entry_count \in Nat /\ crashed \in Nat /\ Len(entries) \in Nat
     /\ failed \in [entry : Nat, count : Nat]
     /\ failed.entry \in Nat /\ failed.count \in Nat /\ Uncounted \in Nat
  BY DEF TypeOK, Uncounted
<1>1. CASE AppendEntry
  <2>1. PICK e : /\ e = [entry_id |-> entry_count + 1, report |-> logger.report]
                 /\ entries' = Append(entries, e)
    BY <1>1 DEF AppendEntry
  <2>2. e \in [entry_id : Nat, report : Report] /\ e.entry_id = entry_count + 1
    BY <1>1, <2>1 DEF TypeOK, AppendEntry
  <2>3. /\ Len(entries') = Len(entries) + 1
        /\ \A i \in 1..Len(entries) : entries'[i] = entries[i]
        /\ entries'[Len(entries) + 1] = e
        /\ DOMAIN entries = 1..Len(entries)
        /\ DOMAIN entries' = 1..(Len(entries) + 1)
    BY <2>1, <2>2 DEF TypeOK
  <2>4. /\ logger.at = "write" /\ logger'.at = "count"
        /\ logger'.header = entry_count
        /\ UNCHANGED <<entry_count, crashed, failed>>
    BY <1>1 DEF TypeOK, AppendEntry
  <2>5. /\ entry_count <= Len(entries) + failed.entry
        /\ Len(entries) <= entry_count + Uncounted
    BY <2>4 DEF CountInv, CountLags, Uncounted
  <2>6. ASSUME NEW i \in DOMAIN entries'
        PROVE  /\ entries'[i].entry_id <= i + failed.entry
               /\ i <= entries'[i].entry_id + Uncounted
    <3>1. CASE i = Len(entries) + 1
      BY <2>2, <2>3, <2>5, <3>1
    <3>2. CASE i \in 1..Len(entries)
      BY <2>3, <3>2, StaysNear DEF Near
    <3>3. QED
      BY <2>3, <2>6, <3>1, <3>2
  <2>7. QED
    BY <2>3, <2>4, <2>5, <2>6 DEF CountInv, CountLags, Uncounted
<1>2. CASE AppendFails
  <2>1. /\ logger.at = "write" /\ UNCHANGED <<entries, entry_count, crashed>>
        /\ failed'.count = failed.count
        /\ \/ logger'.at = "test" /\ failed'.entry = failed.entry
           \/ /\ logger'.at = "count" /\ failed'.entry = failed.entry + 1
              /\ logger'.header = entry_count
    BY <1>2 DEF AppendFails, TypeOK
  <2>2. \A i \in DOMAIN entries : Near(i, Uncounted, failed'.entry)
    BY <2>1, StaysNear
  <2>3. QED
    BY <2>1, <2>2 DEF CountInv, CountLags, Near, Uncounted
<1>3. CASE UpdateCount
  <2>1. logger.header = entry_count /\ entry_count' = entry_count + 1
    BY <1>3 DEF UpdateCount, CountInv
  <2>2. logger'.at = "test" /\ UNCHANGED <<entries, crashed, failed>>
    BY <1>3 DEF UpdateCount, TypeOK
  <2>3. QED
    BY <1>3, <2>1, <2>2 DEF UpdateCount, CountInv, CountLags
<1>4. CASE LoggerCrash
  <2>1. /\ logger'.at = "gone" /\ crashed' = crashed + 1
        /\ UNCHANGED <<entries, entry_count, failed>>
    BY <1>4 DEF LoggerCrash, NewLogger
  <2>2. \A i \in DOMAIN entries : Near(i, Uncounted + 1, failed.entry)
    BY StaysNear
  <2>3. /\ entry_count <= Len(entries) + failed.entry
        /\ Len(entries) <= entry_count + (Uncounted + 1)
    BY DEF CountInv, CountLags, Uncounted
  <2>4. Uncounted' = Uncounted + 1 /\ failed'.entry = failed.entry
    BY <2>1 DEF Uncounted
  <2>5. QED
    BY <2>1, <2>2, <2>3, <2>4 DEF CountInv, CountLags, Near, Uncounted
<1>5. CASE /\ UNCHANGED <<entries, entry_count, crashed, failed>>
           /\ logger.at # "count" /\ logger'.at # "count"
  BY <1>5 DEF CountInv, CountLags
<1>6. CASE UNCHANGED <<entries, entry_count, crashed, failed, logger>>
  BY <1>6 DEF CountInv, CountLags
<1>7. CASE TestLoop \/ Receive \/ Timeout \/ LoggerExit
  <2>1. /\ UNCHANGED <<entries, entry_count, crashed, failed>>
        /\ logger.at # "count" /\ logger'.at # "count"
    BY <1>7 DEF TypeOK, TestLoop, Receive, Timeout, LoggerExit
  <2>2. QED
    BY <1>5, <2>1
<1>8. CASE NewMission
  <2>1. /\ UNCHANGED <<entries, entry_count, crashed, failed>>
        /\ logger.at = "gone" /\ logger'.at = "test"
    BY <1>8 DEF NewMission, NewLogger, LoggerGone
  <2>2. QED
    BY <2>1 DEF CountInv, CountLags
<1>9. CASE CountFails
  <2>1. /\ logger.at = "count" /\ logger'.at = "test"
        /\ UNCHANGED <<entries, entry_count, crashed>>
        /\ failed'.entry = failed.entry /\ failed'.count = failed.count + 1
    BY <1>9 DEF CountFails, TypeOK
  <2>2. \A i \in DOMAIN entries : Near(i, Uncounted + 1, failed.entry)
    BY StaysNear
  <2>3. /\ entry_count <= Len(entries) + failed.entry
        /\ Len(entries) <= entry_count + (Uncounted + 1)
    BY <2>1 DEF CountInv, CountLags, Uncounted
  <2>4. Uncounted' = Uncounted + 1 /\ failed'.entry = failed.entry
    BY <2>1 DEF Uncounted
  <2>5. QED
    BY <2>1, <2>2, <2>3, <2>4 DEF CountInv, CountLags, Near, Uncounted
<1>10. QED
  BY <1>1, <1>2, <1>3, <1>4, <1>6, <1>7, <1>8, <1>9
     DEF Next, vars, StopSender, RaiseReport, SendReport, ModeSignal, Shutdown,
         CleanIpc, HandleSigterm

(***************************************************************************)
(* The count in the header is ahead of the entries by at most one for each *)
(* write of an entry that failed, and behind by at most one for each crash *)
(* of the logger and each write of the count that failed, and so is each   *)
(* entry id: without any of these the count is exact whenever no entry is  *)
(* being written, and the ids are 1, 2, ...                                *)
(***************************************************************************)
THEOREM CountAndIdsLag == Spec => []CountLags
<1>1. Init => LoggerGone
  BY DEF Init, LoggerGone
<1>2. Spec => []LoggerGone
  BY <1>1, LoggerGoneStep, TypeCorrect, PTL DEF Spec
<1>3. TypeOK /\ LoggerGone /\ CountInv /\ [Next]_vars => CountInv'
  BY CountStep
<1>4. CountInv => CountLags
  BY DEF CountInv
<1>5. QED
  BY <1>2, <1>3, <1>4, CountInit, TypeCorrect, PTL DEF Spec

-----------------------------------------------------------------------------
(***************************************************************************)
(* The order of the log.  A report moves from its sender to the queue, to  *)
(* the logger and to the log; nothing overtakes it on the way.             *)
(***************************************************************************)
\* If a and b are of one thread and one severity, a was raised first.
Before(a, b) == a.from = b.from /\ a.severity = b.severity => a.n < b.n

\* The report that the logger has taken and not yet dealt with, if any.
Taken == {logger.report} \ {NoReport}

\* A report that has left its sender: the one in the sender's hand is younger.
Sent(r) ==
  /\ r.n <= raised[r.from]
  /\ sender[r.from].at = "send" => r.n < raised[r.from]

\* The reports of each FIFO of the queue are in the order of being raised.
QueueOrder ==
  \A v \in Severity :
    /\ \A i \in 1..Len(queue[v]) : queue[v][i].severity = v
    /\ \A i, j \in 1..Len(queue[v]) :
         i < j => Before(queue[v][i], queue[v][j])

\* The inductive form of LogOrder.
OrderInv ==
  /\ LogOrder
  /\ QueueOrder
  /\ \A a \in Logged, b \in Taken \cup Queued : Before(a, b)
  /\ \A a \in Taken, b \in Queued : Before(a, b)
  /\ \A r \in Logged \cup Taken \cup Queued : Sent(r)
  /\ \A s \in Sender : sender[s].at = "send" =>
       sender[s].report.from = s /\ sender[s].report.n = raised[s]

\* A place in one of the FIFOs holds a queued report.
LEMMA InQueue ==
  ASSUME NEW v \in Severity, NEW i \in 1..Len(queue[v])
  PROVE  queue[v][i] \in Queued
  BY DEF Queued

\* mq_send puts one report more in the queue, after those of its severity.
LEMMA OrderSend ==
  ASSUME TypeOK, QueueOrder, NEW r \in Report, MqSend(r),
         \A a \in Queued : Before(a, r)
  PROVE  QueueOrder' /\ Queued' \subseteq Queued \cup {r}
<1>1. PICK w \in Severity : w = r.severity
  BY DEF Report
<1>2. queue \in [Severity -> Seq(Report)]
        /\ queue' = [queue EXCEPT ![w] = Append(@, r)]
  BY <1>1 DEF TypeOK, MqSend
<1>3. /\ Len(queue'[w]) = Len(queue[w]) + 1 /\ Len(queue[w]) \in Nat
      /\ \A i \in 1..Len(queue[w]) : queue'[w][i] = queue[w][i]
      /\ queue'[w][Len(queue[w]) + 1] = r
  BY <1>2
<1>4. \A v \in Severity \ {w} : queue'[v] = queue[v]
  BY <1>2
<1>5. ASSUME NEW v \in Severity
      PROVE  /\ \A i \in 1..Len(queue'[v]) : queue'[v][i].severity = v
             /\ \A i, j \in 1..Len(queue'[v]) :
                  i < j => Before(queue'[v][i], queue'[v][j])
             /\ \A i \in 1..Len(queue'[v]) : queue'[v][i] \in Queued \cup {r}
  <2>1. CASE v # w
    BY <1>4, <2>1, InQueue DEF QueueOrder
  <2>2. CASE v = w
    <3>1. \A i \in 1..Len(queue'[w]) :
            i \in 1..Len(queue[w]) \/ i = Len(queue[w]) + 1
      BY <1>3
    <3>2. \A i \in 1..Len(queue[w]) :
            queue'[w][i].severity = w /\ queue'[w][i] \in Queued
      BY <1>3, InQueue DEF QueueOrder
    <3>3. ASSUME NEW i \in 1..Len(queue'[w]), NEW j \in 1..Len(queue'[w]),
                 i < j
          PROVE  Before(queue'[w][i], queue'[w][j])
      <4>1. i \in 1..Len(queue[w])
        BY <1>3, <3>3
      <4>2. CASE j \in 1..Len(queue[w])
        BY <1>3, <3>3, <4>1, <4>2 DEF QueueOrder
      <4>3. CASE j = Len(queue[w]) + 1
        BY <1>3, <3>2, <4>1, <4>3
      <4>4. QED
        BY <3>1, <4>2, <4>3
    <3>4. QED
      BY <1>1, <1>3, <2>2, <3>1, <3>2, <3>3
  <2>3. QED
    BY <2>1, <2>2
<1>6. QueueOrder'
  BY <1>5 DEF QueueOrder, Before
<1>7. Queued' \subseteq Queued \cup {r}
  BY <1>5 DEF Queued
<1>8. QED
  BY <1>6, <1>7

\* mq_timedreceive takes a report that is older than the others it could have
\* overtaken, and leaves the others as they were.
LEMMA OrderTake ==
  ASSUME TypeOK, QueueOrder, NEW w \in Severity, queue[w] # << >>,
         queue' = [queue EXCEPT ![w] = Tail(@)]
  PROVE  /\ QueueOrder' /\ Queued' \subseteq Queued
         /\ Head(queue[w]) \in Queued
         /\ \A b \in Queued' : Before(Head(queue[w]), b)
<1>1. queue \in [Severity -> Seq(Report)]
  BY DEF TypeOK
<1>2. /\ Len(queue[w]) \in Nat /\ Len(queue[w]) >= 1
      /\ Len(queue'[w]) = Len(queue[w]) - 1
      /\ \A i \in 1..Len(queue'[w]) : queue'[w][i] = queue[w][i + 1]
      /\ Head(queue[w]) = queue[w][1]
  BY <1>1
<1>3. \A v \in Severity \ {w} : queue'[v] = queue[v]
  BY <1>1
<1>4. Head(queue[w]) \in Queued /\ Head(queue[w]).severity = w
  BY <1>2, InQueue DEF QueueOrder
<1>5. ASSUME NEW v \in Severity
      PROVE  /\ \A i \in 1..Len(queue'[v]) : queue'[v][i].severity = v
             /\ \A i, j \in 1..Len(queue'[v]) :
                  i < j => Before(queue'[v][i], queue'[v][j])
             /\ \A i \in 1..Len(queue'[v]) :
                  /\ queue'[v][i] \in Queued
                  /\ Before(Head(queue[w]), queue'[v][i])
  <2>1. CASE v # w
    <3>1. \A i \in 1..Len(queue[v]) : queue[v][i].severity = v
      BY DEF QueueOrder
    <3>2. \A i \in 1..Len(queue[v]) : Before(Head(queue[w]), queue[v][i])
      BY <1>4, <2>1, <3>1 DEF Before
    <3>3. QED
      BY <1>3, <2>1, <3>2, InQueue DEF QueueOrder
  <2>2. CASE v = w
    <3>1. \A i \in 1..Len(queue'[w]) : i + 1 \in 1..Len(queue[w]) /\ 1 < i + 1
      BY <1>2
    <3>2. \A i \in 1..Len(queue'[w]) :
            /\ queue'[w][i].severity = w /\ queue'[w][i] \in Queued
            /\ Before(Head(queue[w]), queue'[w][i])
      BY <1>2, <3>1, InQueue DEF QueueOrder
    <3>3. \A i, j \in 1..Len(queue'[w]) :
            i < j => Before(queue'[w][i], queue'[w][j])
      BY <1>2, <3>1 DEF QueueOrder
    <3>4. QED
      BY <2>2, <3>2, <3>3
  <2>3. QED
    BY <2>1, <2>2
<1>6. QueueOrder'
  BY <1>5 DEF QueueOrder, Before
<1>7. ASSUME NEW b \in Queued' PROVE b \in Queued /\ Before(Head(queue[w]), b)
  <2>1. PICK v \in Severity : \E i \in 1..Len(queue'[v]) : b = queue'[v][i]
    BY DEF Queued
  <2>2. PICK i \in 1..Len(queue'[v]) : b = queue'[v][i]
    BY <2>1
  <2>3. queue'[v][i] \in Queued /\ Before(Head(queue[w]), queue'[v][i])
    BY <1>5
  <2>4. QED
    BY <2>2, <2>3 DEF Before
<1>8. QED
  BY <1>4, <1>6, <1>7

\* Nobody has raised anything yet.
LEMMA OrderInit == Init => OrderInv
<1>1. SUFFICES ASSUME Init PROVE OrderInv
  OBVIOUS
<1>2. Logged = {} /\ Taken = {} /\ LogOrder
  BY <1>1 DEF Init, Logged, Taken, NewLogger, LogOrder
<1>3. QueueOrder /\ Queued = {}
  BY <1>1 DEF Init, QueueOrder, Queued
<1>4. \A s \in Sender : sender[s].at # "send"
  BY <1>1 DEF Init, Idle
<1>5. QED
  BY <1>2, <1>3, <1>4 DEF OrderInv

\* A step that only lets reports vanish keeps the order.
LEMMA OrderFrame ==
  ASSUME OrderInv, UNCHANGED <<sender, raised, entries>>, QueueOrder',
         Taken' \subseteq Taken, Queued' \subseteq Queued
  PROVE  OrderInv'
<1>1. Logged' = Logged /\ LogOrder'
  BY DEF OrderInv, Logged, LogOrder
<1>2. \A r \in Logged \cup Taken \cup Queued : Sent(r)'
  BY DEF OrderInv, Sent
<1>3. QED
  BY <1>1, <1>2 DEF OrderInv, Before

\* A queue that does not change stays in order.
LEMMA OrderSameQueue ==
  ASSUME QueueOrder, UNCHANGED queue
  PROVE  QueueOrder' /\ Queued' = Queued
  BY DEF QueueOrder, Queued, Before

\* What the log holds, the logger has taken or the queue holds is a report.
LEMMA SentAreReports == TypeOK => Logged \cup Taken \cup Queued \subseteq Report
<1>1. SUFFICES ASSUME TypeOK PROVE Logged \subseteq Report /\ Taken \subseteq Report
  BY QueuedType
<1>2. Taken \subseteq Report
  BY <1>1 DEF TypeOK, Taken
<1>3. ASSUME NEW i \in DOMAIN entries PROVE entries[i].report \in Report
  <2>1. entries \in Seq([entry_id : Nat, report : Report]) /\ i \in 1..Len(entries)
    BY <1>1, <1>3 DEF TypeOK
  <2>2. entries[i] \in [entry_id : Nat, report : Report]
    BY <2>1, ElementType
  <2>3. QED
    BY <2>2
<1>4. QED
  BY <1>2, <1>3 DEF Logged

\* A thread raises its reports with increasing numbers and sends each in turn.
LEMMA OrderSender ==
  ASSUME TypeOK, OrderInv, NEW s \in Sender,
         StopSender(s) \/ RaiseReport(s) \/ SendReport(s)
  PROVE  OrderInv'
<1>1. UNCHANGED <<logger, entries>>
  BY DEF StopSender, RaiseReport, SendReport
<1>2. Logged' = Logged /\ Taken' = Taken /\ LogOrder'
  BY <1>1 DEF OrderInv, Logged, Taken, LogOrder
<1>3. sender \in [Sender -> [at : {"test", "send", "stopped"},
                            report : Report \cup {NoReport}]]
      /\ raised \in [Sender -> 0..MaxReports]
  BY DEF TypeOK
<1>4. \A r \in Report : r.from \in Sender /\ r.n \in Nat
  BY FaultLogAssumption DEF Report
<1>5. Logged \cup Taken \cup Queued \subseteq Report
  BY SentAreReports
<1>6. CASE StopSender(s)
  <2>1. /\ QueueOrder' /\ Queued' = Queued /\ UNCHANGED raised
        /\ \A t \in Sender :
             sender'[t].at = "send"
               => sender[t].at = "send" /\ sender'[t].report = sender[t].report
    BY <1>3, <1>6, OrderSameQueue DEF StopSender, OrderInv
  <2>2. \A r \in Logged \cup Taken \cup Queued : Sent(r)'
    BY <1>4, <1>5, <2>1 DEF OrderInv, Sent
  <2>3. QED
    BY <1>2, <2>1, <2>2 DEF OrderInv, Before
<1>7. CASE RaiseReport(s)
  <2>1. /\ QueueOrder' /\ Queued' = Queued
    BY <1>7, OrderSameQueue DEF RaiseReport, OrderInv
  <2>2. /\ sender'[s].report.from = s /\ sender'[s].report.n = raised[s] + 1
        /\ raised'[s] = raised[s] + 1 /\ raised[s] \in Nat
        /\ \A t \in Sender \ {s} :
             sender'[t] = sender[t] /\ raised'[t] = raised[t]
    BY <1>3, <1>7 DEF RaiseReport
  <2>3. ASSUME NEW r \in Logged \cup Taken \cup Queued PROVE Sent(r)'
    <3>1. r.from \in Sender /\ r.n \in Nat /\ Sent(r)
      BY <1>4, <1>5 DEF OrderInv
    <3>2. CASE r.from = s
      <4>1. r.n <= raised[s]
        BY <3>1, <3>2 DEF Sent
      <4>2. r.n <= raised'[s] /\ r.n < raised'[s]
        BY <2>2, <3>1, <4>1
      <4>3. QED
        BY <3>2, <4>2 DEF Sent
    <3>3. CASE r.from # s
      BY <2>2, <3>1, <3>3 DEF Sent
    <3>4. QED
      BY <3>2, <3>3
  <2>4. \A t \in Sender : sender'[t].at = "send" =>
          sender'[t].report.from = t /\ sender'[t].report.n = raised'[t]
    BY <2>2 DEF OrderInv
  <2>5. QED
    BY <1>2, <2>1, <2>3, <2>4 DEF OrderInv, Before
<1>8. CASE SendReport(s)
  <2> DEFINE r == sender[s].report
  <2>1. /\ sender[s].at = "send" /\ r \in Report /\ MqSend(r)
        /\ r.from = s /\ r.n = raised[s] /\ UNCHANGED raised
    BY <1>8 DEF SendReport, TypeOK, OrderInv
  <2>2. \A t \in Sender :
          sender'[t].at = "send" => t # s /\ sender'[t] = sender[t]
    BY <1>3, <1>8 DEF SendReport, Idle
  <2>3. \A a \in Logged \cup Taken \cup Queued : Before(a, r)
    BY <2>1 DEF OrderInv, Sent, Before
  <2>4. QueueOrder' /\ Queued' \subseteq Queued \cup {r}
    BY <2>1, <2>3, OrderSend DEF OrderInv
  <2>5. ASSUME NEW a \in Logged \cup Taken \cup Queued \cup {r} PROVE Sent(a)'
    <3>1. CASE a = r
      <4>1. sender'[s].at # "send" /\ raised'[s] = raised[s] /\ raised[s] \in Nat
        BY <1>3, <2>1, <2>2
      <4>2. QED
        BY <2>1, <3>1, <4>1 DEF Sent
    <3>2. CASE a \in Logged \cup Taken \cup Queued
      <4>1. a.from \in Sender /\ Sent(a)
        BY <1>4, <1>5, <3>2 DEF OrderInv
      <4>2. QED
        BY <2>1, <2>2, <4>1 DEF Sent
    <3>3. QED
      BY <3>1, <3>2
  <2>6. \A t \in Sender : sender'[t].at = "send" =>
          sender'[t].report.from = t /\ sender'[t].report.n = raised'[t]
    BY <2>1, <2>2 DEF OrderInv
  <2>7. QED
    BY <1>2, <2>3, <2>4, <2>5, <2>6 DEF OrderInv, Before
<1>9. QED
  BY <1>6, <1>7, <1>8

\* The logger takes the oldest report of a severity.
LEMMA OrderReceive ==
  ASSUME TypeOK, OrderInv, Receive
  PROVE  OrderInv'
<1>1. PICK v \in Severity :
        /\ Urgent(v)
        /\ queue' = [queue EXCEPT ![v] = Tail(@)]
        /\ LET r == Head(queue[v])
           IN  IF Loggable(r)
               THEN /\ logger' = [logger EXCEPT !.at = "write", !.report = r]
                    /\ UNCHANGED skipped
               ELSE /\ logger' = [logger EXCEPT !.at = "test"]
                    /\ skipped' = skipped \cup {r}
  BY DEF Receive
<1> DEFINE h == Head(queue[v])
<1>2. /\ QueueOrder' /\ Queued' \subseteq Queued /\ h \in Queued
      /\ \A b \in Queued' : Before(h, b)
  BY <1>1, OrderTake DEF Urgent, OrderInv
<1>3. UNCHANGED <<sender, raised, entries>>
  BY DEF Receive
<1>4. CASE Loggable(h)
  <2>1. Taken' \subseteq {h}
    BY <1>1, <1>4 DEF Taken, TypeOK
  <2>2. Logged' = Logged /\ LogOrder'
    BY <1>3 DEF OrderInv, Logged, LogOrder
  <2>3. \A r \in Logged \cup Taken \cup Queued : Sent(r)'
    BY <1>3 DEF OrderInv, Sent
  <2>4. QED
    BY <1>2, <1>3, <2>1, <2>2, <2>3 DEF OrderInv, Before
<1>5. CASE ~Loggable(h)
  <2>1. Taken' = Taken
    BY <1>1, <1>5 DEF Taken, TypeOK
  <2>2. QED
    BY <1>2, <1>3, <2>1, OrderFrame
<1>6. QED
  BY <1>4, <1>5

\* The report that is appended is younger than those in the log and older
\* than those in the queue.
LEMMA OrderAppend ==
  ASSUME TypeOK, OrderInv, AppendEntry
  PROVE  OrderInv'
<1> DEFINE r == logger.report
<1>1. r \in Report /\ r \in Taken
  BY NoReportIsNone DEF AppendEntry, TypeOK, Taken
<1>2. PICK e : e = [entry_id |-> entry_count + 1, report |-> r]
               /\ entries' = Append(entries, e)
  BY DEF AppendEntry
<1>3. e \in [entry_id : Nat, report : Report] /\ e.report = r
  BY <1>1, <1>2 DEF TypeOK
<1>4. /\ \A i \in 1..Len(entries) : entries'[i] = entries[i]
      /\ entries'[Len(entries) + 1] = e /\ Len(entries) \in Nat
      /\ DOMAIN entries = 1..Len(entries)
      /\ DOMAIN entries' = 1..(Len(entries) + 1)
  BY <1>2, <1>3 DEF TypeOK
<1>5. /\ UNCHANGED <<sender, raised, queue>> /\ Taken' = {}
  BY DEF AppendEntry, TypeOK, Taken
<1>6. QueueOrder' /\ Queued' = Queued
  BY <1>5, OrderSameQueue DEF OrderInv
<1>7. \A i \in 1..Len(entries) : entries[i].report \in Logged
  BY <1>4 DEF Logged
<1>8. Logged' \subseteq Logged \cup {r}
  <2>1. ASSUME NEW i \in DOMAIN entries'
        PROVE  entries'[i].report \in Logged \cup {r}
    BY <1>3, <1>4, <1>7
  <2>2. QED
    BY <2>1 DEF Logged
<1>9. LogOrder'
  <2>1. ASSUME NEW i \in DOMAIN entries', NEW j \in DOMAIN entries', i < j
        PROVE  Before(entries'[i].report, entries'[j].report)
    <3>1. i \in 1..Len(entries)
      BY <1>4, <2>1
    <3>2. CASE j \in 1..Len(entries)
      BY <1>4, <2>1, <3>1, <3>2 DEF OrderInv, LogOrder, Before
    <3>3. CASE j = Len(entries) + 1
      BY <1>1, <1>3, <1>4, <1>7, <3>1, <3>3 DEF OrderInv
    <3>4. QED
      BY <1>4, <2>1, <3>2, <3>3
  <2>2. QED
    BY <2>1 DEF LogOrder, Before
<1>10. \A a \in Logged \cup Taken \cup Queued : Sent(a)'
  BY <1>5 DEF OrderInv, Sent
<1>11. QED
  BY <1>1, <1>5, <1>6, <1>8, <1>9, <1>10 DEF OrderInv, Before

\* Every step keeps the order.
LEMMA OrderStep == TypeOK /\ OrderInv /\ [Next]_vars => OrderInv'
<1> SUFFICES ASSUME TypeOK, OrderInv, [Next]_vars PROVE OrderInv'
  OBVIOUS
<1>1. CASE UNCHANGED <<sender, raised, entries, queue>> /\ Taken' \subseteq Taken
  BY <1>1, OrderFrame, OrderSameQueue DEF OrderInv
<1>2. CASE TestLoop \/ Timeout \/ UpdateCount \/ CountFails \/ LoggerExit
  <2>1. UNCHANGED <<sender, raised, entries, queue>>
          /\ logger'.report = logger.report
    BY <1>2 DEF TestLoop, Timeout, UpdateCount, CountFails, LoggerExit,
                  TypeOK
  <2>2. QED
    BY <1>1, <2>1 DEF Taken
<1>3. CASE AppendFails \/ LoggerCrash
  <2>1. UNCHANGED <<sender, raised, entries, queue>>
          /\ logger'.report = NoReport
    BY <1>3 DEF AppendFails, LoggerCrash, NewLogger, TypeOK
  <2>2. QED
    BY <1>1, <2>1 DEF Taken
<1>4. CASE \/ ModeSignal \/ Shutdown \/ UNCHANGED vars
           \/ \E p \in Sender \cup {Logger} : HandleSigterm(p)
  BY <1>1, <1>4 DEF ModeSignal, Shutdown, HandleSigterm, vars, Taken
<1>5. CASE CleanIpc
  <2>1. QueueOrder' /\ Queued' = {} /\ UNCHANGED <<sender, raised, entries>>
          /\ Taken' = Taken
    BY <1>5 DEF CleanIpc, QueueOrder, Queued, Taken
  <2>2. QED
    BY <2>1, OrderFrame
<1>6. CASE NewMission
  <2>1. /\ UNCHANGED <<raised, entries, queue>> /\ Taken' = {}
        /\ \A s \in Sender : sender'[s].at = "test"
    BY <1>6 DEF NewMission, NewLogger, Idle, Taken
  <2>2. QueueOrder' /\ Queued' = Queued /\ Logged' = Logged /\ LogOrder'
    BY <2>1, OrderSameQueue DEF OrderInv, Logged, LogOrder
  <2>3. ASSUME NEW r \in Logged \cup Queued PROVE Sent(r)'
    <3>1. r.from \in Sender /\ Sent(r)
      BY SentAreReports DEF OrderInv, Report
    <3>2. QED
      BY <2>1, <3>1 DEF Sent
  <2>4. QED
    BY <2>1, <2>2, <2>3 DEF OrderInv, Before
<1>7. QED
  BY <1>2, <1>3, <1>4, <1>5, <1>6, OrderSender, OrderReceive, OrderAppend
     DEF Next

(***************************************************************************)
(* The reports of one thread with one severity are in the log in the order *)
(* of being raised, for any threads, any capacity, and however many        *)
(* missions and crashes there are.                                         *)
(***************************************************************************)
THEOREM LogInOrder == Spec => []LogOrder
<1>1. OrderInv => LogOrder
  BY DEF OrderInv
<1>2. QED
  BY <1>1, OrderInit, OrderStep, TypeCorrect, PTL DEF Spec
=============================================================================
