------------------------------ MODULE FaultLog ------------------------------
(***************************************************************************)
(* The way of a fault report to fdr.log: a sensor thread raises it and     *)
(* sends it to the bounded priority message queue, the logger takes it     *)
(* from there, skips it in SAFE MODE unless it is CRITICAL, or appends it  *)
(* to the log and then counts it in the header.  Missions follow each      *)
(* other on the same log.                                                  *)
(*                                                                         *)
(* Sources: logger/logger.c, logger/file_io.c, ipc/msgq_manager.c, the     *)
(* *_send_fault functions and main.c.  What a thread measures is left      *)
(* open: it may raise a report of any severity in any round of its loop.   *)
(*                                                                         *)
(* A definition whose name ends in _Bug is the definition after it with a  *)
(* plausible mistake in it; the specification does not use it.             *)
(***************************************************************************)
EXTENDS Integers, Sequences, FiniteSets

CONSTANTS
  Sender,            \* the threads that raise reports
  Severities,        \* bound: the severities that they use
  MQ_MAX_MESSAGES,
  MaxReports,        \* bound: the reports each thread raises, in all missions
  MaxMissions,       \* bound: the missions
  Crashes,           \* bound: how often the logger may crash
  IoErrors           \* bound: how often a write to the log may fail

ASSUME FaultLogAssumption ==
  /\ MQ_MAX_MESSAGES \in Nat /\ MQ_MAX_MESSAGES >= 1
  /\ {MaxReports, MaxMissions, Crashes, IoErrors} \subseteq Nat
  /\ Severities \subseteq {"CRITICAL", "WARNING", "INFO"}

Severity == {"CRITICAL", "WARNING", "INFO"}

Priority == [s \in Severity |-> CASE s = "CRITICAL" -> 9
                                  [] s = "WARNING" -> 5
                                  [] s = "INFO" -> 1]

Report == [from : Sender, severity : Severity, n : 1..MaxReports]
NoReport == [from |-> "nobody", severity |-> "INFO", n |-> 0]

Logger == "logger"

VARIABLES
  mission,     \* its number, and whether it is up, stopping or down
  g_shutdown,  \* the processes that have handled SIGTERM
  g_safe_mode, \* of the logger
  sender,      \* for each thread, where its loop is and the report to send
  queue,       \* the message queue: a FIFO for each severity
  logger,      \* where main() of the logger is, g_paused, its locals
  entries,     \* the entries in fdr.log
  entry_count, \* the count in the header of fdr.log
  raised,      \* history: the number of reports each thread has raised
  skipped,     \* history: the reports skipped because logging was paused
  lost,        \* history: the reports dropped on the way
  crashed,     \* history: the number of crashes of the logger
  failed       \* history: how often writing an entry, and the count, failed

vars == <<mission, g_shutdown, g_safe_mode, sender, queue, logger, entries,
          entry_count, raised, skipped, lost, crashed, failed>>

Idle == [at |-> "test", report |-> NoReport]

NewLogger == [at |-> "test", paused |-> FALSE, report |-> NoReport, header |-> 0]

\* fdr_open has written a header with the count 0: there was no log before.
Init ==
  /\ mission = [number |-> 1, is |-> "up"]
  /\ g_shutdown = {}
  /\ g_safe_mode = FALSE
  /\ sender = [s \in Sender |-> Idle]
  /\ queue = [v \in Severity |-> << >>]
  /\ logger = NewLogger
  /\ entries = << >>
  /\ entry_count = 0
  /\ raised = [s \in Sender |-> 0]
  /\ skipped = {}
  /\ lost = {}
  /\ crashed = 0
  /\ failed = [entry |-> 0, count |-> 0]

-----------------------------------------------------------------------------
(***************************************************************************)
(* The message queue                                                       *)
(***************************************************************************)
Queued == UNION {{queue[v][i] : i \in 1..Len(queue[v])} : v \in Severity}

Size == Len(queue["CRITICAL"]) + Len(queue["WARNING"]) + Len(queue["INFO"])

\* The queue has no bound.
MqSendUnbounded_Bug(r) ==
  queue' = [queue EXCEPT ![r.severity] = Append(@, r)]

\* A new report overtakes the older ones of its severity.
MqSendFront_Bug(r) ==
  /\ Size < MQ_MAX_MESSAGES
  /\ queue' = [queue EXCEPT ![r.severity] = <<r>> \o @]

\* mq_send blocks while the queue is full.
MqSend(r) ==
  /\ Size < MQ_MAX_MESSAGES
  /\ queue' = [queue EXCEPT ![r.severity] = Append(@, r)]

\* The severity that mq_timedreceive takes from: the most urgent one there is.
Urgent(v) ==
  /\ queue[v] # << >>
  /\ \A w \in Severity : queue[w] # << >> => Priority[w] <= Priority[v]

-----------------------------------------------------------------------------
(***************************************************************************)
(* A sensor thread: while (!g_shutdown) { sleep; measure; maybe report }   *)
(***************************************************************************)
StopSender(s) ==
  /\ sender[s].at = "test" /\ s \in g_shutdown
  /\ sender' = [sender EXCEPT ![s].at = "stopped"]
  /\ UNCHANGED <<mission, g_shutdown, g_safe_mode, queue, logger, entries,
                 entry_count, raised, skipped, lost, crashed, failed>>

\* A round of the loop that ends with a report; the others change nothing.
RaiseReport(s) ==
  /\ sender[s].at = "test" /\ s \notin g_shutdown /\ raised[s] < MaxReports
  /\ raised' = [raised EXCEPT ![s] = @ + 1]
  /\ \E v \in Severities :
       sender' = [sender EXCEPT ![s] =
                    [at |-> "send",
                     report |-> [from |-> s, severity |-> v,
                                 n |-> raised[s] + 1]]]
  /\ UNCHANGED <<mission, g_shutdown, g_safe_mode, queue, logger, entries,
                 entry_count, skipped, lost, crashed, failed>>

SendReport(s) ==
  /\ sender[s].at = "send"
  /\ MqSend(sender[s].report)
  /\ sender' = [sender EXCEPT ![s] = Idle]
  /\ UNCHANGED <<mission, g_shutdown, g_safe_mode, logger, entries,
                 entry_count, raised, skipped, lost, crashed, failed>>

-----------------------------------------------------------------------------
(***************************************************************************)
(* main() of the logger: while (!g_shutdown) { receive; write or skip }    *)
(***************************************************************************)
\* g_paused follows g_safe_mode here and nowhere else: a mode that changes
\* while the logger waits counts only for the report after the next.
TestLoop ==
  /\ logger.at = "test"
  /\ logger' = IF Logger \in g_shutdown
               THEN [logger EXCEPT !.at = "exit"]
               ELSE [logger EXCEPT !.at = "receive", !.paused = g_safe_mode]
  /\ UNCHANGED <<mission, g_shutdown, g_safe_mode, sender, queue, entries,
                 entry_count, raised, skipped, lost, crashed, failed>>

\* The exception for critical reports is forgotten.
Loggable_Bug(r) == ~logger.paused

Loggable(r) == ~logger.paused \/ r.severity = "CRITICAL"

Receive ==
  /\ logger.at = "receive"
  /\ \E v \in Severity :
       /\ Urgent(v)
       /\ queue' = [queue EXCEPT ![v] = Tail(@)]
       /\ LET r == Head(queue[v])
          IN  IF Loggable(r)
              THEN /\ logger' = [logger EXCEPT !.at = "write", !.report = r]
                   /\ UNCHANGED skipped
              ELSE /\ logger' = [logger EXCEPT !.at = "test"]
                   /\ skipped' = skipped \cup {r}
  /\ UNCHANGED <<mission, g_shutdown, g_safe_mode, sender, entries,
                 entry_count, raised, lost, crashed, failed>>

\* The logger gives up when nothing has arrived for a second.
Timeout_Bug ==
  /\ logger.at = "receive" /\ Size = 0
  /\ logger' = [logger EXCEPT !.at = "exit"]
  /\ UNCHANGED <<mission, g_shutdown, g_safe_mode, sender, queue, entries,
                 entry_count, raised, skipped, lost, crashed, failed>>

\* mq_timedreceive returns -1 after a second without a message.
Timeout ==
  /\ logger.at = "receive" /\ Size = 0
  /\ logger' = [logger EXCEPT !.at = IF Logger \in g_shutdown THEN "exit"
                                                              ELSE "test"]
  /\ UNCHANGED <<mission, g_shutdown, g_safe_mode, sender, queue, entries,
                 entry_count, raised, skipped, lost, crashed, failed>>

\* fdr_write_entry: read the header and append the entry ...
AppendEntry ==
  /\ logger.at = "write"
  /\ entries' = Append(entries, [entry_id |-> entry_count + 1,
                                 report |-> logger.report])
  /\ logger' = [logger EXCEPT !.at = "count", !.header = entry_count,
                              !.report = NoReport]
  /\ UNCHANGED <<mission, g_shutdown, g_safe_mode, sender, queue, entry_count,
                 raised, skipped, lost, crashed, failed>>

IoError == failed.entry + failed.count < IoErrors

\* ... or fail to: without a header nothing is written, and main() goes on
\* (at "test"); a write that fails is not noticed, and counted (at "count").
AppendFails ==
  /\ logger.at = "write" /\ IoError
  /\ \/ /\ logger' = [logger EXCEPT !.at = "test", !.report = NoReport]
        /\ UNCHANGED failed
     \/ /\ logger' = [logger EXCEPT !.at = "count", !.header = entry_count,
                                    !.report = NoReport]
        /\ failed' = [failed EXCEPT !.entry = @ + 1]
  /\ lost' = lost \cup {logger.report}
  /\ UNCHANGED <<mission, g_shutdown, g_safe_mode, sender, queue, entries,
                 entry_count, raised, skipped, crashed>>

\* The count in the local copy of the header is not incremented.
UpdateCount_Bug ==
  /\ logger.at = "count"
  /\ entry_count' = logger.header
  /\ logger' = [logger EXCEPT !.at = "test", !.header = 0]
  /\ UNCHANGED <<mission, g_shutdown, g_safe_mode, sender, queue, entries,
                 raised, skipped, lost, crashed, failed>>

\* The second write of fdr_write_entry, from its local copy of the header.
UpdateCount ==
  /\ logger.at = "count"
  /\ entry_count' = logger.header + 1
  /\ logger' = [logger EXCEPT !.at = "test", !.header = 0]
  /\ UNCHANGED <<mission, g_shutdown, g_safe_mode, sender, queue, entries,
                 raised, skipped, lost, crashed, failed>>

\* That write fails, and again nobody notices: the entry is not counted.
CountFails ==
  /\ logger.at = "count" /\ IoError
  /\ logger' = [logger EXCEPT !.at = "test", !.header = 0]
  /\ failed' = [failed EXCEPT !.count = @ + 1]
  /\ UNCHANGED <<mission, g_shutdown, g_safe_mode, sender, queue, entries,
                 entry_count, raised, skipped, lost, crashed>>

\* What is still queued is left there.
LoggerExit ==
  /\ logger.at = "exit"
  /\ logger' = [logger EXCEPT !.at = "gone"]
  /\ UNCHANGED <<mission, g_shutdown, g_safe_mode, sender, queue, entries,
                 entry_count, raised, skipped, lost, crashed, failed>>

\* The logger crashes, between its two writes perhaps; nobody starts another.
LoggerCrash ==
  /\ logger.at # "gone" /\ crashed < Crashes
  /\ logger' = [NewLogger EXCEPT !.at = "gone"]
  /\ lost' = lost \cup ({logger.report} \ {NoReport})
  /\ crashed' = crashed + 1
  /\ UNCHANGED <<mission, g_shutdown, g_safe_mode, sender, queue, entries,
                 entry_count, raised, skipped, failed>>

-----------------------------------------------------------------------------
(***************************************************************************)
(* The OBC: the mode of the logger, the shutdown, the next mission         *)
(***************************************************************************)
\* handle_sigusr1 or handle_sigusr2 of the logger.
ModeSignal ==
  /\ logger.at # "gone"
  /\ g_safe_mode' = ~g_safe_mode
  /\ UNCHANGED <<mission, g_shutdown, sender, queue, logger, entries,
                 entry_count, raised, skipped, lost, crashed, failed>>

\* broadcast_shutdown.
Shutdown ==
  /\ mission.is = "up"
  /\ mission' = [mission EXCEPT !.is = "stopping"]
  /\ UNCHANGED <<g_shutdown, g_safe_mode, sender, queue, logger, entries,
                 entry_count, raised, skipped, lost, crashed, failed>>

HandleSigterm(p) ==
  /\ mission.is = "stopping" /\ p \notin g_shutdown
  /\ g_shutdown' = g_shutdown \cup {p}
  /\ UNCHANGED <<mission, g_safe_mode, sender, queue, logger, entries,
                 entry_count, raised, skipped, lost, crashed, failed>>

\* wait_children has returned: nobody is left.  msgq_destroy removes the
\* queue with whatever is in it.
CleanIpc ==
  /\ mission.is = "stopping"
  /\ logger.at = "gone" /\ \A s \in Sender : sender[s].at = "stopped"
  /\ mission' = [mission EXCEPT !.is = "down"]
  /\ queue' = [v \in Severity |-> << >>]
  /\ lost' = lost \cup Queued
  /\ UNCHANGED <<g_shutdown, g_safe_mode, sender, logger, entries,
                 entry_count, raised, skipped, crashed, failed>>

\* The next run of the program: fdr_open finds the log of the last one.
NewMission ==
  /\ mission.is = "down" /\ mission.number < MaxMissions
  /\ mission' = [number |-> mission.number + 1, is |-> "up"]
  /\ g_shutdown' = {}
  /\ g_safe_mode' = FALSE
  /\ sender' = [s \in Sender |-> Idle]
  /\ logger' = NewLogger
  /\ UNCHANGED <<queue, entries, entry_count, raised, skipped, lost, crashed,
                 failed>>

-----------------------------------------------------------------------------
Next ==
  \/ \E s \in Sender : StopSender(s) \/ RaiseReport(s) \/ SendReport(s)
  \/ TestLoop \/ Receive \/ Timeout \/ AppendEntry \/ AppendFails
  \/ UpdateCount \/ CountFails \/ LoggerExit \/ LoggerCrash
  \/ ModeSignal \/ Shutdown \/ CleanIpc \/ NewMission
  \/ \E p \in Sender \cup {Logger} : HandleSigterm(p)

Spec == Init /\ [][Next]_vars

(***************************************************************************)
(* Every thread that can run does.  The kernel hands a free slot of the    *)
(* queue to the sender that has waited longest, hence the strong fairness  *)
(* of SendReport.  Nobody is obliged to raise a report, to ask for a       *)
(* shutdown, to send a mode signal or to crash.                            *)
(***************************************************************************)
Fairness ==
  /\ \A s \in Sender : WF_vars(StopSender(s)) /\ SF_vars(SendReport(s))
  /\ WF_vars(TestLoop) /\ WF_vars(Receive) /\ WF_vars(Timeout)
  /\ WF_vars(AppendEntry \/ AppendFails) 
  /\ WF_vars(UpdateCount \/ CountFails)
  /\ WF_vars(LoggerExit) /\ WF_vars(CleanIpc)
  /\ \A p \in Sender \cup {Logger} : WF_vars(HandleSigterm(p))

FairSpec == Spec /\ Fairness

-----------------------------------------------------------------------------
(***************************************************************************)
(* Properties                                                              *)
(***************************************************************************)
InHand == {sender[s].report : s \in {t \in Sender : sender[t].at = "send"}}

OnItsWay == InHand \cup Queued \cup ({logger.report} \ {NoReport})

Critical == {r \in Report : r.severity = "CRITICAL"}

Logged == {entries[i].report : i \in DOMAIN entries}

\* Every variable stays in its domain, and the queue within its capacity.
TypeOK ==
  /\ mission \in [number : Nat, is : {"up", "stopping", "down"}]
  /\ g_shutdown \subseteq Sender \cup {Logger}
  /\ g_safe_mode \in BOOLEAN
  /\ sender \in [Sender -> [at : {"test", "send", "stopped"},
                            report : Report \cup {NoReport}]]
  /\ \A s \in Sender : sender[s].at = "send" => sender[s].report \in Report
  /\ queue \in [Severity -> Seq(Report)]
  /\ Size <= MQ_MAX_MESSAGES
  /\ logger \in [at : {"test", "receive", "write", "count", "exit", "gone"},
                 paused : BOOLEAN, report : Report \cup {NoReport},
                 header : Nat]
  /\ logger.at = "write" <=> logger.report \in Report
  /\ entries \in Seq([entry_id : Nat, report : Report])
  /\ entry_count \in Nat
  /\ raised \in [Sender -> 0..MaxReports]
  /\ skipped \subseteq Report
  /\ lost \subseteq Report
  /\ crashed \in Nat
  /\ failed \in [entry : Nat, count : Nat]

(***************************************************************************)
(* The reports of one thread with the same severity are in the log in the  *)
(* order in which it raised them, each at most once, in spite of the       *)
(* priorities, the skipped and lost reports, crashes and new missions.     *)
(***************************************************************************)
LogOrder ==
  \A i, j \in DOMAIN entries :
    LET a == entries[i].report
        b == entries[j].report
    IN  i < j /\ a.from = b.from /\ a.severity = b.severity => a.n < b.n

(***************************************************************************)
(* However often the logger crashes between its two writes, and whichever  *)
(* of these writes fails unnoticed, the count in the header (common.h:141  *)
(* "total entries written so far") is ahead of the entries by at most one  *)
(* for each write of an entry that failed, and behind by at most one for   *)
(* each crash and each write of the count that failed; and so is the id of *)
(* each entry, compared to its place in the log.                           *)
(***************************************************************************)
CountLags ==
  LET writing == IF logger.at = "count" THEN 1 ELSE 0
      uncounted == crashed + failed.count
  IN  /\ entry_count + writing <= Len(entries) + failed.entry
      /\ Len(entries) <= entry_count + writing + uncounted
      /\ \A i \in DOMAIN entries : /\ entries[i].entry_id <= i + failed.entry
                                   /\ i <= entries[i].entry_id + uncounted

\* The fate that each report has met so far.
fate ==
  LET under_way == OnItsWay
      logged == Logged
  IN  [r \in Report |-> IF r \in under_way THEN "pending"
                        ELSE IF r \in lost THEN "lost"
                        ELSE IF r \in skipped THEN "skipped"
                        ELSE IF r \in logged THEN "logged" ELSE "none"]

(***************************************************************************)
(* FaultLog implements ReportFate: a report meets one fate, for good, and  *)
(* no critical one is skipped, although g_paused is a stale g_safe_mode.   *)
(***************************************************************************)
Fate == INSTANCE ReportFate

FateSpec == Fate!Spec

(***************************************************************************)
(* README.md:95 "CRITICAL faults always logged even in Safe Mode", as long *)
(* as the mission lasts: a critical report that is raised is logged,       *)
(* however full the queue, and whatever else is raised.                    *)
(***************************************************************************)
CriticalEventuallyLogged ==
  \A r \in Critical : r \in OnItsWay ~> r \in Logged \/ mission.is # "up"
=============================================================================
