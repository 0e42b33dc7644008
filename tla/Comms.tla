------------------------------- MODULE Comms -------------------------------
(***************************************************************************)
(* The comms process: uplink_thread, which reads the ground's commands     *)
(* from a FIFO and obeys those it recognises, and downlink_thread, which   *)
(* watches the link, reports on it and shows it on the telemetry bus.      *)
(*                                                                         *)
(* Sources: comms/comms.c, comms/comms_threads.c, ipc/fifo_manager.c.      *)
(*                                                                         *)
(* The ground writes what it likes, but for the byte '\0', which ends a     *)
(* string; and read() knows only bytes.  What is in the FIFO are the bytes *)
(* written and not yet taken.  Every use of g_comms is under g_comms_mutex *)
(* and one step; so is STATUS, which only reads the bus.  last_command,    *)
(* which nobody reads, is left out.                                        *)
(*                                                                         *)
(* A definition whose name ends in _Bug is the definition after it with a  *)
(* plausible mistake in it; the specification does not use it.             *)
(***************************************************************************)
EXTENDS Integers, Sequences

CONSTANTS
  Byte,               \* what the ground may write, '\0' excepted
  NEWLINE,
  Spelling,           \* the bytes of each command
  Words,              \* what the ground writes at once, newlines included
  CMD_MAX_LEN,        \* the size of the buffer, with the final '\0'
  MQ_MAX_MESSAGES,
  SNAPSHOT_ROUNDS,    \* the rounds between two periodic snapshots
  MaxLines            \* bound: how often the ground writes

Commands == {"STATUS", "SAFE_MODE", "SNAPSHOT", "RESET_ADCS"}

ASSUME CommsAssumption ==
  /\ NEWLINE \in Byte /\ Words \subseteq Seq(Byte)
  /\ Spelling \in [Commands -> Seq(Byte)]
  /\ CMD_MAX_LEN \in Nat /\ CMD_MAX_LEN >= 2
  /\ {MQ_MAX_MESSAGES, SNAPSHOT_ROUNDS} \subseteq Nat \ {0} /\ MaxLines \in Nat

\* The classes of signal quality that the thresholds tell apart: at most
\* SIGNAL_CRITICAL, at most SIGNAL_WARNING, more.
Qualities == {"lost", "weak", "good"}

VARIABLES
  written,   \* all bytes that the ground has written
  ends,      \* where each of its writes ends
  taken,     \* how many of these bytes read() has taken from the FIFO
  uplink,    \* where uplink_thread is, its buffer, where that text begins
  comms,     \* g_comms
  downlink,  \* where downlink_thread is, its elapsed, the report to send
  bus,       \* the fields of the telemetry bus that comms writes
  queued,    \* the number of reports in the message queue
  asked,     \* the signals sent to the OBC, which handles them elsewhere
  safe,      \* g_safe_mode
  obeyed,    \* history: the commands carried out, with their place
  reported   \* history: the last report on a lost or restored link

fifo == <<written, ends, taken>>

vars == <<fifo, uplink, comms, downlink, bus, queued, asked, safe,
          obeyed, reported>>

Sleeping == [at |-> "sleep", from |-> 0, text |-> << >>]

Init ==
  /\ written = << >>
  /\ ends = << >>
  /\ taken = 0
  /\ uplink = Sleeping
  /\ comms = [quality |-> "good", uplink_active |-> TRUE,
              downlink_active |-> TRUE, fault_active |-> FALSE]
  /\ downlink = [at |-> "sleep", elapsed |-> 0, severity |-> "NONE"]
  /\ bus = [quality |-> "good", uplink_active |-> FALSE]
  /\ queued = 0
  /\ asked = {}
  /\ safe = FALSE
  /\ obeyed = << >>
  /\ reported = "NONE"

-----------------------------------------------------------------------------
(***************************************************************************)
(* The ground: echo "STATUS" > /tmp/groundstation                          *)
(***************************************************************************)
GroundWrites ==
  /\ Len(ends) < MaxLines
  /\ \E w \in Words : written' = written \o w
  /\ ends' = Append(ends, Len(written'))
  /\ UNCHANGED <<taken, uplink, comms, downlink, bus, queued, asked, safe,
                 obeyed, reported>>

-----------------------------------------------------------------------------
(***************************************************************************)
(* uplink_thread                                                           *)
(***************************************************************************)
Lowest(a, b) == IF a < b THEN a ELSE b

Unread == Len(written) - taken

\* The '\0' is forgotten.
ReadSize_Bug == Lowest(CMD_MAX_LEN, Unread)

\* read(fd, buf, maxlen - 1)
ReadSize == Lowest(CMD_MAX_LEN - 1, Unread)

\* The newline is left.
Stripped_Bug(s) == s

Stripped(s) == IF s # << >> /\ s[Len(s)] = NEWLINE
               THEN SubSeq(s, 1, Len(s) - 1) ELSE s

\* fifo_read_command, which finds nothing in a newline alone.
UplinkRead ==
  /\ uplink.at = "sleep"
  /\ taken' = taken + ReadSize
  /\ LET text == Stripped(SubSeq(written, taken + 1, taken'))
     IN  uplink' = IF text = << >>
                   THEN [uplink EXCEPT !.at = "idle"]
                   ELSE [at |-> "active", from |-> taken, text |-> text]
  /\ UNCHANGED <<written, ends, comms, downlink, bus, queued, asked, safe,
                 obeyed, reported>>

UplinkIdle ==
  /\ uplink.at = "idle"
  /\ comms' = [comms EXCEPT !.uplink_active = FALSE]
  /\ uplink' = [uplink EXCEPT !.at = "sleep"]
  /\ UNCHANGED <<fifo, downlink, bus, queued, asked, safe, obeyed,
                 reported>>

UplinkActive ==
  /\ uplink.at = "active"
  /\ comms' = [comms EXCEPT !.uplink_active = TRUE]
  /\ uplink' = [uplink EXCEPT !.at = "handle"]
  /\ UNCHANGED <<fifo, downlink, bus, queued, asked, safe, obeyed,
                 reported>>

\* mq_send blocks while the queue is full.
MsgqSend ==
  /\ queued < MQ_MAX_MESSAGES
  /\ queued' = queued + 1

\* What the command makes comms send to its parent.
Signals(w) == CASE w = "SAFE_MODE"  -> {"SIGUSR1"}
                [] w = "RESET_ADCS" -> {"SIGUSR2"}
                [] OTHER            -> {}

\* The text is kept, and handled again.
Obey_Bug(c) ==
  /\ uplink.at = "handle" /\ uplink.text = Spelling[c]
  /\ IF c = "SNAPSHOT" THEN MsgqSend ELSE UNCHANGED queued
  /\ asked' = asked \cup Signals(c)
  /\ Len(obeyed) < MaxLines
  /\ obeyed' = Append(obeyed, [command |-> c, from |-> uplink.from,
                               upto |-> taken])
  /\ UNCHANGED <<fifo, uplink, comms, downlink, bus, safe, reported>>

\* comms_handle_command of a text that is one of the commands.
Obey(c) ==
  /\ uplink.at = "handle" /\ uplink.text = Spelling[c]
  /\ IF c = "SNAPSHOT" THEN MsgqSend ELSE UNCHANGED queued
  /\ asked' = asked \cup Signals(c)
  /\ obeyed' = Append(obeyed, [command |-> c, from |-> uplink.from,
                               upto |-> taken])
  /\ uplink' = Sleeping
  /\ UNCHANGED <<fifo, comms, downlink, bus, safe, reported>>

\* Anything else is an unknown command, which changes nothing.
UnknownCommand ==
  /\ uplink.at = "handle" /\ \A c \in Commands : uplink.text # Spelling[c]
  /\ uplink' = Sleeping
  /\ UNCHANGED <<fifo, comms, downlink, bus, queued, asked, safe, obeyed,
                 reported>>

-----------------------------------------------------------------------------
(***************************************************************************)
(* downlink_thread                                                         *)
(***************************************************************************)
\* A lost link is reported in every round.
Severity_Bug(q) ==
  CASE q = "lost" -> "CRITICAL"
    [] q = "weak" /\ ~comms.fault_active -> "WARNING"
    [] q = "good" /\ comms.fault_active  -> "INFO"
    [] OTHER -> "NONE"

\* The report that a round makes on quality q.  (A weak link is not latched.)
Severity(q) ==
  CASE q = "lost" /\ ~comms.fault_active -> "CRITICAL"
    [] q = "weak" /\ ~comms.fault_active -> "WARNING"
    [] q = "good" /\ comms.fault_active  -> "INFO"
    [] OTHER -> "NONE"

\* The latch is never reset.
FaultActive_Bug(q) == comms.fault_active \/ q = "lost"

FaultActive(q) ==
  CASE Severity(q) = "CRITICAL" -> TRUE
    [] Severity(q) = "INFO" -> FALSE
    [] OTHER -> comms.fault_active

\* The continue after the WARNING is forgotten.
AfterReport_Bug(severity) == IF severity = "WARNING" THEN "write" ELSE "sleep"

\* Where the round goes on when a report is sent: with the next one.
AfterReport(severity) == "sleep"

Elapsed == (downlink.elapsed + 1) % SNAPSHOT_ROUNDS

\* The end of the sleep in SAFE MODE: no quality, no reports, no bus.
SuspendedRound ==
  /\ downlink.at = "sleep" /\ safe
  /\ comms' = [comms EXCEPT !.downlink_active = FALSE, !.quality = "lost"]
  /\ downlink' = [downlink EXCEPT !.elapsed = Elapsed]
  /\ UNCHANGED <<fifo, uplink, bus, queued, asked, safe, obeyed,
                 reported>>

LinkRound ==
  /\ downlink.at = "sleep" /\ ~safe
  /\ \E q \in Qualities :
       /\ comms' = [comms EXCEPT !.downlink_active = TRUE, !.quality = q,
                                 !.fault_active = FaultActive(q)]
       /\ downlink' =
            [at |-> IF Severity(q) # "NONE" THEN "report"
                    ELSE IF Elapsed = 0 THEN "snapshot" ELSE "write",
             elapsed |-> Elapsed, severity |-> Severity(q)]
  /\ UNCHANGED <<fifo, uplink, bus, queued, asked, safe, obeyed,
                 reported>>

\* comms_send_fault, and continue.
SendReport ==
  /\ downlink.at = "report"
  /\ MsgqSend
  /\ reported' = IF downlink.severity = "WARNING" THEN reported
                                                  ELSE downlink.severity
  /\ downlink' = [downlink EXCEPT !.at = AfterReport(downlink.severity),
                                  !.severity = "NONE"]
  /\ UNCHANGED <<fifo, uplink, comms, bus, asked, safe, obeyed>>

SendSnapshot ==
  /\ downlink.at = "snapshot"
  /\ MsgqSend
  /\ downlink' = [downlink EXCEPT !.at = "write"]
  /\ UNCHANGED <<fifo, uplink, comms, bus, asked, safe, obeyed,
                 reported>>

\* sig is a copy, but uplink_active is read from g_comms.
WriteBus ==
  /\ downlink.at = "write"
  /\ bus' = [quality |-> comms.quality, uplink_active |-> comms.uplink_active]
  /\ downlink' = [downlink EXCEPT !.at = "sleep"]
  /\ UNCHANGED <<fifo, uplink, comms, queued, asked, safe, obeyed,
                 reported>>

-----------------------------------------------------------------------------
(***************************************************************************)
(* The logger, and the broadcasts of the mode                              *)
(***************************************************************************)
LoggerReceives ==
  /\ queued > 0
  /\ queued' = queued - 1
  /\ UNCHANGED <<fifo, uplink, comms, downlink, bus, asked, safe,
                 obeyed, reported>>

ModeSignal ==
  /\ safe' = ~safe
  /\ UNCHANGED <<fifo, uplink, comms, downlink, bus, queued, asked,
                 obeyed, reported>>

-----------------------------------------------------------------------------
Uplink == \/ UplinkRead \/ UplinkIdle \/ UplinkActive \/ UnknownCommand
          \/ \E c \in Commands : Obey(c)

Downlink == \/ SuspendedRound \/ LinkRound \/ SendReport \/ SendSnapshot
            \/ WriteBus

Next == \/ Uplink \/ Downlink
        \/ GroundWrites \/ LoggerReceives \/ ModeSignal

Spec == Init /\ [][Next]_vars

(***************************************************************************)
(* Both threads run again after each sleep().  A slot that is free again   *)
(* and again comes to each of the two that wait for one: the kernel serves *)
(* the senders of a queue in turn.  The ground need not write, nor does    *)
(* the mode ever have to change.                                           *)
(***************************************************************************)
Fairness == SF_vars(Uplink) /\ SF_vars(Downlink) /\ WF_vars(LoggerReceives)

FairSpec == Spec /\ Fairness

-----------------------------------------------------------------------------
(***************************************************************************)
(* Properties                                                              *)
(***************************************************************************)
\* Every variable stays in its domain, and the text within its buffer.
TypeOK ==
  /\ written \in Seq(Byte)
  /\ ends \in Seq(0..Len(written)) /\ Len(ends) <= MaxLines
  /\ taken \in 0..Len(written)
  /\ uplink \in [at : {"sleep", "idle", "active", "handle"},
                 from : 0..taken, text : Seq(Byte)]
  /\ Len(uplink.text) < CMD_MAX_LEN
  /\ comms \in [quality : Qualities, uplink_active : BOOLEAN,
                downlink_active : BOOLEAN, fault_active : BOOLEAN]
  /\ downlink \in [at : {"sleep", "report", "snapshot", "write"},
                   elapsed : 0..(SNAPSHOT_ROUNDS - 1),
                   severity : {"NONE", "INFO", "WARNING", "CRITICAL"}]
  /\ bus \in [quality : Qualities, uplink_active : BOOLEAN]
  /\ queued \in 0..MQ_MAX_MESSAGES
  /\ asked \subseteq {"SIGUSR1", "SIGUSR2"}
  /\ safe \in BOOLEAN
  /\ obeyed \in Seq([command : Commands, from : 0..taken, upto : 0..taken])
  /\ reported \in {"NONE", "INFO", "CRITICAL"}

\* A text may begin at place p: where a write of the ground begins, or full
\* buffers after that.
Begins(p) ==
  \E b \in {0} \cup {ends[i] : i \in DOMAIN ends}, k \in 0..p :
    p = b + k * (CMD_MAX_LEN - 1)

\* A text ends where a write does, or where the buffer is full.
IsText(from, upto) ==
  /\ Begins(from)
  /\ \/ \E i \in DOMAIN ends : upto = ends[i]
     \/ upto = from + (CMD_MAX_LEN - 1)

\* The text from one place to another is command c.
Spells(from, upto, c) ==
  Stripped(SubSeq(written, from + 1, upto)) = Spelling[c]

(***************************************************************************)
(* However writes run together or are cut in two, a command that is obeyed *)
(* is in the bytes written, with nothing before it and at most a newline   *)
(* after it: the stretch is one whole write, or several, but for a cut     *)
(* where a read fills the buffer.  There the next text begins, so that the *)
(* tail of a long line counts as a command too.  Commands are obeyed in    *)
(* the order in which they are written, and no byte is part of two.        *)
(***************************************************************************)
ObeyedInOrder ==
  /\ \A i \in DOMAIN obeyed :
       /\ Spells(obeyed[i].from, obeyed[i].upto, obeyed[i].command)
       /\ IsText(obeyed[i].from, obeyed[i].upto)
  /\ \A i, j \in DOMAIN obeyed : i < j => obeyed[i].upto <= obeyed[j].from

(***************************************************************************)
(* A bad link shows on the bus, from where STATUS reads it, only while its *)
(* loss has been reported and not withdrawn: in the round of a report the  *)
(* bus is left alone, and the report leaves first.                         *)
(***************************************************************************)
ShownAfterReported ==
  [][WriteBus /\ bus'.quality # "good" => reported = "CRITICAL"]_vars

(***************************************************************************)
(* The reports on a lost and on a restored link alternate, and begin with  *)
(* a loss, although rounds in SAFE MODE are left out and a report may wait *)
(* for the queue while the mode changes.                                   *)
(***************************************************************************)
ReportsAlternate ==
  [][SendReport => (downlink.severity = "INFO" <=> reported = "CRITICAL")]_vars

\* After n writes, a command with its newline is all there is in the FIFO.
Lone(n) ==
  /\ Len(ends) = n
  /\ \E c \in Commands : SubSeq(written, taken + 1, Len(written)) =
                           Append(Spelling[c], NEWLINE)

Carried(n) == \E i \in DOMAIN obeyed : obeyed[i].upto = ends[n]

Joined(n) == taken < ends[n] /\ Len(ends) > n

(***************************************************************************)
(* A command that is alone in the FIFO is obeyed, unless the ground writes *)
(* something else before it is read.                                       *)
(***************************************************************************)
LoneCommandObeyed ==
  \A n \in 1..MaxLines :
    Lone(n) ~> n \in DOMAIN ends /\ (Carried(n) \/ Joined(n))

(***************************************************************************)
(* A link that stays good comes to be shown on the bus, unless SAFE MODE   *)
(* suspends the downlink: the rounds that report leave the bus alone, but  *)
(* they do not last.                                                       *)
(***************************************************************************)
GoodLinkShown ==
  comms.quality = "good" ~> \/ bus.quality = "good"
                            \/ comms.quality # "good" \/ safe
=============================================================================
