----------------------------- MODULE ReportFate -----------------------------
(***************************************************************************)
(* What the flight data recorder promises of each fault report, without    *)
(* the message queue, the logger and the file: a report that was raised    *)
(* meets one fate, for good.  It is logged, skipped because of SAFE MODE,  *)
(* or lost; and a critical report is never skipped.                        *)
(***************************************************************************)
CONSTANTS Report,      \* the reports that may be raised
          Critical     \* those that SAFE MODE must not suppress

VARIABLE fate

Fates == {"none", "pending", "logged", "skipped", "lost"}

Init == fate = [r \in Report |-> "none"]

Raise(r) == /\ fate[r] = "none"
            /\ fate' = [fate EXCEPT ![r] = "pending"]

Log(r) == /\ fate[r] = "pending"
          /\ fate' = [fate EXCEPT ![r] = "logged"]

Skip(r) == /\ fate[r] = "pending" /\ r \notin Critical
           /\ fate' = [fate EXCEPT ![r] = "skipped"]

\* A shutdown loses whatever is on its way at once.
Lose == \E S \in SUBSET {r \in Report : fate[r] = "pending"} :
          fate' = [r \in Report |-> IF r \in S THEN "lost" ELSE fate[r]]

Next == Lose \/ \E r \in Report : Raise(r) \/ Log(r) \/ Skip(r)

Spec == Init /\ [][Next]_fate
=============================================================================
