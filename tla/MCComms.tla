------------------------------ MODULE MCComms ------------------------------
(***************************************************************************)
(* Comms with the commands of ipc.h, as long as they are there.  A letter  *)
(* is known by its command and its place in it: 101 is the S of STATUS.    *)
(***************************************************************************)
EXTENDS Comms

MCByte == 0..499

\* The newline is 0, and 1 a letter that begins no command.
Letters(n, length) == [i \in 1..length |-> 100 * n + i]

MCSpelling == [c \in Commands |-> CASE c = "STATUS"     -> Letters(1, 6)
                                    [] c = "SAFE_MODE"  -> Letters(2, 9)
                                    [] c = "SNAPSHOT"   -> Letters(3, 8)
                                    [] c = "RESET_ADCS" -> Letters(4, 10)]

Filler(length) == [i \in 1..length |-> 1]

\* Two commands with their newline, one without it, and a line that fills the
\* buffer before it comes to its end, which is the fourth command.
MCWords ==
  {Append(MCSpelling[c], 0) : c \in {"SNAPSHOT", "RESET_ADCS"}}
    \cup {MCSpelling["STATUS"]}
    \cup {Filler(CMD_MAX_LEN - 1) \o MCSpelling["SAFE_MODE"] \o <<0>>}
=============================================================================
