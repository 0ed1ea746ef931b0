----------------------------- MODULE DurableLog -----------------------------
(***************************************************************************)
(* What the write-ahead log promises, without files: a sequence of records *)
(* in the order they were written.  A record is appended at the end, or    *)
(* skipped; now and then the oldest records are given up.                  *)
(***************************************************************************)
EXTENDS Integers, Sequences

VARIABLES log, serial

Init == log = << >> /\ serial = 0

AppendRecord == log' = Append(log, serial) /\ serial' = serial + 1

SkipRecord == serial' = serial + 1 /\ UNCHANGED log

Forget ==
  /\ \E n \in 1 .. Len(log) : log' = SubSeq(log, n + 1, Len(log))
  /\ UNCHANGED serial

Next == AppendRecord \/ SkipRecord \/ Forget

Spec == Init /\ [][Next]_<<log, serial>>

=============================================================================
