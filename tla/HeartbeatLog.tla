----------------------------- MODULE HeartbeatLog ----------------------------
(***************************************************************************)
(* What the heartbeat file promises the watchdog (scripts/heartbeat.sh:    *)
(* 29-31 and 286-288): records are added at the end one at a time, and a   *)
(* record leaves only from the front, when Retain newer ones are there.    *)
(***************************************************************************)
EXTENDS Naturals, Sequences

CONSTANTS Records, Retain

VARIABLE file

Newest(f) == IF Len(f) <= Retain THEN f ELSE SubSeq(f, Len(f) - Retain + 1, Len(f))

Init == file = <<>>

Record == \E r \in Records : file' = Append(file, r)
Trim == file' = Newest(file)

Next == Record \/ Trim

Spec == Init /\ [][Next]_file

=============================================================================
