----------------------------- MODULE MCLinkBoot -----------------------------
(* Instances of LinkBoot for TLC. *)
EXTENDS LinkBoot
CONSTANTS r1, r2, p1

(* r1: two chunks of text and one of data; r2: one chunk; p1: text alone.  *)
MCText == [j \in Jobs |-> IF j = r1 THEN 3 ELSE IF j = r2 THEN 1 ELSE 2]
MCData == [j \in Jobs |-> IF j = r1 THEN 1 ELSE 0]
=============================================================================
