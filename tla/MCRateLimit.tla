---------------------------- MODULE MCRateLimit ----------------------------
(* Instances of RateLimit for TLC.                                         *)
EXTENDS RateLimit

CONSTANTS q1, q2, q3

\* Two requests that read and one that writes.
TwoToRead == [r \in Requests |-> IF r = q3 THEN "write" ELSE "read"]
==============================================================================
