------------------------------ MODULE MCP2PSoak ------------------------------
(* P2PSoak for TLC. *)
EXTENDS P2PSoak

CONSTANTS s1, s2, s3

\* -r of the senders: the same for all, or missing for the second one.
FreqTwo == [s \in Senders |-> 2]
FreqFour == [s \in Senders |-> 4]
FreqMissing == [s \in Senders |-> IF s = s2 THEN 0 ELSE 2]

\* -t of the senders: given to all, to none, or to all but the third one.
StampAll == [s \in Senders |-> TRUE]
StampNone == [s \in Senders |-> FALSE]
StampSome == [s \in Senders |-> s # s3]
=============================================================================
