------------------------- MODULE MCHostingReceipts -------------------------
(* Instances of HostingReceipts for TLC. *)
EXTENDS HostingReceipts

CONSTANTS c1, c2, c3, k1, k2, b1, b2

\* Three callers of one key: two retries of one request and a different one.
MCKeyOf == [c \in Client |-> k1]
MCBodyOf == [c \in Client |-> IF c = c3 THEN b2 ELSE b1]

\* Three retries of one request.
MCSameBody == [c \in Client |-> b1]

=============================================================================
