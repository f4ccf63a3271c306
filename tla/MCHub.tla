------------------------------- MODULE MCHub -------------------------------
(* Instances of Hub for TLC: the connections are model values.  The         *)
(* channels are shrunk to the smallest capacities at which a sender can     *)
(* block while another message is already queued.                           *)
EXTENDS Hub

CONSTANTS c1, c2

\* Two connections: each sees the other come and go.
TwoClients == {c1, c2}

=============================================================================
