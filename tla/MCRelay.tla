------------------------------ MODULE MCRelay ------------------------------
(* Instances of Relay for TLC: connections are interchangeable. *)
EXTENDS Relay, TLC

Symmetry == Permutations(Conn) \cup Permutations(Key) \cup Permutations(Ticket)
=============================================================================
