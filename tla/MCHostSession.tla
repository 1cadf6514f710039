--------------------------- MODULE MCHostSession ---------------------------
(* Model checking the host's connections: the instances are in the .cfg    *)
(* files.  Connections, addresses and inputs are interchangeable.          *)
EXTENDS HostSession, TLC

Symmetry == Permutations(Conn) \cup Permutations(Addr) \cup Permutations(Input)
=============================================================================
