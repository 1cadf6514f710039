------------------------------ MODULE Channel ------------------------------
(***************************************************************************)
(* What one direction of an established session promises its reader        *)
(* (common/rd_secure.h): the messages of this session's sender, each once  *)
(* and in order, until the first deviation - after which nothing more.     *)
(***************************************************************************)
EXTENDS Naturals, Sequences

CONSTANT Payload   \* what may be said

VARIABLES
  sent,     \* what the sender has sealed in this session
  got,      \* what the reader has accepted in this session
  stopped   \* the reader has given up

Init == sent = <<>> /\ got = <<>> /\ stopped = FALSE

Send == \E m \in Payload : sent' = Append(sent, m) /\ UNCHANGED <<got, stopped>>

Deliver ==
  /\ ~stopped /\ ~stopped'
  /\ Len(got) < Len(sent)
  /\ got' = Append(got, sent[Len(got) + 1])
  /\ UNCHANGED sent

Stop == ~stopped /\ stopped' /\ UNCHANGED <<sent, got>>

NewSession == sent' = <<>> /\ got' = <<>> /\ ~stopped'

Next == Send \/ Deliver \/ Stop \/ NewSession

Spec == Init /\ [][Next]_<<sent, got, stopped>>
=============================================================================
