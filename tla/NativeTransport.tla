-------------------------- MODULE NativeTransport --------------------------
(***************************************************************************)
(* A native viewer's transport (client/transport_native.cpp): the          *)
(* addresses of a name tried in turn, TLS, the upgrade to WebSocket, and   *)
(* messages up to the end of the connection, one poll() per frame.         *)
(***************************************************************************)
EXTENDS Integers, Sequences

CONSTANTS
  MaxAddresses,  \* addresses tried at most; 8 in the code
  Addresses,     \* addresses the name has
  TcpLimit, TlsLimit,   \* 10 and 15 in the code; time is counted in such units
  MaxMessages    \* bound on the messages of the peer

TransportAssumption ==
  /\ {MaxAddresses, Addresses, TcpLimit, TlsLimit, MaxMessages} \subseteq Nat
  /\ MaxAddresses > 0 /\ TcpLimit < TlsLimit

VARIABLES
  state,     \* state_
  attempt,   \* attempt_: the address being tried, from 0
  tcpUp, tlsReady, secure,   \* tcp_up_, tls_ready_, secure_
  error,     \* error_: why it ended, "none" when empty
  clock,     \* since started_us_
  got,       \* history: messages handed to the viewer
  reach,     \* what each address does with a connect
  server,    \* what the server does: in the TLS handshake, and with the upgrade
  wire,      \* what it sent after that, and has not been read
  sent       \* history: the number of messages it sent

vars == <<state, attempt, tcpUp, tlsReady, secure, error, clock, got,
          reach, server, wire, sent>>
peer == <<reach, server, wire, sent>>

\* An address may be of a family the computer has not, refuse, never answer, or
\* accept.
Reaches == {"unsupported", "refuses", "silent", "accepts"}
Names == 0..(Addresses - 1)
End == 0                        \* the CLOSE or end of the stream in wire
Broken == -1                    \* bytes that are no WebSocket frame

Init ==
  /\ state = "Idle" /\ attempt = 0 /\ tcpUp = FALSE /\ tlsReady = FALSE
  /\ secure \in BOOLEAN /\ error = "none" /\ clock = 0 /\ got = <<>>
  /\ reach \in [Names -> Reaches]
  /\ server \in [tls : {"ok", "fails", "silent"}, upgrade : {"ok", "refused", "closes", "silent"}]
  /\ ~secure => server.tls = "ok"
  /\ wire = <<>> /\ sent = 0

\* The operators whose comment says "mutant" are wrong on purpose: each is the
\* operator below it with a bug that some property rules out.

\* fail: the first reason stays.
Fails(why) ==
  /\ state' = "Closed" /\ error' = (IF error = "none" THEN why ELSE error)
  /\ tlsReady' = FALSE

\* mutant: the address behind the one that was refused is passed over
OpensSecond(from) ==
  LET usable == {i \in Names : (i > from \/ i = 0) /\ i >= from /\ i < MaxAddresses /\ reach[i] # "unsupported"}
  IN IF usable = {} THEN -1 ELSE CHOOSE i \in usable : \A j \in usable : i <= j

\* open_socket: the first address from this one on whose connect can be started.
Opens(from) ==
  LET usable == {i \in Names : i >= from /\ i < MaxAddresses /\ reach[i] # "unsupported"}
  IN IF usable = {} THEN -1 ELSE CHOOSE i \in usable : \A j \in usable : i <= j

\* connect
Connect ==
  /\ state = "Idle"
  /\ LET i == Opens(0) IN
       IF i = -1 THEN Fails("no address") /\ UNCHANGED attempt
       ELSE state' = "Connecting" /\ attempt' = i /\ UNCHANGED <<error, tlsReady>>
  /\ UNCHANGED <<tcpUp, secure, clock, got, peer>>

\* poll, lines 69-80: the connect failed, and the next address is tried.
Refused ==
  /\ state = "Connecting" /\ ~tcpUp /\ reach[attempt] = "refuses"
  /\ LET i == Opens(attempt + 1) IN
       IF i = -1 THEN Fails("refused") /\ UNCHANGED attempt
       ELSE attempt' = i /\ tlsReady' = FALSE /\ UNCHANGED <<state, error>>
  /\ UNCHANGED <<tcpUp, secure, clock, got, peer>>

\* ... lines 81-91: it succeeded, or has taken ten seconds, all addresses together.
TcpUp ==
  /\ state = "Connecting" /\ ~tcpUp /\ reach[attempt] = "accepts"
  /\ tcpUp' = TRUE
  /\ UNCHANGED <<state, attempt, tlsReady, secure, error, clock, got, peer>>

TcpTimeout ==
  /\ state = "Connecting" /\ ~tcpUp /\ clock > TcpLimit
  /\ Fails("no answer")
  /\ UNCHANGED <<attempt, tcpUp, secure, clock, got, peer>>

\* mutant: the TLS handshake has no time limit
HandshakeNoLimit ==
  /\ state = "Connecting" /\ tcpUp /\ secure /\ ~tlsReady
  /\ \/ server.tls = "ok" /\ tlsReady' = TRUE /\ UNCHANGED <<state, error>>
     \/ server.tls = "fails" /\ Fails("TLS")
  /\ UNCHANGED <<attempt, tcpUp, secure, clock, got, peer>>

\* ... lines 93-101: the TLS handshake.
Handshake ==
  /\ state = "Connecting" /\ tcpUp /\ secure /\ ~tlsReady
  /\ \/ server.tls = "ok" /\ tlsReady' = TRUE /\ UNCHANGED <<state, error>>
     \/ server.tls = "fails" /\ Fails("TLS")
     \/ server.tls = "silent" /\ clock > TlsLimit /\ Fails("TLS timeout")
  /\ UNCHANGED <<attempt, tcpUp, secure, clock, got, peer>>

Secured == tcpUp /\ (secure => tlsReady)

\* The number of messages in front of the end, or of bytes that are no frame.
Good(s) == IF \E i \in DOMAIN s : s[i] <= 0
           THEN CHOOSE n \in 0..(Len(s) - 1) : s[n + 1] <= 0 /\ \A i \in 1..n : s[i] > 0
           ELSE Len(s)

\* mutant: the end of the stream is reported before what arrived in front of it
EndsFirst(s) ==
  IF Good(s) < Len(s) THEN Fails("closed") /\ UNCHANGED got
  ELSE got' = got \o s /\ state' = "Open" /\ UNCHANGED <<error, tlsReady>>

\* poll, lines 118-129: messages, then the reason to stop.
Deliver(s) ==
  /\ got' = got \o SubSeq(s, 1, Good(s))
  /\ IF Good(s) = Len(s) THEN state' = "Open" /\ UNCHANGED <<error, tlsReady>>
     ELSE Fails(IF s[Good(s) + 1] = End THEN "closed" ELSE "protocol error")

\* poll, lines 103-129, of n messages that have arrived: the answer to the upgrade
\* may have the first of them behind it.
Read ==
  /\ state \in {"Connecting", "Open"} /\ Secured
  /\ state = "Connecting" => server.upgrade = "ok"
  /\ \E n \in 0..Len(wire) :
       /\ n > 0 \/ state = "Connecting"
       /\ Deliver(SubSeq(wire, 1, n))
       /\ wire' = SubSeq(wire, n + 1, Len(wire))
  /\ UNCHANGED <<attempt, tcpUp, secure, clock, reach, server, sent>>

NotUpgraded ==
  /\ state = "Connecting" /\ Secured
  /\ \/ server.upgrade = "refused" /\ Fails("not a host")
     \/ server.upgrade = "closes" /\ Fails("connection refused")
  /\ UNCHANGED <<attempt, tcpUp, secure, clock, got, peer>>

\* flush, called by send, meets a connection that is gone.
SendFails ==
  /\ state = "Open" /\ End \in {wire[i] : i \in 1..Len(wire)}
  /\ Fails("connection lost")
  /\ UNCHANGED <<attempt, tcpUp, secure, clock, got, peer>>

\* close
Close ==
  /\ state \in {"Connecting", "Open"}
  /\ state' = "Closed" /\ tlsReady' = FALSE
  /\ UNCHANGED <<attempt, tcpUp, secure, error, clock, got, peer>>

-----------------------------------------------------------------------------
(* The other end. *)

ServerSends ==
  /\ Secured /\ server.upgrade = "ok" /\ state \in {"Connecting", "Open"}
  /\ sent < MaxMessages /\ \A i \in 1..Len(wire) : wire[i] > 0
  /\ \/ wire' = Append(wire, sent + 1) /\ sent' = sent + 1
     \/ wire' = Append(wire, End) /\ UNCHANGED sent
     \/ wire' = Append(wire, Broken) /\ UNCHANGED sent
  /\ UNCHANGED <<state, attempt, tcpUp, tlsReady, secure, error, clock, got, reach, server>>

Wait ==
  /\ state = "Connecting" /\ clock <= TlsLimit
  /\ clock' = clock + 1
  /\ UNCHANGED <<state, attempt, tcpUp, tlsReady, secure, error, got, peer>>

Program == Refused \/ TcpUp \/ TcpTimeout \/ Handshake \/ Read \/ NotUpgraded
Next == Connect \/ Program \/ SendFails \/ Close \/ ServerSends \/ Wait

Spec == Init /\ [][Next]_vars
FairSpec == Spec /\ WF_vars(Program) /\ WF_vars(Wait)

-----------------------------------------------------------------------------
(* Properties.                                                             *)

\* What the viewer is told at the end is what happened: "refused" (lines 69-79) only
\* when every address that could be tried refused, and "the host closed the
\* connection" (lines 107-129) only with everything handed over that came before
\* - "still deliver what already arrived (e.g. an auth rejection)". In any case
\* the messages come in order, without a gap.
ReasonIsTrue ==
  /\ error = "refused" => \A i \in Names : i < MaxAddresses => reach[i] \in {"refuses", "unsupported"}
  /\ error = "closed" => Len(got) = sent
  /\ got = [i \in 1..Len(got) |-> i]

\* An attempt to connect ends (lines 87, 97), unless the other end has taken the
\* connection and never answers the request to upgrade: line 114 waits without limit.
ConnectEnds == state = "Connecting" /\ server.upgrade # "silent" ~> state # "Connecting"
=============================================================================
