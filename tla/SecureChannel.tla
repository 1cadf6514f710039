--------------------------- MODULE SecureChannel ---------------------------
(***************************************************************************)
(* The sealed session of a viewer and a host (common/rd_secure.c and its   *)
(* callers in client/app.cpp and host/server.cpp): two HELLOs in the clear *)
(* give both ends the keys of a transcript, and every later message is     *)
(* sealed under a key per direction with the number of messages before it  *)
(* as its nonce.                                                           *)
(*                                                                         *)
(* The primitives are ideal: a sealed message opens under the key and the  *)
(* nonce it was sealed with and no other, and two transcripts that differ  *)
(* give different keys.  The path between the ends may lose, repeat, swap  *)
(* and alter messages and bring up ones of earlier connections.            *)
(***************************************************************************)
EXTENDS Integers, Sequences

CONSTANTS
  Msg,          \* what the ends say once the viewer is in
  MaxConnects,  \* bound: connections
  MaxSent,      \* bound: messages per direction of a connection
  MaxFaults     \* bound: faults of the path

ChannelAssumption == {MaxConnects, MaxSent, MaxFaults} \subseteq Nat /\ "altered" \notin Msg

VARIABLES
  end,        \* [Program -> phase, transcript and the counters of rd_channel]
  wire,       \* [Direction -> messages under way]
  conn,       \* connections so far; also the ephemeral keys of the last one
  sent,       \* history: [Direction -> what was sealed in this connection]
  got,        \* history: [Direction -> what was opened in this connection]
  recorded,   \* every sealed message the path has carried
  disturbed,  \* the path touched this connection
  faultsDone  \* faults so far

vars == <<end, wire, conn, sent, got, recorded, disturbed, faultsDone>>

Program == {"viewer", "host"}
Direction == {"up", "down"}
Out(p) == IF p = "viewer" THEN "up" ELSE "down"
In(p) == IF p = "viewer" THEN "down" ELSE "up"

NoKeys == [ce |-> 0, se |-> 0]
Hello(k) == [kind |-> "hello", key |-> k]
End(phase, th) == [phase |-> phase, th |-> th, sendCtr |-> 0, recvCtr |-> 0]
Nothing == [d \in Direction |-> <<>>]

Init ==
  /\ end = [p \in Program |-> End("off", NoKeys)]
  /\ wire = Nothing /\ sent = Nothing /\ got = Nothing
  /\ conn = 0 /\ recorded = {} /\ disturbed = FALSE /\ faultsDone = 0

\* The operators whose comment says "mutant" are wrong on purpose: each is the
\* operator below it with a bug that some property rules out.

\* start_connect wipes the channel and makes a new key; the host has a new Conn.
\* The transport is up and C_HELLO, in the clear, is on its way.
Connect ==
  /\ conn < MaxConnects
  /\ conn' = conn + 1
  /\ end' = [p \in Program |-> End("hello", NoKeys)]
  /\ wire' = [Nothing EXCEPT !.up = <<Hello(conn')>>]
  /\ sent' = Nothing /\ got' = Nothing /\ disturbed' = FALSE
  /\ UNCHANGED <<recorded, faultsDone>>

\* rd_channel_seal: what the program seals next.
Sealed(p, e, m) == [kind |-> "sealed", th |-> e.th, dir |-> Out(p), ctr |-> e.sendCtr, body |-> m]

\* rd_channel_open with the end's receive key and counter.
OpensAny(p, f) ==                                                      \* mutant
  f.kind = "sealed" /\ f.body # "altered" /\ f.th = end[p].th /\ f.dir = In(p)
Opens(p, f) ==
  /\ f.kind = "sealed" /\ f.body # "altered"
  /\ f.th = end[p].th /\ f.dir = In(p) /\ f.ctr = end[p].recvCtr

\* The program, now e, seals m and sends it over w.
Transmit(p, e, m, w) ==
  /\ end' = [end EXCEPT ![p] = [e EXCEPT !.sendCtr = @ + 1]]
  /\ wire' = [w EXCEPT ![Out(p)] = Append(@, Sealed(p, e, m))]
  /\ sent' = [sent EXCEPT ![Out(p)] = Append(@, m)]
  /\ recorded' = recorded \cup {Sealed(p, e, m)}

Quietly(p, e, w) == end' = [end EXCEPT ![p] = e] /\ wire' = w /\ UNCHANGED <<sent, recorded>>

\* C_HELLO at the host: S_HELLO is its last plaintext message.  S_HELLO at the
\* viewer: the keys, and the password's proof is the first sealed message.
Greet(p, k, w) ==
  /\ UNCHANGED got
  /\ IF p = "host"
     THEN Quietly(p, End("auth", [ce |-> k, se |-> conn]), [w EXCEPT !.down = Append(@, Hello(conn))])
     ELSE Transmit(p, End("auth", [ce |-> conn, se |-> k]), "auth", w)

\* A message that opens is counted and acted on.
Accept(p, f, w) ==
  LET e == [end[p] EXCEPT !.recvCtr = @ + 1, !.phase = "active"] IN
  /\ got' = [got EXCEPT ![In(p)] = Append(@, f.body)]
  /\ IF p = "host" /\ end[p].phase = "auth" THEN Transmit(p, e, "accepted", w) ELSE Quietly(p, e, w)

\* handle_message of either program.
Read(p) ==
  /\ end[p].phase \in {"hello", "auth", "active"} /\ wire[In(p)] # <<>>
  /\ LET f == Head(wire[In(p)])
         w == [wire EXCEPT ![In(p)] = Tail(@)]
     IN \/ end[p].phase = "hello" /\ Greet(p, f.key, w)
        \/ end[p].phase # "hello" /\ Opens(p, f) /\ Accept(p, f, w)
        \/ /\ end[p].phase # "hello" /\ ~Opens(p, f)
           /\ Quietly(p, [end[p] EXCEPT !.phase = "closed"], w)
           /\ UNCHANGED got
  /\ UNCHANGED <<conn, disturbed, faultsDone>>

\* App::send and Server::send_msg of an accepted session.
Say(p) ==
  /\ end[p].phase = "active" /\ Len(sent[Out(p)]) < MaxSent
  /\ \E m \in Msg : Transmit(p, end[p], m, wire)
  /\ UNCHANGED <<conn, got, disturbed, faultsDone>>

-----------------------------------------------------------------------------
(* The path.                                                               *)

AlteredForms(f) == IF f.kind = "hello" THEN {Hello(k) : k \in 0..conn} \ {f} ELSE {[f EXCEPT !.body = "altered"]}

\* What may become of the next message of a direction.
Disturbances(d) ==
  LET w == wire[d] IN
  IF w = <<>> THEN {}
  ELSE {Tail(w), <<Head(w)>> \o w} \cup {<<f>> \o Tail(w) : f \in AlteredForms(Head(w))}
       \cup (IF Len(w) > 1 /\ w[1].kind = w[2].kind THEN {<<w[2], w[1]>> \o SubSeq(w, 3, Len(w))} ELSE {})

\* A sealed message of any connection and direction comes up again; an end
\* without keys is sent none.
Replays(d) ==
  IF \E p \in Program : In(p) = d /\ end[p].phase \in {"auth", "active"}
  THEN {<<f>> \o wire[d] : f \in recorded} ELSE {}

Disturb(d) ==
  /\ faultsDone < MaxFaults
  /\ \E w \in Disturbances(d) \cup Replays(d) : wire' = [wire EXCEPT ![d] = w]
  /\ disturbed' = TRUE /\ faultsDone' = faultsDone + 1
  /\ UNCHANGED <<end, conn, sent, got, recorded>>

Next ==
  \/ Connect
  \/ \E p \in Program : Read(p) \/ Say(p)
  \/ \E d \in Direction : Disturb(d)

Spec == Init /\ [][Next]_vars

-----------------------------------------------------------------------------
(* Properties.                                                             *)

\* Each direction is a Channel, whatever the path does (rd_secure.h calls it
\* tamper-evident and replay-proof): what an end accepts is what the other end
\* of this very session said, all of it and in order up to some point.
Payload == Msg \cup {"auth", "accepted"}
Up == INSTANCE Channel WITH sent <- sent["up"], got <- got["up"], stopped <- end["host"].phase = "closed"
Down == INSTANCE Channel WITH sent <- sent["down"], got <- got["down"], stopped <- end["viewer"].phase = "closed"

\* rd_channel_open never rejects a message the path left alone: counters and keys
\* of the two ends stay in step, across connections too.
NoFalseAlarm == ~disturbed => \A p \in Program : end[p].phase # "closed"

ChannelsKept == Up!Spec /\ Down!Spec /\ []NoFalseAlarm
=============================================================================
