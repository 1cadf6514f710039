------------------------------- MODULE Relay -------------------------------
(***************************************************************************)
(* The internet relay (relay/relay.cpp).  Hosts and viewers both dial out  *)
(* to it; it pairs a waiting viewer with a data channel the host opens in  *)
(* answer to an "open TICKET" message, and from then on copies messages    *)
(* between the two.                                                        *)
(*                                                                         *)
(* One thread runs a poll loop.  Every action below is one handler call of *)
(* that loop; the loop may serve connections in any order, so the actions  *)
(* are interleaved freely.  A member of Conn is one Conn object: it is     *)
(* accepted once, freed once and never used again, so that a pointer to a  *)
(* freed object can be told from a pointer to its successor.               *)
(*                                                                         *)
(* Abstracted: message contents (numbered), keep-alive pings and pongs,    *)
(* HTTP response bodies, clocks (a timer may fire whenever its other       *)
(* conditions hold), byte counts (queue limits count messages).            *)
(***************************************************************************)
EXTENDS Naturals, Sequences, FiniteSets

CONSTANTS
  Conn, NoConn,       \* connection objects; the null pointer
  Id,                 \* valid 9-digit host IDs
  Key, NoKey,         \* host keys; the empty string
  Ticket, NoTicket,   \* random 128-bit tickets; the empty string
  MaxConns,           \* kMaxConns
  PendingCap,         \* messages a viewer may queue before it is paired
  Backpressure,       \* kBackpressure
  ReadBatch,          \* messages one read_conn call can deliver
  MaxMsgs,            \* bound: messages one connection ever sends
  MaxRepeats          \* bound: "did not answer" frames queued at a time

ASSUME RelayAssumption ==
  /\ NoConn \notin Conn
  /\ NoKey \notin Key
  /\ NoTicket \notin Ticket
  /\ {MaxConns, PendingCap, Backpressure, ReadBatch, MaxMsgs, MaxRepeats} \subseteq Nat
  /\ PendingCap <= Backpressure      \* 4 MiB and 8 MiB

VARIABLES
  kind,       \* Conn::kind, or "new" before accept and "freed" after reaping
  dead,       \* Conn::dead
  closing,    \* Conn::close_after_flush
  id,         \* Conn::id
  ticket,     \* Conn::ticket
  peer,       \* Conn::peer
  pending,    \* Conn::pending
  out,        \* frames of Conn::out not yet accepted by the socket
  owner,      \* g_hosts[id].key
  ctl,        \* g_hosts[id].ctl
  waiting,    \* g_tickets
  turn,       \* the connection whose pipelined frames handle_http is reading
  (* history, read by no guard of the relay *)
  nread,      \* messages read from a connection
  got,        \* messages a connection's socket has accepted
  partner,    \* the connection it was paired with, once it has been
  proved,     \* the key a host connection presented
  asked,      \* the key that owned the ID when the viewer asked for it
  known,      \* the tickets the holders of a key have been sent
  issued      \* the tickets drawn so far

links == <<kind, id, ticket, owner, ctl, waiting>>
history == <<nread, got, partner, proved, asked, known, issued>>
vars == <<kind, dead, closing, id, ticket, peer, pending, out, owner, ctl,
          waiting, turn, nread, got, partner, proved, asked, known, issued>>

NoId == "none"
Upgraded == {"HostCtl", "HostData", "Viewer"}
Kinds == {"new", "Http", "freed"} \cup Upgraded

Data(c, n) == [type |-> "data", from |-> c, n |-> n]
Open(t) == [type |-> "open", ticket |-> t]
Close(code) == [type |-> "close", code |-> code]
Frame == [type : {"data"}, from : Conn, n : Nat]
           \cup [type : {"open"}, ticket : Ticket]
           \cup [type : {"close"}, code : Nat]

Live(c) == kind[c] \in {"Http"} \cup Upgraded /\ ~dead[c]
Idle == turn = NoConn
AwaitingHost(c) == kind[c] = "Viewer" /\ peer[c] = NoConn /\ ticket[c] # NoTicket

Init ==
  /\ kind = [c \in Conn |-> "new"]
  /\ dead = [c \in Conn |-> FALSE]
  /\ closing = [c \in Conn |-> FALSE]
  /\ id = [c \in Conn |-> NoId]
  /\ ticket = [c \in Conn |-> NoTicket]
  /\ peer = [c \in Conn |-> NoConn]
  /\ pending = [c \in Conn |-> <<>>]
  /\ out = [c \in Conn |-> <<>>]
  /\ owner = [i \in Id |-> NoKey]
  /\ ctl = [i \in Id |-> NoConn]
  /\ waiting = [t \in Ticket |-> NoConn]
  /\ turn = NoConn
  /\ nread = [c \in Conn |-> 0]
  /\ got = [c \in Conn |-> 0]
  /\ partner = [c \in Conn |-> NoConn]
  /\ proved = [c \in Conn |-> NoKey]
  /\ asked = [c \in Conn |-> NoKey]
  /\ known = [k \in Key |-> {}]
  /\ issued = {}

-----------------------------------------------------------------------------
(* Helpers shared by the handlers.                                         *)

\* The operators whose comment says "mutant" are wrong on purpose: each is the
\* operator below it with a bug that some property rules out.

\* ws_send: frames queued behind what is already in o, unless c is dead.
WsSendInFront(o, c, frames) ==                                        \* mutant
  IF dead[c] THEN o ELSE [o EXCEPT ![c] = frames \o @]
WsSend(o, c, frames) == IF dead[c] THEN o ELSE [o EXCEPT ![c] = @ \o frames]

\* The frames queued once c's peer, if it has one, has been told to close.
ToldPeer(o, c, code) ==
  IF peer[c] = NoConn THEN o ELSE WsSend(o, peer[c], <<Close(code)>>)

\* Both ends of c's pairing forget each other.
UnlinkedOneSide(c) == [peer EXCEPT ![c] = NoConn]                     \* mutant
Unlinked(c) == [x \in Conn |-> IF x = c \/ x = peer[c] THEN NoConn ELSE peer[x]]

\* ws_close(peer) has the peer closed once it is drained.
ClosingUnchanged(c) == closing                                        \* mutant
ClosingPeer(c) == [x \in Conn |-> closing[x] \/ x = peer[c]]

\* g_tickets without the ticket c still holds.
TicketErased(c) ==
  [t \in Ticket |->
     IF kind[c] = "Viewer" /\ ticket[c] = t THEN NoConn ELSE waiting[t]]

\* kill_conn(c), where o is what is queued when it is called.
Kill(c, o) ==
  /\ dead' = [dead EXCEPT ![c] = TRUE]
  /\ closing' = ClosingPeer(c)
  /\ peer' = Unlinked(c)
  /\ out' = ToldPeer(o, c, 1001)
  /\ waiting' = TicketErased(c)
  /\ ctl' = [i \in Id |->
       IF kind[c] = "HostCtl" /\ id[c] = i /\ ctl[i] = c THEN NoConn ELSE ctl[i]]

\* http_response: the answer to c is queued and c closes once it is sent.
HttpResponse(c) == closing' = [closing EXCEPT ![c] = TRUE]

-----------------------------------------------------------------------------
(* The event loop's handlers.                                              *)

Accept(c) ==
  /\ Idle
  /\ kind[c] = "new"
  /\ Cardinality({x \in Conn : kind[x] \notin {"new", "freed"}}) < MaxConns
  /\ kind' = [kind EXCEPT ![c] = "Http"]
  /\ UNCHANGED <<dead, closing, id, ticket, peer, pending, out, owner, ctl,
                 waiting, turn, history>>

CanRequest(c) == Idle /\ kind[c] = "Http" /\ ~dead[c]

\* A request that is no upgrade, or one for an unknown path.
PlainRequest(c) ==
  /\ CanRequest(c)
  /\ HttpResponse(c)
  /\ UNCHANGED <<links, dead, peer, pending, out, turn, history>>

\* The ID belongs to a connected host with another key.
NeverInUse(i, k) == FALSE                                             \* mutant
InUse(i, k) == ctl[i] # NoConn /\ owner[i] # k

\* The stale channel of a host that reconnects is retired.
Replaced(i) == {ctl[i]} \ {NoConn}

\* GET /host?id=i&key=k
HostRequest(c, i, k) ==
  /\ CanRequest(c)
  /\ IF InUse(i, k)
     THEN /\ HttpResponse(c)
          /\ UNCHANGED <<links, dead, peer, pending, out, turn, history>>
     ELSE /\ dead' = [x \in Conn |-> dead[x] \/ x \in Replaced(i)]
          /\ closing' = [x \in Conn |-> closing[x] \/ x \in Replaced(i)]
          /\ owner' = [owner EXCEPT ![i] = k]
          /\ ctl' = [ctl EXCEPT ![i] = c]
          /\ kind' = [kind EXCEPT ![c] = "HostCtl"]
          /\ id' = [id EXCEPT ![c] = i]
          /\ proved' = [proved EXCEPT ![c] = k]
          /\ turn' = c
          /\ UNCHANGED <<ticket, peer, pending, out, waiting, nread, got,
                         partner, asked, known, issued>>

\* The waiting viewer a data channel for ID i with key k and ticket t gets.
ClaimableAny(i, k, t) ==                                              \* mutant
  IF owner[i] = k /\ \E v \in Conn : Live(v) /\ AwaitingHost(v) /\ id[v] = i
  THEN CHOOSE v \in Conn : Live(v) /\ AwaitingHost(v) /\ id[v] = i ELSE NoConn
Claimable(i, k, t) ==
  IF t \in Ticket /\ owner[i] = k /\ waiting[t] # NoConn /\ id[waiting[t]] = i
  THEN waiting[t] ELSE NoConn

\* A ticket is good for one data channel.
Redeemed(t) == [waiting EXCEPT ![t] = NoConn]

\* c becomes the data channel of viewer v; what v sent meanwhile goes first.
Pair(c, v, i, k, t) ==
  /\ waiting' = Redeemed(t)
  /\ ticket' = [ticket EXCEPT ![v] = NoTicket]
  /\ kind' = [kind EXCEPT ![c] = "HostData"]
  /\ id' = [id EXCEPT ![c] = i]
  /\ peer' = [peer EXCEPT ![c] = v, ![v] = c]
  /\ out' = WsSend(out, c, pending[v])
  /\ pending' = [pending EXCEPT ![v] = <<>>]
  /\ turn' = c
  /\ partner' = [partner EXCEPT ![c] = v, ![v] = c]
  /\ proved' = [proved EXCEPT ![c] = k]
  /\ UNCHANGED <<dead, closing, owner, ctl, nread, got, asked, known, issued>>

\* GET /data?id=i&key=k&ticket=t.  A ticket cannot be guessed: it is one that
\* a holder of k was sent, or a wrong one.
DataRequest(c, i, k, t) ==
  /\ CanRequest(c)
  /\ t \in known[k] \cup {NoTicket}
  /\ LET v == Claimable(i, k, t) IN
     IF v = NoConn
     THEN /\ HttpResponse(c)
          /\ UNCHANGED <<links, dead, peer, pending, out, turn, history>>
     ELSE Pair(c, v, i, k, t)

\* GET /v/i while nobody serves i.
ViewerRefused(c, i) ==
  /\ CanRequest(c)
  /\ ctl[i] = NoConn
  /\ kind' = [kind EXCEPT ![c] = "Viewer"]
  /\ id' = [id EXCEPT ![c] = i]
  /\ out' = WsSend(out, c, <<Close(4404)>>)
  /\ closing' = [closing EXCEPT ![c] = TRUE]
  /\ UNCHANGED <<dead, ticket, peer, pending, owner, ctl, waiting, turn, history>>

\* random_hex(16) never returns the same ticket twice.
Fresh(t) == t \notin issued

\* GET /v/i: the viewer gets a fresh ticket and the host is told to answer.
ViewerRequest(c, i, t) ==
  /\ CanRequest(c)
  /\ ctl[i] # NoConn
  /\ Fresh(t)
  /\ kind' = [kind EXCEPT ![c] = "Viewer"]
  /\ id' = [id EXCEPT ![c] = i]
  /\ ticket' = [ticket EXCEPT ![c] = t]
  /\ waiting' = [waiting EXCEPT ![t] = c]
  /\ out' = WsSend(out, ctl[i], <<Open(t)>>)
  /\ turn' = c
  /\ asked' = [asked EXCEPT ![c] = owner[i]]
  /\ issued' = issued \cup {t}
  /\ UNCHANGED <<dead, closing, peer, pending, owner, ctl, nread, got, partner,
                 proved, known>>

-----------------------------------------------------------------------------
(* Reading WebSocket messages.                                             *)

\* n more messages of c, and what is queued once they have been forwarded.
BatchReversed(c, n) == [j \in 1..n |-> Data(c, nread[c] - j)]         \* mutant
Batch(c, n) == [j \in 1..n |-> Data(c, nread[c] + j)]
ForwardedOrDropped(c, n) ==                                           \* mutant
  IF peer[c] # NoConn /\ Len(out[peer[c]]) <= Backpressure
  THEN WsSend(out, peer[c], Batch(c, n)) ELSE out
Forwarded(c, n) ==
  IF peer[c] # NoConn THEN WsSend(out, peer[c], Batch(c, n)) ELSE out
Overflows(c, n) == AwaitingHost(c) /\ Len(pending[c]) + n > PendingCap

\* n messages, then nothing more for now, a CLOSE frame, or (lost) a broken
\* connection or an invalid frame.  A queue that overflows also kills c.
HandleMessages(c, n, ending) ==
  /\ nread[c] + n <= MaxMsgs
  /\ nread' = IF kind[c] = "HostCtl" THEN nread ELSE [nread EXCEPT ![c] = @ + n]
  /\ pending' = IF AwaitingHost(c) /\ ~Overflows(c, n)
                THEN [pending EXCEPT ![c] = @ \o Batch(c, n)] ELSE pending
  /\ \/ /\ ending = "lost" \/ Overflows(c, n)
        /\ Kill(c, Forwarded(c, n))
     \/ /\ ending = "close" /\ ~Overflows(c, n)
        /\ ~closing[c]                        \* bound: one CLOSE per client
        /\ closing' = [x \in Conn |-> closing[x] \/ x \in {c, peer[c]}]
        /\ peer' = Unlinked(c)
        /\ out' = ToldPeer(WsSend(Forwarded(c, n), c, <<Close(1000)>>), c, 1000)
        /\ UNCHANGED <<dead, ctl, waiting>>
     \/ /\ ending = "none" /\ ~Overflows(c, n)
        /\ out' = Forwarded(c, n)
        /\ UNCHANGED <<dead, closing, peer, ctl, waiting>>
  /\ UNCHANGED <<kind, id, ticket, owner, got, partner, proved, asked, known,
                 issued>>

\* The rest of handle_http: the frames that came in behind the upgrade request
\* are handled to the last one, also behind a CLOSE (which is the same as if it
\* came last: a waiting viewer queues them all, a paired channel is unlinked),
\* and an invalid one is left for the next read.
Pipelined(c, n) ==
  /\ turn = c
  /\ Live(c)
  /\ \E ending \in {"none", "close"} : HandleMessages(c, n, ending)
  /\ turn' = NoConn

\* The poll loop does not ask to read a connection whose peer is backed up.
NeverBackedUp(c) == FALSE                                             \* mutant
BackedUp(c) == peer[c] # NoConn /\ Len(out[peer[c]]) > Backpressure

\* read_conn of an upgraded connection.
Receive(c, n, ending) ==
  /\ Idle
  /\ Live(c) /\ kind[c] \in Upgraded
  /\ ~closing[c]
  /\ n > 0 \/ ending # "none"
  /\ BackedUp(c) => ending = "lost"   \* POLLHUP and POLLERR are always reported
  /\ HandleMessages(c, n, ending)
  /\ UNCHANGED turn

\* read_conn or flush of c meets an error (also while c is closing, when what
\* arrives is no longer handled).
Disconnect(c) ==
  /\ Idle
  /\ Live(c)
  /\ Kill(c, out)
  /\ UNCHANGED <<kind, id, ticket, pending, owner, turn, history>>

\* flush: the socket takes a frame, and a closing connection that has nothing
\* left to send is killed.
Flush(c) ==
  /\ Idle
  /\ Live(c)
  /\ out[c] # <<>> \/ closing[c]
  /\ LET left == IF out[c] = <<>> THEN <<>> ELSE Tail(out[c])
         o == [out EXCEPT ![c] = left]
     IN  IF left = <<>> /\ closing[c]
         THEN Kill(c, o)
         ELSE out' = o /\ UNCHANGED <<dead, closing, peer, ctl, waiting>>
  /\ got' = IF out[c] # <<>> /\ Head(out[c]).type = "data"
            THEN [got EXCEPT ![c] = @ + 1] ELSE got
  /\ known' = IF out[c] # <<>> /\ Head(out[c]).type = "open"
              THEN [known EXCEPT ![proved[c]] = @ \cup {Head(out[c]).ticket}]
              ELSE known
  /\ UNCHANGED <<kind, id, ticket, pending, owner, turn, nread, partner, proved,
                 asked, issued>>

-----------------------------------------------------------------------------
(* Timers, and the removal of dead connections that ends an iteration.     *)

\* No request within 15 s.
HttpTimeout(c) ==
  /\ Idle
  /\ Live(c) /\ kind[c] = "Http"
  /\ Kill(c, out)
  /\ UNCHANGED <<kind, id, ticket, pending, owner, turn, history>>

\* A viewer that nobody came for.
AbandonedOnline(c) == Live(c) /\ AwaitingHost(c) /\ ctl[id[c]] # NoConn  \* mutant
Abandoned(c) == Live(c) /\ AwaitingHost(c)

\* The host did not answer within 20 s.  The frame is queued again in every
\* iteration until the connection has been drained.
AnswerTimeout(c) ==
  /\ Idle
  /\ Abandoned(c)
  /\ Len(SelectSeq(out[c], LAMBDA f : f = Close(4408))) < MaxRepeats
  /\ out' = WsSend(out, c, <<Close(4408)>>)
  /\ closing' = [closing EXCEPT ![c] = TRUE]
  /\ UNCHANGED <<links, dead, peer, pending, turn, history>>

\* Nothing received for 90 s (a waiting viewer has met AnswerTimeout by then).
IdleTimeout(c) ==
  /\ Idle
  /\ Live(c) /\ kind[c] \in Upgraded /\ ~AwaitingHost(c)
  /\ Kill(c, out)
  /\ UNCHANGED <<kind, id, ticket, pending, owner, turn, history>>

\* The destructors of all dead connections run at the end of an iteration.
Reap ==
  LET doomed == {c \in Conn : kind[c] # "freed" /\ dead[c]} IN
  /\ Idle
  /\ doomed # {}
  /\ kind' = [c \in Conn |-> IF c \in doomed THEN "freed" ELSE kind[c]]
  /\ pending' = [c \in Conn |-> IF c \in doomed THEN <<>> ELSE pending[c]]
  /\ out' = [c \in Conn |-> IF c \in doomed THEN <<>> ELSE out[c]]
  /\ UNCHANGED <<dead, closing, id, ticket, peer, owner, ctl, waiting, turn,
                 history>>

Next ==
  \/ \E c \in Conn :
       \/ Accept(c) \/ PlainRequest(c)
       \/ \E i \in Id :
            \/ ViewerRefused(c, i)
            \/ \E t \in Ticket : ViewerRequest(c, i, t)
            \/ \E k \in Key :
                 \/ HostRequest(c, i, k)
                 \/ \E t \in Ticket \cup {NoTicket} : DataRequest(c, i, k, t)
       \/ \E n \in 0..ReadBatch :
            \/ Pipelined(c, n)
            \/ \E e \in {"none", "close", "lost"} : Receive(c, n, e)
       \/ Disconnect(c) \/ Flush(c)
       \/ HttpTimeout(c) \/ AnswerTimeout(c) \/ IdleTimeout(c)
  \/ Reap

Spec == Init /\ [][Next]_vars

\* The poll loop serves every connection in every iteration, its timers keep
\* firing, and a client's socket drains (or reports an error) in the end.
Fairness ==
  /\ \A c \in Conn :
       /\ WF_vars(\E n \in 0..ReadBatch : Pipelined(c, n))
       /\ WF_vars(Flush(c))
       /\ WF_vars(AnswerTimeout(c))
  /\ WF_vars(Reap)

FairSpec == Spec /\ Fairness

-----------------------------------------------------------------------------
(* Properties.                                                             *)

TypeOK ==
  /\ kind \in [Conn -> Kinds]
  /\ dead \in [Conn -> BOOLEAN]
  /\ closing \in [Conn -> BOOLEAN]
  /\ id \in [Conn -> Id \cup {NoId}]
  /\ ticket \in [Conn -> Ticket \cup {NoTicket}]
  /\ peer \in [Conn -> Conn \cup {NoConn}]
  /\ pending \in [Conn -> Seq(Frame)]
  /\ out \in [Conn -> Seq(Frame)]
  /\ owner \in [Id -> Key \cup {NoKey}]
  /\ ctl \in [Id -> Conn \cup {NoConn}]
  /\ waiting \in [Ticket -> Conn \cup {NoConn}]
  /\ turn \in Conn \cup {NoConn}
  /\ nread \in [Conn -> Nat]
  /\ got \in [Conn -> Nat]
  /\ partner \in [Conn -> Conn \cup {NoConn}]
  /\ proved \in [Conn -> Key \cup {NoKey}]
  /\ asked \in [Conn -> Key \cup {NoKey}]
  /\ known \in [Key -> SUBSET Ticket]
  /\ issued \subseteq Ticket

\* kill_conn, the 4408 timeout and the destructors leave no dangling pointer:
\* whatever a live connection's peer, g_hosts or g_tickets points at is a live
\* connection, of the kind and the ID that the pointer's user takes for granted.
NoDanglingPointer ==
  /\ \A c \in Conn : peer[c] # NoConn => Live(c) /\ Live(peer[c])
  /\ \A i \in Id : ctl[i] # NoConn =>
       Live(ctl[i]) /\ kind[ctl[i]] = "HostCtl" /\ id[ctl[i]] = i
  /\ \A t \in Ticket : waiting[t] # NoConn =>
       Live(waiting[t]) /\ AwaitingHost(waiting[t]) /\ ticket[waiting[t]] = t

\* Pairing is one viewer with one data channel of the same ID, seen alike from
\* both ends, whichever of the two closes, is killed or times out first.
PairedBothWays ==
  \A c \in Conn : peer[c] # NoConn =>
    /\ peer[peer[c]] = c
    /\ {kind[c], kind[peer[c]]} = {"Viewer", "HostData"}
    /\ id[peer[c]] = id[c]

\* One live control channel per ID: a host that reconnects with its key before
\* the relay noticed that the old channel is gone does not end up with two.
OneControlChannel ==
  \A c \in Conn : Live(c) /\ kind[c] = "HostCtl" => ctl[id[c]] = c

\* Every viewer that waits for its host can still be found under its ticket.
WaitingIsFindable ==
  \A c \in Conn : Live(c) /\ AwaitingHost(c) => waiting[ticket[c]] = c

\* The relay's raw pointers, over every interleaving of closing, killing,
\* replacing, pairing and reaping.
PointersAgree ==
  PairedBothWays /\ NoDanglingPointer /\ OneControlChannel /\ WaitingIsFindable

\* How many of the first j frames are messages, and how many wait in out[c].
DataAmong(frames, j) == Cardinality({h \in 1..j : frames[h].type = "data"})
Queued(c) == DataAmong(out[c], Len(out[c]))

\* End to end order: what a connection's socket takes are the messages of the
\* one connection it was paired with, the first one first, none twice, none
\* skipped - also those that arrived before the pairing.
ForwardedInOrder ==
  \A c \in Conn : \A j \in 1..Len(out[c]) :
    out[c][j].type = "data" => out[c][j] = Data(partner[c], got[c] + DataAmong(out[c], j))

\* Nothing is lost while both ends stay: what was read from a connection was
\* taken by its peer's socket, is queued for it, or waits for the pairing.
NothingLost ==
  \A c \in Conn : Live(c) =>
    /\ peer[c] # NoConn => got[peer[c]] + Queued(peer[c]) = nread[c]
    /\ AwaitingHost(c) => Len(pending[c]) = nread[c]

\* Back-pressure: a viewer that does not read makes the relay hold no more than
\* the threshold, what one more round of reads brings and, of a connection
\* that has just been reset, the last read.
MemoryBounded ==
  \A c \in Conn :
    /\ Queued(c) <= Backpressure + 2 * ReadBatch
    /\ Len(pending[c]) <= PendingCap

\* A viewer only ever talks to the host that owned the ID when it asked for
\* it, also when that host left and another one took the ID meanwhile.
PairedWithAskedHost ==
  \A c \in Conn : kind[c] = "Viewer" /\ partner[c] # NoConn =>
    proved[partner[c]] = asked[c]

\* A host keeps its ID for as long as its control channel lives: the ID is free only
\* when that channel is dead, and nobody who lacks the key takes it over.
OwnershipKept ==
  [][\A i \in Id : ctl[i] # NoConn =>
       /\ owner'[i] = owner[i]
       /\ \/ ctl'[i] = ctl[i]
          \/ dead'[ctl[i]] /\ (ctl'[i] = NoConn \/ proved'[ctl'[i]] = proved[ctl[i]])]_vars

\* Nobody waits for ever: a viewer that waits for its host is paired or closed.
WaitingIsAnswered ==
  \A c \in Conn : (Live(c) /\ AwaitingHost(c)) ~> (peer[c] # NoConn \/ dead[c])

\* Both ends go: when the connection one was paired with is dead, it is told,
\* drained and freed.
BothEndsGo ==
  \A c \in Conn : (partner[c] # NoConn /\ dead[partner[c]]) ~> kind[c] = "freed"
=============================================================================
