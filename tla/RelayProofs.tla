----------------------------- MODULE RelayProofs -----------------------------
(***************************************************************************)
(* Proofs about Relay: type correctness, that its pointers stay mutual and *)
(* never dangle, that a host keeps its ID, and that what it forwards is    *)
(* complete, in order, bounded and for the host that was asked for, for    *)
(* any number of connections, IDs, keys, tickets and messages.             *)
(***************************************************************************)
EXTENDS Relay, FiniteSetTheorems, TLAPS

\* A ticket was drawn before, is held by a viewer (which may have been freed
\* with it), and never by one that is already paired.
TicketsIssued ==
  \A c \in Conn : ticket[c] # NoTicket =>
    ticket[c] \in issued /\ kind[c] \in {"Viewer", "freed"} /\ peer[c] = NoConn

\* The control channel of an ID presented the key that owns the ID.
OwnerProved == \A i \in Id : ctl[i] # NoConn => proved[ctl[i]] = owner[i]

\* A connection that was upgraded named a valid ID.
IdsKnown == \A c \in Conn : kind[c] \in Upgraded => id[c] \in Id

\* The pointer structure of the relay.
Pointers ==
  /\ PairedBothWays
  /\ NoDanglingPointer
  /\ OneControlChannel
  /\ WaitingIsFindable
  /\ TicketsIssued
  /\ OwnerProved
  /\ IdsKnown

IInv == TypeOK /\ Pointers

-----------------------------------------------------------------------------
(* Types.                                                                  *)

\* Whatever ws_send queues leaves the output queues well-typed.
LEMMA WsSendType ==
  ASSUME NEW o \in [Conn -> Seq(Frame)], NEW c \in Conn, NEW s \in Seq(Frame)
  PROVE  WsSend(o, c, s) \in [Conn -> Seq(Frame)]
BY DEF WsSend

\* The frames the handlers build are frames.
LEMMA FrameTypes ==
  /\ \A c \in Conn, n \in Nat : Data(c, n) \in Frame
  /\ \A t \in Ticket : Open(t) \in Frame
  /\ \A code \in Nat : Close(code) \in Frame
BY DEF Data, Open, Close, Frame

\* ... in particular a single frame.
LEMMA SendOneType ==
  ASSUME NEW o \in [Conn -> Seq(Frame)], NEW c \in Conn, NEW f \in Frame
  PROVE  WsSend(o, c, <<f>>) \in [Conn -> Seq(Frame)]
<1>1. <<f>> \in Seq(Frame)
  OBVIOUS
<1>. QED
  BY <1>1 DEF WsSend

\* Telling the peer to close queues a frame or nothing.
LEMMA ToldPeerType ==
  ASSUME TypeOK, NEW o \in [Conn -> Seq(Frame)], NEW c \in Conn, NEW code \in Nat
  PROVE  ToldPeer(o, c, code) \in [Conn -> Seq(Frame)]
<1>1. <<Close(code)>> \in Seq(Frame)
  BY FrameTypes
<1>2. peer[c] # NoConn => peer[c] \in Conn
  BY DEF TypeOK
<1>. QED
  BY <1>1, <1>2, WsSendType DEF ToldPeer

\* kill_conn keeps the type of everything it assigns.
LEMMA KillType ==
  ASSUME TypeOK, NEW o \in [Conn -> Seq(Frame)], NEW c \in Conn, Kill(c, o)
  PROVE  /\ dead' \in [Conn -> BOOLEAN]
         /\ closing' \in [Conn -> BOOLEAN]
         /\ peer' \in [Conn -> Conn \cup {NoConn}]
         /\ out' \in [Conn -> Seq(Frame)]
         /\ waiting' \in [Ticket -> Conn \cup {NoConn}]
         /\ ctl' \in [Id -> Conn \cup {NoConn}]
<1>1. out' \in [Conn -> Seq(Frame)]
  BY ToldPeerType DEF Kill
<1>2. dead' \in [Conn -> BOOLEAN] /\ closing' \in [Conn -> BOOLEAN]
  BY DEF Kill, ClosingPeer, TypeOK
<1>3. peer' \in [Conn -> Conn \cup {NoConn}]
  BY DEF Kill, Unlinked, TypeOK
<1>4. waiting' \in [Ticket -> Conn \cup {NoConn}]
  BY DEF Kill, TicketErased, TypeOK
<1>5. ctl' \in [Id -> Conn \cup {NoConn}]
  BY DEF Kill, TypeOK
<1>. QED
  BY <1>1, <1>2, <1>3, <1>4, <1>5

\* The messages of one read are frames, wherever they are queued.
LEMMA BatchType ==
  ASSUME TypeOK, NEW c \in Conn, NEW n \in Nat
  PROVE  /\ Batch(c, n) \in Seq(Frame)
         /\ Forwarded(c, n) \in [Conn -> Seq(Frame)]
<1>1. \A j \in 1..n : nread[c] + j \in Nat
  BY DEF TypeOK
<1>2. Batch(c, n) \in [1..n -> Frame]
  BY <1>1, FrameTypes DEF Batch
<1>3. Batch(c, n) \in Seq(Frame)
  BY <1>2
<1>4. peer[c] # NoConn => peer[c] \in Conn
  BY DEF TypeOK
<1>5. out \in [Conn -> Seq(Frame)]
  BY DEF TypeOK
<1>. QED
  BY <1>3, <1>4, <1>5, WsSendType DEF Forwarded

\* Handling messages keeps the types.
LEMMA HandleMessagesType ==
  ASSUME TypeOK, NEW c \in Conn, NEW n \in Nat, NEW e,
         HandleMessages(c, n, e), turn' \in Conn \cup {NoConn}
  PROVE  TypeOK'
<1>1. nread' \in [Conn -> Nat]
  <2>1. nread' = IF kind[c] = "HostCtl" THEN nread ELSE [nread EXCEPT ![c] = @ + n]
    BY DEF HandleMessages
  <2>2. nread \in [Conn -> Nat]
    BY DEF TypeOK
  <2>. QED
    BY <2>1, <2>2
<1>2. Batch(c, n) \in Seq(Frame) /\ Forwarded(c, n) \in [Conn -> Seq(Frame)]
  BY BatchType
<1>3. pending' \in [Conn -> Seq(Frame)]
  <2>1. \/ pending' = [pending EXCEPT ![c] = @ \o Batch(c, n)]
        \/ pending' = pending
    BY DEF HandleMessages
  <2>2. pending \in [Conn -> Seq(Frame)]
    BY DEF TypeOK
  <2>3. pending[c] \o Batch(c, n) \in Seq(Frame)
    BY <1>2, <2>2
  <2>. QED
    BY <2>1, <2>2, <2>3
<1>4. /\ dead' \in [Conn -> BOOLEAN] /\ closing' \in [Conn -> BOOLEAN]
      /\ peer' \in [Conn -> Conn \cup {NoConn}] /\ out' \in [Conn -> Seq(Frame)]
      /\ waiting' \in [Ticket -> Conn \cup {NoConn}]
      /\ ctl' \in [Id -> Conn \cup {NoConn}]
  <2>1. CASE Kill(c, Forwarded(c, n))
    BY <1>2, <2>1, KillType
  <2>2. CASE /\ closing' = [x \in Conn |-> closing[x] \/ x \in {c, peer[c]}]
             /\ peer' = Unlinked(c)
             /\ out' = ToldPeer(WsSend(Forwarded(c, n), c, <<Close(1000)>>), c, 1000)
             /\ UNCHANGED <<dead, ctl, waiting>>
    <3>. DEFINE f == Close(1000)
                o == WsSend(Forwarded(c, n), c, <<f>>)
    <3>1. f \in Frame
      BY FrameTypes
    <3>2. o \in [Conn -> Seq(Frame)]
      <4>. HIDE DEF f
      <4>. QED
        BY <1>2, <3>1, SendOneType
    <3>3. ToldPeer(o, c, 1000) \in [Conn -> Seq(Frame)]
      <4>. HIDE DEF o
      <4>. QED
        BY <3>2, ToldPeerType
    <3>4. peer' \in [Conn -> Conn \cup {NoConn}]
      BY <2>2 DEF Unlinked, TypeOK
    <3>5. closing' \in [Conn -> BOOLEAN]
      BY <2>2 DEF TypeOK
    <3>6. dead' \in [Conn -> BOOLEAN] /\ waiting' \in [Ticket -> Conn \cup {NoConn}]
          /\ ctl' \in [Id -> Conn \cup {NoConn}]
      BY <2>2 DEF TypeOK
    <3>. QED
      BY <2>2, <3>3, <3>4, <3>5, <3>6, ZenonT(40)
  <2>3. CASE /\ out' = Forwarded(c, n)
             /\ UNCHANGED <<dead, closing, peer, ctl, waiting>>
    BY <1>2, <2>3 DEF TypeOK
  <2>. QED
    BY <2>1, <2>2, <2>3 DEF HandleMessages
<1>. QED
  BY <1>1, <1>3, <1>4 DEF HandleMessages, TypeOK

\* Every step of the relay keeps the types.
LEMMA TypeStep == TypeOK /\ [Next]_vars => TypeOK'
<1>. SUFFICES ASSUME TypeOK, [Next]_vars PROVE TypeOK'
  OBVIOUS
<1>1. out \in [Conn -> Seq(Frame)] /\ pending \in [Conn -> Seq(Frame)]
  BY DEF TypeOK
<1>2. ASSUME NEW c \in Conn, Accept(c) PROVE TypeOK'
  BY <1>2 DEF Accept, TypeOK, Kinds, history
<1>3. ASSUME NEW c \in Conn, PlainRequest(c) PROVE TypeOK'
  BY <1>3 DEF PlainRequest, HttpResponse, TypeOK, links, history
<1>4. ASSUME NEW c \in Conn, NEW i \in Id, NEW k \in Key, HostRequest(c, i, k)
      PROVE TypeOK'
  <2>1. CASE InUse(i, k)
    BY <1>4, <2>1 DEF HostRequest, HttpResponse, TypeOK, links, history
  <2>2. CASE ~InUse(i, k)
    <3>. DEFINE old == Replaced(i)
    <3>0. /\ dead' = [x \in Conn |-> dead[x] \/ x \in old]
          /\ closing' = [x \in Conn |-> closing[x] \/ x \in old]
          /\ owner' = [owner EXCEPT ![i] = k]
          /\ ctl' = [ctl EXCEPT ![i] = c]
          /\ kind' = [kind EXCEPT ![c] = "HostCtl"]
          /\ id' = [id EXCEPT ![c] = i]
          /\ proved' = [proved EXCEPT ![c] = k]
          /\ turn' = c
          /\ UNCHANGED <<ticket, peer, pending, out, waiting, nread, got,
                         partner, asked, known, issued>>
      BY <1>4, <2>2 DEF HostRequest
    <3>. HIDE DEF old
    <3>1. dead' \in [Conn -> BOOLEAN] /\ closing' \in [Conn -> BOOLEAN]
      BY <3>0
    <3>2. /\ kind' \in [Conn -> Kinds] /\ id' \in [Conn -> Id \cup {NoId}]
          /\ owner' \in [Id -> Key \cup {NoKey}] /\ ctl' \in [Id -> Conn \cup {NoConn}]
          /\ proved' \in [Conn -> Key \cup {NoKey}] /\ turn' \in Conn \cup {NoConn}
      BY <3>0 DEF TypeOK, Kinds, Upgraded
    <3>. QED
      BY <3>0, <3>1, <3>2 DEF TypeOK
  <2>. QED
    BY <2>1, <2>2
<1>5. ASSUME NEW c \in Conn, NEW i \in Id, NEW k \in Key,
             NEW t \in Ticket \cup {NoTicket}, DataRequest(c, i, k, t)
      PROVE TypeOK'
  <2>. DEFINE v == Claimable(i, k, t)
  <2>1. CASE v = NoConn
    BY <1>5, <2>1 DEF DataRequest, HttpResponse, TypeOK, links, history
  <2>2. CASE v # NoConn
    <3>1. Pair(c, v, i, k, t)
      BY <1>5, <2>2 DEF DataRequest
    <3>2. v \in Conn
      BY <2>2 DEF Claimable, TypeOK
    <3>3. out' \in [Conn -> Seq(Frame)]
      <4>1. pending[v] \in Seq(Frame) /\ out' = WsSend(out, c, pending[v])
        BY <1>1, <3>1, <3>2 DEF Pair
      <4>. HIDE DEF v
      <4>. QED
        BY <1>1, <4>1, WsSendType
    <3>. HIDE DEF v
    <3>4. /\ waiting' \in [Ticket -> Conn \cup {NoConn}]
          /\ ticket' \in [Conn -> Ticket \cup {NoTicket}]
      BY <3>1, <3>2 DEF Pair, TypeOK, Redeemed
    <3>5. /\ kind' \in [Conn -> Kinds] /\ id' \in [Conn -> Id \cup {NoId}]
          /\ proved' \in [Conn -> Key \cup {NoKey}] /\ turn' \in Conn \cup {NoConn}
      BY <3>1, <3>2 DEF Pair, TypeOK, Kinds, Upgraded
    <3>6. /\ peer' \in [Conn -> Conn \cup {NoConn}]
          /\ partner' \in [Conn -> Conn \cup {NoConn}]
      BY <3>1, <3>2 DEF Pair, TypeOK
    <3>7. pending' \in [Conn -> Seq(Frame)]
      BY <1>1, <3>1, <3>2 DEF Pair
    <3>. QED
      BY <3>1, <3>3, <3>4, <3>5, <3>6, <3>7 DEF Pair, TypeOK
  <2>. QED
    BY <2>1, <2>2
<1>6. ASSUME NEW c \in Conn, NEW i \in Id, ViewerRefused(c, i) PROVE TypeOK'
  <2>1. out' \in [Conn -> Seq(Frame)]
    <3>. DEFINE f == Close(4404)
    <3>1. f \in Frame /\ out' = WsSend(out, c, <<f>>)
      BY <1>6, FrameTypes DEF ViewerRefused
    <3>. HIDE DEF f
    <3>. QED
      BY <1>1, <3>1, SendOneType
  <2>2. closing' \in [Conn -> BOOLEAN]
    BY <1>6 DEF ViewerRefused, TypeOK
  <2>3. kind' \in [Conn -> Kinds] /\ id' \in [Conn -> Id \cup {NoId}]
    BY <1>6 DEF ViewerRefused, TypeOK, Kinds, Upgraded
  <2>4. UNCHANGED <<dead, ticket, peer, pending, owner, ctl, waiting, turn, history>>
    BY <1>6 DEF ViewerRefused
  <2>. QED
    BY <2>1, <2>2, <2>3, <2>4 DEF TypeOK, history
<1>7. ASSUME NEW c \in Conn, NEW i \in Id, NEW t \in Ticket, ViewerRequest(c, i, t)
      PROVE TypeOK'
  <2>1. ctl[i] \in Conn
    BY <1>7 DEF ViewerRequest, TypeOK
  <2>2. out' \in [Conn -> Seq(Frame)]
    <3>. DEFINE f == Open(t)
    <3>1. f \in Frame /\ out' = WsSend(out, ctl[i], <<f>>)
      BY <1>7, FrameTypes DEF ViewerRequest
    <3>. HIDE DEF f
    <3>. QED
      BY <1>1, <2>1, <3>1, SendOneType
  <2>. QED
    BY <1>7, <2>2 DEF ViewerRequest, TypeOK, Kinds, Upgraded
<1>8. ASSUME NEW c \in Conn, NEW n \in 0..ReadBatch, Pipelined(c, n) PROVE TypeOK'
  BY <1>8, HandleMessagesType, RelayAssumption DEF Pipelined
<1>9. ASSUME NEW c \in Conn, NEW n \in 0..ReadBatch, NEW e, Receive(c, n, e)
      PROVE TypeOK'
  <2>1. turn' \in Conn \cup {NoConn}
    BY <1>9 DEF Receive, TypeOK
  <2>. QED
    BY <1>9, <2>1, HandleMessagesType, RelayAssumption DEF Receive
<1>10. ASSUME NEW c \in Conn, Disconnect(c) PROVE TypeOK'
  <2>1. Kill(c, out)
    BY <1>10 DEF Disconnect
  <2>. QED
    BY <1>1, <1>10, <2>1, KillType DEF Disconnect, TypeOK, history
<1>11. ASSUME NEW c \in Conn, HttpTimeout(c) PROVE TypeOK'
  <2>1. Kill(c, out)
    BY <1>11 DEF HttpTimeout
  <2>. QED
    BY <1>1, <1>11, <2>1, KillType DEF HttpTimeout, TypeOK, history
<1>12. ASSUME NEW c \in Conn, IdleTimeout(c) PROVE TypeOK'
  <2>1. Kill(c, out)
    BY <1>12 DEF IdleTimeout
  <2>. QED
    BY <1>1, <1>12, <2>1, KillType DEF IdleTimeout, TypeOK, history
<1>13. ASSUME NEW c \in Conn, AnswerTimeout(c) PROVE TypeOK'
  <2>1. out' \in [Conn -> Seq(Frame)]
    <3>. DEFINE f == Close(4408)
    <3>1. f \in Frame /\ out' = WsSend(out, c, <<f>>)
      BY <1>13, FrameTypes DEF AnswerTimeout
    <3>. HIDE DEF f
    <3>. QED
      BY <1>1, <3>1, SendOneType
  <2>2. closing' \in [Conn -> BOOLEAN]
    BY <1>13 DEF AnswerTimeout, TypeOK
  <2>3. UNCHANGED <<links, dead, peer, pending, turn, history>>
    BY <1>13 DEF AnswerTimeout
  <2>. QED
    BY <2>1, <2>2, <2>3 DEF TypeOK, links, history
<1>14. ASSUME NEW c \in Conn, Flush(c) PROVE TypeOK'
  <2>. DEFINE left == IF out[c] = <<>> THEN <<>> ELSE Tail(out[c])
              o == [out EXCEPT ![c] = left]
  <2>1. o \in [Conn -> Seq(Frame)]
    BY <1>1
  <2>2. \/ Kill(c, o)
        \/ out' = o /\ UNCHANGED <<dead, closing, peer, ctl, waiting>>
    BY <1>14 DEF Flush
  <2>3. /\ dead' \in [Conn -> BOOLEAN] /\ closing' \in [Conn -> BOOLEAN]
        /\ peer' \in [Conn -> Conn \cup {NoConn}] /\ out' \in [Conn -> Seq(Frame)]
        /\ waiting' \in [Ticket -> Conn \cup {NoConn}]
        /\ ctl' \in [Id -> Conn \cup {NoConn}]
    <3>. HIDE DEF o
    <3>1. CASE Kill(c, o)
      BY <2>1, <3>1, KillType
    <3>2. CASE out' = o /\ UNCHANGED <<dead, closing, peer, ctl, waiting>>
      BY <2>1, <3>2 DEF TypeOK
    <3>. QED
      BY <2>2, <3>1, <3>2
  <2>4. got' \in [Conn -> Nat]
    <3>1. got' = [got EXCEPT ![c] = @ + 1] \/ got' = got
      BY <1>14 DEF Flush
    <3>2. got \in [Conn -> Nat]
      BY DEF TypeOK
    <3>. QED
      BY <3>1, <3>2
  <2>5. known' \in [Key -> SUBSET Ticket]
    <3>1. CASE out[c] # <<>> /\ Head(out[c]).type = "open"
      <4>1. Head(out[c]) \in Frame
        BY <1>1, <3>1
      <4>2. Head(out[c]).ticket \in Ticket
        BY <3>1, <4>1 DEF Frame
      <4>3. known' = [known EXCEPT ![proved[c]] = @ \cup {Head(out[c]).ticket}]
        BY <1>14, <3>1 DEF Flush
      <4>. QED
        BY <4>2, <4>3 DEF TypeOK
    <3>2. CASE ~(out[c] # <<>> /\ Head(out[c]).type = "open")
      <4>1. known' = known
        BY <1>14, <3>2 DEF Flush
      <4>. QED
        BY <4>1 DEF TypeOK
    <3>. QED
      BY <3>1, <3>2
  <2>. QED
    BY <1>14, <2>3, <2>4, <2>5 DEF Flush, TypeOK
<1>15. ASSUME Reap PROVE TypeOK'
  <2>1. /\ kind' \in [Conn -> Kinds] /\ pending' \in [Conn -> Seq(Frame)]
        /\ out' \in [Conn -> Seq(Frame)]
    BY <1>1, <1>15 DEF Reap, TypeOK, Kinds
  <2>. QED
    BY <1>15, <2>1 DEF Reap, TypeOK, history
<1>16. CASE UNCHANGED vars
  BY <1>16 DEF vars, TypeOK
<1>. QED
  BY <1>2, <1>3, <1>4, <1>5, <1>6, <1>7, <1>8, <1>9, <1>10, <1>11, <1>12,
     <1>13, <1>14, <1>15, <1>16 DEF Next

\* Init puts every variable in its type.
LEMMA TypeInit == Init => TypeOK
BY DEF Init, TypeOK, Kinds

\* The type invariant of the relay (relay.cpp's globals and Conn fields).
THEOREM TypeCorrect == Spec => []TypeOK
<1>. QED
  BY TypeInit, TypeStep, PTL DEF Spec

-----------------------------------------------------------------------------
(* Pointers.                                                               *)

\* What kill_conn and a CLOSE frame do to the peer pointers: the pairing of c is
\* undone at both ends and every other pairing stays.
LEMMA UnlinkedPairs ==
  ASSUME TypeOK, PairedBothWays, NEW c \in Conn, peer' = Unlinked(c),
         UNCHANGED <<kind, id>>
  PROVE  /\ PairedBothWays'
         /\ \A x \in Conn : peer'[x] # NoConn =>
              peer'[x] = peer[x] /\ x # c /\ peer[x] # c
<1>1. \A x \in Conn : peer'[x] = IF x = c \/ x = peer[c] THEN NoConn ELSE peer[x]
  BY DEF Unlinked
<1>2. ASSUME NEW x \in Conn, peer'[x] # NoConn
      PROVE  /\ peer'[x] = peer[x] /\ x # c /\ peer[x] # c
             /\ peer'[peer'[x]] = x
             /\ {kind[x], kind[peer'[x]]} = {"Viewer", "HostData"}
             /\ id[peer'[x]] = id[x]
  <2>1. x # c /\ x # peer[c] /\ peer'[x] = peer[x]
    BY <1>1, <1>2
  <2>2. peer[x] \in Conn /\ peer[peer[x]] = x
    BY <1>2, <2>1 DEF TypeOK, PairedBothWays
  <2>3. peer[x] # c
    BY <2>1, <2>2
  <2>4. peer[x] # peer[c]
    <3>1. SUFFICES ASSUME peer[x] = peer[c] PROVE FALSE
      OBVIOUS
    <3>2. peer[c] # NoConn
      BY <1>2, <2>1, <3>1
    <3>3. peer[peer[c]] = c
      BY <3>2 DEF PairedBothWays
    <3>. QED
      BY <2>1, <2>2, <3>1, <3>3
  <2>5. peer'[peer[x]] = peer[peer[x]]
    BY <1>1, <2>2, <2>3, <2>4
  <2>. QED
    BY <1>2, <2>1, <2>2, <2>3, <2>5 DEF PairedBothWays
<1>3. PairedBothWays'
  BY <1>2 DEF PairedBothWays
<1>. QED
  BY <1>2, <1>3

\* Killing a connection leaves nothing that points at it.
LEMMA KillKeepsPointers ==
  ASSUME IInv, NEW c \in Conn, NEW o, Live(c), Kill(c, o),
         UNCHANGED <<kind, id, ticket, owner, proved, issued>>
  PROVE  Pointers'
<1>1. peer' = Unlinked(c)
  BY DEF Kill
<1>2. PairedBothWays' /\ \A x \in Conn : peer'[x] # NoConn =>
                           peer'[x] = peer[x] /\ x # c /\ peer[x] # c
  BY <1>1, UnlinkedPairs DEF IInv, Pointers
<1>3. \A x \in Conn : Live(x) /\ x # c => Live(x)'
  BY DEF Kill, Live, IInv, TypeOK
<1>4. \A x \in Conn : Live(x)' => Live(x) /\ x # c
  BY DEF Kill, Live, IInv, TypeOK
<1>5. \A t \in Ticket : waiting'[t] = IF kind[c] = "Viewer" /\ ticket[c] = t
                                      THEN NoConn ELSE waiting[t]
  BY DEF Kill, TicketErased
<1>6. \A i \in Id : ctl'[i] = IF kind[c] = "HostCtl" /\ id[c] = i /\ ctl[i] = c
                              THEN NoConn ELSE ctl[i]
  BY DEF Kill
<1>7. ASSUME NEW x \in Conn, ticket[x] # NoTicket PROVE peer[x] = NoConn /\ peer'[x] = NoConn
  BY <1>2, <1>7 DEF IInv, Pointers, TicketsIssued
<1>8. NoDanglingPointer'
  <2>1. ASSUME NEW x \in Conn, peer'[x] # NoConn PROVE Live(x)' /\ Live(peer[x])'
    <3>1. peer[x] # NoConn /\ peer'[x] = peer[x] /\ x # c /\ peer[x] # c
      BY <1>2, <2>1
    <3>2. Live(x) /\ Live(peer[x]) /\ peer[x] \in Conn
      BY <3>1 DEF IInv, Pointers, NoDanglingPointer, TypeOK
    <3>. QED
      BY <1>3, <3>1, <3>2
  <2>2. ASSUME NEW i \in Id, ctl'[i] # NoConn
        PROVE  Live(ctl[i])' /\ ctl'[i] = ctl[i] /\ kind[ctl[i]] = "HostCtl" /\ id[ctl[i]] = i
    <3>1. ctl'[i] = ctl[i] /\ ctl[i] # NoConn
      BY <1>6, <2>2
    <3>2. Live(ctl[i]) /\ kind[ctl[i]] = "HostCtl" /\ id[ctl[i]] = i /\ ctl[i] \in Conn
      BY <3>1 DEF IInv, Pointers, NoDanglingPointer, TypeOK
    <3>3. ctl[i] # c
      BY <1>6, <2>2, <3>2
    <3>. QED
      BY <1>3, <3>1, <3>2, <3>3
  <2>3. ASSUME NEW t \in Ticket, waiting'[t] # NoConn
        PROVE  /\ waiting'[t] = waiting[t] /\ Live(waiting[t])'
               /\ AwaitingHost(waiting[t])' /\ ticket[waiting[t]] = t
    <3>1. waiting'[t] = waiting[t] /\ waiting[t] # NoConn
      BY <1>5, <2>3
    <3>2. /\ Live(waiting[t]) /\ AwaitingHost(waiting[t])
          /\ ticket[waiting[t]] = t /\ waiting[t] \in Conn
      BY <3>1 DEF IInv, Pointers, NoDanglingPointer, TypeOK
    <3>3. waiting[t] # c
      BY <1>5, <2>3, <3>2 DEF AwaitingHost
    <3>4. peer'[waiting[t]] = NoConn
      BY <1>7, <3>2 DEF AwaitingHost
    <3>. QED
      BY <1>3, <3>1, <3>2, <3>3, <3>4 DEF AwaitingHost
  <2>. QED
    BY <1>2, <2>1, <2>2, <2>3 DEF NoDanglingPointer
<1>9. OneControlChannel'
  <2>1. ASSUME NEW x \in Conn, Live(x)', kind[x] = "HostCtl" PROVE ctl'[id[x]] = x
    <3>1. Live(x) /\ x # c
      BY <1>4, <2>1
    <3>2. ctl[id[x]] = x
      BY <2>1, <3>1 DEF IInv, Pointers, OneControlChannel
    <3>3. ctl' = [i \in Id |-> IF kind[c] = "HostCtl" /\ id[c] = i /\ ctl[i] = c
                               THEN NoConn ELSE ctl[i]]
      BY DEF Kill
    <3>4. id[x] \in Id
      BY <2>1 DEF IInv, Pointers, IdsKnown, Upgraded
    <3>. QED
      BY <1>6, <3>1, <3>2, <3>4
  <2>. QED
    BY <2>1 DEF OneControlChannel
<1>10. WaitingIsFindable'
  <2>1. ASSUME NEW x \in Conn, Live(x)', AwaitingHost(x)' PROVE waiting'[ticket[x]] = x
    <3>1. Live(x) /\ x # c /\ kind[x] = "Viewer" /\ ticket[x] # NoTicket
      BY <1>4, <2>1 DEF AwaitingHost
    <3>2. AwaitingHost(x) /\ ticket[x] \in Ticket
      BY <1>7, <3>1 DEF AwaitingHost, IInv, TypeOK
    <3>3. waiting[ticket[x]] = x
      BY <3>1, <3>2 DEF IInv, Pointers, WaitingIsFindable
    <3>4. ~(kind[c] = "Viewer" /\ ticket[c] = ticket[x])
      <4>1. SUFFICES ASSUME kind[c] = "Viewer", ticket[c] = ticket[x] PROVE FALSE
        OBVIOUS
      <4>2. AwaitingHost(c)
        BY <1>7, <3>1, <4>1 DEF AwaitingHost
      <4>. QED
        BY <3>1, <3>3, <4>1, <4>2 DEF IInv, Pointers, WaitingIsFindable
    <3>. QED
      BY <1>5, <3>2, <3>3, <3>4
  <2>. QED
    BY <2>1 DEF WaitingIsFindable
<1>11. TicketsIssued'
  BY <1>7 DEF IInv, Pointers, TicketsIssued
<1>12. OwnerProved'
  BY <1>6 DEF IInv, Pointers, OwnerProved
<1>13. IdsKnown'
  BY DEF IInv, Pointers, IdsKnown
<1>. QED
  BY <1>2, <1>8, <1>9, <1>10, <1>11, <1>12, <1>13 DEF Pointers

\* A handler that assigns none of the pointer variables keeps them right.
LEMMA SamePointers ==
  ASSUME Pointers,
         UNCHANGED <<kind, dead, id, ticket, peer, owner, ctl, waiting, proved, issued>>
  PROVE  Pointers'
BY DEF Pointers, PairedBothWays, NoDanglingPointer, OneControlChannel, Live,
       WaitingIsFindable, AwaitingHost, TicketsIssued, OwnerProved, IdsKnown

\* A CLOSE frame undoes the pairing of its sender and nothing else.
LEMMA CloseKeepsPointers ==
  ASSUME IInv, NEW c \in Conn, peer' = Unlinked(c),
         UNCHANGED <<kind, dead, id, ticket, owner, ctl, waiting, proved, issued>>
  PROVE  Pointers'
<1>1. PairedBothWays' /\ \A x \in Conn : peer'[x] # NoConn => peer'[x] = peer[x]
  BY UnlinkedPairs DEF IInv, Pointers
<1>2. \A x : Live(x)' <=> Live(x)
  BY DEF Live
<1>3. \A x \in Conn : ticket[x] # NoTicket => peer[x] = NoConn /\ peer'[x] = NoConn
  BY <1>1 DEF IInv, Pointers, TicketsIssued
<1>4. \A x \in Conn : AwaitingHost(x)' <=> AwaitingHost(x)
  BY <1>3 DEF AwaitingHost
<1>5. NoDanglingPointer'
  <2>1. ASSUME NEW x \in Conn, peer'[x] # NoConn PROVE Live(x)' /\ Live(peer[x])'
    <3>1. peer'[x] = peer[x] /\ peer[x] # NoConn
      BY <1>1, <2>1
    <3>2. Live(x) /\ Live(peer[x])
      BY <3>1 DEF IInv, Pointers, NoDanglingPointer
    <3>. QED
      BY <1>2, <3>1, <3>2
  <2>2. ASSUME NEW i \in Id, ctl[i] # NoConn
        PROVE  Live(ctl[i])' /\ kind[ctl[i]] = "HostCtl" /\ id[ctl[i]] = i
    BY <1>2, <2>2 DEF IInv, Pointers, NoDanglingPointer
  <2>3. ASSUME NEW t \in Ticket, waiting[t] # NoConn
        PROVE  /\ Live(waiting[t])' /\ AwaitingHost(waiting[t])'
               /\ ticket[waiting[t]] = t
    <3>1. /\ Live(waiting[t]) /\ AwaitingHost(waiting[t])
          /\ ticket[waiting[t]] = t /\ waiting[t] \in Conn
      BY <2>3 DEF IInv, Pointers, NoDanglingPointer, TypeOK
    <3>. QED
      BY <1>2, <1>4, <3>1
  <2>. QED
    BY <2>1, <2>2, <2>3 DEF NoDanglingPointer
<1>6. OneControlChannel' /\ OwnerProved' /\ IdsKnown'
  BY <1>2 DEF IInv, Pointers, OneControlChannel, OwnerProved, IdsKnown
<1>7. WaitingIsFindable'
  BY <1>2, <1>4 DEF IInv, Pointers, WaitingIsFindable
<1>8. TicketsIssued'
  BY <1>3 DEF IInv, Pointers, TicketsIssued
<1>. QED
  BY <1>1, <1>5, <1>6, <1>7, <1>8 DEF Pointers

\* Handling messages: forwarding touches no pointer, a CLOSE unlinks, a lost
\* connection or a full queue kills.
LEMMA HandleMessagesPointers ==
  ASSUME IInv, NEW c \in Conn, Live(c), NEW n, NEW e, HandleMessages(c, n, e)
  PROVE  Pointers'
<1>1. UNCHANGED <<kind, id, ticket, owner, proved, issued>>
  BY DEF HandleMessages
<1>2. CASE Kill(c, Forwarded(c, n))
  BY <1>1, <1>2, KillKeepsPointers
<1>3. CASE peer' = Unlinked(c) /\ UNCHANGED <<dead, ctl, waiting>>
  BY <1>1, <1>3, CloseKeepsPointers
<1>4. CASE UNCHANGED <<dead, closing, peer, ctl, waiting>>
  BY <1>1, <1>4, SamePointers DEF IInv
<1>. QED
  BY <1>2, <1>3, <1>4 DEF HandleMessages

\* Nothing refers to a connection that was not upgraded.
LEMMA HttpIsUnreferenced ==
  ASSUME IInv, NEW c \in Conn, kind[c] \in {"new", "Http"}
  PROVE  /\ ticket[c] = NoTicket /\ peer[c] = NoConn
         /\ \A x \in Conn : peer[x] # c
         /\ \A i \in Id : ctl[i] # c
         /\ \A t \in Ticket : waiting[t] # c
<1>1. ticket[c] = NoTicket
  BY DEF IInv, Pointers, TicketsIssued
<1>2. \A x \in Conn : peer[x] # NoConn =>
        kind[x] \in {"Viewer", "HostData"} /\ kind[peer[x]] \in {"Viewer", "HostData"}
  BY DEF IInv, Pointers, PairedBothWays
<1>3. \A i \in Id : ctl[i] # NoConn => kind[ctl[i]] = "HostCtl"
  BY DEF IInv, Pointers, NoDanglingPointer
<1>4. \A t \in Ticket : waiting[t] # NoConn => kind[waiting[t]] = "Viewer"
  BY DEF IInv, Pointers, NoDanglingPointer, AwaitingHost
<1>5. c # NoConn
  BY RelayAssumption
<1>. QED
  BY <1>1, <1>2, <1>3, <1>4, <1>5

\* A connection that nothing refers to may be accepted, or become a viewer that
\* is turned away.
LEMMA NewKindPointers ==
  ASSUME IInv, NEW c \in Conn, kind[c] \in {"new", "Http"},
         NEW kd \in {"Http", "Viewer"}, kind' = [kind EXCEPT ![c] = kd],
         id' = id \/ \E i \in Id : id' = [id EXCEPT ![c] = i],
         kd = "Viewer" => \E i \in Id : id' = [id EXCEPT ![c] = i],
         UNCHANGED <<dead, ticket, peer, owner, ctl, waiting, proved, issued>>
  PROVE  Pointers'
<1>1. UNCHANGED <<dead, ticket, peer, owner, ctl, waiting, proved, issued>>
  OBVIOUS
<1>2. /\ ticket[c] = NoTicket /\ peer[c] = NoConn
      /\ \A x \in Conn : peer[x] # c
      /\ \A i \in Id : ctl[i] # c
      /\ \A t \in Ticket : waiting[t] # c
  BY HttpIsUnreferenced
<1>3. /\ \A x \in Conn : x # c => kind'[x] = kind[x] /\ id'[x] = id[x]
      /\ kind'[c] \in {"Http", "Viewer"}
      /\ kind'[c] = "Viewer" => id'[c] \in Id
  BY DEF IInv, TypeOK
<1>4. /\ peer \in [Conn -> Conn \cup {NoConn}]
      /\ ctl \in [Id -> Conn \cup {NoConn}]
      /\ waiting \in [Ticket -> Conn \cup {NoConn}]
  BY DEF IInv, TypeOK
<1>5. PairedBothWays'
  BY <1>1, <1>2, <1>3, <1>4 DEF IInv, Pointers, PairedBothWays
<1>6. NoDanglingPointer'
  BY <1>1, <1>2, <1>3, <1>4 DEF IInv, Pointers, NoDanglingPointer, Live, AwaitingHost
<1>7. OneControlChannel'
  BY <1>1, <1>3 DEF IInv, Pointers, OneControlChannel, Live, Upgraded
<1>8. WaitingIsFindable'
  BY <1>1, <1>2, <1>3 DEF IInv, Pointers, WaitingIsFindable, AwaitingHost, Live, Upgraded
<1>9. TicketsIssued'
  BY <1>1, <1>2, <1>3 DEF IInv, Pointers, TicketsIssued
<1>10. OwnerProved'
  BY <1>1 DEF IInv, Pointers, OwnerProved
<1>11. IdsKnown'
  <2>1. ASSUME NEW x \in Conn, kind'[x] \in Upgraded PROVE id'[x] \in Id
    BY <1>3, <2>1 DEF IInv, Pointers, IdsKnown, Upgraded
  <2>. QED
    BY <2>1 DEF IdsKnown
<1>. QED
  BY <1>5, <1>6, <1>7, <1>8, <1>9, <1>10, <1>11 DEF Pointers

\* accept
LEMMA AcceptPointers ==
  ASSUME IInv, NEW c \in Conn, Accept(c)
  PROVE  Pointers'
BY NewKindPointers DEF Accept, history

\* GET /v/ID for an ID that is not online.
LEMMA ViewerRefusedPointers ==
  ASSUME IInv, NEW c \in Conn, NEW i \in Id, ViewerRefused(c, i)
  PROVE  Pointers'
<1>1. /\ kind[c] = "Http" /\ kind' = [kind EXCEPT ![c] = "Viewer"]
      /\ id' = [id EXCEPT ![c] = i]
      /\ UNCHANGED <<dead, ticket, peer, owner, ctl, waiting, history>>
  BY DEF ViewerRefused, CanRequest
<1>. QED
  BY <1>1, NewKindPointers DEF history

\* Freeing the dead frees nothing that is referred to.
LEMMA ReapPointers ==
  ASSUME IInv, Reap
  PROVE  Pointers'
<1>1. /\ \A x \in Conn : kind'[x] = IF kind[x] # "freed" /\ dead[x]
                                    THEN "freed" ELSE kind[x]
      /\ UNCHANGED <<dead, id, ticket, peer, owner, ctl, waiting, proved, issued>>
  BY DEF Reap, history
<1>2. \A x \in Conn : (Live(x)' <=> Live(x)) /\ (Live(x) => kind'[x] = kind[x])
  BY <1>1 DEF Live, Upgraded
<1>3. /\ peer \in [Conn -> Conn \cup {NoConn}]
      /\ ctl \in [Id -> Conn \cup {NoConn}]
      /\ waiting \in [Ticket -> Conn \cup {NoConn}]
  BY DEF IInv, TypeOK
<1>4. PairedBothWays'
  BY <1>1, <1>2, <1>3 DEF IInv, Pointers, PairedBothWays, NoDanglingPointer
<1>5. NoDanglingPointer'
  <2>1. ASSUME NEW x \in Conn, peer[x] # NoConn PROVE Live(x)' /\ Live(peer[x])'
    BY <1>1, <1>2, <1>3, <2>1 DEF IInv, Pointers, NoDanglingPointer
  <2>2. ASSUME NEW i \in Id, ctl[i] # NoConn
        PROVE  Live(ctl[i])' /\ kind'[ctl[i]] = "HostCtl" /\ id[ctl[i]] = i
    BY <1>1, <1>2, <1>3, <2>2 DEF IInv, Pointers, NoDanglingPointer
  <2>3. ASSUME NEW t \in Ticket, waiting[t] # NoConn
        PROVE  Live(waiting[t])' /\ AwaitingHost(waiting[t])' /\ ticket[waiting[t]] = t
    BY <1>1, <1>2, <1>3, <2>3 DEF IInv, Pointers, NoDanglingPointer, AwaitingHost
  <2>. QED
    BY <1>1, <2>1, <2>2, <2>3 DEF NoDanglingPointer
<1>6. OneControlChannel' /\ WaitingIsFindable'
  BY <1>1, <1>2 DEF IInv, Pointers, OneControlChannel, WaitingIsFindable, AwaitingHost
<1>7. TicketsIssued' /\ OwnerProved' /\ IdsKnown'
  BY <1>1 DEF IInv, Pointers, TicketsIssued, OwnerProved, IdsKnown, Upgraded
<1>. QED
  BY <1>4, <1>5, <1>6, <1>7 DEF Pointers

\* A host that comes online replaces at most its own stale channel.
LEMMA HostRequestPointers ==
  ASSUME IInv, NEW c \in Conn, NEW i \in Id, NEW k \in Key, HostRequest(c, i, k)
  PROVE  Pointers'
<1>1. CASE InUse(i, k)
  <2>1. UNCHANGED <<links, dead, peer, history>>
    BY <1>1 DEF HostRequest
  <2>. QED
    BY <2>1, SamePointers DEF IInv, links, history
<1>2. CASE ~InUse(i, k)
  <2>1. /\ kind[c] = "Http" /\ ~dead[c]
        /\ dead' = [x \in Conn |-> dead[x] \/ x \in Replaced(i)]
        /\ owner' = [owner EXCEPT ![i] = k]
        /\ ctl' = [ctl EXCEPT ![i] = c]
        /\ kind' = [kind EXCEPT ![c] = "HostCtl"]
        /\ id' = [id EXCEPT ![c] = i]
        /\ proved' = [proved EXCEPT ![c] = k]
        /\ UNCHANGED <<ticket, peer, waiting, issued>>
    BY <1>2 DEF HostRequest, CanRequest
  <2>2. /\ ticket[c] = NoTicket /\ peer[c] = NoConn
        /\ \A x \in Conn : peer[x] # c
        /\ \A j \in Id : ctl[j] # c
        /\ \A t \in Ticket : waiting[t] # c
    BY <2>1, HttpIsUnreferenced
  <2>3. /\ \A x \in Conn : x # c => kind'[x] = kind[x] /\ id'[x] = id[x] /\ proved'[x] = proved[x]
        /\ kind'[c] = "HostCtl" /\ id'[c] = i /\ proved'[c] = k
        /\ \A j \in Id : ctl'[j] = IF j = i THEN c ELSE ctl[j]
        /\ \A j \in Id : owner'[j] = IF j = i THEN k ELSE owner[j]
        /\ \A x \in Conn : dead'[x] <=> dead[x] \/ x = ctl[i]
    BY <2>1, RelayAssumption DEF IInv, TypeOK, Replaced
  <2>4. /\ peer \in [Conn -> Conn \cup {NoConn}]
        /\ ctl \in [Id -> Conn \cup {NoConn}]
        /\ waiting \in [Ticket -> Conn \cup {NoConn}]
    BY DEF IInv, TypeOK
  <2>5. c # ctl[i]
    BY <2>2
  <2>6. \A x \in Conn : x # c => (Live(x)' <=> Live(x) /\ x # ctl[i])
    BY <2>3 DEF Live, Upgraded
  <2>7. Live(c)'
    BY <2>1, <2>3, <2>5 DEF Live, Upgraded
  <2>8. \A x \in Conn : x # c => (AwaitingHost(x)' <=> AwaitingHost(x))
    BY <2>1, <2>3 DEF AwaitingHost
  <2>9. ctl[i] # NoConn => kind[ctl[i]] = "HostCtl" /\ id[ctl[i]] = i
    BY DEF IInv, Pointers, NoDanglingPointer
  <2>10. PairedBothWays'
    BY <2>1, <2>2, <2>3, <2>4, SMTT(40) DEF IInv, Pointers, PairedBothWays
  <2>11. NoDanglingPointer'
    <3>1. ASSUME NEW x \in Conn, peer[x] # NoConn PROVE Live(x)' /\ Live(peer[x])'
      <4>1. Live(x) /\ Live(peer[x]) /\ peer[x] \in Conn
            /\ kind[x] # "HostCtl" /\ kind[peer[x]] # "HostCtl"
        BY <2>4, <3>1 DEF IInv, Pointers, NoDanglingPointer, PairedBothWays
      <4>2. x # c /\ peer[x] # c /\ x # ctl[i] /\ peer[x] # ctl[i]
        BY <2>2, <2>9, <3>1, <4>1, RelayAssumption
      <4>. QED
        BY <2>1, <2>6, <4>1, <4>2
    <3>2. ASSUME NEW j \in Id, ctl'[j] # NoConn
          PROVE  Live(ctl[j])' /\ kind'[ctl'[j]] = "HostCtl" /\ id'[ctl'[j]] = j
      <4>1. CASE j = i
        BY <2>3, <2>7, <4>1
      <4>2. CASE j # i
        <5>1. /\ ctl'[j] = ctl[j] /\ ctl[j] \in Conn /\ Live(ctl[j])
              /\ kind[ctl[j]] = "HostCtl" /\ id[ctl[j]] = j
          BY <2>3, <2>4, <3>2, <4>2 DEF IInv, Pointers, NoDanglingPointer
        <5>2. ctl[j] # c /\ ctl[j] # ctl[i]
          BY <2>2, <2>9, <4>2, <5>1, RelayAssumption
        <5>. QED
          BY <2>3, <2>6, <5>1, <5>2
      <4>. QED
        BY <4>1, <4>2
    <3>3. ASSUME NEW t \in Ticket, waiting[t] # NoConn
          PROVE  Live(waiting[t])' /\ AwaitingHost(waiting[t])' /\ ticket[waiting[t]] = t
      <4>1. /\ waiting[t] \in Conn /\ Live(waiting[t])
            /\ AwaitingHost(waiting[t]) /\ ticket[waiting[t]] = t
        BY <2>4, <3>3 DEF IInv, Pointers, NoDanglingPointer
      <4>2. waiting[t] # c /\ waiting[t] # ctl[i]
        BY <2>2, <2>9, <4>1, RelayAssumption DEF AwaitingHost
      <4>. QED
        BY <2>1, <2>6, <2>8, <4>1, <4>2
    <3>. QED
      BY <2>1, <3>1, <3>2, <3>3 DEF NoDanglingPointer
  <2>12. OneControlChannel'
    <3>1. ASSUME NEW x \in Conn, x # c, Live(x)', kind'[x] = "HostCtl"
          PROVE  ctl'[id'[x]] = x
      <4>1. Live(x) /\ x # ctl[i] /\ kind[x] = "HostCtl" /\ id'[x] = id[x]
        BY <2>3, <2>6, <3>1
      <4>2. ctl[id[x]] = x /\ id[x] \in Id
        BY <4>1 DEF IInv, Pointers, OneControlChannel, IdsKnown, Upgraded
      <4>. QED
        BY <2>3, <4>1, <4>2
    <3>. QED
      BY <2>3, <3>1 DEF OneControlChannel
  <2>13. WaitingIsFindable'
    <3>1. ASSUME NEW x \in Conn, Live(x)', AwaitingHost(x)' PROVE waiting[ticket[x]] = x
      <4>1. x # c
        BY <2>3, <3>1 DEF AwaitingHost
      <4>. QED
        BY <2>6, <2>8, <3>1, <4>1 DEF IInv, Pointers, WaitingIsFindable
    <3>. QED
      BY <2>1, <3>1 DEF WaitingIsFindable
  <2>14. TicketsIssued'
    BY <2>1, <2>2, <2>3 DEF IInv, Pointers, TicketsIssued
  <2>15. OwnerProved'
    BY <2>2, <2>3, <2>4 DEF IInv, Pointers, OwnerProved
  <2>16. IdsKnown'
    BY <2>3 DEF IInv, Pointers, IdsKnown
  <2>. QED
    BY <2>10, <2>11, <2>12, <2>13, <2>14, <2>15, <2>16 DEF Pointers
<1>. QED
  BY <1>1, <1>2

\* A data channel takes over the viewer it claims, whose ticket is used up.
LEMMA DataRequestPointers ==
  ASSUME IInv, NEW c \in Conn, NEW i \in Id, NEW k \in Key,
         NEW t \in Ticket \cup {NoTicket}, DataRequest(c, i, k, t)
  PROVE  Pointers'
<1>. DEFINE v == Claimable(i, k, t)
<1>1. CASE v = NoConn
  <2>1. UNCHANGED <<links, dead, peer, history>>
    BY <1>1 DEF DataRequest
  <2>. QED
    BY <2>1, SamePointers DEF IInv, links, history
<1>2. CASE v # NoConn
  <2>1. v = waiting[t] /\ t \in Ticket /\ id[v] = i
    BY <1>2 DEF Claimable
  <2>2. /\ kind[c] = "Http" /\ ~dead[c]
        /\ waiting' = [waiting EXCEPT ![t] = NoConn]
        /\ ticket' = [ticket EXCEPT ![v] = NoTicket]
        /\ kind' = [kind EXCEPT ![c] = "HostData"]
        /\ id' = [id EXCEPT ![c] = i]
        /\ peer' = [peer EXCEPT ![c] = v, ![v] = c]
        /\ proved' = [proved EXCEPT ![c] = k]
        /\ UNCHANGED <<dead, owner, ctl, issued>>
    BY <1>2 DEF DataRequest, CanRequest, Pair, Redeemed
  <2>. HIDE DEF v
  <2>3. /\ ticket[c] = NoTicket /\ peer[c] = NoConn
        /\ \A x \in Conn : peer[x] # c
        /\ \A j \in Id : ctl[j] # c
        /\ \A u \in Ticket : waiting[u] # c
    BY <2>2, HttpIsUnreferenced
  <2>4. /\ v \in Conn /\ Live(v) /\ kind[v] = "Viewer" /\ peer[v] = NoConn
        /\ ticket[v] = t /\ v # c
    BY <1>2, <2>1, <2>2 DEF IInv, TypeOK, Pointers, NoDanglingPointer, AwaitingHost
  <2>5. /\ \A x \in Conn : x # c => kind'[x] = kind[x] /\ id'[x] = id[x] /\ proved'[x] = proved[x]
        /\ kind'[c] = "HostData" /\ id'[c] = i
        /\ \A x \in Conn : peer'[x] = IF x = c THEN v ELSE IF x = v THEN c ELSE peer[x]
        /\ \A u \in Ticket : waiting'[u] = IF u = t THEN NoConn ELSE waiting[u]
        /\ \A x \in Conn : ticket'[x] = IF x = v THEN NoTicket ELSE ticket[x]
    BY <2>2, <2>4 DEF IInv, TypeOK
  <2>6. /\ peer \in [Conn -> Conn \cup {NoConn}]
        /\ ctl \in [Id -> Conn \cup {NoConn}]
        /\ waiting \in [Ticket -> Conn \cup {NoConn}]
    BY DEF IInv, TypeOK
  <2>7. \A x \in Conn : Live(x)' <=> Live(x)
    BY <2>2, <2>5 DEF Live, Upgraded
  <2>8. \A x \in Conn : peer[x] # v
    <3>1. ASSUME NEW x \in Conn, peer[x] = v PROVE FALSE
      BY <2>4, <3>1, RelayAssumption DEF IInv, Pointers, PairedBothWays
    <3>. QED
      BY <3>1
  <2>9. \A x \in Conn : x # c /\ x # v => (AwaitingHost(x)' <=> AwaitingHost(x))
    BY <2>5 DEF AwaitingHost
  <2>10. PairedBothWays'
    <3>1. ASSUME NEW x \in Conn, x # c, x # v, peer'[x] # NoConn
          PROVE  /\ peer'[peer'[x]] = x
                 /\ {kind'[x], kind'[peer'[x]]} = {"Viewer", "HostData"}
                 /\ id'[peer'[x]] = id'[x]
      <4>1. peer'[x] = peer[x] /\ peer[x] \in Conn /\ peer[x] # c /\ peer[x] # v
        BY <2>3, <2>5, <2>6, <2>8, <3>1
      <4>2. /\ peer[peer[x]] = x /\ id[peer[x]] = id[x]
            /\ {kind[x], kind[peer[x]]} = {"Viewer", "HostData"}
        BY <3>1, <4>1 DEF IInv, Pointers, PairedBothWays
      <4>. QED
        BY <2>5, <3>1, <4>1, <4>2
    <3>2. /\ peer'[peer'[c]] = c /\ peer'[peer'[v]] = v
          /\ {kind'[c], kind'[peer'[c]]} = {"Viewer", "HostData"}
          /\ {kind'[v], kind'[peer'[v]]} = {"Viewer", "HostData"}
          /\ id'[peer'[c]] = id'[c] /\ id'[peer'[v]] = id'[v]
      BY <2>1, <2>4, <2>5
    <3>. QED
      BY <3>1, <3>2 DEF PairedBothWays
  <2>11. NoDanglingPointer'
    <3>1. ASSUME NEW x \in Conn, peer'[x] # NoConn PROVE Live(x)' /\ Live(peer[x])'
      <4>1. Live(c)
        BY <2>2 DEF Live
      <4>2. CASE x = c
        BY <2>4, <2>5, <2>7, <4>1, <4>2
      <4>3. CASE x = v
        BY <2>4, <2>5, <2>7, <4>1, <4>3
      <4>4. CASE x # c /\ x # v
        <5>1. peer'[x] = peer[x] /\ peer[x] \in Conn
          BY <2>5, <2>6, <3>1, <4>4
        <5>2. Live(x) /\ Live(peer[x])
          BY <3>1, <5>1 DEF IInv, Pointers, NoDanglingPointer
        <5>. QED
          BY <2>7, <5>1, <5>2
      <4>. QED
        BY <4>2, <4>3, <4>4
    <3>2. ASSUME NEW j \in Id, ctl[j] # NoConn
          PROVE  Live(ctl[j])' /\ kind'[ctl[j]] = "HostCtl" /\ id'[ctl[j]] = j
      <4>1. /\ ctl[j] \in Conn /\ Live(ctl[j])
            /\ kind[ctl[j]] = "HostCtl" /\ id[ctl[j]] = j
        BY <2>6, <3>2 DEF IInv, Pointers, NoDanglingPointer
      <4>. QED
        BY <2>2, <2>3, <2>5, <2>7, <4>1
    <3>3. ASSUME NEW u \in Ticket, waiting'[u] # NoConn
          PROVE  Live(waiting[u])' /\ AwaitingHost(waiting[u])' /\ ticket'[waiting'[u]] = u
      <4>1. u # t /\ waiting'[u] = waiting[u] /\ waiting[u] \in Conn
        BY <2>5, <2>6, <3>3
      <4>2. Live(waiting[u]) /\ AwaitingHost(waiting[u]) /\ ticket[waiting[u]] = u
        BY <3>3, <4>1 DEF IInv, Pointers, NoDanglingPointer
      <4>3. waiting[u] # v /\ waiting[u] # c
        BY <2>3, <2>4, <4>1, <4>2
      <4>. QED
        BY <2>5, <2>7, <2>9, <4>1, <4>2, <4>3
    <3>. QED
      BY <2>2, <3>1, <3>2, <3>3 DEF NoDanglingPointer
  <2>12. OneControlChannel'
    BY <2>2, <2>5, <2>7 DEF IInv, Pointers, OneControlChannel
  <2>13. WaitingIsFindable'
    <3>1. ASSUME NEW x \in Conn, Live(x)', AwaitingHost(x)' PROVE waiting'[ticket'[x]] = x
      <4>1. x # c /\ x # v
        BY <2>5, <3>1 DEF AwaitingHost
      <4>2. Live(x) /\ AwaitingHost(x) /\ ticket[x] \in Ticket
        BY <2>7, <2>9, <3>1, <4>1 DEF IInv, TypeOK, AwaitingHost
      <4>3. waiting[ticket[x]] = x
        BY <4>2 DEF IInv, Pointers, WaitingIsFindable
      <4>4. ticket[x] # t
        BY <2>1, <4>1, <4>3
      <4>. QED
        BY <2>5, <4>1, <4>2, <4>3, <4>4
    <3>. QED
      BY <3>1 DEF WaitingIsFindable
  <2>14. TicketsIssued'
    <3>1. ASSUME NEW x \in Conn, ticket'[x] # NoTicket
          PROVE  /\ ticket'[x] \in issued /\ kind'[x] \in {"Viewer", "freed"}
                 /\ peer'[x] = NoConn
      <4>1. x # v /\ ticket'[x] = ticket[x]
        BY <2>5, <3>1
      <4>2. x # c
        BY <2>3, <3>1, <4>1
      <4>. QED
        BY <2>5, <3>1, <4>1, <4>2 DEF IInv, Pointers, TicketsIssued
    <3>. QED
      BY <2>2, <3>1 DEF TicketsIssued
  <2>15. OwnerProved'
    BY <2>2, <2>3, <2>5, <2>6 DEF IInv, Pointers, OwnerProved
  <2>16. IdsKnown'
    BY <2>5 DEF IInv, Pointers, IdsKnown
  <2>. QED
    BY <2>10, <2>11, <2>12, <2>13, <2>14, <2>15, <2>16 DEF Pointers
<1>. QED
  BY <1>1, <1>2

\* A viewer that asks for an ID that is online can be found under its ticket,
\* which nobody else holds.
LEMMA ViewerRequestPointers ==
  ASSUME IInv, NEW c \in Conn, NEW i \in Id, NEW t \in Ticket, ViewerRequest(c, i, t)
  PROVE  Pointers'
<1>1. /\ kind[c] = "Http" /\ ~dead[c] /\ t \notin issued
      /\ kind' = [kind EXCEPT ![c] = "Viewer"]
      /\ id' = [id EXCEPT ![c] = i]
      /\ ticket' = [ticket EXCEPT ![c] = t]
      /\ waiting' = [waiting EXCEPT ![t] = c]
      /\ issued' = issued \cup {t}
      /\ UNCHANGED <<dead, peer, owner, ctl, proved>>
  BY DEF ViewerRequest, CanRequest, Fresh
<1>2. /\ ticket[c] = NoTicket /\ peer[c] = NoConn
      /\ \A x \in Conn : peer[x] # c
      /\ \A j \in Id : ctl[j] # c
      /\ \A u \in Ticket : waiting[u] # c
  BY <1>1, HttpIsUnreferenced
<1>3. /\ peer \in [Conn -> Conn \cup {NoConn}]
      /\ ctl \in [Id -> Conn \cup {NoConn}]
      /\ waiting \in [Ticket -> Conn \cup {NoConn}]
  BY DEF IInv, TypeOK
<1>4. /\ \A x \in Conn : x # c => kind'[x] = kind[x] /\ id'[x] = id[x] /\ ticket'[x] = ticket[x]
      /\ kind'[c] = "Viewer" /\ id'[c] = i /\ ticket'[c] = t
      /\ \A u \in Ticket : waiting'[u] = IF u = t THEN c ELSE waiting[u]
  BY <1>1 DEF IInv, TypeOK
<1>5. \A x \in Conn : Live(x)' <=> Live(x)
  BY <1>1, <1>4 DEF Live, Upgraded
<1>6. \A x \in Conn : x # c => (AwaitingHost(x)' <=> AwaitingHost(x))
  BY <1>1, <1>4 DEF AwaitingHost
<1>7. \A x \in Conn : ticket[x] # t
  BY <1>1, RelayAssumption DEF IInv, Pointers, TicketsIssued
<1>8. PairedBothWays'
  BY <1>1, <1>2, <1>3, <1>4 DEF IInv, Pointers, PairedBothWays
<1>9. NoDanglingPointer'
  <2>1. ASSUME NEW x \in Conn, peer[x] # NoConn PROVE Live(x)' /\ Live(peer[x])'
    <3>1. Live(x) /\ Live(peer[x]) /\ peer[x] \in Conn
      BY <1>3, <2>1 DEF IInv, Pointers, NoDanglingPointer
    <3>. QED
      BY <1>1, <1>5, <3>1
  <2>2. ASSUME NEW j \in Id, ctl[j] # NoConn
        PROVE  Live(ctl[j])' /\ kind'[ctl[j]] = "HostCtl" /\ id'[ctl[j]] = j
    <3>1. /\ ctl[j] \in Conn /\ Live(ctl[j])
          /\ kind[ctl[j]] = "HostCtl" /\ id[ctl[j]] = j
      BY <1>3, <2>2 DEF IInv, Pointers, NoDanglingPointer
    <3>. QED
      BY <1>1, <1>2, <1>4, <1>5, <3>1
  <2>3. ASSUME NEW u \in Ticket, waiting'[u] # NoConn
        PROVE  Live(waiting[u])' /\ AwaitingHost(waiting[u])' /\ ticket'[waiting'[u]] = u
    <3>1. CASE u = t
      <4>1. Live(c)
        BY <1>1 DEF Live
      <4>2. AwaitingHost(c)'
        BY <1>1, <1>2, <1>4, RelayAssumption DEF AwaitingHost
      <4>. QED
        BY <1>4, <1>5, <3>1, <4>1, <4>2
    <3>2. CASE u # t
      <4>1. waiting'[u] = waiting[u] /\ waiting[u] \in Conn /\ waiting[u] # c
        BY <1>2, <1>3, <1>4, <2>3, <3>2
      <4>2. Live(waiting[u]) /\ AwaitingHost(waiting[u]) /\ ticket[waiting[u]] = u
        BY <2>3, <4>1 DEF IInv, Pointers, NoDanglingPointer
      <4>. QED
        BY <1>4, <1>5, <1>6, <4>1, <4>2
    <3>. QED
      BY <3>1, <3>2
  <2>. QED
    BY <1>1, <2>1, <2>2, <2>3 DEF NoDanglingPointer
<1>10. OneControlChannel'
  BY <1>1, <1>4, <1>5 DEF IInv, Pointers, OneControlChannel
<1>11. WaitingIsFindable'
  <2>1. ASSUME NEW x \in Conn, x # c, Live(x)', AwaitingHost(x)'
        PROVE  waiting'[ticket'[x]] = x
    <3>1. Live(x) /\ AwaitingHost(x) /\ ticket[x] \in Ticket
      BY <1>5, <1>6, <2>1 DEF IInv, TypeOK, AwaitingHost
    <3>2. waiting[ticket[x]] = x
      BY <3>1 DEF IInv, Pointers, WaitingIsFindable
    <3>. QED
      BY <1>4, <1>7, <2>1, <3>1, <3>2
  <2>. QED
    BY <1>4, <2>1 DEF WaitingIsFindable
<1>12. TicketsIssued'
  BY <1>1, <1>2, <1>4 DEF IInv, Pointers, TicketsIssued
<1>13. OwnerProved' /\ IdsKnown'
  BY <1>1, <1>4 DEF IInv, Pointers, OwnerProved, IdsKnown
<1>. QED
  BY <1>8, <1>9, <1>10, <1>11, <1>12, <1>13 DEF Pointers

-----------------------------------------------------------------------------
(* The theorems.                                                           *)

\* Every handler keeps the pointers right.
LEMMA PointersStep == IInv /\ [Next]_vars => Pointers'
<1>. SUFFICES ASSUME IInv, [Next]_vars PROVE Pointers'
  OBVIOUS
<1>1. ASSUME NEW c \in Conn, Accept(c) PROVE Pointers'
  BY <1>1, AcceptPointers
<1>2. ASSUME NEW c \in Conn, PlainRequest(c) PROVE Pointers'
  BY <1>2, SamePointers DEF PlainRequest, IInv, links, history
<1>3. ASSUME NEW c \in Conn, NEW i \in Id, NEW k \in Key, HostRequest(c, i, k)
      PROVE  Pointers'
  BY <1>3, HostRequestPointers
<1>4. ASSUME NEW c \in Conn, NEW i \in Id, NEW k \in Key,
             NEW t \in Ticket \cup {NoTicket}, DataRequest(c, i, k, t)
      PROVE  Pointers'
  BY <1>4, DataRequestPointers
<1>5. ASSUME NEW c \in Conn, NEW i \in Id, ViewerRefused(c, i) PROVE Pointers'
  BY <1>5, ViewerRefusedPointers
<1>6. ASSUME NEW c \in Conn, NEW i \in Id, NEW t \in Ticket, ViewerRequest(c, i, t)
      PROVE  Pointers'
  BY <1>6, ViewerRequestPointers
<1>7. ASSUME NEW c \in Conn, NEW n \in 0..ReadBatch, Pipelined(c, n) PROVE Pointers'
  BY <1>7, HandleMessagesPointers DEF Pipelined
<1>8. ASSUME NEW c \in Conn, NEW n \in 0..ReadBatch, NEW e, Receive(c, n, e)
      PROVE  Pointers'
  BY <1>8, HandleMessagesPointers DEF Receive
<1>9. ASSUME NEW c \in Conn, Disconnect(c) \/ HttpTimeout(c) \/ IdleTimeout(c)
      PROVE  Pointers'
  <2>1. Live(c) /\ Kill(c, out) /\ UNCHANGED <<kind, id, ticket, owner, history>>
    BY <1>9 DEF Disconnect, HttpTimeout, IdleTimeout
  <2>. QED
    BY <2>1, KillKeepsPointers DEF history
<1>10. ASSUME NEW c \in Conn, AnswerTimeout(c) PROVE Pointers'
  <2>1. UNCHANGED <<links, dead, peer, history>>
    BY <1>10 DEF AnswerTimeout
  <2>. QED
    BY <2>1, SamePointers DEF IInv, links, history
<1>11. ASSUME NEW c \in Conn, Flush(c) PROVE Pointers'
  <2>1. UNCHANGED <<kind, id, ticket, owner, proved, issued>> /\ Live(c)
    BY <1>11 DEF Flush
  <2>2. (\E o : Kill(c, o)) \/ UNCHANGED <<dead, closing, peer, ctl, waiting>>
    BY <1>11 DEF Flush
  <2>3. CASE \E o : Kill(c, o)
    BY <2>1, <2>3, KillKeepsPointers
  <2>4. CASE UNCHANGED <<dead, closing, peer, ctl, waiting>>
    BY <2>1, <2>4, SamePointers DEF IInv
  <2>. QED
    BY <2>2, <2>3, <2>4
<1>12. ASSUME Reap PROVE Pointers'
  BY <1>12, ReapPointers
<1>13. CASE UNCHANGED vars
  BY <1>13, SamePointers DEF IInv, vars
<1>. QED
  BY <1>1, <1>2, <1>3, <1>4, <1>5, <1>6, <1>7, <1>8, <1>9, <1>10, <1>11,
     <1>12, <1>13 DEF Next

\* In the beginning there are no pointers.
LEMMA PointersInit == Init => Pointers
BY RelayAssumption DEF Init, Pointers, PairedBothWays, NoDanglingPointer,
   OneControlChannel, WaitingIsFindable, AwaitingHost, TicketsIssued, OwnerProved,
   IdsKnown, Live, Upgraded

\* The inductive invariant.
THEOREM Inductive == Spec => []IInv
<1>1. Init => IInv
  BY TypeInit, PointersInit DEF IInv
<1>2. IInv /\ [Next]_vars => IInv'
  BY TypeStep, PointersStep DEF IInv
<1>. QED
  BY <1>1, <1>2, PTL DEF Spec

\* relay.cpp never follows a pointer to a connection that was killed or freed,
\* however many connections come and go.
THEOREM PointersAreSafe == Spec => []PointersAgree
<1>1. IInv => PointersAgree
  BY DEF IInv, Pointers, PointersAgree
<1>. QED
  BY <1>1, Inductive, PTL

\* A connected host keeps its ID: whoever gives another key is refused, and only
\* a channel that presented the same key replaces its control channel.
THEOREM OwnershipIsKept == Spec => OwnershipKept
<1>. DEFINE Kept == \A i \in Id : ctl[i] # NoConn =>
              /\ owner'[i] = owner[i]
              /\ \/ ctl'[i] = ctl[i]
                 \/ dead'[ctl[i]] /\ (ctl'[i] = NoConn \/ proved'[ctl'[i]] = proved[ctl[i]])
       Gone(i) == ctl'[i] = ctl[i] \/ (ctl[i] # NoConn /\ dead'[ctl[i]] /\ ctl'[i] = NoConn)
<1>1. ASSUME IInv, [Next]_vars PROVE Kept
  <2>1. CASE owner' = owner /\ \A i \in Id : Gone(i)
    BY <2>1
  <2>2. ASSUME NEW c \in Conn, NEW o, Kill(c, o)
        PROVE  \A i \in Id : Gone(i)
    <3>1. dead'[c] /\ c # NoConn
      BY <1>1, <2>2, RelayAssumption DEF Kill, IInv, TypeOK
    <3>. QED
      BY <2>2, <3>1 DEF Kill
  <2>3. ASSUME NEW c \in Conn, NEW n, NEW e, HandleMessages(c, n, e) PROVE Kept
    BY <2>1, <2>2, <2>3 DEF HandleMessages
  <2>4. ASSUME NEW c \in Conn, NEW i \in Id, NEW k \in Key, HostRequest(c, i, k)
        PROVE  Kept
    <3>1. CASE InUse(i, k)
      BY <2>1, <2>4, <3>1 DEF HostRequest, links
    <3>2. CASE ~InUse(i, k)
      <4>1. /\ owner' = [owner EXCEPT ![i] = k]
            /\ ctl' = [ctl EXCEPT ![i] = c]
            /\ proved' = [proved EXCEPT ![c] = k]
            /\ ctl[i] # NoConn => owner[i] = k
            /\ dead' = [x \in Conn |-> dead[x] \/ x \in Replaced(i)]
        BY <2>4, <3>2 DEF HostRequest, InUse
      <4>2. ctl[i] # NoConn => proved[ctl[i]] = owner[i]
        BY <1>1 DEF IInv, Pointers, OwnerProved
      <4>3. proved'[c] = k /\ ctl'[i] = c
            /\ \A j \in Id : owner'[j] = (IF j = i THEN k ELSE owner[j])
                          /\ (j # i => ctl'[j] = ctl[j])
        BY <1>1, <4>1 DEF IInv, TypeOK
      <4>4. ctl[i] # NoConn => dead'[ctl[i]]
        BY <1>1, <4>1 DEF IInv, TypeOK, Replaced
      <4>. QED
        BY <4>1, <4>2, <4>3, <4>4
    <3>. QED
      BY <3>1, <3>2
  <2>5. ASSUME NEW c \in Conn, Disconnect(c) \/ Flush(c) \/ HttpTimeout(c) \/ IdleTimeout(c)
        PROVE  Kept
    <3>1. owner' = owner /\ ((\E o : Kill(c, o)) \/ ctl' = ctl)
      BY <2>5 DEF Disconnect, Flush, HttpTimeout, IdleTimeout
    <3>. QED
      BY <2>1, <2>2, <3>1
  <2>6. ASSUME NEW c \in Conn, Accept(c) \/ PlainRequest(c) \/ AnswerTimeout(c) PROVE Kept
    BY <2>1, <2>6 DEF Accept, PlainRequest, AnswerTimeout, links
  <2>7. ASSUME NEW c \in Conn, NEW i \in Id,
               ViewerRefused(c, i) \/ \E t \in Ticket : ViewerRequest(c, i, t)
        PROVE  Kept
    <3>1. UNCHANGED <<owner, ctl>>
      <4>1. ASSUME ViewerRefused(c, i) PROVE UNCHANGED <<owner, ctl>>
        BY <4>1 DEF ViewerRefused
      <4>2. ASSUME NEW t \in Ticket, ViewerRequest(c, i, t) PROVE UNCHANGED <<owner, ctl>>
        BY <4>2 DEF ViewerRequest
      <4>. QED
        BY <2>7, <4>1, <4>2
    <3>. QED
      BY <2>1, <3>1
  <2>8. ASSUME NEW c \in Conn, NEW i \in Id, NEW k \in Key,
               NEW t \in Ticket \cup {NoTicket}, DataRequest(c, i, k, t)
        PROVE  Kept
    <3>1. UNCHANGED <<owner, ctl>>
      BY <2>8 DEF DataRequest, Pair, links
    <3>. QED
      BY <2>1, <3>1
  <2>9. CASE Reap \/ UNCHANGED vars
    BY <2>1, <2>9 DEF Reap, vars
  <2>10. ASSUME NEW c \in Conn, NEW n \in 0..ReadBatch,
                Pipelined(c, n) \/ \E e \in {"none", "close", "lost"} : Receive(c, n, e)
         PROVE  Kept
    BY <2>3, <2>10 DEF Pipelined, Receive
  <2>. QED
    BY <1>1, <2>4, <2>5, <2>6, <2>7, <2>8, <2>9, <2>10 DEF Next
<1>2. IInv /\ [Next]_vars => [Kept]_vars
  BY <1>1
<1>. QED
  BY <1>2, Inductive, PTL DEF Spec, OwnershipKept

-----------------------------------------------------------------------------
(* What is forwarded.                                                      *)

\* The viewers with ticket t asked for the host that has key k.
AskedFrom(t, k) == \A v \in Conn : ticket[v] = t => asked[v] = k

\* A ticket on its way to a host, or known to it, is one for its own viewers.
TicketsAreTold ==
  /\ \A c \in Conn, t \in Ticket : (\E j \in 1..Len(out[c]) : out[c][j] = Open(t)) =>
       kind[c] = "HostCtl" /\ t \in issued /\ AskedFrom(t, proved[c])
  /\ \A k \in Key : \A t \in known[k] : t \in issued /\ AskedFrom(t, k)

\* A connection is paired once, with a connection that has left HTTP behind.
PairedOnce ==
  \A c \in Conn :
    /\ partner[c] # NoConn => /\ ticket[c] = NoTicket
                              /\ kind[c] \notin {"new", "Http"}
                              /\ kind[partner[c]] \notin {"new", "Http"}
    /\ peer[c] # NoConn => partner[c] = peer[c]

\* Before it is upgraded nothing is queued for a connection; before it is paired
\* it is sent no message, and what it sends is kept.
Unpaired ==
  \A c \in Conn :
    /\ kind[c] \in {"new", "Http"} => out[c] = <<>> /\ pending[c] = <<>> /\ nread[c] = 0
    /\ partner[c] = NoConn => got[c] = 0
    /\ Live(c) /\ AwaitingHost(c) => pending[c] = [j \in 1..nread[c] |-> Data(c, j)]

\* What is queued for an end of a pairing, and during handle_http for its peer.
QueuesBounded ==
  /\ \A c \in Conn : peer[c] # NoConn => Queued(c) <= Backpressure + ReadBatch
  /\ turn # NoConn /\ peer[turn] # NoConn => Queued(peer[turn]) = 0

Forwarding ==
  /\ TicketsAreTold /\ PairedOnce /\ Unpaired /\ QueuesBounded
  /\ PairedWithAskedHost /\ ForwardedInOrder /\ NothingLost /\ MemoryBounded

\* The connection whose request is being served has been upgraded.
TurnUpgraded == turn # NoConn => kind[turn] \notin {"new", "Http"}

FInv == IInv /\ Forwarding /\ TurnUpgraded

-----------------------------------------------------------------------------
(* Counting messages in a queue.                                           *)

\* Induction over numbers: a set of them has a least one.
LEMMA LeastNumber ==
  ASSUME NEW T, T \subseteq Nat, T # {}
  PROVE  \E n \in T : \A m \in T : n <= m
<1>1. PICK n \in T : \A m \in T : ~(<<m, n>> \in OpToRel(<, Nat))
  BY NatLessThanWellFounded, WFMin
<1>2. \A m \in T : ~(m < n)
  BY <1>1 DEF OpToRel
<1>. QED
  BY <1>2

\* A count is a number, and counting goes frame by frame.
LEMMA CountStep ==
  ASSUME NEW s, NEW j \in Nat
  PROVE  /\ DataAmong(s, j) \in Nat
         /\ DataAmong(s, 0) = 0
         /\ DataAmong(s, j + 1) = DataAmong(s, j) + (IF s[j + 1].type = "data" THEN 1 ELSE 0)
<1>. DEFINE D(k) == {h \in 1..k : s[h].type = "data"}
<1>1. IsFiniteSet(D(j)) /\ Cardinality(D(j)) \in Nat
  <2>1. IsFiniteSet(1..j)
    BY FS_Interval
  <2>2. D(j) \in SUBSET (1..j)
    OBVIOUS
  <2>. QED
    BY <2>1, <2>2, FS_Subset, FS_CardinalityType
<1>2. D(0) = {}
  OBVIOUS
<1>a. DataAmong(s, j) = Cardinality(D(j)) /\ DataAmong(s, j + 1) = Cardinality(D(j + 1))
  BY DEF DataAmong
<1>3. DataAmong(s, 0) = 0
  BY <1>2, FS_EmptySet DEF DataAmong
<1>4. CASE s[j + 1].type = "data"
  <2>1. D(j + 1) = D(j) \cup {j + 1} /\ j + 1 \notin D(j)
    BY <1>4
  <2>2. Cardinality(D(j) \cup {j + 1}) =
          IF j + 1 \in D(j) THEN Cardinality(D(j)) ELSE Cardinality(D(j)) + 1
    BY <1>1, FS_AddElement
  <2>. QED
    BY <1>1, <1>3, <1>4, <1>a, <2>1, <2>2
<1>5. CASE s[j + 1].type # "data"
  <2>1. D(j + 1) = D(j)
    BY <1>5
  <2>. QED
    <3>. HIDE DEF D
    <3>. QED
      BY <1>1, <1>3, <1>5, <1>a, <2>1
<1>. QED
  BY <1>4, <1>5

\* What is queued behind does not change the count in front.
LEMMA CountPrefix ==
  ASSUME NEW s \in Seq(Frame), NEW u \in Seq(Frame), NEW j \in 0..Len(s)
  PROVE  DataAmong(s \o u, j) = DataAmong(s, j)
<1>1. \A h \in 1..j : (s \o u)[h] = s[h]
  OBVIOUS
<1>. QED
  BY <1>1 DEF DataAmong

\* A batch counts in full.
LEMMA CountBatch ==
  ASSUME NEW s \in Seq(Frame), NEW u \in Seq(Frame),
         \A h \in 1..Len(u) : u[h].type = "data", NEW j \in 0..Len(u)
  PROVE  DataAmong(s \o u, Len(s) + j) = DataAmong(s, Len(s)) + j
<1>. DEFINE Holds(k) == DataAmong(s \o u, Len(s) + k) = DataAmong(s, Len(s)) + k
            Bad == {k \in 0..Len(u) : ~Holds(k)}
<1>1. SUFFICES ASSUME Bad # {} PROVE FALSE
  OBVIOUS
<1>2. PICK n \in Bad : \A m \in Bad : n <= m
  <2>1. Bad \subseteq Nat
    OBVIOUS
  <2>. QED
    BY <1>1, <2>1, LeastNumber
<1>3. DataAmong(s, Len(s)) \in Nat
  BY CountStep
<1>4. n # 0
  BY <1>2, <1>3, CountPrefix
<1>5. Holds(n - 1)
  BY <1>2, <1>4
<1>6. (s \o u)[Len(s) + n].type = "data"
  BY <1>4
<1>7. DataAmong(s \o u, Len(s) + (n - 1) + 1) =
        DataAmong(s \o u, Len(s) + (n - 1)) + (IF (s \o u)[Len(s) + (n - 1) + 1].type = "data" THEN 1 ELSE 0)
  <2>1. Len(s) + (n - 1) \in Nat
    BY <1>4
  <2>. QED
    BY <2>1, CountStep
<1>8. Len(s) + (n - 1) + 1 = Len(s) + n
  OBVIOUS
<1>. QED
  BY <1>2, <1>3, <1>5, <1>6, <1>7, <1>8

\* A frame that leaves takes its count with it.
LEMMA CountTail ==
  ASSUME NEW s \in Seq(Frame), s # <<>>, NEW j \in 0..(Len(s) - 1)
  PROVE  DataAmong(s, j + 1) = DataAmong(Tail(s), j) + (IF Head(s).type = "data" THEN 1 ELSE 0)
<1>. DEFINE one == IF Head(s).type = "data" THEN 1 ELSE 0
            Holds(k) == DataAmong(s, k + 1) = DataAmong(Tail(s), k) + one
            Bad == {k \in 0..(Len(s) - 1) : ~Holds(k)}
<1>1. SUFFICES ASSUME Bad # {} PROVE FALSE
  OBVIOUS
<1>2. PICK n \in Bad : \A m \in Bad : n <= m
  <2>1. Bad \subseteq Nat
    OBVIOUS
  <2>. QED
    BY <1>1, <2>1, LeastNumber
<1>3. n \in Nat /\ n <= Len(s) - 1 /\ Len(s) \in Nat /\ Head(s) = s[1]
  OBVIOUS
<1>4. n # 0
  <2>1. DataAmong(s, 0 + 1) = DataAmong(s, 0) + (IF s[0 + 1].type = "data" THEN 1 ELSE 0)
    BY CountStep
  <2>2. DataAmong(s, 0) = 0 /\ DataAmong(Tail(s), 0) = 0
    BY CountStep
  <2>3. 0 + 1 = 1
    OBVIOUS
  <2>. QED
    BY <1>2, <1>3, <2>1, <2>2, <2>3
<1>5. Holds(n - 1)
  BY <1>2, <1>3, <1>4
<1>6. DataAmong(s, n + 1) = DataAmong(s, n) + (IF s[n + 1].type = "data" THEN 1 ELSE 0)
  BY <1>3, CountStep
<1>7. DataAmong(Tail(s), n) = DataAmong(Tail(s), n - 1) + (IF Tail(s)[n].type = "data" THEN 1 ELSE 0)
  <2>1. n - 1 \in Nat /\ (n - 1) + 1 = n
    BY <1>3, <1>4
  <2>2. DataAmong(Tail(s), (n - 1) + 1) =
          DataAmong(Tail(s), n - 1) + (IF Tail(s)[(n - 1) + 1].type = "data" THEN 1 ELSE 0)
    BY <2>1, CountStep
  <2>. QED
    BY <2>1, <2>2
<1>8. Tail(s)[n] = s[n + 1]
  BY <1>3, <1>4
<1>9. DataAmong(Tail(s), n - 1) \in Nat /\ n - 1 \in Nat /\ (n - 1) + 1 = n
  <2>1. n - 1 \in Nat /\ (n - 1) + 1 = n
    BY <1>3, <1>4
  <2>. QED
    BY <2>1, CountStep
<1>10. DataAmong(s, n) = DataAmong(Tail(s), n - 1) + one
  BY <1>5, <1>9
<1>11. DataAmong(s, n + 1) = DataAmong(Tail(s), n) + one
  <2>. HIDE DEF one
  <2>1. one \in Nat
    BY DEF one
  <2>2. CASE s[n + 1].type = "data"
    BY <1>6, <1>7, <1>8, <1>9, <1>10, <2>1, <2>2
  <2>3. CASE s[n + 1].type # "data"
    BY <1>6, <1>7, <1>8, <1>9, <1>10, <2>1, <2>3
  <2>. QED
    BY <2>2, <2>3
<1>. QED
  BY <1>2, <1>11

-----------------------------------------------------------------------------
(* Queues.                                                                 *)

\* The messages in s are those of p, in order, from the one after the g-th.
InOrder(s, p, g) ==
  \A j \in 1..Len(s) : s[j].type = "data" => s[j] = Data(p, g + DataAmong(s, j))

Total(s) == DataAmong(s, Len(s))

HasOpen(s, t) == \E j \in 1..Len(s) : s[j] = Open(t)

\* At most one frame was queued, and no message.
Added(s, u) == u = s \/ \E f \in Frame : f.type # "data" /\ u = s \o <<f>>

\* The first frame went out, if any, and at most one that is no message came in.
Sent(s, u) == s # <<>> /\ Added(Tail(s), u)

\* How much of a queue's messages the socket has taken with its first frame.
Taken(s) == IF s # <<>> /\ Head(s).type = "data" THEN 1 ELSE 0

\* A CLOSE or an OPEN behind the messages changes nothing for them.
LEMMA AddedKeeps ==
  ASSUME NEW s \in Seq(Frame), NEW u, Added(s, u)
  PROVE  /\ u \in Seq(Frame) /\ Total(u) = Total(s) /\ Total(s) \in Nat
         /\ \A p, g : InOrder(s, p, g) => InOrder(u, p, g)
<1>0. Total(s) \in Nat
  BY CountStep DEF Total
<1>1. CASE u = s
  BY <1>0, <1>1
<1>2. CASE u # s
  <2>1. PICK f \in Frame : f.type # "data" /\ u = s \o <<f>>
    BY <1>2 DEF Added
  <2>2. /\ <<f>> \in Seq(Frame) /\ u \in Seq(Frame) /\ Len(u) = Len(s) + 1 /\ Len(s) \in Nat
        /\ u[Len(s) + 1] = f /\ \A j \in 1..Len(s) : u[j] = s[j]
    BY <2>1
  <2>3. \A j \in 0..Len(s) : DataAmong(u, j) = DataAmong(s, j)
    BY <2>1, <2>2, CountPrefix
  <2>4. DataAmong(u, Len(s) + 1) = DataAmong(u, Len(s))
    <3>1. DataAmong(u, Len(s)) \in Nat
          /\ DataAmong(u, Len(s) + 1) =
               DataAmong(u, Len(s)) + (IF u[Len(s) + 1].type = "data" THEN 1 ELSE 0)
      BY <2>2, CountStep
    <3>. QED
      BY <2>1, <2>2, <3>1
  <2>5. Total(u) = Total(s)
    BY <2>2, <2>3, <2>4 DEF Total
  <2>6. ASSUME NEW p, NEW g, InOrder(s, p, g) PROVE InOrder(u, p, g)
    <3>. SUFFICES ASSUME NEW j \in 1..Len(u), u[j].type = "data"
                  PROVE  u[j] = Data(p, g + DataAmong(u, j))
      BY DEF InOrder
    <3>1. j \in 1..Len(s)
      BY <2>1, <2>2
    <3>2. DataAmong(u, j) = DataAmong(s, j) /\ u[j] = s[j]
      BY <2>2, <2>3, <3>1
    <3>. QED
      BY <2>6, <3>1, <3>2 DEF InOrder
  <2>. QED
    BY <1>0, <2>2, <2>5, <2>6
<1>. QED
  BY <1>1, <1>2

\* An OPEN is found in a queue that got one, or where it was before.
LEMMA AddedOpens ==
  ASSUME NEW s \in Seq(Frame), NEW f \in Frame, NEW t, HasOpen(s \o <<f>>, t)
  PROVE  HasOpen(s, t) \/ f = Open(t)
<1>1. PICK j \in 1..(Len(s) + 1) : (s \o <<f>>)[j] = Open(t)
  BY DEF HasOpen
<1>2. CASE j = Len(s) + 1
  BY <1>1, <1>2
<1>3. CASE j # Len(s) + 1
  BY <1>1, <1>3 DEF HasOpen
<1>. QED
  BY <1>2, <1>3

\* What the socket takes is the message that was next in order.
LEMMA TailKeeps ==
  ASSUME NEW s \in Seq(Frame), s # <<>>
  PROVE  /\ Tail(s) \in Seq(Frame) /\ Total(Tail(s)) \in Nat
         /\ Total(s) = Total(Tail(s)) + Taken(s)
         /\ \A p : \A g \in Nat : InOrder(s, p, g) => InOrder(Tail(s), p, g + Taken(s))
         /\ \A t : HasOpen(Tail(s), t) => HasOpen(s, t)
<1>1. /\ Tail(s) \in Seq(Frame) /\ Len(s) \in Nat \ {0} /\ Len(Tail(s)) = Len(s) - 1
      /\ \A j \in 1..Len(Tail(s)) : Tail(s)[j] = s[j + 1] /\ j + 1 \in 1..Len(s)
      /\ (Len(s) - 1) + 1 = Len(s) /\ Len(s) - 1 \in 0..(Len(s) - 1)
  OBVIOUS
<1>2. \A j \in 0..(Len(s) - 1) : DataAmong(s, j + 1) = DataAmong(Tail(s), j) + Taken(s)
  BY CountTail DEF Taken
<1>3. \A j \in Nat : DataAmong(Tail(s), j) \in Nat
  BY CountStep
<1>4. Total(Tail(s)) \in Nat /\ Total(s) = Total(Tail(s)) + Taken(s)
  BY <1>1, <1>2, <1>3 DEF Total
<1>5. ASSUME NEW p, NEW g \in Nat, InOrder(s, p, g) PROVE InOrder(Tail(s), p, g + Taken(s))
  <2>. SUFFICES ASSUME NEW j \in 1..Len(Tail(s)), Tail(s)[j].type = "data"
                PROVE  Tail(s)[j] = Data(p, g + Taken(s) + DataAmong(Tail(s), j))
    BY DEF InOrder
  <2>1. s[j + 1] = Data(p, g + DataAmong(s, j + 1))
    BY <1>1, <1>5 DEF InOrder
  <2>2. DataAmong(s, j + 1) = DataAmong(Tail(s), j) + Taken(s) /\ DataAmong(Tail(s), j) \in Nat
        /\ Taken(s) \in Nat
    BY <1>1, <1>2, <1>3, SMTT(40) DEF Taken
  <2>3. g + DataAmong(s, j + 1) = g + Taken(s) + DataAmong(Tail(s), j)
    BY <2>2
  <2>. QED
    BY <1>1, <2>1, <2>3
<1>6. ASSUME NEW t, HasOpen(Tail(s), t) PROVE HasOpen(s, t)
  BY <1>1, <1>6 DEF HasOpen
<1>. QED
  BY <1>1, <1>4, <1>5, <1>6

\* A batch of p's next messages, behind all that p had sent before.
LEMMA BatchKeeps ==
  ASSUME NEW s \in Seq(Frame), NEW p \in Conn, NEW g \in Nat, NEW m \in Nat,
         NEW b \in Seq(Frame), \A j \in 1..Len(b) : b[j] = Data(p, m + j),
         InOrder(s, p, g), g + Total(s) = m
  PROVE  s \o b \in Seq(Frame) /\ InOrder(s \o b, p, g) /\ Total(s \o b) = Total(s) + Len(b)
<1>. DEFINE u == s \o b
            n == Len(b)
<1>1. n \in Nat /\ Len(s) \in Nat /\ \A j \in 1..n : b[j].type = "data"
  <2>1. \A k : Data(p, k).type = "data"
    BY DEF Data
  <2>. QED
    BY <2>1
<1>2. /\ u \in Seq(Frame) /\ Len(u) = Len(s) + n
      /\ \A j \in 1..Len(s) : u[j] = s[j]
      /\ \A j \in 1..n : u[Len(s) + j] = b[j]
  OBVIOUS
<1>3. \A j \in 0..Len(s) : DataAmong(u, j) = DataAmong(s, j)
  BY CountPrefix
<1>4. \A j \in 0..n : DataAmong(u, Len(s) + j) = DataAmong(s, Len(s)) + j
  BY <1>1, CountBatch
<1>. HIDE DEF u, n
<1>5. ASSUME NEW j \in 1..Len(u), u[j].type = "data" PROVE u[j] = Data(p, g + DataAmong(u, j))
  <2>1. CASE j \in 1..Len(s)
    <3>1. u[j] = s[j] /\ DataAmong(u, j) = DataAmong(s, j)
      BY <1>2, <1>3, <2>1
    <3>. QED
      BY <1>5, <2>1, <3>1 DEF InOrder
  <2>2. CASE j \notin 1..Len(s)
    <3>. DEFINE k == j - Len(s)
    <3>1. k \in 1..n /\ j = Len(s) + k
      BY <1>1, <1>2, <2>2
    <3>. HIDE DEF k
    <3>2. u[j] = b[k] /\ b[k] = Data(p, m + k)
      BY <1>1, <1>2, <3>1 DEF n
    <3>4. DataAmong(u, j) = Total(s) + k /\ Total(s) \in Nat
      BY <1>1, <1>4, <3>1, CountStep DEF Total
    <3>5. k \in Nat
      BY <1>1, <3>1
    <3>6. PICK y \in Nat : y = Total(s)
      BY <3>4
    <3>7. g + y = m
      BY <3>6
    <3>3. g + (y + k) = m + k
      <4>. HIDE DEF k
      <4>. QED
        BY <3>5, <3>7
    <3>. QED
      BY <3>2, <3>3, <3>4, <3>6
  <2>. QED
    BY <2>1, <2>2
<1>6. InOrder(u, p, g)
  BY <1>5 DEF InOrder
<1>7. Total(u) = Total(s) + n
  BY <1>1, <1>2, <1>4 DEF Total
<1>. QED
  BY <1>2, <1>6, <1>7 DEF u, n

\* ... and it holds no OPEN.
LEMMA BatchOpens ==
  ASSUME NEW s \in Seq(Frame), NEW p, NEW m, NEW t,
         NEW b \in Seq(Frame), \A j \in 1..Len(b) : b[j] = Data(p, m + j), HasOpen(s \o b, t)
  PROVE  HasOpen(s, t)
<1>1. PICK j \in 1..(Len(s) + Len(b)) : (s \o b)[j] = Open(t)
  BY DEF HasOpen
<1>2. j \in 1..Len(s)
  <2>3. \A k : Data(p, k) # Open(t)
    BY DEF Data, Open
  <2>1. \A k \in 1..Len(b) : b[k] # Open(t)
    BY <2>3
  <2>2. j \notin 1..Len(s) => (s \o b)[j] = b[j - Len(s)] /\ j - Len(s) \in 1..Len(b)
    OBVIOUS
  <2>. QED
    BY <1>1, <2>1, <2>2
<1>. QED
  BY <1>1, <1>2 DEF HasOpen

-----------------------------------------------------------------------------
(* What most steps do: no new ticket, no new pairing, no message read.     *)

\* Tickets stay told to their host alone if a step tells nobody else of one.
LEMMA TicketsKept ==
  ASSUME TypeOK, RelayAssumption, TicketsAreTold, UNCHANGED <<asked, issued>>,
         \A v \in Conn : ticket'[v] \in {ticket[v], NoTicket},
         \A c \in Conn, t \in Ticket : HasOpen(out'[c], t) =>
           HasOpen(out[c], t) /\ kind'[c] = kind[c] /\ proved'[c] = proved[c],
         \A k \in Key : \A t \in known'[k] :
           t \in known[k] \/ (\E c \in Conn : HasOpen(out[c], t) /\ proved[c] = k),
         TypeOK'
  PROVE  TicketsAreTold'
<1>1. ASSUME NEW t \in Ticket, NEW k, AskedFrom(t, k) PROVE AskedFrom(t, k)'
  BY <1>1, RelayAssumption DEF AskedFrom
<1>2. ASSUME NEW c \in Conn, NEW t \in Ticket, HasOpen(out[c], t)
      PROVE  kind[c] = "HostCtl" /\ t \in issued /\ AskedFrom(t, proved[c])
  BY <1>2 DEF TicketsAreTold, HasOpen
<1>3. ASSUME NEW c \in Conn, NEW t \in Ticket, HasOpen(out'[c], t)
      PROVE  kind'[c] = "HostCtl" /\ t \in issued' /\ AskedFrom(t, proved[c])'
  BY <1>1, <1>2, <1>3
<1>4. ASSUME NEW k \in Key, NEW t \in known'[k] PROVE t \in issued' /\ AskedFrom(t, k)'
  <2>1. t \in Ticket
    BY DEF TypeOK
  <2>2. t \in issued /\ AskedFrom(t, k)
    BY <1>2, <2>1 DEF TicketsAreTold
  <2>. QED
    BY <1>1, <2>1, <2>2
<1>. QED
  BY <1>3, <1>4 DEF TicketsAreTold, HasOpen

\* Partners stay what they are when only connections still in HTTP change.
LEMMA PartnersKept ==
  ASSUME IInv, PairedOnce, PairedWithAskedHost, UNCHANGED partner,
         \A c \in Conn : peer'[c] \in {peer[c], NoConn},
         \A c \in Conn : kind[c] \notin {"new", "Http"} =>
           /\ kind'[c] \in {kind[c], "freed"} /\ ticket'[c] \in {ticket[c], NoTicket}
           /\ proved'[c] = proved[c] /\ asked'[c] = asked[c]
  PROVE  PairedOnce' /\ PairedWithAskedHost'
<1>1. \A c \in Conn : partner[c] # NoConn => partner[c] \in Conn
  BY DEF IInv, TypeOK
<1>2. PairedOnce'
  BY <1>1 DEF PairedOnce
<1>3. PairedWithAskedHost'
  BY <1>1 DEF PairedOnce, PairedWithAskedHost
<1>. QED
  BY <1>2, <1>3

\* Nothing that counts as a message is queued for a connection without partner.
LEMMA NoMessages ==
  ASSUME RelayAssumption, TypeOK, ForwardedInOrder, NEW c \in Conn, partner[c] = NoConn
  PROVE  Total(out[c]) = 0 /\ Taken(out[c]) = 0 /\ \A p, g : InOrder(out[c], p, g)
<1>1. \A j \in 1..Len(out[c]) : out[c][j] \in Frame
  BY DEF TypeOK
<1>2. \A n : Data(NoConn, n) \notin Frame
  BY RelayAssumption DEF Data, Frame
<1>3. \A j \in 1..Len(out[c]) : out[c][j].type # "data"
  BY <1>1, <1>2 DEF ForwardedInOrder
<1>4. {h \in 1..Len(out[c]) : out[c][h].type = "data"} = {}
  BY <1>3
<1>5. Total(out[c]) = 0
  BY <1>4, FS_EmptySet DEF Total, DataAmong
<1>6. out[c] # <<>> => Head(out[c]).type # "data"
  BY <1>3 DEF TypeOK
<1>. QED
  BY <1>3, <1>5, <1>6 DEF Taken, InOrder

Flow == Unpaired /\ QueuesBounded /\ ForwardedInOrder /\ NothingLost /\ MemoryBounded

\* What became of a queue and of what its socket took.
Handled(c) ==
  \/ got'[c] = got[c] /\ Added(out[c], out'[c])
  \/ got'[c] = got[c] + Taken(out[c]) /\ Sent(out[c], out'[c])
  \/ got'[c] = got[c] /\ kind'[c] = "freed" /\ out'[c] = <<>>

\* Unless it is freed, no message is lost from its queue and none is out of order.
LEMMA HandledKeeps ==
  ASSUME TypeOK, NEW c \in Conn, Handled(c)
  PROVE  /\ Total(out[c]) \in Nat /\ Total(out'[c]) \in Nat /\ Total(out'[c]) <= Total(out[c])
         /\ InOrder(out[c], partner[c], got[c]) => InOrder(out'[c], partner[c], got'[c])
         /\ kind'[c] # "freed" => got'[c] + Total(out'[c]) = got[c] + Total(out[c])
<1>1. out[c] \in Seq(Frame) /\ got[c] \in Nat /\ Total(out[c]) \in Nat
  BY CountStep DEF TypeOK, Total
<1>2. CASE got'[c] = got[c] /\ Added(out[c], out'[c])
  BY <1>1, <1>2, AddedKeeps
<1>3. CASE got'[c] = got[c] + Taken(out[c]) /\ Sent(out[c], out'[c])
  <2>1. out[c] # <<>> /\ Added(Tail(out[c]), out'[c])
    BY <1>3 DEF Sent
  <2>2. /\ Tail(out[c]) \in Seq(Frame) /\ Total(Tail(out[c])) \in Nat
        /\ Total(out[c]) = Total(Tail(out[c])) + Taken(out[c])
        /\ InOrder(out[c], partner[c], got[c]) =>
             InOrder(Tail(out[c]), partner[c], got[c] + Taken(out[c]))
    BY <1>1, <2>1, TailKeeps
  <2>3. /\ Total(out'[c]) = Total(Tail(out[c]))
        /\ InOrder(Tail(out[c]), partner[c], got'[c]) => InOrder(out'[c], partner[c], got'[c])
    BY <2>1, <2>2, AddedKeeps
  <2>4. Taken(out[c]) \in Nat
    BY DEF Taken
  <2>. QED
    BY <1>1, <1>3, <2>2, <2>3, <2>4
<1>4. CASE got'[c] = got[c] /\ kind'[c] = "freed" /\ out'[c] = <<>>
  <2>1. Total(out'[c]) = 0
    BY <1>4, CountStep DEF Total
  <2>2. InOrder(out'[c], partner[c], got'[c])
    BY <1>4 DEF InOrder
  <2>. QED
    BY <1>1, <1>4, <2>1, <2>2
<1>. QED
  BY <1>2, <1>3, <1>4 DEF Handled

\* What has been read is still forwarded in order and in full.
LEMMA FlowKept ==
  ASSUME RelayAssumption, IInv, IInv', Flow, UNCHANGED <<nread, partner>>,
         \A c \in Conn : peer'[c] \in {peer[c], NoConn},
         \A c \in Conn : Handled(c),
         \A c \in Conn : pending'[c] = pending[c] \/ (kind'[c] = "freed" /\ pending'[c] = <<>>),
         \A c \in Conn : kind'[c] \in {"new", "Http"} =>
           kind[c] \in {"new", "Http"} /\ out'[c] = out[c],
         \A c \in Conn : Live(c)' /\ AwaitingHost(c)' =>
           (Live(c) /\ AwaitingHost(c)) \/ kind[c] \in {"new", "Http"},
         turn' \in {turn, NoConn} \/ peer'[turn'] = NoConn
  PROVE  Flow'
<1>. USE DEF IInv
<1>1. ASSUME NEW c \in Conn
      PROVE  /\ Total(out[c]) \in Nat /\ Total(out'[c]) \in Nat /\ Total(out'[c]) <= Total(out[c])
             /\ InOrder(out'[c], partner'[c], got'[c])
             /\ kind'[c] # "freed" => got'[c] + Total(out'[c]) = got[c] + Total(out[c])
  <2>1. InOrder(out[c], partner[c], got[c])
    BY DEF Flow, ForwardedInOrder, InOrder
  <2>. QED
    BY <2>1, HandledKeeps
<1>2. Unpaired'
  <2>1. ASSUME NEW c \in Conn, kind'[c] \in {"new", "Http"}
        PROVE  out'[c] = <<>> /\ pending'[c] = <<>> /\ nread'[c] = 0
    BY <2>1 DEF Flow, Unpaired
  <2>2. ASSUME NEW c \in Conn, partner'[c] = NoConn PROVE got'[c] = 0
    <3>1. got[c] = 0 /\ Taken(out[c]) = 0
      BY <2>2, NoMessages DEF Flow, Unpaired
    <3>. QED
      BY <3>1 DEF Handled
  <2>3. ASSUME NEW c \in Conn, Live(c)', AwaitingHost(c)'
        PROVE  pending'[c] = [j \in 1..nread'[c] |-> Data(c, j)]
    <3>1. pending'[c] = pending[c] /\ nread'[c] = nread[c]
      BY <2>3 DEF AwaitingHost
    <3>2. CASE Live(c) /\ AwaitingHost(c)
      BY <3>1, <3>2 DEF Flow, Unpaired
    <3>3. CASE kind[c] \in {"new", "Http"}
      <4>1. pending[c] = <<>> /\ nread[c] = 0
        BY <3>3 DEF Flow, Unpaired
      <4>. QED
        BY <3>1, <4>1
    <3>. QED
      BY <2>3, <3>2, <3>3
  <2>. QED
    BY <2>1, <2>2, <2>3 DEF Unpaired
<1>3. QueuesBounded'
  <2>1. ASSUME NEW c \in Conn, peer'[c] # NoConn PROVE Queued(c)' <= Backpressure + ReadBatch
    BY <1>1, <2>1, RelayAssumption DEF Flow, QueuesBounded, Queued, Total
  <2>2. ASSUME turn' # NoConn, peer'[turn'] # NoConn PROVE Queued(peer[turn])' = 0
    <3>1. turn' = turn /\ turn \in Conn /\ peer'[turn] = peer[turn] /\ peer[turn] \in Conn
      BY <2>2 DEF TypeOK
    <3>2. Total(out[peer[turn]]) = 0
      BY <2>2, <3>1 DEF Flow, QueuesBounded, Queued, Total
    <3>. QED
      BY <1>1, <3>1, <3>2 DEF Queued, Total
  <2>. QED
    BY <2>1, <2>2 DEF QueuesBounded
<1>4. ForwardedInOrder'
  BY <1>1 DEF ForwardedInOrder, InOrder
<1>5. NothingLost'
  <2>1. ASSUME NEW c \in Conn, Live(c)', peer'[c] # NoConn
        PROVE  got'[peer'[c]] + Queued(peer[c])' = nread'[c]
    <3>1. /\ peer'[c] = peer[c] /\ peer[c] \in Conn
          /\ Live(c) /\ Live(peer[c])'
      BY <2>1 DEF TypeOK, Pointers, NoDanglingPointer
    <3>2. kind'[peer[c]] # "freed"
      BY <3>1 DEF Live, Upgraded
    <3>3. got[peer[c]] + Total(out[peer[c]]) = nread[c]
      BY <2>1, <3>1 DEF Flow, NothingLost, Queued, Total
    <3>. QED
      BY <1>1, <3>1, <3>2, <3>3 DEF Queued, Total
  <2>2. ASSUME NEW c \in Conn, Live(c)', AwaitingHost(c)' PROVE Len(pending'[c]) = nread'[c]
    <3>1. pending'[c] = [j \in 1..nread'[c] |-> Data(c, j)] /\ nread'[c] \in Nat
      BY <1>2, <2>2 DEF Unpaired, TypeOK
    <3>. QED
      BY <3>1
  <2>. QED
    BY <2>1, <2>2 DEF NothingLost
<1>6. MemoryBounded'
  <2>1. ASSUME NEW c \in Conn
        PROVE  Queued(c)' <= Backpressure + 2 * ReadBatch /\ Len(pending'[c]) <= PendingCap
    <3>1. Queued(c)' <= Backpressure + 2 * ReadBatch
      BY <1>1, RelayAssumption DEF Flow, MemoryBounded, Queued, Total
    <3>2. Len(pending[c]) <= PendingCap /\ PendingCap \in Nat
      BY RelayAssumption DEF Flow, MemoryBounded
    <3>. QED
      BY <3>1, <3>2
  <2>. QED
    BY <2>1 DEF MemoryBounded
<1>. QED
  BY <1>2, <1>3, <1>4, <1>5, <1>6 DEF Flow

-----------------------------------------------------------------------------
(* The steps one by one.                                                   *)

\* Steps that only end connections, queue CLOSE frames or drain a socket.
LEMMA SettledStep ==
  ASSUME RelayAssumption, FInv, IInv',
         UNCHANGED <<kind, ticket, pending, nread, partner, proved, asked, issued>>,
         turn' \in {turn, NoConn},
         \A c \in Conn : dead[c] => dead'[c],
         \A c \in Conn : peer'[c] \in {peer[c], NoConn},
         \A c \in Conn : Handled(c),
         \A c \in Conn : kind[c] \in {"new", "Http"} => out'[c] = out[c],
         \A c \in Conn, t \in Ticket : HasOpen(out'[c], t) => HasOpen(out[c], t),
         \A k \in Key : \A t \in known'[k] :
           t \in known[k] \/ (\E c \in Conn : HasOpen(out[c], t) /\ proved[c] = k)
  PROVE  Forwarding'
<1>1. TicketsAreTold'
  BY TicketsKept DEF FInv, Forwarding, IInv, TypeOK
<1>2. PairedOnce' /\ PairedWithAskedHost'
  BY PartnersKept DEF FInv, Forwarding
<1>3. ASSUME NEW c \in Conn, Live(c)', AwaitingHost(c)' PROVE Live(c) /\ AwaitingHost(c)
  <2>1. Live(c) /\ kind[c] = "Viewer" /\ ticket[c] # NoTicket
    BY <1>3 DEF Live, AwaitingHost, IInv, TypeOK
  <2>2. peer[c] = NoConn
    BY <2>1, RelayAssumption DEF FInv, Forwarding, PairedOnce
  <2>. QED
    BY <2>1, <2>2 DEF AwaitingHost
<1>4. IInv /\ Flow /\ UNCHANGED <<nread, partner>>
  BY DEF FInv, Forwarding, Flow
<1>5. /\ \A c \in Conn : pending'[c] = pending[c]
      /\ \A c \in Conn : kind'[c] \in {"new", "Http"} =>
           kind[c] \in {"new", "Http"} /\ out'[c] = out[c]
  OBVIOUS
<1>7. \A c \in Conn : Live(c)' /\ AwaitingHost(c)' =>
        (Live(c) /\ AwaitingHost(c)) \/ kind[c] \in {"new", "Http"}
  BY <1>3
<1>8. (\A c \in Conn : pending'[c] = pending[c] \/ (kind'[c] = "freed" /\ pending'[c] = <<>>))
      /\ (turn' \in {turn, NoConn} \/ peer'[turn'] = NoConn)
  BY <1>5
<1>6. Flow'
  BY <1>4, <1>5, <1>7, <1>8, FlowKept
<1>. QED
  BY <1>1, <1>2, <1>6 DEF Forwarding, Flow

\* The frame types that the handlers queue beside messages.
LEMMA AddedOne ==
  ASSUME NEW s \in Seq(Frame), NEW f \in Frame, f.type # "data"
  PROVE  Added(s, s \o <<f>>)
BY DEF Added

\* A CLOSE is no message and no OPEN.
LEMMA CloseFacts ==
  ASSUME NEW code \in Nat
  PROVE  Close(code) \in Frame /\ Close(code).type # "data" /\ \A t : Close(code) # Open(t)
BY DEF Close, Open, Frame

\* Telling the peer adds one CLOSE to its queue, and to no other.
LEMMA ToldPeerAdds ==
  ASSUME TypeOK, NEW o \in [Conn -> Seq(Frame)], NEW c \in Conn, NEW code \in Nat, NEW x \in Conn
  PROVE  /\ Added(o[x], ToldPeer(o, c, code)[x])
         /\ x # peer[c] => ToldPeer(o, c, code)[x] = o[x]
         /\ \A t : HasOpen(ToldPeer(o, c, code)[x], t) => HasOpen(o[x], t)
<1>1. o[x] \in Seq(Frame) /\ Close(code) \in Frame /\ Close(code).type # "data"
      /\ \A t : Close(code) # Open(t)
  BY CloseFacts
<1>2. ToldPeer(o, c, code)[x] = o[x]
      \/ (x = peer[c] /\ ToldPeer(o, c, code)[x] = o[x] \o <<Close(code)>>)
  <2>. DEFINE f == <<Close(code)>>
  <2>. HIDE DEF f
  <2>1. CASE peer[c] = NoConn \/ dead[peer[c]]
    <3>1. ToldPeer(o, c, code) = o
      BY <2>1 DEF ToldPeer, WsSend
    <3>. QED
      BY <3>1
  <2>2. CASE ~(peer[c] = NoConn \/ dead[peer[c]])
    <3>1. ToldPeer(o, c, code) = [o EXCEPT ![peer[c]] = @ \o f]
      BY <2>2 DEF ToldPeer, WsSend, f
    <3>2. x = peer[c] => ToldPeer(o, c, code)[x] = o[x] \o f
      BY <3>1
    <3>3. x # peer[c] => ToldPeer(o, c, code)[x] = o[x]
      BY <3>1
    <3>. QED
      BY <3>2, <3>3 DEF f
  <2>. QED
    BY <2>1, <2>2
<1>3. \A t : HasOpen(o[x] \o <<Close(code)>>, t) => HasOpen(o[x], t)
  BY <1>1, AddedOpens
<1>. QED
  BY <1>1, <1>2, <1>3, AddedOne DEF Added

\* Killing a connection, when o is what is queued.
LEMMA KillAdds ==
  ASSUME RelayAssumption, IInv, NEW o \in [Conn -> Seq(Frame)], NEW c \in Conn, Kill(c, o),
         NEW x \in Conn
  PROVE  /\ Added(o[x], out'[x])
         /\ kind[x] \in {"new", "Http"} => out'[x] = o[x]
         /\ \A t : HasOpen(out'[x], t) => HasOpen(o[x], t)
         /\ peer'[x] \in {peer[x], NoConn} /\ (dead[x] => dead'[x])
<1>1. peer'[x] \in {peer[x], NoConn} /\ (dead[x] => dead'[x]) /\ out' = ToldPeer(o, c, 1001)
  BY DEF Kill, Unlinked, IInv, TypeOK
<1>2. x = peer[c] => kind[x] \notin {"new", "Http"}
  BY RelayAssumption DEF IInv, Pointers, PairedBothWays
<1>3. PICK code \in Nat : out' = ToldPeer(o, c, code)
  <2>1. 1001 \in Nat
    OBVIOUS
  <2>. QED
    BY <1>1, <2>1
<1>4. TypeOK
  BY DEF IInv
<1>5. /\ Added(o[x], ToldPeer(o, c, code)[x])
      /\ x # peer[c] => ToldPeer(o, c, code)[x] = o[x]
      /\ \A t : HasOpen(ToldPeer(o, c, code)[x], t) => HasOpen(o[x], t)
  BY <1>4, ToldPeerAdds
<1>. QED
  BY <1>1, <1>2, <1>3, <1>5

\* A connection that is killed outside a read: an error or a timer.
LEMMA KillForwarding ==
  ASSUME RelayAssumption, FInv, IInv', NEW c \in Conn, Kill(c, out),
         UNCHANGED <<kind, id, ticket, pending, owner, turn, history>>
  PROVE  Forwarding'
<1>1. out \in [Conn -> Seq(Frame)] /\ got \in [Conn -> Nat]
  BY DEF FInv, IInv, TypeOK
<1>2. \A x \in Conn : Handled(x)
  BY <1>1, KillAdds DEF Handled, FInv, history
<1>. QED
  BY <1>1, <1>2, KillAdds, SettledStep DEF FInv, history

\* flush.
LEMMA FlushForwarding ==
  ASSUME RelayAssumption, FInv, IInv', NEW c \in Conn, Flush(c)
  PROVE  Forwarding'
<1>. DEFINE left == IF out[c] = <<>> THEN <<>> ELSE Tail(out[c])
            o == [out EXCEPT ![c] = left]
<1>1. out \in [Conn -> Seq(Frame)] /\ got \in [Conn -> Nat] /\ out[c] \in Seq(Frame)
      /\ known \in [Key -> SUBSET Ticket]
  BY DEF FInv, IInv, TypeOK
<1>2. left \in Seq(Frame)
  BY <1>1
<1>3. o \in [Conn -> Seq(Frame)] /\ o[c] = left /\ \A x \in Conn : x # c => o[x] = out[x]
  <2>. HIDE DEF left
  <2>. QED
    BY <1>1, <1>2
<1>4. \/ Kill(c, o)
      \/ out' = o /\ UNCHANGED <<dead, closing, peer, ctl, waiting>>
  BY DEF Flush
<1>5. /\ UNCHANGED <<kind, id, ticket, pending, owner, turn, nread, partner, proved, asked, issued>>
      /\ got' = IF out[c] # <<>> /\ Head(out[c]).type = "data" THEN [got EXCEPT ![c] = @ + 1] ELSE got
      /\ known' = IF out[c] # <<>> /\ Head(out[c]).type = "open"
                  THEN [known EXCEPT ![proved[c]] = @ \cup {Head(out[c]).ticket}] ELSE known
  BY DEF Flush
<1>. HIDE DEF o
<1>6. ASSUME NEW x \in Conn
      PROVE  /\ Added(o[x], out'[x])
             /\ kind[x] \in {"new", "Http"} => out'[x] = o[x]
             /\ \A t : HasOpen(out'[x], t) => HasOpen(o[x], t)
             /\ peer'[x] \in {peer[x], NoConn} /\ (dead[x] => dead'[x])
  <2>1. CASE Kill(c, o)
    BY <1>3, <2>1, KillAdds DEF FInv
  <2>2. CASE out' = o /\ UNCHANGED <<dead, closing, peer, ctl, waiting>>
    BY <2>2 DEF Added
  <2>. QED
    BY <1>4, <2>1, <2>2
<1>7. got'[c] = got[c] + Taken(out[c]) /\ \A x \in Conn : x # c => got'[x] = got[x]
  BY <1>1, <1>5 DEF Taken
<1>8. ASSUME NEW x \in Conn PROVE Handled(x)
  <2>1. CASE x # c
    BY <1>3, <1>6, <1>7, <2>1 DEF Handled
  <2>2. CASE x = c /\ out[c] = <<>>
    <3>1. Taken(out[c]) = 0 /\ o[c] = out[c]
      BY <1>3, <2>2 DEF Taken
    <3>. QED
      BY <1>1, <1>6, <1>7, <2>2, <3>1 DEF Handled
  <2>3. CASE x = c /\ out[c] # <<>>
    <3>1. o[c] = Tail(out[c])
      BY <1>3, <2>3
    <3>. QED
      BY <1>6, <1>7, <2>3, <3>1 DEF Handled, Sent
  <2>. QED
    BY <2>1, <2>2, <2>3
<1>9. ASSUME NEW x \in Conn, NEW t \in Ticket, HasOpen(out'[x], t) PROVE HasOpen(out[x], t)
  <2>1. HasOpen(o[x], t)
    BY <1>6, <1>9
  <2>2. CASE x = c
    <3>1. CASE out[c] = <<>>
      BY <1>3, <2>1, <2>2, <3>1
    <3>2. CASE out[c] # <<>>
      <4>1. o[c] = Tail(out[c])
        BY <1>3, <3>2
      <4>. QED
        BY <1>1, <2>1, <2>2, <3>2, <4>1, TailKeeps
    <3>. QED
      BY <3>1, <3>2
  <2>. QED
    BY <1>3, <2>1, <2>2
<1>10. ASSUME NEW k \in Key, NEW t \in known'[k], t \notin known[k]
       PROVE  HasOpen(out[c], t) /\ proved[c] = k
  <2>1. /\ proved[c] = k /\ out[c] # <<>> /\ Head(out[c]).type = "open" /\ t = Head(out[c]).ticket
    BY <1>1, <1>5, <1>10
  <2>2. out[c][1] \in Frame /\ out[c][1] = Head(out[c]) /\ 1 \in 1..Len(out[c])
    BY <1>1, <2>1
  <2>3. out[c][1] = Open(t)
    BY <2>1, <2>2 DEF Frame, Open
  <2>. QED
    BY <2>1, <2>2, <2>3 DEF HasOpen
<1>11. \A x \in Conn : kind[x] \in {"new", "Http"} => out'[x] = out[x]
  <2>1. kind[c] \in {"new", "Http"} => out[c] = <<>>
    BY DEF FInv, Forwarding, Unpaired
  <2>2. \A x \in Conn : kind[x] \in {"new", "Http"} => o[x] = out[x]
    BY <1>3, <2>1
  <2>. QED
    BY <1>6, <2>2
<1>. QED
  BY <1>5, <1>6, <1>8, <1>9, <1>10, <1>11, SettledStep

\* Steps that queue nothing and end nothing.
LEMMA QuietForwarding ==
  ASSUME RelayAssumption, FInv, IInv',
         UNCHANGED <<kind, ticket, pending, out, peer, dead, turn, history>>
  PROVE  Forwarding'
<1>1. \A c \in Conn : Handled(c)
  BY DEF Handled, Added, history
<1>2. \A c \in Conn : peer'[c] \in {peer[c], NoConn} /\ (dead[c] => dead'[c]) /\ out'[c] = out[c]
  OBVIOUS
<1>3. \A k \in Key : \A t \in known'[k] : t \in known[k]
  BY DEF history
<1>. QED
  BY <1>1, <1>2, <1>3, SettledStep DEF history

\* One frame that is no message, behind what is queued for c.
LEMMA SendAdds ==
  ASSUME NEW o \in [Conn -> Seq(Frame)], NEW c \in Conn, NEW f \in Frame, f.type # "data",
         NEW x \in Conn
  PROVE  /\ Added(o[x], WsSend(o, c, <<f>>)[x])
         /\ x # c => WsSend(o, c, <<f>>)[x] = o[x]
         /\ \A t : HasOpen(WsSend(o, c, <<f>>)[x], t) =>
              HasOpen(o[x], t) \/ (x = c /\ f = Open(t))
<1>. DEFINE s == <<f>>
<1>1. WsSend(o, c, s)[x] = o[x] \/ (x = c /\ WsSend(o, c, s)[x] = o[x] \o s)
  <2>. HIDE DEF s
  <2>. QED
    BY DEF WsSend
<1>2. x # c => WsSend(o, c, s)[x] = o[x]
  <2>. HIDE DEF s
  <2>. QED
    BY DEF WsSend
<1>3. o[x] \in Seq(Frame)
  OBVIOUS
<1>4. \A t : HasOpen(o[x] \o <<f>>, t) => HasOpen(o[x], t) \/ f = Open(t)
  BY <1>3, AddedOpens
<1>5. Added(o[x], o[x] \o <<f>>)
  BY <1>3, AddedOne
<1>. QED
  BY <1>1, <1>2, <1>4, <1>5 DEF Added

\* The host does not answer in time.
LEMMA AnswerTimeoutForwarding ==
  ASSUME RelayAssumption, FInv, IInv', NEW c \in Conn, AnswerTimeout(c)
  PROVE  Forwarding'
<1>1. PICK code \in Nat : out' = WsSend(out, c, <<Close(code)>>)
  <2>1. 4408 \in Nat /\ out' = WsSend(out, c, <<Close(4408)>>)
    BY DEF AnswerTimeout
  <2>. QED
    BY <2>1
<1>2. out \in [Conn -> Seq(Frame)]
  BY DEF FInv, IInv, TypeOK
<1>3. Close(code) \in Frame /\ Close(code).type # "data" /\ \A t : Close(code) # Open(t)
  BY CloseFacts
<1>4. kind[c] = "Viewer"
  BY DEF AnswerTimeout, Abandoned, AwaitingHost
<1>5. ASSUME NEW x \in Conn
      PROVE  /\ Added(out[x], out'[x])
             /\ x # c => out'[x] = out[x]
             /\ \A t : HasOpen(out'[x], t) => HasOpen(out[x], t)
  <2>. DEFINE f == Close(code)
  <2>1. f \in Frame /\ f.type # "data" /\ out' = WsSend(out, c, <<f>>) /\ \A t : f # Open(t)
    BY <1>1, <1>3
  <2>. HIDE DEF f
  <2>2. /\ Added(out[x], WsSend(out, c, <<f>>)[x])
        /\ x # c => WsSend(out, c, <<f>>)[x] = out[x]
        /\ \A t : HasOpen(WsSend(out, c, <<f>>)[x], t) =>
             HasOpen(out[x], t) \/ (x = c /\ f = Open(t))
    BY <1>2, <2>1, SendAdds
  <2>. QED
    BY <2>1, <2>2
<1>6. UNCHANGED <<kind, ticket, pending, nread, partner, proved, asked, issued, got, known, turn, peer, dead>>
  BY DEF AnswerTimeout, links, history
<1>7. \A x \in Conn : Handled(x)
  BY <1>5, <1>6 DEF Handled
<1>8. /\ turn' \in {turn, NoConn}
      /\ \A x \in Conn : (dead[x] => dead'[x]) /\ peer'[x] \in {peer[x], NoConn}
      /\ \A x \in Conn : kind[x] \in {"new", "Http"} => out'[x] = out[x]
      /\ \A k \in Key : \A t \in known'[k] : t \in known[k]
  BY <1>4, <1>5, <1>6
<1>. QED
  BY <1>5, <1>6, <1>7, <1>8, SettledStep

\* Steps that accept or upgrade a connection, or free dead ones.
LEMMA OthersKept ==
  ASSUME RelayAssumption, FInv, IInv', UNCHANGED <<nread, got, partner, peer>>,
         \A x \in Conn : Added(out[x], out'[x]) \/ (kind'[x] = "freed" /\ out'[x] = <<>>),
         \A x \in Conn : pending'[x] = pending[x] \/ (kind'[x] = "freed" /\ pending'[x] = <<>>),
         \A x \in Conn : kind'[x] \in {"new", "Http"} =>
           kind[x] \in {"new", "Http"} /\ out'[x] = out[x],
         \A x \in Conn : kind[x] \notin {"new", "Http"} =>
           /\ kind'[x] \in {kind[x], "freed"} /\ ticket'[x] = ticket[x]
           /\ proved'[x] = proved[x] /\ asked'[x] = asked[x],
         \A x \in Conn : dead[x] => dead'[x],
         turn' \in {turn, NoConn} \/ peer[turn'] = NoConn
  PROVE  PairedOnce' /\ PairedWithAskedHost' /\ Flow'
<1>1. PairedOnce' /\ PairedWithAskedHost'
  BY PartnersKept DEF FInv, Forwarding
<1>2. \A x \in Conn : Handled(x)
  BY DEF Handled
<1>3. \A x \in Conn : Live(x)' /\ AwaitingHost(x)' =>
        (Live(x) /\ AwaitingHost(x)) \/ kind[x] \in {"new", "Http"}
  BY DEF Live, AwaitingHost, Upgraded
<1>4. IInv /\ Flow
  BY DEF FInv, Forwarding, Flow
<1>5. Flow'
  BY <1>2, <1>3, <1>4, FlowKept
<1>. QED
  BY <1>1, <1>5

\* A connection is accepted.
LEMMA AcceptForwarding ==
  ASSUME RelayAssumption, FInv, IInv', NEW c \in Conn, Accept(c)
  PROVE  Forwarding'
<1>1. /\ kind' = [kind EXCEPT ![c] = "Http"] /\ kind[c] = "new"
      /\ UNCHANGED <<dead, ticket, peer, pending, out, turn, nread, got, partner, proved, asked,
                     known, issued>>
  BY DEF Accept, history
<1>2. kind \in [Conn -> Kinds] /\ out[c] = <<>>
  BY <1>1 DEF FInv, IInv, TypeOK, Forwarding, Unpaired
<1>3. PairedOnce' /\ PairedWithAskedHost' /\ Flow'
  BY <1>1, <1>2, OthersKept DEF Added
<1>4. ~HasOpen(out[c], NoTicket) /\ \A t : ~HasOpen(out[c], t)
  BY <1>2 DEF HasOpen
<1>5. TicketsAreTold'
  BY <1>1, <1>2, <1>4, TicketsKept DEF FInv, IInv, Forwarding
<1>. QED
  BY <1>3, <1>5 DEF Forwarding, Flow

\* Dead connections are freed.
LEMMA ReapForwarding ==
  ASSUME RelayAssumption, FInv, IInv', Reap
  PROVE  Forwarding'
<1>. DEFINE doomed == {c \in Conn : kind[c] # "freed" /\ dead[c]}
<1>1. /\ kind' = [c \in Conn |-> IF c \in doomed THEN "freed" ELSE kind[c]]
      /\ pending' = [c \in Conn |-> IF c \in doomed THEN <<>> ELSE pending[c]]
      /\ out' = [c \in Conn |-> IF c \in doomed THEN <<>> ELSE out[c]]
      /\ UNCHANGED <<dead, ticket, peer, turn, nread, got, partner, proved, asked, known, issued>>
  BY DEF Reap, history
<1>. HIDE DEF doomed
<1>2. ASSUME NEW x \in Conn
      PROVE  \/ kind'[x] = kind[x] /\ pending'[x] = pending[x] /\ out'[x] = out[x]
             \/ kind'[x] = "freed" /\ pending'[x] = <<>> /\ out'[x] = <<>>
  BY <1>1
<1>3. \A x \in Conn : Added(out[x], out'[x]) \/ (kind'[x] = "freed" /\ out'[x] = <<>>)
  BY <1>2 DEF Added
<1>4. \A x \in Conn : kind'[x] \in {"new", "Http"} =>
        kind[x] \in {"new", "Http"} /\ out'[x] = out[x]
  BY <1>2
<1>5. PairedOnce' /\ PairedWithAskedHost' /\ Flow'
  BY <1>1, <1>2, <1>3, <1>4, OthersKept
<1>6. \A x \in Conn, t \in Ticket : HasOpen(out'[x], t) =>
        HasOpen(out[x], t) /\ kind'[x] = kind[x] /\ proved'[x] = proved[x]
  BY <1>1, <1>2 DEF HasOpen
<1>7. TicketsAreTold'
  BY <1>1, <1>6, TicketsKept DEF FInv, IInv, Forwarding
<1>. QED
  BY <1>5, <1>7 DEF Forwarding, Flow

\* A connection still in HTTP has no peer, and nothing is queued for it.
LEMMA HttpFacts ==
  ASSUME RelayAssumption, FInv, NEW c \in Conn, kind[c] = "Http"
  PROVE  peer[c] = NoConn /\ out[c] = <<>>
<1>1. out[c] = <<>>
  BY DEF FInv, Forwarding, Unpaired
<1>2. peer[c] # NoConn => kind[c] \in {"Viewer", "HostData"}
  BY DEF FInv, IInv, Pointers, PairedBothWays
<1>. QED
  BY <1>1, <1>2

\* A control channel registers.
LEMMA HostForwarding ==
  ASSUME RelayAssumption, FInv, IInv', NEW c \in Conn, NEW i \in Id, NEW k \in Key,
         HostRequest(c, i, k)
  PROVE  Forwarding'
<1>1. CASE InUse(i, k)
  BY <1>1, QuietForwarding DEF HostRequest, HttpResponse, links
<1>2. CASE ~InUse(i, k)
  <2>1. /\ kind[c] = "Http"
        /\ dead' = [x \in Conn |-> dead[x] \/ x \in Replaced(i)]
        /\ kind' = [kind EXCEPT ![c] = "HostCtl"]
        /\ proved' = [proved EXCEPT ![c] = k]
        /\ turn' = c
        /\ UNCHANGED <<ticket, peer, pending, out, nread, got, partner, asked, known, issued>>
    BY <1>2 DEF HostRequest, CanRequest
  <2>2. kind \in [Conn -> Kinds] /\ proved \in [Conn -> Key \cup {NoKey}] /\ out[c] = <<>>
        /\ peer[c] = NoConn
    BY <2>1, HttpFacts DEF FInv, IInv, TypeOK
  <2>3. \A x \in Conn : x # c => kind'[x] = kind[x] /\ proved'[x] = proved[x]
    BY <2>1, <2>2
  <2>4. kind'[c] = "HostCtl"
    BY <2>1, <2>2
  <2>5. \A x \in Conn : dead[x] => dead'[x]
    BY <2>1
  <2>6. PairedOnce' /\ PairedWithAskedHost' /\ Flow'
    BY <2>1, <2>2, <2>3, <2>4, <2>5, OthersKept DEF Added
  <2>7. \A t : ~HasOpen(out[c], t)
    BY <2>2 DEF HasOpen
  <2>8. TicketsAreTold'
    BY <2>1, <2>3, <2>7, TicketsKept DEF FInv, IInv, Forwarding
  <2>. QED
    BY <2>6, <2>8 DEF Forwarding, Flow
<1>. QED
  BY <1>1, <1>2

\* A viewer asks for a host that is not there.
LEMMA RefusedForwarding ==
  ASSUME RelayAssumption, FInv, IInv', NEW c \in Conn, NEW i \in Id, ViewerRefused(c, i)
  PROVE  Forwarding'
<1>1. PICK code \in Nat : out' = WsSend(out, c, <<Close(code)>>)
  <2>1. 4404 \in Nat /\ out' = WsSend(out, c, <<Close(4404)>>)
    BY DEF ViewerRefused
  <2>. QED
    BY <2>1
<1>2. /\ kind[c] = "Http" /\ kind' = [kind EXCEPT ![c] = "Viewer"]
      /\ UNCHANGED <<dead, ticket, peer, pending, turn, nread, got, partner, proved, asked, known,
                     issued>>
  BY DEF ViewerRefused, CanRequest, history
<1>3. out \in [Conn -> Seq(Frame)] /\ kind \in [Conn -> Kinds] /\ out[c] = <<>>
  BY <1>2 DEF FInv, IInv, TypeOK, Forwarding, Unpaired
<1>4. Close(code) \in Frame /\ Close(code).type # "data" /\ \A t : Close(code) # Open(t)
  BY CloseFacts
<1>5. ASSUME NEW x \in Conn
      PROVE  /\ Added(out[x], out'[x])
             /\ x # c => out'[x] = out[x]
             /\ \A t : HasOpen(out'[x], t) => HasOpen(out[x], t)
  <2>. DEFINE f == Close(code)
  <2>1. f \in Frame /\ f.type # "data" /\ out' = WsSend(out, c, <<f>>) /\ \A t : f # Open(t)
    BY <1>1, <1>4
  <2>. HIDE DEF f
  <2>2. /\ Added(out[x], WsSend(out, c, <<f>>)[x])
        /\ x # c => WsSend(out, c, <<f>>)[x] = out[x]
        /\ \A t : HasOpen(WsSend(out, c, <<f>>)[x], t) =>
             HasOpen(out[x], t) \/ (x = c /\ f = Open(t))
    BY <1>3, <2>1, SendAdds, SMTT(40)
  <2>. QED
    BY <2>1, <2>2
<1>6. kind'[c] = "Viewer" /\ \A x \in Conn : x # c => kind'[x] = kind[x]
  BY <1>2, <1>3
<1>7. PairedOnce' /\ PairedWithAskedHost' /\ Flow'
  BY <1>2, <1>5, <1>6, OthersKept
<1>8. \A t : ~HasOpen(out[c], t)
  BY <1>3 DEF HasOpen
<1>9. TicketsAreTold'
  BY <1>2, <1>5, <1>6, <1>8, TicketsKept DEF FInv, IInv, Forwarding
<1>. QED
  BY <1>7, <1>9 DEF Forwarding, Flow

\* A viewer asks for its host, and the host is sent the viewer's ticket.
LEMMA ViewerForwarding ==
  ASSUME RelayAssumption, FInv, IInv', NEW c \in Conn, NEW i \in Id, NEW t \in Ticket,
         ViewerRequest(c, i, t)
  PROVE  Forwarding'
<1>0. PICK h \in Conn : h = ctl[i]
  BY DEF ViewerRequest, FInv, IInv, TypeOK
<1>1. /\ kind[c] = "Http" /\ h # NoConn /\ t \notin issued
      /\ kind' = [kind EXCEPT ![c] = "Viewer"] /\ ticket' = [ticket EXCEPT ![c] = t]
      /\ out' = WsSend(out, h, <<Open(t)>>) /\ turn' = c
      /\ asked' = [asked EXCEPT ![c] = owner[i]] /\ issued' = issued \cup {t}
      /\ UNCHANGED <<dead, peer, pending, nread, got, partner, proved, known>>
  BY <1>0 DEF ViewerRequest, CanRequest, Fresh
<1>2. /\ out \in [Conn -> Seq(Frame)] /\ kind \in [Conn -> Kinds]
      /\ ticket \in [Conn -> Ticket \cup {NoTicket}] /\ asked \in [Conn -> Key \cup {NoKey}]
      /\ known \in [Key -> SUBSET Ticket]
  BY <1>1 DEF FInv, IInv, TypeOK
<1>3. kind[h] = "HostCtl" /\ h # c /\ proved[h] = owner[i] /\ peer[c] = NoConn /\ out[c] = <<>>
  <2>1. kind[h] = "HostCtl" /\ proved[h] = owner[i]
    BY <1>0, <1>1 DEF FInv, IInv, Pointers, NoDanglingPointer, OwnerProved
  <2>. QED
    BY <1>1, <2>1, HttpFacts
<1>4. ASSUME NEW x \in Conn
      PROVE  /\ Added(out[x], out'[x])
             /\ x # h => out'[x] = out[x]
             /\ \A u : HasOpen(out'[x], u) => HasOpen(out[x], u) \/ (x = h /\ u = t)
  <2>. DEFINE f == Open(t)
  <2>1. out \in [Conn -> Seq(Frame)] /\ f \in Frame /\ f.type # "data"
    BY <1>2, FrameTypes DEF Open
  <2>4. out' = WsSend(out, h, <<f>>)
    BY <1>1
  <2>3. \A u : f = Open(u) => u = t
    BY DEF Open
  <2>. HIDE DEF f
  <2>2. /\ Added(out[x], WsSend(out, h, <<f>>)[x])
        /\ x # h => WsSend(out, h, <<f>>)[x] = out[x]
        /\ \A u : HasOpen(WsSend(out, h, <<f>>)[x], u) =>
             HasOpen(out[x], u) \/ (x = h /\ f = Open(u))
    BY <2>1, SendAdds, SMTT(40)
  <2>. QED
    BY <2>2, <2>3, <2>4
<1>5. kind'[c] = "Viewer"
      /\ \A x \in Conn : x # c => kind'[x] = kind[x] /\ ticket'[x] = ticket[x] /\ asked'[x] = asked[x]
  BY <1>1, <1>2
<1>6. PairedOnce' /\ PairedWithAskedHost' /\ Flow'
  BY <1>1, <1>3, <1>4, <1>5, OthersKept
<1>7. ASSUME NEW u \in issued, u \in Ticket, NEW k, AskedFrom(u, k) PROVE AskedFrom(u, k)'
  <2>1. \A v \in Conn : ticket'[v] = u => v # c /\ ticket[v] = u
    BY <1>1, <1>2, <1>5, <1>7
  <2>. QED
    BY <1>5, <1>7, <2>1 DEF AskedFrom
<1>8. AskedFrom(t, proved[h])'
  <2>1. ASSUME NEW v \in Conn, ticket'[v] = t PROVE v = c
    BY <1>1, <1>5, <2>1, RelayAssumption DEF FInv, IInv, Pointers, TicketsIssued
  <2>2. asked'[c] = owner[i] /\ proved'[h] = owner[i]
    BY <1>1, <1>2, <1>3
  <2>. QED
    BY <2>1, <2>2 DEF AskedFrom
<1>9. ASSUME NEW x \in Conn, NEW u \in Ticket, HasOpen(out'[x], u)
      PROVE  kind'[x] = "HostCtl" /\ u \in issued' /\ AskedFrom(u, proved[x])'
  <2>1. CASE x = h /\ u = t
    <3>1. kind'[h] = "HostCtl" /\ t \in issued'
      BY <1>1, <1>3, <1>5, <1>2
    <3>. QED
      BY <1>8, <2>1, <3>1
  <2>2. CASE HasOpen(out[x], u)
    <3>1. kind[x] = "HostCtl" /\ u \in issued /\ AskedFrom(u, proved[x])
      BY <2>2 DEF FInv, Forwarding, TicketsAreTold, HasOpen
    <3>. QED
      BY <1>1, <1>5, <1>7, <3>1
  <2>. QED
    BY <1>4, <1>9, <2>1, <2>2
<1>10. ASSUME NEW k \in Key, NEW u \in known'[k] PROVE u \in issued' /\ AskedFrom(u, k)'
  <2>1. u \in Ticket /\ u \in issued /\ AskedFrom(u, k)
    BY <1>1, <1>2 DEF FInv, Forwarding, TicketsAreTold
  <2>. QED
    BY <1>1, <1>7, <2>1
<1>11. TicketsAreTold'
  BY <1>9, <1>10 DEF TicketsAreTold, HasOpen
<1>. QED
  BY <1>6, <1>11 DEF Forwarding, Flow

\* A data channel gets the viewer whose ticket it names: what is known of the two.
LEMMA ClaimFacts ==
  ASSUME RelayAssumption, FInv, NEW c \in Conn, kind[c] = "Http", NEW i \in Id, NEW k \in Key,
         NEW t \in known[k] \cup {NoTicket}, NEW v, v = Claimable(i, k, t), v # NoConn
  PROVE  /\ v \in Conn /\ v # c /\ t \in Ticket /\ asked[v] = k
         /\ Live(v) /\ AwaitingHost(v) /\ ticket[c] = NoTicket
         /\ partner[v] = NoConn /\ partner[c] = NoConn /\ got[v] = 0 /\ got[c] = 0
         /\ out[c] = <<>> /\ pending[v] = [j \in 1..nread[v] |-> Data(v, j)] /\ nread[c] = 0
         /\ Len(pending[v]) = nread[v] /\ nread[v] \in Nat /\ nread[v] <= PendingCap
         /\ \A x \in Conn : partner[x] # c /\ peer[x] \notin {c, v}
<1>1. t \in Ticket /\ v = waiting[t] /\ v \in Conn
  BY DEF Claimable, FInv, IInv, TypeOK
<1>2. Live(v) /\ AwaitingHost(v) /\ ticket[v] = t
  BY <1>1 DEF FInv, IInv, Pointers, NoDanglingPointer
<1>3. v # c /\ t \in known[k] /\ peer[v] = NoConn
  BY <1>1, <1>2, RelayAssumption DEF AwaitingHost
<1>4. asked[v] = k
  BY <1>1, <1>2, <1>3 DEF FInv, Forwarding, TicketsAreTold, AskedFrom
<1>5. ticket[c] = NoTicket
  BY DEF FInv, IInv, Pointers, TicketsIssued
<1>6. partner[v] = NoConn /\ partner[c] = NoConn /\ \A x \in Conn : partner[x] # c
  BY <1>1, <1>2, RelayAssumption DEF FInv, Forwarding, PairedOnce
<1>7. got[v] = 0 /\ got[c] = 0 /\ out[c] = <<>> /\ nread[c] = 0
      /\ pending[v] = [j \in 1..nread[v] |-> Data(v, j)]
  BY <1>1, <1>2, <1>6 DEF FInv, Forwarding, Unpaired
<1>8. nread[v] \in Nat /\ Len(pending[v]) = nread[v] /\ nread[v] <= PendingCap
  BY <1>1, <1>2, SMTT(40) DEF FInv, IInv, TypeOK, Forwarding, NothingLost, MemoryBounded
<1>9. \A x \in Conn : peer[x] \notin {c, v}
  <2>1. peer[c] = NoConn
    BY HttpFacts
  <2>2. ASSUME NEW x \in Conn, peer[x] \in {c, v} PROVE FALSE
    <3>1. peer[x] # NoConn /\ peer[peer[x]] = x
      BY <1>1, <2>2, RelayAssumption DEF FInv, IInv, Pointers, PairedBothWays
    <3>. QED
      BY <1>3, <2>1, <2>2, <3>1, RelayAssumption
  <2>. QED
    BY <2>2
<1>. QED
  BY <1>1, <1>2, <1>3, <1>4, <1>5, <1>6, <1>7, <1>8, <1>9

\* A data channel is paired with its viewer, or refused.
LEMMA DataForwarding ==
  ASSUME RelayAssumption, FInv, IInv', NEW c \in Conn, NEW i \in Id, NEW k \in Key,
         NEW t \in Ticket \cup {NoTicket}, DataRequest(c, i, k, t)
  PROVE  Forwarding'
<1>1. PICK v : v = Claimable(i, k, t)
  OBVIOUS
<1>2. kind[c] = "Http" /\ ~dead[c] /\ t \in known[k] \cup {NoTicket}
  BY DEF DataRequest, CanRequest
<1>3. CASE v = NoConn
  BY <1>1, <1>3, QuietForwarding DEF DataRequest, HttpResponse, links
<1>4. CASE v # NoConn
  <2>1. /\ v \in Conn /\ v # c /\ t \in Ticket /\ asked[v] = k
        /\ Live(v) /\ AwaitingHost(v) /\ ticket[c] = NoTicket
        /\ partner[v] = NoConn /\ partner[c] = NoConn /\ got[v] = 0 /\ got[c] = 0
        /\ out[c] = <<>> /\ pending[v] = [j \in 1..nread[v] |-> Data(v, j)] /\ nread[c] = 0
        /\ Len(pending[v]) = nread[v] /\ nread[v] \in Nat /\ nread[v] <= PendingCap
        /\ \A x \in Conn : partner[x] # c /\ peer[x] \notin {c, v}
    BY <1>1, <1>2, <1>4, ClaimFacts
  <2>2. Pair(c, v, i, k, t)
    BY <1>1, <1>4 DEF DataRequest
  <2>3. /\ ticket' = [ticket EXCEPT ![v] = NoTicket] /\ kind' = [kind EXCEPT ![c] = "HostData"]
        /\ peer' = [peer EXCEPT ![c] = v, ![v] = c]
        /\ partner' = [partner EXCEPT ![c] = v, ![v] = c]
        /\ proved' = [proved EXCEPT ![c] = k] /\ turn' = c
        /\ UNCHANGED <<dead, nread, got, asked, known, issued>>
    BY <2>2 DEF Pair
  <2>4. /\ kind \in [Conn -> Kinds] /\ peer \in [Conn -> Conn \cup {NoConn}]
        /\ partner \in [Conn -> Conn \cup {NoConn}] /\ out \in [Conn -> Seq(Frame)]
        /\ pending \in [Conn -> Seq(Frame)] /\ ticket \in [Conn -> Ticket \cup {NoTicket}]
        /\ proved \in [Conn -> Key \cup {NoKey}]
    BY DEF FInv, IInv, TypeOK
  <2>5. /\ kind'[c] = "HostData" /\ kind'[v] = "Viewer" /\ peer'[c] = v /\ peer'[v] = c
        /\ partner'[c] = v /\ partner'[v] = c /\ proved'[c] = k /\ proved'[v] = proved[v]
        /\ ticket'[c] = NoTicket /\ ticket'[v] = NoTicket
    BY <2>1, <2>3, <2>4 DEF AwaitingHost
  <2>6. \A x \in Conn \ {c, v} : /\ kind'[x] = kind[x] /\ peer'[x] = peer[x] /\ ticket'[x] = ticket[x]
                                 /\ partner'[x] = partner[x] /\ proved'[x] = proved[x]
    BY <2>3, <2>4
  <2>7. /\ out'[c] = pending[v] /\ pending'[v] = <<>>
        /\ \A x \in Conn \ {c} : out'[x] = out[x]
        /\ \A x \in Conn \ {v} : pending'[x] = pending[x]
    <3>1. out' = [out EXCEPT ![c] = @ \o pending[v]] /\ pending' = [pending EXCEPT ![v] = <<>>]
      BY <1>2, <2>2 DEF Pair, WsSend
    <3>2. \A x \in Conn \ {c} : out'[x] = out[x]
      BY <2>4, <3>1
    <3>3. out'[c] = out[c] \o pending[v]
      BY <2>4, <3>1
    <3>4. pending[v] \in Seq(Frame)
      BY <2>1, <2>4
    <3>5. <<>> \o pending[v] = pending[v]
      BY <3>4
    <3>6. pending'[v] = <<>> /\ \A x \in Conn \ {v} : pending'[x] = pending[x]
      BY <2>1, <2>4, <3>1
    <3>. QED
      BY <2>1, <3>2, <3>3, <3>5, <3>6
  <2>8. out'[c] \in Seq(Frame) /\ Total(out'[c]) = nread[v] /\ InOrder(out'[c], v, 0)
        /\ \A u : ~HasOpen(out'[c], u)
    <3>. DEFINE e == <<>>
    <3>1. e \in Seq(Frame) /\ Total(e) = 0 /\ InOrder(e, v, 0) /\ \A u : ~HasOpen(e, u)
      BY CountStep DEF Total, InOrder, HasOpen
    <3>2. /\ out'[c] \in Seq(Frame) /\ e \o out'[c] = out'[c] /\ Len(out'[c]) = nread[v]
          /\ \A j \in 1..Len(out'[c]) : out'[c][j] = Data(v, j)
      <4>1. PICK b : b = pending[v]
        OBVIOUS
      <4>2. b \in Seq(Frame) /\ out'[c] = b /\ Len(b) = nread[v] /\ nread[v] \in Nat
        BY <2>1, <2>4, <2>7, <4>1
      <4>3. \A j \in 1..Len(b) : b[j] = Data(v, j)
        BY <2>1, <4>1
      <4>. QED
        BY <4>2, <4>3
    <3>. HIDE DEF e
    <3>3. PICK z \in Nat : z = 0
      OBVIOUS
    <3>4. PICK b : b = out'[c]
      OBVIOUS
    <3>5. /\ b \in Seq(Frame) /\ e \o b = b /\ Len(b) = nread[v]
          /\ \A j \in 1..Len(b) : b[j] = Data(v, z + j)
      <4>1. \A j \in 1..Len(b) : z + j = j
        BY <3>2, <3>3, <3>4
      <4>. QED
        BY <3>2, <3>4, <4>1
    <3>6. InOrder(e, v, z) /\ z + Total(e) = z /\ v \in Conn
      BY <2>1, <3>1, <3>3
    <3>7. InOrder(b, v, z) /\ Total(b) = nread[v]
      <4>1. InOrder(e \o b, v, z) /\ Total(e \o b) = Total(e) + Len(b)
        <5>1. e \in Seq(Frame) /\ b \in Seq(Frame)
          BY <3>1, <3>5
        <5>2. \A j \in 1..Len(b) : b[j] = Data(v, z + j)
          BY <3>5
        <5>. QED
          BY <3>6, <5>1, <5>2, BatchKeeps
      <4>. QED
        BY <2>1, <3>1, <3>5, <4>1
    <3>8. ASSUME NEW u, HasOpen(b, u) PROVE FALSE
      <4>1. HasOpen(e \o b, u)
        BY <3>5, <3>8
      <4>. QED
        BY <3>1, <3>5, <4>1, BatchOpens
    <3>. QED
      BY <3>2, <3>3, <3>4, <3>7, <3>8
  <2>9. Total(out[v]) = 0 /\ \A p, g : InOrder(out[v], p, g)
    BY <2>1, NoMessages DEF FInv, IInv, Forwarding
  <2>10. TicketsAreTold'
    <3>1. \A x \in Conn, u \in Ticket : HasOpen(out'[x], u) =>
            HasOpen(out[x], u) /\ kind'[x] = kind[x] /\ proved'[x] = proved[x]
      BY <2>1, <2>3, <2>4, <2>7, <2>8
    <3>2. (\A x \in Conn : ticket'[x] \in {ticket[x], NoTicket})
          /\ (\A q \in Key : \A u \in known'[q] : u \in known[q])
      BY <2>3, <2>5, <2>6
    <3>. QED
      BY <2>3, <3>1, <3>2, TicketsKept DEF FInv, IInv, Forwarding
  <2>a. v \in Conn /\ v # c /\ kind[v] = "Viewer" /\ \A x \in Conn : partner[x] # c
    BY <2>1 DEF AwaitingHost
  <2>b. \A x \in Conn : partner[x] # NoConn => partner[x] \in Conn
    BY <2>4
  <2>c. \A x \in Conn : kind'[x] \in {"new", "Http"} => kind[x] \in {"new", "Http"} /\ x \notin {c, v}
    BY <2>5, <2>6
  <2>11. PairedOnce'
    <3>1. ASSUME NEW x \in Conn, x \notin {c, v}
          PROVE  /\ partner'[x] # NoConn => /\ ticket'[x] = NoTicket
                                           /\ kind'[x] \notin {"new", "Http"}
                                           /\ kind'[partner'[x]] \notin {"new", "Http"}
                 /\ peer'[x] # NoConn => partner'[x] = peer'[x]
      <4>1. partner'[x] = partner[x] /\ peer'[x] = peer[x] /\ ticket'[x] = ticket[x]
        BY <2>6, <3>1
      <4>2. /\ partner[x] # NoConn => /\ ticket[x] = NoTicket
                                      /\ kind[x] \notin {"new", "Http"}
                                      /\ kind[partner[x]] \notin {"new", "Http"}
            /\ peer[x] # NoConn => partner[x] = peer[x]
        BY DEF FInv, Forwarding, PairedOnce
      <4>. QED
        BY <2>b, <2>c, <4>1, <4>2
    <3>2. /\ ticket'[c] = NoTicket /\ ticket'[v] = NoTicket
          /\ kind'[c] \notin {"new", "Http"} /\ kind'[v] \notin {"new", "Http"}
          /\ partner'[c] = peer'[c] /\ partner'[v] = peer'[v]
          /\ partner'[c] = v /\ partner'[v] = c
      BY <2>5
    <3>. QED
      BY <3>1, <3>2 DEF PairedOnce
  <2>12. PairedWithAskedHost'
    <3>1. ASSUME NEW x \in Conn, kind'[x] = "Viewer", partner'[x] # NoConn
          PROVE  proved'[partner'[x]] = asked'[x]
      <4>1. CASE x = v
        BY <2>1, <2>3, <2>5, <4>1
      <4>2. CASE x # v
        <5>1. x \notin {c, v}
          BY <2>5, <3>1, <4>2
        <5>2. partner'[x] = partner[x] /\ kind[x] = "Viewer" /\ partner[x] \in Conn \ {c}
          BY <2>6, <2>a, <2>b, <3>1, <5>1
        <5>3. proved[partner[x]] = asked[x]
          BY <3>1, <5>2 DEF FInv, Forwarding, PairedWithAskedHost
        <5>4. proved'[partner[x]] = proved[partner[x]]
          BY <2>5, <2>6, <5>2
        <5>. QED
          BY <2>3, <5>2, <5>3, <5>4
      <4>. QED
        BY <4>1, <4>2
    <3>. QED
      BY <3>1 DEF PairedWithAskedHost
  <2>13. Unpaired'
    <3>1. ASSUME NEW x \in Conn, kind'[x] \in {"new", "Http"}
          PROVE  out'[x] = <<>> /\ pending'[x] = <<>> /\ nread'[x] = 0
      BY <2>3, <2>7, <2>c, <3>1 DEF FInv, Forwarding, Unpaired
    <3>2. ASSUME NEW x \in Conn, partner'[x] = NoConn PROVE got'[x] = 0
      <4>1. x \notin {c, v}
        BY <2>5, <2>a, <3>2, RelayAssumption
      <4>. QED
        BY <2>3, <2>6, <3>2, <4>1 DEF FInv, Forwarding, Unpaired
    <3>3. ASSUME NEW x \in Conn, Live(x)', AwaitingHost(x)'
          PROVE  pending'[x] = [j \in 1..nread'[x] |-> Data(x, j)]
      <4>1. x \notin {c, v}
        BY <2>5, <2>a, <3>3, RelayAssumption DEF AwaitingHost
      <4>2. Live(x) /\ AwaitingHost(x) /\ pending'[x] = pending[x] /\ nread'[x] = nread[x]
        BY <2>3, <2>6, <2>7, <3>3, <4>1 DEF Live, AwaitingHost
      <4>. QED
        BY <4>2 DEF FInv, Forwarding, Unpaired
    <3>. QED
      BY <3>1, <3>2, <3>3 DEF Unpaired
  <2>14. QueuesBounded'
    <3>1. ASSUME NEW x \in Conn, peer'[x] # NoConn PROVE Queued(x)' <= Backpressure + ReadBatch
      BY <2>1, <2>6, <2>7, <2>8, <2>9, <3>1, RelayAssumption
         DEF FInv, Forwarding, QueuesBounded, Queued, Total
    <3>2. turn' = c /\ peer'[c] = v /\ Queued(v)' = 0
      BY <2>1, <2>3, <2>5, <2>7, <2>9 DEF Queued, Total
    <3>. QED
      BY <3>1, <3>2 DEF QueuesBounded
  <2>15. ForwardedInOrder'
    <3>1. ASSUME NEW x \in Conn PROVE InOrder(out'[x], partner'[x], got'[x])
      <4>1. CASE x = c
        BY <2>1, <2>3, <2>5, <2>8, <4>1
      <4>2. CASE x = v
        BY <2>1, <2>7, <2>9, <4>2
      <4>3. CASE x \notin {c, v}
        <5>1. out'[x] = out[x] /\ partner'[x] = partner[x] /\ got'[x] = got[x]
          BY <2>3, <2>6, <2>7, <4>3
        <5>2. InOrder(out[x], partner[x], got[x])
          BY DEF FInv, Forwarding, ForwardedInOrder, InOrder
        <5>. QED
          BY <5>1, <5>2
      <4>. QED
        BY <4>1, <4>2, <4>3
    <3>. QED
      BY <3>1 DEF ForwardedInOrder, InOrder
  <2>16. NothingLost'
    <3>1. ASSUME NEW x \in Conn, Live(x)', peer'[x] # NoConn
          PROVE  got'[peer'[x]] + Queued(peer[x])' = nread'[x]
      <4>1. CASE x = c
        BY <2>1, <2>3, <2>5, <2>7, <2>9, <4>1 DEF Queued, Total
      <4>2. CASE x = v
        BY <2>1, <2>3, <2>5, <2>8, <4>2 DEF Queued, Total
      <4>3. CASE x \notin {c, v}
        <5>1. peer'[x] = peer[x] /\ peer[x] \in Conn \ {c, v} /\ Live(x)
          BY <2>1, <2>3, <2>4, <2>6, <3>1, <4>3 DEF Live
        <5>2. got[peer[x]] + Queued(peer[x]) = nread[x]
          BY <3>1, <5>1 DEF FInv, Forwarding, NothingLost
        <5>. QED
          BY <2>3, <2>7, <5>1, <5>2 DEF Queued
      <4>. QED
        BY <4>1, <4>2, <4>3
    <3>2. ASSUME NEW x \in Conn, Live(x)', AwaitingHost(x)' PROVE Len(pending'[x]) = nread'[x]
      <4>1. x \notin {c, v}
        BY <2>1, <2>5, <3>2, RelayAssumption DEF AwaitingHost
      <4>2. Live(x) /\ AwaitingHost(x) /\ pending'[x] = pending[x]
        BY <2>3, <2>6, <2>7, <3>2, <4>1 DEF Live, AwaitingHost
      <4>. QED
        BY <2>3, <4>2 DEF FInv, Forwarding, NothingLost
    <3>. QED
      BY <3>1, <3>2 DEF NothingLost
  <2>17. MemoryBounded'
    <3>1. ASSUME NEW x \in Conn
          PROVE  Queued(x)' <= Backpressure + 2 * ReadBatch /\ Len(pending'[x]) <= PendingCap
      <4>1. Queued(x)' <= Backpressure + 2 * ReadBatch
        BY <2>1, <2>7, <2>8, RelayAssumption, SMTT(40) DEF FInv, Forwarding, MemoryBounded, Queued, Total
      <4>2. Len(pending'[x]) <= PendingCap
        <5>1. Len(pending[x]) <= PendingCap /\ Len(<<>>) = 0 /\ PendingCap \in Nat
          BY RelayAssumption DEF FInv, Forwarding, MemoryBounded
        <5>. QED
          BY <2>7, <5>1
      <4>. QED
        BY <4>1, <4>2
    <3>. QED
      BY <3>1 DEF MemoryBounded
  <2>. QED
    BY <2>10, <2>11, <2>12, <2>13, <2>14, <2>15, <2>16, <2>17 DEF Forwarding
<1>. QED
  BY <1>3, <1>4

-----------------------------------------------------------------------------
(* Reading messages.                                                       *)

\* There are no more messages in a queue than frames.
LEMMA CountWithin ==
  ASSUME NEW s \in Seq(Frame)
  PROVE  Total(s) <= Len(s)
<1>. DEFINE D == {h \in 1..Len(s) : s[h].type = "data"}
<1>1. IsFiniteSet(1..Len(s)) /\ Cardinality(1..Len(s)) = Len(s)
  <2>1. Len(s) \in Nat
    OBVIOUS
  <2>2. IsFiniteSet(1..Len(s))
    BY <2>1, FS_Interval
  <2>3. Cardinality(1..Len(s)) = IF 1 > Len(s) THEN 0 ELSE Len(s) - 1 + 1
    BY <2>1, FS_Interval
  <2>. QED
    BY <2>1, <2>2, <2>3
<1>2. D \in SUBSET (1..Len(s))
  OBVIOUS
<1>3. Cardinality(D) <= Cardinality(1..Len(s))
  BY <1>1, <1>2, FS_Subset
<1>. QED
  BY <1>1, <1>3 DEF Total, DataAmong

\* What one read has forwarded: a batch behind what was queued for the peer.
LEMMA ForwardedFacts ==
  ASSUME RelayAssumption, FInv, NEW c \in Conn, Live(c), kind[c] \in Upgraded,
         NEW n \in 0..ReadBatch
  PROVE  /\ Forwarded(c, n) \in [Conn -> Seq(Frame)] /\ peer[c] # c
         /\ \A x \in Conn : x # peer[c] => Forwarded(c, n)[x] = out[x]
         /\ peer[c] # NoConn =>
              /\ peer[c] \in Conn /\ kind[c] # "HostCtl" /\ kind[peer[c]] \in Upgraded
              /\ peer[peer[c]] = c /\ partner[peer[c]] = c
              /\ InOrder(Forwarded(c, n)[peer[c]], c, got[peer[c]])
              /\ Total(Forwarded(c, n)[peer[c]]) = Total(out[peer[c]]) + n
              /\ got[peer[c]] + Total(out[peer[c]]) = nread[c]
              /\ Total(out[peer[c]]) \in Nat
         /\ \A x \in Conn : \A t : HasOpen(Forwarded(c, n)[x], t) => HasOpen(out[x], t)
<1>0. n \in Nat /\ TypeOK
  BY RelayAssumption DEF FInv, IInv
<1>1. /\ Forwarded(c, n) \in [Conn -> Seq(Frame)] /\ Batch(c, n) \in Seq(Frame)
      /\ out \in [Conn -> Seq(Frame)] /\ nread[c] \in Nat
  BY <1>0, BatchType DEF TypeOK
<1>2. CASE peer[c] = NoConn
  BY <1>1, <1>2, RelayAssumption DEF Forwarded
<1>3. CASE peer[c] # NoConn
  <2>1. PICK p \in Conn : p = peer[c]
    BY <1>0, <1>3 DEF TypeOK
  <2>2. /\ peer[p] = c /\ {kind[c], kind[p]} = {"Viewer", "HostData"} /\ Live(p)
    BY <1>3, <2>1 DEF FInv, IInv, Pointers, PairedBothWays, NoDanglingPointer
  <2>3. p # c /\ kind[c] # "HostCtl" /\ kind[p] \in Upgraded /\ partner[p] = c
    <3>1. peer[p] # NoConn
      BY <2>2, RelayAssumption
    <3>2. partner[p] = c
      BY <2>2, <3>1 DEF FInv, Forwarding, PairedOnce
    <3>. QED
      BY <2>2, <3>2 DEF Upgraded
  <2>4. Forwarded(c, n) = [out EXCEPT ![p] = @ \o Batch(c, n)]
    BY <1>3, <2>1, <2>2 DEF Forwarded, WsSend, Live
  <2>5. PICK b : b = Batch(c, n)
    OBVIOUS
  <2>6. b \in Seq(Frame) /\ Len(b) = n /\ \A j \in 1..Len(b) : b[j] = Data(c, nread[c] + j)
    BY <1>0, <1>1, <2>5 DEF Batch
  <2>7. /\ Forwarded(c, n)[p] = out[p] \o b
        /\ \A x \in Conn : x # p => Forwarded(c, n)[x] = out[x]
    BY <1>1, <2>4, <2>5
  <2>8. got[p] + Total(out[p]) = nread[c] /\ got[p] \in Nat /\ out[p] \in Seq(Frame)
    BY <1>0, <1>3, <2>1 DEF FInv, Forwarding, NothingLost, Queued, Total, TypeOK
  <2>9. InOrder(out[p], c, got[p])
    BY <2>3 DEF FInv, Forwarding, ForwardedInOrder, InOrder
  <2>10. InOrder(out[p] \o b, c, got[p]) /\ Total(out[p] \o b) = Total(out[p]) + n
    <3>1. PICK m \in Nat : m = nread[c]
      BY <1>1
    <3>2. PICK s \in Seq(Frame) : s = out[p]
      BY <2>8
    <3>3. \A j \in 1..Len(b) : b[j] = Data(c, m + j)
      BY <2>6, <3>1
    <3>4. PICK g \in Nat : g = got[p]
      BY <2>8
    <3>5. InOrder(s, c, g) /\ g + Total(s) = m
      BY <2>8, <2>9, <3>1, <3>2, <3>4
    <3>6. InOrder(s \o b, c, g) /\ Total(s \o b) = Total(s) + Len(b)
      BY <2>6, <3>3, <3>5, BatchKeeps
    <3>. QED
      BY <2>6, <3>2, <3>4, <3>6
  <2>11. ASSUME NEW t, HasOpen(out[p] \o b, t) PROVE HasOpen(out[p], t)
    <3>1. PICK m : m = nread[c]
      OBVIOUS
    <3>2. PICK s \in Seq(Frame) : s = out[p]
      BY <2>8
    <3>3. b \in Seq(Frame) /\ HasOpen(s \o b, t)
      BY <2>6, <2>11, <3>2
    <3>4. \A j \in 1..Len(b) : b[j] = Data(c, m + j)
      BY <2>6, <3>1
    <3>5. HasOpen(s, t)
      BY <3>3, <3>4, BatchOpens
    <3>. QED
      BY <3>2, <3>5
  <2>12. Total(out[p]) \in Nat
    BY <2>8, CountStep DEF Total
  <2>. QED
    BY <1>1, <2>1, <2>2, <2>3, <2>7, <2>8, <2>10, <2>11, <2>12
<1>. QED
  BY <1>2, <1>3

\* Beyond what is forwarded, a read queues CLOSE frames only.
LEMMA HandleAdds ==
  ASSUME RelayAssumption, FInv, NEW c \in Conn, Live(c), kind[c] \in Upgraded,
         NEW n \in 0..ReadBatch, NEW e, HandleMessages(c, n, e), NEW x \in Conn
  PROVE  /\ Added(Forwarded(c, n)[x], out'[x])
         /\ kind[x] \in {"new", "Http"} => out'[x] = Forwarded(c, n)[x]
         /\ \A t : HasOpen(out'[x], t) => HasOpen(Forwarded(c, n)[x], t)
         /\ peer'[x] \in {peer[x], NoConn} /\ (dead[x] => dead'[x])
         /\ e = "lost" => peer'[c] = NoConn /\ (x = peer[c] => peer'[x] = NoConn)
         /\ Overflows(c, n) => dead'[c]
<1>1. PICK o \in [Conn -> Seq(Frame)] : o = Forwarded(c, n)
  BY ForwardedFacts
<1>2. peer[c] # c /\ (x = peer[c] => kind[x] \notin {"new", "Http"}) /\ peer[c] \in Conn \cup {NoConn}
  <2>1. peer[c] # c /\ (peer[c] # NoConn => kind[peer[c]] \in Upgraded)
    BY ForwardedFacts
  <2>. QED
    BY <2>1, RelayAssumption DEF Upgraded, FInv, IInv, TypeOK
<1>3. CASE Kill(c, Forwarded(c, n))
  <2>1. Kill(c, o)
    BY <1>1, <1>3
  <2>2. /\ Added(o[x], out'[x])
        /\ kind[x] \in {"new", "Http"} => out'[x] = o[x]
        /\ \A t : HasOpen(out'[x], t) => HasOpen(o[x], t)
        /\ peer'[x] \in {peer[x], NoConn} /\ (dead[x] => dead'[x])
    BY <2>1, KillAdds DEF FInv
  <2>3. dead'[c] /\ peer'[c] = NoConn /\ (x = peer[c] => peer'[x] = NoConn)
    BY <2>1 DEF Kill, Unlinked, FInv, IInv, TypeOK
  <2>. QED
    BY <1>1, <2>2, <2>3
<1>4. CASE /\ e = "close" /\ ~Overflows(c, n)
           /\ peer' = Unlinked(c)
           /\ out' = ToldPeer(WsSend(Forwarded(c, n), c, <<Close(1000)>>), c, 1000)
           /\ UNCHANGED <<dead, ctl, waiting>>
  <2>1. PICK code \in Nat : out' = ToldPeer(WsSend(o, c, <<Close(code)>>), c, code)
    <3>1. PICK code \in Nat : code = 1000
      OBVIOUS
    <3>2. out' = ToldPeer(WsSend(o, c, <<Close(1000)>>), c, 1000)
      BY <1>1, <1>4, ZenonT(40)
    <3>3. out' = ToldPeer(WsSend(o, c, <<Close(code)>>), c, code)
      BY <3>1, <3>2
    <3>. QED
      BY <3>3, Zenon
  <2>2. PICK f \in Frame : f = Close(code) /\ f.type # "data"
    BY CloseFacts
  <2>a. \A t : f # Open(t)
    BY <2>2, CloseFacts
  <2>b. TypeOK
    BY DEF FInv, IInv
  <2>c. f.type # "data"
    BY <2>2
  <2>3. PICK q \in [Conn -> Seq(Frame)] : q = WsSend(o, c, <<f>>)
    BY SendOneType
  <2>4. /\ Added(o[x], q[x])
        /\ x # c => q[x] = o[x]
        /\ \A t : HasOpen(q[x], t) => HasOpen(o[x], t) \/ (x = c /\ f = Open(t))
    <3>1. /\ Added(o[x], WsSend(o, c, <<f>>)[x])
          /\ x # c => WsSend(o, c, <<f>>)[x] = o[x]
          /\ \A t : HasOpen(WsSend(o, c, <<f>>)[x], t) =>
               HasOpen(o[x], t) \/ (x = c /\ f = Open(t))
      BY <2>c, SendAdds
    <3>. QED
      BY <2>3, <3>1
  <2>5. out' = ToldPeer(q, c, code)
    BY <2>1, <2>2, <2>3
  <2>6. /\ Added(q[x], out'[x])
        /\ x # peer[c] => out'[x] = q[x]
        /\ \A t : HasOpen(out'[x], t) => HasOpen(q[x], t)
    <3>1. /\ Added(q[x], ToldPeer(q, c, code)[x])
          /\ x # peer[c] => ToldPeer(q, c, code)[x] = q[x]
          /\ \A t : HasOpen(ToldPeer(q, c, code)[x], t) => HasOpen(q[x], t)
      BY <2>b, ToldPeerAdds
    <3>. QED
      BY <2>5, <3>1
  <2>7. Added(o[x], out'[x])
    BY <1>2, <2>4, <2>6
  <2>8. kind[x] \in {"new", "Http"} => out'[x] = o[x]
    BY <1>2, <2>4, <2>6 DEF Upgraded
  <2>9. \A t : HasOpen(out'[x], t) => HasOpen(o[x], t)
    BY <2>a, <2>4, <2>6
  <2>10. peer'[x] \in {peer[x], NoConn} /\ (dead[x] => dead'[x])
    BY <1>4 DEF Unlinked
  <2>11. e # "lost" /\ ~Overflows(c, n)
    BY <1>4
  <2>. QED
    BY <1>1, <2>7, <2>8, <2>9, <2>10, <2>11
<1>5. CASE /\ e = "none" /\ ~Overflows(c, n)
           /\ out' = Forwarded(c, n)
           /\ UNCHANGED <<dead, closing, peer, ctl, waiting>>
  BY <1>5 DEF Added
<1>. QED
  BY <1>3, <1>4, <1>5 DEF HandleMessages

\* A concatenation, index by index.
LEMMA Concatenated ==
  ASSUME NEW s \in Seq(Frame), NEW b \in Seq(Frame)
  PROVE  /\ s \o b \in Seq(Frame) /\ Len(s \o b) = Len(s) + Len(b)
         /\ \A j \in 1..Len(s) : (s \o b)[j] = s[j]
         /\ \A h \in 1..Len(b) : (s \o b)[Len(s) + h] = b[h]
OBVIOUS

\* The waiting viewer's messages after a read.
LEMMA PendingHandled ==
  ASSUME RelayAssumption, FInv, NEW c \in Conn, Live(c), AwaitingHost(c),
         NEW n \in 0..ReadBatch, NEW e, HandleMessages(c, n, e), ~Overflows(c, n)
  PROVE  /\ nread'[c] = nread[c] + n /\ nread'[c] \in Nat
         /\ pending'[c] = [j \in 1..nread'[c] |-> Data(c, j)]
         /\ nread'[c] <= PendingCap
<1>0. TypeOK /\ n \in Nat /\ nread[c] \in Nat /\ nread \in [Conn -> Nat]
      /\ pending \in [Conn -> Seq(Frame)] /\ PendingCap \in Nat
  <2>1. n \in Nat /\ PendingCap \in Nat
    BY RelayAssumption
  <2>2. TypeOK
    BY DEF FInv, IInv
  <2>3. nread \in [Conn -> Nat] /\ pending \in [Conn -> Seq(Frame)]
    BY <2>2 DEF TypeOK
  <2>. QED
    BY <2>1, <2>2, <2>3
<1>1. PICK b \in Seq(Frame) : b = Batch(c, n)
  BY <1>0, BatchType
<1>2. PICK m \in Nat : m = nread[c]
  BY <1>0
<1>3. PICK s \in Seq(Frame) : s = pending[c]
  BY <1>0
<1>4. s = [j \in 1..m |-> Data(c, j)]
  BY <1>2, <1>3 DEF FInv, Forwarding, Unpaired
<1>5. Len(b) = n /\ \A j \in 1..n : b[j] = Data(c, m + j)
  BY <1>0, <1>1, <1>2 DEF Batch
<1>6. s \o b = [j \in 1..(m + n) |-> Data(c, j)]
  <2>1. n \in Nat /\ Len(b) = n /\ Len(s) = m /\ \A j \in 1..m : s[j] = Data(c, j)
    BY <1>0, <1>4, <1>5
  <2>2. PICK u \in Seq(Frame) : u = s \o b
    BY Concatenated
  <2>3. /\ Len(u) = m + n
        /\ \A j \in 1..m : u[j] = s[j]
        /\ \A h \in 1..n : u[m + h] = b[h]
    <3>1. /\ Len(s \o b) = Len(s) + Len(b)
          /\ \A j \in 1..Len(s) : (s \o b)[j] = s[j]
          /\ \A h \in 1..Len(b) : (s \o b)[Len(s) + h] = b[h]
      BY Concatenated
    <3>2. Len(s) = m /\ Len(b) = n
      BY <2>1
    <3>. QED
      BY <2>2, <3>1, <3>2
  <2>4. ASSUME NEW j \in 1..(m + n) PROVE u[j] = Data(c, j)
    <3>1. CASE j \in 1..m
      BY <2>1, <2>3, <3>1
    <3>2. CASE j \notin 1..m
      <4>1. PICK h \in 1..n : j = m + h
        <5>1. j - m \in 1..n /\ j = m + (j - m)
          BY <2>1, <3>2
        <5>. QED
          BY <5>1
      <4>. QED
        BY <1>5, <2>3, <4>1
    <3>. QED
      BY <3>1, <3>2
  <2>5. u = [j \in 1..Len(u) |-> u[j]]
    OBVIOUS
  <2>6. [j \in 1..(m + n) |-> u[j]] = [j \in 1..(m + n) |-> Data(c, j)]
    BY <2>4
  <2>. QED
    BY <2>2, <2>3, <2>5, <2>6
<1>7. kind[c] # "HostCtl" /\ nread' = [nread EXCEPT ![c] = @ + n]
  BY DEF HandleMessages, AwaitingHost
<1>8. nread'[c] = m + n
  BY <1>0, <1>2, <1>7
<1>9. pending'[c] = s \o b
  BY <1>0, <1>1, <1>3 DEF HandleMessages
<1>10. Len(s) = m /\ Len(s) + n <= PendingCap
  <2>1. Len(s) = m
    BY <1>4
  <2>2. ~(Len(s) + n > PendingCap)
    BY <1>3 DEF Overflows
  <2>. QED
    BY <1>0, <2>1, <2>2
<1>. QED
  BY <1>0, <1>2, <1>6, <1>8, <1>9, <1>10

\* What handling the messages of one read does to the others' queues.
LEMMA HandleForwarding ==
  ASSUME RelayAssumption, FInv, IInv', NEW c \in Conn, Live(c), kind[c] \in Upgraded,
         NEW n \in 0..ReadBatch, NEW e, HandleMessages(c, n, e), turn' = NoConn,
         peer[c] # NoConn => Total(out[peer[c]]) <= Backpressure \/ e = "lost"
  PROVE  Forwarding'
<1>. DEFINE F == Forwarded(c, n)
<1>0. /\ n \in Nat /\ n <= ReadBatch /\ ReadBatch \in Nat /\ Backpressure \in Nat
      /\ PendingCap \in Nat /\ TypeOK
  BY RelayAssumption DEF FInv, IInv
<1>1. /\ F \in [Conn -> Seq(Frame)] /\ peer[c] # c
      /\ \A x \in Conn : x # peer[c] => F[x] = out[x]
      /\ peer[c] # NoConn =>
           /\ peer[c] \in Conn /\ kind[c] # "HostCtl" /\ kind[peer[c]] \in Upgraded
           /\ peer[peer[c]] = c /\ partner[peer[c]] = c
           /\ InOrder(F[peer[c]], c, got[peer[c]])
           /\ Total(F[peer[c]]) = Total(out[peer[c]]) + n
           /\ got[peer[c]] + Total(out[peer[c]]) = nread[c]
           /\ Total(out[peer[c]]) \in Nat
      /\ \A x \in Conn : \A t : HasOpen(F[x], t) => HasOpen(out[x], t)
  BY ForwardedFacts
<1>2. ASSUME NEW x \in Conn
      PROVE  /\ Added(F[x], out'[x])
             /\ kind[x] \in {"new", "Http"} => out'[x] = F[x]
             /\ \A t : HasOpen(out'[x], t) => HasOpen(F[x], t)
             /\ peer'[x] \in {peer[x], NoConn} /\ (dead[x] => dead'[x])
             /\ e = "lost" => peer'[c] = NoConn /\ (x = peer[c] => peer'[x] = NoConn)
             /\ Overflows(c, n) => dead'[c]
  BY HandleAdds
<1>. HIDE DEF F
<1>3. /\ UNCHANGED <<kind, id, ticket, got, partner, proved, asked, known, issued>>
      /\ nread' = IF kind[c] = "HostCtl" THEN nread ELSE [nread EXCEPT ![c] = @ + n]
      /\ \A x \in Conn : x # c => nread'[x] = nread[x] /\ pending'[x] = pending[x]
      /\ ~AwaitingHost(c) => pending' = pending
  BY <1>0 DEF HandleMessages, TypeOK
<1>4. ASSUME NEW x \in Conn
      PROVE  /\ Total(out'[x]) = Total(F[x]) /\ Total(F[x]) \in Nat /\ F[x] \in Seq(Frame)
             /\ \A p, g : InOrder(F[x], p, g) => InOrder(out'[x], p, g)
  <2>1. F[x] \in Seq(Frame) /\ Added(F[x], out'[x])
    BY <1>1, <1>2
  <2>. QED
    BY <2>1, AddedKeeps
<1>5. TicketsAreTold'
  BY <1>1, <1>2, <1>3, TicketsKept DEF FInv, IInv, Forwarding
<1>6. PairedOnce' /\ PairedWithAskedHost'
  BY <1>2, <1>3, PartnersKept DEF FInv, Forwarding
<1>7. ASSUME NEW x \in Conn, Live(x)', AwaitingHost(x)'
      PROVE  Live(x) /\ AwaitingHost(x) /\ (x = c => ~Overflows(c, n))
  <2>1. Live(x) /\ kind[x] = "Viewer" /\ ticket[x] # NoTicket
    BY <1>2, <1>3, <1>7 DEF Live, AwaitingHost, FInv, IInv, TypeOK
  <2>2. peer[x] = NoConn
    BY <2>1, RelayAssumption DEF FInv, Forwarding, PairedOnce
  <2>3. ~dead'[x]
    BY <1>7 DEF Live
  <2>. QED
    BY <1>2, <2>1, <2>2, <2>3 DEF AwaitingHost
<1>8. ASSUME NEW x \in Conn, Live(x)', AwaitingHost(x)'
      PROVE  pending'[x] = [j \in 1..nread'[x] |-> Data(x, j)] /\ nread'[x] \in Nat
  <2>1. CASE x = c
    BY <1>7, <1>8, <2>1, PendingHandled
  <2>2. CASE x # c
    BY <1>0, <1>3, <1>7, <1>8, <2>2 DEF FInv, Forwarding, Unpaired, TypeOK
  <2>. QED
    BY <2>1, <2>2
<1>9. Unpaired'
  <2>1. ASSUME NEW x \in Conn, kind'[x] \in {"new", "Http"}
        PROVE  out'[x] = <<>> /\ pending'[x] = <<>> /\ nread'[x] = 0
    <3>1. kind[x] \in {"new", "Http"} /\ x # c /\ (x = peer[c] => FALSE)
      BY <1>1, <1>3, <2>1, RelayAssumption DEF Upgraded
    <3>2. out'[x] = out[x] /\ pending'[x] = pending[x] /\ nread'[x] = nread[x]
      BY <1>1, <1>2, <1>3, <3>1
    <3>. QED
      BY <3>1, <3>2 DEF FInv, Forwarding, Unpaired
  <2>2. ASSUME NEW x \in Conn, partner'[x] = NoConn PROVE got'[x] = 0
    BY <1>3, <2>2 DEF FInv, Forwarding, Unpaired
  <2>. QED
    BY <1>8, <2>1, <2>2 DEF Unpaired
<1>10. QueuesBounded'
  <2>1. ASSUME NEW x \in Conn, peer'[x] # NoConn PROVE Queued(x)' <= Backpressure + ReadBatch
    <3>1. peer'[x] = peer[x]
      BY <1>2, <2>1
    <3>2. CASE x # peer[c]
      <4>1. Total(out'[x]) = Total(out[x])
        BY <1>1, <1>4, <3>2
      <4>. QED
        BY <2>1, <3>1, <4>1 DEF FInv, Forwarding, QueuesBounded, Queued, Total
    <3>3. CASE x = peer[c]
      <4>1. e # "lost" /\ peer[c] # NoConn
        BY <1>2, <2>1, <3>3, RelayAssumption
      <4>2. Total(out[x]) <= Backpressure /\ Total(out[x]) \in Nat /\ Total(out'[x]) = Total(out[x]) + n
        BY <1>1, <1>4, <3>3, <4>1
      <4>3. Total(out'[x]) <= Backpressure + ReadBatch
        BY <1>0, <4>2
      <4>. QED
        BY <4>3 DEF Queued, Total
    <3>. QED
      BY <3>2, <3>3
  <2>. QED
    BY <2>1 DEF QueuesBounded
<1>11. ForwardedInOrder'
  <2>1. ASSUME NEW x \in Conn PROVE InOrder(out'[x], partner'[x], got'[x])
    <3>1. CASE x # peer[c]
      <4>1. InOrder(F[x], partner[x], got[x])
        BY <1>1, <3>1 DEF FInv, Forwarding, ForwardedInOrder, InOrder
      <4>. QED
        BY <1>3, <1>4, <4>1
    <3>2. CASE x = peer[c]
      BY <1>1, <1>3, <1>4, <3>2, RelayAssumption
    <3>. QED
      BY <3>1, <3>2
  <2>. QED
    BY <2>1 DEF ForwardedInOrder, InOrder
<1>12. NothingLost'
  <2>1. ASSUME NEW x \in Conn, Live(x)', peer'[x] # NoConn
        PROVE  got'[peer'[x]] + Queued(peer[x])' = nread'[x]
    <3>1. peer'[x] = peer[x] /\ Live(x) /\ peer[x] \in Conn
      BY <1>0, <1>2, <1>3, <2>1, SMTT(40) DEF Live, TypeOK
    <3>2. CASE x = c
      <4>1. kind[c] # "HostCtl" /\ nread' = [nread EXCEPT ![c] = @ + n]
        BY <1>1, <1>3, <2>1, <3>1, <3>2
      <4>2. nread'[c] = nread[c] + n
        BY <1>0, <4>1 DEF TypeOK
      <4>3. /\ got[peer[c]] + Total(out[peer[c]]) = nread[c] /\ Total(out[peer[c]]) \in Nat
            /\ Total(out'[peer[c]]) = Total(out[peer[c]]) + n /\ got[peer[c]] \in Nat
        BY <1>0, <1>1, <1>4, <2>1, <3>1, <3>2 DEF TypeOK
      <4>4. got[peer[c]] + Total(out'[peer[c]]) = nread'[c]
        BY <1>0, <4>2, <4>3
      <4>. QED
        BY <1>3, <3>1, <3>2, <4>4 DEF Queued, Total
    <3>3. CASE x # c
      <4>1. peer[x] # peer[c]
        <5>1. peer[peer[x]] = x
          BY <2>1, <3>1 DEF FInv, IInv, Pointers, PairedBothWays
        <5>. QED
          BY <1>1, <2>1, <3>1, <3>3, <5>1
      <4>2. Total(out'[peer[x]]) = Total(out[peer[x]])
        BY <1>1, <1>4, <3>1, <4>1
      <4>3. got[peer[x]] + Total(out[peer[x]]) = nread[x]
        BY <2>1, <3>1 DEF FInv, Forwarding, NothingLost, Queued, Total
      <4>. QED
        BY <1>3, <3>1, <3>3, <4>2, <4>3 DEF Queued, Total
    <3>. QED
      BY <3>2, <3>3
  <2>2. ASSUME NEW x \in Conn, Live(x)', AwaitingHost(x)' PROVE Len(pending'[x]) = nread'[x]
    <3>1. pending'[x] = [j \in 1..nread'[x] |-> Data(x, j)] /\ nread'[x] \in Nat
      BY <1>8, <2>2
    <3>. QED
      BY <3>1
  <2>. QED
    BY <2>1, <2>2 DEF NothingLost
<1>13. MemoryBounded'
  <2>1. ASSUME NEW x \in Conn
        PROVE  Queued(x)' <= Backpressure + 2 * ReadBatch /\ Len(pending'[x]) <= PendingCap
    <3>1. Total(out'[x]) <= Backpressure + 2 * ReadBatch
      <4>1. CASE x # peer[c]
        <5>1. Total(out'[x]) = Total(out[x])
          BY <1>1, <1>4, <4>1
        <5>. QED
          BY <5>1 DEF FInv, Forwarding, MemoryBounded, Queued, Total
      <4>2. CASE x = peer[c]
        <5>1. peer[c] # NoConn /\ peer[x] # NoConn
          BY <1>1, <4>2, RelayAssumption
        <5>2. Total(out[x]) <= Backpressure + ReadBatch
          BY <5>1 DEF FInv, Forwarding, QueuesBounded, Queued, Total
        <5>3. Total(out'[x]) = Total(out[x]) + n /\ Total(out[x]) \in Nat
          BY <1>1, <1>4, <4>2, <5>1
        <5>. QED
          BY <1>0, <5>2, <5>3
      <4>. QED
        BY <4>1, <4>2
    <3>2. Len(pending[x]) <= PendingCap
      BY DEF FInv, Forwarding, MemoryBounded
    <3>3. CASE pending'[x] = pending[x]
      BY <3>1, <3>2, <3>3 DEF Queued, Total
    <3>4. CASE pending'[x] # pending[x]
      <4>1. x = c /\ AwaitingHost(c) /\ ~Overflows(c, n)
        BY <1>3, <3>4 DEF HandleMessages
      <4>2. /\ pending'[c] = [j \in 1..nread'[c] |-> Data(c, j)] /\ nread'[c] \in Nat
            /\ nread'[c] <= PendingCap
        BY <4>1, PendingHandled
      <4>3. Len(pending'[c]) = nread'[c]
        BY <4>2
      <4>. QED
        BY <3>1, <4>1, <4>2, <4>3 DEF Queued, Total
    <3>. QED
      BY <3>3, <3>4
  <2>. QED
    BY <2>1 DEF MemoryBounded
<1>. QED
  BY <1>5, <1>6, <1>9, <1>10, <1>11, <1>12, <1>13 DEF Forwarding

\* The rest of handle_http.
LEMMA PipelinedForwarding ==
  ASSUME RelayAssumption, FInv, IInv', NEW c \in Conn, NEW n \in 0..ReadBatch, Pipelined(c, n)
  PROVE  Forwarding'
<1>1. PICK e \in {"none", "close"} : HandleMessages(c, n, e)
  BY DEF Pipelined
<1>2. turn = c /\ Live(c) /\ turn' = NoConn
  BY DEF Pipelined
<1>3. kind[c] \in Upgraded
  BY <1>2, RelayAssumption DEF FInv, TurnUpgraded, Live
<1>4. peer[c] # NoConn => Total(out[peer[c]]) = 0
  BY <1>2, RelayAssumption DEF FInv, Forwarding, QueuesBounded, Queued, Total
<1>5. Backpressure \in Nat
  BY RelayAssumption
<1>6. peer[c] # NoConn => Total(out[peer[c]]) <= Backpressure \/ e = "lost"
  BY <1>4, <1>5
<1>. QED
  BY <1>1, <1>2, <1>3, <1>6, HandleForwarding

\* read_conn.
LEMMA ReceiveForwarding ==
  ASSUME RelayAssumption, FInv, IInv', NEW c \in Conn, NEW n \in 0..ReadBatch, NEW e,
         Receive(c, n, e)
  PROVE  Forwarding'
<1>1. /\ HandleMessages(c, n, e) /\ Live(c) /\ kind[c] \in Upgraded /\ turn' = NoConn
      /\ BackedUp(c) => e = "lost"
  BY DEF Receive, Idle
<1>2. ASSUME peer[c] # NoConn, e # "lost" PROVE Total(out[peer[c]]) <= Backpressure
  <2>1. PICK s \in Seq(Frame) : s = out[peer[c]]
    BY <1>2, ZenonT(40) DEF FInv, IInv, TypeOK
  <2>2. ~(Len(s) > Backpressure) /\ Backpressure \in Nat
    BY <1>1, <1>2, <2>1, RelayAssumption DEF BackedUp
  <2>3. Total(s) <= Len(s) /\ Total(s) \in Nat /\ Len(s) \in Nat
    BY CountWithin, CountStep DEF Total
  <2>. QED
    BY <2>1, <2>2, <2>3
<1>. QED
  BY <1>1, <1>2, HandleForwarding

\* Every step of the relay forwards what it should.
LEMMA ForwardStep ==
  ASSUME RelayAssumption, FInv, IInv', [Next]_vars
  PROVE  Forwarding'
<1>1. CASE UNCHANGED vars
  BY <1>1, QuietForwarding DEF vars, history
<1>2. ASSUME NEW c \in Conn, PlainRequest(c) PROVE Forwarding'
  BY <1>2, QuietForwarding DEF PlainRequest, HttpResponse, links
<1>3. ASSUME NEW c \in Conn, Disconnect(c) PROVE Forwarding'
  BY <1>3, KillForwarding DEF Disconnect
<1>4. ASSUME NEW c \in Conn, HttpTimeout(c) PROVE Forwarding'
  BY <1>4, KillForwarding DEF HttpTimeout
<1>5. ASSUME NEW c \in Conn, IdleTimeout(c) PROVE Forwarding'
  BY <1>5, KillForwarding DEF IdleTimeout
<1>. QED
  BY <1>1, <1>2, <1>3, <1>4, <1>5, AcceptForwarding, RefusedForwarding, ViewerForwarding,
     HostForwarding, DataForwarding, PipelinedForwarding, ReceiveForwarding, FlushForwarding,
     AnswerTimeoutForwarding, ReapForwarding DEF Next

\* The request being served is one of an upgraded connection.
LEMMA TurnStep ==
  ASSUME RelayAssumption, TypeOK, TurnUpgraded, [Next]_vars
  PROVE  TurnUpgraded'
<1>1. CASE UNCHANGED vars
  BY <1>1 DEF vars, TurnUpgraded
<1>2. ASSUME turn' = NoConn PROVE TurnUpgraded'
  BY <1>2 DEF TurnUpgraded
<1>3. ASSUME NEW c \in Conn, turn' = c, kind'[c] \in Upgraded PROVE TurnUpgraded'
  BY <1>3 DEF TurnUpgraded, Upgraded
<1>4. ASSUME NEW c \in Conn, NEW i \in Id, NEW k \in Key, HostRequest(c, i, k) PROVE TurnUpgraded'
  <2>1. turn' = NoConn \/ (turn' = c /\ kind'[c] \in Upgraded)
    BY <1>4 DEF HostRequest, CanRequest, Idle, TypeOK, Upgraded
  <2>. QED
    BY <1>2, <1>3, <2>1
<1>5. ASSUME NEW c \in Conn, NEW i \in Id, NEW k \in Key, NEW t \in Ticket \cup {NoTicket},
             DataRequest(c, i, k, t)
      PROVE  TurnUpgraded'
  <2>1. turn' = NoConn \/ (turn' = c /\ kind'[c] \in Upgraded)
    BY <1>5 DEF DataRequest, Pair, CanRequest, Idle, TypeOK, Upgraded
  <2>. QED
    BY <1>2, <1>3, <2>1
<1>6. ASSUME NEW c \in Conn, NEW i \in Id, NEW t \in Ticket, ViewerRequest(c, i, t)
      PROVE  TurnUpgraded'
  <2>1. turn' = c /\ kind'[c] \in Upgraded
    BY <1>6 DEF ViewerRequest, TypeOK, Upgraded
  <2>. QED
    BY <1>3, <2>1
<1>7. ASSUME NEW c \in Conn,
             \/ Accept(c) \/ PlainRequest(c) \/ \E i \in Id : ViewerRefused(c, i)
             \/ \E n \in 0..ReadBatch :
                  Pipelined(c, n) \/ \E e \in {"none", "close", "lost"} : Receive(c, n, e)
             \/ Disconnect(c) \/ Flush(c) \/ HttpTimeout(c) \/ AnswerTimeout(c) \/ IdleTimeout(c)
      PROVE  TurnUpgraded'
  <2>1. turn' = NoConn
    BY <1>7 DEF Accept, PlainRequest, ViewerRefused, Pipelined, Receive, Disconnect, Flush,
                HttpTimeout, AnswerTimeout, IdleTimeout, CanRequest, Idle
  <2>. QED
    BY <1>2, <2>1
<1>8. Reap => TurnUpgraded'
  BY <1>2 DEF Reap, Idle
<1>. QED
  BY <1>1, <1>4, <1>5, <1>6, <1>7, <1>8 DEF Next

\* Nothing is forwarded to begin with.
LEMMA ForwardInit == RelayAssumption /\ Init => Forwarding /\ TurnUpgraded
<1>. SUFFICES ASSUME RelayAssumption, Init PROVE Forwarding /\ TurnUpgraded
  OBVIOUS
<1>1. \A c \in Conn : Queued(c) = 0 /\ Len(out[c]) = 0
  BY CountStep DEF Init, Queued
<1>2. TicketsAreTold /\ PairedOnce /\ TurnUpgraded
  BY <1>1, RelayAssumption DEF Init, TicketsAreTold, PairedOnce, TurnUpgraded
<1>3. Unpaired
  BY DEF Init, Unpaired, Live, Upgraded, AwaitingHost
<1>4. QueuesBounded /\ PairedWithAskedHost /\ NothingLost
  BY <1>1, RelayAssumption DEF Init, QueuesBounded, PairedWithAskedHost, NothingLost, Live, Upgraded
<1>5. ForwardedInOrder
  BY <1>1 DEF Init, ForwardedInOrder
<1>6. MemoryBounded
  <2>1. Len(<<>>) <= PendingCap /\ 0 <= Backpressure + 2 * ReadBatch
    BY RelayAssumption
  <2>. QED
    BY <1>1, <2>1 DEF Init, MemoryBounded
<1>. QED
  BY <1>2, <1>3, <1>4, <1>5, <1>6 DEF Forwarding

\* The invariant of the relay with what it forwards.
LEMMA FInductive == Spec => []FInv
<1>1. Init /\ IInv => FInv
  BY ForwardInit, RelayAssumption DEF FInv
<1>2. FInv /\ IInv' /\ [Next]_vars => FInv'
  BY ForwardStep, TurnStep, RelayAssumption DEF FInv, IInv
<1>. QED
  BY <1>1, <1>2, Inductive, PTL DEF Spec

\* A viewer only ever talks to the host that owned the ID when it asked for it,
\* whichever hosts came and went meanwhile (the tickets of handle_http).
THEOREM ViewersMeetTheirHost == Spec => []PairedWithAskedHost
<1>1. FInv => PairedWithAskedHost
  BY DEF FInv, Forwarding
<1>. QED
  BY <1>1, FInductive, PTL

\* What a socket takes are the messages of the one connection it was paired
\* with, in order, none twice and none skipped (read_conn, handle_http, flush).
THEOREM ForwardingIsInOrder == Spec => []ForwardedInOrder
<1>1. FInv => ForwardedInOrder
  BY DEF FInv, Forwarding
<1>. QED
  BY <1>1, FInductive, PTL

\* While both ends of a pairing stay, every message read from one was taken by
\* the other's socket, is queued for it, or waits for the pairing.
THEOREM NoMessageIsLost == Spec => []NothingLost
<1>1. FInv => NothingLost
  BY DEF FInv, Forwarding
<1>. QED
  BY <1>1, FInductive, PTL

\* The queues stay bounded, however slowly a client reads (kBackpressure).
THEOREM QueuesStayBounded == Spec => []MemoryBounded
<1>1. FInv => MemoryBounded
  BY DEF FInv, Forwarding
<1>. QED
  BY <1>1, FInductive, PTL
=============================================================================
