---------------------------- MODULE HostSession ----------------------------
(***************************************************************************)
(* The host's connections (host/server.cpp, class Server): accepting them, *)
(* the handshake, guessing protection, the viewers in session and what     *)
(* they may do to the computer's input, the operator's commands, and the   *)
(* reaping of dead connections at the end of each turn of the event loop.  *)
(*                                                                         *)
(* One thread runs the loop.  An action is one message handled, one        *)
(* command, one timer or one pass over the dead; they are interleaved      *)
(* freely, which includes the order of the loop.  A member of Conn is one  *)
(* Conn object: accepted once, freed once.                                 *)
(*                                                                         *)
(* Abstracted: cryptography (an AUTH message proves the password it was    *)
(* made from, or none), clocks (a timer may fire whenever its other        *)
(* conditions hold), the connection to the relay (a channel it asks for    *)
(* simply opens), and messages that change none of this state.             *)
(***************************************************************************)
EXTENDS Naturals, FiniteSets

CONSTANTS
  Conn, Nobody,   \* connection objects; no connection
  Addr,           \* Conn::addr
  Input,          \* keys and mouse buttons
  Password, None, \* passwords; a MAC made from no password of the host
  ViewOnlyDefault,\* values of cfg_.view_only to consider
  MaxViewers,     \* cfg_.max_viewers
  AcceptCap,      \* max_viewers * 2 + 16
  RelayedCap,     \* max_viewers * 2
  LockAt,         \* failures that lock an address out (5 in the code)
  RecentLimit,    \* failures in a minute that stop all logins (30)
  MaxFailures,    \* bound: failures of an address
  MaxCommands     \* bound: commands of the operator

ASSUME HostAssumption ==
  /\ ViewOnlyDefault \subseteq BOOLEAN /\ ViewOnlyDefault # {}
  /\ Nobody \notin Conn /\ None \notin Password
  /\ {MaxViewers, AcceptCap, RelayedCap, RecentLimit, MaxFailures, MaxCommands} \subseteq Nat
  /\ LockAt \in Nat \ {0}

VARIABLES
  state,      \* Conn::state, or "new" before and "freed" after its life
  dead,       \* Conn::dead
  closing,    \* Conn::close_after_flush
  unsent,     \* Conn::pending() > 0
  relayed,    \* Conn::client_ws
  addr,       \* Conn::addr
  named,      \* Conn::name is not empty
  viewOnly,   \* Conn::view_only
  sentInput,  \* Conn::sent_input
  failures,   \* failures_[addr].count
  locked,     \* failures_[addr].until_us is in the future
  recent,     \* entries of recent_failures_ younger than a minute
  password,   \* cfg_.password
  roster,     \* the last VIEWERS list queued for a connection
  (* the computer, and history read by no guard *)
  holder,     \* who pressed the inputs that are down
  expired,    \* how often an address's lockout has run out since its last login
  commands    \* commands given

conns == <<state, dead, closing, unsent, named, viewOnly, sentInput, roster>>
guard == <<failures, locked, recent, expired>>
vars == <<state, dead, closing, unsent, relayed, addr, named, viewOnly, sentInput,
          failures, locked, recent, password, roster, holder, expired, commands>>

Exists(c) == state[c] \notin {"new", "freed"}
Live(c) == Exists(c) /\ ~dead[c]
Open == {c \in Conn : Exists(c)}
Active == {c \in Conn : state[c] = "Active" /\ ~dead[c]}
Down == {k \in Input : holder[k] # Nobody}

Init ==
  /\ state = [c \in Conn |-> "new"]
  /\ dead = [c \in Conn |-> FALSE]
  /\ closing = [c \in Conn |-> FALSE]
  /\ unsent = [c \in Conn |-> FALSE]
  /\ relayed = [c \in Conn |-> FALSE]
  /\ addr \in [Conn -> Addr]
  /\ named = [c \in Conn |-> FALSE]
  /\ viewOnly = [c \in Conn |-> FALSE]
  /\ sentInput = [c \in Conn |-> FALSE]
  /\ failures = [a \in Addr |-> 0]
  /\ locked = [a \in Addr |-> FALSE]
  /\ recent = 0
  /\ password \in Password
  /\ roster = [c \in Conn |-> {}]
  /\ holder = [k \in Input |-> Nobody]
  /\ expired = [a \in Addr |-> 0]
  /\ commands = 0

-----------------------------------------------------------------------------
(* Connections.                                                            *)

\* The operators whose comment says "mutant" are wrong on purpose: each is the
\* operator below it with a bug that some property rules out.

\* accept_new: sockets beyond the cap are closed at once.
Accept(c) ==
  /\ state[c] = "new"
  /\ Cardinality(Open) < AcceptCap
  /\ state' = [state EXCEPT ![c] = "Http"]
  /\ UNCHANGED <<dead, closing, unsent, relayed, addr, named, viewOnly, sentInput, guard,
                 password, roster, holder, commands>>

\* Data channels count against the relay's share until they are dead.
RoomForRelayed == Cardinality({c \in Open : relayed[c] /\ ~dead[c]}) < RelayedCap

\* "open TICKET IP" from the relay, up to the end of open_relay_conn.
OpenRelayed(c) ==
  /\ state[c] = "new"
  /\ RoomForRelayed
  /\ state' = [state EXCEPT ![c] = "RelayUpgrade"]
  /\ relayed' = [relayed EXCEPT ![c] = TRUE]
  /\ unsent' = [unsent EXCEPT ![c] = TRUE]
  /\ UNCHANGED <<dead, closing, addr, named, viewOnly, sentInput, guard, password,
                 roster, holder, commands>>

\* handle_http and finish_relay_upgrade turn a connection into a WebSocket ...
Upgrade(c) ==
  /\ Live(c) /\ state[c] \in {"Http", "RelayUpgrade"}
  /\ state' = [state EXCEPT ![c] = "Hello"]
  /\ unsent' = [unsent EXCEPT ![c] = unsent[c] \/ state[c] = "Http"]
  /\ UNCHANGED <<dead, closing, relayed, addr, named, viewOnly, sentInput, guard,
                 password, roster, holder, commands>>

\* ... or answer with a page and hang up once it is sent.
AnswerPage(c) ==
  /\ Live(c) /\ state[c] = "Http"
  /\ closing' = [closing EXCEPT ![c] = TRUE]
  /\ unsent' = [unsent EXCEPT ![c] = TRUE]
  /\ UNCHANGED <<state, dead, relayed, addr, named, viewOnly, sentInput, guard, password,
                 roster, holder, commands>>

\* Every reason to give up on a connection at once: recv or send failed, a
\* protocol error, a message out of place, a refused relay channel.  A read
\* that finds a connection Closing tests a result that was never set, so it
\* may come here too.
Fail(c) ==
  /\ Live(c)
  /\ dead' = [dead EXCEPT ![c] = TRUE]
  /\ UNCHANGED <<state, closing, unsent, relayed, addr, named, viewOnly, sentInput, guard,
                 password, roster, holder, commands>>

\* flush: the socket takes what is queued (when it takes part, nothing the
\* model sees changes).  Whatever marks a connection to be closed also queues
\* something, so that closing waits for this.
Flush(c) ==
  /\ Live(c) /\ unsent[c]
  /\ unsent' = [unsent EXCEPT ![c] = FALSE]
  /\ dead' = [dead EXCEPT ![c] = closing[c]]
  /\ UNCHANGED <<state, closing, relayed, addr, named, viewOnly, sentInput, guard, password,
                 roster, holder, commands>>

\* 120 s without becoming a viewer, 45 s of silence from one: both end in
\* close_conn.  That a viewer is silent is the network's choice.
HandshakeOnly(c) == state[c] \in {"Http", "RelayUpgrade", "Hello", "Auth"} \* mutant
Unauthenticated(c) == state[c] # "Active"

HandshakeTimeout(c) == Unauthenticated(c) /\ Fail(c)
IdleTimeout(c) == state[c] = "Active" /\ Fail(c)

-----------------------------------------------------------------------------
(* The handshake.                                                          *)

\* HELLO with the right version: reply, derive the keys, wait for AUTH.
Hello(c) ==
  /\ Live(c) /\ state[c] = "Hello"
  /\ named' = [named EXCEPT ![c] = TRUE]
  /\ state' = [state EXCEPT ![c] = "Auth"]
  /\ unsent' = [unsent EXCEPT ![c] = TRUE]
  /\ UNCHANGED <<dead, closing, relayed, addr, viewOnly, sentInput, guard, password,
                 roster, holder, commands>>

\* HELLO of another version: refused, but the state stays Hello.
HelloRefused(c) ==
  /\ Live(c) /\ state[c] = "Hello"
  /\ named' = [named EXCEPT ![c] = TRUE]
  /\ closing' = [closing EXCEPT ![c] = TRUE]
  /\ unsent' = [unsent EXCEPT ![c] = TRUE]
  /\ UNCHANGED <<state, dead, relayed, addr, viewOnly, sentInput, guard, password,
                 roster, holder, commands>>

\* locked_out
OnlyGlobal(a) == recent >= RecentLimit                                 \* mutant
OnlyAddress(a) == locked[a]                                            \* mutant
LockedOut(a) == recent >= RecentLimit \/ locked[a]

\* A last message is queued and the connection ends when it is sent.
HangupStaysOpen(c) ==                                                  \* mutant
  /\ state' = [state EXCEPT ![c] = "Closing"]
  /\ closing' = closing
  /\ unsent' = [unsent EXCEPT ![c] = TRUE]
Hangup(c) ==
  /\ state' = [state EXCEPT ![c] = "Closing"]
  /\ closing' = [closing EXCEPT ![c] = TRUE]
  /\ unsent' = [unsent EXCEPT ![c] = TRUE]

\* The lambda "fail": AUTH_RESULT 0, then close.
Refuse(c) ==
  /\ Hangup(c)
  /\ UNCHANGED <<dead, relayed, addr, named, viewOnly, sentInput, password, roster,
                 holder, commands>>

\* record_auth_failure
RecordFailure(a) ==
  /\ failures' = [failures EXCEPT ![a] = @ + 1]
  /\ locked' = [locked EXCEPT ![a] = failures[a] + 1 >= LockAt]
  /\ recent' = recent + 1
  /\ UNCHANGED expired

\* broadcast_viewers: everyone in session is sent who is, and with what rights.
Listed(act, vo) == {[viewer |-> d, viewOnly |-> vo[d]] : d \in act}
Broadcast(act, vo) == [c \in Conn |-> IF c \in act THEN Listed(act, vo) ELSE roster[c]]

\* on_authenticated.
LogIn(c) ==
  /\ state' = [state EXCEPT ![c] = "Active"]
  /\ viewOnly' \in {[viewOnly EXCEPT ![c] = b] : b \in ViewOnlyDefault}
  /\ unsent' = [d \in Conn |-> unsent[d] \/ d \in Active \cup {c}]
  /\ roster' = Broadcast(Active \cup {c}, viewOnly')
  /\ failures' = [failures EXCEPT ![addr[c]] = 0]
  /\ locked' = [locked EXCEPT ![addr[c]] = FALSE]
  /\ expired' = [expired EXCEPT ![addr[c]] = 0]
  /\ UNCHANGED <<dead, closing, relayed, addr, named, sentInput, recent, password, holder, commands>>

FullOffByOne == Cardinality(Active) > MaxViewers                       \* mutant
Full == Cardinality(Active) >= MaxViewers

\* AUTH, made from password p.
Auth(c, p) ==
  /\ Live(c) /\ state[c] = "Auth"
  /\ \/ LockedOut(addr[c]) /\ Refuse(c) /\ UNCHANGED guard
     \/ /\ ~LockedOut(addr[c]) /\ p # password
        /\ failures[addr[c]] < MaxFailures
        /\ RecordFailure(addr[c])
        /\ Refuse(c)
     \/ ~LockedOut(addr[c]) /\ p = password /\ Full /\ Refuse(c) /\ UNCHANGED guard
     \/ ~LockedOut(addr[c]) /\ p = password /\ ~Full /\ LogIn(c)

\* A lockout runs out; a failure is a minute old.
LockExpires(a) ==
  /\ locked[a]
  /\ locked' = [locked EXCEPT ![a] = FALSE]
  /\ expired' = [expired EXCEPT ![a] = @ + 1]
  /\ UNCHANGED <<conns, relayed, addr, failures, recent, password, holder, commands>>

RecentExpires ==
  /\ recent > 0
  /\ recent' = recent - 1
  /\ UNCHANGED <<conns, relayed, addr, failures, locked, expired, password, holder, commands>>

-----------------------------------------------------------------------------
(* In session.                                                             *)

\* KEY and POINTER reach the computer unless the viewer is view-only; it does
\* not matter who pressed an input that is released.
Press(c, k) ==
  /\ c \in Active /\ ~viewOnly[c]
  /\ holder' = [holder EXCEPT ![k] = c]
  /\ sentInput' = [sentInput EXCEPT ![c] = TRUE]
  /\ UNCHANGED <<state, dead, closing, unsent, relayed, addr, named, viewOnly, guard,
                 password, roster, commands>>

Release(c, k) ==
  /\ c \in Active /\ ~viewOnly[c]
  /\ holder' = [holder EXCEPT ![k] = Nobody]
  /\ sentInput' = [sentInput EXCEPT ![c] = TRUE]
  /\ UNCHANGED <<state, dead, closing, unsent, relayed, addr, named, viewOnly, guard,
                 password, roster, commands>>

\* PING, CHAT and the like: something is queued for some of the viewers.
Answer(c) ==
  /\ c \in Active
  /\ \E to \in SUBSET Active \ {{}} : unsent' = [d \in Conn |-> unsent[d] \/ d \in to]
  /\ UNCHANGED <<state, dead, closing, relayed, addr, named, viewOnly, sentInput, guard,
                 password, roster, holder, commands>>

\* A CLOSE frame is echoed.
CloseFrame(c) ==
  /\ Live(c) /\ state[c] \in {"Hello", "Auth", "Active"}
  /\ Hangup(c)
  /\ UNCHANGED <<dead, relayed, addr, named, viewOnly, sentInput, guard, password, roster,
                 holder, commands>>

-----------------------------------------------------------------------------
(* The operator.                                                           *)

AllUp == [k \in Input |-> Nobody]

Command == commands < MaxCommands /\ commands' = commands + 1

Kick(c) ==
  /\ c \in Active
  /\ Command
  /\ Hangup(c)
  /\ UNCHANGED <<dead, relayed, addr, named, viewOnly, sentInput, guard, password, roster,
                 holder>>

\* What losing control does to the inputs.
KeepInput(c) == holder                                                 \* mutant
ReleaseIfSent(c) == IF ~viewOnly[c] /\ sentInput[c] THEN AllUp ELSE holder

ToggleViewOnly(c) ==
  /\ c \in Active
  /\ Command
  /\ viewOnly' = [viewOnly EXCEPT ![c] = ~@]
  /\ holder' = ReleaseIfSent(c)
  /\ unsent' = [d \in Conn |-> unsent[d] \/ d \in Active]
  /\ roster' = Broadcast(Active, viewOnly')
  /\ UNCHANGED <<state, dead, closing, relayed, addr, named, sentInput, guard, password>>

ChangePassword ==
  /\ Command
  /\ password' \in Password
  /\ UNCHANGED <<conns, relayed, addr, guard, holder>>

-----------------------------------------------------------------------------
(* The end of a turn of the loop.                                          *)

Dead == {c \in Open : dead[c]}

\* Those whose departure is announced.
OnlyActive == {c \in Dead : state[c] = "Active" /\ named[c]}           \* mutant
Departed == {c \in Dead : state[c] \in {"Active", "Closing"} /\ named[c]}

\* What leaving does to the inputs.
ReleaseActive == IF \E c \in Dead : sentInput[c] /\ state[c] = "Active" THEN AllUp ELSE holder \* mutant
ReleaseLeft == IF \E c \in Dead : sentInput[c] THEN AllUp ELSE holder

Reap ==
  /\ Dead # {}
  /\ state' = [c \in Conn |-> IF c \in Dead THEN "freed" ELSE state[c]]
  /\ holder' = ReleaseLeft
  /\ roster' = IF Departed = {} THEN roster ELSE Broadcast(Active, viewOnly)
  /\ unsent' = [c \in Conn |-> unsent[c] \/ (c \in Active /\ Departed # {})]
  /\ UNCHANGED <<dead, closing, relayed, addr, named, viewOnly, sentInput, guard, password,
                 commands>>

Next ==
  \/ \E c \in Conn :
       \/ Accept(c) \/ OpenRelayed(c) \/ Upgrade(c) \/ AnswerPage(c)
       \/ Fail(c) \/ Flush(c)
       \/ HandshakeTimeout(c) \/ IdleTimeout(c)
       \/ Hello(c) \/ HelloRefused(c)
       \/ \E p \in Password \cup {None} : Auth(c, p)
       \/ \E k \in Input : Press(c, k) \/ Release(c, k)
       \/ Answer(c) \/ CloseFrame(c)
       \/ Kick(c) \/ ToggleViewOnly(c)
  \/ ChangePassword
  \/ \E a \in Addr : LockExpires(a)
  \/ RecentExpires
  \/ Reap

Spec == Init /\ [][Next]_vars

\* The loop runs: timers are looked at and what is dead is reaped.  Sockets need
\* never drain.
FairSpec ==
  /\ Spec
  /\ WF_vars(Reap)
  /\ \A c \in Conn : WF_vars(HandshakeTimeout(c))

-----------------------------------------------------------------------------
(* Properties.                                                             *)

\* Types, and: a connection that takes no more messages is marked to end.
TypeOK ==
  /\ \A c \in Conn : state[c] = "Closing" => closing[c]
  /\ state \in [Conn -> {"new", "Http", "RelayUpgrade", "Hello", "Auth", "Active",
                         "Closing", "freed"}]
  /\ dead \in [Conn -> BOOLEAN] /\ closing \in [Conn -> BOOLEAN] /\ unsent \in [Conn -> BOOLEAN]
  /\ relayed \in [Conn -> BOOLEAN] /\ named \in [Conn -> BOOLEAN]
  /\ viewOnly \in [Conn -> BOOLEAN] /\ sentInput \in [Conn -> BOOLEAN]
  /\ addr \in [Conn -> Addr]
  /\ failures \in [Addr -> Nat] /\ expired \in [Addr -> Nat]
  /\ locked \in [Addr -> BOOLEAN]
  /\ recent \in Nat
  /\ password \in Password
  /\ roster \in [Conn -> SUBSET [viewer : Conn, viewOnly : BOOLEAN]]
  /\ holder \in [Input -> Conn \cup {Nobody}]
  /\ commands \in Nat

\* However viewers leave - a CLOSE frame, a kick, a dead socket, a timeout - and
\* however the operator takes control away, an input that is down was pressed
\* by a connection that the host still has, that may control it, and whose
\* reaping will release it.
HeldByAViewer ==
  \A k \in Down :
    LET c == holder[k] IN
    Exists(c) /\ sentInput[c] /\ ~viewOnly[c] /\ state[c] \in {"Active", "Closing"}

\* The viewer list on every screen has everyone in session with their rights,
\* and beyond them only connections the host has not reaped yet.
RosterCurrent ==
  \A c \in Active :
    /\ Listed(Active, viewOnly) \subseteq roster[c]
    /\ \A e \in roster[c] \ Listed(Active, viewOnly) : Exists(e.viewer) /\ e.viewer \notin Active

\* Wrong passwords from one address, over any number of connections at once:
\* LockAt, and one more each time a lockout has run out.
GuessBudget == \A a \in Addr : failures[a] <= LockAt + expired[a]

\* Wrong passwords from everywhere in a minute.
GuessRate == recent <= RecentLimit

\* locked_out holds both limits, however the guesses are spread.
GuessLimits == GuessBudget /\ GuessRate

\* What is shared out is not oversubscribed, whichever way viewers come.
Capacity ==
  /\ Cardinality(Active) <= MaxViewers
  /\ Cardinality({c \in Open : relayed[c] /\ ~dead[c]}) <= RelayedCap

\* A connection that is not a viewer does not keep its socket for ever, even
\* if the other side neither speaks nor reads.
SlotsFreed ==
  \A c \in Conn : (Exists(c) /\ state[c] # "Active") ~> (state[c] \in {"Active", "freed"})

\* No input stays down for a viewer that left, was kicked or lost control.
InputsReleased ==
  \A c \in Conn : \A k \in Input : (holder[k] = c /\ c \notin Active) ~> (holder[k] # c)

\* platform.h on release_all: "Called when the owning viewer leaves".  Inputs a
\* viewer in session holds are released by a message or with its control.
OnlyOwnersRelease ==
  [][\A k \in Input :
       /\ holder[k] \in Active /\ ~viewOnly'[holder[k]]
       /\ holder'[k] = Nobody
       => UNCHANGED <<state, viewOnly>>]_vars
=============================================================================
