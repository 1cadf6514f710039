----------------------------- MODULE ViewerApp -----------------------------
(***************************************************************************)
(* The viewer's connection to one host (client/app.cpp): its phases, the   *)
(* dialogs about them, the pinned host key, the remembered password, and   *)
(* the reconnection of a session that drops.  All of it is one thread;     *)
(* each of the program's functions is an operator on the record `app`.     *)
(***************************************************************************)
EXTENDS Integers, Sequences

CONSTANTS
  Identity,          \* identity keys the host may have, one after the other
  Password,     \* passwords the host may have
  None,         \* no key, no password
  MaxAttempts,  \* automatic reconnections; 10 in the code
  TrustNew,     \* --trust-new-hosts
  Altered,      \* a message may arrive altered
  MaxEvents     \* bound on what user and surroundings do

ViewerAssumption ==
  /\ None \notin Identity \cup Password
  /\ MaxAttempts \in Nat /\ MaxEvents \in Nat
  /\ TrustNew \in BOOLEAN /\ Altered \in BOOLEAN

VARIABLES
  app,       \* the App object; see TypeOK
  host,      \* the host program: its key and password, and whether it speaks our version
  toHost, toViewer,  \* messages of this connection that have not arrived
  stage,     \* the host's end of it: "hello", "auth", "active" or "gone"
  ended,     \* the connection ends behind toViewer
  events

vars == <<app, host, toHost, toViewer, stage, ended, events>>

Target == [password : Password \cup {None}, remember : BOOLEAN, listed : BOOLEAN, valid : BOOLEAN]
NotListed == [password |-> None, remember |-> FALSE, listed |-> FALSE, valid |-> TRUE]

\* Types of the state.
TypeOK ==
  /\ app.phase \in {"None", "Connecting", "Hello", "Verify", "Auth", "Live"}
  /\ app.screen \in {"Home", "Session"}
  /\ app.dialog \in {"None", "Password", "Verify", "Connecting"}
  /\ app.net \in {"Idle", "Connecting", "Open", "Closed"}
  /\ app.attempts \in 0..MaxAttempts
  /\ app.target \in Target /\ app.pc \in Target   \* target_, and the PC in store_
  /\ {app.pin, app.seen} \subseteq Identity \cup {None} /\ app.refused \in Password \cup {None}
  /\ {app.error, app.userClosed, app.timer, app.sealing} \subseteq BOOLEAN
  /\ stage \in {"hello", "auth", "active", "gone"} /\ ended \in BOOLEAN

Init ==
  /\ \E pc \in {NotListed} \cup [password : Password \cup {None}, remember : {TRUE},
                                 listed : {TRUE}, valid : {TRUE}],
        pin \in Identity \cup {None} :
       app = [phase |-> "None", screen |-> "Home", dialog |-> "None", error |-> FALSE,
              userClosed |-> FALSE, attempts |-> 0, timer |-> FALSE,
              net |-> "Idle", sealing |-> FALSE, seen |-> None, out |-> <<>>,
              target |-> NotListed, pc |-> pc, pin |-> pin,
              refused |-> None]     \* history: a password refused, and not typed again since
  /\ host \in [key : Identity, password : Password, fits : {TRUE}]
  /\ toHost = <<>> /\ toViewer = <<>> /\ stage = "gone" /\ ended = FALSE /\ events = 0

-----------------------------------------------------------------------------
(* The functions of App. `out` collects what they send.                    *)

\* The operators whose comment says "mutant" are wrong on purpose: each is the
\* operator below it with a bug that some property rules out.

\* fail_connect, in a native viewer.
FailConnect(a) ==
  [a EXCEPT !.phase = "None", !.userClosed = TRUE, !.net = "Closed",
            !.error = TRUE, !.dialog = "Connecting"]

\* start_connect; transport_->connect forgets the last connection.
StartConnect(a) ==
  LET b == [a EXCEPT !.error = FALSE]
  IN IF ~a.target.valid THEN FailConnect(b)
     ELSE [b EXCEPT !.userClosed = FALSE, !.phase = "Connecting", !.sealing = FALSE,
                    !.net = "Connecting",
                    !.dialog = IF a.screen # "Session" THEN "Connecting" ELSE @]

\* begin_connect: asks for a password if there is none.
BeginConnect(a, pc) ==
  LET b == [a EXCEPT !.target = pc]
  IN IF pc.password = None THEN [b EXCEPT !.error = FALSE, !.dialog = "Password"]
     ELSE StartConnect(b)

\* send: nothing leaves a transport that is not open.
Send(a, m) == IF a.net = "Open" THEN [a EXCEPT !.out = Append(@, m)] ELSE a

SendAuth(a) ==
  [Send(a, [type |-> "AUTH", password |-> a.target.password, sealed |-> a.sealing])
     EXCEPT !.phase = "Auth",
            !.dialog = IF @ # "Verify" THEN @
                       ELSE IF a.screen = "Session" THEN "None" ELSE "Connecting"]

DisconnectUser(a) ==
  [a EXCEPT !.userClosed = TRUE, !.net = IF @ = "Idle" THEN @ ELSE "Closed",
            !.phase = "None", !.timer = FALSE,
            !.attempts = 0, !.screen = "Home", !.dialog = "None"]

\* on_transport_closed: "keep the session screen up and retry for a while".
Retries(a) ==
  /\ ~a.userClosed
  /\ a.phase = "Live" \/ (a.screen = "Session" /\ a.attempts > 0)
  /\ a.attempts < MaxAttempts

\* mutant: the next attempt is left to the first drop
OnTransportClosedOnce(a) ==
  LET b == [a EXCEPT !.phase = "None"]
      home == [b EXCEPT !.attempts = 0, !.screen = "Home"]
  IN IF Retries(a) THEN [b EXCEPT !.attempts = @ + 1, !.timer = (a.phase = "Live")]
     ELSE IF a.userClosed THEN home
     ELSE FailConnect(home)

\* mutant: an attempt that ends is not told of
OnTransportClosedSilently(a) ==
  LET b == [a EXCEPT !.phase = "None"]
  IN IF Retries(a) THEN [b EXCEPT !.attempts = @ + 1, !.timer = TRUE]
     ELSE [b EXCEPT !.attempts = 0, !.screen = "Home"]

OnTransportClosed(a) ==
  LET b == [a EXCEPT !.phase = "None"]
      home == [b EXCEPT !.attempts = 0, !.screen = "Home"]
  IN IF Retries(a) THEN [b EXCEPT !.attempts = @ + 1, !.timer = TRUE]
     ELSE IF a.userClosed THEN home
     ELSE FailConnect(home)

\* mutant: a key that changed is taken like one never seen
TrustedUnlessNew(a, key) == TrustNew \/ a.pin # None

\* A host that need not be asked about: line 382.
Trusted(a, key) == TrustNew \/ a.pin = key

\* RD_S_HELLO
OnHello(a, m) ==
  LET b == [a EXCEPT !.sealing = TRUE, !.seen = m.key]
  IN IF a.phase # "Hello" THEN FailConnect(a)
     ELSE IF Trusted(a, m.key)
          THEN SendAuth([b EXCEPT !.pin = IF @ = None THEN m.key ELSE @])
          ELSE [b EXCEPT !.phase = "Verify", !.dialog = "Verify"]

\* mutant: the saved password outlives its refusal
KeepsSaved(a, m) ==
  LET b == FailConnect([a EXCEPT !.attempts = 0, !.screen = "Home"])
  IN IF m.why # "password" THEN b
     ELSE [b EXCEPT !.refused = a.target.password, !.target.password = None, !.dialog = "Password"]

\* RD_S_AUTH_RESULT with ok = 0
OnRefused(a, m) ==
  LET b == FailConnect([a EXCEPT !.attempts = 0, !.screen = "Home"])
  IN IF m.why # "password" THEN b
     ELSE [b EXCEPT !.pc = IF a.target.listed /\ @.remember THEN [@ EXCEPT !.password = None] ELSE @,
                    !.refused = a.target.password, !.target.password = None,
                    !.dialog = "Password"]

\* RD_S_AUTH_RESULT with ok = 1. The first time, the PC is saved.
OnAccepted(a) ==
  IF a.phase # "Auth" THEN a
  ELSE [a EXCEPT
          !.phase = "Live", !.dialog = "None", !.screen = "Session", !.attempts = 0,
          !.target.listed = TRUE,
          !.pc = IF a.screen = "Session" THEN @
                 ELSE [a.target EXCEPT !.listed = TRUE,
                                       !.password = IF a.target.remember THEN @ ELSE None]]

\* handle_message; every message after the HELLO is sealed.
HandleMessage(a, m) ==
  IF a.phase = "None" THEN a                      \* line 142: the rest of a batch
  ELSE IF m.type = "ALTERED" THEN FailConnect(a)
  ELSE IF m.type = "HELLO" THEN OnHello(a, m)
  ELSE IF m.type = "REFUSED" THEN OnRefused(a, m)
  ELSE OnAccepted(a)

\* tick, up to the features of a live session: poll delivers n messages, and
\* reports the end of the connection once all are read.
Tick(a, n) ==
  LET after[k \in 0..n] == IF k = 0 THEN a ELSE HandleMessage(after[k - 1], toViewer[k])
      b == after[n]
      c == IF ended /\ n = Len(toViewer) THEN [b EXCEPT !.net = "Closed"] ELSE b
      d == IF c.phase = "Connecting" /\ c.net = "Open"
           THEN [Send(c, [type |-> "HELLO"]) EXCEPT !.phase = "Hello"] ELSE c
  IN IF d.phase # "None" /\ d.net = "Closed" THEN OnTransportClosed(d) ELSE d

-----------------------------------------------------------------------------
(* Actions.                                                                *)

\* The App becomes a: what it sent is on its way, unless it hung up.
Becomes(a, left) ==
  LET over == a.net \in {"Idle", "Closed", "Connecting"}
  IN /\ app' = [a EXCEPT !.out = <<>>]
     /\ toHost' = IF over THEN <<>> ELSE toHost \o a.out
     /\ toViewer' = IF over THEN <<>> ELSE left
     /\ stage' = IF over THEN "gone" ELSE stage
     /\ ended' = (ended /\ ~over)
     /\ UNCHANGED host

\* The viewer's loop, while connected.
Poll ==
  /\ app.phase # "None"
  /\ \E n \in 0..Len(toViewer) :
       /\ n > 0 \/ ended \/ app.net = "Closed" \/ (app.phase = "Connecting" /\ app.net = "Open")
       /\ Becomes(Tick(app, n), SubSeq(toViewer, n + 1, Len(toViewer)))
  /\ UNCHANGED events

\* The viewer's loop, when the time for the next attempt has come.
Reconnect ==
  /\ app.phase = "None" /\ app.timer
  /\ Becomes(StartConnect([app EXCEPT !.timer = FALSE]), <<>>)
  /\ UNCHANGED events

User == events < MaxEvents /\ events' = events + 1

\* The home screen: a saved PC, or an address that was never used.
Choose ==
  /\ User /\ app.screen = "Home" /\ app.dialog = "None"
  /\ \E pc \in {app.pc} \cup (IF app.pc.listed THEN {} ELSE {[NotListed EXCEPT !.valid = FALSE]}) :
       Becomes(BeginConnect(app, pc), toViewer)

\* The dialogs; a password typed for a listed PC is saved at once if it is to
\* be remembered.
PasswordDialog ==
  /\ User /\ app.dialog = "Password"
  /\ \/ Becomes([app EXCEPT !.dialog = "None"], toViewer)
     \/ \E pw \in Password, r \in BOOLEAN :
          Becomes(StartConnect(
            [app EXCEPT !.target.password = pw, !.target.remember = r, !.refused = None,
                        !.pc = IF app.target.listed
                               THEN [@ EXCEPT !.remember = r, !.password = IF r THEN pw ELSE None]
                               ELSE @]), toViewer)

VerifyDialog ==
  /\ User /\ app.dialog = "Verify"
  /\ \/ Becomes(DisconnectUser(app), toViewer)
     \/ Becomes(SendAuth([app EXCEPT !.pin = app.seen]), toViewer)

ConnectingDialog ==
  /\ User /\ app.dialog = "Connecting"
  /\ \/ ~app.error /\ Becomes(DisconnectUser(app), toViewer)
     \/ app.error /\ Becomes([app EXCEPT !.dialog = "None"], toViewer)
     \/ app.error /\ Becomes(BeginConnect(app, app.target), toViewer)

\* The session screen: Disconnect in the menu, Esc while reconnecting.
Leave ==
  /\ User /\ app.screen = "Session" /\ app.dialog = "None"
  /\ Becomes(DisconnectUser(app), toViewer)

\* The transport's connect ends; what it goes through is NativeTransport's.
Connected ==
  /\ app.net = "Connecting"
  /\ app' = [app EXCEPT !.net = "Open"] /\ stage' = "hello"
  /\ UNCHANGED <<host, toHost, toViewer, ended, events>>

NotConnected ==
  /\ app.net = "Connecting"
  /\ app' = [app EXCEPT !.net = "Closed"]
  /\ UNCHANGED <<host, toHost, toViewer, stage, ended, events>>

-----------------------------------------------------------------------------
(* The host's end: host/server.cpp, handle_message; HostSession has it all. *)

Refused(why) == [type |-> "REFUSED", why |-> why]

\* What the host makes of a message: its answer, its new stage. It closes the
\* connection behind a refusal, and on a message out of place without answer.
Answer(m) ==
  IF stage = "hello" /\ m.type = "HELLO"
  THEN IF host.fits THEN {<<[type |-> "HELLO", key |-> host.key], "auth">>}
       ELSE {<<Refused("other"), "gone">>}
  ELSE IF stage = "auth" /\ m.type = "AUTH" /\ m.sealed
  THEN {<<Refused("other"), "gone">>,           \* locked out, or full
        IF m.password = host.password THEN <<[type |-> "ACCEPTED"], "active">>
        ELSE <<Refused("password"), "gone">>}
  ELSE {<<[type |-> "NONE"], "gone">>}

HostReads ==
  /\ toHost # <<>> /\ stage # "gone" /\ ~ended
  /\ \E r \in Answer(Head(toHost)) :
       /\ toViewer' = IF r[1].type = "NONE" THEN toViewer ELSE Append(toViewer, r[1])
       /\ stage' = r[2] /\ ended' = (r[2] = "gone")
  /\ toHost' = Tail(toHost)
  /\ UNCHANGED <<app, host, events>>

\* The connection is lost, with what had not arrived; the host may be restarted,
\* with another key, password or version.
Drop(h) ==
  /\ stage # "gone" /\ ~ended /\ ended' = TRUE /\ stage' = "gone"
  /\ \E n \in 0..Len(toViewer) : toViewer' = SubSeq(toViewer, 1, n)
  /\ host' = h /\ toHost' = <<>> /\ UNCHANGED app

Lost ==
  /\ User
  /\ \E h \in [key : Identity, password : Password, fits : BOOLEAN] : Drop(h)

\* The host's handshake timer; lines 240-241 of server.cpp.
HandshakeTimeout == stage \in {"hello", "auth"} /\ Drop(host) /\ UNCHANGED events

Alter ==
  /\ Altered /\ User /\ \E i \in 1..Len(toViewer) :
       app.sealing /\ toViewer' = [toViewer EXCEPT ![i] = [type |-> "ALTERED"]]
  /\ UNCHANGED <<app, host, toHost, stage, ended>>

Programs == Poll \/ Reconnect \/ Connected \/ NotConnected \/ HostReads \/ HandshakeTimeout

Next ==
  \/ Poll \/ Reconnect
  \/ Choose \/ PasswordDialog \/ VerifyDialog \/ ConnectingDialog \/ Leave
  \/ Connected \/ NotConnected
  \/ HostReads \/ Lost \/ HandshakeTimeout \/ Alter

Spec == Init /\ [][Next]_vars
FairSpec == Spec /\ WF_vars(Programs)

-----------------------------------------------------------------------------
(* Properties.                                                             *)

\* Whoever the password was proved to, over any number of reconnections to a host
\* whose key may change (lines 381-391, 1739), is the host that is pinned.
LiveIsTrusted ==
  stage = "active" /\ ~ended /\ ~TrustNew => app.seen = app.pin /\ app.sealing

\* What is drawn is true: "Connecting" (line 1746) is shown while something goes
\* on, and nothing is left over a live session (lines 156, 224, 252, 425).
ShownIsTrue ==
  /\ app.dialog = "Connecting" /\ ~app.error => app.phase # "None" \/ app.timer
  /\ app.phase = "Live" => app.screen = "Session" /\ app.dialog = "None"

\* A password that the host refused is not sent again until it has been typed
\* again (lines 405-415): the host would lock the viewer out.
NoRefusedRetry ==
  app.refused # None =>
    \A i \in 1..Len(toHost) : toHost[i].type = "AUTH" => toHost[i].password # app.refused

\* A session that dropped is live again, given up, or before the user: attempts do
\* not go on for ever and none is forgotten (lines 155-159, 305-320).
DropResolved ==
  app.timer ~> (app.phase = "Live" \/ app.screen = "Home" \/ app.dialog # "None")
=============================================================================
