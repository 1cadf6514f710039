---------------------------- MODULE ViewerInput ----------------------------
(***************************************************************************)
(* The keys and mouse buttons of one viewer (client/app.cpp): what it      *)
(* sends, what it remembers as held, what the menu, the chat and the       *)
(* view-only mode keep from the host, and what is down on the host's       *)
(* computer.  A viewer whose connection is lost is back while the host may *)
(* still have the lost one, for up to 45 s if nothing tells it.  Several   *)
(* viewers, and who owns an input, are HostSession's; a connection that    *)
(* the host ends first is left out, for it lifts all and reads no more.    *)
(***************************************************************************)
EXTENDS Integers, Sequences, SequencesExt

CONSTANTS
  Key, Esc,   \* keys sent to the host, one of which closes the menu
  Button,     \* mouse buttons
  MaxInput    \* bound on what user, operator and network do

InputAssumption == Esc \in Key /\ Key \cap Button = {} /\ MaxInput \in Nat

VARIABLES
  live,       \* phase_ = Live
  view,       \* held_, buttons_, view_only_, menu_open_ and chat_open_ of the App
  touched,    \* what the user holds down
  toHost, toViewer,  \* KEY and POINTER messages; AUTH_RESULTs that change the rights
  hostViewOnly, sentInput,  \* Conn::view_only, Conn::sent_input
  old,        \* connections the viewer left that the host has not reaped
  down,       \* down on the host's computer
  inputs

vars == <<live, view, touched, toHost, toViewer, hostViewOnly, sentInput, old, down, inputs>>

Idle == [held |-> {}, buttons |-> {}, viewOnly |-> FALSE, menu |-> FALSE, chat |-> FALSE, out |-> <<>>]

Init ==
  /\ live = TRUE /\ view = Idle /\ touched = {} /\ toHost = <<>> /\ toViewer = <<>>
  /\ hostViewOnly = FALSE /\ sentInput = FALSE /\ old = <<>> /\ down = {} /\ inputs = 0

-----------------------------------------------------------------------------
(* The functions of App; `out` collects what they send.                    *)

\* The operators whose comment says "mutant" are wrong on purpose: each is the
\* operator below it with a bug that some property rules out.

\* mutant: the key is forgotten although its release cannot be sent
SendKeyForgets(v, k, isDown) ==
  LET b == [v EXCEPT !.held = IF isDown THEN @ \cup {k} ELSE @ \ {k}]
  IN IF v.viewOnly THEN b ELSE [b EXCEPT !.out = Append(@, [key |-> k, isDown |-> isDown])]

\* send_key
SendKey(v, k, isDown) ==
  IF v.viewOnly THEN v
  ELSE [v EXCEPT !.held = IF isDown THEN @ \cup {k} ELSE @ \ {k},
                 !.out = Append(@, [key |-> k, isDown |-> isDown])]

\* send_pointer
SendPointer(v) ==
  IF v.viewOnly THEN v ELSE [v EXCEPT !.out = Append(@, [buttons |-> v.buttons])]

\* release_input: every key that is held, one after the other, and the buttons.
ReleaseInput(v) ==
  LET order == SetToSeq(v.held)
      after[n \in 0..Len(order)] == IF n = 0 THEN v ELSE SendKey(after[n - 1], order[n], FALSE)
      keys == after[Len(order)]
  IN IF v.buttons = {} THEN keys ELSE SendPointer([keys EXCEPT !.buttons = {}])

\* SDL_KEYDOWN and SDL_KEYUP of keys that are no shortcut.
KeyEvent(v, k, isDown) ==
  IF v.chat THEN [v EXCEPT !.chat = @ /\ ~(isDown /\ k = Esc)]
  ELSE IF v.menu /\ k = Esc THEN [v EXCEPT !.menu = ~isDown]
  ELSE IF isDown \/ k \in v.held THEN SendKey(v, k, isDown) ELSE v

\* SDL_MOUSEBUTTONDOWN and UP, over the bar or the menu or not.
ButtonEvent(v, b, isDown, overUi) ==
  IF isDown /\ overUi THEN v
  ELSE IF isDown /\ v.menu THEN [v EXCEPT !.menu = FALSE]
  ELSE IF ~isDown /\ b \notin v.buttons THEN v
  ELSE SendPointer([v EXCEPT !.buttons = IF isDown THEN @ \cup {b} ELSE @ \ {b}])

-----------------------------------------------------------------------------
(* Actions.                                                                *)

Becomes(v) ==
  /\ view' = [v EXCEPT !.out = <<>>]
  /\ toHost' = toHost \o v.out

Bounded == inputs < MaxInput /\ inputs' = inputs + 1

\* The user presses and lets go; only a live session hears of it.
UseKey ==
  /\ Bounded
  /\ \E k \in Key :
       /\ touched' = IF k \in touched THEN touched \ {k} ELSE touched \cup {k}
       /\ Becomes(IF live THEN KeyEvent(view, k, k \in touched') ELSE view)
  /\ UNCHANGED <<live, toViewer, hostViewOnly, sentInput, old, down>>

UseButton ==
  /\ Bounded
  /\ \E b \in Button, overUi \in BOOLEAN :
       /\ touched' = IF b \in touched THEN touched \ {b} ELSE touched \cup {b}
       /\ Becomes(IF live THEN ButtonEvent(view, b, b \in touched', overUi) ELSE view)
  /\ UNCHANGED <<live, toViewer, hostViewOnly, sentInput, old, down>>

\* Motion, once per frame, while ptr_dirty_.
Move ==
  /\ live /\ Bounded /\ Becomes(SendPointer(view))
  /\ UNCHANGED <<live, touched, toViewer, hostViewOnly, sentInput, old, down>>

\* F8 and F9, or their buttons in the menu.
OpenMenu ==
  /\ live /\ ~view.chat /\ Bounded /\ Becomes([view EXCEPT !.menu = ~@])
  /\ UNCHANGED <<live, touched, toViewer, hostViewOnly, sentInput, old, down>>

OpenChat ==
  /\ live /\ ~view.chat /\ Bounded
  /\ Becomes([ReleaseInput(view) EXCEPT !.chat = TRUE, !.menu = FALSE])
  /\ UNCHANGED <<live, touched, toViewer, hostViewOnly, sentInput, old, down>>

\* The window loses focus, is hidden, or another screen is chosen.
FocusLost ==
  /\ live /\ Bounded /\ Becomes(ReleaseInput(view))
  /\ UNCHANGED <<live, touched, toViewer, hostViewOnly, sentInput, old, down>>

\* AUTH_RESULT in session, lines 422, 455-458.
ReadRights ==
  /\ live /\ toViewer # <<>>
  /\ LET v == [view EXCEPT !.viewOnly = Head(toViewer)]
     IN Becomes(IF v.viewOnly THEN ReleaseInput(v) ELSE v)
  /\ toViewer' = Tail(toViewer)
  /\ UNCHANGED <<live, touched, hostViewOnly, sentInput, old, down, inputs>>

\* disconnect_user; on_transport_closed; or fail_connect, which leaves all as it is.
\* The host has the connection until it finds out; `arrives` is what it still gets.
Left(arrives) ==
  /\ old' = Append(old, [toHost |-> arrives, viewOnly |-> hostViewOnly, sentInput |-> sentInput])
  /\ toHost' = <<>> /\ toViewer' = <<>> /\ hostViewOnly' = FALSE /\ sentInput' = FALSE

Leave ==
  /\ live /\ live' = FALSE /\ Bounded
  /\ \/ LET v == ReleaseInput(view) IN
        /\ Left(toHost \o v.out)
        /\ view' = [v EXCEPT !.menu = FALSE, !.chat = FALSE, !.out = <<>>]
     \/ /\ \E n \in 0..Len(toHost) : Left(SubSeq(toHost, 1, n))
        /\ view' \in {view, [view EXCEPT !.held = {}, !.buttons = {}]}
  /\ UNCHANGED <<touched, down>>

\* A second later: the viewer is back on a new connection.
Reconnect ==
  /\ ~live /\ live' = TRUE
  /\ view' = [view EXCEPT !.viewOnly = FALSE]
  /\ UNCHANGED <<touched, toHost, toViewer, hostViewOnly, sentInput, old, down, inputs>>

\* host/server.cpp, KEY and POINTER.
Apply(d, m) ==
  IF "key" \in DOMAIN m THEN IF m.isDown THEN d \cup {m.key} ELSE d \ {m.key}
  ELSE (d \ Button) \cup m.buttons

HostReads ==
  /\ toHost # <<>> /\ toHost' = Tail(toHost)
  /\ IF hostViewOnly THEN UNCHANGED <<down, sentInput>>
     ELSE down' = Apply(down, Head(toHost)) /\ sentInput' = TRUE
  /\ UNCHANGED <<live, view, touched, toViewer, hostViewOnly, old, inputs>>

\* The operator's /viewonly, which may be given again before the viewer knows.
ToggleViewOnly ==
  /\ live /\ Bounded
  /\ hostViewOnly' = ~hostViewOnly
  /\ down' = IF hostViewOnly' /\ sentInput THEN {} ELSE down
  /\ toViewer' = Append(toViewer, hostViewOnly')
  /\ UNCHANGED <<live, view, touched, toHost, sentInput, old>>

\* The same on a connection the viewer left.
HostReadsOld(i) ==
  /\ old[i].toHost # <<>>
  /\ old' = [old EXCEPT ![i].toHost = Tail(@), ![i].sentInput = @ \/ ~old[i].viewOnly]
  /\ down' = IF old[i].viewOnly THEN down ELSE Apply(down, Head(old[i].toHost))
  /\ UNCHANGED <<live, view, touched, toHost, toViewer, hostViewOnly, sentInput, inputs>>

ToggleOld(i) ==
  /\ Bounded
  /\ old' = [old EXCEPT ![i].viewOnly = ~@]
  /\ down' = IF ~old[i].viewOnly /\ old[i].sentInput THEN {} ELSE down
  /\ UNCHANGED <<live, view, touched, toHost, toViewer, hostViewOnly, sentInput>>

\* The host learns of the end, or hears nothing for 45 s, and release_all lifts what
\* any connection pressed.
Reap(i) ==
  /\ old' = RemoveAt(old, i)
  /\ down' = IF old[i].sentInput THEN {} ELSE down
  /\ UNCHANGED <<live, view, touched, toHost, toViewer, hostViewOnly, sentInput, inputs>>

Next ==
  \/ UseKey \/ UseButton \/ Move \/ OpenMenu \/ OpenChat \/ FocusLost
  \/ ReadRights \/ Leave \/ HostReads \/ ToggleViewOnly \/ Reconnect
  \/ \E i \in DOMAIN old : HostReadsOld(i) \/ ToggleOld(i) \/ Reap(i)

Spec == Init /\ [][Next]_vars

-----------------------------------------------------------------------------
(* Properties.                                                             *)

\* What will be down on the host when all that is on its way has arrived.
Coming ==
  LET after[n \in 0..Len(toHost)] == IF n = 0 THEN down ELSE Apply(after[n - 1], toHost[n])
  IN IF hostViewOnly THEN down ELSE after[Len(toHost)]

\* A connection the viewer left, and that pressed something, is still there.
Lingering == \E i \in DOMAIN old : old[i].sentInput

\* A key that is down on the host, or will be, is one the viewer still knows to be
\* held (line 635), whatever its user, the operator's toggles of its rights, the
\* menu and lost connections did in the meantime: so that release_input, when the
\* window loses focus (line 825), leaves none down - unless the viewer is view-only
\* just then, or back before the host reaped a connection that pressed keys.
KeysAreKnown == live /\ ~Lingering => Coming \cap Key \subseteq view.held
=============================================================================
