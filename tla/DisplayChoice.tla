--------------------------- MODULE DisplayChoice ---------------------------
(***************************************************************************)
(* Which display the host shares, and how sharply: the SETTINGS handler    *)
(* and switch_display of host/server.cpp, with the viewer's cur_display_   *)
(* and resolution_pref_ (client/app.cpp).                                  *)
(*                                                                         *)
(* Every SETTINGS carries the viewer's own idea of the display, whatever   *)
(* button was pressed, and a viewer learns of a switch only from the       *)
(* DISPLAY_INFO that goes with the first frame of the new size.            *)
(*                                                                         *)
(* Abstracted: quality and frame rate (FrameStream, AdaptiveQuality),      *)
(* notices, the list of displays (fixed), sizes: all displays have one     *)
(* size, so that only the reset in switch_display tells them apart.        *)
(***************************************************************************)
EXTENDS Naturals, Sequences

CONSTANTS
  Viewer,
  Display,      \* indices of the host's displays
  Started,      \* --display
  Unreliable,   \* displays whose capture may fail to start
  MaxEvents     \* bound: connections accepted, presses of buttons and
                \* "/viewonly" in all

DisplayAssumption ==
  /\ Display \subseteq Nat /\ {0, Started} \subseteq Display /\ Unreliable \subseteq Display
  /\ MaxEvents \in Nat

VARIABLES
  cap,       \* the capturer: display, resolution, running, has a frame
  active,    \* state is Active
  watching,  \* view_only, the host's
  shadow,    \* the size the viewer was told last: shadow_w, shadow_h
  refused,   \* history: the last display it asked for was refused and nothing
             \* was sent since that would tell it which one is shared
  up, down,  \* messages of each connection
  live,      \* the viewer's phase is Live
  shown,     \* cur_display_
  resShown,  \* hires_on_
  pref,      \* resolution_pref_
  viewOnly,  \* view_only_, the viewer's
  listed,    \* displays_ is not empty
  asked,     \* history: somebody pressed a display's button
  events     \* bounded counter

connVars == <<active, watching, shadow, refused>>
appVars == <<live, shown, resShown, pref, viewOnly, listed>>
vars == <<cap, active, watching, shadow, refused, up, down, live, shown,
          resShown, pref, viewOnly, listed, asked, events>>

Leave == "leave"        \* resolution_pref_ 255: as the host has it
NoSize == "none"
Res == {"sharp", "fast"}
Info(c) == [is |-> "info", display |-> c.display, res |-> c.res]
Role(w) == [is |-> "role", only |-> w]
Settings(v) == [display |-> shown'[v], res |-> pref'[v]]

Init ==
  /\ cap = [display |-> Started, res |-> "sharp", running |-> TRUE, frame |-> FALSE]
  /\ active = [v \in Viewer |-> FALSE] /\ watching = active /\ refused = active
  /\ shadow = [v \in Viewer |-> NoSize]
  /\ up = [v \in Viewer |-> <<>>] /\ down = up
  /\ live = active /\ viewOnly = active /\ listed = active
  /\ shown = [v \in Viewer |-> 0] /\ resShown = [v \in Viewer |-> "fast"] /\ pref = [v \in Viewer |-> Leave]
  /\ asked = FALSE /\ events = 0

Count == events < MaxEvents /\ events' = events + 1

\* The operators whose comment says "mutant" are wrong on purpose: each is the
\* operator below it with a bug that some property rules out.

-----------------------------------------------------------------------------
(* The viewer.                                                             *)

Send(v) == up' = [up EXCEPT ![v] = Append(@, Settings(v))]

\* switch_screen, from the bar, the menu or F7
PressDisplay(v) ==
  /\ live[v] /\ listed[v] /\ ~viewOnly[v]
  /\ \E d \in Display \ {shown[v]} : shown' = [shown EXCEPT ![v] = d]
  /\ asked' = TRUE
  /\ UNCHANGED pref
  /\ Send(v)

\* "Sharp" and "Fast" of the menu
PressSharpness(v) ==
  /\ live[v] /\ listed[v]
  /\ \E s \in Res : pref' = [pref EXCEPT ![v] = s]
  /\ UNCHANGED <<shown, asked>>
  /\ Send(v)

\* quality and frame rate: the display and the resolution go along
PressQuality(v) ==
  /\ live[v]
  /\ UNCHANGED <<shown, pref, asked>>
  /\ Send(v)

Press(v) ==
  /\ Count
  /\ PressDisplay(v) \/ PressSharpness(v) \/ PressQuality(v)
  /\ UNCHANGED <<cap, connVars, down, live, resShown, viewOnly, listed>>

\* The first AUTH_RESULT makes the session live and sends the settings; later
\* ones only change what the viewer may do.
ReceiveRole(v, m) ==
  /\ live' = [live EXCEPT ![v] = TRUE]
  /\ viewOnly' = [viewOnly EXCEPT ![v] = m.only]
  /\ UNCHANGED <<shown, resShown, pref, listed>>
  /\ IF live[v] THEN UNCHANGED up ELSE Send(v)

ReceiveInfo(v, m) ==
  /\ shown' = [shown EXCEPT ![v] = m.display]
  /\ resShown' = [resShown EXCEPT ![v] = m.res]
  /\ listed' = [listed EXCEPT ![v] = TRUE]
  /\ UNCHANGED <<live, pref, viewOnly, up>>

Receive(v) ==
  /\ down[v] # <<>>
  /\ down' = [down EXCEPT ![v] = Tail(@)]
  /\ LET m == Head(down[v]) IN
     IF m.is = "role" THEN ReceiveRole(v, m) ELSE ReceiveInfo(v, m)
  /\ UNCHANGED <<cap, connVars, asked, events>>

-----------------------------------------------------------------------------
(* The host.                                                               *)

\* on_authenticated; the viewer's display and preferences are those it had
Join(v) ==
  /\ ~active[v] /\ Count
  /\ active' = [active EXCEPT ![v] = TRUE]
  /\ watching' = [watching EXCEPT ![v] = FALSE]
  /\ down' = [down EXCEPT ![v] = <<Role(FALSE), Info(cap)>>]
  /\ shadow' = [shadow EXCEPT ![v] = NoSize]
  /\ refused' = [refused EXCEPT ![v] = FALSE]
  /\ UNCHANGED <<cap, up, appVars, asked>>

\* The connection is lost; what was on its way is lost with it.
Drop(v) ==
  /\ active[v]
  /\ active' = [active EXCEPT ![v] = FALSE]
  /\ live' = [live EXCEPT ![v] = FALSE]
  /\ up' = [up EXCEPT ![v] = <<>>] /\ down' = [down EXCEPT ![v] = <<>>]
  /\ UNCHANGED <<cap, watching, shadow, refused, shown, resShown, pref, viewOnly,
                 listed, asked, events>>

\* "/viewonly"
ChangeRole(v) ==
  /\ active[v] /\ Count
  /\ watching' = [watching EXCEPT ![v] = ~@]
  /\ down' = [down EXCEPT ![v] = Append(@, Role(~watching[v]))]
  /\ UNCHANGED <<cap, active, shadow, refused, up, appVars, asked>>

\* switch_display: what it may leave behind.  A failure starts the old display
\* again, which may fail too; only a success forgets the sizes viewers know.
Restarted(c, d, ok) == [c EXCEPT !.display = d, !.running = ok, !.frame = FALSE]
Failures(c, d) ==
  {Restarted(c, c.display, ok) : ok \in {TRUE} \cup (IF c.display \in Unreliable THEN {FALSE} ELSE {})}
SwitchOf(c, d) ==
  {[cap |-> Restarted(c, d, TRUE), reset |-> TRUE]} \cup
  {[cap |-> f, reset |-> FALSE] : f \in IF d \in Unreliable THEN Failures(c, d) ELSE {}}
NoSwitch(c) == {[cap |-> c, reset |-> FALSE]}

Kept(step1, step2) == shadow                                           \* mutant
Forgotten(step1, step2) ==
  IF step1.reset \/ step2.reset
  THEN [v \in Viewer |-> IF active[v] THEN NoSize ELSE shadow[v]] ELSE shadow

\* The resolution a viewer in control asks for, if it asks.
AsksRes(v, m) == m.res # Leave /\ ~watching[v] /\ m.res # cap.res
AsksDisplay(v, m) == ~watching[v] /\ m.display # cap.display

\* SETTINGS: a restart for the resolution, then one for the display.
HostApplies(v, m) ==
  LET wanted == [cap EXCEPT !.res = m.res] IN
  \E step1 \in IF AsksRes(v, m) THEN SwitchOf(wanted, cap.display) ELSE NoSwitch(cap) :
  \E step2 \in IF AsksDisplay(v, m) THEN SwitchOf(step1.cap, m.display) ELSE NoSwitch(step1.cap) :
    /\ cap' = step2.cap
    /\ shadow' = Forgotten(step1, step2)
    /\ refused' = [refused EXCEPT ![v] = m.display # step2.cap.display]

HostSettings(v) ==
  /\ active[v] /\ up[v] # <<>>
  /\ up' = [up EXCEPT ![v] = Tail(@)]
  /\ HostApplies(v, Head(up[v]))
  /\ UNCHANGED <<active, watching, down, appVars, asked, events>>

\* The capture thread publishes a frame.
Capture ==
  /\ cap.running /\ ~cap.frame
  /\ cap' = [cap EXCEPT !.frame = TRUE]
  /\ UNCHANGED <<connVars, up, down, appVars, asked, events>>

\* maybe_send_frame: the frame's size is not the one the viewer was told.
Pump(v) ==
  /\ active[v] /\ cap.frame /\ shadow[v] # cap.res
  /\ shadow' = [shadow EXCEPT ![v] = cap.res]
  /\ down' = [down EXCEPT ![v] = Append(@, Info(cap))]
  /\ refused' = [refused EXCEPT ![v] = FALSE]
  /\ UNCHANGED <<cap, active, watching, up, appVars, asked, events>>

Programs == Capture \/ \E v \in Viewer : Receive(v) \/ HostSettings(v) \/ Pump(v)

Next ==
  \/ Programs
  \/ \E v \in Viewer : Press(v) \/ Join(v) \/ Drop(v) \/ ChangeRole(v)

Spec == Init /\ [][Next]_vars

\* Both programs' loops go round, and the capture thread too.
FairSpec == Spec /\ WF_vars(Programs)

-----------------------------------------------------------------------------
(* Properties.                                                             *)

SettingsMsg == [display : Display, res : Res \cup {Leave}]
ViewerMsg == [is : {"info"}, display : Display, res : Res] \cup [is : {"role"}, only : BOOLEAN]

TypeOK ==
  /\ cap \in [display : Display, res : Res, running : BOOLEAN, frame : BOOLEAN]
  /\ {active, watching, refused, live, viewOnly, listed} \subseteq [Viewer -> BOOLEAN]
  /\ shadow \in [Viewer -> Res \cup {NoSize}]
  /\ up \in [Viewer -> Seq(SettingsMsg)] /\ down \in [Viewer -> Seq(ViewerMsg)]
  /\ shown \in [Viewer -> Display] /\ resShown \in [Viewer -> Res]
  /\ pref \in [Viewer -> Res \cup {Leave}]
  /\ asked \in BOOLEAN
  /\ events \in 0..MaxEvents

\* No message is on its way and no viewer waits for the size of a frame.
Settled ==
  \A v \in Viewer :
    active[v] => up[v] = <<>> /\ down[v] = <<>> /\ (cap.running => shadow[v] = cap.res)

\* However presses, switches, failures and reconnections overlap, what a viewer
\* believes it is looking at (cur_display_, hires_on_) is in the end what the
\* host shares, unless its own last request was refused.
Agreement ==
  Settled /\ cap.running =>
    \A v \in Viewer : active[v] =>
      /\ shown[v] = cap.display \/ refused[v]
      /\ resShown[v] = cap.res

\* host/main.cpp:49: "--display N  display index to share (default 0)".  Until
\* somebody presses the button of a display, that one is shared.
StartedDisplayShared == ~asked => cap.display = Started
=============================================================================
