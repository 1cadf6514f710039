--------------------------- MODULE ClipboardSync ---------------------------
(***************************************************************************)
(* Clipboard text between the host (Server::poll_clipboard and the         *)
(* CLIPBOARD message, host/server.cpp) and its viewers                     *)
(* (check_local_clipboard, send_clipboard, S_CLIPBOARD in client/app.cpp). *)
(*                                                                         *)
(* Each side remembers the last text it saw, so as not to send it back.    *)
(* Users copy on any computer at any time; every side notices by polling;  *)
(* messages travel in order on each connection.                            *)
(*                                                                         *)
(* Abstracted: polling periods, sizes, the window focus (a viewer that is  *)
(* not focused does not poll).  Viewers stay connected; those in Watching  *)
(* are view-only, on both sides.                                           *)
(***************************************************************************)
EXTENDS Naturals, Sequences

CONSTANTS
  Viewer,     \* connected viewers
  Watching,   \* the view-only ones
  Text,       \* texts users copy
  Nothing,    \* the empty string
  MaxCopies   \* bound: copies and presses of "Send clipboard"

ClipboardAssumption ==
  Watching \subseteq Viewer /\ Nothing \notin Text /\ MaxCopies \in Nat

VARIABLES
  hostClip,   \* the host's clipboard
  noticed,    \* its change count is clip_count_
  lastClip,   \* last_clip_
  clip,       \* each viewer's clipboard
  lastLocal, lastRemote, \* last_local_clip_, last_remote_clip_
  up, down,   \* messages of each connection
  orderly,    \* users copy only when the last copy has arrived everywhere, and
              \* never a text that was copied before
  copied      \* history: the texts copied, in order

hostVars == <<hostClip, noticed, lastClip>>
viewVars == <<clip, lastLocal, lastRemote>>
vars == <<hostClip, noticed, lastClip, clip, lastLocal, lastRemote, up, down, orderly, copied>>

Content == Text \cup {Nothing}
Taking == Viewer \ Watching

\* A session begins: each side knows its own clipboard.
Init ==
  /\ hostClip = Nothing /\ noticed = TRUE /\ lastClip = Nothing
  /\ clip = [v \in Viewer |-> Nothing]
  /\ lastLocal = clip /\ lastRemote = [v \in Viewer |-> Nothing]
  /\ up = [v \in Viewer |-> <<>>] /\ down = [v \in Viewer |-> <<>>]
  /\ orderly \in BOOLEAN /\ copied = <<>>

\* What would make a viewer send its clipboard.
WouldSend(v) ==
  /\ v \notin Watching
  /\ clip[v] # Nothing /\ clip[v] # lastLocal[v] /\ clip[v] # lastRemote[v]

\* Nothing is on its way and no poll would find anything.
AtRest ==
  /\ noticed
  /\ \A v \in Viewer : up[v] = <<>> /\ down[v] = <<>> /\ ~WouldSend(v)

-----------------------------------------------------------------------------
(* Users.                                                                  *)

Copying(t) ==
  /\ Len(copied) < MaxCopies
  /\ orderly => AtRest /\ \A n \in DOMAIN copied : copied[n] # t
  /\ copied' = Append(copied, t)

HostCopies ==
  /\ \E t \in Text : Copying(t) /\ hostClip' = t
  /\ noticed' = FALSE
  /\ UNCHANGED <<lastClip, viewVars, up, down, orderly>>

ViewerCopies(v) ==
  /\ v \notin Watching
  /\ \E t \in Text : Copying(t) /\ clip' = [clip EXCEPT ![v] = t]
  /\ UNCHANGED <<hostVars, lastLocal, lastRemote, up, down, orderly>>

\* The operators whose comment says "mutant" are wrong on purpose: each is the
\* operator below it with a bug that some property rules out.

\* send_clipboard
SendForgets(v) == up' = [up EXCEPT ![v] = Append(@, clip[v])] /\ UNCHANGED lastLocal \* mutant
Send(v) ==
  /\ up' = [up EXCEPT ![v] = Append(@, clip[v])]
  /\ lastLocal' = [lastLocal EXCEPT ![v] = clip[v]]

\* The "Send clipboard" button sends whatever is there, if there is anything.
Something(v) == clip[v] # Nothing

PressSend(v) ==
  /\ v \notin Watching /\ Something(v)
  /\ ~orderly /\ Len(copied) < MaxCopies /\ copied' = Append(copied, clip[v])
  /\ Send(v)
  /\ UNCHANGED <<hostVars, clip, lastRemote, down, orderly>>

-----------------------------------------------------------------------------
(* The two programs.                                                       *)

\* check_local_clipboard
PollViewer(v) ==
  /\ WouldSend(v)
  /\ Send(v)
  /\ UNCHANGED <<hostVars, clip, lastRemote, down, copied, orderly>>

\* broadcast to viewers in control, except one
SendTo(to, t) == [v \in Viewer |-> IF v \in to THEN Append(down[v], t) ELSE down[v]]

\* poll_clipboard
PollHost ==
  /\ ~noticed
  /\ noticed' = TRUE
  /\ IF hostClip \in {Nothing, lastClip}
     THEN UNCHANGED <<lastClip, down>>
     ELSE lastClip' = hostClip /\ down' = SendTo(Taking, hostClip)
  /\ UNCHANGED <<hostClip, viewVars, up, copied, orderly>>

\* The viewers a text is passed on to.
ToNobody(v) == {}                                                      \* mutant
ToOthers(v) == Taking \ {v}

\* CLIPBOARD from a viewer.
HostReceives(v) ==
  /\ up[v] # <<>>
  /\ up' = [up EXCEPT ![v] = Tail(@)]
  /\ LET t == Head(up[v]) IN
     IF v \in Watching \/ t = lastClip
     THEN UNCHANGED <<hostVars, down>>
     ELSE /\ hostClip' = t /\ lastClip' = t /\ noticed' = TRUE
          /\ down' = SendTo(ToOthers(v), t)
  /\ UNCHANGED <<viewVars, copied, orderly>>

\* CLIPBOARD from the host.
ViewerReceives(v) ==
  /\ down[v] # <<>>
  /\ down' = [down EXCEPT ![v] = Tail(@)]
  /\ clip' = [clip EXCEPT ![v] = Head(down[v])]
  /\ lastLocal' = [lastLocal EXCEPT ![v] = Head(down[v])]
  /\ lastRemote' = [lastRemote EXCEPT ![v] = Head(down[v])]
  /\ UNCHANGED <<hostVars, up, copied, orderly>>

Programs ==
  \/ PollHost
  \/ \E v \in Viewer : PollViewer(v) \/ HostReceives(v) \/ ViewerReceives(v)

Next ==
  \/ HostCopies
  \/ \E v \in Viewer : ViewerCopies(v) \/ PressSend(v)
  \/ Programs

Spec == Init /\ [][Next]_vars

FairSpec == Spec /\ WF_vars(Programs)

-----------------------------------------------------------------------------
(* Properties.                                                             *)

TypeOK ==
  /\ {hostClip, lastClip} \subseteq Content /\ noticed \in BOOLEAN
  /\ {clip, lastLocal, lastRemote} \subseteq [Viewer -> Content]
  /\ {up, down} \subseteq [Viewer -> Seq(Text)]
  /\ copied \in Seq(Text) /\ orderly \in BOOLEAN

\* README: "clipboard text syncs both ways".  When all is at rest, everybody
\* who takes part has the text copied last, and view-only viewers have nothing
\* of it: if one text was on its way at a time, and none was copied twice.
InSync ==
  orderly /\ AtRest /\ copied # <<>> =>
    LET last == copied[Len(copied)] IN
    /\ hostClip = last
    /\ clip = [v \in Viewer |-> IF v \in Taking THEN last ELSE Nothing]
=============================================================================
