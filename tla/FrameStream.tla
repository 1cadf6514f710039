---------------------------- MODULE FrameStream ----------------------------
(***************************************************************************)
(* Screen streaming to one viewer: Server::maybe_send_frame and what it    *)
(* depends on (host/server.cpp), and App::on_frame (client/app.cpp).       *)
(*                                                                         *)
(* The capturer publishes frames from its own thread.  The loop compares   *)
(* the newest with what it last sent this viewer and sends the difference, *)
(* with at most MaxInFlight frames unacknowledged; unchanged tiles that    *)
(* were sent lossy are refined.  The encoder is what TileEncoder shows of  *)
(* it: all changed tiles, and a budget of lossy unchanged ones.            *)
(*                                                                         *)
(* Abstracted: clocks (the frame rate, the 250 ms until a screen is        *)
(* settled and the viewer's second between REFRESHes elapse at any time),  *)
(* sequence numbers (only whether the newest frame differs from the last   *)
(* one encoded), byte counts of the send queue (being over the limit is    *)
(* part of not being due), how many stalls make a window congested, and    *)
(* the frame rate but for being low (AdaptiveQuality has both).            *)
(***************************************************************************)
EXTENDS Integers, Sequences, FiniteSets

CONSTANTS
  Sizes,         \* screen sizes, as numbers of tiles
  Color,         \* contents of a tile
  Black,         \* the content of a cleared buffer
  Settings,      \* quality settings the viewer may choose
  Automatic,     \* the automatic setting (255)
  WorstAuto,     \* the lowest quality of the automatic mode (2)
  MaxInFlight,   \* kMaxFramesInFlight
  IdModulus,     \* frame ids wrap (2^32)
  BudgetSettled, \* tiles refined at once when the screen is settled (400)
  BudgetBusy,    \* ... and alongside changes (12)
  ResizeLive,    \* whether the screen may change size while it is captured:
                 \* the cases to consider
  MaxCaptures,   \* bound: frames captured; after a start there is always one
  MaxRequests    \* bound: SETTINGS, restarts and, counted as one, changes of size

ASSUME StreamAssumption ==
  /\ Sizes \subseteq Nat \ {0} /\ Sizes # {} /\ IsFiniteSet(Sizes)
  /\ Black \in Color
  /\ Settings \subseteq 0..3 \cup {Automatic} /\ Automatic \notin 0..3
  /\ WorstAuto \in 0..3
  /\ {MaxInFlight, BudgetSettled, BudgetBusy, MaxRequests, MaxCaptures} \subseteq Nat
  /\ IdModulus \in Nat /\ IdModulus > 2 * MaxInFlight + 1
  /\ ResizeLive \subseteq BOOLEAN /\ ResizeLive # {}

VARIABLES
  latest,    \* the capturer's slot: a frame, or a frame of size 0 for none
  fresh,     \* latest->seq # c.last_seq
  running,   \* the capturer runs
  size,      \* c.shadow_w and c.shadow_h, 0 for none
  sent,      \* c.shadow and c.tile_q
  needFull, setting, quality, settled,
  stalled,   \* stalls > 0: a new frame had to wait for others in the send queue
  slow,      \* eff_fps is at its lowest, 10 or what the viewer chose if that is less
  frameId, acked,
  down,      \* messages on their way to the viewer
  up,        \* messages on their way to the host
  viewSize,  \* rw_ and rh_
  view,      \* fb_
  mayRefresh, \* the viewer's last REFRESH is more than a second ago
  resizes,   \* the screen may change size while it is captured
  captures, requests \* counts, for the bounds

load == <<stalled, slow>>
host == <<size, sent, needFull, setting, quality, settled, load, frameId, acked>>
viewer == <<viewSize, view, mayRefresh>>
screen == <<latest, fresh, running, resizes>>
vars == <<latest, fresh, running, resizes, size, sent, needFull, setting, quality, settled, stalled, slow,
          frameId, acked, down, up, viewSize, view, mayRefresh, captures, requests>>

MaxSize == CHOOSE n \in Sizes : \A m \in Sizes : m <= n
Tile == 1..MaxSize
Level == 0..3

Painted == [color : Color, q : Level]
Blank == [k \in Tile |-> [color |-> Black, q |-> 0]]
Frames == {f \in [size : Sizes, pix : [Tile -> Color]] :
             \A k \in Tile : k > f.size => f.pix[k] = Black}
NoFrame == [size |-> 0, pix |-> [k \in Tile |-> Black]]

\* Right after on_authenticated; the viewer's first DISPLAY_INFO is on its way, with the
\* size of a frame or, while there is none, of the display if that is known.
Init ==
  /\ latest \in Frames \cup {NoFrame} /\ fresh = (latest # NoFrame)
  /\ running = TRUE /\ resizes \in ResizeLive
  /\ size = 0 /\ sent = Blank /\ needFull = TRUE
  /\ setting = Automatic /\ quality = 0 /\ settled = TRUE
  /\ stalled = FALSE /\ slow \in BOOLEAN
  /\ frameId = 0 /\ acked = 0
  /\ \E known \in IF latest = NoFrame THEN Sizes \cup {0} ELSE {latest.size} :
       down = <<[type |-> "info", size |-> known]>>
  /\ up = <<>>
  /\ viewSize = 0 /\ view = Blank /\ mayRefresh = TRUE
  /\ captures = 0 /\ requests = IF resizes THEN 1 ELSE 0

-----------------------------------------------------------------------------
(* The capturer.                                                           *)

MayCapture == captures < MaxCaptures
Counted == captures' = captures + 1

\* FrameSlot::publish.  A capturer keeps its size until it is restarted,
\* unless the screen can change size under it (X11).
Publish(f) ==
  /\ running /\ (MayCapture \/ latest = NoFrame) /\ Counted
  /\ resizes \/ latest = NoFrame \/ f.size = latest.size
  /\ latest' = f
  /\ fresh' = TRUE

Capture ==
  /\ \E f \in Frames : Publish(f)
  /\ UNCHANGED <<running, resizes, host, down, up, viewer, requests>>

Request == requests < MaxRequests /\ requests' = requests + 1

\* switch_display, asked by any viewer: the slot is cleared and every viewer's
\* shadow is forgotten ...
SwitchDisplay ==
  /\ Request
  /\ latest' = NoFrame /\ fresh' = FALSE /\ running' = TRUE
  /\ needFull' = TRUE /\ size' = 0
  /\ UNCHANGED <<resizes, sent, setting, quality, settled, load, frameId, acked, down, up,
                 viewer, captures>>

\* ... and when the new display cannot be captured the old one is started
\* again, which may fail too.
SwitchFails ==
  /\ Request
  /\ latest' = NoFrame /\ fresh' = FALSE
  /\ running' \in BOOLEAN
  /\ UNCHANGED <<resizes, host, down, up, viewer, captures>>

-----------------------------------------------------------------------------
(* The host.                                                               *)

\* The operators whose comment says "mutant" are wrong on purpose: each is the
\* operator below it with a bug that some property rules out.

\* Frames sent and not acknowledged, in the width of the ids.
InFlight == (frameId - acked) % IdModulus

\* Whether another frame may be sent before more are acknowledged.
LateWindow == InFlight <= MaxInFlight                                  \* mutant
WindowOpen == InFlight < MaxInFlight

\* FrameEncoder::encode.
Dirty(f, base, full) == {k \in 1..f.size : full \/ f.pix[k] # base[k].color}
LossyTiles(base) == {k \in Tile : base[k].q # 0}
Budget(refine, calm) == IF ~refine THEN 0 ELSE IF calm THEN BudgetSettled ELSE BudgetBusy
Refinable(f, base, full, budget) ==
  LET clean == LossyTiles(base) \ Dirty(f, base, full) IN
  {R \in SUBSET clean :
     Cardinality(R) = IF Cardinality(clean) < budget THEN Cardinality(clean) ELSE budget}

\* Parts of maybe_send_frame: a change of size starts over, ...
Resized == latest.size # size
BaseKept == sent                                                       \* mutant
Base == IF Resized THEN Blank ELSE sent
Full == needFull \/ Resized
Calm == settled /\ ~fresh
Refine == setting = Automatic /\ LossyTiles(Base) # {}

\* ... announced with the size of the slot's frame at that moment, which the
\* capturer may have replaced since.
Announce ==
  IF ~Resized THEN UNCHANGED <<latest, captures>>
  ELSE \/ UNCHANGED <<latest, captures>>
       \/ resizes /\ running /\ MayCapture /\ Counted /\ latest' \in Frames
NoInfo == <<>>                                                         \* mutant
Info == IF Resized THEN <<[type |-> "info", size |-> latest'.size]>> ELSE <<>>

\* The frame is older than the slot's when that was replaced.
FreshAfter == latest' # latest

Encode(full) ==
  \E R \in Refinable(latest, Base, full, Budget(Refine, Calm)) :
    LET dirty == Dirty(latest, Base, full)
        now == [k \in Tile |->
                  IF k \in dirty THEN [color |-> latest.pix[k], q |-> quality]
                  ELSE IF k \in R THEN [color |-> latest.pix[k], q |-> 0] ELSE Base[k]]
        tiles == dirty \cup R
    IN
    /\ sent' = now
    /\ IF tiles = {}
       THEN frameId' = frameId /\ down' = down \o Info
       ELSE /\ frameId' = (frameId + 1) % IdModulus
            /\ down' = down \o Info \o
                 <<[type |-> "frame", id |-> frameId', tiles |-> [k \in tiles |-> now[k]]]>>

\* maybe_send_frame when a frame is due, ...
ChangesOnly == fresh \/ Full                                           \* mutant
Wanted == fresh \/ Full \/ (Refine /\ Calm)

SendFrame ==
  /\ latest # NoFrame /\ Wanted /\ WindowOpen
  /\ Announce
  /\ Encode(Full)
  /\ size' = latest.size
  /\ settled' = Calm
  /\ needFull' = FALSE
  /\ fresh' = FreshAfter
  /\ UNCHANGED <<running, resizes, setting, quality, load, acked, up, viewer, requests>>

\* ... and when it has to wait, which may be for a send queue that is backed up.
FrameOnItsWay == \E n \in DOMAIN down : down[n].type = "frame"

Wait ==
  /\ latest # NoFrame
  /\ Announce
  /\ sent' = Base /\ size' = latest.size /\ needFull' = Full /\ settled' = Calm
  /\ fresh' = (fresh \/ FreshAfter)
  /\ down' = down \o Info
  /\ stalled' \in {stalled, stalled \/ (fresh /\ FrameOnItsWay)}
  /\ UNCHANGED <<running, resizes, setting, quality, slow, frameId, acked, up, viewer, requests>>

\* 250 ms without a change.
Settle ==
  /\ ~settled /\ settled' = TRUE
  /\ UNCHANGED <<screen, size, sent, needFull, setting, quality, load, frameId, acked, down, up,
                 viewer, captures, requests>>

\* How far the automatic mode goes down.
CanWorsen == quality < WorstAuto

\* adapt_quality at the end of a second.  A congested one lowers the frame rate and,
\* when that is low, the colours; smooth ones restore the colours first.
Congested ==
  \/ ~slow /\ slow' \in BOOLEAN /\ UNCHANGED quality
  \/ slow /\ setting = Automatic /\ CanWorsen /\ quality' = quality + 1 /\ UNCHANGED slow

Smooth ==
  IF setting = Automatic /\ quality > 0 THEN quality' = quality - 1 /\ UNCHANGED slow
  ELSE slow /\ slow' = FALSE /\ UNCHANGED quality

Adapt ==
  /\ stalled' = FALSE
  /\ \/ stalled /\ (Congested \/ UNCHANGED <<slow, quality>>)
     \/ ~stalled /\ Smooth
  /\ UNCHANGED <<screen, size, sent, needFull, setting, settled, frameId, acked, down, up,
                 viewer, captures, requests>>

\* FRAME_ACK counts when int32(id - acked) > 0 and int32(id - frameId) <= 0.
Signed(n) == LET m == n % IdModulus IN IF 2 * m < IdModulus THEN m ELSE m - IdModulus
AckNewestLost(id) == Signed(id - acked) > 0 /\ Signed(id - frameId) < 0  \* mutant
Acceptable(id) == Signed(id - acked) > 0 /\ Signed(id - frameId) <= 0

Receive ==
  /\ up # <<>> /\ up' = Tail(up)
  /\ LET m == Head(up) IN
     \/ /\ m.type = "ack"
        /\ acked' = IF Acceptable(m.id) THEN m.id ELSE acked
        /\ UNCHANGED <<needFull, setting, quality, slow>>
     \/ /\ m.type = "refresh"
        /\ needFull' = TRUE
        /\ UNCHANGED <<acked, setting, quality, slow>>
     \/ /\ m.type = "settings"
        /\ setting' = m.quality
        /\ quality' = IF m.quality = Automatic THEN quality ELSE m.quality
        /\ slow' \in BOOLEAN
        /\ UNCHANGED <<acked, needFull>>
  /\ UNCHANGED <<screen, size, sent, settled, stalled, frameId, down, viewer, captures, requests>>

-----------------------------------------------------------------------------
(* The viewer.                                                             *)

ChooseSetting ==
  /\ Request
  /\ \E q \in Settings : up' = Append(up, [type |-> "settings", quality |-> q])
  /\ UNCHANGED <<screen, host, down, viewer, captures>>

RefreshTimer ==
  /\ ~mayRefresh /\ mayRefresh' = TRUE
  /\ UNCHANGED <<screen, host, down, up, viewSize, view, captures, requests>>

\* DISPLAY_INFO: another size starts with a cleared buffer.
Show(m) ==
  /\ m.type = "info"
  /\ IF m.size \in {0, viewSize} THEN UNCHANGED <<viewSize, view>>
     ELSE viewSize' = m.size /\ view' = Blank
  /\ UNCHANGED <<up, mayRefresh>>

\* on_frame: tiles are painted until one does not fit; the frame is always
\* acknowledged, and a REFRESH asked for if that was not done a moment ago.
\* Without a texture it is dropped.
Fits(m) == \A k \in DOMAIN m.tiles : k <= viewSize

Paint(m) ==
  /\ m.type = "frame"
  /\ IF viewSize = 0 THEN UNCHANGED <<viewSize, view, mayRefresh, up>>
     ELSE /\ \E drawn \in IF Fits(m) THEN {DOMAIN m.tiles}
                          ELSE SUBSET {k \in DOMAIN m.tiles : k <= viewSize} :
               view' = [k \in Tile |-> IF k \in drawn THEN m.tiles[k] ELSE view[k]]
          /\ up' = Append(up, [type |-> "ack", id |-> m.id]) \o
                   IF ~Fits(m) /\ mayRefresh THEN <<[type |-> "refresh"]>> ELSE <<>>
          /\ mayRefresh' = (mayRefresh /\ Fits(m))
          /\ UNCHANGED viewSize

Deliver ==
  /\ down # <<>> /\ down' = Tail(down)
  /\ Show(Head(down)) \/ Paint(Head(down))
  /\ UNCHANGED <<screen, host, captures, requests>>

Next ==
  \/ Capture \/ SwitchDisplay \/ SwitchFails
  \/ SendFrame \/ Wait \/ Settle \/ Adapt \/ Receive
  \/ ChooseSetting \/ RefreshTimer \/ Deliver

Spec == Init /\ [][Next]_vars

\* The capturer publishes after a restart, the loop turns, the network
\* delivers, time passes.
FairSpec ==
  /\ Spec
  /\ WF_vars(Capture /\ latest = NoFrame)
  /\ WF_vars(SendFrame) /\ WF_vars(Settle) /\ WF_vars(Receive)
  /\ WF_vars(RefreshTimer) /\ WF_vars(Deliver)

-----------------------------------------------------------------------------
(* Properties.                                                             *)

Message ==
  [type : {"info"}, size : Sizes \cup {0}] \cup
  [type : {"frame"}, id : 0..(IdModulus - 1),
   tiles : UNION {[T -> Painted] : T \in (SUBSET Tile) \ {{}}}]
Answer ==
  [type : {"ack"}, id : 0..(IdModulus - 1)] \cup [type : {"refresh"}] \cup
  [type : {"settings"}, quality : Settings]

TypeOK ==
  /\ latest \in Frames \cup {NoFrame}
  /\ fresh \in BOOLEAN /\ running \in BOOLEAN /\ resizes \in BOOLEAN
  /\ needFull \in BOOLEAN /\ settled \in BOOLEAN /\ stalled \in BOOLEAN /\ slow \in BOOLEAN
  /\ mayRefresh \in BOOLEAN
  /\ size \in Sizes \cup {0} /\ viewSize \in Sizes \cup {0}
  /\ sent \in [Tile -> Painted] /\ view \in [Tile -> Painted]
  /\ setting \in Settings \cup {Automatic} /\ quality \in Level
  /\ {frameId, acked} \subseteq 0..(IdModulus - 1)
  /\ \A n \in DOMAIN down : down[n] \in Message
  /\ \A n \in DOMAIN up : up[n] \in Answer

\* Flow control: what the host counts as unacknowledged is exactly what is on
\* its way, as a frame or as an acknowledgement, and never more than the limit.
Number(s, t) == Cardinality({n \in DOMAIN s : s[n].type = t})
FlowControl ==
  /\ InFlight <= MaxInFlight
  /\ InFlight = Number(down, "frame") + Number(up, "ack")

\* The viewer's buffer once everything on its way has arrived.
After(v, m) ==
  IF m.type = "frame"
  THEN [size |-> v.size, view |-> [k \in Tile |-> IF k \in DOMAIN m.tiles THEN m.tiles[k] ELSE v.view[k]]]
  ELSE IF m.size \in {0, v.size} THEN v ELSE [size |-> m.size, view |-> Blank]
Arrived ==
  LET after[n \in 0..Len(down)] ==
        IF n = 0 THEN [size |-> viewSize, view |-> view] ELSE After(after[n - 1], down[n])
  IN after[Len(down)]

\* The shadow is what the viewer will show, unless everything is to be sent
\* again: so every later difference is against the right picture.  (A screen
\* that changes size between send_display_info and the frame may break this and
\* the next three.)
ShadowIsView == resizes \/ needFull \/ (Arrived.size = size /\ Arrived.view = sent)

\* No tile of a frame falls outside the screen the viewer was told of.
FramesFit ==
  ~resizes /\ down # <<>> /\ Head(down).type = "frame" => viewSize # 0 /\ Fits(Head(down))

\* Nothing is on its way and the host has nothing it would send.
Quiet == down = <<>> /\ up = <<>> /\ latest # NoFrame /\ ~(Wanted \/ Resized) /\ settled

\* When all is quiet the viewer shows the screen, and in automatic mode shows
\* it losslessly.
QuietIsExact ==
  Quiet /\ ~resizes =>
    /\ viewSize = latest.size
    /\ \A k \in 1..viewSize : view[k].color = latest.pix[k]
    /\ setting = Automatic => LossyTiles(view) = {}

\* All becomes quiet once the screen stops changing and nobody asks for more.
BecomesQuiet == <>[](resizes \/ ~running \/ Quiet)

\* handle_session_message on SETTINGS: "sharper settings take effect through
\* per-tile refinement".
SharperTakesEffect == Quiet /\ setting # Automatic => \A k \in Tile : view[k].q <= setting
=============================================================================
