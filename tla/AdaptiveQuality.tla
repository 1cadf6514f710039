-------------------------- MODULE AdaptiveQuality --------------------------
(***************************************************************************)
(* Server::adapt_quality (host/server.cpp): once a second the host looks   *)
(* at how many frames it sent a viewer and how often a new frame met a     *)
(* backed-up send queue, and trades frame rate and colours for speed.      *)
(* "When the network can't keep up ... first lower the frame rate, and     *)
(* only reduce colour depth if that isn't enough.  When things are smooth  *)
(* again, restore colour first, then frame rate."                          *)
(*                                                                         *)
(* Abstracted: the counts of a window, to what the code asks of them.      *)
(***************************************************************************)
EXTENDS Integers

CONSTANTS
  MaxFps,     \* cfg_.max_fps
  FpsChoices, \* frame rates the viewer may ask for
  Automatic   \* quality setting 255

AdaptAssumption ==
  MaxFps \in Nat \ {0} /\ FpsChoices \subseteq 0..255 /\ Automatic \notin 0..3

VARIABLES
  fps,        \* the rate asked for, within the host's limit
  effFps,     \* eff_fps
  setting,    \* quality_setting
  quality,
  clean,      \* clean_windows
  smooth      \* the network keeps up from now on

vars == <<fps, effFps, setting, quality, clean, smooth>>

Least(a, b) == IF a < b THEN a ELSE b
Most(a, b) == IF a > b THEN a ELSE b

\* on_authenticated
Init ==
  /\ fps = MaxFps /\ effFps = MaxFps
  /\ setting = Automatic /\ quality = 0
  /\ clean = 0 /\ smooth = FALSE

\* The rate a viewer gets for the rate it asks for.
Granted(f) == Most(1, Least(MaxFps, f))

\* SETTINGS; one with another quality leaves the effective level of the
\* automatic mode as it is.
ChooseSettings ==
  /\ ~smooth
  /\ \E q \in 0..3 \cup {Automatic}, f \in FpsChoices :
    /\ setting' = q
    /\ quality' = IF q = Automatic THEN quality ELSE q
    /\ fps' = Granted(f) /\ effFps' = Granted(f)
    /\ UNCHANGED <<clean, smooth>>

\* The operators whose comment says "mutant" are wrong on purpose: each is the
\* operator below it with a bug that some property rules out.

\* A window with more than two stalls, and more than one for two frames sent.
ColourFirst == effFps > 30                                             \* mutant
CanSlowDown == effFps > 10

Congested ==
  /\ ~smooth
  /\ clean' = 0
  /\ IF CanSlowDown
     THEN effFps' = Most(10, effFps \div 2) /\ UNCHANGED quality
     ELSE /\ quality' = IF setting = Automatic /\ quality < 2 THEN quality + 1 ELSE quality
          /\ UNCHANGED effFps
  /\ UNCHANGED <<fps, setting, smooth>>

\* What the second smooth window in a row restores.
ShortOfRequest == Least(fps - 1, effFps * 2)                           \* mutant
Faster == Least(fps, effFps * 2)
ColoursLost == setting = Automatic /\ quality > 0

Restore ==
  \/ ColoursLost /\ quality' = quality - 1 /\ UNCHANGED effFps
  \/ ~ColoursLost /\ effFps < fps /\ effFps' = Faster /\ UNCHANGED quality
  \/ ~ColoursLost /\ effFps >= fps /\ UNCHANGED <<effFps, quality>>

\* A window without a stall.
Smooth ==
  /\ IF clean + 1 >= 2
     THEN clean' = 0 /\ Restore
     ELSE clean' = clean + 1 /\ UNCHANGED <<effFps, quality>>
  /\ UNCHANGED <<fps, setting, smooth>>

\* A window with few stalls.
Mixed ==
  /\ ~smooth
  /\ clean' = 0
  /\ UNCHANGED <<fps, effFps, setting, quality, smooth>>

\* The network recovers for good, and the user changes nothing from then on.
Recover == smooth' = TRUE /\ UNCHANGED <<fps, effFps, setting, quality, clean>>

Next == ChooseSettings \/ Congested \/ Smooth \/ Mixed \/ Recover

Spec == Init /\ [][Next]_vars

\* Windows end.
FairSpec == Spec /\ WF_vars(Smooth)

-----------------------------------------------------------------------------
(* Properties.                                                             *)

TypeOK ==
  /\ fps \in 1..MaxFps /\ effFps \in 1..MaxFps
  /\ setting \in 0..3 \cup {Automatic} /\ quality \in 0..3
  /\ clean \in 0..1 /\ smooth \in BOOLEAN

\* Colours go only when the rate is as low as it gets, and the rate comes back
\* only when the colours are back.
RateBeforeColour ==
  [][ ~ChooseSettings =>
        /\ quality' > quality => effFps <= 10
        /\ effFps' > effFps /\ setting = Automatic => quality = 0 ]_vars

\* What must hold for good in the end: on a network that keeps up, and with
\* nobody changing the settings, the full rate and all colours are back.
Restored == smooth => effFps = fps /\ (setting = Automatic => quality = 0)
=============================================================================
