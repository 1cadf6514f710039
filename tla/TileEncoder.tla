---------------------------- MODULE TileEncoder ----------------------------
(***************************************************************************)
(* FrameEncoder::encode (host/encoder.cpp): every index of the pool takes  *)
(* chunks of tiles from an atomic counter, sends the tiles that changed,   *)
(* and spends a shared budget on sending again, losslessly, tiles that did *)
(* not change but were last sent lossy.                                    *)
(*                                                                         *)
(* The pool is its promise, RunAll: Start and Return bracket one call and  *)
(* Do(i) is index i leaving its loop.  What threads share are the two      *)
(* atomic counters; all else a thread touches belongs to the tile it       *)
(* handles, so handling one tile is one step that contains the refinement  *)
(* counter's fetch_add.  A pixel block is a value; what a viewer shows for *)
(* it is the block and the quality it was sent at.                         *)
(***************************************************************************)
EXTENDS RunAll, FiniteSets, Sequences, SequencesExt, FiniteSetsExt

CONSTANTS
  Total,      \* tiles of a frame
  Chunk,      \* tiles taken at a time (4 in the code)
  Color,      \* contents of a tile
  Qualities,  \* quality levels in use, 0 is lossless
  Budgets,    \* refine_budget values in use
  MaxEncodes  \* bound: calls of encode

EncoderAssumption ==
  /\ WorkersAssumption
  /\ {Total, Chunk, MaxEncodes} \subseteq Nat
  /\ Chunk > 0
  /\ Qualities \subseteq Nat /\ 0 \in Qualities /\ Budgets \subseteq Nat

VARIABLES
  frame,      \* the pixels to send
  shadow,     \* the pixels last sent
  tileQ,      \* tile_q: the quality each tile was last sent at
  next,       \* the first tile no thread has taken
  refines,    \* tries to spend the refinement budget
  span,       \* the tiles each thread still has of its chunk
  scratch,    \* the records each thread has written
  full,       \* arguments of the call
  quality,
  budget,
  refined,    \* the sum of stats[i].refined
  screen,     \* what a viewer shows that has decoded every message
  before,     \* history: shadow and tileQ when the call began
  encodes     \* calls so far

call == <<frame, full, quality, budget, before, encodes>>
encVars == <<frame, shadow, tileQ, next, refines, span, scratch, full, quality,
             budget, refined, screen, before, encodes>>
vars == <<phase, left, frame, shadow, tileQ, next, refines, span, scratch, full,
          quality, budget, refined, screen, before, encodes>>

Tile == 0..(Total - 1)

\* A connection starts with a zeroed shadow and has been sent nothing.
Init ==
  /\ RunInit
  /\ \E c \in Color : shadow = [k \in Tile |-> c] /\ frame = shadow
  /\ tileQ = [k \in Tile |-> 0]
  /\ next = 0 /\ refines = 0 /\ refined = 0
  /\ span = [i \in Index |-> {}]
  /\ scratch = [i \in Index |-> <<>>]
  /\ full = TRUE /\ quality = 0 /\ budget = 0
  /\ screen = [k \in Tile |-> [color |-> frame[k], q |-> 0]]
  /\ before = [shadow |-> shadow, tileQ |-> tileQ]
  /\ encodes = 0

\* encode is called with the frame on screen; the first frame is sent whole.
Begin ==
  /\ Start
  /\ encodes < MaxEncodes
  /\ encodes' = encodes + 1
  /\ frame' \in [Tile -> Color]
  /\ full' \in {b \in BOOLEAN : encodes = 0 => b}
  /\ quality' \in Qualities
  /\ budget' \in Budgets
  /\ next' = 0 /\ refines' = 0 /\ refined' = 0
  /\ scratch' = [i \in Index |-> <<>>]
  /\ before' = [shadow |-> shadow, tileQ |-> tileQ]
  /\ UNCHANGED <<shadow, tileQ, span, screen>>

\* The operators whose comment says "mutant" are wrong on purpose: each is the
\* operator below it with a bug that some property rules out.

\* How far fetch_add moves the counter, and the tiles that gives the thread.
AdvanceShort == next + Chunk - 1                                       \* mutant
Advance == next + Chunk
TakenFrom(t) == {k \in Tile : t <= k /\ k < t + Chunk}

\* A thread gets its next chunk, or leaves its loop when there is none.
Grab(i) ==
  /\ i \in left /\ span[i] = {}
  /\ next' = Advance
  /\ IF next < Total
     THEN span' = [span EXCEPT ![i] = TakenFrom(next)] /\ UNCHANGED <<phase, left>>
     ELSE Do(i) /\ UNCHANGED span
  /\ UNCHANGED <<call, shadow, tileQ, refines, scratch, refined, screen>>

Record(k, q) == [tile |-> k, color |-> frame[k], q |-> q]

\* A tile is sent at the call's quality when it changed or everything must be.
Dirty(k) == full \/ frame[k] # shadow[k]

\* Whether the fetch_add on refines stayed within the budget.
OneTooMany == refines <= budget                                        \* mutant
WithinBudget == refines < budget

\* The quality tile_q remembers.
ForgetQuality(k, q) == tileQ                                           \* mutant
RememberQuality(k, q) == [tileQ EXCEPT ![k] = q]

\* The unchanged tiles worth sending again.
Lossy(k) == tileQ[k] # 0

Emit(i, k, q) ==
  /\ tileQ' = RememberQuality(k, q)
  /\ scratch' = [scratch EXCEPT ![i] = Append(@, Record(k, q))]

Handle(i) ==
  /\ span[i] # {}
  /\ LET k == Min(span[i]) IN
     /\ span' = [span EXCEPT ![i] = @ \ {k}]
     /\ \/ /\ Dirty(k)
           /\ shadow' = [shadow EXCEPT ![k] = frame[k]]
           /\ Emit(i, k, quality)
           /\ UNCHANGED <<refines, refined>>
        \/ /\ ~Dirty(k) /\ Lossy(k)
           /\ refines' = refines + 1
           /\ IF WithinBudget
              THEN refined' = refined + 1 /\ Emit(i, k, 0)
              ELSE UNCHANGED <<refined, tileQ, scratch>>
           /\ UNCHANGED shadow
        \/ /\ ~Dirty(k) /\ ~Lossy(k)
           /\ UNCHANGED <<shadow, refines, refined, tileQ, scratch>>
  /\ UNCHANGED <<phase, left, call, next, screen>>

-----------------------------------------------------------------------------
(* The message is the threads' records one thread after another; the       *)
(* viewer decodes them in that order.                                      *)

Message == FlattenSeq([n \in 1..(N + 1) |-> scratch[n - 1]])

Painted == [k \in Tile |->
  LET hits == {n \in DOMAIN Message : Message[n].tile = k} IN
  IF hits = {} THEN screen[k]
  ELSE [color |-> Message[Max(hits)].color, q |-> Message[Max(hits)].q]]

Merge ==
  /\ Return
  /\ screen' = Painted
  /\ UNCHANGED <<call, shadow, tileQ, next, refines, span, scratch, refined>>

\* The connection ends.
Gone == Stop /\ UNCHANGED encVars

Next ==
  \/ Begin \/ Merge \/ Gone
  \/ \E i \in Index : Grab(i) \/ Handle(i)

Spec == Init /\ [][Next]_vars

-----------------------------------------------------------------------------
(* Properties.                                                             *)

\* Threads work on the shadow, tile_q and the frame without a lock: no tile is
\* in two threads' hands, and none that was handled is handled again.
NoSharedTile ==
  /\ \A i, j \in Index : i # j => span[i] \cap span[j] = {}
  /\ \A i, j \in Index : \A n \in DOMAIN scratch[i] :
       scratch[i][n].tile \notin span[j]

\* Between calls a viewer shows the pixels the host believes it sent, at the
\* quality the host believes it sent them: else a stale tile is never repaired.
ViewerMatchesShadow ==
  phase = "idle" => \A k \in Tile : screen[k] = [color |-> shadow[k], q |-> tileQ[k]]

\* What a call owes, whatever the threads' interleaving: the changed tiles at
\* the asked quality, of the unchanged lossy ones as many as the budget allows
\* and no other, and each at most once.
Candidates == {k \in Tile : ~full /\ frame[k] = before.shadow[k] /\ before.tileQ[k] # 0}
Changed == {k \in Tile : full \/ frame[k] # before.shadow[k]}
Sent == {Message[n].tile : n \in DOMAIN Message}

OwedIsSent ==
  phase = "running" /\ left = {} =>
    /\ Len(Message) = Cardinality(Sent)
    /\ Changed \subseteq Sent /\ Sent \subseteq Changed \cup Candidates
    /\ \A n \in DOMAIN Message : Message[n].q = IF Message[n].tile \in Changed THEN quality ELSE 0
    /\ refined = Cardinality(Sent \ Changed)
    /\ refined = Min({budget, Cardinality(Candidates)})
=============================================================================
