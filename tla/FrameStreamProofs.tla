-------------------------- MODULE FrameStreamProofs --------------------------
(***************************************************************************)
(* Proofs about screen streaming (FrameStream), for any sizes, colours,    *)
(* limits and width of the frame ids.                                      *)
(***************************************************************************)
EXTENDS FrameStream, FiniteSetTheorems, SequenceTheorems, WellFoundedInduction, TLAPS

-----------------------------------------------------------------------------
(* Numbers.                                                                *)

\* Induction over numbers: a set of them has a least one.
LEMMA LeastNumber ==
  ASSUME NEW T, T \subseteq Nat, T # {}
  PROVE  \E n \in T : \A m \in T : n <= m
<1>1. PICK n \in T : \A m \in Nat : <<m, n>> \in OpToRel(<, Nat) => m \notin T
  BY NatLessThanWellFounded, WFMin
<1>2. \A m \in T : ~(m < n)
  BY <1>1 DEF OpToRel
<1>. QED
  BY <1>2

\* A finite set of numbers has a greatest one: by induction over how many it has.
LEMMA GreatestNumber ==
  ASSUME NEW S, IsFiniteSet(S), S \subseteq Nat, S # {}
  PROVE  \E n \in S : \A m \in S : m <= n
<1>. DEFINE Bad(T) == IsFiniteSet(T) /\ T \subseteq Nat /\ T # {} /\ ~\E n \in T : \A m \in T : m <= n
            B == {k \in Nat : \E T : Bad(T) /\ Cardinality(T) = k}
<1>1. SUFFICES ASSUME Bad(S) PROVE FALSE
  OBVIOUS
<1>2. Cardinality(S) \in B
  BY <1>1, FS_CardinalityType
<1>3. PICK k \in B : \A m \in B : k <= m
  <2>. HIDE DEF B
  <2>1. B \subseteq Nat
    BY DEF B
  <2>. QED
    BY <1>2, <2>1, LeastNumber
<1>4. PICK T : Bad(T) /\ Cardinality(T) = k /\ k \in Nat
  BY <1>3
<1>5. PICK x \in T : x \in Nat
  BY <1>4
<1>6. IsFiniteSet(T \ {x}) /\ Cardinality(T \ {x}) = k - 1
  BY <1>4, <1>5, FS_RemoveElement
<1>7. CASE T \ {x} = {}
  <2>1. \A m \in T : m <= x
    BY <1>5, <1>7
  <2>. QED
    BY <1>4, <1>5, <2>1
<1>8. CASE T \ {x} # {}
  <2>1. ~Bad(T \ {x})
    <3>1. k - 1 \in Nat
      BY <1>6, FS_CardinalityType
    <3>2. k - 1 \notin B
      BY <1>3, <1>4, <3>1
    <3>. QED
      BY <1>6, <3>1, <3>2
  <2>2. PICK y \in T \ {x} : \A m \in T \ {x} : m <= y
    BY <1>4, <1>6, <1>8, <2>1
  <2>3. y \in Nat /\ T \subseteq Nat
    BY <1>4
  <2>4. CASE x <= y
    BY <1>4, <1>5, <2>2, <2>3, <2>4
  <2>5. CASE ~(x <= y)
    <3>1. \A m \in T : m <= x
      BY <1>5, <2>2, <2>3, <2>5
    <3>. QED
      BY <1>4, <1>5, <3>1
  <2>. QED
    BY <2>4, <2>5
<1>. QED
  BY <1>7, <1>8

\* Every size is one of tiles.
LEMMA SizesAreTiled ==
  /\ MaxSize \in Nat
  /\ \A n \in Sizes : n \in Nat /\ n > 0 /\ 1..n \subseteq Tile
<1>1. Sizes \subseteq Nat \ {0} /\ Sizes # {} /\ IsFiniteSet(Sizes)
  BY StreamAssumption
<1>2. \E n \in Sizes : \A m \in Sizes : m <= n
  <2>1. Sizes \subseteq Nat
    BY <1>1
  <2>. QED
    BY <1>1, <2>1, GreatestNumber
<1>3. PICK n : n = MaxSize
  OBVIOUS
<1>4. n \in Sizes /\ \A m \in Sizes : m <= n
  BY <1>2, <1>3 DEF MaxSize
<1>. QED
  BY <1>1, <1>3, <1>4 DEF Tile

-----------------------------------------------------------------------------
(* Counting messages.                                                      *)

Count(s, t, j) == Cardinality({n \in 1..j : s[n].type = t})

\* Messages of one type in a sequence are counted member by member.
LEMMA CountStep ==
  ASSUME NEW s, NEW t, NEW j \in Nat
  PROVE  /\ Count(s, t, j) \in Nat
         /\ Count(s, t, 0) = 0
         /\ Count(s, t, j + 1) = Count(s, t, j) + (IF s[j + 1].type = t THEN 1 ELSE 0)
<1>. DEFINE D(k) == {h \in 1..k : s[h].type = t}
<1>1. IsFiniteSet(D(j)) /\ Cardinality(D(j)) \in Nat
  <2>1. IsFiniteSet(1..j)
    BY FS_Interval
  <2>2. D(j) \in SUBSET (1..j)
    OBVIOUS
  <2>. QED
    BY <2>1, <2>2, FS_Subset, FS_CardinalityType
<1>2. D(0) = {}
  OBVIOUS
<1>a. Count(s, t, j) = Cardinality(D(j)) /\ Count(s, t, j + 1) = Cardinality(D(j + 1))
  BY DEF Count
<1>3. Count(s, t, 0) = 0
  BY <1>2, FS_EmptySet DEF Count
<1>4. CASE s[j + 1].type = t
  <2>1. D(j + 1) = D(j) \cup {j + 1} /\ j + 1 \notin D(j)
    BY <1>4
  <2>2. Cardinality(D(j) \cup {j + 1}) =
          IF j + 1 \in D(j) THEN Cardinality(D(j)) ELSE Cardinality(D(j)) + 1
    BY <1>1, FS_AddElement
  <2>. QED
    BY <1>1, <1>3, <1>4, <1>a, <2>1, <2>2
<1>5. CASE s[j + 1].type # t
  <2>1. D(j + 1) = D(j)
    BY <1>5
  <2>. QED
    <3>. HIDE DEF D
    <3>. QED
      BY <1>1, <1>3, <1>5, <1>a, <2>1
<1>. QED
  BY <1>4, <1>5

\* What comes behind does not change the count in front.
LEMMA CountAlike ==
  ASSUME NEW s, NEW r, NEW t, NEW j \in Nat, \A h \in 1..j : r[h] = s[h]
  PROVE  Count(r, t, j) = Count(s, t, j)
  BY DEF Count

\* Counting from the second message on.
LEMMA CountShifted ==
  ASSUME NEW s, NEW r, NEW t, NEW j \in Nat, \A h \in 1..j : r[h] = s[h + 1]
  PROVE  Count(s, t, j + 1) = Count(r, t, j) + (IF s[1].type = t THEN 1 ELSE 0)
<1>. DEFINE one == IF s[1].type = t THEN 1 ELSE 0
            Bad == {k \in 0..j : Count(s, t, k + 1) # Count(r, t, k) + one}
<1>1. SUFFICES ASSUME Bad # {} PROVE FALSE
  OBVIOUS
<1>2. PICK n \in Bad : \A m \in Bad : n <= m
  <2>1. Bad \subseteq Nat
    OBVIOUS
  <2>. HIDE DEF Bad
  <2>. QED
    BY <1>1, <2>1, LeastNumber
<1>3. n \in 0..j /\ Count(s, t, n + 1) # Count(r, t, n) + one
  BY <1>2
<1>4. n # 0
  <2>1. Count(s, t, 0) = 0 /\ Count(r, t, 0) = 0 /\ Count(s, t, 0 + 1) = Count(s, t, 0) + one
    BY CountStep
  <2>. QED
    BY <1>3, <2>1
<1>5. n - 1 \in Nat /\ n \in Nat /\ n - 1 \notin Bad
  BY <1>2, <1>3, <1>4
<1>6. Count(s, t, n) = Count(r, t, n - 1) + one
  BY <1>3, <1>5
<1>7. Count(s, t, n + 1) = Count(s, t, n) + (IF s[n + 1].type = t THEN 1 ELSE 0)
  BY <1>5, CountStep
<1>8. Count(r, t, n) = Count(r, t, n - 1) + (IF r[n].type = t THEN 1 ELSE 0)
  <2>1. PICK k \in Nat : k = n - 1
    BY <1>5
  <2>2. Count(r, t, k + 1) = Count(r, t, k) + (IF r[k + 1].type = t THEN 1 ELSE 0) /\ k + 1 = n
    BY <1>5, <2>1, CountStep
  <2>. QED
    BY <2>1, <2>2
<1>9. r[n] = s[n + 1]
  BY <1>3, <1>4
<1>10. Count(s, t, n) \in Nat /\ Count(r, t, n - 1) \in Nat
  BY <1>5, CountStep
<1>. QED
  BY <1>3, <1>6, <1>7, <1>8, <1>9, <1>10

-----------------------------------------------------------------------------
(* Types.                                                                  *)

Id == 0..(IdModulus - 1)
Patches == UNION {[T -> Painted] : T \in (SUBSET Tile) \ {{}}}
InfoMsg == [type : {"info"}, size : Sizes \cup {0}]
FrameMsg == [type : {"frame"}, id : Id, tiles : Patches]
AckMsg == [type : {"ack"}, id : Id]
RefreshMsg == [type : {"refresh"}]
SettingsMsg == [type : {"settings"}, quality : Settings]

Typed ==
  /\ latest \in Frames \cup {NoFrame}
  /\ fresh \in BOOLEAN /\ running \in BOOLEAN /\ resizes \in BOOLEAN
  /\ needFull \in BOOLEAN /\ settled \in BOOLEAN /\ mayRefresh \in BOOLEAN
  /\ size \in Sizes \cup {0} /\ viewSize \in Sizes \cup {0}
  /\ sent \in [Tile -> Painted] /\ view \in [Tile -> Painted]
  /\ setting \in Settings \cup {Automatic} /\ quality \in Level
  /\ frameId \in Id /\ acked \in Id
  /\ down \in Seq(InfoMsg \cup FrameMsg)
  /\ up \in Seq(AckMsg \cup RefreshMsg \cup SettingsMsg)

\* Every value of the constants that a message or a variable starts with.
LEMMA Values ==
  /\ 0 \in Id /\ IdModulus \in Nat /\ IdModulus > 2 * MaxInFlight + 1 /\ MaxInFlight \in Nat
  /\ Blank \in [Tile -> Painted]
  /\ NoFrame \notin Frames /\ NoFrame.size = 0
  /\ \A f \in Frames : /\ f.size \in Sizes /\ f.size # 0 /\ f.pix \in [Tile -> Color]
                       /\ f.size \in Nat /\ 1..f.size \subseteq Tile
                       /\ \A k \in Tile : k > f.size => f.pix[k] = Black
<1>1. MaxInFlight \in Nat /\ IdModulus \in Nat /\ IdModulus > 2 * MaxInFlight + 1
  BY StreamAssumption
<1>2. 0 \in Id
  BY <1>1 DEF Id
<1>3. Blank \in [Tile -> Painted]
  <2>1. Black \in Color /\ 0 \in Level
    BY StreamAssumption DEF Level
  <2>. QED
    BY <2>1 DEF Blank, Painted
<1>4. NoFrame.size = 0
  BY DEF NoFrame
<1>5. ASSUME NEW f \in Frames
      PROVE  /\ f.size \in Sizes /\ f.size # 0 /\ f.pix \in [Tile -> Color]
             /\ f.size \in Nat /\ 1..f.size \subseteq Tile
             /\ \A k \in Tile : k > f.size => f.pix[k] = Black
  <2>1. f \in [size : Sizes, pix : [Tile -> Color]] /\ \A k \in Tile : k > f.size => f.pix[k] = Black
    BY DEF Frames
  <2>2. f.size \in Sizes /\ f.pix \in [Tile -> Color]
    BY <2>1
  <2>. QED
    BY <2>1, <2>2, SizesAreTiled
<1>6. NoFrame \notin Frames
  BY <1>4, <1>5
<1>. QED
  BY <1>1, <1>2, <1>3, <1>4, <1>5, <1>6

\* What an announcement says.
LEMMA AnnounceSays ==
  ASSUME Typed, latest # NoFrame, Announce
  PROVE  /\ latest \in Frames /\ latest' \in Frames
         /\ ~Resized => Info = <<>> /\ size = latest.size
         /\ Resized => Info = <<[type |-> "info", size |-> latest'.size]>>
         /\ ~resizes => latest' = latest
<1>1. latest \in Frames
  BY DEF Typed
<1>2. latest' \in Frames /\ (~resizes => latest' = latest)
  BY <1>1 DEF Announce
<1>3. (~Resized => Info = <<>>) /\ (Resized => Info = <<[type |-> "info", size |-> latest'.size]>>)
  BY DEF Info
<1>4. ~Resized => size = latest.size
  BY DEF Resized
<1>. QED
  BY <1>1, <1>2, <1>3, <1>4

\* The messages behind an announcement: none, or one that says a size.
Behind(d, e) ==
  \/ e = d /\ ~Resized
  \/ \E m \in InfoMsg : m.size = latest'.size /\ m.size # 0 /\ e = Append(d, m) /\ Resized

\* send_display_info adds at most a DISPLAY_INFO behind what is on its way.
LEMMA InfoBehind ==
  ASSUME Typed, latest # NoFrame, Announce
  PROVE  Behind(down, down \o Info) /\ down \o Info \in Seq(InfoMsg \cup FrameMsg)
<1>1. down \in Seq(InfoMsg \cup FrameMsg)
  BY DEF Typed
<1>2. CASE ~Resized
  <2>1. Info = <<>>
    BY <1>2, AnnounceSays
  <2>2. down \o <<>> = down
    BY <1>1
  <2>. QED
    BY <1>1, <1>2, <2>1, <2>2 DEF Behind
<1>3. CASE Resized
  <2>1. latest' \in Frames /\ Info = <<[type |-> "info", size |-> latest'.size]>>
    BY <1>3, AnnounceSays
  <2>2. PICK m : m = [type |-> "info", size |-> latest'.size]
    OBVIOUS
  <2>3. latest'.size \in Sizes /\ latest'.size # 0
    BY <2>1, Values
  <2>4. m \in InfoMsg /\ m.size = latest'.size
    BY <2>2, <2>3 DEF InfoMsg
  <2>5. m \in InfoMsg \cup FrameMsg
    BY <2>4
  <2>6. down \o <<m>> = Append(down, m) /\ Append(down, m) \in Seq(InfoMsg \cup FrameMsg)
    BY <1>1, <2>5
  <2>. QED
    BY <1>3, <2>1, <2>2, <2>3, <2>4, <2>6 DEF Behind
<1>. QED
  BY <1>2, <1>3

\* What a frame does: the tiles of the set T are sent, everything when that was
\* asked for, and then the shadow has the screen's contents.
Encoded(T) ==
  /\ sent' \in [Tile -> Painted]
  /\ \A k \in 1..latest.size : sent'[k].color = latest.pix[k]
  /\ \A k \in Tile : k \notin T => sent'[k] = Base[k]
  /\ Full => 1..latest.size \subseteq T
  /\ \A k \in T : k \in 1..latest.size \/ Base[k].q # 0
TheFrame(T) == [type |-> "frame", id |-> frameId', tiles |-> [k \in T |-> sent'[k]]]
FrameBehind(T, d) ==
  \/ T = {} /\ frameId' = frameId /\ down' = d
  \/ T # {} /\ frameId' = (frameId + 1) % IdModulus /\ down' = Append(d, TheFrame(T))

\* What maybe_send_frame compares with is a picture.
LEMMA BaseTyped ==
  ASSUME Typed
  PROVE  Base \in [Tile -> Painted]
  BY Values DEF Typed, Base

\* An encoded frame is a FRAME of some tiles behind what is on its way, and the shadow takes them.
LEMMA EncodeSends ==
  ASSUME Typed, latest \in Frames, down \o Info \in Seq(InfoMsg \cup FrameMsg), Encode(Full)
  PROVE  \E T \in SUBSET Tile : Encoded(T) /\ FrameBehind(T, down \o Info)
<1>1. PICK R \in Refinable(latest, Base, Full, Budget(Refine, Calm)) :
        /\ sent' = [k \in Tile |->
             IF k \in Dirty(latest, Base, Full) THEN [color |-> latest.pix[k], q |-> quality]
             ELSE IF k \in R THEN [color |-> latest.pix[k], q |-> 0] ELSE Base[k]]
        /\ IF Dirty(latest, Base, Full) \cup R = {}
           THEN frameId' = frameId /\ down' = down \o Info
           ELSE /\ frameId' = (frameId + 1) % IdModulus
                /\ down' = down \o Info \o
                     <<[type |-> "frame", id |-> frameId',
                        tiles |-> [k \in Dirty(latest, Base, Full) \cup R |->
                          [h \in Tile |->
                             IF h \in Dirty(latest, Base, Full)
                             THEN [color |-> latest.pix[h], q |-> quality]
                             ELSE IF h \in R THEN [color |-> latest.pix[h], q |-> 0]
                             ELSE Base[h]][k]]]>>
  BY DEF Encode
<1>2. PICK D : D = Dirty(latest, Base, Full)
  OBVIOUS
<1>3. PICK T : T = D \cup R
  OBVIOUS
<1>4. R \subseteq LossyTiles(Base) /\ R \subseteq Tile /\ \A k \in R : Base[k].q # 0
  <2>1. R \subseteq LossyTiles(Base)
    BY DEF Refinable
  <2>. QED
    BY <2>1 DEF LossyTiles
<1>5. D \subseteq 1..latest.size /\ D \subseteq Tile
  BY <1>2, Values DEF Dirty
<1>6. (Full => D = 1..latest.size) /\ \A k \in 1..latest.size : k \notin D => latest.pix[k] = Base[k].color
  BY <1>2 DEF Dirty
<1>7. PICK B : B = Base
  OBVIOUS
<1>8. sent' = [k \in Tile |->
                 IF k \in D THEN [color |-> latest.pix[k], q |-> quality]
                 ELSE IF k \in R THEN [color |-> latest.pix[k], q |-> 0] ELSE B[k]]
  BY <1>1, <1>2, <1>7
<1>9. B \in [Tile -> Painted] /\ quality \in Level /\ 0 \in Level /\ latest.pix \in [Tile -> Color]
  BY <1>7, BaseTyped, Values DEF Typed, Level
<1>10. sent' \in [Tile -> Painted]
  BY <1>8, <1>9 DEF Painted
<1>11. \A k \in Tile : k \notin T => sent'[k] = B[k]
  BY <1>3, <1>8
<1>12. ASSUME NEW k \in 1..latest.size
       PROVE  sent'[k].color = latest.pix[k]
  <2>1. k \in Tile
    BY Values
  <2>2. sent'[k] = IF k \in D THEN [color |-> latest.pix[k], q |-> quality]
                   ELSE IF k \in R THEN [color |-> latest.pix[k], q |-> 0] ELSE B[k]
    BY <1>8, <2>1
  <2>. QED
    BY <1>6, <1>7, <2>2
<1>13. Encoded(T)
  <2>1. \A k \in T : k \in 1..latest.size \/ Base[k].q # 0
    BY <1>3, <1>4, <1>5
  <2>2. Full => 1..latest.size \subseteq T
    BY <1>3, <1>6
  <2>. QED
    BY <1>7, <1>10, <1>11, <1>12, <2>1, <2>2 DEF Encoded
<1>14. FrameBehind(T, down \o Info)
  <2>1. CASE T = {}
    BY <1>1, <1>2, <1>3, <2>1 DEF FrameBehind
  <2>2. CASE T # {}
    <3>1. PICK e : e = down \o Info
      OBVIOUS
    <3>2. frameId' = (frameId + 1) % IdModulus /\
          down' = e \o <<[type |-> "frame", id |-> frameId', tiles |-> [k \in T |-> sent'[k]]]>>
      <4>2. PICK F : F = [k \in Dirty(latest, Base, Full) \cup R |->
                            [h \in Tile |->
                               IF h \in Dirty(latest, Base, Full)
                               THEN [color |-> latest.pix[h], q |-> quality]
                               ELSE IF h \in R THEN [color |-> latest.pix[h], q |-> 0]
                               ELSE Base[h]][k]]
        OBVIOUS
      <4>3. F = [k \in T |-> sent'[k]]
        BY <1>1, <1>2, <1>3, <4>2
      <4>4. frameId' = (frameId + 1) % IdModulus
        BY <1>1, <1>2, <1>3, <2>2
      <4>5. down' = down \o Info \o <<[type |-> "frame", id |-> frameId', tiles |-> F]>>
        BY <1>1, <1>2, <1>3, <2>2, <4>2, Zenon
      <4>. QED
        BY <3>1, <4>3, <4>4, <4>5
    <3>3. PICK m : m = TheFrame(T)
      OBVIOUS
    <3>4. down' = e \o <<m>>
      BY <3>2, <3>3 DEF TheFrame
    <3>5. e \o <<m>> = Append(e, m)
      BY <3>1
    <3>. QED
      BY <2>2, <3>1, <3>2, <3>3, <3>4, <3>5 DEF FrameBehind
  <2>. QED
    BY <2>1, <2>2
<1>15. T \in SUBSET Tile
  BY <1>3, <1>4, <1>5
<1>. QED
  BY <1>13, <1>14, <1>15

\* The host numbers its frames in the width of the ids.
LEMMA FrameTyped ==
  ASSUME Typed, NEW T \in SUBSET Tile, T # {}, Encoded(T), frameId' = (frameId + 1) % IdModulus
  PROVE  frameId' \in Id /\ TheFrame(T) \in FrameMsg
<1>1. frameId' \in Id
  <2>1. frameId \in 0..(IdModulus - 1) /\ IdModulus \in Nat /\ IdModulus > 0
    BY Values DEF Typed, Id
  <2>. QED
    BY <2>1 DEF Id
<1>2. PICK p : p = [k \in T |-> sent'[k]]
  OBVIOUS
<1>3. p \in [T -> Painted]
  BY <1>2 DEF Encoded
<1>4. p \in Patches
  BY <1>3 DEF Patches
<1>5. TheFrame(T) = [type |-> "frame", id |-> frameId', tiles |-> p]
  BY <1>2 DEF TheFrame
<1>. QED
  BY <1>1, <1>4, <1>5 DEF FrameMsg

\* maybe_send_frame that sends keeps the types.
LEMMA SendFrameTyped ==
  ASSUME Typed, SendFrame
  PROVE  Typed'
<1>1. latest # NoFrame /\ Announce /\ Encode(Full)
  BY DEF SendFrame
<1>2. latest \in Frames /\ latest' \in Frames
  BY <1>1, AnnounceSays
<1>3. down \o Info \in Seq(InfoMsg \cup FrameMsg)
  BY <1>1, InfoBehind
<1>4. PICK T \in SUBSET Tile : Encoded(T) /\ FrameBehind(T, down \o Info)
  BY <1>1, <1>2, <1>3, EncodeSends
<1>5. frameId' \in Id /\ down' \in Seq(InfoMsg \cup FrameMsg)
  <2>1. CASE T = {}
    BY <1>3, <1>4, <2>1 DEF FrameBehind, Typed
  <2>2. CASE T # {}
    <3>1. frameId' = (frameId + 1) % IdModulus /\ down' = Append(down \o Info, TheFrame(T))
      BY <1>4, <2>2 DEF FrameBehind
    <3>2. frameId' \in Id /\ TheFrame(T) \in FrameMsg
      BY <1>4, <2>2, <3>1, FrameTyped
    <3>. QED
      BY <1>3, <3>1, <3>2
  <2>. QED
    BY <2>1, <2>2
<1>6. size' \in Sizes \cup {0}
  BY <1>2, Values DEF SendFrame
<1>7. sent' \in [Tile -> Painted]
  BY <1>4 DEF Encoded
<1>8. fresh' \in BOOLEAN /\ settled' \in BOOLEAN /\ needFull' \in BOOLEAN
  BY Zenon DEF SendFrame, FreshAfter, Calm
<1>. QED
  BY <1>2, <1>5, <1>6, <1>7, <1>8 DEF SendFrame, viewer, Typed

\* maybe_send_frame that sends no frame keeps the types.
LEMMA WaitTyped ==
  ASSUME Typed, Wait
  PROVE  Typed'
<1>1. latest # NoFrame /\ Announce
  BY DEF Wait
<1>2. latest \in Frames /\ latest' \in Frames
  BY <1>1, AnnounceSays
<1>3. down' \in Seq(InfoMsg \cup FrameMsg)
  BY <1>1, InfoBehind DEF Wait
<1>4. size' \in Sizes \cup {0}
  BY <1>2, Values DEF Wait
<1>5. sent' \in [Tile -> Painted]
  BY BaseTyped DEF Wait
<1>6. fresh' \in BOOLEAN /\ settled' \in BOOLEAN /\ needFull' \in BOOLEAN
  BY Zenon DEF Wait, Typed, FreshAfter, Calm, Full, Resized
<1>. QED
  BY <1>2, <1>3, <1>4, <1>5, <1>6 DEF Wait, viewer, Typed

\* The host that reads a message of the viewer keeps the types.
LEMMA ReceiveTyped ==
  ASSUME Typed, Receive
  PROVE  Typed'
<1>1. up # <<>> /\ up' = Tail(up) /\ up \in Seq(AckMsg \cup RefreshMsg \cup SettingsMsg)
  BY DEF Receive, Typed
<1>2. up' \in Seq(AckMsg \cup RefreshMsg \cup SettingsMsg)
      /\ Head(up) \in AckMsg \cup RefreshMsg \cup SettingsMsg
  BY <1>1
<1>3. PICK m : m = Head(up)
  OBVIOUS
<1>4. m \in AckMsg \cup RefreshMsg \cup SettingsMsg
  BY <1>2, <1>3
<1>5. acked' \in Id
  <2>1. m.type = "ack" => m.id \in Id
    BY <1>4 DEF AckMsg, RefreshMsg, SettingsMsg
  <2>. QED
    BY <1>3, <2>1 DEF Receive, Typed
<1>6. setting' \in Settings \cup {Automatic} /\ quality' \in Level
  <2>1. m.type = "settings" => m.quality \in Settings
    BY <1>4 DEF AckMsg, RefreshMsg, SettingsMsg
  <2>2. \A q \in Settings : q # Automatic => q \in Level
    BY StreamAssumption DEF Level
  <2>. QED
    BY <1>3, <2>1, <2>2 DEF Receive, Typed
<1>7. needFull' \in BOOLEAN
  BY DEF Receive, Typed
<1>. QED
  BY <1>2, <1>5, <1>6, <1>7 DEF Receive, screen, viewer, Typed

\* The viewer that reads a message of the host keeps the types.
LEMMA DeliverTyped ==
  ASSUME Typed, Deliver
  PROVE  Typed'
<1>1. down # <<>> /\ down' = Tail(down) /\ down \in Seq(InfoMsg \cup FrameMsg)
  BY DEF Deliver, Typed
<1>2. down' \in Seq(InfoMsg \cup FrameMsg) /\ Head(down) \in InfoMsg \cup FrameMsg
  BY <1>1
<1>3. PICK m : m = Head(down)
  OBVIOUS
<1>4. Show(m) \/ Paint(m)
  BY <1>3 DEF Deliver
<1>5. CASE Show(m)
  <2>1. m \in InfoMsg
    BY <1>2, <1>3, <1>5 DEF Show, FrameMsg
  <2>2. viewSize' \in Sizes \cup {0}
    BY <1>5, <2>1 DEF Show, InfoMsg, Typed
  <2>3. view' \in [Tile -> Painted]
    BY <1>5, Values DEF Show, Typed
  <2>. QED
    BY <1>2, <1>5, <2>2, <2>3 DEF Show, Deliver, screen, host, Typed
<1>6. CASE Paint(m)
  <2>1. m \in FrameMsg
    BY <1>2, <1>3, <1>6 DEF Paint, InfoMsg
  <2>2. PICK T \in SUBSET Tile : m.tiles \in [T -> Painted]
    BY <2>1 DEF FrameMsg, Patches
  <2>3. m.id \in Id
    BY <2>1 DEF FrameMsg
  <2>4. view' \in [Tile -> Painted]
    <3>1. CASE viewSize = 0
      BY <1>6, <3>1 DEF Paint, Typed
    <3>2. CASE viewSize # 0
      <4>1. PICK drawn \in SUBSET (DOMAIN m.tiles) :
              view' = [k \in Tile |-> IF k \in drawn THEN m.tiles[k] ELSE view[k]]
        BY <1>6, <3>2 DEF Paint
      <4>. QED
        BY <2>2, <4>1 DEF Typed
    <3>. QED
      BY <3>1, <3>2
  <2>5. up' \in Seq(AckMsg \cup RefreshMsg \cup SettingsMsg)
    <3>1. PICK A : A = AckMsg \cup RefreshMsg \cup SettingsMsg
      OBVIOUS
    <3>2. PICK a, r : a = [type |-> "ack", id |-> m.id] /\ r = [type |-> "refresh"]
      OBVIOUS
    <3>3. a \in AckMsg /\ r \in RefreshMsg
      BY <2>3, <3>2 DEF AckMsg, RefreshMsg
    <3>4. a \in A /\ r \in A /\ up \in Seq(A)
      BY <3>1, <3>3 DEF Typed
    <3>5. Append(up, a) \in Seq(A) /\ <<r>> \in Seq(A) /\ <<>> \in Seq(A)
      BY <3>4
    <3>6. Append(up, a) \o <<r>> \in Seq(A) /\ Append(up, a) \o <<>> \in Seq(A)
      BY <3>5
    <3>7. up' = up \/ up' = Append(up, a) \o <<r>> \/ up' = Append(up, a) \o <<>>
      BY <1>6, <3>2 DEF Paint
    <3>. QED
      BY <3>1, <3>4, <3>6, <3>7
  <2>6. mayRefresh' \in BOOLEAN
    BY <1>6, Zenon DEF Paint, Typed
  <2>7. viewSize' = viewSize
    BY <1>6 DEF Paint
  <2>. QED
    BY <1>2, <2>4, <2>5, <2>6, <2>7 DEF Deliver, screen, host, Typed
<1>. QED
  BY <1>4, <1>5, <1>6

\* Every step keeps the types.
LEMMA TypedStep ==
  ASSUME Typed, [Next]_vars
  PROVE  Typed'
<1>1. CASE Capture
  BY <1>1 DEF Capture, Publish, host, viewer, Typed
<1>2. CASE SwitchDisplay
  BY <1>2 DEF SwitchDisplay, viewer, Typed
<1>3. CASE SwitchFails
  BY <1>3 DEF SwitchFails, host, viewer, Typed
<1>4. CASE SendFrame
  BY <1>4, SendFrameTyped
<1>5. CASE Wait
  BY <1>5, WaitTyped
<1>6. CASE Settle
  BY <1>6 DEF Settle, screen, viewer, Typed
<1>7. CASE Adapt
  <2>1. quality \in Level /\ WorstAuto \in Level
    BY StreamAssumption DEF Level, Typed
  <2>2. \/ quality' = quality
        \/ quality < WorstAuto /\ quality' = quality + 1
        \/ quality > 0 /\ quality' = quality - 1
    BY <1>7 DEF Adapt, Congested, Smooth, CanWorsen
  <2>3. quality' \in Level
    BY <2>1, <2>2 DEF Level
  <2>. QED
    BY <1>7, <2>3 DEF Adapt, screen, viewer, Typed
<1>8. CASE Receive
  BY <1>8, ReceiveTyped
<1>9. CASE ChooseSetting
  <2>1. PICK q \in Settings : up' = Append(up, [type |-> "settings", quality |-> q])
    BY <1>9 DEF ChooseSetting
  <2>2. [type |-> "settings", quality |-> q] \in SettingsMsg
    BY DEF SettingsMsg
  <2>3. up' \in Seq(AckMsg \cup RefreshMsg \cup SettingsMsg)
    BY <2>1, <2>2 DEF Typed
  <2>. QED
    BY <1>9, <2>3 DEF ChooseSetting, screen, host, viewer, Typed
<1>10. CASE RefreshTimer
  BY <1>10 DEF RefreshTimer, screen, host, Typed
<1>11. CASE Deliver
  BY <1>11, DeliverTyped
<1>12. CASE UNCHANGED vars
  BY <1>12 DEF vars, Typed
<1>. QED
  BY <1>1, <1>2, <1>3, <1>4, <1>5, <1>6, <1>7, <1>8, <1>9, <1>10, <1>11, <1>12 DEF Next

\* The types hold at first.
LEMMA TypedInit ==
  ASSUME Init
  PROVE  Typed
<1>1. latest \in Frames \cup {NoFrame} /\ size = 0 /\ viewSize = 0 /\ resizes \in ResizeLive
  BY DEF Init
<1>2. latest.size \in Sizes \cup {0}
  BY <1>1, Values
<1>3. PICK known \in Sizes \cup {0} : down = <<[type |-> "info", size |-> known]>>
  BY <1>2 DEF Init
<1>4. down \in Seq(InfoMsg \cup FrameMsg)
  <2>1. [type |-> "info", size |-> known] \in InfoMsg
    BY DEF InfoMsg
  <2>. QED
    BY <1>3, <2>1
<1>5. fresh \in BOOLEAN /\ resizes \in BOOLEAN
  <2>1. ResizeLive \subseteq BOOLEAN
    BY StreamAssumption
  <2>. QED
    BY <2>1, Zenon DEF Init
<1>6. up \in Seq(AckMsg \cup RefreshMsg \cup SettingsMsg)
  BY DEF Init
<1>. QED
  BY <1>1, <1>4, <1>5, <1>6, Values DEF Init, Typed, Level

-----------------------------------------------------------------------------
(* Numbers that wrap.                                                      *)

\* The remainder of a small number.
LEMMA ModSmall ==
  ASSUME NEW M \in Nat, M > 0, NEW x \in 0..(M - 1)
  PROVE  x % M = x
  OBVIOUS

\* The remainder of a small negative number.
LEMMA ModNegative ==
  ASSUME NEW M \in Nat, M > 0, NEW x \in Int, -M < x, x < 0
  PROVE  x % M = x + M
  OBVIOUS

\* The distance from a to x, in one turn.
LEMMA Distance ==
  ASSUME NEW M \in Nat, M > 0, NEW a \in 0..(M - 1), NEW x \in 0..(M - 1)
  PROVE  /\ (x - a) % M = (IF x >= a THEN x - a ELSE x - a + M)
         /\ (x - a) % M \in 0..(M - 1)
<1>1. CASE x >= a
  <2>1. PICK y \in 0..(M - 1) : y = x - a
    BY <1>1
  <2>2. y % M = y
    BY ModSmall
  <2>. QED
    BY <1>1, <2>1, <2>2
<1>2. CASE ~(x >= a)
  <2>1. PICK y \in Int : y = x - a
    OBVIOUS
  <2>2. -M < y /\ y < 0
    BY <1>2, <2>1
  <2>3. y % M = y + M
    BY <2>2, ModNegative
  <2>. QED
    BY <1>2, <2>1, <2>2, <2>3
<1>. QED
  BY <1>1, <1>2

\* The next frame id, which wraps.
LEMMA Successor ==
  ASSUME NEW M \in Nat, M > 1, NEW f \in 0..(M - 1)
  PROVE  /\ (f + 1) % M = (IF f = M - 1 THEN 0 ELSE f + 1)
         /\ (f + 1) % M \in 0..(M - 1)
<1>1. CASE f = M - 1
  <2>1. M % M = 0
    OBVIOUS
  <2>. QED
    BY <1>1, <2>1
<1>2. CASE f # M - 1
  <2>1. PICK y \in 0..(M - 1) : y = f + 1
    BY <1>2
  <2>2. y % M = y
    BY ModSmall
  <2>. QED
    BY <1>2, <2>1, <2>2
<1>. QED
  BY <1>1, <1>2

\* The next number is one further from any other.
LEMMA OneFurther ==
  ASSUME NEW M \in Nat, M > 1, NEW a \in 0..(M - 1), NEW f \in 0..(M - 1),
         NEW g, g = (f + 1) % M, (f - a) % M < M - 1
  PROVE  (g - a) % M = ((f - a) % M) + 1
<1>1. (f - a) % M = (IF f >= a THEN f - a ELSE f - a + M)
  BY Distance
<1>2. g = (IF f = M - 1 THEN 0 ELSE f + 1) /\ g \in 0..(M - 1)
  BY Successor
<1>3. (g - a) % M = (IF g >= a THEN g - a ELSE g - a + M)
  BY <1>2, Distance
<1>. QED
  BY <1>1, <1>2, <1>3

\* Counted from the next number everything is one nearer.
LEMMA OneNearer ==
  ASSUME NEW M \in Nat, M > 1, NEW a \in 0..(M - 1), NEW b \in 0..(M - 1), NEW x \in 0..(M - 1),
         (b - a) % M = 1, (x - a) % M >= 1
  PROVE  (x - b) % M = ((x - a) % M) - 1
<1>1. (b - a) % M = (IF b >= a THEN b - a ELSE b - a + M)
  BY Distance
<1>2. (x - a) % M = (IF x >= a THEN x - a ELSE x - a + M)
  BY Distance
<1>3. (x - b) % M = (IF x >= b THEN x - b ELSE x - b + M)
  BY Distance
<1>. QED
  BY <1>1, <1>2, <1>3

\* The same distance, the other way around.
LEMMA OtherWay ==
  ASSUME NEW M \in Nat, M > 1, NEW a \in 0..(M - 1), NEW x \in 0..(M - 1)
  PROVE  (a - x) % M = (IF a = x THEN 0 ELSE M - ((x - a) % M))
<1>1. (x - a) % M = (IF x >= a THEN x - a ELSE x - a + M)
  BY Distance
<1>2. (a - x) % M = (IF a >= x THEN a - x ELSE a - x + M)
  BY Distance
<1>. QED
  BY <1>1, <1>2

-----------------------------------------------------------------------------
(* Flow control: the acknowledgements on their way, then the frames on     *)
(* their way, carry the numbers that follow the one acknowledged last.     *)

Flow(d, u, a, f) ==
  /\ \A i \in 1..Len(u) : u[i].type = "ack" => (u[i].id - a) % IdModulus = Count(u, "ack", i)
  /\ \A i \in 1..Len(d) : d[i].type = "frame" =>
       (d[i].id - a) % IdModulus = Count(u, "ack", Len(u)) + Count(d, "frame", i)
  /\ (f - a) % IdModulus = Count(u, "ack", Len(u)) + Count(d, "frame", Len(d))
  /\ (f - a) % IdModulus <= MaxInFlight

Downs == InfoMsg \cup FrameMsg
Ups == AckMsg \cup RefreshMsg \cup SettingsMsg

\* The last of one message more.
LEMMA CountLast ==
  ASSUME NEW s, NEW r, NEW t, NEW n \in Nat, \A h \in 1..n : r[h] = s[h]
  PROVE  Count(r, t, n + 1) = Count(s, t, n) + (IF r[n + 1].type = t THEN 1 ELSE 0)
<1>1. Count(r, t, n + 1) = Count(r, t, n) + (IF r[n + 1].type = t THEN 1 ELSE 0)
  BY CountStep
<1>2. Count(r, t, n) = Count(s, t, n)
  BY CountAlike
<1>. QED
  BY <1>1, <1>2

\* A message behind the others adds itself to the count.
LEMMA CountAppend ==
  ASSUME NEW S, NEW s \in Seq(S), NEW m \in S, NEW t
  PROVE  /\ \A i \in 0..Len(s) : Count(Append(s, m), t, i) = Count(s, t, i)
         /\ Count(Append(s, m), t, Len(Append(s, m))) =
              Count(s, t, Len(s)) + (IF m.type = t THEN 1 ELSE 0)
<1>1. PICK r : r = Append(s, m)
  OBVIOUS
<1>2. Len(r) = Len(s) + 1 /\ Len(s) \in Nat /\ r[Len(s) + 1] = m /\ \A i \in 1..Len(s) : r[i] = s[i]
  BY <1>1
<1>3. ASSUME NEW i \in 0..Len(s)
      PROVE  Count(r, t, i) = Count(s, t, i)
  <2>1. i \in Nat /\ \A h \in 1..i : r[h] = s[h]
    BY <1>2
  <2>. QED
    BY <2>1, CountAlike
<1>4. PICK n \in Nat : n = Len(s)
  BY <1>2
<1>5. Count(r, t, n + 1) = Count(s, t, n) + (IF r[n + 1].type = t THEN 1 ELSE 0)
  <2>1. \A h \in 1..n : r[h] = s[h]
    BY <1>2, <1>4
  <2>. QED
    BY <2>1, CountLast
<1>. QED
  BY <1>1, <1>2, <1>3, <1>4, <1>5

\* The first message taken off is one less to count.
LEMMA CountTail ==
  ASSUME NEW S, NEW s \in Seq(S), s # <<>>, NEW t, NEW i \in 0..Len(Tail(s))
  PROVE  Count(s, t, i + 1) = Count(Tail(s), t, i) + (IF Head(s).type = t THEN 1 ELSE 0)
<1>1. PICK r : r = Tail(s)
  OBVIOUS
<1>2. i \in Nat /\ \A h \in 1..i : r[h] = s[h + 1]
  BY <1>1
<1>3. Count(s, t, i + 1) = Count(r, t, i) + (IF s[1].type = t THEN 1 ELSE 0)
  BY <1>2, CountShifted
<1>. QED
  BY <1>1, <1>3

\* How many messages there are of a kind.
LEMMA CountNat ==
  ASSUME NEW S, NEW s \in Seq(S), NEW t
  PROVE  /\ \A i \in 0..Len(s) : Count(s, t, i) \in Nat
         /\ Number(s, t) = Count(s, t, Len(s))
<1>1. \A i \in Nat : Count(s, t, i) \in Nat
  BY CountStep
<1>2. DOMAIN s = 1..Len(s) /\ Len(s) \in Nat
  OBVIOUS
<1>3. Number(s, t) = Count(s, t, Len(s))
  BY <1>2 DEF Number, Count
<1>. QED
  BY <1>1, <1>3

\* One more of a kind is one at least.
LEMMA CountMore ==
  ASSUME NEW s, NEW t, NEW n \in Nat, s[n + 1].type = t
  PROVE  Count(s, t, n + 1) >= 1 /\ (n = 0 => Count(s, t, n + 1) = 1)
<1>1. Count(s, t, n + 1) = Count(s, t, n) + (IF s[n + 1].type = t THEN 1 ELSE 0)
  BY CountStep
<1>2. Count(s, t, n) \in Nat /\ Count(s, t, 0) = 0
  BY CountStep
<1>. QED
  BY <1>1, <1>2

\* The first and the last of a kind.
LEMMA CountEnds ==
  ASSUME NEW S, NEW s \in Seq(S), NEW t, NEW i \in 1..Len(s), s[i].type = t
  PROVE  /\ Count(s, t, i) >= 1
         /\ i = 1 => Count(s, t, i) = 1
<1>1. PICK n \in Nat : n + 1 = i
  <2>1. i - 1 \in Nat /\ (i - 1) + 1 = i
    OBVIOUS
  <2>. QED
    BY <2>1
<1>2. Count(s, t, n + 1) >= 1 /\ (n = 0 => Count(s, t, n + 1) = 1)
  BY <1>1, CountMore
<1>3. i = 1 => n = 0
  BY <1>1
<1>. QED
  BY <1>1, <1>2, <1>3

\* An announcement goes out.
LEMMA FlowInfo ==
  ASSUME NEW d \in Seq(Downs), NEW u, NEW a, NEW f, Flow(d, u, a, f), NEW m \in InfoMsg
  PROVE  Flow(Append(d, m), u, a, f)
<1>1. PICK e : e = Append(d, m)
  OBVIOUS
<1>2. m \in Downs /\ m.type # "frame"
  BY DEF Downs, InfoMsg
<1>3. /\ \A i \in 0..Len(d) : Count(e, "frame", i) = Count(d, "frame", i)
      /\ Count(e, "frame", Len(e)) = Count(d, "frame", Len(d)) + (IF m.type = "frame" THEN 1 ELSE 0)
  BY <1>1, <1>2, CountAppend
<1>4. Len(e) = Len(d) + 1 /\ Len(d) \in Nat /\ e[Len(e)] = m /\ \A i \in 1..Len(d) : e[i] = d[i]
  BY <1>1, <1>2
<1>5. Count(d, "frame", Len(d)) \in Nat
  BY <1>4, CountNat
<1>6. Count(e, "frame", Len(e)) = Count(d, "frame", Len(d))
  BY <1>2, <1>3, <1>5
<1>7. ASSUME NEW i \in 1..Len(e), e[i].type = "frame"
      PROVE  (e[i].id - a) % IdModulus = Count(u, "ack", Len(u)) + Count(e, "frame", i)
  <2>1. i \in 1..Len(d)
    BY <1>2, <1>4, <1>7
  <2>2. e[i] = d[i] /\ Count(e, "frame", i) = Count(d, "frame", i)
    BY <1>3, <1>4, <2>1
  <2>. QED
    BY <1>7, <2>1, <2>2 DEF Flow
<1>8. Flow(e, u, a, f)
  BY <1>6, <1>7 DEF Flow
<1>. QED
  BY <1>1, <1>8

\* A frame goes out, numbered next, while the window is open.
LEMMA FlowFrame ==
  ASSUME NEW d \in Seq(Downs), NEW u \in Seq(Ups), NEW a \in Id, NEW f \in Id, Flow(d, u, a, f),
         (f - a) % IdModulus < MaxInFlight, NEW m \in FrameMsg, m.id = (f + 1) % IdModulus
  PROVE  Flow(Append(d, m), u, a, m.id)
<1>1. PICK e : e = Append(d, m)
  OBVIOUS
<1>2. m \in Downs /\ m.type = "frame"
  BY DEF Downs, FrameMsg
<1>3. /\ \A i \in 0..Len(d) : Count(e, "frame", i) = Count(d, "frame", i)
      /\ Count(e, "frame", Len(e)) = Count(d, "frame", Len(d)) + (IF m.type = "frame" THEN 1 ELSE 0)
  BY <1>1, <1>2, CountAppend
<1>4. Len(e) = Len(d) + 1 /\ Len(d) \in Nat /\ e[Len(e)] = m /\ \A i \in 1..Len(d) : e[i] = d[i]
  BY <1>1, <1>2
<1>5. Count(d, "frame", Len(d)) \in Nat
  BY <1>4, CountNat
<1>6. Count(u, "ack", Len(u)) \in Nat
  <2>1. Len(u) \in Nat
    OBVIOUS
  <2>. QED
    BY <2>1, CountNat
<1>7. Count(e, "frame", Len(e)) = Count(d, "frame", Len(d)) + 1
  BY <1>2, <1>3, <1>5
<1>8. (m.id - a) % IdModulus = ((f - a) % IdModulus) + 1
  <2>1. IdModulus \in Nat /\ IdModulus > 1 /\ MaxInFlight \in Nat /\ MaxInFlight < IdModulus - 1
    BY Values
  <2>2. a \in 0..(IdModulus - 1) /\ f \in 0..(IdModulus - 1)
    BY DEF Id
  <2>3. (f - a) % IdModulus < IdModulus - 1
    <3>1. (f - a) % IdModulus \in 0..(IdModulus - 1)
      BY <2>1, <2>2, Distance
    <3>. QED
      BY <2>1, <3>1
  <2>. QED
    BY <2>1, <2>2, <2>3, OneFurther
<1>9. (f - a) % IdModulus = Count(u, "ack", Len(u)) + Count(d, "frame", Len(d))
  BY DEF Flow
<1>10. (m.id - a) % IdModulus = Count(u, "ack", Len(u)) + Count(e, "frame", Len(e))
       /\ (m.id - a) % IdModulus <= MaxInFlight
  <2>1. MaxInFlight \in Nat
    BY Values
  <2>. QED
    BY <1>5, <1>6, <1>7, <1>8, <1>9, <2>1
<1>11. ASSUME NEW i \in 1..Len(e), e[i].type = "frame"
       PROVE  (e[i].id - a) % IdModulus = Count(u, "ack", Len(u)) + Count(e, "frame", i)
  <2>1. CASE i = Len(e)
    BY <1>4, <1>10, <2>1
  <2>2. CASE i # Len(e)
    <3>1. i \in 1..Len(d)
      BY <1>4, <2>2
    <3>2. e[i] = d[i] /\ Count(e, "frame", i) = Count(d, "frame", i)
      BY <1>3, <1>4, <3>1
    <3>. QED
      BY <1>11, <3>1, <3>2 DEF Flow
  <2>. QED
    BY <2>1, <2>2
<1>12. Flow(e, u, a, m.id)
  BY <1>10, <1>11 DEF Flow
<1>. QED
  BY <1>1, <1>12

\* The viewer asks for something.
LEMMA FlowAsked ==
  ASSUME NEW d, NEW u \in Seq(Ups), NEW a, NEW f, Flow(d, u, a, f), NEW m \in Ups, m.type # "ack"
  PROVE  Flow(d, Append(u, m), a, f)
<1>1. PICK e : e = Append(u, m)
  OBVIOUS
<1>3. /\ \A i \in 0..Len(u) : Count(e, "ack", i) = Count(u, "ack", i)
      /\ Count(e, "ack", Len(e)) = Count(u, "ack", Len(u)) + (IF m.type = "ack" THEN 1 ELSE 0)
  BY <1>1, CountAppend
<1>4. Len(e) = Len(u) + 1 /\ Len(u) \in Nat /\ e[Len(e)] = m /\ \A i \in 1..Len(u) : e[i] = u[i]
  BY <1>1
<1>5. Count(u, "ack", Len(u)) \in Nat
  BY <1>4, CountNat
<1>6. Count(e, "ack", Len(e)) = Count(u, "ack", Len(u))
  BY <1>3, <1>5
<1>7. ASSUME NEW i \in 1..Len(e), e[i].type = "ack"
      PROVE  (e[i].id - a) % IdModulus = Count(e, "ack", i)
  <2>1. i \in 1..Len(u)
    BY <1>4, <1>7
  <2>2. e[i] = u[i] /\ Count(e, "ack", i) = Count(u, "ack", i)
    BY <1>3, <1>4, <2>1
  <2>. QED
    BY <1>7, <2>1, <2>2 DEF Flow
<1>8. Flow(d, e, a, f)
  BY <1>6, <1>7 DEF Flow
<1>. QED
  BY <1>1, <1>8

\* The host takes a request.
LEMMA FlowSkipped ==
  ASSUME NEW d, NEW u \in Seq(Ups), u # <<>>, NEW a, NEW f, Flow(d, u, a, f), Head(u).type # "ack"
  PROVE  Flow(d, Tail(u), a, f)
<1>1. PICK e : e = Tail(u)
  OBVIOUS
<1>2. Len(u) = Len(e) + 1 /\ Len(e) \in Nat /\ e \in Seq(Ups) /\ \A i \in 1..Len(e) : e[i] = u[i + 1]
  BY <1>1
<1>3. ASSUME NEW i \in 0..Len(e)
      PROVE  Count(u, "ack", i + 1) = Count(e, "ack", i)
  <2>1. Count(u, "ack", i + 1) = Count(e, "ack", i) + (IF Head(u).type = "ack" THEN 1 ELSE 0)
    BY <1>1, CountTail
  <2>2. Count(e, "ack", i) \in Nat
    BY <1>2, CountNat
  <2>. QED
    BY <2>1, <2>2
<1>4. Count(e, "ack", Len(e)) = Count(u, "ack", Len(u))
  BY <1>2, <1>3
<1>5. ASSUME NEW i \in 1..Len(e), e[i].type = "ack"
      PROVE  (e[i].id - a) % IdModulus = Count(e, "ack", i)
  <2>1. u[i + 1] = e[i] /\ i + 1 \in 1..Len(u) /\ Count(u, "ack", i + 1) = Count(e, "ack", i)
    BY <1>2, <1>3
  <2>2. u[i + 1].type = "ack" => (u[i + 1].id - a) % IdModulus = Count(u, "ack", i + 1)
    BY <2>1 DEF Flow
  <2>. QED
    BY <1>5, <2>1, <2>2
<1>6. Flow(d, e, a, f)
  BY <1>4, <1>5 DEF Flow
<1>. QED
  BY <1>1, <1>6

\* The host takes the next acknowledgement: it always counts.
LEMMA FlowTaken ==
  ASSUME NEW d \in Seq(Downs), NEW u \in Seq(Ups), u # <<>>, NEW a \in Id, NEW f \in Id,
         Flow(d, u, a, f), Head(u).type = "ack"
  PROVE  /\ Flow(d, Tail(u), Head(u).id, f)
         /\ Signed(Head(u).id - a) > 0 /\ Signed(Head(u).id - f) <= 0
<1>1. PICK e : e = Tail(u)
  OBVIOUS
<1>2. Len(u) = Len(e) + 1 /\ Len(e) \in Nat /\ e \in Seq(Ups) /\ \A i \in 1..Len(e) : e[i] = u[i + 1]
  BY <1>1
<1>3. PICK b : b = Head(u).id
  OBVIOUS
<1>4. u[1].type = "ack" /\ u[1] = Head(u) /\ 1 \in 1..Len(u) /\ u[1] \in Ups
  BY <1>2
<1>5. b \in Id
  <2>1. Head(u) \in AckMsg
    BY <1>4 DEF Ups, AckMsg, RefreshMsg, SettingsMsg
  <2>. QED
    BY <1>3, <2>1 DEF AckMsg
<1>6. (b - a) % IdModulus = 1
  <2>1. (u[1].id - a) % IdModulus = Count(u, "ack", 1)
    BY <1>4 DEF Flow
  <2>2. Count(u, "ack", 1) = 1
    BY <1>4, CountEnds
  <2>. QED
    BY <1>3, <1>4, <2>1, <2>2
<1>7. ASSUME NEW i \in 0..Len(e)
      PROVE  Count(u, "ack", i + 1) = Count(e, "ack", i) + 1 /\ Count(e, "ack", i) \in Nat
  <2>1. Count(u, "ack", i + 1) = Count(e, "ack", i) + (IF Head(u).type = "ack" THEN 1 ELSE 0)
    BY <1>1, CountTail
  <2>2. Count(e, "ack", i) \in Nat
    BY <1>2, CountNat
  <2>. QED
    BY <2>1, <2>2
<1>8. Count(u, "ack", Len(u)) = Count(e, "ack", Len(e)) + 1 /\ Count(e, "ack", Len(e)) \in Nat
  BY <1>2, <1>7
<1>9. \A i \in 0..Len(d) : Count(d, "frame", i) \in Nat
  BY CountNat
<1>10. IdModulus \in Nat /\ IdModulus > 1 /\ MaxInFlight \in Nat /\ IdModulus > 2 * MaxInFlight + 1
  BY Values
<1>11. \A x \in Id : (x - a) % IdModulus >= 1 =>
         (x - b) % IdModulus = ((x - a) % IdModulus) - 1
  BY <1>5, <1>6, <1>10, OneNearer DEF Id
<1>12. ASSUME NEW i \in 1..Len(e), e[i].type = "ack"
       PROVE  (e[i].id - b) % IdModulus = Count(e, "ack", i)
  <2>1. u[i + 1] = e[i] /\ i + 1 \in 1..Len(u) /\ Count(u, "ack", i + 1) = Count(e, "ack", i) + 1
        /\ Count(e, "ack", i) \in Nat
    BY <1>2, <1>7
  <2>2. u[i + 1].type = "ack" => (u[i + 1].id - a) % IdModulus = Count(u, "ack", i + 1)
    BY <2>1 DEF Flow
  <2>3. e[i].id \in Id
    <3>1. e[i] \in AckMsg
      BY <1>2, <1>12 DEF Ups, AckMsg, RefreshMsg, SettingsMsg
    <3>. QED
      BY <3>1 DEF AckMsg
  <2>4. PICK x \in Id : x = e[i].id
    BY <2>3
  <2>5. (x - a) % IdModulus = Count(e, "ack", i) + 1
    BY <1>12, <2>1, <2>2, <2>4
  <2>. QED
    BY <1>11, <2>1, <2>4, <2>5
<1>13. ASSUME NEW i \in 1..Len(d), d[i].type = "frame"
       PROVE  (d[i].id - b) % IdModulus = Count(e, "ack", Len(e)) + Count(d, "frame", i)
  <2>1. (d[i].id - a) % IdModulus = Count(u, "ack", Len(u)) + Count(d, "frame", i)
    BY <1>13 DEF Flow
  <2>2. d[i].id \in Id
    <3>1. d[i] \in FrameMsg
      BY <1>13 DEF Downs, InfoMsg, FrameMsg
    <3>. QED
      BY <3>1 DEF FrameMsg
  <2>3. PICK x \in Id : x = d[i].id
    BY <2>2
  <2>4. Count(d, "frame", i) \in Nat
    BY <1>9
  <2>. QED
    <3>1. (x - a) % IdModulus = Count(e, "ack", Len(e)) + 1 + Count(d, "frame", i)
      BY <1>8, <2>1, <2>3, <2>4
    <3>2. (x - a) % IdModulus >= 1
      BY <1>8, <2>4, <3>1
    <3>3. (x - b) % IdModulus = ((x - a) % IdModulus) - 1
      BY <1>11, <3>2
    <3>. QED
      BY <1>8, <2>3, <2>4, <3>1, <3>3
<1>14. (f - a) % IdModulus = Count(u, "ack", Len(u)) + Count(d, "frame", Len(d))
       /\ (f - a) % IdModulus <= MaxInFlight
  BY DEF Flow
<1>15. Count(d, "frame", Len(d)) \in Nat
  <2>1. Len(d) \in Nat
    OBVIOUS
  <2>. QED
    BY <1>9, <2>1
<1>16. (f - b) % IdModulus = ((f - a) % IdModulus) - 1
  BY <1>8, <1>11, <1>14, <1>15
<1>17. (f - b) % IdModulus = Count(e, "ack", Len(e)) + Count(d, "frame", Len(d))
       /\ (f - b) % IdModulus <= MaxInFlight
  BY <1>8, <1>10, <1>14, <1>15, <1>16
<1>18. Flow(d, e, b, f)
  BY <1>12, <1>13, <1>17 DEF Flow
<1>19. Signed(b - a) > 0
  BY <1>6, <1>8, <1>10, <1>14, <1>15 DEF Signed
<1>20. Signed(b - f) <= 0
  <2>1. (b - f) % IdModulus = (IF b = f THEN 0 ELSE IdModulus - ((f - b) % IdModulus))
    BY <1>5, <1>10, OtherWay DEF Id
  <2>2. PICK x : x = (f - b) % IdModulus
    OBVIOUS
  <2>3. x \in Nat /\ x <= MaxInFlight
    BY <1>8, <1>15, <1>17, <2>2
  <2>. QED
    BY <1>10, <2>1, <2>2, <2>3 DEF Signed
<1>. QED
  BY <1>1, <1>3, <1>18, <1>19, <1>20

\* The viewer takes an announcement.
LEMMA FlowShown ==
  ASSUME NEW d \in Seq(Downs), d # <<>>, NEW u, NEW a, NEW f, Flow(d, u, a, f),
         Head(d).type # "frame"
  PROVE  Flow(Tail(d), u, a, f)
<1>1. PICK e : e = Tail(d)
  OBVIOUS
<1>2. Len(d) = Len(e) + 1 /\ Len(e) \in Nat /\ e \in Seq(Downs) /\ \A i \in 1..Len(e) : e[i] = d[i + 1]
  BY <1>1
<1>3. ASSUME NEW i \in 0..Len(e)
      PROVE  Count(d, "frame", i + 1) = Count(e, "frame", i)
  <2>1. Count(d, "frame", i + 1) = Count(e, "frame", i) + (IF Head(d).type = "frame" THEN 1 ELSE 0)
    BY <1>1, CountTail
  <2>2. Count(e, "frame", i) \in Nat
    BY <1>2, CountNat
  <2>. QED
    BY <2>1, <2>2
<1>4. Count(e, "frame", Len(e)) = Count(d, "frame", Len(d))
  BY <1>2, <1>3
<1>5. ASSUME NEW i \in 1..Len(e), e[i].type = "frame"
      PROVE  (e[i].id - a) % IdModulus = Count(u, "ack", Len(u)) + Count(e, "frame", i)
  <2>1. d[i + 1] = e[i] /\ i + 1 \in 1..Len(d) /\ Count(d, "frame", i + 1) = Count(e, "frame", i)
    BY <1>2, <1>3
  <2>2. d[i + 1].type = "frame" =>
          (d[i + 1].id - a) % IdModulus = Count(u, "ack", Len(u)) + Count(d, "frame", i + 1)
    BY <2>1 DEF Flow
  <2>. QED
    BY <1>5, <2>1, <2>2
<1>6. Flow(e, u, a, f)
  BY <1>4, <1>5 DEF Flow
<1>. QED
  BY <1>1, <1>6

\* The viewer takes a frame and acknowledges it.
LEMMA FlowAcked ==
  ASSUME NEW d \in Seq(Downs), d # <<>>, NEW u \in Seq(Ups), NEW a, NEW f, Flow(d, u, a, f),
         Head(d).type = "frame", NEW m \in Ups, m.type = "ack", m.id = Head(d).id
  PROVE  Flow(Tail(d), Append(u, m), a, f)
<1>1. PICK e : e = Tail(d)
  OBVIOUS
<1>2. Len(d) = Len(e) + 1 /\ Len(e) \in Nat /\ e \in Seq(Downs) /\ \A i \in 1..Len(e) : e[i] = d[i + 1]
  BY <1>1
<1>3. ASSUME NEW i \in 0..Len(e)
      PROVE  Count(d, "frame", i + 1) = Count(e, "frame", i) + 1 /\ Count(e, "frame", i) \in Nat
  <2>1. Count(d, "frame", i + 1) = Count(e, "frame", i) + (IF Head(d).type = "frame" THEN 1 ELSE 0)
    BY <1>1, CountTail
  <2>2. Count(e, "frame", i) \in Nat
    BY <1>2, CountNat
  <2>. QED
    BY <2>1, <2>2
<1>4. PICK v : v = Append(u, m)
  OBVIOUS
<1>5. /\ \A i \in 0..Len(u) : Count(v, "ack", i) = Count(u, "ack", i)
      /\ Count(v, "ack", Len(v)) = Count(u, "ack", Len(u)) + (IF m.type = "ack" THEN 1 ELSE 0)
  BY <1>4, CountAppend
<1>6. Len(v) = Len(u) + 1 /\ Len(u) \in Nat /\ v[Len(v)] = m /\ \A i \in 1..Len(u) : v[i] = u[i]
  BY <1>4
<1>7. Count(u, "ack", Len(u)) \in Nat
  BY <1>6, CountNat
<1>8. Count(v, "ack", Len(v)) = Count(u, "ack", Len(u)) + 1
  BY <1>5, <1>7
<1>9. (m.id - a) % IdModulus = Count(v, "ack", Len(v))
  <2>1. d[1] = Head(d) /\ 1 \in 1..Len(d)
    BY <1>2
  <2>2. (d[1].id - a) % IdModulus = Count(u, "ack", Len(u)) + Count(d, "frame", 1)
    BY <2>1 DEF Flow
  <2>3. Count(d, "frame", 1) = 1
    BY <2>1, CountEnds
  <2>. QED
    BY <1>8, <2>1, <2>2, <2>3
<1>10. ASSUME NEW i \in 1..Len(v), v[i].type = "ack"
       PROVE  (v[i].id - a) % IdModulus = Count(v, "ack", i)
  <2>1. CASE i = Len(v)
    BY <1>6, <1>9, <2>1
  <2>2. CASE i # Len(v)
    <3>1. i \in 1..Len(u)
      BY <1>6, <2>2
    <3>2. v[i] = u[i] /\ Count(v, "ack", i) = Count(u, "ack", i)
      BY <1>5, <1>6, <3>1
    <3>. QED
      BY <1>10, <3>1, <3>2 DEF Flow
  <2>. QED
    BY <2>1, <2>2
<1>11. ASSUME NEW i \in 1..Len(e), e[i].type = "frame"
       PROVE  (e[i].id - a) % IdModulus = Count(v, "ack", Len(v)) + Count(e, "frame", i)
  <2>1. d[i + 1] = e[i] /\ i + 1 \in 1..Len(d) /\ Count(d, "frame", i + 1) = Count(e, "frame", i) + 1
        /\ Count(e, "frame", i) \in Nat
    BY <1>2, <1>3
  <2>2. d[i + 1].type = "frame" =>
          (d[i + 1].id - a) % IdModulus = Count(u, "ack", Len(u)) + Count(d, "frame", i + 1)
    BY <2>1 DEF Flow
  <2>. QED
    BY <1>7, <1>8, <1>11, <2>1, <2>2
<1>12. (f - a) % IdModulus = Count(v, "ack", Len(v)) + Count(e, "frame", Len(e))
       /\ (f - a) % IdModulus <= MaxInFlight
  <2>1. (f - a) % IdModulus = Count(u, "ack", Len(u)) + Count(d, "frame", Len(d))
        /\ (f - a) % IdModulus <= MaxInFlight
    BY DEF Flow
  <2>2. Count(d, "frame", Len(d)) = Count(e, "frame", Len(e)) + 1 /\ Count(e, "frame", Len(e)) \in Nat
    BY <1>2, <1>3
  <2>. QED
    BY <1>7, <1>8, <2>1, <2>2
<1>13. Flow(e, v, a, f)
  BY <1>10, <1>11, <1>12 DEF Flow
<1>. QED
  BY <1>1, <1>4, <1>13

-----------------------------------------------------------------------------
(* Every frame finds a screen: an announcement goes before the first one.  *)

Opened(d, v, j) == v # 0 \/ \E i \in 1..j : d[i].type = "info" /\ d[i].size # 0
Shown(d, v, s) ==
  /\ \A i \in 1..Len(d) : d[i].type = "frame" => Opened(d, v, i - 1)
  /\ s # 0 => Opened(d, v, Len(d))

\* A DISPLAY_INFO behind what is on its way announces its size.
LEMMA ShownInfo ==
  ASSUME NEW d \in Seq(Downs), NEW v, NEW s, Shown(d, v, s), NEW m \in InfoMsg, m.size # 0, NEW n
  PROVE  Shown(Append(d, m), v, n)
<1>1. PICK e : e = Append(d, m)
  OBVIOUS
<1>2. m \in Downs /\ m.type = "info"
  BY DEF Downs, InfoMsg
<1>3. Len(e) = Len(d) + 1 /\ Len(d) \in Nat /\ e[Len(e)] = m /\ \A i \in 1..Len(d) : e[i] = d[i]
  BY <1>1, <1>2
<1>4. ASSUME NEW i \in 1..Len(e), e[i].type = "frame"
      PROVE  Opened(e, v, i - 1)
  <2>1. i \in 1..Len(d)
    BY <1>2, <1>3, <1>4
  <2>2. Opened(d, v, i - 1)
    BY <1>3, <1>4, <2>1 DEF Shown
  <2>. QED
    BY <1>3, <2>1, <2>2 DEF Opened
<1>5. Opened(e, v, Len(e))
  BY <1>2, <1>3 DEF Opened
<1>6. Shown(e, v, n)
  BY <1>4, <1>5 DEF Shown
<1>. QED
  BY <1>1, <1>6

\* A FRAME behind what is on its way announces nothing.
LEMMA ShownFrame ==
  ASSUME NEW d \in Seq(Downs), NEW v, NEW s, Shown(d, v, s), s # 0, NEW m \in FrameMsg
  PROVE  Shown(Append(d, m), v, s)
<1>1. PICK e : e = Append(d, m)
  OBVIOUS
<1>2. m \in Downs
  BY DEF Downs
<1>3. Len(e) = Len(d) + 1 /\ Len(d) \in Nat /\ e[Len(e)] = m /\ \A i \in 1..Len(d) : e[i] = d[i]
  BY <1>1, <1>2
<1>4. Opened(e, v, Len(d))
  BY <1>3 DEF Shown, Opened
<1>5. ASSUME NEW i \in 1..Len(e), e[i].type = "frame"
      PROVE  Opened(e, v, i - 1)
  <2>1. CASE i = Len(e)
    BY <1>3, <1>4, <2>1
  <2>2. CASE i # Len(e)
    <3>1. i \in 1..Len(d)
      BY <1>3, <2>2
    <3>2. Opened(d, v, i - 1)
      BY <1>3, <1>5, <3>1 DEF Shown
    <3>. QED
      BY <1>3, <3>1, <3>2 DEF Opened
  <2>. QED
    BY <2>1, <2>2
<1>6. Opened(e, v, Len(e))
  BY <1>3, <1>4 DEF Opened
<1>7. Shown(e, v, s)
  BY <1>5, <1>6 DEF Shown
<1>. QED
  BY <1>1, <1>7

\* Reading the first message leaves what the rest announces.
LEMMA ShownTail ==
  ASSUME NEW d \in Seq(Downs), d # <<>>, NEW v, NEW w, NEW s, Shown(d, v, s),
         v # 0 => w # 0, Head(d).type = "info" /\ Head(d).size # 0 => w # 0
  PROVE  Shown(Tail(d), w, s)
<1>1. PICK e : e = Tail(d)
  OBVIOUS
<1>2. Len(d) = Len(e) + 1 /\ Len(e) \in Nat /\ Head(d) = d[1] /\ \A i \in 1..Len(e) : e[i] = d[i + 1]
  BY <1>1
<1>3. ASSUME NEW j \in 0..Len(e), Opened(d, v, j + 1)
      PROVE  Opened(e, w, j)
  <2>1. CASE v # 0
    BY <2>1 DEF Opened
  <2>2. CASE v = 0
    <3>1. PICK i \in 1..(j + 1) : d[i].type = "info" /\ d[i].size # 0
      BY <1>3, <2>2 DEF Opened
    <3>2. CASE i = 1
      BY <1>2, <3>1, <3>2 DEF Opened
    <3>3. CASE i # 1
      <4>1. PICK h \in 1..j : i = h + 1
        <5>1. i - 1 \in 1..j /\ i = (i - 1) + 1
          BY <3>3
        <5>. QED
          BY <5>1
      <4>2. e[h] = d[h + 1]
        BY <1>2
      <4>. QED
        BY <3>1, <4>1, <4>2 DEF Opened
    <3>. QED
      BY <3>2, <3>3
  <2>. QED
    BY <2>1, <2>2
<1>4. ASSUME NEW i \in 1..Len(e), e[i].type = "frame"
      PROVE  Opened(e, w, i - 1)
  <2>1. d[i + 1] = e[i] /\ i + 1 \in 1..Len(d)
    BY <1>2
  <2>2. Opened(d, v, (i + 1) - 1)
    BY <1>4, <2>1 DEF Shown
  <2>3. PICK j \in 0..Len(e) : j = i - 1
    BY <1>2
  <2>4. (i + 1) - 1 = j + 1
    BY <2>3
  <2>5. Opened(d, v, j + 1)
    BY <2>2, <2>4
  <2>. QED
    BY <1>3, <2>3, <2>5
<1>5. s # 0 => Opened(e, w, Len(e))
  <2>1. s # 0 => Opened(d, v, Len(e) + 1)
    BY <1>2 DEF Shown
  <2>2. Len(e) \in 0..Len(e)
    BY <1>2
  <2>. QED
    BY <1>3, <2>1, <2>2
<1>6. Shown(e, w, s)
  BY <1>4, <1>5 DEF Shown
<1>. QED
  BY <1>1, <1>6

\* Flow control with what it needs.
FlowInv == Typed /\ Shown(down, viewSize, size) /\ Flow(down, up, acked, frameId)

\* Nothing is on its way at first.
LEMMA FlowInit ==
  ASSUME Init
  PROVE  FlowInv
<1>1. Typed
  BY TypedInit
<1>2. PICK known, m : m = [type |-> "info", size |-> known] /\ down = <<m>>
  BY DEF Init
<1>3. down = <<m>> /\ Len(down) = 1 /\ down[1] = m /\ m.type = "info"
  BY <1>2
<1>4. Shown(down, viewSize, size)
  BY <1>3 DEF Shown, Init
<1>5. Count(down, "frame", 1) = 0
  <2>1. {n \in 1..1 : down[n].type = "frame"} = {}
    BY <1>3
  <2>. QED
    BY <2>1, FS_EmptySet DEF Count
<1>6. up = <<>> /\ Len(up) = 0 /\ acked = 0 /\ frameId = 0
  BY DEF Init
<1>7. Count(up, "ack", 0) = 0
  BY CountStep
<1>8. (frameId - acked) % IdModulus = 0 /\ MaxInFlight \in Nat
  <2>1. IdModulus \in Nat /\ IdModulus > 0 /\ 0 \in 0..(IdModulus - 1) /\ MaxInFlight \in Nat
    BY Values
  <2>2. 0 % IdModulus = 0
    BY <2>1, ModSmall
  <2>. QED
    BY <1>6, <2>1, <2>2
<1>9. Flow(down, up, acked, frameId)
  BY <1>3, <1>5, <1>6, <1>7, <1>8 DEF Flow
<1>. QED
  BY <1>1, <1>4, <1>9 DEF FlowInv

\* A DISPLAY_INFO is no part of the window, and announces the size of what was captured.
LEMMA FlowBehind ==
  ASSUME FlowInv, latest # NoFrame, Announce
  PROVE  /\ down \o Info \in Seq(Downs) /\ latest.size # 0
         /\ Flow(down \o Info, up, acked, frameId)
         /\ Shown(down \o Info, viewSize, latest.size)
<1>1. Typed /\ down \in Seq(Downs)
  BY DEF FlowInv, Typed, Downs
<1>2. PICK e : e = down \o Info
  OBVIOUS
<1>3. Behind(down, e) /\ e \in Seq(Downs)
  BY <1>1, <1>2, InfoBehind DEF Downs
<1>4. latest.size # 0 /\ (~Resized => size = latest.size)
  BY <1>1, AnnounceSays, Values
<1>5. CASE e = down /\ ~Resized
  BY <1>2, <1>3, <1>4, <1>5 DEF FlowInv
<1>6. CASE Resized
  <2>1. PICK m \in InfoMsg : m.size # 0 /\ e = Append(down, m)
    BY <1>3, <1>6 DEF Behind
  <2>2. Flow(down, up, acked, frameId) /\ Shown(down, viewSize, size)
    BY DEF FlowInv
  <2>3. Flow(Append(down, m), up, acked, frameId)
    BY <1>1, <2>2, FlowInfo
  <2>4. Shown(Append(down, m), viewSize, latest.size)
    BY <1>1, <2>1, <2>2, ShownInfo
  <2>. QED
    BY <1>2, <1>3, <1>4, <2>1, <2>3, <2>4
<1>. QED
  BY <1>3, <1>5, <1>6 DEF Behind

\* A frame that is sent enters the window.
LEMMA FlowSendFrame ==
  ASSUME FlowInv, SendFrame
  PROVE  FlowInv'
<1>1. Typed /\ Typed'
  BY SendFrameTyped DEF FlowInv
<1>2. latest # NoFrame /\ Announce /\ Encode(Full) /\ WindowOpen
      /\ size' = latest.size /\ acked' = acked /\ up' = up /\ viewSize' = viewSize
  BY DEF SendFrame, viewer
<1>3. PICK e : e = down \o Info
  OBVIOUS
<1>4. e \in Seq(Downs) /\ latest.size # 0
      /\ Flow(e, up, acked, frameId) /\ Shown(e, viewSize, latest.size)
  BY <1>2, <1>3, FlowBehind
<1>5. latest \in Frames
  BY <1>1, <1>2, AnnounceSays
<1>6. PICK T \in SUBSET Tile : Encoded(T) /\ FrameBehind(T, e)
  BY <1>1, <1>2, <1>3, <1>4, <1>5, EncodeSends DEF Downs
<1>7. CASE T = {}
  BY <1>1, <1>2, <1>4, <1>6, <1>7 DEF FrameBehind, FlowInv
<1>8. CASE T # {}
  <2>1. frameId' = (frameId + 1) % IdModulus /\ down' = Append(e, TheFrame(T))
    BY <1>6, <1>8 DEF FrameBehind
  <2>2. TheFrame(T) \in FrameMsg /\ TheFrame(T).id = frameId'
    BY <1>1, <1>6, <1>8, <2>1, FrameTyped DEF TheFrame
  <2>3. PICK m \in FrameMsg : m = TheFrame(T)
    BY <2>2
  <2>4. up \in Seq(Ups) /\ acked \in Id /\ frameId \in Id /\ (frameId - acked) % IdModulus < MaxInFlight
    BY <1>1, <1>2 DEF Typed, Ups, WindowOpen, InFlight
  <2>5. m.id = (frameId + 1) % IdModulus
    BY <2>1, <2>2, <2>3
  <2>6. Flow(Append(e, m), up, acked, m.id)
    BY <1>4, <2>4, <2>5, FlowFrame
  <2>7. Shown(Append(e, m), viewSize, latest.size)
    BY <1>4, ShownFrame
  <2>. QED
    BY <1>1, <1>2, <2>1, <2>2, <2>3, <2>6, <2>7 DEF FlowInv
<1>. QED
  BY <1>7, <1>8

\* An acknowledgement leaves the window.
LEMMA FlowReceive ==
  ASSUME FlowInv, Receive
  PROVE  FlowInv'
<1>1. Typed /\ Typed' /\ Flow(down, up, acked, frameId) /\ Shown(down, viewSize, size)
  BY ReceiveTyped DEF FlowInv
<1>2. up # <<>> /\ up' = Tail(up) /\ down' = down /\ viewSize' = viewSize /\ size' = size
      /\ frameId' = frameId
  BY DEF Receive, viewer
<1>3. up \in Seq(Ups) /\ down \in Seq(Downs) /\ acked \in Id /\ frameId \in Id
  BY <1>1 DEF Typed, Ups, Downs
<1>4. CASE Head(up).type = "ack"
  <2>1. acked' = IF Acceptable(Head(up).id) THEN Head(up).id ELSE acked
    BY <1>4 DEF Receive
  <2>2. Flow(down, Tail(up), Head(up).id, frameId)
        /\ Signed(Head(up).id - acked) > 0 /\ Signed(Head(up).id - frameId) <= 0
    BY <1>1, <1>2, <1>3, <1>4, FlowTaken
  <2>3. acked' = Head(up).id
    BY <2>1, <2>2 DEF Acceptable
  <2>. QED
    BY <1>1, <1>2, <2>2, <2>3 DEF FlowInv
<1>5. CASE Head(up).type # "ack"
  <2>1. acked' = acked
    BY <1>5 DEF Receive
  <2>2. Flow(down, Tail(up), acked, frameId)
    BY <1>1, <1>2, <1>3, <1>5, FlowSkipped
  <2>. QED
    BY <1>1, <1>2, <2>1, <2>2 DEF FlowInv
<1>. QED
  BY <1>4, <1>5

\* A frame the viewer takes becomes its acknowledgement.
LEMMA FlowDeliver ==
  ASSUME FlowInv, Deliver
  PROVE  FlowInv'
<1>1. Typed /\ Typed' /\ Flow(down, up, acked, frameId) /\ Shown(down, viewSize, size)
  BY DeliverTyped DEF FlowInv
<1>2. down # <<>> /\ down' = Tail(down) /\ size' = size /\ acked' = acked /\ frameId' = frameId
  BY DEF Deliver, host
<1>3. up \in Seq(Ups) /\ down \in Seq(Downs)
  BY <1>1 DEF Typed, Ups, Downs
<1>4. PICK m \in Downs : m = Head(down)
  BY <1>2, <1>3
<1>5. CASE Show(m)
  <2>1. m.type = "info" /\ up' = up
    BY <1>5 DEF Show
  <2>2. Flow(Tail(down), up, acked, frameId)
    BY <1>1, <1>2, <1>3, <1>4, <2>1, FlowShown
  <2>3. (viewSize # 0 => viewSize' # 0) /\ (m.type = "info" /\ m.size # 0 => viewSize' # 0)
    BY <1>5 DEF Show
  <2>4. Shown(Tail(down), viewSize', size)
    BY <1>1, <1>2, <1>3, <1>4, <2>3, ShownTail
  <2>. QED
    BY <1>1, <1>2, <2>1, <2>2, <2>4 DEF FlowInv
<1>6. CASE Paint(m)
  <2>1. m.type = "frame"
    BY <1>6 DEF Paint
  <2>2. viewSize # 0
    <3>1. down[1] = m /\ 1 \in 1..Len(down)
      BY <1>2, <1>3, <1>4
    <3>2. Opened(down, viewSize, 1 - 1)
      BY <1>1, <2>1, <3>1 DEF Shown
    <3>. QED
      BY <3>2 DEF Opened
  <2>3. viewSize' = viewSize
    BY <1>6 DEF Paint
  <2>4. PICK a, r : a = [type |-> "ack", id |-> m.id] /\ r = [type |-> "refresh"]
    OBVIOUS
  <2>5. a \in Ups /\ r \in Ups /\ a.type = "ack" /\ a.id = m.id /\ r.type # "ack"
    <3>1. m.id \in Id
      BY <2>1 DEF Downs, InfoMsg, FrameMsg
    <3>. QED
      BY <2>4, <3>1 DEF Ups, AckMsg, RefreshMsg
  <2>6. PICK u : u = Append(up, a)
    OBVIOUS
  <2>7. u \in Seq(Ups) /\ u \o <<>> = u /\ u \o <<r>> = Append(u, r)
    BY <1>3, <2>5, <2>6
  <2>8. Flow(Tail(down), u, acked, frameId)
    BY <1>1, <1>2, <1>3, <1>4, <2>1, <2>5, <2>6, FlowAcked
  <2>9. Flow(Tail(down), Append(u, r), acked, frameId)
    BY <2>5, <2>7, <2>8, FlowAsked
  <2>10. up' = u \o <<r>> \/ up' = u \o <<>>
    BY <1>6, <2>2, <2>4, <2>6 DEF Paint
  <2>11. Shown(Tail(down), viewSize, size)
    BY <1>1, <1>2, <1>3, <1>4, <2>1, ShownTail
  <2>. QED
    BY <1>1, <1>2, <2>3, <2>7, <2>8, <2>9, <2>10, <2>11 DEF FlowInv
<1>. QED
  BY <1>4, <1>5, <1>6 DEF Deliver

\* Every step keeps the count of what is on its way.
LEMMA FlowStep ==
  ASSUME FlowInv, [Next]_vars
  PROVE  FlowInv'
<1>1. Typed /\ Typed' /\ Flow(down, up, acked, frameId) /\ Shown(down, viewSize, size)
  BY TypedStep DEF FlowInv
<1>2. CASE UNCHANGED <<down, up, viewSize, size, acked, frameId>>
  BY <1>1, <1>2 DEF FlowInv
<1>3. CASE Capture \/ SwitchFails \/ Settle \/ Adapt \/ RefreshTimer \/ UNCHANGED vars
  BY <1>2, <1>3 DEF Capture, SwitchFails, Settle, Adapt, RefreshTimer, vars, host, viewer
<1>4. CASE SwitchDisplay
  <2>1. size' = 0 /\ UNCHANGED <<down, up, viewSize, acked, frameId>>
    BY <1>4 DEF SwitchDisplay, viewer
  <2>2. Shown(down, viewSize, 0)
    BY <1>1 DEF Shown
  <2>. QED
    BY <1>1, <2>1, <2>2 DEF FlowInv
<1>5. CASE SendFrame
  BY <1>5, FlowSendFrame
<1>6. CASE Wait
  <2>1. latest # NoFrame /\ Announce /\ down' = down \o Info /\ size' = latest.size
        /\ UNCHANGED <<up, viewSize, acked, frameId>>
    BY <1>6 DEF Wait, viewer
  <2>. QED
    BY <1>1, <2>1, FlowBehind DEF FlowInv
<1>7. CASE Receive
  BY <1>7, FlowReceive
<1>8. CASE ChooseSetting
  <2>1. PICK q \in Settings : up' = Append(up, [type |-> "settings", quality |-> q])
    BY <1>8 DEF ChooseSetting
  <2>2. PICK m : m = [type |-> "settings", quality |-> q]
    OBVIOUS
  <2>3. m \in Ups /\ m.type # "ack"
    BY <2>2 DEF Ups, SettingsMsg
  <2>4. UNCHANGED <<down, viewSize, size, acked, frameId>> /\ up' = Append(up, m)
    BY <1>8, <2>1, <2>2 DEF ChooseSetting, host, viewer
  <2>5. up \in Seq(Ups)
    BY <1>1 DEF Typed, Ups
  <2>6. Flow(down, Append(up, m), acked, frameId)
    BY <1>1, <2>3, <2>5, FlowAsked
  <2>. QED
    BY <1>1, <2>4, <2>6 DEF FlowInv
<1>9. CASE Deliver
  BY <1>9, FlowDeliver
<1>. QED
  BY <1>3, <1>4, <1>5, <1>6, <1>7, <1>8, <1>9 DEF Next

\* What the host counts as unacknowledged is exactly what is on its way, as a
\* frame or as an acknowledgement, and never more than the limit: for any limit
\* and any width of the ids it fits in, whatever is switched, resized, refreshed
\* or asked for meanwhile.
THEOREM WindowIsRight == FairSpec => []FlowControl
<1>1. Init => FlowInv
  BY FlowInit
<1>2. FlowInv /\ [Next]_vars => FlowInv'
  BY FlowStep
<1>3. FlowInv => FlowControl
  <2>1. SUFFICES ASSUME FlowInv PROVE FlowControl
    OBVIOUS
  <2>2. down \in Seq(Downs) /\ up \in Seq(Ups) /\ Flow(down, up, acked, frameId)
    BY <2>1 DEF FlowInv, Typed, Downs, Ups
  <2>3. Number(down, "frame") = Count(down, "frame", Len(down)) /\ Len(down) \in Nat
        /\ Count(down, "frame", Len(down)) \in Nat
    BY <2>2, CountNat
  <2>4. Number(up, "ack") = Count(up, "ack", Len(up)) /\ Len(up) \in Nat
        /\ Count(up, "ack", Len(up)) \in Nat
    BY <2>2, CountNat
  <2>. QED
    BY <2>2, <2>3, <2>4 DEF FlowControl, InFlight, Flow
<1>. QED
  BY <1>1, <1>2, <1>3, PTL DEF FairSpec, Spec

-----------------------------------------------------------------------------
(* What the viewer will show: while the screen keeps its size, the states  *)
(* its buffer goes through as the messages on their way arrive.            *)

Good(x) ==
  /\ x = [size |-> x.size, view |-> x.view]
  /\ x.size \in Sizes \cup {0} /\ x.view \in [Tile -> Painted]
  /\ \A k \in Tile : k > x.size => x.view[k] = Blank[k]
Fit(x, m) == x.size # 0 /\ \A k \in DOMAIN m.tiles : k <= x.size
Chain(st, d, s, v) ==
  /\ st[0] = [size |-> s, view |-> v]
  /\ \A i \in 0..Len(d) : Good(st[i])
  /\ \A i \in 1..Len(d) : st[i] = After(st[i - 1], d[i])
  /\ \A i \in 1..Len(d) : d[i].type = "frame" => Fit(st[i - 1], d[i])

\* What a DISPLAY_INFO makes of the viewer's buffer.
LEMMA AfterInfo ==
  ASSUME NEW x, Good(x), NEW m \in InfoMsg
  PROVE  /\ Good(After(x, m))
         /\ m.size # 0 => After(x, m).size = m.size
<1>1. m.type # "frame" /\ m.size \in Sizes \cup {0}
  BY DEF InfoMsg
<1>2. CASE m.size \in {0, x.size}
  BY <1>1, <1>2 DEF After
<1>3. CASE m.size \notin {0, x.size}
  <2>1. PICK y : y = [size |-> m.size, view |-> Blank]
    OBVIOUS
  <2>2. After(x, m) = y
    BY <1>1, <1>3, <2>1 DEF After
  <2>3. Good(y) /\ y.size = m.size
    BY <1>1, <2>1, Values DEF Good
  <2>. QED
    BY <2>2, <2>3
<1>. QED
  BY <1>2, <1>3

\* What a FRAME that fits makes of the viewer's buffer.
LEMMA AfterFrame ==
  ASSUME NEW x, Good(x), NEW m, m.type = "frame", NEW T \in SUBSET Tile, m.tiles \in [T -> Painted],
         Fit(x, m)
  PROVE  /\ Good(After(x, m)) /\ After(x, m).size = x.size
         /\ After(x, m).view = [k \in Tile |-> IF k \in T THEN m.tiles[k] ELSE x.view[k]]
<1>1. DOMAIN m.tiles = T
  OBVIOUS
<1>2. PICK w : w = [k \in Tile |-> IF k \in T THEN m.tiles[k] ELSE x.view[k]]
  OBVIOUS
<1>3. After(x, m) = [size |-> x.size, view |-> w]
  BY <1>1, <1>2 DEF After
<1>4. w \in [Tile -> Painted]
  BY <1>2 DEF Good
<1>5. \A k \in Tile : k > x.size => w[k] = Blank[k]
  <2>1. ASSUME NEW k \in Tile, k > x.size
        PROVE  k \notin T
    <3>1. x.size \in Nat /\ k \in Nat
      BY SizesAreTiled DEF Good, Tile
    <3>. QED
      BY <1>1, <2>1, <3>1 DEF Fit
  <2>. QED
    BY <1>2, <2>1 DEF Good
<1>6. Good([size |-> x.size, view |-> w])
  BY <1>4, <1>5 DEF Good
<1>. QED
  BY <1>2, <1>3, <1>6

\* A message behind a chain of states adds the state after it.
LEMMA ChainAppend ==
  ASSUME NEW d \in Seq(Downs), NEW st, NEW s, NEW v, Chain(st, d, s, v), NEW m \in Downs,
         Good(After(st[Len(d)], m)), m.type = "frame" => Fit(st[Len(d)], m)
  PROVE  \E ru : Chain(ru, Append(d, m), s, v) /\ ru[Len(Append(d, m))] = After(st[Len(d)], m)
<1>1. PICK e : e = Append(d, m)
  OBVIOUS
<1>2. Len(e) = Len(d) + 1 /\ Len(d) \in Nat /\ e[Len(e)] = m /\ \A i \in 1..Len(d) : e[i] = d[i]
  BY <1>1
<1>3. PICK z : z = After(st[Len(d)], m)
  OBVIOUS
<1>4. PICK ru : ru = [i \in 0..Len(e) |-> IF i \in 0..Len(d) THEN st[i] ELSE z]
  OBVIOUS
<1>5. ru[Len(e)] = z /\ \A i \in 0..Len(d) : ru[i] = st[i]
  BY <1>2, <1>4
<1>6. ASSUME NEW i \in 1..Len(e), i # Len(e)
      PROVE  i \in 1..Len(d) /\ ru[i] = st[i] /\ ru[i - 1] = st[i - 1] /\ e[i] = d[i]
  BY <1>2, <1>5, <1>6
<1>7. ru[Len(e) - 1] = st[Len(d)]
  BY <1>2, <1>5
<1>8. Chain(ru, e, s, v)
  <2>1. ru[0] = [size |-> s, view |-> v]
    BY <1>2, <1>5 DEF Chain
  <2>2. ASSUME NEW i \in 0..Len(e)
        PROVE  Good(ru[i])
    <3>1. CASE i = Len(e)
      BY <1>3, <1>5, <3>1
    <3>2. CASE i # Len(e)
      <4>1. i \in 0..Len(d)
        BY <1>2, <3>2
      <4>. QED
        BY <1>5, <4>1 DEF Chain
    <3>. QED
      BY <3>1, <3>2
  <2>3. ASSUME NEW i \in 1..Len(e)
        PROVE  ru[i] = After(ru[i - 1], e[i]) /\ (e[i].type = "frame" => Fit(ru[i - 1], e[i]))
    <3>1. CASE i = Len(e)
      BY <1>2, <1>3, <1>5, <1>7, <3>1
    <3>2. CASE i # Len(e)
      BY <1>6, <3>2 DEF Chain
    <3>. QED
      BY <3>1, <3>2
  <2>. QED
    BY <2>1, <2>2, <2>3 DEF Chain
<1>. QED
  BY <1>1, <1>3, <1>5, <1>8

\* Without its first message, the chain starts at its second state.
LEMMA ChainTail ==
  ASSUME NEW d \in Seq(Downs), d # <<>>, NEW st, NEW s, NEW v, Chain(st, d, s, v)
  PROVE  \E ru : Chain(ru, Tail(d), st[1].size, st[1].view) /\ ru[Len(Tail(d))] = st[Len(d)]
<1>1. PICK e : e = Tail(d)
  OBVIOUS
<1>2. Len(d) = Len(e) + 1 /\ Len(e) \in Nat /\ \A i \in 1..Len(e) : e[i] = d[i + 1]
  BY <1>1
<1>3. PICK ru : ru = [i \in 0..Len(e) |-> st[i + 1]]
  OBVIOUS
<1>4. ru[0] = st[1] /\ ru[Len(e)] = st[Len(d)]
  BY <1>2, <1>3
<1>5. ASSUME NEW i \in 0..Len(e)
      PROVE  Good(ru[i])
  <2>1. i + 1 \in 0..Len(d) /\ ru[i] = st[i + 1]
    BY <1>2, <1>3
  <2>. QED
    BY <2>1 DEF Chain
<1>6. ru[0] = [size |-> st[1].size, view |-> st[1].view]
  BY <1>2, <1>4, <1>5 DEF Good
<1>7. ASSUME NEW i \in 1..Len(e)
      PROVE  ru[i] = After(ru[i - 1], e[i]) /\ (e[i].type = "frame" => Fit(ru[i - 1], e[i]))
  <2>1. i + 1 \in 1..Len(d) /\ ru[i] = st[i + 1] /\ ru[i - 1] = st[i] /\ e[i] = d[i + 1] /\ (i + 1) - 1 = i
    BY <1>2, <1>3
  <2>2. st[i + 1] = After(st[(i + 1) - 1], d[i + 1])
        /\ (d[i + 1].type = "frame" => Fit(st[(i + 1) - 1], d[i + 1]))
    BY <2>1 DEF Chain
  <2>. QED
    BY <2>1, <2>2
<1>8. Chain(ru, e, st[1].size, st[1].view)
  BY <1>5, <1>6, <1>7 DEF Chain
<1>. QED
  BY <1>1, <1>4, <1>8

\* What the host takes the viewer's buffer to be.
Agreed(x) ==
  /\ size # 0 => x.size = size
  /\ ~needFull => size # 0 /\ x.view = sent
  /\ size # 0 => \A k \in Tile : k > size => sent[k] = Blank[k]
Kept == \E st : Chain(st, down, viewSize, view) /\ Agreed(st[Len(down)])
\* What it sent last is on the screen, unless there is something new.
Exact ==
  ~fresh /\ latest # NoFrame /\ ~needFull /\ ~Resized
    => \A k \in 1..size : sent[k].color = latest.pix[k]
ViewInv == Typed /\ (resizes \/ (Kept /\ Exact))

\* send_display_info ends the chain with a buffer of the size captured.
LEMMA ChainBehind ==
  ASSUME Typed, latest # NoFrame, Announce, ~resizes, NEW st, Chain(st, down, viewSize, view),
         Agreed(st[Len(down)])
  PROVE  \E ru : /\ Chain(ru, down \o Info, viewSize, view)
                 /\ ru[Len(down \o Info)].size = latest.size
                 /\ ~Resized => ru[Len(down \o Info)] = st[Len(down)]
<1>1. PICK e : e = down \o Info
  OBVIOUS
<1>2. Behind(down, e) /\ latest' = latest /\ latest.size # 0 /\ down \in Seq(Downs)
  BY <1>1, InfoBehind, AnnounceSays, Values DEF Typed, Downs
<1>3. CASE e = down /\ ~Resized
  <2>1. size = latest.size
    BY <1>3 DEF Resized
  <2>2. st[Len(down)].size = latest.size
    BY <1>2, <2>1 DEF Agreed
  <2>. QED
    BY <1>1, <1>3, <2>2
<1>4. CASE Resized
  <2>1. PICK m \in InfoMsg : m.size = latest.size /\ e = Append(down, m)
    BY <1>2, <1>4 DEF Behind
  <2>2. m \in Downs /\ m.type # "frame" /\ m.size # 0
    BY <1>2, <2>1 DEF Downs, InfoMsg
  <2>3. Good(st[Len(down)])
    BY <1>2 DEF Chain
  <2>4. Good(After(st[Len(down)], m)) /\ After(st[Len(down)], m).size = m.size
    BY <2>2, <2>3, AfterInfo
  <2>5. PICK ru : Chain(ru, Append(down, m), viewSize, view)
                  /\ ru[Len(Append(down, m))] = After(st[Len(down)], m)
    BY <1>2, <2>2, <2>4, ChainAppend
  <2>. QED
    BY <1>1, <1>4, <2>1, <2>4, <2>5
<1>. QED
  BY <1>2, <1>3, <1>4 DEF Behind

\* Tiles beyond the size captured are blank in what is compared with.
LEMMA BaseBeyond ==
  ASSUME Typed, latest # NoFrame, NEW x, Agreed(x)
  PROVE  \A k \in Tile : k > latest.size => Base[k] = Blank[k]
<1>1. CASE Resized
  BY <1>1 DEF Base
<1>2. CASE ~Resized
  <2>1. latest.size # 0 /\ size = latest.size
    BY <1>2, Values DEF Typed, Resized
  <2>. QED
    BY <1>2, <2>1 DEF Base, Agreed
<1>. QED
  BY <1>1, <1>2

\* A frame that is sent brings the end of the chain to the shadow.
LEMMA KeptSendFrame ==
  ASSUME Typed, Kept, ~resizes, SendFrame
  PROVE  Kept' /\ Exact'
<1>1. latest # NoFrame /\ Announce /\ Encode(Full) /\ size' = latest.size /\ needFull' = FALSE
      /\ UNCHANGED <<viewSize, view>>
  BY DEF SendFrame, viewer
<1>2. latest \in Frames /\ latest' = latest /\ down \in Seq(Downs)
  BY <1>1, AnnounceSays DEF Typed, Downs
<1>3. PICK e : e = down \o Info
  OBVIOUS
<1>4. e \in Seq(Downs)
  BY <1>1, <1>3, InfoBehind DEF Downs
<1>5. PICK T \in SUBSET Tile : Encoded(T) /\ FrameBehind(T, e)
  BY <1>1, <1>2, <1>3, <1>4, EncodeSends DEF Downs
<1>6. PICK st : Chain(st, down, viewSize, view) /\ Agreed(st[Len(down)])
  BY DEF Kept
<1>7. PICK ru : /\ Chain(ru, e, viewSize, view) /\ ru[Len(e)].size = latest.size
                /\ ~Resized => ru[Len(e)] = st[Len(down)]
  BY <1>1, <1>3, <1>6, ChainBehind
<1>8. \A k \in Tile : k > latest.size => Base[k] = Blank[k]
  BY <1>1, <1>6, BaseBeyond
<1>9. latest.size \in Nat /\ latest.size # 0 /\ 1..latest.size \subseteq Tile
  BY <1>2, Values
<1>10. T \subseteq 1..latest.size
  <2>1. ASSUME NEW k \in T, k \notin 1..latest.size
        PROVE  FALSE
    <3>1. k \in Tile /\ k > latest.size
      BY <1>9, <2>1, SizesAreTiled DEF Tile
    <3>2. Base[k].q = 0
      BY <1>8, <3>1 DEF Blank
    <3>. QED
      BY <1>5, <2>1, <3>2 DEF Encoded
  <2>. QED
    BY <2>1
<1>11. sent' \in [Tile -> Painted] /\ \A k \in Tile : k \notin T => sent'[k] = Base[k]
  BY <1>5 DEF Encoded
<1>12. \A k \in Tile : k > latest.size => k \notin T /\ sent'[k] = Blank[k]
  BY <1>8, <1>9, <1>10, <1>11
<1>13. ~Full => ru[Len(e)].view = Base
  <2>1. ~Full => ~needFull /\ ~Resized
    BY DEF Full
  <2>. QED
    BY <1>6, <1>7, <2>1 DEF Agreed, Base
<1>14. PICK y : y = ru[Len(e)]
  OBVIOUS
<1>15. Good(y) /\ y.size = latest.size
  BY <1>4, <1>7, <1>14 DEF Chain
<1>16. \A k \in Tile : k \notin T => sent'[k] = y.view[k]
  <2>1. CASE Full
    <3>1. T = 1..latest.size
      BY <1>5, <1>10, <2>1 DEF Encoded
    <3>2. ASSUME NEW k \in Tile, k \notin T
          PROVE  k > latest.size
      BY <1>9, <3>1, <3>2, SizesAreTiled DEF Tile
    <3>. QED
      BY <1>12, <1>15, <3>2 DEF Good
  <2>2. CASE ~Full
    BY <1>11, <1>13, <1>14, <2>2
  <2>. QED
    BY <2>1, <2>2
<1>17. Exact'
  BY <1>1, <1>2, <1>5 DEF Exact, Encoded
<1>18. CASE T = {}
  <2>1. down' = e
    BY <1>5, <1>18 DEF FrameBehind
  <2>2. y.view = sent'
    BY <1>11, <1>15, <1>16, <1>18 DEF Good
  <2>3. Agreed(y)'
    BY <1>1, <1>9, <1>12, <1>15, <2>2 DEF Agreed
  <2>. QED
    BY <1>1, <1>7, <1>14, <1>17, <2>1, <2>3 DEF Kept
<1>19. CASE T # {}
  <2>1. frameId' = (frameId + 1) % IdModulus /\ down' = Append(e, TheFrame(T))
    BY <1>5, <1>19 DEF FrameBehind
  <2>2. TheFrame(T) \in FrameMsg
    BY <1>5, <1>19, <2>1, FrameTyped
  <2>3. PICK m : m = TheFrame(T)
    OBVIOUS
  <2>4. m.type = "frame" /\ m.tiles = [k \in T |-> sent'[k]] /\ m \in Downs
    BY <2>2, <2>3 DEF TheFrame, Downs
  <2>5. m.tiles \in [T -> Painted] /\ DOMAIN m.tiles = T
    BY <1>11, <2>4
  <2>6. Fit(y, m)
    <3>1. \A k \in T : k <= latest.size
      BY <1>9, <1>10
    <3>. QED
      BY <1>9, <1>15, <2>5, <3>1 DEF Fit
  <2>7. Good(After(y, m)) /\ After(y, m).size = latest.size
        /\ After(y, m).view = [k \in Tile |-> IF k \in T THEN m.tiles[k] ELSE y.view[k]]
    BY <1>15, <2>4, <2>5, <2>6, AfterFrame
  <2>8. After(y, m).view = sent'
    <3>1. \A k \in T : m.tiles[k] = sent'[k]
      BY <2>4
    <3>. QED
      BY <1>11, <1>16, <2>7, <3>1
  <2>9. PICK z : Chain(z, Append(e, m), viewSize, view) /\ z[Len(Append(e, m))] = After(y, m)
    BY <1>4, <1>7, <1>14, <2>4, <2>6, <2>7, ChainAppend
  <2>10. PICK x : x = After(y, m)
    OBVIOUS
  <2>11. Agreed(x)'
    BY <1>1, <1>9, <1>12, <2>7, <2>8, <2>10 DEF Agreed
  <2>. QED
    BY <1>1, <1>17, <2>1, <2>3, <2>9, <2>10, <2>11 DEF Kept
<1>. QED
  BY <1>18, <1>19

\* No frame, no change of what the viewer will show.
LEMMA KeptWait ==
  ASSUME Typed, Kept, Exact, ~resizes, Wait
  PROVE  Kept' /\ Exact'
<1>1. latest # NoFrame /\ Announce /\ size' = latest.size /\ needFull' = Full /\ sent' = Base
      /\ down' = down \o Info /\ UNCHANGED <<viewSize, view>> /\ fresh' = (fresh \/ FreshAfter)
  BY DEF Wait, viewer
<1>2. latest' = latest /\ latest.size # 0
  BY <1>1, AnnounceSays, Values
<1>3. PICK st : Chain(st, down, viewSize, view) /\ Agreed(st[Len(down)])
  BY DEF Kept
<1>4. PICK ru : /\ Chain(ru, down \o Info, viewSize, view)
                /\ ru[Len(down \o Info)].size = latest.size
                /\ ~Resized => ru[Len(down \o Info)] = st[Len(down)]
  BY <1>1, <1>3, ChainBehind
<1>5. \A k \in Tile : k > latest.size => Base[k] = Blank[k]
  BY <1>1, <1>3, BaseBeyond
<1>6. ~Full => ~needFull /\ ~Resized
  BY DEF Full
<1>7. ~Full => ru[Len(down \o Info)].view = Base
  BY <1>3, <1>4, <1>6 DEF Agreed, Base
<1>8. PICK y : y = ru[Len(down \o Info)]
  OBVIOUS
<1>9. Agreed(y)'
  BY <1>1, <1>2, <1>4, <1>5, <1>7, <1>8 DEF Agreed
<1>10. Kept'
  BY <1>1, <1>4, <1>8, <1>9 DEF Kept
<1>11. Exact'
  BY <1>1, <1>2, <1>6 DEF Exact, FreshAfter, Base, Resized
<1>. QED
  BY <1>10, <1>11

\* The viewer that reads a message moves along its chain.
LEMMA KeptDeliver ==
  ASSUME Typed, Kept, Exact, Deliver
  PROVE  Kept' /\ Exact'
<1>1. down # <<>> /\ down' = Tail(down) /\ UNCHANGED <<latest, fresh, size, sent, needFull>>
      /\ down \in Seq(Downs)
  BY DEF Deliver, screen, host, Typed, Downs
<1>2. PICK st : Chain(st, down, viewSize, view) /\ Agreed(st[Len(down)])
  BY DEF Kept
<1>3. PICK ru : Chain(ru, Tail(down), st[1].size, st[1].view) /\ ru[Len(Tail(down))] = st[Len(down)]
  BY <1>1, <1>2, ChainTail
<1>4. PICK m \in Downs : m = Head(down)
  BY <1>1
<1>5. down[1] = m /\ 1 \in 1..Len(down) /\ 1 - 1 = 0
  BY <1>1, <1>4
<1>6. st[1] = After(st[0], m) /\ (m.type = "frame" => Fit(st[0], m))
  <2>1. st[1] = After(st[1 - 1], down[1]) /\ (down[1].type = "frame" => Fit(st[1 - 1], down[1]))
    BY <1>2, <1>5 DEF Chain
  <2>. QED
    BY <1>5, <2>1
<1>7. st[0] = [size |-> viewSize, view |-> view]
  BY <1>2 DEF Chain
<1>8. viewSize' = st[1].size /\ view' = st[1].view
  <2>1. CASE Show(m)
    BY <1>6, <1>7, <2>1 DEF Show, After
  <2>2. CASE Paint(m)
    <3>1. m.type = "frame" /\ viewSize # 0 /\ Fits(m)
      BY <1>6, <1>7, <2>2 DEF Paint, Fit, Fits
    <3>2. view' = [k \in Tile |-> IF k \in DOMAIN m.tiles THEN m.tiles[k] ELSE view[k]]
          /\ viewSize' = viewSize
      BY <2>2, <3>1 DEF Paint
    <3>. QED
      BY <1>6, <1>7, <3>1, <3>2 DEF After
  <2>. QED
    BY <1>4, <2>1, <2>2 DEF Deliver
<1>9. PICK x : x = st[Len(down)]
  OBVIOUS
<1>10. Agreed(x)'
  BY <1>1, <1>2, <1>9 DEF Agreed
<1>11. Kept'
  BY <1>1, <1>3, <1>8, <1>9, <1>10 DEF Kept
<1>12. Exact'
  BY <1>1 DEF Exact, Resized
<1>. QED
  BY <1>11, <1>12

\* Every step keeps what the viewer will show.
LEMMA ViewStep ==
  ASSUME ViewInv, [Next]_vars
  PROVE  ViewInv'
<1>1. Typed /\ Typed'
  BY TypedStep DEF ViewInv
<1>2. resizes' = resizes
  BY DEF Next, vars, Capture, SwitchDisplay, SwitchFails, SendFrame, Wait, Settle, Adapt, Receive,
         ChooseSetting, RefreshTimer, Deliver, screen
<1>3. CASE resizes
  BY <1>1, <1>2, <1>3 DEF ViewInv
<1>4. CASE ~resizes
  <2>1. Kept /\ Exact
    BY <1>4 DEF ViewInv
  <2>2. ASSUME UNCHANGED <<down, viewSize, view, size, sent, needFull>>
        PROVE  Kept'
    <3>1. PICK st : Chain(st, down, viewSize, view) /\ Agreed(st[Len(down)])
      BY <2>1 DEF Kept
    <3>2. PICK x : x = st[Len(down)]
      OBVIOUS
    <3>3. Agreed(x)'
      BY <2>2, <3>1, <3>2 DEF Agreed
    <3>. QED
      BY <2>2, <3>1, <3>2, <3>3 DEF Kept
  <2>3. ASSUME UNCHANGED <<down, viewSize, view, size, sent, needFull, latest, fresh>>
        PROVE  Kept' /\ Exact'
    BY <2>1, <2>2, <2>3 DEF Exact, Resized
  <2>. SUFFICES Kept' /\ Exact'
    BY <1>1 DEF ViewInv
  <2>4. CASE Settle \/ Adapt \/ ChooseSetting \/ RefreshTimer \/ UNCHANGED vars
    BY <2>3, <2>4 DEF Settle, Adapt, ChooseSetting, RefreshTimer, vars, screen, host, viewer
  <2>5. CASE Capture
    <3>1. fresh' = TRUE /\ UNCHANGED <<down, viewSize, view, size, sent, needFull>>
      BY <2>5 DEF Capture, Publish, host, viewer
    <3>. QED
      BY <2>2, <3>1 DEF Exact
  <2>6. CASE SwitchFails
    <3>1. latest' = NoFrame /\ UNCHANGED <<down, viewSize, view, size, sent, needFull>>
      BY <2>6 DEF SwitchFails, host, viewer
    <3>. QED
      BY <2>2, <3>1 DEF Exact
  <2>7. CASE SwitchDisplay
    <3>1. latest' = NoFrame /\ size' = 0 /\ needFull' = TRUE /\ UNCHANGED <<down, viewSize, view, sent>>
      BY <2>7 DEF SwitchDisplay, viewer
    <3>2. PICK st : Chain(st, down, viewSize, view)
      BY <2>1 DEF Kept
    <3>3. PICK x : x = st[Len(down)]
      OBVIOUS
    <3>4. Agreed(x)'
      BY <3>1 DEF Agreed
    <3>5. Kept'
      BY <3>1, <3>2, <3>3, <3>4 DEF Kept
    <3>. QED
      BY <3>1, <3>5 DEF Exact
  <2>8. CASE SendFrame
    BY <1>1, <1>4, <2>1, <2>8, KeptSendFrame
  <2>9. CASE Wait
    BY <1>1, <1>4, <2>1, <2>9, KeptWait
  <2>10. CASE Receive
    <3>1. UNCHANGED <<down, viewSize, view, size, sent, latest, fresh>> /\ (needFull' = needFull \/ needFull' = TRUE)
      BY <2>10 DEF Receive, screen, viewer
    <3>2. PICK st : Chain(st, down, viewSize, view) /\ Agreed(st[Len(down)])
      BY <2>1 DEF Kept
    <3>3. PICK x : x = st[Len(down)]
      OBVIOUS
    <3>4. Agreed(x)'
      BY <3>1, <3>2, <3>3 DEF Agreed
    <3>5. Kept'
      BY <3>1, <3>2, <3>3, <3>4 DEF Kept
    <3>6. Exact'
      BY <2>1, <3>1 DEF Exact, Resized
    <3>. QED
      BY <3>5, <3>6
  <2>11. CASE Deliver
    BY <1>1, <2>1, <2>11, KeptDeliver
  <2>. QED
    BY <2>4, <2>5, <2>6, <2>7, <2>8, <2>9, <2>10, <2>11 DEF Next
<1>. QED
  BY <1>3, <1>4

\* The invariant of the view holds at first.
LEMMA ViewInit ==
  ASSUME Init
  PROVE  ViewInv
<1>1. Typed
  BY TypedInit
<1>2. PICK known \in Sizes \cup {0} : down = <<[type |-> "info", size |-> known]>>
  <2>1. latest.size \in Sizes \cup {0}
    BY <1>1, Values DEF Typed
  <2>. QED
    BY <2>1 DEF Init
<1>3. PICK m : m = [type |-> "info", size |-> known]
  OBVIOUS
<1>4. down = <<m>> /\ down = Append(<<>>, m) /\ <<>> \in Seq(Downs) /\ Len(<<>>) = 0
  BY <1>2, <1>3
<1>5. m \in InfoMsg
  BY <1>2, <1>3 DEF InfoMsg
<1>6. m \in Downs /\ m.type # "frame"
  BY <1>3, <1>5 DEF Downs
<1>7. PICK x : x = [size |-> viewSize, view |-> view]
  OBVIOUS
<1>8. Good(x)
  BY <1>7, Values DEF Init, Good
<1>9. PICK st : st = [i \in 0..0 |-> x]
  OBVIOUS
<1>10. Chain(st, <<>>, viewSize, view) /\ st[Len(<<>>)] = x
  BY <1>4, <1>7, <1>8, <1>9 DEF Chain
<1>11. Good(After(x, m))
  BY <1>5, <1>8, AfterInfo
<1>12. PICK ru : Chain(ru, Append(<<>>, m), viewSize, view)
  BY <1>4, <1>6, <1>10, <1>11, ChainAppend
<1>13. size = 0 /\ needFull = TRUE
  BY DEF Init
<1>14. \A y : Agreed(y)
  BY <1>13 DEF Agreed
<1>15. Kept
  BY <1>4, <1>12, <1>14 DEF Kept
<1>. QED
  BY <1>1, <1>13, <1>15 DEF ViewInv, Exact

\* The states the buffer goes through are those Arrived computes.
LEMMA ArrivedLast ==
  ASSUME NEW st, down \in Seq(Downs), Chain(st, down, viewSize, view)
  PROVE  Arrived = st[Len(down)]
<1>. DEFINE F(f) == f = [n \in 0..Len(down) |->
                           IF n = 0 THEN [size |-> viewSize, view |-> view]
                           ELSE After(f[n - 1], down[n])]
<1>1. Len(down) \in Nat
  OBVIOUS
<1>2. PICK g : g = [n \in 0..Len(down) |-> st[n]]
  OBVIOUS
<1>3. ASSUME NEW n \in 0..Len(down)
      PROVE  g[n] = (IF n = 0 THEN [size |-> viewSize, view |-> view] ELSE After(g[n - 1], down[n]))
  <2>1. CASE n = 0
    BY <1>2, <2>1 DEF Chain
  <2>2. CASE n # 0
    <3>1. n \in 1..Len(down) /\ n - 1 \in 0..Len(down)
      BY <1>1, <2>2
    <3>2. g[n] = st[n] /\ g[n - 1] = st[n - 1]
      BY <1>2, <3>1
    <3>. QED
      BY <2>2, <3>1, <3>2 DEF Chain
  <2>. QED
    BY <2>1, <2>2
<1>4. F(g)
  BY <1>2, <1>3
<1>5. \E f : F(f)
  <2>. HIDE DEF F
  <2>. QED
    BY <1>4
<1>6. F(CHOOSE f : F(f))
  <2>. HIDE DEF F
  <2>. QED
    BY <1>5
<1>7. Arrived = (CHOOSE f : F(f))[Len(down)]
  BY DEF Arrived
<1>8. PICK c : c = (CHOOSE f : F(f))
  OBVIOUS
<1>9. F(c)
  <2>. HIDE DEF F
  <2>. QED
    BY <1>6, <1>8
<1>10. ASSUME NEW n \in 0..Len(down)
       PROVE  c[n] = (IF n = 0 THEN [size |-> viewSize, view |-> view] ELSE After(c[n - 1], down[n]))
  BY <1>9
<1>. DEFINE Bad == {n \in 0..Len(down) : c[n] # st[n]}
<1>11. Bad = {}
  <2>1. SUFFICES ASSUME Bad # {} PROVE FALSE
    OBVIOUS
  <2>2. PICK n \in Bad : \A m \in Bad : n <= m
    <3>1. Bad \subseteq Nat
      BY <1>1
    <3>. HIDE DEF Bad
    <3>. QED
      BY <2>1, <3>1, LeastNumber
  <2>3. n \in 0..Len(down) /\ c[n] # st[n]
    BY <2>2
  <2>4. CASE n = 0
    BY <1>10, <2>3, <2>4 DEF Chain
  <2>5. CASE n # 0
    <3>1. n \in 1..Len(down) /\ n - 1 \in 0..Len(down) /\ ~(n <= n - 1)
      BY <1>1, <2>3, <2>5
    <3>2. c[n - 1] = st[n - 1]
      BY <2>2, <3>1
    <3>3. c[n] = After(c[n - 1], down[n])
      BY <1>10, <2>3, <2>5
    <3>4. st[n] = After(st[n - 1], down[n])
      BY <3>1 DEF Chain
    <3>. QED
      BY <2>3, <3>2, <3>3, <3>4
  <2>. QED
    BY <2>4, <2>5
<1>12. Len(down) \in 0..Len(down)
  BY <1>1
<1>13. c[Len(down)] = st[Len(down)]
  BY <1>11, <1>12
<1>. QED
  BY <1>7, <1>8, <1>13

\* The invariant of the view holds in every behaviour.
LEMMA ViewAlways == FairSpec => []ViewInv
<1>1. Init => ViewInv
  BY ViewInit
<1>2. ViewInv /\ [Next]_vars => ViewInv'
  BY ViewStep
<1>. QED
  BY <1>1, <1>2, PTL DEF FairSpec, Spec

\* No tile of a frame falls outside the screen the viewer was told of, while the
\* screen keeps its size between restarts: for any sizes, however the displays
\* are switched.
THEOREM TilesFit == FairSpec => []FramesFit
<1>1. ViewInv => FramesFit
  <2>1. SUFFICES ASSUME ViewInv, ~resizes, down # <<>>, Head(down).type = "frame"
                 PROVE  viewSize # 0 /\ Fits(Head(down))
    BY DEF FramesFit
  <2>2. PICK st : Chain(st, down, viewSize, view)
    BY <2>1 DEF ViewInv, Kept
  <2>3. Head(down) = down[1] /\ 1 \in 1..Len(down) /\ 1 - 1 = 0
    BY <2>1 DEF ViewInv, Typed
  <2>4. Fit(st[0], Head(down)) /\ st[0] = [size |-> viewSize, view |-> view]
    BY <2>1, <2>2, <2>3 DEF Chain
  <2>. QED
    BY <2>4 DEF Fit, Fits
<1>. QED
  BY <1>1, ViewAlways, PTL

\* The shadow is what the viewer will show once everything on its way has
\* arrived, unless everything is to be sent again: so every difference is taken
\* against the right picture, for any screen contents, qualities and budgets.
THEOREM ShadowIsRight == FairSpec => []ShadowIsView
<1>1. ViewInv => ShadowIsView
  <2>1. SUFFICES ASSUME ViewInv, ~resizes, ~needFull
                 PROVE  Arrived.size = size /\ Arrived.view = sent
    BY DEF ShadowIsView
  <2>2. PICK st : Chain(st, down, viewSize, view) /\ Agreed(st[Len(down)])
    BY <2>1 DEF ViewInv, Kept
  <2>3. down \in Seq(Downs)
    BY <2>1 DEF ViewInv, Typed, Downs
  <2>4. Arrived = st[Len(down)]
    BY <2>2, <2>3, ArrivedLast
  <2>. QED
    BY <2>1, <2>2, <2>4 DEF Agreed
<1>. QED
  BY <1>1, ViewAlways, PTL

\* When nothing is on its way and nothing is left to send, the viewer shows the
\* screen, and in automatic mode shows it losslessly.
THEOREM QuietShowsTheScreen == FairSpec => []QuietIsExact
<1>1. ViewInv => QuietIsExact
  <2>1. SUFFICES ASSUME ViewInv, Quiet, ~resizes
                 PROVE  /\ viewSize = latest.size
                        /\ \A k \in 1..viewSize : view[k].color = latest.pix[k]
                        /\ setting = Automatic => LossyTiles(view) = {}
    BY DEF QuietIsExact
  <2>2. down = <<>> /\ latest # NoFrame /\ ~Wanted /\ ~Resized /\ settled
    BY <2>1 DEF Quiet
  <2>3. ~fresh /\ ~needFull /\ ~(Refine /\ Calm)
    BY <2>2 DEF Wanted, Full
  <2>4. PICK st : Chain(st, down, viewSize, view) /\ Agreed(st[Len(down)])
    BY <2>1 DEF ViewInv, Kept
  <2>5. Len(down) = 0
    BY <2>2
  <2>6. viewSize = size /\ view = sent
    BY <2>3, <2>4, <2>5 DEF Chain, Agreed
  <2>7. size = latest.size
    BY <2>2 DEF Resized
  <2>8. \A k \in 1..size : sent[k].color = latest.pix[k]
    BY <2>1, <2>2, <2>3 DEF ViewInv, Exact
  <2>9. setting = Automatic => LossyTiles(sent) = {}
    BY <2>2, <2>3 DEF Refine, Calm, Base
  <2>. QED
    BY <2>6, <2>7, <2>8, <2>9
<1>. QED
  BY <1>1, ViewAlways, PTL
=============================================================================
