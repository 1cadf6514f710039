---------------------------- MODULE CodecProofs ----------------------------
(***************************************************************************)
(* Proofs that the compression and the encoding of a tile lose nothing     *)
(* (Lz and TileCodec, followed in DataPath), for any values of the         *)
(* constants, any hash and any choice of blocks.                           *)
(***************************************************************************)
EXTENDS DataPath, SequenceTheorems, WellFoundedInduction, TLAPS

-----------------------------------------------------------------------------
(* Numbers.                                                                *)

\* Every set of numbers that is not empty has a least element.
LEMMA LeastNumber ==
  ASSUME NEW S, S \subseteq Nat, S # {}
  PROVE  \E x \in S : \A y \in S : x <= y
<1>1. PICK x \in S : \A y \in Nat : <<y, x>> \in OpToRel(<, Nat) => y \notin S
  BY NatLessThanWellFounded, WFMin
<1>2. \A y \in S : ~(y < x)
  BY <1>1 DEF OpToRel
<1>. QED
  BY <1>2

\* A set of numbers that holds 0 and every successor of one of its numbers, up to
\* m, holds all up to m.
LEMMA UpTo ==
  ASSUME NEW m \in Nat, NEW S, 0 \in S, \A n \in 1..m : n - 1 \in S => n \in S
  PROVE  0..m \subseteq S
<1>. DEFINE Missing == {n \in 0..m : n \notin S}
<1>1. Missing \subseteq Nat
  OBVIOUS
<1>2. SUFFICES ASSUME Missing # {} PROVE FALSE
  OBVIOUS
<1>3. PICK x \in Missing : \A y \in Missing : x <= y
  <2>. HIDE DEF Missing
  <2>. QED
    BY <1>1, <1>2, LeastNumber
<1>4. x \in 1..m
  BY <1>3
<1>5. x - 1 \notin Missing
  BY <1>3, <1>4
<1>6. x - 1 \in S
  BY <1>4, <1>5
<1>. QED
  BY <1>3, <1>4, <1>6

\* The lesser and the greater of two numbers.
LEMMA OfTwo ==
  ASSUME NEW x \in Int, NEW y \in Int
  PROVE  /\ Compression!Min({x, y}) = IF x <= y THEN x ELSE y
         /\ Codec!Min({x, y}) = IF x <= y THEN x ELSE y
         /\ Codec!Max({x, y}) = IF x >= y THEN x ELSE y
BY DEF Compression!Min, Codec!Min, Codec!Max

\* The greatest of a bounded set of numbers.
LEMMA Greatest ==
  ASSUME NEW m \in Nat, NEW S, S \subseteq 0..m, S # {}
  PROVE  Compression!Max(S) \in S
<1>. DEFINE T == {m - x : x \in S}
<1>1. T \subseteq Nat /\ T # {}
  <2>1. \A x \in S : x \in 0..m
    OBVIOUS
  <2>2. \A x \in S : m - x \in Nat
    BY <2>1
  <2>. QED
    BY <2>2
<1>2. PICK t \in T : \A u \in T : t <= u
  <2>. HIDE DEF T
  <2>. QED
    BY <1>1, LeastNumber
<1>3. PICK x \in S : t = m - x
  BY <1>2
<1>4. ASSUME NEW y \in S PROVE x >= y
  <2>1. m - y \in T
    OBVIOUS
  <2>. HIDE DEF T
  <2>2. t <= m - y
    BY <1>2, <2>1
  <2>3. x \in 0..m /\ y \in 0..m
    OBVIOUS
  <2>. QED
    BY <1>3, <2>2, <2>3
<1>. QED
  BY <1>3, <1>4 DEF Compression!Max

\* Division: the quotient and the remainder, and what determines them.
LEMMA Quotient ==
  ASSUME NEW x \in Nat, NEW d \in Nat \ {0}
  PROVE  x \div d \in Nat /\ x % d \in 0..(d - 1) /\ x = d * (x \div d) + (x % d)
OBVIOUS

LEMMA Recomposed ==
  ASSUME NEW q \in Nat, NEW d \in Nat \ {0}, NEW r \in 0..(d - 1)
  PROVE  (q * d + r) \div d = q /\ (q * d + r) % d = r
<1>. DEFINE k == (q * d + r) \div d
            s == (q * d + r) % d
<1>1. k \in Int /\ s \in 0..(d - 1) /\ q * d + r = d * k + s
  OBVIOUS
<1>. HIDE DEF k, s
<1>2. k < q + 1 /\ q < k + 1
  BY <1>1
<1>3. k = q
  BY <1>1, <1>2
<1>. QED
  BY <1>1, <1>3 DEF k, s

LEMMA Products ==
  ASSUME NEW x \in Nat, NEW y \in Nat
  PROVE  x * y \in Nat
OBVIOUS

\* Quotients of a sum are at least the sum of the quotients.
LEMMA SumOfQuotients ==
  ASSUME NEW x \in Nat, NEW y \in Nat, NEW d \in Nat \ {0}
  PROVE  x \div d + y \div d <= (x + y) \div d
<1>. DEFINE p == x \div d
            q == y \div d
            s == (x + y) \div d
<1>1. p \in Nat /\ q \in Nat /\ s \in Nat /\ x >= d * p /\ y >= d * q /\ x + y < d * (s + 1)
  OBVIOUS
<1>. HIDE DEF p, q, s
<1>2. d * (p + q) < d * (s + 1)
  BY <1>1
<1>3. p + q < s + 1
  BY <1>1, <1>2
<1>. QED
  BY <1>1, <1>3 DEF p, q, s

\* What is below the divisor is its own remainder.
LEMMA SmallRemainder ==
  ASSUME NEW d \in Nat \ {0}, NEW r \in 0..(d - 1)
  PROVE  r % d = r
OBVIOUS

-----------------------------------------------------------------------------
(* The pieces of the compressor's output (Lz), and what is read where one  *)
(* was written.                                                            *)

\* w holds s after its first i symbols.
Holds(w, i, s) == i + Len(s) <= Len(w) /\ \A k \in 1..Len(s) : w[i + k] = s[k]

LEMMA LzFacts ==
  /\ MinMatch \in Nat /\ MinMatch >= 4 /\ LastLiterals \in Nat /\ MfLimit \in Nat /\ Slack \in Nat
  /\ MfLimit >= LastLiterals + MinMatch /\ Slack >= 2
  /\ Nibble \in Nat \ {0} /\ TopByte \in Nat \ {0} /\ SkipLength \in Nat \ {0} /\ Slots \in Nat \ {0}
  /\ Alphabet \subseteq Nat /\ Blocks \subseteq Seq(Alphabet)
  /\ SlotOf \in [[1..MinMatch -> Alphabet] -> 0..(Slots - 1)]
BY CompressionAssumed DEF Compression!LzAssumption

\* Where two pieces are held one after the other, each is.
LEMMA HoldsBoth ==
  ASSUME NEW w \in Seq(Nat), NEW s \in Seq(Nat), NEW t \in Seq(Nat), NEW i \in Nat, Holds(w, i, s \o t)
  PROVE  Holds(w, i, s) /\ Holds(w, i + Len(s), t)
<1>1. /\ Len(s \o t) = Len(s) + Len(t)
      /\ \A k \in 1..(Len(s) + Len(t)) : (s \o t)[k] = IF k <= Len(s) THEN s[k] ELSE t[k - Len(s)]
  BY ConcatProperties
<1>2. Len(s) \in Nat /\ Len(t) \in Nat /\ Len(w) \in Nat
  OBVIOUS
<1>3. i + Len(s) + Len(t) <= Len(w) /\ \A k \in 1..(Len(s) + Len(t)) : w[i + k] = (s \o t)[k]
  <2>1. i + Len(s \o t) <= Len(w) /\ \A k \in 1..Len(s \o t) : w[i + k] = (s \o t)[k]
    BY DEF Holds
  <2>2. i + (Len(s) + Len(t)) = i + Len(s) + Len(t)
    BY <1>2
  <2>. QED
    BY <1>1, <2>1, <2>2
<1>4. ASSUME NEW k \in 1..Len(s) PROVE w[i + k] = s[k]
  <2>1. k \in 1..(Len(s) + Len(t)) /\ k <= Len(s)
    BY <1>2
  <2>. QED
    BY <1>1, <1>3, <2>1
<1>5. ASSUME NEW k \in 1..Len(t) PROVE w[i + Len(s) + k] = t[k]
  <2>1. PICK j : j = Len(s) + k
    OBVIOUS
  <2>2. j \in 1..(Len(s) + Len(t)) /\ ~(j <= Len(s)) /\ j - Len(s) = k /\ i + j = i + Len(s) + k
    BY <1>2, <2>1
  <2>. QED
    BY <1>1, <1>3, <2>2
<1>. QED
  BY <1>2, <1>3, <1>4, <1>5 DEF Holds

\* What is held stays so when more is written.
LEMMA HoldsLonger ==
  ASSUME NEW w \in Seq(Nat), NEW s \in Seq(Nat), NEW t \in Seq(Nat), NEW i \in Nat, Holds(w, i, s)
  PROVE  Holds(w \o t, i, s)
<1>1. /\ Len(w \o t) = Len(w) + Len(t)
      /\ \A k \in 1..(Len(w) + Len(t)) : (w \o t)[k] = IF k <= Len(w) THEN w[k] ELSE t[k - Len(w)]
  BY ConcatProperties
<1>2. Len(s) \in Nat /\ Len(t) \in Nat /\ Len(w) \in Nat
  OBVIOUS
<1>3. i + Len(s) <= Len(w) /\ \A k \in 1..Len(s) : w[i + k] = s[k]
  BY DEF Holds
<1>4. ASSUME NEW k \in 1..Len(s) PROVE (w \o t)[i + k] = s[k]
  <2>1. i + k \in 1..(Len(w) + Len(t)) /\ i + k <= Len(w)
    <3>1. PICK n, m, j : n = Len(w) /\ m = Len(t) /\ j = Len(s)
      OBVIOUS
    <3>2. n \in Nat /\ m \in Nat /\ j \in Nat /\ k \in 1..j /\ i + j <= n
      BY <1>2, <1>3, <3>1
    <3>3. i + k \in 1..(n + m) /\ i + k <= n
      BY <3>2
    <3>. QED
      BY <3>1, <3>3
  <2>. QED
    BY <1>1, <1>3, <2>1
<1>. QED
  BY <1>1, <1>2, <1>3, <1>4 DEF Holds

\* What was written last is held.
LEMMA HoldsLast ==
  ASSUME NEW w \in Seq(Nat), NEW s \in Seq(Nat)
  PROVE  Holds(w \o s, Len(w), s) /\ w \o s \in Seq(Nat) /\ Len(w \o s) = Len(w) + Len(s)
<1>1. /\ w \o s \in Seq(Nat) /\ Len(w \o s) = Len(w) + Len(s)
      /\ \A k \in 1..(Len(w) + Len(s)) : (w \o s)[k] = IF k <= Len(w) THEN w[k] ELSE s[k - Len(w)]
  BY ConcatProperties
<1>2. Len(s) \in Nat /\ Len(w) \in Nat
  OBVIOUS
<1>3. ASSUME NEW k \in 1..Len(s) PROVE (w \o s)[Len(w) + k] = s[k]
  <2>1. PICK j : j = Len(w) + k
    OBVIOUS
  <2>2. j \in 1..(Len(w) + Len(s)) /\ ~(j <= Len(w)) /\ j - Len(w) = k
    BY <1>2, <2>1
  <2>. QED
    BY <1>1, <2>1, <2>2
<1>. QED
  BY <1>1, <1>2, <1>3 DEF Holds

\* put_len: as many full bytes as there are, and what is left.
LEMMA LongLenIs ==
  ASSUME NEW n \in Nat
  PROVE  /\ Compression!LongLen(n) \in Seq(Nat)
         /\ n < Nibble => Len(Compression!LongLen(n)) = 0
         /\ n >= Nibble =>
              /\ Len(Compression!LongLen(n)) = (n - Nibble) \div TopByte + 1
              /\ \A k \in 1..((n - Nibble) \div TopByte) : Compression!LongLen(n)[k] = TopByte
              /\ Compression!LongLen(n)[(n - Nibble) \div TopByte + 1] = (n - Nibble) % TopByte
<1>. USE LzFacts
<1>1. CASE n < Nibble
  <2>1. Compression!LongLen(n) = <<>>
    BY <1>1 DEF Compression!LongLen
  <2>. QED
    BY <1>1, <2>1
<1>2. CASE n >= Nibble
  <2>1. PICK x, q, r : x = n - Nibble /\ q = x \div TopByte /\ r = x % TopByte
    OBVIOUS
  <2>2. x \in Nat
    BY <1>2, <2>1
  <2>3. q \in Nat /\ r \in Nat
    <3>1. q \in Nat /\ r \in 0..(TopByte - 1)
      BY <2>1, <2>2, Quotient
    <3>. QED
      BY <3>1
  <2>4. PICK s : s = [i \in 1..q |-> TopByte]
    OBVIOUS
  <2>5. s \in Seq(Nat) /\ Len(s) = q /\ \A k \in 1..q : s[k] = TopByte
    BY <2>3, <2>4
  <2>6. <<r>> \in Seq(Nat) /\ Len(<<r>>) = 1 /\ <<r>>[1] = r
    BY <2>3
  <2>7. Compression!LongLen(n) = s \o <<r>>
    BY <1>2, <2>1, <2>4 DEF Compression!LongLen, Compression!PutLen
  <2>8. /\ s \o <<r>> \in Seq(Nat) /\ Len(s \o <<r>>) = q + 1
        /\ \A k \in 1..(q + 1) : (s \o <<r>>)[k] = IF k <= q THEN s[k] ELSE <<r>>[k - q]
    BY <2>5, <2>6, ConcatProperties
  <2>9. (s \o <<r>>)[q + 1] = r
    BY <2>3, <2>6, <2>8
  <2>10. \A k \in 1..q : (s \o <<r>>)[k] = TopByte
    BY <2>3, <2>5, <2>8
  <2>. QED
    BY <1>2, <2>1, <2>7, <2>8, <2>9, <2>10
<1>. QED
  BY <1>1, <1>2

\* read_len where put_len wrote.
LEMMA ReadsLong ==
  ASSUME packed \in Seq(Nat), NEW n \in Nat, NEW i \in Nat, Holds(packed, i, Compression!LongLen(n))
  PROVE  Compression!ReadLen(IF n <= Nibble THEN n ELSE Nibble, i)
           = [len |-> n, next |-> i + Len(Compression!LongLen(n)), ok |-> TRUE]
<1>. USE LzFacts
<1>1. CASE n < Nibble
  <2>1. Len(Compression!LongLen(n)) = 0
    BY <1>1, LongLenIs
  <2>2. Compression!ReadLen(n, i) = [len |-> n, next |-> i, ok |-> TRUE]
    BY <1>1 DEF Compression!ReadLen
  <2>3. i + Len(Compression!LongLen(n)) = i /\ n <= Nibble
    BY <1>1, <2>1
  <2>. QED
    BY <2>2, <2>3
<1>2. CASE n >= Nibble
  <2>1. PICK x, q, r : x = n - Nibble /\ q = x \div TopByte /\ r = x % TopByte
    OBVIOUS
  <2>2. x \in Nat
    BY <1>2, <2>1
  <2>3. q \in Nat /\ r \in 0..(TopByte - 1) /\ x = TopByte * q + r
    BY <2>1, <2>2, Quotient
  <2>4. PICK s : s = Compression!LongLen(n)
    OBVIOUS
  <2>5. Len(s) = q + 1 /\ (\A k \in 1..q : s[k] = TopByte) /\ s[q + 1] = r
    BY <1>2, <2>1, <2>4, LongLenIs
  <2>6. Len(packed) \in Nat /\ i + q + 1 <= Len(packed)
    BY <2>3, <2>4, <2>5 DEF Holds
  <2>7. \A k \in 1..(q + 1) : packed[i + k] = s[k]
    BY <2>3, <2>4, <2>5 DEF Holds
  <2>8. ASSUME NEW k \in Nat, k < q PROVE i + k < Len(packed) /\ packed[i + k + 1] = TopByte
    <3>1. k + 1 \in 1..q /\ k + 1 \in 1..(q + 1) /\ i + (k + 1) = i + k + 1
      BY <2>3, <2>8
    <3>2. packed[i + (k + 1)] = TopByte
      BY <2>5, <2>7, <3>1
    <3>. QED
      BY <2>3, <2>6, <2>8, <3>1, <3>2
  <2>9. packed[i + q + 1] = r /\ r # TopByte
    <3>1. q + 1 \in 1..(q + 1) /\ i + (q + 1) = i + q + 1
      BY <2>3
    <3>. QED
      BY <2>3, <2>5, <2>7, <3>1
  <2>. DEFINE K == {k \in 0..(Len(packed) - i) : i + k < Len(packed) => packed[i + k + 1] # TopByte}
  <2>10. q \in K /\ \A k \in K : q <= k
    <3>1. q \in K
      BY <2>3, <2>6, <2>9
    <3>2. ASSUME NEW k \in K, ~(q <= k) PROVE FALSE
      <4>1. k \in Nat /\ k < q
        BY <2>3, <3>2
      <4>. QED
        BY <2>8, <3>2, <4>1
    <3>. QED
      BY <3>1, <3>2
  <2>11. Compression!RunsAt(i) = Compression!Min(K)
    BY DEF Compression!RunsAt
  <2>12. \A k \in K : k \in Int
    OBVIOUS
  <2>. HIDE DEF K
  <2>13. Compression!RunsAt(i) = q
    BY <2>10, <2>11, <2>12 DEF Compression!Min
  <2>14. Compression!ReadLen(Nibble, i) = [len |-> Nibble + TopByte * q + r, next |-> i + q + 1, ok |-> TRUE]
    <3>1. ~(Nibble < Nibble) /\ ~(i + q >= Len(packed))
      BY <2>3, <2>6
    <3>. QED
      BY <2>9, <2>13, <3>1 DEF Compression!ReadLen
  <2>15. TopByte * q \in Nat
    BY <2>3, Products
  <2>16. Nibble + TopByte * q + r = n /\ i + q + 1 = i + Len(s)
    BY <2>1, <2>3, <2>5, <2>15
  <2>17. (IF n <= Nibble THEN n ELSE Nibble) = Nibble
    BY <1>2
  <2>. QED
    BY <2>4, <2>14, <2>16, <2>17
<1>. QED
  BY <1>1, <1>2

\* A token is taken apart again.
LEMMA TokenIs ==
  ASSUME NEW x \in Nat, NEW y \in Nat
  PROVE  /\ Compression!Token(x, y) \in Nat
         /\ Compression!Token(x, y) \div (Nibble + 1) = IF x <= Nibble THEN x ELSE Nibble
         /\ Compression!Token(x, y) % (Nibble + 1) = IF y <= Nibble THEN y ELSE Nibble
<1>1. PICK p, q, d : p = (IF x <= Nibble THEN x ELSE Nibble) /\ q = (IF y <= Nibble THEN y ELSE Nibble) /\ d = Nibble + 1
  OBVIOUS
<1>2. p \in Nat /\ q \in 0..(d - 1) /\ d \in Nat \ {0}
  BY <1>1, LzFacts
<1>3. Compression!Token(x, y) = p * d + q
  <2>1. Compression!Min({x, Nibble}) = p /\ Compression!Min({y, Nibble}) = q
    BY <1>1, LzFacts, OfTwo
  <2>. QED
    BY <1>1, <2>1 DEF Compression!Token
<1>4. p * d + q \in Nat
  BY <1>2
<1>. QED
  <2>1. (p * d + q) \div d = p /\ (p * d + q) % d = q
    BY <1>2, Recomposed
  <2>. QED
    BY <1>1, <1>3, <1>4, <2>1

\* Two bytes tell every offset up to the farthest.
LEMMA OffsetIs ==
  ASSUME NEW o \in Nat, o <= Compression!Farthest
  PROVE  /\ Compression!Offset(o) \in Seq(Nat) /\ Len(Compression!Offset(o)) = 2
         /\ Compression!Offset(o)[1] + Compression!Base * Compression!Offset(o)[2] = o
<1>1. PICK B : B = Compression!Base
  OBVIOUS
<1>2. B \in Nat \ {0}
  BY <1>1, LzFacts DEF Compression!Base
<1>3. PICK q, r : q = o \div B /\ r = o % B
  OBVIOUS
<1>4. q \in Nat /\ r \in 0..(B - 1) /\ o = B * q + r
  BY <1>2, <1>3, Quotient
<1>5. o < B * B
  <2>1. B * B \in Nat
    BY <1>2
  <2>. QED
    BY <1>1, <2>1 DEF Compression!Farthest
<1>6. q < B
  <2>1. B * q < B * B
    <3>1. B * q \in Nat /\ B * B \in Nat
      BY <1>2, <1>4
    <3>. QED
      BY <1>2, <1>4, <1>5, <3>1
  <2>. QED
    BY <1>2, <1>4, <2>1
<1>7. q % B = q
  BY <1>2, <1>4, <1>6, SmallRemainder
<1>8. Compression!Offset(o) = <<r, q>>
  BY <1>1, <1>3, <1>7 DEF Compression!Offset
<1>9. r + B * q = o
  <2>1. B * q \in Nat
    BY <1>2, <1>4
  <2>. QED
    BY <1>4, <2>1
<1>10. <<r, q>> \in Seq(Nat) /\ Len(<<r, q>>) = 2 /\ <<r, q>>[1] = r /\ <<r, q>>[2] = q
  BY <1>4
<1>. QED
  BY <1>1, <1>8, <1>9, <1>10

-----------------------------------------------------------------------------
(* What the compressor has written: sequences, each of which stands for    *)
(* literals and a repetition.  A cut <<i, a>> lies before the i-th symbol  *)
(* of the output and the a-th byte of the block.                           *)

\* A sequence from byte a on, whose match of l bytes begins at f and repeats what is
\* o bytes before; and the last one.
Part(b, a, f, l, o) ==
  <<Compression!Token(f - a, l - MinMatch)>>
  \o Compression!LongLen(f - a) \o SubSeq(b, a + 1, f)
  \o Compression!Offset(o) \o Compression!LongLen(l - MinMatch)
LastPart(b, a) ==
  <<Compression!Token(Len(b) - a, 0)>> \o Compression!LongLen(Len(b) - a) \o SubSeq(b, a + 1, Len(b))

Repeats(b, a, f, l, o) ==
  /\ {f, l, o} \subseteq Nat /\ a <= f /\ MinMatch <= l /\ f + l <= Len(b)
  /\ 1 <= o /\ o <= f /\ o <= Compression!Farthest
  /\ \A j \in 0..(l - 1) : b[f + j + 1] = b[f - o + j + 1]

\* w holds a sequence from cut c on.
Goes(b, w, S, c) ==
  \E f, l, o \in Nat :
    /\ Repeats(b, c[2], f, l, o)
    /\ Holds(w, c[1], Part(b, c[2], f, l, o))
    /\ <<c[1] + Len(Part(b, c[2], f, l, o)), f + l>> \in S

\* The cuts S begin at the beginning and go on up to the cut e.
Parsed(b, w, S, e) ==
  /\ S \subseteq Nat \X Nat /\ <<0, 0>> \in S /\ e \in S
  /\ \A c \in S : c = e \/ Goes(b, w, S, c)

\* The symbols of a sequence between two of its positions.
LEMMA Between ==
  ASSUME NEW T, NEW w \in Seq(T), NEW a \in Nat, NEW f \in Nat, a <= f, f <= Len(w)
  PROVE  /\ SubSeq(w, a + 1, f) \in Seq(T)
         /\ Len(SubSeq(w, a + 1, f)) = f - a
         /\ \A k \in 1..(f - a) : SubSeq(w, a + 1, f)[k] = w[a + k]
<1>1. Len(w) \in Nat /\ \A k \in 1..Len(w) : w[k] \in T
  OBVIOUS
<1>2. a + 1 \in Int /\ f \in Int /\ \A k \in (a + 1)..f : w[k] \in T
  BY <1>1
<1>3. PICK s : s = SubSeq(w, a + 1, f)
  OBVIOUS
<1>4. /\ s \in Seq(T) /\ Len(s) = (IF a + 1 <= f THEN f - (a + 1) + 1 ELSE 0)
      /\ \A k \in 1..(f - (a + 1) + 1) : s[k] = w[a + 1 + k - 1]
  BY <1>2, <1>3, SubSeqProperties
<1>5. Len(s) = f - a
  BY <1>4
<1>6. \A k \in 1..(f - a) : a + 1 + k - 1 = a + k /\ k \in 1..(f - (a + 1) + 1)
  OBVIOUS
<1>. QED
  BY <1>3, <1>4, <1>5, <1>6

\* The bytes of a block between two of its positions.
LEMMA BytesOf ==
  ASSUME NEW b \in Seq(Alphabet), NEW a \in Nat, NEW f \in Nat, a <= f, f <= Len(b)
  PROVE  /\ SubSeq(b, a + 1, f) \in Seq(Nat) /\ SubSeq(b, a + 1, f) \in Seq(Alphabet)
         /\ Len(SubSeq(b, a + 1, f)) = f - a
         /\ \A k \in 1..(f - a) : SubSeq(b, a + 1, f)[k] = b[a + k]
<1>1. /\ SubSeq(b, a + 1, f) \in Seq(Alphabet)
      /\ Len(SubSeq(b, a + 1, f)) = f - a
      /\ \A k \in 1..(f - a) : SubSeq(b, a + 1, f)[k] = b[a + k]
  BY Between
<1>2. SubSeq(b, a + 1, f) \in Seq(Nat)
  BY <1>1, LzFacts, SeqMonotonic
<1>. QED
  BY <1>1, <1>2

\* Two pieces put together.
LEMMA Join ==
  ASSUME NEW s \in Seq(Nat), NEW t \in Seq(Nat)
  PROVE  s \o t \in Seq(Nat) /\ Len(s \o t) = Len(s) + Len(t) /\ Len(s) \in Nat /\ Len(t) \in Nat
BY ConcatProperties

\* The pieces are numbers, and how many.
LEMMA PartIs ==
  ASSUME NEW b \in Seq(Alphabet), NEW a \in Nat, NEW f, NEW l, NEW o, Repeats(b, a, f, l, o)
  PROVE  /\ Part(b, a, f, l, o) \in Seq(Nat)
         /\ Len(Part(b, a, f, l, o))
              = 3 + (f - a) + Len(Compression!LongLen(f - a)) + Len(Compression!LongLen(l - MinMatch))
<1>1. /\ f \in Nat /\ l \in Nat /\ o \in Nat /\ f - a \in Nat /\ l - MinMatch \in Nat /\ f <= Len(b)
      /\ o <= Compression!Farthest /\ Len(b) \in Nat
  BY LzFacts DEF Repeats
<1>2. PICK t, u, v, x, y :
        /\ t = <<Compression!Token(f - a, l - MinMatch)>> /\ u = Compression!LongLen(f - a)
        /\ v = SubSeq(b, a + 1, f) /\ x = Compression!Offset(o) /\ y = Compression!LongLen(l - MinMatch)
  OBVIOUS
<1>3. t \in Seq(Nat) /\ Len(t) = 1
  BY <1>1, <1>2, TokenIs
<1>4. u \in Seq(Nat) /\ Len(u) \in Nat /\ y \in Seq(Nat)
  <2>1. PICK m, n : m = f - a /\ n = l - MinMatch
    OBVIOUS
  <2>2. m \in Nat /\ n \in Nat
    BY <1>1, <2>1
  <2>3. Compression!LongLen(m) \in Seq(Nat) /\ Compression!LongLen(n) \in Seq(Nat)
    BY <2>2, LongLenIs, SMTT(40)
  <2>4. u \in Seq(Nat) /\ y \in Seq(Nat)
    BY <1>2, <2>1, <2>3
  <2>. QED
    BY <2>4
<1>5. v \in Seq(Nat) /\ Len(v) = f - a
  BY <1>1, <1>2, BytesOf DEF Repeats
<1>6. x \in Seq(Nat) /\ Len(x) = 2
  BY <1>1, <1>2, OffsetIs
<1>7. t \o u \in Seq(Nat) /\ Len(t \o u) = 1 + Len(u)
  BY <1>3, <1>4, Join
<1>8. (t \o u) \o v \in Seq(Nat) /\ Len((t \o u) \o v) = 1 + Len(u) + (f - a)
  BY <1>1, <1>4, <1>5, <1>7, Join
<1>9. ((t \o u) \o v) \o x \in Seq(Nat) /\ Len(((t \o u) \o v) \o x) = 1 + Len(u) + (f - a) + 2
  BY <1>6, <1>8, Join
<1>10. (((t \o u) \o v) \o x) \o y \in Seq(Nat)
       /\ Len((((t \o u) \o v) \o x) \o y) = 1 + Len(u) + (f - a) + 2 + Len(y)
  BY <1>4, <1>9, Join
<1>11. Part(b, a, f, l, o) = (((t \o u) \o v) \o x) \o y
  BY <1>2 DEF Part
<1>12. Len(u) \in Nat /\ Len(y) \in Nat
  BY <1>4
<1>13. 1 + Len(u) + (f - a) + 2 + Len(y) = 3 + (f - a) + Len(u) + Len(y)
  BY <1>1, <1>12
<1>. QED
  BY <1>2, <1>10, <1>11, <1>13

LEMMA LastPartIs ==
  ASSUME NEW b \in Seq(Alphabet), NEW a \in Nat, a <= Len(b)
  PROVE  /\ LastPart(b, a) \in Seq(Nat)
         /\ Len(LastPart(b, a)) = 1 + Len(Compression!LongLen(Len(b) - a)) + (Len(b) - a)
<1>1. Len(b) \in Nat /\ Len(b) - a \in Nat
  OBVIOUS
<1>2. PICK t, u, v :
        /\ t = <<Compression!Token(Len(b) - a, 0)>> /\ u = Compression!LongLen(Len(b) - a)
        /\ v = SubSeq(b, a + 1, Len(b))
  OBVIOUS
<1>3. t \in Seq(Nat) /\ Len(t) = 1
  BY <1>1, <1>2, TokenIs
<1>4. u \in Seq(Nat)
  BY <1>1, <1>2, LongLenIs
<1>5. v \in Seq(Nat) /\ Len(v) = Len(b) - a
  <2>1. Len(b) <= Len(b)
    BY <1>1
  <2>. QED
    BY <1>1, <1>2, <2>1, BytesOf
<1>6. t \o u \in Seq(Nat) /\ Len(t \o u) = 1 + Len(u)
  BY <1>3, <1>4, Join
<1>7. (t \o u) \o v \in Seq(Nat) /\ Len((t \o u) \o v) = 1 + Len(u) + (Len(b) - a)
  BY <1>1, <1>5, <1>6, Join
<1>. QED
  BY <1>2, <1>7 DEF LastPart

\* Where a sequence is held, its five pieces are.
LEMMA PartHeld ==
  ASSUME packed \in Seq(Nat), NEW b \in Seq(Alphabet), NEW a \in Nat, NEW f, NEW l, NEW o, NEW i \in Nat,
         Repeats(b, a, f, l, o), Holds(packed, i, Part(b, a, f, l, o))
  PROVE  LET j == i + 1 + Len(Compression!LongLen(f - a))
         IN /\ packed[i + 1] = Compression!Token(f - a, l - MinMatch)
            /\ Holds(packed, i + 1, Compression!LongLen(f - a))
            /\ Holds(packed, j, SubSeq(b, a + 1, f))
            /\ j + (f - a) + 2 <= Len(packed)
            /\ packed[j + (f - a) + 1] + Compression!Base * packed[j + (f - a) + 2] = o
            /\ Holds(packed, j + (f - a) + 2, Compression!LongLen(l - MinMatch))
<1>1. /\ f \in Nat /\ l \in Nat /\ o \in Nat /\ f - a \in Nat /\ l - MinMatch \in Nat /\ f <= Len(b)
      /\ o <= Compression!Farthest /\ Len(b) \in Nat /\ Len(packed) \in Nat
  <2>1. /\ f \in Nat /\ l \in Nat /\ o \in Nat /\ a <= f /\ MinMatch <= l /\ f + l <= Len(b)
        /\ o <= Compression!Farthest
    BY DEF Repeats
  <2>2. Len(b) \in Nat /\ Len(packed) \in Nat /\ MinMatch \in Nat
    BY LzFacts
  <2>3. f - a \in Nat /\ l - MinMatch \in Nat /\ f <= Len(b)
    BY <2>1, <2>2
  <2>. QED
    BY <2>1, <2>2, <2>3
<1>2. PICK t, u, v, x, y :
        /\ t = <<Compression!Token(f - a, l - MinMatch)>> /\ u = Compression!LongLen(f - a)
        /\ v = SubSeq(b, a + 1, f) /\ x = Compression!Offset(o) /\ y = Compression!LongLen(l - MinMatch)
  OBVIOUS
<1>3. t \in Seq(Nat) /\ Len(t) = 1 /\ t[1] = Compression!Token(f - a, l - MinMatch)
  BY <1>1, <1>2, TokenIs
<1>4. u \in Seq(Nat) /\ Len(u) \in Nat /\ y \in Seq(Nat)
  <2>1. PICK m, n : m = f - a /\ n = l - MinMatch
    OBVIOUS
  <2>2. m \in Nat /\ n \in Nat
    BY <1>1, <2>1
  <2>3. Compression!LongLen(m) \in Seq(Nat) /\ Compression!LongLen(n) \in Seq(Nat)
    BY <2>2, LongLenIs, SMTT(40)
  <2>4. u \in Seq(Nat) /\ y \in Seq(Nat)
    BY <1>2, <2>1, <2>3
  <2>. QED
    BY <2>4
<1>5. v \in Seq(Nat) /\ Len(v) = f - a
  BY <1>1, <1>2, BytesOf DEF Repeats
<1>6. x \in Seq(Nat) /\ Len(x) = 2 /\ x[1] + Compression!Base * x[2] = o
  BY <1>1, <1>2, OffsetIs
<1>7. t \o u \in Seq(Nat) /\ Len(t \o u) = 1 + Len(u)
  BY <1>3, <1>4, Join
<1>8. (t \o u) \o v \in Seq(Nat) /\ Len((t \o u) \o v) = 1 + Len(u) + (f - a)
  BY <1>1, <1>4, <1>5, <1>7, Join
<1>9. ((t \o u) \o v) \o x \in Seq(Nat) /\ Len(((t \o u) \o v) \o x) = 1 + Len(u) + (f - a) + 2
  BY <1>6, <1>8, Join
<1>10. Holds(packed, i, (((t \o u) \o v) \o x) \o y)
  BY <1>2 DEF Part
<1>11. Holds(packed, i, ((t \o u) \o v) \o x) /\ Holds(packed, i + (1 + Len(u) + (f - a) + 2), y)
  BY <1>4, <1>9, <1>10, HoldsBoth
<1>12. Holds(packed, i, (t \o u) \o v) /\ Holds(packed, i + (1 + Len(u) + (f - a)), x)
  BY <1>6, <1>8, <1>11, HoldsBoth
<1>13. Holds(packed, i, t \o u) /\ Holds(packed, i + (1 + Len(u)), v)
  BY <1>5, <1>7, <1>12, HoldsBoth
<1>14. Holds(packed, i, t) /\ Holds(packed, i + 1, u)
  BY <1>3, <1>4, <1>13, HoldsBoth
<1>15. PICK j : j = i + 1 + Len(u)
  OBVIOUS
<1>16. /\ Len(u) \in Nat /\ j \in Nat /\ i + (1 + Len(u)) = j /\ i + (1 + Len(u) + (f - a)) = j + (f - a)
       /\ i + (1 + Len(u) + (f - a) + 2) = j + (f - a) + 2
  BY <1>1, <1>4, <1>15
<1>17. packed[i + 1] = t[1]
  BY <1>3, <1>14 DEF Holds
<1>18. /\ j + (f - a) + 2 <= Len(packed)
       /\ packed[j + (f - a) + 1] = x[1] /\ packed[j + (f - a) + 2] = x[2]
  BY <1>6, <1>12, <1>16 DEF Holds
<1>. QED
  BY <1>2, <1>3, <1>6, <1>11, <1>13, <1>14, <1>15, <1>16, <1>17, <1>18

LEMMA LastPartHeld ==
  ASSUME packed \in Seq(Nat), NEW b \in Seq(Alphabet), NEW a \in Nat, a <= Len(b), NEW i \in Nat,
         Holds(packed, i, LastPart(b, a))
  PROVE  /\ packed[i + 1] = Compression!Token(Len(b) - a, 0)
         /\ Holds(packed, i + 1, Compression!LongLen(Len(b) - a))
         /\ Holds(packed, i + 1 + Len(Compression!LongLen(Len(b) - a)), SubSeq(b, a + 1, Len(b)))
<1>1. Len(b) \in Nat /\ Len(b) - a \in Nat
  OBVIOUS
<1>2. PICK t, u, v :
        /\ t = <<Compression!Token(Len(b) - a, 0)>> /\ u = Compression!LongLen(Len(b) - a)
        /\ v = SubSeq(b, a + 1, Len(b))
  OBVIOUS
<1>3. t \in Seq(Nat) /\ Len(t) = 1 /\ t[1] = Compression!Token(Len(b) - a, 0)
  BY <1>1, <1>2, TokenIs
<1>4. u \in Seq(Nat) /\ Len(u) \in Nat
  BY <1>1, <1>2, LongLenIs
<1>5. v \in Seq(Nat)
  <2>1. Len(b) <= Len(b)
    BY <1>1
  <2>. QED
    BY <1>1, <1>2, <2>1, BytesOf
<1>6. t \o u \in Seq(Nat) /\ Len(t \o u) = 1 + Len(u)
  BY <1>3, <1>4, Join
<1>7. Holds(packed, i, t \o u) /\ Holds(packed, i + (1 + Len(u)), v)
  BY <1>2, <1>5, <1>6, HoldsBoth DEF LastPart
<1>8. Holds(packed, i, t) /\ Holds(packed, i + 1, u)
  BY <1>3, <1>4, <1>7, HoldsBoth
<1>9. packed[i + 1] = t[1]
  BY <1>3, <1>8 DEF Holds
<1>10. i + (1 + Len(u)) = i + 1 + Len(u)
  BY <1>4
<1>. QED
  BY <1>2, <1>3, <1>7, <1>8, <1>9, <1>10

\* As many bytes as a match needs.
LEMMA ShortBytes ==
  ASSUME block \in Seq(Alphabet), NEW i \in Nat, i + MinMatch <= Len(block), NEW k \in 1..MinMatch
  PROVE  SubSeq(block, i + 1, i + MinMatch)[k] = block[i + k]
<1>1. PICK g : g = i + MinMatch
  OBVIOUS
<1>2. g \in Nat /\ i <= g /\ g <= Len(block) /\ k \in 1..(g - i)
  BY <1>1, LzFacts
<1>3. SubSeq(block, i + 1, g)[k] = block[i + k]
  BY <1>2, BytesOf
<1>. QED
  BY <1>1, <1>3

\* What is found is a repetition, also after it was extended in both directions.
LEMMA MatchIs ==
  ASSUME block \in Seq(Alphabet), ip \in Nat, anchor \in Nat, anchor <= ip,
         Compression!Compressing, Compression!Found,
         table[Compression!Hash(ip)] \in Nat, table[Compression!Hash(ip)] <= ip
  PROVE  /\ Repeats(block, anchor, Compression!Match.from, Compression!Match.len, Compression!Match.off)
         /\ ip < Compression!Match.from + Compression!Match.len
<1>. USE LzFacts
<1>1. PICK n, ref : n = Len(block) /\ ref = table[Compression!Hash(ip)] - 1
  OBVIOUS
<1>2. /\ n \in Nat /\ ref \in Nat /\ ref < ip /\ ip + MfLimit <= n
      /\ ip - ref <= Compression!Farthest
      /\ Compression!Sequence(ref) = Compression!Sequence(ip)
  BY <1>1 DEF Compression!Compressing, Compression!Found, Compression!Limit, Compression!BlockLen
<1>. DEFINE Fwd == {m \in MinMatch..(Compression!BlockLen - LastLiterals - ip) :
                      \A i \in 0..(m - 1) : Compression!At(ref + i) = Compression!At(ip + i)}
            Back == {k \in 0..Compression!Min({ip - anchor, ref}) :
                      \A i \in 1..k : Compression!At(ip - i) = Compression!At(ref - i)}
<1>3. PICK fwd, back : fwd = Compression!Max(Fwd) /\ back = Compression!Max(Back)
  OBVIOUS
<1>4. Compression!Match = [from |-> ip - back, len |-> fwd + back, off |-> ip - ref]
  BY <1>1, <1>3 DEF Compression!Match
<1>5. ASSUME NEW i \in 0..(MinMatch - 1) PROVE block[ref + i + 1] = block[ip + i + 1]
  <2>1. i + 1 \in 1..MinMatch /\ ref + MinMatch <= n /\ ip + MinMatch <= n
    BY <1>2
  <2>2. /\ SubSeq(block, ref + 1, ref + MinMatch)[i + 1] = block[ref + (i + 1)]
        /\ SubSeq(block, ip + 1, ip + MinMatch)[i + 1] = block[ip + (i + 1)]
    BY <1>1, <1>2, <2>1, ShortBytes
  <2>3. SubSeq(block, ref + 1, ref + MinMatch) = SubSeq(block, ip + 1, ip + MinMatch)
    BY <1>2 DEF Compression!Sequence, Compression!Bytes
  <2>4. ref + (i + 1) = ref + i + 1 /\ ip + (i + 1) = ip + i + 1
    BY <1>2
  <2>. QED
    BY <2>2, <2>3, <2>4
<1>6. fwd \in Fwd
  <2>1. MinMatch \in Fwd
    <3>1. MinMatch \in MinMatch..(Compression!BlockLen - LastLiterals - ip)
      BY <1>1, <1>2 DEF Compression!BlockLen
    <3>. QED
      BY <1>5, <3>1 DEF Compression!At
  <2>2. n - LastLiterals - ip \in Nat /\ Fwd \subseteq 0..(n - LastLiterals - ip)
    BY <1>1, <1>2 DEF Compression!BlockLen
  <2>. HIDE DEF Fwd
  <2>. QED
    BY <1>3, <2>1, <2>2, Greatest
<1>7. back \in Back
  <2>1. Compression!Min({ip - anchor, ref}) = IF ip - anchor <= ref THEN ip - anchor ELSE ref
    BY <1>2, OfTwo
  <2>2. PICK m : m = Compression!Min({ip - anchor, ref})
    OBVIOUS
  <2>3. m \in Nat
    BY <1>2, <2>1, <2>2
  <2>4. 0 \in Back /\ Back \subseteq 0..m
    BY <2>2, <2>3
  <2>. HIDE DEF Back
  <2>. QED
    BY <1>3, <2>3, <2>4, Greatest
<1>8. /\ fwd \in Nat /\ MinMatch <= fwd /\ fwd <= n - LastLiterals - ip
      /\ \A i \in 0..(fwd - 1) : block[ref + i + 1] = block[ip + i + 1]
  BY <1>1, <1>2, <1>6 DEF Compression!At, Compression!BlockLen
<1>9. /\ back \in Nat /\ back <= ip - anchor /\ back <= ref
      /\ \A i \in 1..back : block[ip - i + 1] = block[ref - i + 1]
  <2>1. Compression!Min({ip - anchor, ref}) = IF ip - anchor <= ref THEN ip - anchor ELSE ref
    BY <1>2, OfTwo
  <2>2. back \in 0..Compression!Min({ip - anchor, ref})
    BY <1>7
  <2>3. \A i \in 1..back : block[ip - i + 1] = block[ref - i + 1]
    BY <1>7 DEF Compression!At
  <2>. HIDE DEF Back
  <2>. QED
    BY <1>2, <2>1, <2>2, <2>3
<1>. HIDE DEF Fwd, Back
<1>10. ASSUME NEW j \in 0..(fwd + back - 1)
       PROVE  block[ip - back + j + 1] = block[ip - back - (ip - ref) + j + 1]
  <2>1. CASE j < back
    <3>1. PICK i : i = back - j
      OBVIOUS
    <3>2. i \in 1..back /\ ip - i + 1 = ip - back + j + 1 /\ ref - i + 1 = ip - back - (ip - ref) + j + 1
      BY <1>2, <1>9, <2>1, <3>1
    <3>3. block[ip - i + 1] = block[ref - i + 1]
      BY <1>9, <3>2
    <3>. QED
      BY <3>2, <3>3
  <2>2. CASE j >= back
    <3>1. PICK i : i = j - back
      OBVIOUS
    <3>2. i \in 0..(fwd - 1) /\ ip + i + 1 = ip - back + j + 1 /\ ref + i + 1 = ip - back - (ip - ref) + j + 1
      BY <1>2, <1>8, <1>9, <2>2, <3>1
    <3>3. block[ref + i + 1] = block[ip + i + 1]
      BY <1>8, <3>2
    <3>. QED
      BY <3>2, <3>3
  <2>. QED
    BY <1>8, <1>9, <2>1, <2>2
<1>11. PICK f, l, o : f = ip - back /\ l = fwd + back /\ o = ip - ref
  OBVIOUS
<1>12. /\ {f, l, o} \subseteq Nat /\ anchor <= f /\ MinMatch <= l /\ f + l <= Len(block)
       /\ 1 <= o /\ o <= f /\ o <= Compression!Farthest /\ ip < f + l
  <2>1. f + l = ip + fwd /\ f + l <= n
    BY <1>1, <1>2, <1>8, <1>9, <1>11
  <2>2. f \in Nat /\ l \in Nat /\ o \in Nat /\ anchor <= f /\ MinMatch <= l
    BY <1>2, <1>8, <1>9, <1>11
  <2>3. 1 <= o /\ o <= f /\ o <= Compression!Farthest
    BY <1>2, <1>9, <1>11
  <2>4. ip < f + l
    BY <1>8, <2>1
  <2>. QED
    BY <1>1, <2>1, <2>2, <2>3, <2>4
<1>13. ASSUME NEW j \in 0..(l - 1) PROVE block[f + j + 1] = block[f - o + j + 1]
  <2>1. j \in 0..(fwd + back - 1)
    BY <1>8, <1>9, <1>11, <1>12
  <2>. QED
    BY <1>10, <1>11, <2>1
<1>. QED
  BY <1>4, <1>11, <1>12, <1>13 DEF Repeats

\* What goes on from a cut still does when more is written.
LEMMA GoesOn ==
  ASSUME NEW b \in Seq(Alphabet), NEW w \in Seq(Nat), NEW t \in Seq(Nat), NEW S, NEW T, S \subseteq T,
         NEW c \in Nat \X Nat, Goes(b, w, S, c)
  PROVE  Goes(b, w \o t, T, c)
<1>1. PICK f \in Nat, l \in Nat, o \in Nat :
        /\ Repeats(b, c[2], f, l, o)
        /\ Holds(w, c[1], Part(b, c[2], f, l, o))
        /\ <<c[1] + Len(Part(b, c[2], f, l, o)), f + l>> \in S
  BY DEF Goes
<1>2. c[1] \in Nat /\ c[2] \in Nat
  OBVIOUS
<1>3. PICK s : s = Part(b, c[2], f, l, o)
  OBVIOUS
<1>4. s \in Seq(Nat)
  BY <1>1, <1>2, <1>3, PartIs
<1>5. Holds(w \o t, c[1], s)
  BY <1>1, <1>2, <1>3, <1>4, HoldsLonger
<1>. QED
  BY <1>1, <1>3, <1>5 DEF Goes

\* One more sequence is one more cut.
LEMMA ParsedMore ==
  ASSUME NEW b \in Seq(Alphabet), NEW w \in Seq(Nat), NEW S, NEW a \in Nat, NEW f, NEW l, NEW o,
         Parsed(b, w, S, <<Len(w), a>>), Repeats(b, a, f, l, o)
  PROVE  \E T : Parsed(b, w \o Part(b, a, f, l, o), T, <<Len(w \o Part(b, a, f, l, o)), f + l>>)
<1>1. PICK s, v : s = Part(b, a, f, l, o) /\ v = w \o s
  OBVIOUS
<1>2. s \in Seq(Nat)
  BY <1>1, PartIs
<1>3. Holds(v, Len(w), s) /\ v \in Seq(Nat) /\ Len(v) = Len(w) + Len(s)
  BY <1>1, <1>2, HoldsLast
<1>4. f \in Nat /\ l \in Nat /\ o \in Nat /\ Len(w) \in Nat /\ Len(v) \in Nat
  BY <1>3 DEF Repeats
<1>5. PICK e, d, T : e = <<Len(w), a>> /\ d = <<Len(v), f + l>> /\ T = S \cup {d}
  OBVIOUS
<1>6. S \subseteq Nat \X Nat /\ <<0, 0>> \in S /\ e \in S /\ \A c \in S : c = e \/ Goes(b, w, S, c)
  BY <1>5 DEF Parsed
<1>7. T \subseteq Nat \X Nat /\ <<0, 0>> \in T /\ d \in T /\ S \subseteq T
  BY <1>4, <1>5, <1>6
<1>8. Goes(b, v, T, e)
  <2>1. e[1] = Len(w) /\ e[2] = a /\ <<e[1] + Len(s), f + l>> \in T
    BY <1>3, <1>5
  <2>. QED
    BY <1>1, <1>3, <1>4, <2>1 DEF Goes
<1>9. ASSUME NEW c \in S, c # e PROVE Goes(b, v, T, c)
  <2>1. Goes(b, w, S, c) /\ c \in Nat \X Nat
    BY <1>6, <1>9
  <2>. QED
    BY <1>1, <1>2, <1>7, <2>1, GoesOn
<1>10. Parsed(b, v, T, d)
  <2>1. \A c \in T : c = d \/ Goes(b, v, T, c)
    BY <1>5, <1>8, <1>9
  <2>. QED
    BY <1>7, <2>1 DEF Parsed
<1>. QED
  BY <1>1, <1>5, <1>10

-----------------------------------------------------------------------------
(* The invariant of the compression.                                       *)

LzTypes ==
  /\ block \in Seq(Alphabet) /\ packed \in Seq(Nat) /\ unpacked \in Seq(Alphabet)
  /\ {ip, anchor, pos} \subseteq Nat /\ anchor <= Len(block)
  /\ table \in [0..(Slots - 1) -> Nat]
  /\ lzPhase \in {"compress", "decompress", "done"}

\* While it writes, all before anchor is written and the table knows no position
\* ahead; and what is written is no longer than rd_lz_bound says of as many bytes,
\* even without what it adds.
LzWriting ==
  lzPhase = "compress" =>
    /\ anchor <= ip /\ \A k \in 0..(Slots - 1) : table[k] <= ip
    /\ pos = 0 /\ unpacked = <<>>
    /\ Len(packed) <= anchor + anchor \div TopByte
    /\ \E S : Parsed(block, packed, S, <<Len(packed), anchor>>)

\* Written, the last sequence follows the last cut; and the reader is at a cut, or at
\* the end with the whole block.
LzReading ==
  lzPhase # "compress" =>
    /\ Len(packed) <= Compression!Bound(Len(block))
    /\ \E S : \E e \in S :
         /\ Parsed(block, packed, S, e)
         /\ e[2] <= Len(block) /\ Holds(packed, e[1], LastPart(block, e[2]))
         /\ e[1] + Len(LastPart(block, e[2])) = Len(packed)
         /\ \/ pos = Len(packed) /\ unpacked = block
            \/ <<pos, Len(unpacked)>> \in S /\ unpacked = SubSeq(block, 1, Len(unpacked))
    /\ lzPhase = "done" => unpacked = block

LzInv == LzTypes /\ LzWriting /\ LzReading

\* The compression starts with nothing written.
LEMMA LzStarts == Compression!Init => LzInv
<1>. SUFFICES ASSUME Compression!Init PROVE LzInv
  OBVIOUS
<1>. USE LzFacts
<1>1. LzTypes
  <2>1. block \in Seq(Alphabet)
    BY DEF Compression!Init
  <2>2. Len(block) \in Nat
    BY <2>1
  <2>3. anchor = 0 /\ anchor <= Len(block) /\ {ip, anchor, pos} \subseteq Nat
    BY <2>2 DEF Compression!Init
  <2>4. packed \in Seq(Nat) /\ unpacked \in Seq(Alphabet)
    BY DEF Compression!Init
  <2>. QED
    BY <2>1, <2>3, <2>4 DEF LzTypes, Compression!Init
<1>2. \E S : Parsed(block, packed, S, <<Len(packed), anchor>>)
  <2>1. Len(packed) = 0 /\ anchor = 0
    BY DEF Compression!Init
  <2>2. Parsed(block, packed, {<<0, 0>>}, <<0, 0>>)
    BY DEF Parsed
  <2>. QED
    BY <2>1, <2>2
<1>3. LzWriting
  <2>1. Len(packed) = 0 /\ anchor = 0 /\ ip = 0 /\ pos = 0 /\ unpacked = <<>>
        /\ \A k \in 0..(Slots - 1) : table[k] = 0
    BY DEF Compression!Init
  <2>2. 0 \div TopByte >= 0 /\ 0 \div TopByte \in Int
    OBVIOUS
  <2>. QED
    BY <1>2, <2>1, <2>2 DEF LzWriting
<1>4. LzReading
  BY DEF LzReading, Compression!Init
<1>. QED
  BY <1>1, <1>3, <1>4 DEF LzInv

\* A position looked at has a slot.
LEMMA HashIs ==
  ASSUME block \in Seq(Alphabet), NEW i \in Nat, i <= Compression!Limit
  PROVE  Compression!Hash(i) \in 0..(Slots - 1)
<1>1. PICK g : g = i + MinMatch
  OBVIOUS
<1>2. g \in Nat /\ i <= g /\ g <= Len(block) /\ g - i = MinMatch /\ Len(block) \in Nat
  BY <1>1, LzFacts DEF Compression!Limit, Compression!BlockLen
<1>3. PICK s : s = SubSeq(block, i + 1, g)
  OBVIOUS
<1>4. s \in Seq(Alphabet) /\ Len(s) = MinMatch
  BY <1>2, <1>3, BytesOf
<1>5. s \in [1..MinMatch -> Alphabet]
  BY <1>4
<1>6. Compression!Hash(i) = SlotOf[s]
  BY <1>1, <1>3 DEF Compression!Hash, Compression!Sequence, Compression!Bytes
<1>. QED
  BY <1>5, <1>6, LzFacts

\* Nothing written.
LEMMA LzSkips == ASSUME LzInv, Compression!Skip PROVE LzInv'
<1>. USE LzFacts
<1>1. LzTypes /\ LzWriting /\ lzPhase = "compress" /\ ip <= Compression!Limit
  BY DEF LzInv, Compression!Skip, Compression!Compressing
<1>2. /\ block' = block /\ anchor' = anchor /\ packed' = packed /\ pos' = pos /\ unpacked' = unpacked
      /\ lzPhase' = lzPhase
  BY DEF Compression!Skip
<1>3. ip \in Nat /\ anchor \in Nat /\ anchor <= ip /\ block \in Seq(Alphabet)
  BY <1>1 DEF LzTypes, LzWriting
<1>4. Compression!Hash(ip) \in 0..(Slots - 1)
  BY <1>1, <1>3, HashIs
<1>5. ip' \in Nat /\ ip + 1 <= ip'
  <2>1. (ip - anchor) \div SkipLength \in Nat
    <3>1. ip - anchor \in Nat
      BY <1>3
    <3>. QED
      BY <3>1, Quotient
  <2>2. ip' = ip + 1 + (ip - anchor) \div SkipLength
    BY DEF Compression!Skip
  <2>. QED
    BY <1>3, <2>1, <2>2
<1>6. table' \in [0..(Slots - 1) -> Nat] /\ \A k \in 0..(Slots - 1) : table'[k] <= ip'
  <2>1. table' = [table EXCEPT ![Compression!Hash(ip)] = ip + 1]
    BY DEF Compression!Skip
  <2>2. table \in [0..(Slots - 1) -> Nat] /\ \A k \in 0..(Slots - 1) : table[k] <= ip
    BY <1>1 DEF LzTypes, LzWriting
  <2>3. ip + 1 \in Nat
    BY <1>3
  <2>4. \A k \in 0..(Slots - 1) : table'[k] = IF k = Compression!Hash(ip) THEN ip + 1 ELSE table[k]
    BY <2>1, <2>2
  <2>5. table' \in [0..(Slots - 1) -> Nat]
    BY <2>1, <2>2, <2>3
  <2>6. ASSUME NEW k \in 0..(Slots - 1) PROVE table'[k] <= ip'
    <3>1. table[k] \in Nat /\ table[k] <= ip
      BY <2>2
    <3>2. table'[k] = IF k = Compression!Hash(ip) THEN ip + 1 ELSE table[k]
      BY <2>4
    <3>. QED
      BY <1>3, <1>5, <3>1, <3>2
  <2>. QED
    BY <2>5, <2>6
<1>7. LzTypes'
  BY <1>1, <1>2, <1>5, <1>6 DEF LzTypes
<1>8. LzWriting'
  <2>1. anchor' <= ip'
    BY <1>2, <1>3, <1>5
  <2>2. /\ pos = 0 /\ unpacked = <<>> /\ Len(packed) <= anchor + anchor \div TopByte
        /\ \E S : Parsed(block, packed, S, <<Len(packed), anchor>>)
    BY <1>1 DEF LzWriting
  <2>3. /\ pos' = 0 /\ unpacked' = <<>> /\ Len(packed') <= anchor' + anchor' \div TopByte
        /\ \E S : Parsed(block', packed', S, <<Len(packed'), anchor'>>)
    BY <1>2, <2>2
  <2>. QED
    BY <1>6, <2>1, <2>3 DEF LzWriting
<1>9. LzReading'
  BY <1>1, <1>2 DEF LzReading
<1>. QED
  BY <1>7, <1>8, <1>9 DEF LzInv

\* A long length takes no more bytes than it tells of, and little more than one for
\* each full byte.
LEMMA LongLenShort ==
  ASSUME NEW n \in Nat
  PROVE  /\ Len(Compression!LongLen(n)) \in Nat
         /\ Len(Compression!LongLen(n)) <= n
         /\ Len(Compression!LongLen(n)) <= n \div TopByte + 1
<1>. USE LzFacts
<1>1. n \div TopByte \in Nat
  BY Quotient
<1>2. CASE n < Nibble
  <2>1. Len(Compression!LongLen(n)) = 0
    BY <1>2, LongLenIs
  <2>. QED
    BY <1>1, <2>1
<1>3. CASE n >= Nibble
  <2>1. PICK x, q : x = n - Nibble /\ q = x \div TopByte
    OBVIOUS
  <2>2. x \in Nat /\ x + Nibble = n
    BY <1>3, <2>1
  <2>3. q \in Nat /\ x % TopByte \in Nat /\ x = TopByte * q + (x % TopByte)
    <3>1. q \in Nat /\ x % TopByte \in 0..(TopByte - 1) /\ x = TopByte * q + (x % TopByte)
      BY <2>1, <2>2, Quotient
    <3>. QED
      BY <3>1
  <2>4. q <= TopByte * q
    BY <2>3
  <2>5. q <= x
    BY <2>2, <2>3, <2>4
  <2>6. q + Nibble \div TopByte <= n \div TopByte
    BY <2>1, <2>2, SumOfQuotients
  <2>7. Nibble \div TopByte \in Nat
    BY Quotient
  <2>8. Len(Compression!LongLen(n)) = q + 1
    BY <1>3, <2>1, LongLenIs
  <2>. QED
    BY <1>1, <2>2, <2>3, <2>5, <2>6, <2>7, <2>8
<1>. QED
  BY <1>2, <1>3

\* A sequence is no longer than what rd_lz_bound adds for the bytes it stands for.
LEMMA PartShort ==
  ASSUME NEW b \in Seq(Alphabet), NEW a \in Nat, NEW f, NEW l, NEW o, Repeats(b, a, f, l, o),
         NEW n \in Nat, n <= a + a \div TopByte
  PROVE  n + Len(Part(b, a, f, l, o)) <= f + l + (f + l) \div TopByte
<1>. USE LzFacts
<1>1. f \in Nat /\ l \in Nat /\ a <= f /\ MinMatch <= l
  BY DEF Repeats
<1>2. PICK x, y, u, v :
        x = f - a /\ y = l - MinMatch /\ u = Len(Compression!LongLen(x)) /\ v = Len(Compression!LongLen(y))
  OBVIOUS
<1>3. x \in Nat /\ y \in Nat /\ x + a = f /\ y + 4 <= l
  BY <1>1, <1>2
<1>4. u \in Nat /\ u <= x \div TopByte + 1
  BY <1>2, <1>3, LongLenShort
<1>5. v \in Nat /\ v <= y
  BY <1>2, <1>3, LongLenShort
<1>6. PICK p, q, r, s : p = a \div TopByte /\ q = x \div TopByte /\ r = l \div TopByte /\ s = (f + l) \div TopByte
  OBVIOUS
<1>7. p \in Nat /\ q \in Nat /\ r \in Nat /\ s \in Nat
  <2>1. f + l \in Nat
    BY <1>1
  <2>. QED
    BY <1>1, <1>3, <1>6, <2>1, Quotient
<1>8. p + q + r <= s
  <2>1. a + x = f /\ f + l \in Nat
    BY <1>1, <1>3
  <2>2. f \div TopByte \in Nat
    BY <1>1, Quotient
  <2>3. p + q <= f \div TopByte
    BY <1>3, <1>6, <2>1, SumOfQuotients
  <2>4. f \div TopByte + r <= s
    BY <1>1, <1>6, SumOfQuotients
  <2>. QED
    BY <1>7, <2>2, <2>3, <2>4
<1>9. Len(Part(b, a, f, l, o)) = 3 + x + u + v
  <2>1. Len(Part(b, a, f, l, o))
          = 3 + (f - a) + Len(Compression!LongLen(f - a)) + Len(Compression!LongLen(l - MinMatch))
    BY PartIs
  <2>. QED
    BY <1>2, <2>1
<1>10. n <= a + p /\ u <= q + 1
  BY <1>4, <1>6
<1>11. n + (3 + x + u + v) <= f + l + s
  BY <1>1, <1>3, <1>4, <1>5, <1>7, <1>8, <1>10
<1>. QED
  BY <1>6, <1>9, <1>11

\* Nor is the last one, which the rest of rd_lz_bound is for.
LEMMA LastPartShort ==
  ASSUME NEW b \in Seq(Alphabet), NEW a \in Nat, a <= Len(b), NEW n \in Nat, n <= a + a \div TopByte
  PROVE  n + Len(LastPart(b, a)) <= Compression!Bound(Len(b))
<1>. USE LzFacts
<1>1. PICK x, u : x = Len(b) - a /\ u = Len(Compression!LongLen(x))
  OBVIOUS
<1>2. x \in Nat /\ x + a = Len(b) /\ Len(b) \in Nat
  BY <1>1
<1>3. u \in Nat /\ u <= x \div TopByte + 1
  BY <1>1, <1>2, LongLenShort
<1>4. PICK p, q, s : p = a \div TopByte /\ q = x \div TopByte /\ s = Len(b) \div TopByte
  OBVIOUS
<1>5. p \in Nat /\ q \in Nat /\ s \in Nat
  BY <1>2, <1>4, Quotient
<1>6. q + p <= s
  BY <1>2, <1>4, SumOfQuotients
<1>7. Len(LastPart(b, a)) = 1 + u + x
  BY <1>1, LastPartIs
<1>8. n <= a + p /\ u <= q + 1
  BY <1>3, <1>4
<1>9. n + (1 + u + x) <= Len(b) + s + Slack
  BY <1>2, <1>3, <1>5, <1>6, <1>8
<1>. QED
  BY <1>4, <1>7, <1>9 DEF Compression!Bound

\* A sequence written.
LEMMA LzCopies == ASSUME LzInv, Compression!Copy PROVE LzInv'
<1>. USE LzFacts
<1>1. LzTypes /\ LzWriting /\ lzPhase = "compress" /\ ip <= Compression!Limit
  BY DEF LzInv, Compression!Copy, Compression!Compressing
<1>2. block' = block /\ pos' = pos /\ unpacked' = unpacked /\ lzPhase' = lzPhase
  BY DEF Compression!Copy
<1>3. ip \in Nat /\ anchor \in Nat /\ anchor <= ip /\ block \in Seq(Alphabet) /\ packed \in Seq(Nat)
  BY <1>1 DEF LzTypes, LzWriting
<1>4. table \in [0..(Slots - 1) -> Nat] /\ \A k \in 0..(Slots - 1) : table[k] <= ip
  BY <1>1 DEF LzTypes, LzWriting
<1>5. Compression!Hash(ip) \in 0..(Slots - 1)
  BY <1>1, <1>3, HashIs
<1>6. PICK f, l, o : f = Compression!Match.from /\ l = Compression!Match.len /\ o = Compression!Match.off
  OBVIOUS
<1>7. Repeats(block, anchor, f, l, o) /\ ip < f + l
  <2>1. table[Compression!Hash(ip)] \in Nat /\ table[Compression!Hash(ip)] <= ip
    BY <1>4, <1>5
  <2>2. Compression!Compressing /\ Compression!Found
    BY DEF Compression!Copy
  <2>. QED
    BY <1>3, <1>6, <2>1, <2>2, MatchIs
<1>8. f \in Nat /\ l \in Nat /\ f + l <= Len(block) /\ MinMatch <= l /\ Len(block) \in Nat
  BY <1>3, <1>7 DEF Repeats
<1>9. ip' = f + l /\ anchor' = f + l
  BY <1>6 DEF Compression!Copy
<1>10. packed' = packed \o Part(block, anchor, f, l, o)
  <2>1. Compression!Emitted(anchor, Compression!Match) = Part(block, anchor, f, l, o)
    BY <1>6 DEF Compression!Emitted, Compression!Bytes, Part
  <2>. QED
    BY <2>1 DEF Compression!Copy
<1>11. packed' \in Seq(Nat) /\ Len(packed') = Len(packed) + Len(Part(block, anchor, f, l, o))
  BY <1>3, <1>7, <1>10, PartIs, HoldsLast
<1>12. Len(packed') <= anchor' + anchor' \div TopByte
  <2>1. Len(packed) \in Nat /\ Len(packed) <= anchor + anchor \div TopByte
    BY <1>1, <1>3 DEF LzWriting
  <2>2. Len(packed) + Len(Part(block, anchor, f, l, o)) <= f + l + (f + l) \div TopByte
    BY <1>3, <1>7, <2>1, PartShort
  <2>. QED
    BY <1>9, <1>11, <2>2
<1>13. \E S : Parsed(block', packed', S, <<Len(packed'), anchor'>>)
  <2>1. PICK S : Parsed(block, packed, S, <<Len(packed), anchor>>)
    BY <1>1 DEF LzWriting
  <2>. QED
    BY <1>2, <1>3, <1>7, <1>9, <1>10, <2>1, ParsedMore
<1>14. table' \in [0..(Slots - 1) -> Nat] /\ \A k \in 0..(Slots - 1) : table'[k] <= ip'
  <2>1. PICK t : t = [table EXCEPT ![Compression!Hash(ip)] = ip + 1]
    OBVIOUS
  <2>2. table' = IF ip' - 2 <= Compression!Limit THEN [t EXCEPT ![Compression!Hash(ip' - 2)] = ip' - 1] ELSE t
    BY <2>1 DEF Compression!Copy
  <2>3. ip' - 2 = f + l - 2 /\ ip' - 1 = f + l - 1
    BY <1>8, <1>9
  <2>4. t \in [0..(Slots - 1) -> Nat] /\ \A k \in 0..(Slots - 1) : t[k] <= ip'
    <3>1. ip + 1 \in Nat /\ ip + 1 <= f + l
      BY <1>3, <1>7, <1>8
    <3>2. t \in [0..(Slots - 1) -> Nat] /\ \A k \in 0..(Slots - 1) : t[k] = IF k = Compression!Hash(ip) THEN ip + 1 ELSE table[k]
      BY <1>4, <2>1, <3>1
    <3>3. ASSUME NEW k \in 0..(Slots - 1) PROVE t[k] <= f + l
      <4>1. table[k] \in Nat /\ table[k] <= ip
        BY <1>4
      <4>2. table[k] <= f + l
        BY <1>3, <1>7, <1>8, <4>1
      <4>. QED
        BY <3>1, <3>2, <4>2
    <3>. QED
      BY <1>9, <3>2, <3>3
  <2>5. CASE f + l - 2 <= Compression!Limit
    <3>1. PICK g, h : g = f + l - 2 /\ h = Compression!Hash(g)
      OBVIOUS
    <3>2. g \in Nat /\ f + l - 1 \in Nat /\ f + l - 1 <= f + l
      BY <1>8, <3>1
    <3>3. h \in 0..(Slots - 1)
      BY <1>3, <2>5, <3>1, <3>2, HashIs
    <3>4. table' = [t EXCEPT ![h] = f + l - 1]
      BY <2>5, <2>2, <2>3, <3>1
    <3>5. table' \in [0..(Slots - 1) -> Nat] /\ \A k \in 0..(Slots - 1) : table'[k] = IF k = h THEN f + l - 1 ELSE t[k]
      BY <2>4, <3>2, <3>4
    <3>. QED
      BY <1>9, <2>4, <3>2, <3>5
  <2>6. CASE ~(f + l - 2 <= Compression!Limit)
    <3>1. table' = t
      BY <2>6, <2>2, <2>3
    <3>. QED
      BY <2>4, <3>1
  <2>. QED
    BY <2>5, <2>6
<1>15. LzTypes'
  BY <1>1, <1>2, <1>8, <1>9, <1>11, <1>14, SMTT(60) DEF LzTypes
<1>16. LzWriting'
  <2>1. pos' = 0 /\ unpacked' = <<>>
    BY <1>1, <1>2 DEF LzWriting
  <2>2. anchor' <= ip'
    BY <1>8, <1>9
  <2>. QED
    BY <1>12, <1>13, <1>14, <2>1, <2>2 DEF LzWriting
<1>17. LzReading'
  BY <1>1, <1>2 DEF LzReading
<1>. QED
  BY <1>15, <1>16, <1>17 DEF LzInv

\* The last sequence written.
LEMMA LzFlushes == ASSUME LzInv, Compression!Flush PROVE LzInv'
<1>. USE LzFacts
<1>1. LzTypes /\ LzWriting /\ lzPhase = "compress"
  BY DEF LzInv, Compression!Flush
<1>2. /\ block' = block /\ ip' = ip /\ anchor' = anchor /\ table' = table /\ pos' = pos /\ unpacked' = unpacked
      /\ lzPhase' = "decompress"
  BY DEF Compression!Flush
<1>3. anchor \in Nat /\ anchor <= Len(block) /\ block \in Seq(Alphabet) /\ packed \in Seq(Nat) /\ Len(packed) \in Nat
  BY <1>1 DEF LzTypes
<1>4. PICK s : s = LastPart(block, anchor)
  OBVIOUS
<1>5. packed' = packed \o s
  BY <1>4 DEF Compression!Flush, Compression!Ending, Compression!Bytes, Compression!BlockLen, LastPart
<1>6. s \in Seq(Nat)
  BY <1>3, <1>4, LastPartIs
<1>7. packed' \in Seq(Nat) /\ Len(packed') = Len(packed) + Len(s) /\ Holds(packed', Len(packed), s)
  BY <1>3, <1>5, <1>6, HoldsLast
<1>8. Len(packed') <= Compression!Bound(Len(block))
  <2>1. Len(packed) <= anchor + anchor \div TopByte
    BY <1>1 DEF LzWriting
  <2>2. Len(packed) + Len(s) <= Compression!Bound(Len(block))
    BY <1>3, <1>4, <2>1, LastPartShort
  <2>. QED
    BY <1>7, <2>2
<1>9. PICK S, e : Parsed(block, packed, S, e) /\ e = <<Len(packed), anchor>>
  BY <1>1 DEF LzWriting
<1>10. e \in S /\ e[1] = Len(packed) /\ e[2] = anchor /\ <<0, 0>> \in S
  BY <1>9 DEF Parsed
<1>11. Parsed(block, packed', S, e)
  <2>1. S \subseteq Nat \X Nat /\ \A c \in S : c = e \/ Goes(block, packed, S, c)
    BY <1>9 DEF Parsed
  <2>2. ASSUME NEW c \in S, c # e PROVE Goes(block, packed', S, c)
    BY <1>3, <1>5, <1>6, <2>1, <2>2, GoesOn
  <2>. QED
    BY <1>10, <2>1, <2>2 DEF Parsed
<1>12. pos = 0 /\ unpacked = <<>>
  BY <1>1 DEF LzWriting
<1>13. <<pos, Len(unpacked)>> \in S /\ unpacked = SubSeq(block, 1, Len(unpacked))
  BY <1>10, <1>12
<1>14. LzTypes'
  BY <1>1, <1>2, <1>7 DEF LzTypes
<1>15. LzWriting'
  BY <1>2 DEF LzWriting
<1>16. LzReading'
  <2>1. /\ e[2] <= Len(block) /\ Holds(packed', e[1], LastPart(block, e[2]))
        /\ e[1] + Len(LastPart(block, e[2])) = Len(packed')
    BY <1>3, <1>4, <1>7, <1>10
  <2>. QED
    BY <1>2, <1>8, <1>10, <1>11, <1>13, <2>1 DEF LzReading
<1>. QED
  BY <1>14, <1>15, <1>16 DEF LzInv

\* Literals read where bytes of the block were written add those bytes.
LEMMA LiteralsRead ==
  ASSUME block \in Seq(Alphabet), packed \in Seq(Nat), NEW a \in Nat, NEW f \in Nat, a <= f, f <= Len(block),
         NEW j \in Nat, Holds(packed, j, SubSeq(block, a + 1, f))
  PROVE  /\ SubSeq(block, 1, a) \o SubSeq(packed, j + 1, j + (f - a)) = SubSeq(block, 1, f)
         /\ Len(SubSeq(block, 1, f)) = f
<1>1. PICK s, k : s = SubSeq(block, a + 1, f) /\ k = j + (f - a)
  OBVIOUS
<1>2. Len(block) \in Nat /\ Len(packed) \in Nat /\ k \in Nat /\ k - j = f - a
  BY <1>1
<1>3. s \in Seq(Nat) /\ Len(s) = f - a
  BY <1>1, BytesOf
<1>4. k <= Len(packed) /\ \A i \in 1..(f - a) : packed[j + i] = s[i]
  BY <1>1, <1>2, <1>3 DEF Holds
<1>5. PICK t : t = SubSeq(packed, j + 1, k)
  OBVIOUS
<1>6. t \in Seq(Nat) /\ Len(t) = f - a /\ \A i \in 1..(f - a) : t[i] = packed[j + i]
  <2>1. j <= k
    BY <1>2
  <2>2. /\ SubSeq(packed, j + 1, k) \in Seq(Nat) /\ Len(SubSeq(packed, j + 1, k)) = k - j
        /\ \A i \in 1..(k - j) : SubSeq(packed, j + 1, k)[i] = packed[j + i]
    BY <1>2, <1>4, <2>1, Between
  <2>. QED
    BY <1>2, <1>5, <2>2
<1>7. s = t
  BY <1>3, <1>4, <1>6, SeqEqual
<1>8. SubSeq(block, 1, a) \o s = SubSeq(block, 1, f)
  <2>1. 1 \in 1..(Len(block) + 1) /\ a \in (1 - 1)..Len(block) /\ f \in a..Len(block)
    BY <1>2
  <2>. QED
    BY <1>1, <2>1, ConcatAdjacentSubSeq
<1>9. Len(SubSeq(block, 1, f)) = f
  <2>1. Len(SubSeq(block, 0 + 1, f)) = f - 0
    BY BytesOf
  <2>. QED
    BY <2>1
<1>. QED
  BY <1>1, <1>5, <1>7, <1>8, <1>9

\* A repetition repeats its first o bytes over and over.
LEMMA Periodic ==
  ASSUME NEW b \in Seq(Alphabet), NEW a \in Nat, NEW f, NEW l, NEW o, Repeats(b, a, f, l, o),
         NEW j \in 0..(l - 1)
  PROVE  b[f + j + 1] = b[f - o + (j % o) + 1]
<1>1. /\ f \in Nat /\ l \in Nat /\ o \in Nat \ {0} /\ o <= f
      /\ \A i \in 0..(l - 1) : b[f + i + 1] = b[f - o + i + 1]
  BY DEF Repeats
<1>. DEFINE Bad == {i \in 0..(l - 1) : b[f + i + 1] # b[f - o + (i % o) + 1]}
<1>2. SUFFICES ASSUME Bad # {} PROVE FALSE
  OBVIOUS
<1>3. PICK i \in Bad : \A x \in Bad : i <= x
  <2>1. Bad \subseteq Nat
    OBVIOUS
  <2>. HIDE DEF Bad
  <2>. QED
    BY <1>2, <2>1, LeastNumber
<1>4. i \in 0..(l - 1) /\ b[f + i + 1] # b[f - o + (i % o) + 1]
  OBVIOUS
<1>5. b[f + i + 1] = b[f - o + i + 1]
  BY <1>1, <1>4
<1>6. CASE i < o
  <2>1. i \in 0..(o - 1)
    BY <1>1, <1>4, <1>6
  <2>2. i % o = i
    BY <1>1, <2>1, SmallRemainder
  <2>. QED
    BY <1>4, <1>5, <2>2
<1>7. CASE ~(i < o)
  <2>1. PICK x : x = i - o
    OBVIOUS
  <2>2. x \in 0..(l - 1) /\ ~(i <= x) /\ f + x + 1 = f - o + i + 1 /\ x \in Nat
    BY <1>1, <1>4, <1>7, <2>1
  <2>3. x \notin Bad
    BY <1>3, <2>2
  <2>4. b[f + x + 1] = b[f - o + (x % o) + 1]
    BY <2>2, <2>3
  <2>5. x % o = i % o
    <3>1. PICK q, r : q = x \div o /\ r = x % o
      OBVIOUS
    <3>2. q \in Nat /\ r \in 0..(o - 1) /\ x = o * q + r
      BY <1>1, <2>2, <3>1, Quotient
    <3>3. i = (q + 1) * o + r
      BY <1>1, <1>4, <2>1, <3>2
    <3>4. q + 1 \in Nat
      BY <3>2
    <3>5. i % o = r
      BY <1>1, <3>2, <3>3, <3>4, Recomposed
    <3>. QED
      BY <3>1, <3>5
  <2>. QED
    BY <1>4, <1>5, <2>2, <2>4, <2>5
<1>. QED
  BY <1>6, <1>7

\* A match, written byte by byte, gives the bytes it stands for.
LEMMA MatchRead ==
  ASSUME block \in Seq(Alphabet), NEW a \in Nat, NEW f, NEW l, NEW o, Repeats(block, a, f, l, o)
  PROVE  Compression!Repeated(SubSeq(block, 1, f), o, l) = SubSeq(block, 1, f + l)
<1>1. /\ f \in Nat /\ l \in Nat /\ o \in Nat \ {0} /\ o <= f /\ f + l <= Len(block) /\ Len(block) \in Nat
  BY DEF Repeats
<1>2. PICK s, t : s = SubSeq(block, 1, f) /\ t = SubSeq(block, f + 1, f + l)
  OBVIOUS
<1>3. s \in Seq(Alphabet) /\ Len(s) = f /\ \A k \in 1..f : s[k] = block[k]
  <2>1. f <= Len(block)
    BY <1>1
  <2>2. /\ SubSeq(block, 0 + 1, f) \in Seq(Alphabet) /\ Len(SubSeq(block, 0 + 1, f)) = f - 0
        /\ \A k \in 1..(f - 0) : SubSeq(block, 0 + 1, f)[k] = block[0 + k]
    BY <1>1, <2>1, BytesOf
  <2>3. 0 + 1 = 1 /\ f - 0 = f /\ \A k \in 1..f : 0 + k = k
    BY <1>1
  <2>. QED
    BY <1>2, <2>2, <2>3
<1>4. t \in Seq(Alphabet) /\ Len(t) = l /\ \A k \in 1..l : t[k] = block[f + k]
  <2>1. PICK g : g = f + l
    OBVIOUS
  <2>2. g \in Nat /\ f <= g /\ g <= Len(block) /\ g - f = l
    BY <1>1, <2>1
  <2>3. t = SubSeq(block, f + 1, g)
    BY <1>2, <2>1
  <2>4. t \in Seq(Alphabet) /\ Len(t) = g - f /\ \A k \in 1..(g - f) : t[k] = block[f + k]
    BY <1>1, <2>2, <2>3, BytesOf
  <2>. QED
    BY <2>2, <2>4
<1>5. PICK u : u = [i \in 1..l |-> s[Len(s) - o + 1 + ((i - 1) % o)]]
  OBVIOUS
<1>6. ASSUME NEW i \in 1..l PROVE u[i] = t[i]
  <2>1. PICK j : j = i - 1
    OBVIOUS
  <2>2. j \in 0..(l - 1) /\ f + j + 1 = f + i /\ j \in Nat
    BY <1>1, <2>1
  <2>3. block[f + i] = block[f - o + (j % o) + 1]
    BY <2>2, Periodic
  <2>4. j % o \in 0..(o - 1)
    BY <1>1, <2>2, Quotient
  <2>5. f - o + (j % o) + 1 \in 1..f /\ f - o + 1 + (j % o) = f - o + (j % o) + 1
    BY <1>1, <2>4
  <2>6. u[i] = s[f - o + 1 + (j % o)]
    BY <1>3, <1>5, <2>1
  <2>. QED
    BY <1>3, <1>4, <2>3, <2>5, <2>6
<1>7. u = t
  <2>1. t = [i \in 1..l |-> t[i]]
    BY <1>4
  <2>. QED
    BY <1>5, <1>6, <2>1
<1>8. s \o t = SubSeq(block, 1, f + l)
  <2>1. 1 \in 1..(Len(block) + 1) /\ f \in (1 - 1)..Len(block) /\ f + l \in f..Len(block)
    BY <1>1
  <2>. QED
    BY <1>2, <2>1, ConcatAdjacentSubSeq
<1>. QED
  BY <1>2, <1>5, <1>7, <1>8 DEF Compression!Repeated

\* The reader at a cut, which is not the last, comes to the next one; at the last,
\* to the end.
LEMMA ReadsPart ==
  ASSUME LzTypes, Compression!Expand, NEW a \in Nat, NEW f, NEW l, NEW o, Repeats(block, a, f, l, o),
         Holds(packed, pos, Part(block, a, f, l, o)), unpacked = SubSeq(block, 1, a), a = Len(unpacked)
  PROVE  /\ pos' = pos + Len(Part(block, a, f, l, o))
         /\ unpacked' = SubSeq(block, 1, f + l)
         /\ lzPhase' = lzPhase
<1>. USE LzFacts
<1>1. block \in Seq(Alphabet) /\ packed \in Seq(Nat) /\ pos \in Nat /\ Len(block) \in Nat /\ Len(packed) \in Nat
  BY DEF LzTypes
<1>2. /\ f \in Nat /\ l \in Nat /\ o \in Nat \ {0} /\ o <= f /\ f + l <= Len(block) /\ a <= f /\ f <= Len(block)
      /\ f - a \in Nat /\ l - MinMatch \in Nat
  <2>1. /\ f \in Nat /\ l \in Nat /\ o \in Nat /\ 1 <= o /\ o <= f /\ f + l <= Len(block) /\ a <= f
        /\ MinMatch <= l
    BY DEF Repeats
  <2>2. f <= Len(block) /\ o # 0
    BY <1>1, <2>1
  <2>3. f - a \in Nat /\ l - MinMatch \in Nat
    BY <2>1
  <2>. QED
    BY <2>1, <2>2, <2>3
<1>3. PICK x, y, u, v :
        x = f - a /\ y = l - MinMatch /\ u = Len(Compression!LongLen(x)) /\ v = Len(Compression!LongLen(y))
  OBVIOUS
<1>4. x \in Nat /\ y \in Nat /\ u \in Nat /\ v \in Nat /\ a + x = f /\ y + MinMatch = l
  BY <1>2, <1>3, LongLenIs, LongLenShort
<1>5. PICK j, last : j = pos + 1 + u /\ last = j + x
  OBVIOUS
<1>6. j \in Nat /\ last \in Nat /\ last - j = f - a /\ last = j + (f - a)
  BY <1>1, <1>2, <1>3, <1>4, <1>5
<1>7. /\ packed[pos + 1] = Compression!Token(x, y)
      /\ Holds(packed, pos + 1, Compression!LongLen(x))
      /\ Holds(packed, j, SubSeq(block, a + 1, f))
      /\ last + 2 <= Len(packed)
      /\ packed[last + 1] + Compression!Base * packed[last + 2] = o
      /\ Holds(packed, last + 2, Compression!LongLen(y))
  <2>1. LET i == pos + 1 + Len(Compression!LongLen(f - a))
        IN /\ packed[pos + 1] = Compression!Token(f - a, l - MinMatch)
           /\ Holds(packed, pos + 1, Compression!LongLen(f - a))
           /\ Holds(packed, i, SubSeq(block, a + 1, f))
           /\ i + (f - a) + 2 <= Len(packed)
           /\ packed[i + (f - a) + 1] + Compression!Base * packed[i + (f - a) + 2] = o
           /\ Holds(packed, i + (f - a) + 2, Compression!LongLen(l - MinMatch))
    BY <1>1, PartHeld
  <2>2. pos + 1 + Len(Compression!LongLen(f - a)) = j /\ last = j + (f - a)
    BY <1>3, <1>5
  <2>. QED
    BY <1>3, <2>1, <2>2
<1>8. Compression!ReadLen(packed[pos + 1] \div (Nibble + 1), pos + 1) = [len |-> x, next |-> j, ok |-> TRUE]
  <2>1. packed[pos + 1] \div (Nibble + 1) = IF x <= Nibble THEN x ELSE Nibble
    BY <1>4, <1>7, TokenIs
  <2>2. pos + 1 \in Nat
    BY <1>1
  <2>3. Compression!ReadLen(IF x <= Nibble THEN x ELSE Nibble, pos + 1) = [len |-> x, next |-> pos + 1 + u, ok |-> TRUE]
    BY <1>1, <1>3, <1>4, <1>7, <2>2, ReadsLong
  <2>. QED
    BY <1>5, <2>1, <2>3
<1>9. Compression!ReadLen(packed[pos + 1] % (Nibble + 1), last + 2) = [len |-> y, next |-> last + 2 + v, ok |-> TRUE]
  <2>1. packed[pos + 1] % (Nibble + 1) = IF y <= Nibble THEN y ELSE Nibble
    BY <1>4, <1>7, TokenIs
  <2>2. last + 2 \in Nat
    BY <1>6
  <2>3. Compression!ReadLen(IF y <= Nibble THEN y ELSE Nibble, last + 2) = [len |-> y, next |-> last + 2 + v, ok |-> TRUE]
    BY <1>1, <1>3, <1>4, <1>7, <2>2, ReadsLong
  <2>. QED
    BY <2>1, <2>3
<1>10. PICK dst : dst = unpacked \o SubSeq(packed, j + 1, last)
  OBVIOUS
<1>11. dst = SubSeq(block, 1, f) /\ Len(dst) = f
  <2>1. SubSeq(block, 1, a) \o SubSeq(packed, j + 1, last) = SubSeq(block, 1, f) /\ Len(SubSeq(block, 1, f)) = f
    <3>1. SubSeq(block, 1, a) \o SubSeq(packed, j + 1, j + (f - a)) = SubSeq(block, 1, f) /\ Len(SubSeq(block, 1, f)) = f
      BY <1>1, <1>2, <1>6, <1>7, LiteralsRead
    <3>. QED
      BY <1>6, <3>1
  <2>. QED
    BY <1>10, <2>1
<1>12. PICK lits, match : lits = [len |-> x, next |-> j, ok |-> TRUE] /\ match = [len |-> y, next |-> last + 2 + v, ok |-> TRUE]
  OBVIOUS
<1>13. /\ lits.len = x /\ lits.next = j /\ lits.ok = TRUE
       /\ match.len = y /\ match.next = last + 2 + v /\ match.ok = TRUE
  BY <1>12
<1>14. /\ last <= Len(packed) /\ ~(last > Len(packed)) /\ last # Len(packed) /\ ~(last + 2 > Len(packed))
       /\ o # 0 /\ ~(o > Len(dst)) /\ ~(Len(dst) > Len(block)) /\ ~(Len(dst) + (y + MinMatch) > Len(block))
  <2>1. last + 2 <= Len(packed)
    BY <1>7
  <2>2. last <= Len(packed) /\ ~(last > Len(packed)) /\ last # Len(packed) /\ ~(last + 2 > Len(packed))
    <3>1. PICK n : n = Len(packed)
      OBVIOUS
    <3>2. n \in Nat /\ last \in Nat /\ last + 2 <= n
      BY <1>1, <1>6, <2>1, <3>1
    <3>3. last <= n /\ ~(last > n) /\ last # n /\ ~(last + 2 > n)
      BY <3>2
    <3>. QED
      BY <3>1, <3>3
  <2>3. o # 0 /\ ~(o > Len(dst)) /\ ~(Len(dst) > Len(block))
    BY <1>1, <1>2, <1>11
  <2>4. Len(dst) + (y + MinMatch) = f + l
    BY <1>4, <1>11
  <2>5. ~(Len(dst) + (y + MinMatch) > Len(block))
    BY <1>1, <1>2, <2>4
  <2>. QED
    BY <2>2, <2>3, <2>5
<1>15. /\ pos' = match.next /\ lzPhase' = lzPhase
       /\ unpacked' = Compression!Repeated(dst, o, match.len + MinMatch)
  <2>1. last = lits.next + lits.len /\ dst = unpacked \o SubSeq(packed, lits.next + 1, last)
    BY <1>5, <1>10, <1>13
  <2>. QED
    BY <1>7, <1>8, <1>9, <1>12, <1>13, <1>14, <2>1, ZenonT(60)
       DEF Compression!Expand, Compression!BlockLen
<1>16. unpacked' = SubSeq(block, 1, f + l)
  <2>1. unpacked' = Compression!Repeated(SubSeq(block, 1, f), o, l)
    BY <1>4, <1>11, <1>13, <1>15
  <2>. QED
    BY <1>1, <2>1, MatchRead
<1>17. pos' = pos + Len(Part(block, a, f, l, o))
  <2>1. Len(Part(block, a, f, l, o)) = 3 + x + u + v
    BY <1>1, <1>3, PartIs
  <2>2. last + 2 + v = pos + (3 + x + u + v)
    BY <1>1, <1>4, <1>5
  <2>. QED
    BY <1>13, <1>15, <2>1, <2>2
<1>. QED
  BY <1>15, <1>16, <1>17

LEMMA ReadsLast ==
  ASSUME LzTypes, Compression!Expand, NEW a \in Nat, a <= Len(block),
         Holds(packed, pos, LastPart(block, a)), pos + Len(LastPart(block, a)) = Len(packed),
         unpacked = SubSeq(block, 1, a)
  PROVE  pos' = Len(packed) /\ unpacked' = block /\ lzPhase' = lzPhase
<1>. USE LzFacts
<1>1. block \in Seq(Alphabet) /\ packed \in Seq(Nat) /\ pos \in Nat /\ Len(block) \in Nat /\ Len(packed) \in Nat
  BY DEF LzTypes
<1>2. PICK f, x, u : f = Len(block) /\ x = f - a /\ u = Len(Compression!LongLen(x))
  OBVIOUS
<1>3. f \in Nat /\ x \in Nat /\ u \in Nat /\ a + x = f /\ a <= f /\ f <= Len(block)
  <2>1. f \in Nat /\ x \in Nat /\ a + x = f /\ a <= f /\ f <= Len(block)
    BY <1>1, <1>2
  <2>. QED
    BY <1>2, <2>1, LongLenShort
<1>4. PICK j, last : j = pos + 1 + u /\ last = j + x
  OBVIOUS
<1>5. j \in Nat /\ last \in Nat /\ last = j + (f - a)
  BY <1>1, <1>2, <1>3, <1>4
<1>6. /\ packed[pos + 1] = Compression!Token(x, 0)
      /\ Holds(packed, pos + 1, Compression!LongLen(x))
      /\ Holds(packed, j, SubSeq(block, a + 1, f))
  BY <1>1, <1>2, <1>4, LastPartHeld
<1>7. last = Len(packed)
  <2>1. Len(LastPart(block, a)) = 1 + u + x
    BY <1>1, <1>2, LastPartIs
  <2>. QED
    BY <1>1, <1>3, <1>4, <2>1
<1>8. Compression!ReadLen(packed[pos + 1] \div (Nibble + 1), pos + 1) = [len |-> x, next |-> j, ok |-> TRUE]
  <2>1. packed[pos + 1] \div (Nibble + 1) = IF x <= Nibble THEN x ELSE Nibble
    BY <1>3, <1>6, TokenIs
  <2>2. pos + 1 \in Nat
    BY <1>1
  <2>3. Compression!ReadLen(IF x <= Nibble THEN x ELSE Nibble, pos + 1) = [len |-> x, next |-> pos + 1 + u, ok |-> TRUE]
    BY <1>1, <1>2, <1>3, <1>6, <2>2, ReadsLong
  <2>. QED
    BY <1>4, <2>1, <2>3
<1>9. PICK dst : dst = unpacked \o SubSeq(packed, j + 1, last)
  OBVIOUS
<1>10. dst = block
  <2>1. SubSeq(block, 1, a) \o SubSeq(packed, j + 1, last) = SubSeq(block, 1, f)
    <3>1. SubSeq(block, 1, a) \o SubSeq(packed, j + 1, j + (f - a)) = SubSeq(block, 1, f)
      BY <1>1, <1>3, <1>5, <1>6, LiteralsRead
    <3>. QED
      BY <1>5, <3>1
  <2>2. SubSeq(block, 1, f) = block
    BY <1>1, <1>2, SubSeqFull
  <2>. QED
    BY <1>9, <2>1, <2>2
<1>11. PICK lits, off, match :
         /\ lits = [len |-> x, next |-> j, ok |-> TRUE]
         /\ off = packed[last + 1] + Compression!Base * packed[last + 2]
         /\ match = Compression!ReadLen(packed[pos + 1] % (Nibble + 1), last + 2)
  OBVIOUS
<1>12. lits.len = x /\ lits.next = j /\ lits.ok = TRUE
  BY <1>11
<1>13. last <= Len(packed) /\ ~(last > Len(packed)) /\ ~(Len(dst) > Len(block))
  BY <1>1, <1>7, <1>10
<1>14. last = lits.next + lits.len /\ dst = unpacked \o SubSeq(packed, lits.next + 1, last)
  BY <1>4, <1>9, <1>12
<1>15. pos' = last /\ unpacked' = dst /\ lzPhase' = lzPhase
  BY <1>7, <1>8, <1>11, <1>12, <1>13, <1>14 DEF Compression!Expand, Compression!BlockLen
<1>. QED
  BY <1>7, <1>10, <1>15

\* A turn of the reader.
LEMMA LzExpands == ASSUME LzInv, Compression!Expand PROVE LzInv'
<1>. USE LzFacts
<1>1. LzTypes /\ LzReading /\ lzPhase = "decompress" /\ pos < Len(packed)
  BY DEF LzInv, Compression!Expand
<1>2. block' = block /\ table' = table /\ ip' = ip /\ anchor' = anchor /\ packed' = packed
  BY DEF Compression!Expand
<1>3. block \in Seq(Alphabet) /\ packed \in Seq(Nat) /\ pos \in Nat /\ Len(block) \in Nat /\ Len(packed) \in Nat
  BY <1>1 DEF LzTypes
<1>4. PICK S, e :
        /\ e \in S /\ Parsed(block, packed, S, e)
        /\ e[2] <= Len(block) /\ Holds(packed, e[1], LastPart(block, e[2]))
        /\ e[1] + Len(LastPart(block, e[2])) = Len(packed)
        /\ \/ pos = Len(packed) /\ unpacked = block
           \/ <<pos, Len(unpacked)>> \in S /\ unpacked = SubSeq(block, 1, Len(unpacked))
  BY <1>1 DEF LzReading
<1>5. PICK a, c : a = Len(unpacked) /\ c = <<pos, a>>
  OBVIOUS
<1>6. c \in S /\ unpacked = SubSeq(block, 1, a) /\ S \subseteq Nat \X Nat
  BY <1>1, <1>3, <1>4, <1>5 DEF Parsed
<1>7. a \in Nat /\ c[1] = pos /\ c[2] = a
  BY <1>5, <1>6
<1>8. /\ pos' \in Nat /\ unpacked' \in Seq(Alphabet) /\ lzPhase' = lzPhase
      /\ \/ pos' = Len(packed) /\ unpacked' = block
         \/ <<pos', Len(unpacked')>> \in S /\ unpacked' = SubSeq(block, 1, Len(unpacked'))
  <2>1. CASE c = e
    <3>1. e[1] = pos /\ e[2] = a
      BY <1>7, <2>1
    <3>2. pos' = Len(packed) /\ unpacked' = block /\ lzPhase' = lzPhase
      BY <1>1, <1>4, <1>6, <1>7, <3>1, ReadsLast
    <3>. QED
      BY <1>3, <3>2
  <2>2. CASE c # e
    <3>1. Goes(block, packed, S, c)
      BY <1>4, <1>6, <2>2 DEF Parsed
    <3>2. PICK f \in Nat, l \in Nat, o \in Nat :
            /\ Repeats(block, a, f, l, o)
            /\ Holds(packed, pos, Part(block, a, f, l, o))
            /\ <<pos + Len(Part(block, a, f, l, o)), f + l>> \in S
      BY <1>7, <3>1 DEF Goes
    <3>3. /\ pos' = pos + Len(Part(block, a, f, l, o))
          /\ unpacked' = SubSeq(block, 1, f + l) /\ lzPhase' = lzPhase
      BY <1>1, <1>5, <1>6, <1>7, <3>2, ReadsPart, SMTT(60)
    <3>4. PICK g : g = f + l
      OBVIOUS
    <3>5. g \in Nat /\ 0 <= g /\ g <= Len(block) /\ g - 0 = g /\ 0 + 1 = 1
      BY <1>3, <3>2, <3>4 DEF Repeats
    <3>6. SubSeq(block, 0 + 1, g) \in Seq(Alphabet) /\ Len(SubSeq(block, 0 + 1, g)) = g - 0
      BY <1>3, <3>5, BytesOf
    <3>7. unpacked' \in Seq(Alphabet) /\ Len(unpacked') = g /\ unpacked' = SubSeq(block, 1, g)
      BY <3>3, <3>4, <3>5, <3>6
    <3>8. <<pos', g>> \in S
      BY <3>2, <3>3, <3>4
    <3>9. pos' \in Nat
      BY <1>6, <3>8
    <3>. QED
      BY <3>3, <3>7, <3>8, <3>9
  <2>. QED
    BY <2>1, <2>2
<1>9. LzTypes'
  BY <1>1, <1>2, <1>8 DEF LzTypes
<1>10. LzWriting'
  BY <1>1, <1>8 DEF LzWriting
<1>11. LzReading'
  <2>1. Len(packed') <= Compression!Bound(Len(block'))
    BY <1>1, <1>2 DEF LzReading
  <2>2. lzPhase' # "done"
    BY <1>1, <1>8
  <2>3. /\ e \in S /\ Parsed(block', packed', S, e)
        /\ e[2] <= Len(block') /\ Holds(packed', e[1], LastPart(block', e[2]))
        /\ e[1] + Len(LastPart(block', e[2])) = Len(packed')
        /\ \/ pos' = Len(packed') /\ unpacked' = block'
           \/ <<pos', Len(unpacked')>> \in S /\ unpacked' = SubSeq(block', 1, Len(unpacked'))
    BY <1>2, <1>4, <1>8
  <2>. QED
    BY <2>1, <2>2, <2>3 DEF LzReading
<1>. QED
  BY <1>9, <1>10, <1>11 DEF LzInv

\* The end is reached with the whole block: a cut lies before the last sequence.
LEMMA LzFinishes == ASSUME LzInv, Compression!Finish PROVE LzInv'
<1>1. LzTypes /\ LzReading /\ lzPhase = "decompress" /\ pos = Len(packed)
  BY DEF LzInv, Compression!Finish
<1>2. /\ block' = block /\ table' = table /\ ip' = ip /\ anchor' = anchor /\ packed' = packed
      /\ pos' = pos /\ unpacked' = unpacked /\ lzPhase' = "done"
  BY DEF Compression!Finish
<1>3. block \in Seq(Alphabet) /\ packed \in Seq(Nat) /\ pos \in Nat /\ Len(block) \in Nat /\ Len(packed) \in Nat
  BY <1>1 DEF LzTypes
<1>4. PICK S, e :
        /\ e \in S /\ Parsed(block, packed, S, e)
        /\ e[2] <= Len(block) /\ Holds(packed, e[1], LastPart(block, e[2]))
        /\ e[1] + Len(LastPart(block, e[2])) = Len(packed)
        /\ \/ pos = Len(packed) /\ unpacked = block
           \/ <<pos, Len(unpacked)>> \in S /\ unpacked = SubSeq(block, 1, Len(unpacked))
  BY <1>1 DEF LzReading
<1>5. ASSUME NEW c \in S PROVE c[1] < Len(packed)
  <2>1. c \in Nat \X Nat
    BY <1>4 DEF Parsed
  <2>2. c[1] \in Nat /\ c[2] \in Nat
    BY <2>1
  <2>3. CASE c = e
    <3>1. PICK n : n = Len(LastPart(block, e[2]))
      OBVIOUS
    <3>2. PICK x : x = Len(block) - e[2]
      OBVIOUS
    <3>3. x \in Nat
      BY <1>3, <1>4, <2>2, <2>3, <3>2
    <3>4. Len(Compression!LongLen(x)) \in Nat
      BY <3>3, LongLenShort
    <3>5. n = 1 + Len(Compression!LongLen(x)) + x
      BY <1>3, <1>4, <2>2, <2>3, <3>1, <3>2, LastPartIs
    <3>6. c[1] + n = Len(packed)
      BY <1>4, <2>3, <3>1
    <3>. QED
      BY <1>3, <2>2, <3>3, <3>4, <3>5, <3>6
  <2>4. CASE c # e
    <3>1. PICK f \in Nat, l \in Nat, o \in Nat :
            Repeats(block, c[2], f, l, o) /\ Holds(packed, c[1], Part(block, c[2], f, l, o))
      BY <1>4, <2>4 DEF Parsed, Goes
    <3>2. PICK x, y : x = f - c[2] /\ y = l - MinMatch
      OBVIOUS
    <3>3. x \in Nat /\ y \in Nat
      BY <2>2, <3>1, <3>2, LzFacts DEF Repeats
    <3>4. Len(Compression!LongLen(x)) \in Nat /\ Len(Compression!LongLen(y)) \in Nat
      BY <3>3, LongLenShort
    <3>5. Len(Part(block, c[2], f, l, o)) = 3 + x + Len(Compression!LongLen(x)) + Len(Compression!LongLen(y))
      <4>1. Len(Part(block, c[2], f, l, o))
              = 3 + (f - c[2]) + Len(Compression!LongLen(f - c[2])) + Len(Compression!LongLen(l - MinMatch))
        <5>1. Repeats(block, c[2], f, l, o) /\ c[2] \in Nat /\ block \in Seq(Alphabet)
          BY <1>3, <2>2, <3>1
        <5>. QED
          BY <5>1, PartIs, SMTT(40)
      <4>. QED
        BY <3>2, <4>1
    <3>6. c[1] + Len(Part(block, c[2], f, l, o)) <= Len(packed)
      BY <3>1 DEF Holds
    <3>. QED
      BY <1>3, <2>2, <3>3, <3>4, <3>5, <3>6
  <2>. QED
    BY <2>3, <2>4
<1>6. unpacked = block
  <2>1. SUFFICES ASSUME <<pos, Len(unpacked)>> \in S PROVE FALSE
    BY <1>4
  <2>2. pos < Len(packed)
    BY <1>5, <2>1
  <2>. QED
    BY <1>1, <1>3, <2>2
<1>7. LzTypes'
  BY <1>1, <1>2 DEF LzTypes
<1>8. LzWriting'
  BY <1>2 DEF LzWriting
<1>9. LzReading'
  <2>1. Len(packed') <= Compression!Bound(Len(block')) /\ unpacked' = block' /\ pos' = Len(packed')
    BY <1>1, <1>2, <1>6 DEF LzReading
  <2>2. /\ e \in S /\ Parsed(block', packed', S, e)
        /\ e[2] <= Len(block') /\ Holds(packed', e[1], LastPart(block', e[2]))
        /\ e[1] + Len(LastPart(block', e[2])) = Len(packed')
    BY <1>2, <1>4
  <2>. QED
    BY <2>1, <2>2 DEF LzReading
<1>. QED
  BY <1>7, <1>8, <1>9 DEF LzInv

\* Nothing else changes what is compressed.
LEMMA LzSteps == LzInv /\ [Next]_vars => LzInv'
<1>. SUFFICES ASSUME LzInv, [Next]_vars PROVE LzInv'
  OBVIOUS
<1>1. CASE UNCHANGED lzVars
  <2>1. /\ block' = block /\ table' = table /\ ip' = ip /\ anchor' = anchor /\ packed' = packed
        /\ pos' = pos /\ unpacked' = unpacked /\ lzPhase' = lzPhase
    BY <1>1 DEF lzVars
  <2>2. LzTypes' /\ LzWriting' /\ LzReading'
    BY <2>1 DEF LzInv, LzTypes, LzWriting, LzReading
  <2>. QED
    BY <2>2 DEF LzInv
<1>2. CASE Compression!Next
  BY <1>2, LzSkips, LzCopies, LzFlushes, LzExpands, LzFinishes DEF Compression!Next
<1>. QED
  BY <1>1, <1>2 DEF Next, vars, InPool, InTiles, InCodec, InSealing, InFraming

LEMMA LzKept == FairSpec => []LzInv
<1>1. FairSpec => Init /\ [][Next]_vars
  BY PTL DEF FairSpec
<1>2. Init => LzInv
  BY LzStarts DEF Init
<1>. QED
  BY <1>1, <1>2, LzSteps, PTL

\* What the invariant says of rd_lz_decompress's answer, and of the room in dst.
LEMMA LzAnswers == LzInv => Compression!RoundTrip /\ Compression!FitsBound
<1>. SUFFICES ASSUME LzInv PROVE Compression!RoundTrip /\ Compression!FitsBound
  OBVIOUS
<1>1. Compression!RoundTrip
  BY DEF LzInv, LzTypes, LzReading, Compression!RoundTrip
<1>2. CASE lzPhase # "compress"
  <2>1. Len(packed) <= Compression!Bound(Len(block))
    BY <1>2 DEF LzInv, LzReading
  <2>. QED
    BY <1>1, <2>1 DEF Compression!FitsBound, Compression!BlockLen
<1>3. CASE lzPhase = "compress"
  <2>1. /\ anchor \in Nat /\ anchor <= Len(block) /\ block \in Seq(Alphabet) /\ packed \in Seq(Nat)
        /\ Len(packed) <= anchor + anchor \div TopByte
    BY <1>3 DEF LzInv, LzTypes, LzWriting
  <2>2. Len(packed) + Len(LastPart(block, anchor)) <= Compression!Bound(Len(block))
    BY <2>1, LastPartShort
  <2>3. Len(LastPart(block, anchor)) \in Nat /\ Len(packed) \in Nat
    BY <2>1, LastPartIs
  <2>4. Compression!Bound(Len(block)) \in Nat
    <3>1. Len(block) \in Nat
      BY <2>1
    <3>2. Len(block) \div TopByte \in Nat
      BY <3>1, LzFacts, Quotient
    <3>. QED
      BY <3>1, <3>2, LzFacts DEF Compression!Bound
  <2>. QED
    BY <1>1, <2>2, <2>3, <2>4 DEF Compression!FitsBound, Compression!BlockLen
<1>. QED
  BY <1>2, <1>3

\* rd_lz_compress checks the size of dst once, against rd_lz_bound (FitsBound): a
\* sequence never takes more than the bytes it stands for and what rd_lz_bound adds
\* for them.
THEOREM OutputFits == FairSpec => []Compression!FitsBound
<1>1. LzInv => Compression!FitsBound
  BY LzAnswers
<1>. QED
  BY <1>1, LzKept, PTL

-----------------------------------------------------------------------------
(* The encoding of a tile (TileCodec).                                     *)

\* f follows a rule from b on: each value is what the rule makes of the one before.
Follows(f, m, V, b, G) ==
  f \in [0..m -> V] /\ f[0] = b /\ \A n \in 1..m : f[n] = G[n][f[n - 1]]

\* What is defined by going from each number to the next exists.
LEMMA Recursion ==
  ASSUME NEW m \in Nat, NEW V, NEW b \in V, NEW G \in [1..m -> [V -> V]]
  PROVE  \E f : Follows(f, m, V, b, G)
<1>. DEFINE Good(f, k) == f[0] = b /\ \A n \in 1..k : f[n] = G[n][f[n - 1]]
            S == {k \in 0..m : \E f \in [0..k -> V] : Good(f, k)}
<1>1. 0 \in S
  <2>1. [k \in 0..0 |-> b] \in [0..0 -> V] /\ Good([k \in 0..0 |-> b], 0)
    OBVIOUS
  <2>. HIDE DEF Good
  <2>. QED
    BY <2>1
<1>2. ASSUME NEW k \in 1..m, k - 1 \in S PROVE k \in S
  <2>1. PICK g \in [0..(k - 1) -> V] : Good(g, k - 1)
    <3>. HIDE DEF Good
    <3>. QED
      BY <1>2
  <2>2. PICK v : v = G[k][g[k - 1]]
    OBVIOUS
  <2>3. v \in V
    <3>1. k - 1 \in 0..(k - 1)
      OBVIOUS
    <3>2. g[k - 1] \in V /\ G[k] \in [V -> V]
      BY <3>1
    <3>. QED
      BY <2>2, <3>2
  <2>4. PICK f : f = [n \in 0..k |-> IF n < k THEN g[n] ELSE v]
    OBVIOUS
  <2>5. f \in [0..k -> V]
    BY <2>3, <2>4
  <2>6. \A n \in 0..(k - 1) : f[n] = g[n]
    BY <2>4
  <2>7. f[k] = v
    BY <2>4
  <2>8. f[0] = b
    BY <2>1, <2>6
  <2>9. ASSUME NEW n \in 1..k PROVE f[n] = G[n][f[n - 1]]
    <3>1. n - 1 \in 0..(k - 1) /\ f[n - 1] = g[n - 1]
      BY <2>6
    <3>2. CASE n = k
      BY <2>2, <2>7, <3>1, <3>2
    <3>3. CASE n # k
      <4>1. n \in 1..(k - 1) /\ n \in 0..(k - 1)
        BY <3>3
      <4>. QED
        BY <2>1, <2>6, <3>1, <4>1
    <3>. QED
      BY <3>2, <3>3
  <2>10. Good(f, k)
    BY <2>8, <2>9
  <2>. HIDE DEF Good
  <2>. QED
    BY <2>5, <2>10
<1>3. m \in S
  <2>. HIDE DEF S
  <2>1. 0..m \subseteq S
    BY <1>1, <1>2, UpTo
  <2>. QED
    BY <2>1
<1>. QED
  BY <1>3 DEF Follows

LEMMA SizesAre ==
  /\ Width \in Nat \ {0} /\ Height \in Nat \ {0} /\ Bits \in Nat \ {0} /\ MaxPalette \in Nat \ {0}
  /\ Steps \subseteq Nat \ {0}
  /\ Pixel \subseteq (0..(Codec!Byte - 1)) \X (0..(Codec!Byte - 1)) \X (0..(Codec!Byte - 1))
  /\ \A np \in 2..MaxPalette : Bits % Codec!Bpp(np) = 0 /\ np <= Codec!Power[Codec!Bpp(np)]
BY CodecAssumed DEF Codec!CodecAssumption

\* Powers of two.
LEMMA PowerIs ==
  /\ Codec!Power \in [0..Bits -> Nat \ {0}]
  /\ Codec!Power[0] = 1
  /\ \A k \in 1..Bits : Codec!Power[k] = 2 * Codec!Power[k - 1]
<1>. DEFINE V == Nat \ {0}
            F(f) == f = [k \in 0..Bits |-> IF k = 0 THEN 1 ELSE 2 * f[k - 1]]
            G == [n \in 1..Bits |-> [x \in V |-> 2 * x]]
<1>1. \E f : F(f)
  <2>1. G \in [1..Bits -> [V -> V]]
    OBVIOUS
  <2>2. PICK f \in [0..Bits -> V] : f[0] = 1 /\ \A n \in 1..Bits : f[n] = G[n][f[n - 1]]
    <3>1. PICK one : one = 1
      OBVIOUS
    <3>2. one \in V /\ Bits \in Nat
      BY <3>1, SizesAre
    <3>. HIDE DEF G, V
    <3>3. \E f : Follows(f, Bits, V, one, G)
      BY <2>1, <3>2, Recursion
    <3>. QED
      BY <3>1, <3>3 DEF Follows
  <2>3. \A n \in 1..Bits : f[n] = 2 * f[n - 1]
    <3>1. ASSUME NEW n \in 1..Bits PROVE f[n] = 2 * f[n - 1]
      <4>1. f[n - 1] \in V
        BY SizesAre
      <4>2. G[n][f[n - 1]] = 2 * f[n - 1]
        BY <4>1
      <4>. QED
        BY <2>2, <4>2
    <3>. QED
      BY <3>1
  <2>4. \A k \in 0..Bits : f[k] = IF k = 0 THEN 1 ELSE 2 * f[k - 1]
    BY <2>2, <2>3, SizesAre
  <2>5. F(f)
    BY <2>4
  <2>. QED
    BY <2>5
<1>2. F(Codec!Power)
  <2>1. Codec!Power = CHOOSE f : F(f)
    BY DEF Codec!Power
  <2>. HIDE DEF F
  <2>. QED
    BY <1>1, <2>1
<1>3. PICK c : c = Codec!Power
  OBVIOUS
<1>4. c = [k \in 0..Bits |-> c[k]] /\ \A k \in 0..Bits : c[k] = IF k = 0 THEN 1 ELSE 2 * c[k - 1]
  BY <1>2, <1>3
<1>5. c[0] = 1 /\ \A k \in 1..Bits : c[k] = 2 * c[k - 1]
  <2>1. 0 \in 0..Bits
    BY SizesAre
  <2>2. ASSUME NEW k \in 1..Bits PROVE c[k] = 2 * c[k - 1]
    <3>1. k \in 0..Bits /\ k # 0
      OBVIOUS
    <3>. QED
      BY <1>4, <3>1
  <2>. QED
    BY <1>4, <2>1, <2>2
<1>6. \A k \in 0..Bits : c[k] \in V
  <2>. DEFINE S == {k \in 0..Bits : c[k] \in V}
  <2>1. 0 \in S
    BY <1>5, SizesAre
  <2>2. ASSUME NEW k \in 1..Bits, k - 1 \in S PROVE k \in S
    <3>1. c[k - 1] \in V /\ c[k] = 2 * c[k - 1]
      BY <1>5, <2>2
    <3>2. c[k] \in V
      BY <3>1
    <3>. QED
      BY <3>2
  <2>3. 0..Bits \subseteq S
    <3>. HIDE DEF S
    <3>. QED
      BY <2>1, <2>2, SizesAre, UpTo
  <2>. QED
    BY <2>3
<1>7. c \in [0..Bits -> V]
  BY <1>4, <1>6
<1>. QED
  BY <1>3, <1>5, <1>7

LEMMA PowerSum ==
  ASSUME NEW x \in Nat, NEW y \in Nat, x + y <= Bits
  PROVE  Codec!Power[x + y] = Codec!Power[x] * Codec!Power[y]
<1>1. PICK c, m : c = Codec!Power /\ m = Bits - x
  OBVIOUS
<1>2. m \in Nat /\ x + m = Bits /\ Bits \in Nat /\ y \in 0..m
  BY <1>1, SizesAre
<1>3. c \in [0..Bits -> Nat \ {0}] /\ c[0] = 1 /\ \A k \in 1..Bits : c[k] = 2 * c[k - 1]
  BY <1>1, PowerIs
<1>. DEFINE S == {k \in 0..m : c[x + k] = c[x] * c[k]}
<1>4. 0 \in S
  <2>1. x + 0 = x /\ x \in 0..Bits
    BY <1>2
  <2>2. c[x] \in Nat
    BY <1>3, <2>1
  <2>. QED
    BY <1>2, <1>3, <2>1, <2>2
<1>5. ASSUME NEW k \in 1..m, k - 1 \in S PROVE k \in S
  <2>1. c[x + (k - 1)] = c[x] * c[k - 1]
    BY <1>5
  <2>2. x + k \in 1..Bits /\ k \in 1..Bits /\ x + k - 1 = x + (k - 1) /\ x \in 0..Bits /\ k - 1 \in 0..Bits
    BY <1>2
  <2>3. c[x + k] = 2 * c[x + (k - 1)] /\ c[k] = 2 * c[k - 1]
    BY <1>3, <2>2
  <2>4. c[x] \in Nat /\ c[k - 1] \in Nat
    BY <1>3, <2>2
  <2>5. c[x + k] = c[x] * c[k]
    BY <2>1, <2>3, <2>4
  <2>. QED
    BY <2>5
<1>6. 0..m \subseteq S
  <2>. HIDE DEF S
  <2>. QED
    BY <1>2, <1>4, <1>5, UpTo
<1>. QED
  BY <1>1, <1>2, <1>6

Sample == 0..(Codec!Byte - 1)
Colour == Sample \X Sample \X Sample

LEMMA ByteIs == Codec!Byte \in Nat \ {0}
BY PowerIs, SizesAre DEF Codec!Byte

LEMMA CountIs == Codec!Count \in Nat \ {0}
<1>1. PICK w, h : w = Width /\ h = Height
  OBVIOUS
<1>2. w \in Nat \ {0} /\ h \in Nat \ {0}
  BY <1>1, SizesAre
<1>3. w * h \in Nat /\ w * h >= 1
  BY <1>2
<1>. QED
  BY <1>1, <1>3 DEF Codec!Count

\* What was subtracted from a byte and is added again gives the byte.
LEMMA Wraps ==
  ASSUME NEW x \in Sample, NEW y \in Int
  PROVE  (x - y) % Codec!Byte \in Sample /\ (((x - y) % Codec!Byte) + y) % Codec!Byte = x
<1>1. PICK d : d = Codec!Byte
  OBVIOUS
<1>2. d \in Nat \ {0} /\ x \in 0..(d - 1)
  BY <1>1, ByteIs DEF Sample
<1>3. PICK q, r : q = (x - y) \div d /\ r = (x - y) % d
  OBVIOUS
<1>4. q \in Int /\ r \in 0..(d - 1) /\ x - y = d * q + r
  BY <1>2, <1>3
<1>5. PICK p, t : p = (r + y) \div d /\ t = (r + y) % d
  OBVIOUS
<1>6. r \in Int /\ r + y \in Int
  BY <1>4
<1>7. p \in Int /\ t \in 0..(d - 1) /\ r + y = d * p + t
  BY <1>2, <1>5, <1>6
<1>8. x = d * (q + p) + t
  BY <1>2, <1>4, <1>7
<1>9. q + p = 0
  <2>1. PICK k : k = q + p
    OBVIOUS
  <2>2. k \in Int /\ x = d * k + t
    BY <1>4, <1>7, <1>8, <2>1
  <2>3. ~(k >= 1)
    BY <1>2, <1>7, <2>2
  <2>4. ~(k <= -1)
    BY <1>2, <1>7, <2>2
  <2>. QED
    BY <2>1, <2>2, <2>3, <2>4
<1>10. t = x
  BY <1>2, <1>7, <1>8, <1>9
<1>. QED
  BY <1>1, <1>3, <1>4, <1>5, <1>10 DEF Sample

\* A rounded sample is a multiple of the step and at most half a step away, unless
\* it is next to the largest byte.
LEMMA RoundedIs ==
  ASSUME step \in Steps, NEW v \in Sample
  PROVE  /\ Codec!Rounded(v) \in Sample /\ Codec!Rounded(v) % step = 0
         /\ LET d == Codec!Rounded(v) - v
            IN 2 * (IF d < 0 THEN -d ELSE d) <= step \/ v + step > Codec!Byte
<1>1. PICK b, k, h : b = Codec!Byte /\ k = step /\ h = (step - 1) \div 2
  OBVIOUS
<1>2. b \in Nat \ {0} /\ k \in Nat \ {0} /\ v \in 0..(b - 1)
  BY <1>1, SizesAre, ByteIs DEF Sample
<1>3. h \in Nat /\ 2 * h <= k - 1 /\ k - 2 <= 2 * h
  BY <1>1, <1>2
<1>4. PICK m : m = Codec!Min({v + h, b - 1})
  OBVIOUS
<1>5. m = (IF v + h <= b - 1 THEN v + h ELSE b - 1) /\ m \in 0..(b - 1)
  <2>1. v + h \in Int /\ b - 1 \in Int
    BY <1>2, <1>3
  <2>2. m = IF v + h <= b - 1 THEN v + h ELSE b - 1
    BY <1>4, <2>1, OfTwo
  <2>. QED
    BY <1>2, <1>3, <2>2
<1>6. PICK q, r, s : q = m \div k /\ r = m % k /\ s = q * k
  OBVIOUS
<1>7. q \in Nat /\ r \in 0..(k - 1) /\ m = k * q + r
  <2>1. m \in Nat
    BY <1>5
  <2>. QED
    BY <1>2, <1>6, <2>1, Quotient
<1>8. s \in Nat /\ m = s + r /\ s <= b - 1
  <2>1. s \in Nat /\ s = k * q
    BY <1>2, <1>6, <1>7
  <2>. QED
    BY <1>2, <1>5, <1>7, <2>1
<1>9. Codec!Rounded(v) = s
  BY <1>1, <1>4, <1>6 DEF Codec!Rounded
<1>10. s % k = 0
  <2>1. 0 \in 0..(k - 1)
    BY <1>2
  <2>2. (q * k + 0) % k = 0
    BY <1>2, <1>7, <2>1, Recomposed
  <2>3. q * k + 0 = s
    BY <1>6, <1>8
  <2>. QED
    BY <2>2, <2>3
<1>11. CASE v + h <= b - 1
  <2>1. m = v + h
    BY <1>5, <1>11
  <2>2. 2 * (s - v) <= k /\ 2 * (v - s) <= k
    BY <1>2, <1>3, <1>7, <1>8, <2>1
  <2>3. 2 * (IF s - v < 0 THEN -(s - v) ELSE s - v) <= k
    BY <1>2, <1>8, <2>2
  <2>. QED
    BY <1>1, <1>2, <1>8, <1>9, <1>10, <2>3 DEF Sample
<1>12. CASE ~(v + h <= b - 1)
  <2>1. v + k > b
    BY <1>2, <1>3, <1>12
  <2>. QED
    BY <1>1, <1>2, <1>8, <1>9, <1>10, <2>1 DEF Sample
<1>. QED
  BY <1>11, <1>12

\* The rounded tile is made of colours.
LEMMA PxIs ==
  ASSUME tile \in [1..Codec!Count -> Pixel], step \in Steps
  PROVE  /\ Codec!Px \in [1..Codec!Count -> Colour]
         /\ \A i \in 1..Codec!Count, ch \in 1..3 : tile[i][ch] \in Sample /\ Codec!Px[i][ch] = Codec!Rounded(tile[i][ch])
<1>1. ASSUME NEW i \in 1..Codec!Count
      PROVE  /\ Codec!Px[i] \in Colour
             /\ \A ch \in 1..3 : tile[i][ch] \in Sample /\ Codec!Px[i][ch] = Codec!Rounded(tile[i][ch])
  <2>1. tile[i] \in Sample \X Sample \X Sample
    BY SizesAre DEF Sample
  <2>2. tile[i][1] \in Sample /\ tile[i][2] \in Sample /\ tile[i][3] \in Sample
    BY <2>1
  <2>3. Codec!Rounded(tile[i][1]) \in Sample /\ Codec!Rounded(tile[i][2]) \in Sample /\ Codec!Rounded(tile[i][3]) \in Sample
    BY <2>2, RoundedIs
  <2>4. Codec!Px[i] = <<Codec!Rounded(tile[i][1]), Codec!Rounded(tile[i][2]), Codec!Rounded(tile[i][3])>>
    BY DEF Codec!Px
  <2>5. Codec!Px[i] \in Colour
    BY <2>3, <2>4 DEF Colour
  <2>6. ASSUME NEW ch \in 1..3 PROVE tile[i][ch] \in Sample /\ Codec!Px[i][ch] = Codec!Rounded(tile[i][ch])
    <3>1. ch = 1 \/ ch = 2 \/ ch = 3
      OBVIOUS
    <3>2. CASE ch = 1
      BY <2>2, <2>4, <3>2
    <3>3. CASE ch = 2
      BY <2>2, <2>4, <3>3
    <3>4. CASE ch = 3
      BY <2>2, <2>4, <3>4
    <3>. QED
      BY <3>1, <3>2, <3>3, <3>4
  <2>. QED
    BY <2>5, <2>6
<1>2. Codec!Px = [i \in 1..Codec!Count |-> Codec!Px[i]]
  BY DEF Codec!Px
<1>3. Codec!Px \in [1..Codec!Count -> Colour]
  BY <1>1, <1>2
<1>. QED
  BY <1>1, <1>3

\* A colour is got back from its green and its differences.
LEMMA CorrelatedBack ==
  ASSUME NEW p \in Colour
  PROVE  Codec!Decorrelated(p) \in Colour /\ Codec!Correlated(Codec!Decorrelated(p)) = p
<1>1. p = <<p[1], p[2], p[3]>> /\ p[1] \in Sample /\ p[2] \in Sample /\ p[3] \in Sample
  BY DEF Colour
<1>2. p[2] \in Int
  BY <1>1 DEF Sample
<1>3. PICK x, z : x = (p[1] - p[2]) % Codec!Byte /\ z = (p[3] - p[2]) % Codec!Byte
  OBVIOUS
<1>4. x \in Sample /\ (x + p[2]) % Codec!Byte = p[1]
  BY <1>1, <1>2, <1>3, Wraps
<1>5. z \in Sample /\ (z + p[2]) % Codec!Byte = p[3]
  BY <1>1, <1>2, <1>3, Wraps
<1>6. Codec!Decorrelated(p) = <<p[2], x, z>>
  BY <1>3 DEF Codec!Decorrelated
<1>7. Codec!Correlated(<<p[2], x, z>>) = <<(x + p[2]) % Codec!Byte, p[2], (z + p[2]) % Codec!Byte>>
  BY DEF Codec!Correlated
<1>8. <<p[2], x, z>> \in Colour
  BY <1>1, <1>4, <1>5 DEF Colour
<1>. QED
  BY <1>1, <1>4, <1>5, <1>6, <1>7, <1>8

\* Row and column of a pixel.
LEMMA Places ==
  ASSUME NEW i \in 1..Codec!Count
  PROVE  /\ Codec!X(i) \in 0..(Width - 1) /\ Codec!Y(i) \in 0..(Height - 1)
         /\ i = Codec!Y(i) * Width + Codec!X(i) + 1
<1>1. PICK w, h, x, y, n : w = Width /\ h = Height /\ x = Codec!X(i) /\ y = Codec!Y(i) /\ n = i - 1
  OBVIOUS
<1>2. w \in Nat \ {0} /\ h \in Nat \ {0} /\ Codec!Count = w * h /\ w * h \in Nat
  <2>1. w \in Nat \ {0} /\ h \in Nat \ {0}
    BY <1>1, SizesAre
  <2>. QED
    BY <1>1, <2>1 DEF Codec!Count
<1>3. n \in Nat /\ n < w * h /\ i = n + 1
  BY <1>1, <1>2
<1>4. x = n % w /\ y = n \div w
  BY <1>1 DEF Codec!X, Codec!Y
<1>5. y \in Nat /\ x \in 0..(w - 1) /\ n = w * y + x
  BY <1>2, <1>3, <1>4, Quotient
<1>6. y < h
  <2>1. w * y \in Nat
    BY <1>2, <1>5
  <2>2. w * y < w * h
    BY <1>2, <1>3, <1>5, <2>1
  <2>. QED
    BY <1>2, <1>5, <2>2
<1>7. i = y * w + x + 1
  <2>1. w * y = y * w /\ w * y \in Nat
    BY <1>2, <1>5
  <2>. QED
    BY <1>3, <1>5, <2>1
<1>. QED
  BY <1>1, <1>2, <1>5, <1>6, <1>7

\* What a prediction reads lies before.
LEMMA Neighbours ==
  ASSUME NEW i \in 1..Codec!Count
  PROVE  /\ Codec!X(i) > 0 => i - 1 \in 1..(i - 1)
         /\ Codec!Y(i) > 0 => i - Width \in 1..(i - 1)
         /\ Codec!X(i) > 0 /\ Codec!Y(i) > 0 => i - Width - 1 \in 1..(i - 1)
<1>1. PICK w, x, y, p : w = Width /\ x = Codec!X(i) /\ y = Codec!Y(i) /\ p = y * w
  OBVIOUS
<1>2. w \in Nat \ {0} /\ x \in Nat /\ y \in Nat /\ x < w /\ i = y * w + x + 1
  BY <1>1, SizesAre, Places
<1>3. p \in Nat /\ i = p + x + 1
  BY <1>1, <1>2
<1>4. y > 0 => w <= p
  BY <1>1, <1>2
<1>5. x > 0 => i - 1 \in 1..(i - 1)
  BY <1>2, <1>3
<1>6. y > 0 => i - w \in 1..(i - 1)
  BY <1>2, <1>3, <1>4
<1>7. x > 0 /\ y > 0 => i - w - 1 \in 1..(i - 1)
  BY <1>2, <1>3, <1>4
<1>. QED
  BY <1>1, <1>5, <1>6, <1>7

\* It is a number, and the same where all that lies before is.
LEMMA PredictedIs ==
  ASSUME NEW i \in 1..Codec!Count, NEW ch, NEW t, \A k \in 1..(i - 1) : t[k][ch] \in Int
  PROVE  Codec!Predicted(t, i, ch) \in Int
<1>1. PICK a, b, c :
        /\ a = (IF Codec!X(i) > 0 THEN t[i - 1][ch] ELSE IF Codec!Y(i) > 0 THEN t[i - Width][ch] ELSE 0)
        /\ b = (IF Codec!Y(i) > 0 THEN t[i - Width][ch] ELSE a)
        /\ c = (IF Codec!X(i) > 0 /\ Codec!Y(i) > 0 THEN t[i - Width - 1][ch] ELSE b)
  OBVIOUS
<1>2. /\ Codec!X(i) > 0 => t[i - 1][ch] \in Int
      /\ Codec!Y(i) > 0 => t[i - Width][ch] \in Int
      /\ Codec!X(i) > 0 /\ Codec!Y(i) > 0 => t[i - Width - 1][ch] \in Int
  BY Neighbours
<1>3. a \in Int
  BY <1>1, <1>2
<1>4. b \in Int
  BY <1>1, <1>2, <1>3
<1>5. c \in Int
  BY <1>1, <1>2, <1>4
<1>6. Codec!Predicted(t, i, ch) = Codec!Med(a, b, c)
  BY <1>1 DEF Codec!Predicted
<1>7. Codec!Med(a, b, c) \in Int
  <2>1. Codec!Max({a, b}) \in Int /\ Codec!Min({a, b}) \in Int
    BY <1>3, <1>4, OfTwo
  <2>2. a + b - c \in Int
    BY <1>3, <1>4, <1>5
  <2>. QED
    BY <2>1, <2>2 DEF Codec!Med
<1>. QED
  BY <1>6, <1>7

LEMMA PredictedSame ==
  ASSUME NEW i \in 1..Codec!Count, NEW ch, NEW s, NEW t, \A k \in 1..(i - 1) : s[k] = t[k]
  PROVE  Codec!Predicted(s, i, ch) = Codec!Predicted(t, i, ch)
<1>1. /\ Codec!X(i) > 0 => s[i - 1] = t[i - 1]
      /\ Codec!Y(i) > 0 => s[i - Width] = t[i - Width]
      /\ Codec!X(i) > 0 /\ Codec!Y(i) > 0 => s[i - Width - 1] = t[i - Width - 1]
  BY Neighbours
<1>2. (IF Codec!X(i) > 0 THEN s[i - 1][ch] ELSE IF Codec!Y(i) > 0 THEN s[i - Width][ch] ELSE 0)
        = (IF Codec!X(i) > 0 THEN t[i - 1][ch] ELSE IF Codec!Y(i) > 0 THEN t[i - Width][ch] ELSE 0)
  BY <1>1
<1>3. Codec!Y(i) > 0 => s[i - Width][ch] = t[i - Width][ch]
  BY <1>1
<1>4. Codec!X(i) > 0 /\ Codec!Y(i) > 0 => s[i - Width - 1][ch] = t[i - Width - 1][ch]
  BY <1>1
<1>. QED
  BY <1>2, <1>3, <1>4 DEF Codec!Predicted

\* A triple is a function of its channels.
LEMMA Triple ==
  ASSUME NEW p \in Colour
  PROVE  p = [ch \in 1..3 |-> p[ch]] /\ \A ch \in 1..3 : p[ch] \in Sample
<1>1. p = <<p[1], p[2], p[3]>> /\ p[1] \in Sample /\ p[2] \in Sample /\ p[3] \in Sample
  BY DEF Colour
<1>2. \A ch \in 1..3 : ch = 1 \/ ch = 2 \/ ch = 3
  OBVIOUS
<1>3. \A ch \in 1..3 : p[ch] \in Sample
  BY <1>1, <1>2
<1>4. p = [ch \in 1..3 |-> p[ch]]
  <2>1. DOMAIN p = 1..3
    BY <1>1
  <2>2. p = [ch \in DOMAIN p |-> p[ch]]
    BY <1>1
  <2>. QED
    BY <2>1, <2>2
<1>. QED
  BY <1>3, <1>4

\* Decoding in place, pixel by pixel, restores what was decorrelated: up to a pixel
\* all is restored, after it nothing is.
LEMMA RestoredIs ==
  ASSUME NEW px \in [1..Codec!Count -> Colour]
  PROVE  Codec!Restored(Codec!Residues(px)) = px
<1>1. PICK m, res, dec :
        /\ m = Codec!Count /\ res = Codec!Residues(px)
        /\ dec = [i \in 1..Codec!Count |-> Codec!Decorrelated(px[i])]
  OBVIOUS
<1>2. m \in Nat \ {0}
  BY <1>1, CountIs
<1>3. \A i \in 1..m : dec[i] \in Colour /\ Codec!Correlated(dec[i]) = px[i]
  BY <1>1, CorrelatedBack
<1>4. res = [i \in 1..m |-> [ch \in 1..3 |-> (dec[i][ch] - Codec!Predicted(dec, i, ch)) % Codec!Byte]]
  BY <1>1 DEF Codec!Residues
<1>. DEFINE T == [n \in 0..m |-> [i \in 1..m |-> IF i <= n THEN dec[i] ELSE res[i]]]
            E(s, n) == [s EXCEPT ![n] = [ch \in 1..3 |-> (s[n][ch] + Codec!Predicted(s, n, ch)) % Codec!Byte]]
            F(f) == f = [n \in 0..m |-> IF n = 0 THEN res ELSE E(f[n - 1], n)]
<1>5. ASSUME NEW n \in 1..m PROVE E(T[n - 1], n) = T[n]
  <2>1. PICK s : s = T[n - 1]
    OBVIOUS
  <2>2. n - 1 \in 0..m /\ n \in 0..m
    BY <1>2
  <2>3. s = [i \in 1..m |-> IF i <= n - 1 THEN dec[i] ELSE res[i]]
    BY <2>1, <2>2
  <2>4. s[n] = res[n]
    BY <1>2, <2>3
  <2>5. \A k \in 1..(n - 1) : s[k] = dec[k]
    BY <1>2, <2>3
  <2>6. ASSUME NEW ch \in 1..3
        PROVE  (s[n][ch] + Codec!Predicted(s, n, ch)) % Codec!Byte = dec[n][ch]
    <3>1. Codec!Predicted(s, n, ch) = Codec!Predicted(dec, n, ch)
      BY <1>1, <2>5, PredictedSame, ZenonT(40)
    <3>2. \A k \in 1..m : dec[k][ch] \in Sample
      BY <1>3, Triple
    <3>3. Codec!Predicted(dec, n, ch) \in Int
      <4>1. \A k \in 1..(n - 1) : dec[k][ch] \in Int
        <5>1. \A k \in 1..(n - 1) : k \in 1..m
          BY <1>2
        <5>. QED
          BY <3>2, <5>1 DEF Sample
      <4>. QED
        BY <1>1, <4>1, PredictedIs
    <3>4. res[n][ch] = (dec[n][ch] - Codec!Predicted(dec, n, ch)) % Codec!Byte
      BY <1>4
    <3>. QED
      BY <2>4, <3>1, <3>2, <3>3, <3>4, Wraps
  <2>7. [ch \in 1..3 |-> (s[n][ch] + Codec!Predicted(s, n, ch)) % Codec!Byte] = dec[n]
    <3>1. dec[n] = [ch \in 1..3 |-> dec[n][ch]]
      BY <1>3, Triple
    <3>. QED
      BY <2>6, <3>1
  <2>8. E(s, n) = [s EXCEPT ![n] = dec[n]]
    BY <2>7
  <2>9. T[n] = [i \in 1..m |-> IF i <= n THEN dec[i] ELSE res[i]]
    BY <2>2
  <2>10. [s EXCEPT ![n] = dec[n]] = [i \in 1..m |-> IF i <= n THEN dec[i] ELSE res[i]]
    <3>1. [s EXCEPT ![n] = dec[n]] = [i \in 1..m |-> IF i = n THEN dec[n] ELSE s[i]]
      BY <2>3
    <3>2. ASSUME NEW i \in 1..m
          PROVE  (IF i = n THEN dec[n] ELSE s[i]) = IF i <= n THEN dec[i] ELSE res[i]
      <4>1. s[i] = IF i <= n - 1 THEN dec[i] ELSE res[i]
        BY <2>3
      <4>. QED
        BY <1>2, <4>1
    <3>. QED
      BY <3>1, <3>2
  <2>. QED
    BY <2>1, <2>8, <2>9, <2>10
<1>6. F(T)
  <2>1. T[0] = res
    <3>1. T[0] = [i \in 1..m |-> IF i <= 0 THEN dec[i] ELSE res[i]]
      BY <1>2
    <3>2. \A i \in 1..m : ~(i <= 0)
      BY <1>2
    <3>3. T[0] = [i \in 1..m |-> res[i]]
      BY <3>1, <3>2
    <3>4. res = [i \in 1..m |-> res[i]]
      BY <1>4
    <3>. QED
      BY <3>3, <3>4
  <2>2. T = [n \in 0..m |-> T[n]]
    OBVIOUS
  <2>3. ASSUME NEW n \in 0..m PROVE T[n] = IF n = 0 THEN res ELSE E(T[n - 1], n)
    <3>1. CASE n = 0
      <4>. HIDE DEF E, T
      <4>. QED
        BY <2>1, <3>1
    <3>2. CASE n # 0
      <4>1. n \in 1..m
        BY <1>2, <3>2
      <4>. HIDE DEF E, T
      <4>. QED
        BY <1>5, <3>2, <4>1
    <3>. QED
      BY <3>1, <3>2
  <2>. HIDE DEF T, E
  <2>. QED
    BY <2>2, <2>3
<1>7. PICK c : c = CHOOSE f : F(f)
  OBVIOUS
<1>8. F(c)
  <2>. HIDE DEF F, T
  <2>. QED
    BY <1>6, <1>7
<1>9. 0..m \subseteq {n \in 0..m : c[n] = T[n]}
  <2>. HIDE DEF T, E
  <2>0. \A n \in 0..m : c[n] = IF n = 0 THEN res ELSE E(c[n - 1], n)
    BY <1>8
  <2>00. \A n \in 0..m : T[n] = IF n = 0 THEN res ELSE E(T[n - 1], n)
    BY <1>6
  <2>. HIDE DEF F
  <2>. DEFINE S == {n \in 0..m : c[n] = T[n]}
  <2>1. 0 \in S
    <3>1. 0 \in 0..m
      BY <1>2
    <3>. QED
      BY <2>0, <2>00, <3>1
  <2>2. ASSUME NEW n \in 1..m, n - 1 \in S PROVE n \in S
    <3>1. n \in 0..m /\ n # 0 /\ c[n - 1] = T[n - 1]
      BY <1>2, <2>2
    <3>. QED
      BY <2>0, <2>00, <3>1
  <2>3. 0..m \subseteq S
    <3>. HIDE DEF S
    <3>. QED
      BY <1>2, <2>1, <2>2, UpTo
  <2>. QED
    BY <2>3
<1>10. c[m] = T[m]
  <2>1. m \in 0..m
    BY <1>2
  <2>. HIDE DEF T
  <2>. QED
    BY <1>9, <2>1
<1>11. \A i \in 1..m : T[m][i] = dec[i]
  BY <1>2
<1>12. Codec!Restored(res) = [i \in 1..m |-> Codec!Correlated(c[m][i])]
  <2>1. Codec!Restored(res) = [i \in 1..m |-> Codec!Correlated((CHOOSE f : F(f))[m][i])]
    BY <1>1 DEF Codec!Restored
  <2>. HIDE DEF F
  <2>. QED
    BY <1>7, <2>1
<1>. HIDE DEF T, E, F
<1>13. \A i \in 1..m : Codec!Correlated(c[m][i]) = px[i]
  BY <1>3, <1>10, <1>11
<1>14. px = [i \in 1..m |-> px[i]]
  BY <1>1
<1>. QED
  BY <1>1, <1>12, <1>13, <1>14

\* The palette has every colour.
LEMMA PaletteIs ==
  ASSUME NEW px \in [1..Codec!Count -> Colour]
  PROVE  /\ Codec!Palette(px) \in Seq(Colour) /\ Len(Codec!Palette(px)) \in Nat \ {0}
         /\ \A i \in 1..Codec!Count :
              /\ Codec!IndexIn(Codec!Palette(px), px[i]) \in 1..Len(Codec!Palette(px))
              /\ Codec!Palette(px)[Codec!IndexIn(Codec!Palette(px), px[i])] = px[i]
<1>1. PICK m : m = Codec!Count
  OBVIOUS
<1>2. m \in Nat \ {0} /\ \A i \in 1..m : px[i] \in Colour
  BY <1>1, CountIs
<1>. DEFINE V == Seq(Colour)
            E(p, n) == IF \E k \in DOMAIN p : p[k] = px[n] THEN p ELSE Append(p, px[n])
            F(f) == f = [n \in 0..m |-> IF n = 0 THEN <<>> ELSE E(f[n - 1], n)]
            G == [n \in 1..m |-> [p \in V |-> E(p, n)]]
            Has(p, n) == \A i \in 1..n : \E k \in DOMAIN p : p[k] = px[i]
<1>3. \A n \in 1..m : \A p \in V : E(p, n) \in V
  BY <1>2, AppendProperties
<1>4. \E f : F(f)
  <2>1. G \in [1..m -> [V -> V]]
    <3>. HIDE DEF E, V
    <3>. QED
      BY <1>3
  <2>2. <<>> \in V
    OBVIOUS
  <2>3. \E f : Follows(f, m, V, <<>>, G)
    <3>. HIDE DEF G, V
    <3>. QED
      BY <1>2, <2>1, <2>2, Recursion
  <2>4. PICK f : Follows(f, m, V, <<>>, G)
    <3>. HIDE DEF G, V
    <3>. QED
      BY <2>3
  <2>5. f \in [0..m -> V] /\ f[0] = <<>> /\ \A n \in 1..m : f[n] = G[n][f[n - 1]]
    <3>. HIDE DEF G, V
    <3>. QED
      BY <2>4 DEF Follows
  <2>. HIDE DEF V, E
  <2>6. ASSUME NEW n \in 1..m PROVE f[n] = E(f[n - 1], n)
    <3>1. n - 1 \in 0..m
      BY <1>2
    <3>2. f[n - 1] \in V
      BY <2>5, <3>1
    <3>3. G[n][f[n - 1]] = E(f[n - 1], n)
      BY <3>2
    <3>. QED
      BY <2>5, <3>3
  <2>7. ASSUME NEW n \in 0..m PROVE f[n] = IF n = 0 THEN <<>> ELSE E(f[n - 1], n)
    <3>1. n = 0 \/ n \in 1..m
      BY <1>2
    <3>. QED
      BY <2>5, <2>6, <3>1
  <2>8. f = [n \in 0..m |-> f[n]]
    BY <2>5
  <2>9. F(f)
    BY <2>7, <2>8
  <2>. HIDE DEF F
  <2>. QED
    BY <2>9
<1>5. PICK c : c = CHOOSE f : F(f)
  OBVIOUS
<1>6. F(c)
  <2>. HIDE DEF F
  <2>. QED
    BY <1>4, <1>5
<1>7. Codec!Palette(px) = c[m]
  <2>1. Codec!Palette(px) = (CHOOSE f : F(f))[m]
    BY <1>1 DEF Codec!Palette
  <2>. HIDE DEF F
  <2>. QED
    BY <1>5, <2>1
<1>8. \A n \in 0..m : c[n] = IF n = 0 THEN <<>> ELSE E(c[n - 1], n)
  <2>. HIDE DEF E
  <2>. QED
    BY <1>6
<1>9. c[m] \in V /\ Has(c[m], m)
  <2>. DEFINE S == {n \in 0..m : c[n] \in V /\ Has(c[n], n)}
  <2>1. 0 \in S
    <3>1. 0 \in 0..m /\ c[0] = <<>>
      BY <1>2, <1>8
    <3>2. <<>> \in V /\ Has(<<>>, 0)
      OBVIOUS
    <3>. HIDE DEF V, Has
    <3>. QED
      BY <3>1, <3>2
  <2>2. ASSUME NEW n \in 1..m, n - 1 \in S PROVE n \in S
    <3>1. PICK p, r : p = c[n - 1] /\ r = c[n]
      OBVIOUS
    <3>2. p \in V /\ Has(p, n - 1)
      <4>. HIDE DEF V, Has
      <4>. QED
        BY <2>2, <3>1
    <3>3. n \in 0..m /\ r = E(p, n)
      <4>1. n \in 0..m /\ n # 0
        BY <1>2
      <4>. HIDE DEF E
      <4>. QED
        BY <1>8, <3>1, <4>1
    <3>4. r \in V
      <4>. HIDE DEF V, E
      <4>. QED
        BY <1>3, <3>2, <3>3
    <3>5. (\A k \in DOMAIN p : k \in DOMAIN r /\ r[k] = p[k]) /\ \E k \in DOMAIN r : r[k] = px[n]
      <4>1. CASE \E k \in DOMAIN p : p[k] = px[n]
        <5>1. r = p
          BY <3>3, <4>1
        <5>. QED
          BY <4>1, <5>1
      <4>2. CASE ~\E k \in DOMAIN p : p[k] = px[n]
        <5>1. r = Append(p, px[n]) /\ px[n] \in Colour
          BY <1>2, <3>3, <4>2
        <5>2. /\ Len(r) = Len(p) + 1 /\ r \in Seq(Colour) /\ r[Len(p) + 1] = px[n]
              /\ \A k \in 1..Len(p) : r[k] = p[k]
          BY <3>2, <5>1, AppendProperties
        <5>3. DOMAIN r = 1..(Len(p) + 1) /\ DOMAIN p = 1..Len(p) /\ Len(p) \in Nat
          BY <3>2, <5>2
        <5>. QED
          BY <5>2, <5>3
      <4>. QED
        BY <4>1, <4>2
    <3>6. ASSUME NEW i \in 1..n PROVE \E k \in DOMAIN r : r[k] = px[i]
      <4>1. CASE i = n
        BY <3>5, <4>1
      <4>2. CASE i # n
        <5>1. i \in 1..(n - 1)
          BY <4>2
        <5>. QED
          BY <3>2, <3>5, <5>1
      <4>. QED
        BY <4>1, <4>2
    <3>7. Has(r, n)
      BY <3>6
    <3>. HIDE DEF V, Has
    <3>. QED
      BY <3>1, <3>3, <3>4, <3>7
  <2>3. 0..m \subseteq S
    <3>. HIDE DEF S
    <3>. QED
      BY <1>2, <2>1, <2>2, UpTo
  <2>4. m \in S
    BY <1>2, <2>3
  <2>. HIDE DEF V, Has
  <2>. QED
    BY <2>4
<1>10. PICK pal : pal = c[m]
  OBVIOUS
<1>11. pal \in Seq(Colour) /\ DOMAIN pal = 1..Len(pal) /\ Len(pal) \in Nat /\ \A i \in 1..m : \E k \in DOMAIN pal : pal[k] = px[i]
  BY <1>9, <1>10
<1>. HIDE DEF V, E, F, G, Has
<1>12. ASSUME NEW i \in 1..m
       PROVE  Codec!IndexIn(pal, px[i]) \in 1..Len(pal) /\ pal[Codec!IndexIn(pal, px[i])] = px[i]
  BY <1>11 DEF Codec!IndexIn
<1>13. Len(pal) # 0
  <2>1. 1 \in 1..m
    BY <1>2
  <2>2. PICK k \in 1..Len(pal) : TRUE
    BY <1>12, <2>1
  <2>. QED
    BY <1>11, <2>2
<1>. QED
  BY <1>1, <1>7, <1>10, <1>11, <1>12, <1>13

-----------------------------------------------------------------------------
(* Indices put into bytes.                                                 *)

\* The byte a pixel's index is put in, its place there from the left, and its weight.
InByte(w, i) == Codec!ByteOf(w, Codec!X(i), Codec!Y(i))
Slot(w, i) == Codec!X(i) % Codec!PerByte(w)
Scale(w, i) == Codec!Weight(w, Codec!X(i))

\* A byte is filled by whole indices.
LEMMA Fills ==
  ASSUME NEW w \in Nat \ {0}, Bits % w = 0
  PROVE  Codec!PerByte(w) \in Nat \ {0} /\ Bits = w * Codec!PerByte(w) /\ w <= Bits
<1>1. PICK p : p = Codec!PerByte(w)
  OBVIOUS
<1>2. Bits \in Nat \ {0} /\ p = Bits \div w
  BY <1>1, SizesAre DEF Codec!PerByte
<1>3. p \in Nat /\ Bits = w * p + (Bits % w)
  BY <1>2, Quotient
<1>4. Bits = w * p
  <2>1. w * p \in Nat
    BY <1>3
  <2>. QED
    BY <1>3, <2>1
<1>5. p # 0
  BY <1>2, <1>4
<1>6. w <= w * p
  BY <1>3, <1>5
<1>. QED
  BY <1>1, <1>3, <1>4, <1>5, <1>6

\* Every pixel has a byte of its row.
LEMMA InByteIs ==
  ASSUME NEW w \in Nat \ {0}, Bits % w = 0, NEW i \in 1..Codec!Count
  PROVE  /\ Codec!RowBytes(w) \in Nat \ {0}
         /\ Codec!X(i) \div Codec!PerByte(w) \in 0..(Codec!RowBytes(w) - 1)
         /\ InByte(w, i) \in 1..(Codec!RowBytes(w) * Height)
<1>1. PICK p, r, x, y, q, b, v, h :
        /\ p = Codec!PerByte(w) /\ r = Codec!RowBytes(w) /\ x = Codec!X(i) /\ y = Codec!Y(i)
        /\ q = x \div p /\ b = Bits /\ v = Width /\ h = Height
  OBVIOUS
<1>2. p \in Nat \ {0} /\ b = w * p /\ b \in Nat \ {0} /\ v \in Nat \ {0} /\ h \in Nat \ {0}
  BY <1>1, Fills, SizesAre
<1>3. x \in 0..(v - 1) /\ y \in 0..(h - 1)
  BY <1>1, Places
<1>4. x \in Nat /\ y \in Nat /\ x + 1 <= v /\ y + 1 <= h
  BY <1>2, <1>3
<1>5. q \in Nat /\ p * q <= x
  <2>1. q \in Nat /\ x % p \in 0..(p - 1) /\ x = p * q + (x % p)
    <3>1. x \div p \in Nat /\ x % p \in 0..(p - 1) /\ x = p * (x \div p) + (x % p)
      BY <1>2, <1>4, Quotient
    <3>. QED
      BY <1>1, <3>1
  <2>2. p * q \in Nat
    BY <1>2, <2>1
  <2>. QED
    BY <2>1, <2>2
<1>6. PICK k, l : k = v * w /\ l = x * w
  OBVIOUS
<1>7. k \in Nat /\ l \in Nat /\ l + w <= k
  <2>1. (x + 1) * w <= v * w
    BY <1>2, <1>4
  <2>2. (x + 1) * w = x * w + w
    BY <1>4
  <2>. QED
    BY <1>2, <1>4, <1>6, <2>1, <2>2
<1>8. b * q <= l
  <2>1. w * (p * q) <= w * x
    BY <1>2, <1>4, <1>5
  <2>2. w * (p * q) = b * q
    BY <1>2, <1>5
  <2>. QED
    BY <1>4, <1>6, <2>1, <2>2
<1>9. b * (q + 1) <= k + b - 1
  <2>1. b * (q + 1) = b * q + b /\ b * q \in Nat
    BY <1>2, <1>5
  <2>. QED
    BY <1>2, <1>7, <1>8, <2>1
<1>10. r = (k + b - 1) \div b /\ k + b - 1 \in Nat
  BY <1>1, <1>2, <1>6, <1>7 DEF Codec!RowBytes
<1>11. q + 1 <= r /\ r \in Nat
  <2>1. PICK n : n = k + b - 1
    OBVIOUS
  <2>2. n \in Nat /\ r = n \div b
    BY <1>10, <2>1
  <2>3. r \in Nat /\ n % b \in 0..(b - 1) /\ n = b * r + (n % b)
    <3>1. n \div b \in Nat /\ n % b \in 0..(b - 1) /\ n = b * (n \div b) + (n % b)
      BY <1>2, <2>2, Quotient
    <3>. QED
      BY <2>2, <3>1
  <2>4. b * (q + 1) < b * (r + 1)
    <3>1. b * (r + 1) = b * r + b /\ b * r \in Nat
      BY <1>2, <2>3
    <3>. QED
      BY <1>2, <1>5, <1>9, <2>1, <2>3, <3>1
  <2>5. q + 1 < r + 1
    BY <1>2, <1>5, <2>3, <2>4
  <2>. QED
    BY <1>5, <2>3, <2>5
<1>12. y * r + q + 1 \in 1..(r * h)
  <2>1. (y + 1) * r <= h * r
    BY <1>2, <1>4, <1>11
  <2>2. (y + 1) * r = y * r + r /\ y * r \in Nat /\ h * r = r * h
    BY <1>2, <1>4, <1>11
  <2>3. PICK yr, hr : yr = y * r /\ hr = r * h
    OBVIOUS
  <2>4. yr \in Nat /\ yr + r <= hr
    BY <2>1, <2>2, <2>3
  <2>5. hr \in Nat
    BY <1>2, <1>11, <2>3
  <2>6. yr + q + 1 \in 1..hr
    BY <1>5, <1>11, <2>4, <2>5
  <2>. QED
    BY <2>3, <2>6
<1>13. InByte(w, i) = y * r + q + 1
  BY <1>1 DEF InByte, Codec!ByteOf
<1>. QED
  BY <1>1, <1>2, <1>5, <1>11, <1>12, <1>13

\* Its weight there is a power of two.
LEMMA ScaleIs ==
  ASSUME NEW w \in Nat \ {0}, Bits % w = 0, NEW i \in 1..Codec!Count
  PROVE  /\ Slot(w, i) \in 0..(Codec!PerByte(w) - 1)
         /\ w * (Codec!PerByte(w) - 1 - Slot(w, i)) \in 0..Bits
         /\ Scale(w, i) = Codec!Power[w * (Codec!PerByte(w) - 1 - Slot(w, i))]
         /\ Scale(w, i) \in Nat \ {0} /\ Codec!Power[w] \in Nat \ {0}
<1>1. PICK p, s, x, b : p = Codec!PerByte(w) /\ s = Slot(w, i) /\ x = Codec!X(i) /\ b = Bits
  OBVIOUS
<1>2. p \in Nat \ {0} /\ b = w * p /\ b \in Nat \ {0} /\ w <= b
  BY <1>1, Fills, SizesAre
<1>3. x \in Nat /\ s = x % p
  <2>1. x \in 0..(Width - 1)
    BY <1>1, Places
  <2>. QED
    BY <1>1, <2>1, SizesAre DEF Slot
<1>4. s \in 0..(p - 1)
  BY <1>2, <1>3, Quotient
<1>5. PICK t, e : t = p - 1 - s /\ e = w * t
  OBVIOUS
<1>6. t \in Nat /\ s + 1 + t = p /\ s \in Nat
  BY <1>2, <1>4, <1>5
<1>7. e \in Nat /\ w * (s + 1) \in Nat /\ w * (s + 1) + e = b
  <2>1. w * ((s + 1) + t) = w * (s + 1) + w * t
    BY <1>6
  <2>2. (s + 1) + t = p
    BY <1>6
  <2>3. e \in Nat /\ w * (s + 1) \in Nat
    BY <1>5, <1>6
  <2>. QED
    BY <1>2, <1>5, <2>1, <2>2, <2>3
<1>8. e \in 0..b /\ b - w * (s + 1) = e
  BY <1>2, <1>7
<1>9. Scale(w, i) = Codec!Power[b - w * (s + 1)]
  BY <1>1, <1>3 DEF Scale, Codec!Weight
<1>10. Codec!Power[e] \in Nat \ {0} /\ Codec!Power[w] \in Nat \ {0}
  <2>1. w \in 0..Bits /\ e \in 0..Bits
    BY <1>1, <1>2, <1>8
  <2>. QED
    BY <2>1, PowerIs
<1>. QED
  BY <1>1, <1>4, <1>5, <1>8, <1>9, <1>10

\* A later pixel of the same byte is further to the right there.
LEMMA LaterSlot ==
  ASSUME NEW w \in Nat \ {0}, Bits % w = 0, NEW i \in 1..Codec!Count, NEW j \in 1..Codec!Count, i < j,
         InByte(w, i) = InByte(w, j)
  PROVE  Slot(w, i) < Slot(w, j)
<1>1. PICK p, r, v : p = Codec!PerByte(w) /\ r = Codec!RowBytes(w) /\ v = Width
  OBVIOUS
<1>2. PICK x, y, q, s : x = Codec!X(i) /\ y = Codec!Y(i) /\ q = x \div p /\ s = x % p
  OBVIOUS
<1>3. PICK xx, yy, qq, ss : xx = Codec!X(j) /\ yy = Codec!Y(j) /\ qq = xx \div p /\ ss = xx % p
  OBVIOUS
<1>4. p \in Nat \ {0} /\ r \in Nat \ {0} /\ v \in Nat \ {0}
  BY <1>1, Fills, InByteIs, SizesAre
<1>5. x \in Nat /\ y \in Nat /\ i = y * v + x + 1
  <2>1. x \in 0..(Width - 1) /\ y \in 0..(Height - 1) /\ i = y * Width + x + 1
    BY <1>2, Places
  <2>. QED
    BY <1>1, <2>1, SizesAre
<1>6. xx \in Nat /\ yy \in Nat /\ j = yy * v + xx + 1
  <2>1. xx \in 0..(Width - 1) /\ yy \in 0..(Height - 1) /\ j = yy * Width + xx + 1
    BY <1>3, Places
  <2>. QED
    BY <1>1, <2>1, SizesAre
<1>7. q \in 0..(r - 1) /\ qq \in 0..(r - 1)
  BY <1>1, <1>2, <1>3, InByteIs
<1>8. y * r + q + 1 = yy * r + qq + 1
  BY <1>1, <1>2, <1>3 DEF InByte, Codec!ByteOf
<1>9. y * r + q = yy * r + qq
  <2>1. y * r \in Nat /\ yy * r \in Nat /\ q \in Nat /\ qq \in Nat
    BY <1>4, <1>5, <1>6, <1>7
  <2>. QED
    BY <1>8, <2>1
<1>10. y = yy /\ q = qq
  <2>1. (y * r + q) \div r = y /\ (y * r + q) % r = q
    BY <1>4, <1>5, <1>7, Recomposed
  <2>2. (yy * r + qq) \div r = yy /\ (yy * r + qq) % r = qq
    BY <1>4, <1>6, <1>7, Recomposed
  <2>. QED
    BY <1>9, <2>1, <2>2
<1>11. x < xx
  <2>1. y * v \in Nat
    BY <1>4, <1>5
  <2>. QED
    BY <1>5, <1>6, <1>10, <2>1
<1>12. s \in 0..(p - 1) /\ x = p * q + s
  <2>1. x \div p \in Nat /\ x % p \in 0..(p - 1) /\ x = p * (x \div p) + (x % p)
    BY <1>4, <1>5, Quotient
  <2>. QED
    BY <1>2, <2>1
<1>13. ss \in 0..(p - 1) /\ xx = p * qq + ss
  <2>1. xx \div p \in Nat /\ xx % p \in 0..(p - 1) /\ xx = p * (xx \div p) + (xx % p)
    BY <1>4, <1>6, Quotient
  <2>. QED
    BY <1>3, <2>1
<1>14. s < ss
  <2>1. p * q \in Nat
    BY <1>4, <1>7
  <2>. QED
    BY <1>10, <1>11, <1>12, <1>13, <2>1
<1>. QED
  BY <1>1, <1>2, <1>3, <1>14 DEF Slot

\* The weight of an earlier one is a multiple of all a later one can hold.
LEMMA Weights ==
  ASSUME NEW w \in Nat \ {0}, Bits % w = 0, NEW i \in 1..Codec!Count, NEW j \in 1..Codec!Count, i < j,
         InByte(w, i) = InByte(w, j)
  PROVE  \E z \in Nat \ {0} : Scale(w, i) = z * (Scale(w, j) * Codec!Power[w])
<1>1. PICK p, s, t : p = Codec!PerByte(w) /\ s = Slot(w, i) /\ t = Slot(w, j)
  OBVIOUS
<1>2. p \in Nat \ {0} /\ s \in 0..(p - 1) /\ t \in 0..(p - 1) /\ s < t
  BY <1>1, Fills, ScaleIs, LaterSlot
<1>3. PICK c, d, e, k : c = w * (p - 1 - s) /\ d = w * (p - 1 - t) /\ e = t - s - 1 /\ k = w * e
  OBVIOUS
<1>4. c \in 0..Bits /\ d \in 0..Bits /\ Scale(w, i) = Codec!Power[c] /\ Scale(w, j) = Codec!Power[d] /\ w \in 0..Bits
  <2>1. c \in 0..Bits /\ Scale(w, i) = Codec!Power[c]
    BY <1>1, <1>3, ScaleIs
  <2>2. d \in 0..Bits /\ Scale(w, j) = Codec!Power[d]
    BY <1>1, <1>3, ScaleIs
  <2>3. w <= Bits
    BY Fills
  <2>. QED
    BY <2>1, <2>2, <2>3, SizesAre
<1>5. e \in Nat /\ p - 1 - t \in Nat /\ p - 1 - s = e + (1 + (p - 1 - t))
  BY <1>2, <1>3
<1>6. k \in Nat /\ d \in Nat /\ c = k + (d + w)
  <2>1. PICK u : u = p - 1 - t
    OBVIOUS
  <2>2. w * (e + (1 + u)) = w * e + (w * u + w)
    BY <1>5, <2>1
  <2>3. w * e \in Nat /\ w * u \in Nat
    BY <1>5, <2>1
  <2>. QED
    BY <1>3, <1>5, <2>1, <2>2, <2>3
<1>7. Codec!Power[d + w] = Codec!Power[d] * Codec!Power[w]
  <2>1. d + w <= Bits
    BY <1>4, <1>6, SizesAre
  <2>. QED
    BY <1>6, <2>1, PowerSum
<1>8. Codec!Power[c] = Codec!Power[k] * Codec!Power[d + w]
  <2>1. d + w \in Nat /\ k + (d + w) <= Bits
    BY <1>4, <1>6, SizesAre
  <2>. QED
    BY <1>6, <2>1, PowerSum
<1>9. Codec!Power[k] \in Nat \ {0}
  <2>1. k \in 0..Bits
    BY <1>4, <1>6, SizesAre
  <2>. QED
    BY <2>1, PowerIs
<1>. QED
  BY <1>4, <1>7, <1>8, <1>9

\* An index put into an empty place is read again;
With(q, s, p, v) == q * (s * p) + v * s
Reads(x, s, p, v) == (x \div s) % p = v

LEMMA PutIn ==
  ASSUME NEW q \in Nat, NEW s \in Nat \ {0}, NEW p \in Nat \ {0}, NEW v \in 0..(p - 1)
  PROVE  With(q, s, p, v) \in Nat /\ Reads(With(q, s, p, v), s, p, v)
<1>1. q * p + v \in Nat /\ v \in Nat
  BY Products
<1>2. ((q * p + v) * s + 0) \div s = q * p + v
  <2>1. 0 \in 0..(s - 1)
    OBVIOUS
  <2>. QED
    BY <1>1, <2>1, Recomposed
<1>3. (q * p + v) * s + 0 = q * (s * p) + v * s
  <2>1. (q * p + v) * s = q * p * s + v * s
    BY <1>1
  <2>2. q * p * s = q * (s * p)
    OBVIOUS
  <2>3. q * p * s \in Nat /\ v * s \in Nat
    BY <1>1
  <2>. QED
    BY <2>1, <2>2, <2>3
<1>4. (q * p + v) % p = v
  BY Recomposed
<1>5. q * (s * p) + v * s \in Nat
  <2>1. s * p \in Nat /\ v * s \in Nat
    BY <1>1
  <2>2. q * (s * p) \in Nat
    BY <2>1
  <2>. QED
    BY <2>1, <2>2
<1>6. With(q, s, p, v) = (q * p + v) * s + 0
  BY <1>3 DEF With
<1>7. With(q, s, p, v) \div s = q * p + v
  BY <1>2, <1>6
<1>. QED
  BY <1>4, <1>5, <1>7 DEF With, Reads

\* it does not change what lies further left;
LEMMA LeftKept ==
  ASSUME NEW q \in Nat, NEW s \in Nat \ {0}, NEW p \in Nat \ {0}, NEW v \in 0..(p - 1), NEW z \in Nat \ {0}
  PROVE  (q * (s * p) + v * s) \div (z * (s * p)) = (q * (s * p)) \div (z * (s * p))
<1>1. PICK k, r : k = s * p /\ r = v * s
  OBVIOUS
<1>2. k \in Nat \ {0}
  <2>1. s * p \in Nat /\ s * p >= 1
    OBVIOUS
  <2>. QED
    BY <1>1, <2>1
<1>3. r \in Nat /\ r <= k - s
  <2>1. v \in Nat /\ v <= p - 1
    OBVIOUS
  <2>2. v * s <= (p - 1) * s
    BY <2>1
  <2>3. (p - 1) * s = p * s - s /\ p * s = s * p /\ s * p \in Nat /\ v * s \in Nat
    BY <2>1
  <2>. QED
    BY <1>1, <2>2, <2>3
<1>4. r < k
  BY <1>2, <1>3
<1>5. PICK a, b : a = q \div z /\ b = q % z
  OBVIOUS
<1>6. a \in Nat /\ b \in 0..(z - 1) /\ q = z * a + b
  BY <1>5, Quotient
<1>7. b \in Nat /\ b + 1 <= z
  BY <1>6
<1>8. PICK m, n : m = z * k /\ n = b * k
  OBVIOUS
<1>9. m \in Nat /\ n \in Nat /\ n + k <= m
  <2>1. (b + 1) * k <= z * k
    BY <1>2, <1>7
  <2>2. (b + 1) * k = b * k + k /\ b * k \in Nat /\ z * k \in Nat
    BY <1>2, <1>7
  <2>. QED
    BY <1>8, <2>1, <2>2
<1>10. m \in Nat \ {0} /\ n \in 0..(m - 1) /\ n + r \in 0..(m - 1)
  BY <1>2, <1>3, <1>4, <1>9
<1>11. q * k = a * m + n
  <2>1. (z * a + b) * k = z * a * k + b * k
    BY <1>2, <1>6, <1>7
  <2>2. z * a * k = a * (z * k)
    BY <1>2, <1>6
  <2>. QED
    BY <1>6, <1>8, <2>1, <2>2
<1>12. (a * m + n) \div m = a
  BY <1>6, <1>10, Recomposed
<1>13. (a * m + (n + r)) \div m = a
  BY <1>6, <1>10, Recomposed
<1>14. q * k + r = a * m + (n + r)
  <2>1. a * m \in Nat
    BY <1>6, <1>9
  <2>. QED
    BY <1>3, <1>9, <1>11, <2>1
<1>. QED
  BY <1>1, <1>8, <1>11, <1>12, <1>13, <1>14

\* and what lies further right stays empty.
LEMMA RightEmpty ==
  ASSUME NEW q \in Nat, NEW k \in Nat, NEW v \in Nat, NEW z \in Nat
  PROVE  q + v * z \in Nat /\ q * k + v * (z * k) = (q + v * z) * k
<1>1. (q + v * z) * k = q * k + v * z * k
  <2>1. PICK u : u = v * z
    OBVIOUS
  <2>2. u \in Nat
    BY <2>1
  <2>3. (q + u) * k = q * k + u * k
    BY <2>2
  <2>. QED
    BY <2>1, <2>3
<1>2. v * z * k = v * (z * k)
  OBVIOUS
<1>3. v * z \in Nat
  OBVIOUS
<1>. QED
  BY <1>1, <1>2, <1>3

\* Bytes c hold the indices of the first n pixels and are empty where later ones go.
Filled(w, idx, c, n) ==
  /\ c \in [1..(Codec!RowBytes(w) * Height) -> Nat]
  /\ \A i \in 1..n : (c[InByte(w, i)] \div Scale(w, i)) % Codec!Power[w] = idx[i]
  /\ \A j \in (n + 1)..Codec!Count : \E q \in Nat : c[InByte(w, j)] = q * (Scale(w, j) * Codec!Power[w])

PutNext(w, idx, c, n) == [c EXCEPT ![InByte(w, n)] = @ + idx[n] * Scale(w, n)]

\* The next index put in.
LEMMA FilledNext ==
  ASSUME NEW w \in Nat \ {0}, Bits % w = 0, NEW idx \in [1..Codec!Count -> 0..(Codec!Power[w] - 1)],
         NEW c, NEW n \in 1..Codec!Count, Filled(w, idx, c, n - 1)
  PROVE  Filled(w, idx, PutNext(w, idx, c, n), n)
<1>1. PICK k, s, p, v, d, m, e :
        /\ k = InByte(w, n) /\ s = Scale(w, n) /\ p = Codec!Power[w] /\ v = idx[n]
        /\ d = PutNext(w, idx, c, n) /\ m = Codec!Count /\ e = Codec!RowBytes(w) * Height
  OBVIOUS
<1>2. /\ s \in Nat \ {0} /\ p \in Nat \ {0} /\ v \in 0..(p - 1) /\ v \in Nat /\ k \in 1..e
      /\ m \in Nat \ {0} /\ n \in Nat /\ n \in 1..m
  <2>1. s \in Nat \ {0} /\ p \in Nat \ {0}
    BY <1>1, ScaleIs
  <2>2. v \in 0..(p - 1)
    BY <1>1
  <2>3. k \in 1..e
    BY <1>1, InByteIs
  <2>. QED
    BY <1>1, <2>1, <2>2, <2>3, CountIs
<1>3. /\ c \in [1..e -> Nat]
      /\ \A i \in 1..(n - 1) : (c[InByte(w, i)] \div Scale(w, i)) % p = idx[i]
      /\ \A j \in n..m : \E q \in Nat : c[InByte(w, j)] = q * (Scale(w, j) * p)
  <2>1. (n - 1) + 1 = n
    BY <1>2
  <2>. QED
    BY <1>1, <2>1 DEF Filled
<1>4. d = [c EXCEPT ![k] = c[k] + v * s]
  BY <1>1 DEF PutNext
<1>5. PICK q \in Nat : c[k] = q * (s * p)
  <2>1. n \in n..m
    BY <1>2
  <2>. QED
    BY <1>1, <1>3, <2>1
<1>6. d[k] = q * (s * p) + v * s /\ \A x \in (1..e) \ {k} : d[x] = c[x]
  BY <1>2, <1>3, <1>4, <1>5
<1>7. d[k] \in Nat /\ (d[k] \div s) % p = v
  <2>1. With(q, s, p, v) \in Nat /\ Reads(With(q, s, p, v), s, p, v)
    BY <1>2, <1>5, PutIn
  <2>2. With(q, s, p, v) = d[k]
    BY <1>6 DEF With
  <2>. QED
    BY <2>1, <2>2 DEF Reads
<1>8. d \in [1..e -> Nat]
  <2>1. c[k] + v * s \in Nat
    BY <1>5, <1>6, <1>7
  <2>. QED
    BY <1>2, <1>3, <1>4, <2>1
<1>9. \A i \in 1..m : InByte(w, i) \in 1..e
  BY <1>1, InByteIs
<1>10. ASSUME NEW i \in 1..n PROVE (d[InByte(w, i)] \div Scale(w, i)) % p = idx[i]
  <2>1. i \in 1..m
    BY <1>2
  <2>2. CASE i = n
    BY <1>1, <1>7, <2>2
  <2>3. CASE i # n /\ InByte(w, i) # k
    <3>1. i \in 1..(n - 1)
      BY <1>2, <2>3
    <3>2. d[InByte(w, i)] = c[InByte(w, i)]
      BY <1>6, <1>9, <2>1, <2>3
    <3>. QED
      BY <1>3, <3>1, <3>2
  <2>4. CASE i # n /\ InByte(w, i) = k
    <3>1. i \in 1..(n - 1) /\ i < n
      BY <1>2, <2>4
    <3>2. PICK z \in Nat \ {0} : Scale(w, i) = z * (s * p)
      BY <1>1, <2>1, <2>4, <3>1, Weights
    <3>3. (q * (s * p) + v * s) \div (z * (s * p)) = (q * (s * p)) \div (z * (s * p))
      BY <1>2, LeftKept
    <3>4. d[k] \div Scale(w, i) = c[k] \div Scale(w, i)
      BY <1>5, <1>6, <3>2, <3>3
    <3>5. (c[k] \div Scale(w, i)) % p = idx[i]
      BY <1>3, <2>4, <3>1
    <3>. QED
      BY <2>4, <3>4, <3>5
  <2>. QED
    BY <2>2, <2>3, <2>4
<1>11. ASSUME NEW j \in (n + 1)..m
       PROVE  \E r \in Nat : d[InByte(w, j)] = r * (Scale(w, j) * p)
  <2>1. j \in 1..m /\ j \in n..m /\ n < j
    BY <1>2
  <2>2. PICK r \in Nat : c[InByte(w, j)] = r * (Scale(w, j) * p)
    BY <1>3, <2>1
  <2>3. CASE InByte(w, j) # k
    BY <1>6, <1>9, <2>1, <2>2, <2>3
  <2>4. CASE InByte(w, j) = k
    <3>1. PICK z \in Nat \ {0} : s = z * (Scale(w, j) * p)
      BY <1>1, <2>1, <2>4, Weights
    <3>2. PICK g : g = Scale(w, j) * p
      OBVIOUS
    <3>3. g \in Nat
      <4>1. Scale(w, j) \in Nat \ {0}
        BY <1>1, <2>1, ScaleIs
      <4>. QED
        BY <1>2, <3>2, <4>1
    <3>4. d[k] = r * g + v * (z * g)
      <4>1. d[k] = c[k] + v * s
        BY <1>5, <1>6
      <4>. QED
        BY <2>2, <2>4, <3>1, <3>2, <4>1
    <3>5. r + v * z \in Nat /\ r * g + v * (z * g) = (r + v * z) * g
      BY <1>2, <3>3, RightEmpty
    <3>. QED
      BY <2>4, <3>2, <3>4, <3>5
  <2>. QED
    BY <2>3, <2>4
<1>12. Filled(w, idx, d, n)
  BY <1>1, <1>8, <1>10, <1>11 DEF Filled
<1>. QED
  BY <1>1, <1>12

\* Indices are read as they were packed.
LEMMA PackedBack ==
  ASSUME NEW w \in Nat \ {0}, Bits % w = 0, NEW idx \in [1..Codec!Count -> 0..(Codec!Power[w] - 1)]
  PROVE  \A i \in 1..Codec!Count : Codec!Unpacked(w, Codec!Packed(w, idx))[i] = idx[i]
<1>1. PICK m, e, b :
        m = Codec!Count /\ e = Codec!RowBytes(w) * Height /\ b = [k \in 1..(Codec!RowBytes(w) * Height) |-> 0]
  OBVIOUS
<1>2. m \in Nat \ {0}
  BY <1>1, CountIs
<1>. DEFINE V == [1..e -> Nat]
            F(f) == f = [n \in 0..m |-> IF n = 0 THEN b ELSE PutNext(w, idx, f[n - 1], n)]
            G == [n \in 1..m |-> [c \in V |-> PutNext(w, idx, c, n)]]
<1>3. b \in V
  BY <1>1
<1>4. \A n \in 1..m : \A c \in V : PutNext(w, idx, c, n) \in V
  <2>. SUFFICES ASSUME NEW n \in 1..m, NEW c \in V PROVE PutNext(w, idx, c, n) \in V
    OBVIOUS
  <2>1. InByte(w, n) \in 1..e /\ Scale(w, n) \in Nat /\ idx[n] \in 0..(Codec!Power[w] - 1) /\ Codec!Power[w] \in Nat
    BY <1>1, InByteIs, ScaleIs
  <2>2. PICK k, s, v : k = InByte(w, n) /\ s = Scale(w, n) /\ v = idx[n]
    OBVIOUS
  <2>3. s \in Nat /\ v \in Nat /\ k \in 1..e
    BY <2>1, <2>2
  <2>4. v * s \in Nat
    BY <2>3
  <2>5. c[k] + v * s \in Nat
    BY <2>3, <2>4
  <2>. QED
    BY <2>2, <2>3, <2>5 DEF PutNext
<1>5. \E f : F(f)
  <2>1. G \in [1..m -> [V -> V]]
    <3>. HIDE DEF V
    <3>. QED
      BY <1>4
  <2>2. \E f : Follows(f, m, V, b, G)
    <3>. HIDE DEF G, V
    <3>. QED
      BY <1>2, <1>3, <2>1, Recursion
  <2>3. PICK f : Follows(f, m, V, b, G)
    <3>. HIDE DEF G, V
    <3>. QED
      BY <2>2
  <2>4. f \in [0..m -> V] /\ f[0] = b /\ \A n \in 1..m : f[n] = G[n][f[n - 1]]
    <3>. HIDE DEF G, V
    <3>. QED
      BY <2>3 DEF Follows
  <2>. HIDE DEF V
  <2>5. ASSUME NEW n \in 1..m PROVE f[n] = PutNext(w, idx, f[n - 1], n)
    <3>1. n - 1 \in 0..m
      BY <1>2
    <3>2. f[n - 1] \in V
      BY <2>4, <3>1
    <3>3. G[n][f[n - 1]] = PutNext(w, idx, f[n - 1], n)
      BY <3>2
    <3>. QED
      BY <2>4, <3>3
  <2>6. ASSUME NEW n \in 0..m PROVE f[n] = IF n = 0 THEN b ELSE PutNext(w, idx, f[n - 1], n)
    <3>1. n = 0 \/ n \in 1..m
      BY <1>2
    <3>. QED
      BY <2>4, <2>5, <3>1
  <2>7. f = [n \in 0..m |-> f[n]]
    BY <2>4
  <2>8. F(f)
    BY <2>6, <2>7
  <2>. HIDE DEF F
  <2>. QED
    BY <2>8
<1>6. PICK c : c = CHOOSE f : F(f)
  OBVIOUS
<1>7. F(c)
  <2>. HIDE DEF F
  <2>. QED
    BY <1>5, <1>6
<1>8. Codec!Packed(w, idx) = c[m]
  <2>1. Codec!Packed(w, idx) = (CHOOSE f : F(f))[m]
    BY <1>1 DEF Codec!Packed, PutNext, InByte, Scale
  <2>. HIDE DEF F
  <2>. QED
    BY <1>6, <2>1
<1>9. \A n \in 0..m : c[n] = IF n = 0 THEN b ELSE PutNext(w, idx, c[n - 1], n)
  BY <1>7
<1>. HIDE DEF F, G
<1>10. Filled(w, idx, c[m], m)
  <2>. DEFINE S == {n \in 0..m : Filled(w, idx, c[n], n)}
  <2>1. 0 \in S
    <3>1. 0 \in 0..m /\ c[0] = b
      BY <1>2, <1>9
    <3>2. \A j \in 1..m : \E q \in Nat : b[InByte(w, j)] = q * (Scale(w, j) * Codec!Power[w])
      <4>. SUFFICES ASSUME NEW j \in 1..m
                    PROVE  \E q \in Nat : b[InByte(w, j)] = q * (Scale(w, j) * Codec!Power[w])
        OBVIOUS
      <4>1. InByte(w, j) \in 1..e /\ Scale(w, j) \in Nat /\ Codec!Power[w] \in Nat
        BY <1>1, InByteIs, ScaleIs
      <4>2. b[InByte(w, j)] = 0
        BY <1>1, <4>1
      <4>3. PICK g : g = Scale(w, j) * Codec!Power[w]
        OBVIOUS
      <4>4. g \in Nat /\ 0 = 0 * g
        BY <4>1, <4>3
      <4>. QED
        BY <4>2, <4>3, <4>4
    <3>3. b \in [1..(Codec!RowBytes(w) * Height) -> Nat]
      BY <1>1, <1>3
    <3>4. \A j \in (0 + 1)..Codec!Count : \E q \in Nat : b[InByte(w, j)] = q * (Scale(w, j) * Codec!Power[w])
      <4>1. 0 + 1 = 1
        OBVIOUS
      <4>. QED
        BY <1>1, <3>2, <4>1, Zenon
    <3>5. \A i \in 1..0 : (b[InByte(w, i)] \div Scale(w, i)) % Codec!Power[w] = idx[i]
      <4>1. 1..0 = {}
        OBVIOUS
      <4>. QED
        BY <4>1
    <3>6. Filled(w, idx, b, 0)
      BY <3>3, <3>4, <3>5, Zenon DEF Filled
    <3>. QED
      BY <3>1, <3>6
  <2>2. ASSUME NEW n \in 1..m, n - 1 \in S PROVE n \in S
    <3>1. Filled(w, idx, c[n - 1], n - 1) /\ n \in 0..m /\ n # 0
      BY <1>2, <2>2
    <3>2. c[n] = PutNext(w, idx, c[n - 1], n)
      BY <1>9, <3>1
    <3>3. Filled(w, idx, PutNext(w, idx, c[n - 1], n), n)
      BY <1>1, <3>1, FilledNext
    <3>. QED
      BY <3>1, <3>2, <3>3
  <2>3. 0..m \subseteq S
    <3>. HIDE DEF S
    <3>. QED
      BY <1>2, <2>1, <2>2, UpTo
  <2>4. m \in 0..m
    BY <1>2
  <2>. QED
    BY <2>3, <2>4
<1>. QED
  BY <1>1, <1>8, <1>10 DEF Filled, Codec!Unpacked, InByte, Scale

-----------------------------------------------------------------------------
(* What the viewer shows.                                                  *)

\* Pixels px are told by a palette and the indices u into it.
Tells(px, pal, u) ==
  /\ Len(pal) = 1 => px = [i \in 1..Codec!Count |-> pal[1]]
  /\ Len(pal) \in 2..MaxPalette =>
       \A i \in 1..Codec!Count : u[i] \in Nat /\ u[i] < Len(pal) /\ pal[u[i] + 1] = px[i]
  /\ Len(pal) \in Nat \ {0}

\* Looking the indices up in the palette gives the pixels back.
LEMMA PaletteBack ==
  ASSUME NEW px \in [1..Codec!Count -> Colour], NEW pal, pal = Codec!Palette(px),
         NEW idx, idx = [i \in 1..Codec!Count |-> Codec!IndexIn(pal, px[i]) - 1],
         NEW u, u = Codec!Unpacked(Codec!Bpp(Len(pal)), Codec!Packed(Codec!Bpp(Len(pal)), idx))
  PROVE  Tells(px, pal, u)
<1>1. PICK m, np, w : m = Codec!Count /\ np = Len(pal) /\ w = Codec!Bpp(Len(pal))
  OBVIOUS
<1>2. /\ np \in Nat \ {0}
      /\ \A i \in 1..m : Codec!IndexIn(pal, px[i]) \in 1..np /\ pal[Codec!IndexIn(pal, px[i])] = px[i]
  BY <1>1, PaletteIs
<1>3. px = [i \in 1..m |-> px[i]]
  BY <1>1
<1>4. CASE np = 1
  <2>1. \A i \in 1..m : px[i] = pal[1]
    <3>1. \A k \in 1..np : k = 1
      BY <1>4
    <3>. QED
      BY <1>2, <3>1
  <2>2. px = [i \in 1..m |-> pal[1]]
    BY <1>3, <2>1
  <2>3. ~(np \in 2..MaxPalette)
    BY <1>4
  <2>. QED
    BY <1>1, <1>2, <2>2, <2>3 DEF Tells
<1>5. CASE np \in 2..MaxPalette
  <2>1. w \in Nat \ {0} /\ Bits % w = 0 /\ np <= Codec!Power[w]
    <3>1. Bits % w = 0 /\ np <= Codec!Power[w]
      BY <1>1, <1>5, SizesAre
    <3>2. w \in Nat \ {0}
      BY <1>1 DEF Codec!Bpp
    <3>. QED
      BY <3>1, <3>2
  <2>2. Codec!Power[w] \in Nat
    <3>1. w <= Bits
      BY <2>1, Fills
    <3>2. w \in 0..Bits
      BY <2>1, <3>1, SizesAre
    <3>. QED
      BY <3>2, PowerIs
  <2>3. \A i \in 1..m : idx[i] = Codec!IndexIn(pal, px[i]) - 1 /\ idx[i] \in 0..(np - 1)
    <3>1. \A i \in 1..m : idx[i] = Codec!IndexIn(pal, px[i]) - 1
      BY <1>1
    <3>. QED
      BY <1>2, <3>1
  <2>4. \A i \in 1..m : idx[i] \in 0..(Codec!Power[w] - 1)
    <3>1. \A k \in 0..(np - 1) : k \in 0..(Codec!Power[w] - 1)
      BY <1>2, <2>1, <2>2
    <3>. QED
      BY <2>3, <3>1
  <2>5. idx \in [1..Codec!Count -> 0..(Codec!Power[w] - 1)]
    BY <1>1, <2>4
  <2>6. \A i \in 1..m : u[i] = idx[i]
    <3>1. u = Codec!Unpacked(w, Codec!Packed(w, idx))
      BY <1>1
    <3>2. \A i \in 1..Codec!Count : Codec!Unpacked(w, Codec!Packed(w, idx))[i] = idx[i]
      BY <2>1, <2>5, PackedBack
    <3>. QED
      BY <1>1, <3>1, <3>2
  <2>7. ASSUME NEW i \in 1..m PROVE u[i] \in Nat /\ u[i] < np /\ pal[u[i] + 1] = px[i]
    <3>1. PICK k : k = Codec!IndexIn(pal, px[i])
      OBVIOUS
    <3>2. k \in 1..np /\ pal[k] = px[i]
      BY <1>2, <3>1
    <3>3. u[i] = k - 1
      BY <2>3, <2>6, <3>1
    <3>4. u[i] \in Nat /\ u[i] < np /\ u[i] + 1 = k
      BY <1>2, <3>2, <3>3
    <3>. QED
      BY <3>2, <3>4
  <2>8. np # 1
    BY <1>5
  <2>. QED
    BY <1>1, <1>2, <1>5, <2>7, <2>8 DEF Tells
<1>6. np = 1 \/ np \in 2..MaxPalette \/ ~(np = 1 \/ np \in 2..MaxPalette)
  OBVIOUS
<1>. QED
  BY <1>1, <1>2, <1>4, <1>5, <1>6 DEF Tells

\* b is one of rd_encode_tile's encodings of px.
IsOf(px, b) ==
  LET pal == Codec!Palette(px)
      np == Len(pal)
      idx == [i \in 1..Codec!Count |-> Codec!IndexIn(pal, px[i]) - 1]
  IN \/ np = 1 /\ b = <<"solid", pal[1]>>
     \/ np \in 2..MaxPalette /\ b = <<"palette", pal, Codec!Packed(Codec!Bpp(np), idx)>>
     \/ b = <<"zrgb", Codec!Residues(px)>>
     \/ b = <<"raw", px>>

\* What is sent is the rounded tile, and so is what is shown.
CodecTypes ==
  /\ tile \in [1..Codec!Count -> Pixel] /\ step \in Steps
  /\ stage \in {"encode", "decode", "done"}
CodecSends ==
  /\ stage = "decode" => IsOf(Codec!Px, payload)
  /\ stage = "done" => shown = Codec!Px
CodecInv == CodecTypes /\ CodecSends

\* Rounding depends on the tile and its quality only.
LEMMA SamePx == ASSUME UNCHANGED <<tile, step>> PROVE Codec!Px' = Codec!Px
BY DEF Codec!Px, Codec!Rounded

LEMMA CodecEncodes == ASSUME CodecInv, Codec!Encode PROVE CodecInv'
<1>1. stage' = "decode" /\ tile' = tile /\ step' = step
  BY DEF Codec!Encode
<1>2. PICK px : px = Codec!Px
  OBVIOUS
<1>3. Codec!Px' = px
  BY <1>1, <1>2, SamePx
<1>4. IsOf(px, payload')
  BY <1>2 DEF Codec!Encode, IsOf
<1>5. CodecTypes'
  BY <1>1 DEF CodecInv, CodecTypes
<1>6. CodecSends'
  BY <1>1, <1>3, <1>4 DEF CodecSends
<1>. QED
  BY <1>5, <1>6 DEF CodecInv

LEMMA CodecDecodes == ASSUME CodecInv, Codec!Decode PROVE CodecInv'
<1>1. stage = "decode" /\ tile' = tile /\ step' = step
  BY DEF Codec!Decode
<1>2. PICK px : px = Codec!Px
  OBVIOUS
<1>3. Codec!Px' = px
  BY <1>1, <1>2, SamePx
<1>4. px \in [1..Codec!Count -> Colour] /\ px = [i \in 1..Codec!Count |-> px[i]]
  BY <1>2, PxIs DEF CodecInv, CodecTypes
<1>5. IsOf(px, payload)
  BY <1>1, <1>2 DEF CodecInv, CodecSends
<1>6. PICK pal, np, idx, u :
        /\ pal = Codec!Palette(px) /\ np = Len(pal)
        /\ idx = [i \in 1..Codec!Count |-> Codec!IndexIn(pal, px[i]) - 1]
        /\ u = Codec!Unpacked(Codec!Bpp(np), Codec!Packed(Codec!Bpp(np), idx))
  OBVIOUS
<1>7. /\ np = 1 => px = [i \in 1..Codec!Count |-> pal[1]]
      /\ np \in 2..MaxPalette =>
           \A i \in 1..Codec!Count : u[i] \in Nat /\ u[i] < np /\ pal[u[i] + 1] = px[i]
      /\ np \in Nat \ {0}
  <2>1. u = Codec!Unpacked(Codec!Bpp(Len(pal)), Codec!Packed(Codec!Bpp(Len(pal)), idx))
    BY <1>6
  <2>2. Tells(px, pal, u)
    BY <1>4, <1>6, <2>1, PaletteBack
  <2>. QED
    BY <1>6, <2>2 DEF Tells
<1>8. stage' = "done" /\ shown' = px
  <2>1. \/ np = 1 /\ payload = <<"solid", pal[1]>>
        \/ np \in 2..MaxPalette /\ payload = <<"palette", pal, Codec!Packed(Codec!Bpp(np), idx)>>
        \/ payload = <<"zrgb", Codec!Residues(px)>>
        \/ payload = <<"raw", px>>
    BY <1>5, <1>6 DEF IsOf
  <2>2. CASE np = 1 /\ payload = <<"solid", pal[1]>>
    <3>1. payload[1] = "solid" /\ payload[2] = pal[1]
      BY <2>2
    <3>2. stage' = "done" /\ shown' = [i \in 1..Codec!Count |-> payload[2]]
      BY <3>1 DEF Codec!Decode
    <3>. QED
      BY <1>7, <2>2, <3>1, <3>2
  <2>3. CASE np \in 2..MaxPalette /\ payload = <<"palette", pal, Codec!Packed(Codec!Bpp(np), idx)>>
    <3>1. payload[1] = "palette" /\ payload[2] = pal /\ payload[3] = Codec!Packed(Codec!Bpp(np), idx)
      BY <2>3
    <3>2. IF \E i \in 1..Codec!Count : u[i] >= np
          THEN stage' = "failed"
          ELSE stage' = "done" /\ shown' = [i \in 1..Codec!Count |-> pal[u[i] + 1]]
      BY <1>6, <3>1 DEF Codec!Decode
    <3>3. ~\E i \in 1..Codec!Count : u[i] >= np
      BY <1>7, <2>3
    <3>. QED
      BY <1>4, <1>7, <2>3, <3>2, <3>3
  <2>4. CASE payload = <<"zrgb", Codec!Residues(px)>>
    <3>1. payload[1] = "zrgb" /\ payload[2] = Codec!Residues(px)
      BY <2>4
    <3>2. stage' = "done" /\ shown' = Codec!Restored(payload[2])
      BY <3>1 DEF Codec!Decode
    <3>. QED
      BY <1>4, <3>1, <3>2, RestoredIs
  <2>5. CASE payload = <<"raw", px>>
    <3>1. payload[1] = "raw" /\ payload[2] = px
      BY <2>5
    <3>. QED
      BY <3>1 DEF Codec!Decode
  <2>. QED
    BY <2>1, <2>2, <2>3, <2>4, <2>5
<1>9. CodecTypes'
  BY <1>1, <1>8 DEF CodecInv, CodecTypes
<1>10. CodecSends'
  BY <1>3, <1>8 DEF CodecSends
<1>. QED
  BY <1>9, <1>10 DEF CodecInv

LEMMA CodecSteps == CodecInv /\ [Next]_vars => CodecInv'
<1>. SUFFICES ASSUME CodecInv, [Next]_vars PROVE CodecInv'
  OBVIOUS
<1>1. CASE UNCHANGED codecVars
  <2>1. tile' = tile /\ step' = step /\ payload' = payload /\ shown' = shown /\ stage' = stage
    BY <1>1 DEF codecVars
  <2>2. Codec!Px' = Codec!Px
    BY <2>1, SamePx
  <2>3. CodecTypes' /\ CodecSends'
    BY <2>1, <2>2 DEF CodecInv, CodecTypes, CodecSends
  <2>. QED
    BY <2>3 DEF CodecInv
<1>2. CASE Codec!Next
  BY <1>2, CodecEncodes, CodecDecodes DEF Codec!Next
<1>. QED
  BY <1>1, <1>2 DEF Next, vars, InPool, InTiles, InLz, InSealing, InFraming

LEMMA CodecKept == FairSpec => []CodecInv
<1>1. FairSpec => Init /\ [][Next]_vars
  BY PTL DEF FairSpec
<1>2. Init => CodecInv
  BY DEF Init, Codec!Init, CodecInv, CodecTypes, CodecSends
<1>. QED
  BY <1>1, <1>2, CodecSteps, PTL

\* What is shown is as near to the tile as rounding leaves it.
LEMMA CodecAnswers == CodecInv => Codec!Faithful
<1>. SUFFICES ASSUME CodecInv PROVE Codec!Faithful
  OBVIOUS
<1>1. tile \in [1..Codec!Count -> Pixel] /\ step \in Steps /\ stage # "failed"
  BY DEF CodecInv, CodecTypes
<1>2. ASSUME stage = "done", NEW i \in 1..Codec!Count, NEW ch \in 1..3
      PROVE  /\ shown[i][ch] % step = 0
             /\ LET d == shown[i][ch] - tile[i][ch]
                IN 2 * (IF d < 0 THEN -d ELSE d) <= step \/ tile[i][ch] + step > Codec!Byte
  <2>1. PICK v : v = tile[i][ch]
    OBVIOUS
  <2>2. v \in Sample /\ shown[i][ch] = Codec!Rounded(v)
    BY <1>1, <1>2, <2>1, PxIs DEF CodecInv, CodecSends
  <2>3. /\ Codec!Rounded(v) % step = 0
        /\ LET d == Codec!Rounded(v) - v
           IN 2 * (IF d < 0 THEN -d ELSE d) <= step \/ v + step > Codec!Byte
    BY <1>1, <2>2, RoundedIs
  <2>. QED
    BY <2>1, <2>2, <2>3
<1>. QED
  BY <1>1, <1>2 DEF Codec!Faithful

\* rd_decode_tile shows what rd_encode_tile was given, to the nearest value of the
\* quality, whichever encoding it chose, and rd_lz_decompress gives back the very block
\* rd_lz_compress was given and had room for (Lossless): for tiles, bytes, palettes,
\* steps and blocks of every size, and for any hash function.
THEOREM NothingLost == FairSpec => []Lossless
<1>1. LzInv /\ CodecInv => Lossless
  BY LzAnswers, CodecAnswers DEF Lossless
<1>. QED
  BY <1>1, LzKept, CodecKept, PTL
=============================================================================
