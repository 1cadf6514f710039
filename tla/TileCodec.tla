----------------------------- MODULE TileCodec -----------------------------
(***************************************************************************)
(* rd_encode_tile and rd_decode_tile (common/rd_codec.c): a tile is        *)
(* rounded to its quality and sent as one colour, as packed indices of a   *)
(* palette, as residues of a prediction of each channel, or as it is.      *)
(*                                                                         *)
(* Compression is that of Lz, which gives back what it was given; whether  *)
(* it makes the tile smaller is a choice.  Bytes have Bits bits, so that   *)
(* sums and differences wrap and indices share bytes on small tiles.       *)
(***************************************************************************)
EXTENDS Integers, Sequences, FiniteSetsExt

CONSTANTS
  Pixel,       \* colours in use, <<r, g, b>>
  Width, Height,
  Bits,        \* bits of a byte (8)
  MaxPalette,  \* colours of the largest palette (256)
  Steps        \* what the quality levels round to (1, 4, 8, 16)

\* Powers of two, and how many values a byte has.
Power[k \in 0..Bits] == IF k = 0 THEN 1 ELSE 2 * Power[k - 1]
Byte == Power[Bits]

\* Bits of an index into a palette.
Bpp(np) == IF np <= 2 THEN 1 ELSE IF np <= 4 THEN 2 ELSE IF np <= 16 THEN 4 ELSE 8

\* A byte is filled by whole indices, and each tells all colours of its palette.
CodecAssumption ==
  /\ {Width, Height, Bits, MaxPalette} \subseteq Nat \ {0} /\ Steps \subseteq Nat \ {0}
  /\ Pixel \subseteq (0..(Byte - 1)) \X (0..(Byte - 1)) \X (0..(Byte - 1))
  /\ \A np \in 2..MaxPalette : Bits % Bpp(np) = 0 /\ np <= Power[Bpp(np)]

VARIABLES
  tile,     \* the pixels, row by row
  step,     \* the quality's step
  payload,  \* the encoding and what was written
  shown,    \* what the decoder writes
  stage     \* "encode", "decode", "done" or "failed"

vars == <<tile, step, payload, shown, stage>>

Count == Width * Height
X(i) == (i - 1) % Width
Y(i) == (i - 1) \div Width

Init ==
  /\ tile \in [1..Count -> Pixel] /\ step \in Steps
  /\ payload = <<>> /\ shown = <<>> /\ stage = "encode"

\* The operators whose comment says "mutant" are wrong on purpose: each is the
\* operator below it with a bug that some property rules out.

\* q[]: each channel to the nearest multiple, not above the largest byte.
Rounded(v) == ((Min({v + (step - 1) \div 2, Byte - 1})) \div step) * step
Px == [i \in 1..Count |-> <<Rounded(tile[i][1]), Rounded(tile[i][2]), Rounded(tile[i][3])>>]

\* The colours in the order they are first met.
Palette(px) ==
  LET pal[n \in 0..Count] ==
        IF n = 0 THEN <<>>
        ELSE LET p == pal[n - 1] IN IF \E k \in DOMAIN p : p[k] = px[n] THEN p ELSE Append(p, px[n])
  IN pal[Count]
IndexIn(pal, c) == CHOOSE k \in DOMAIN pal : pal[k] = c

\* Where in its byte the index of column x is.
PerByte(bpp) == Bits \div bpp
RowBytes(bpp) == (Width * bpp + Bits - 1) \div Bits
Weight(bpp, x) == Power[Bits - bpp * ((x % PerByte(bpp)) + 1)]

\* Every row starts at a byte.
ByteOfRun(bpp, x, y) == (y * Width + x) \div PerByte(bpp) + 1           \* mutant
ByteOf(bpp, x, y) == y * RowBytes(bpp) + x \div PerByte(bpp) + 1

\* Indices, from 0, put one after another into bytes that were 0.
Packed(bpp, idx) ==
  LET bytes[n \in 0..Count] ==
        IF n = 0 THEN [k \in 1..(RowBytes(bpp) * Height) |-> 0]
        ELSE [bytes[n - 1] EXCEPT ![ByteOf(bpp, X(n), Y(n))] = @ + idx[n] * Weight(bpp, X(n))]
  IN bytes[Count]
Unpacked(bpp, bytes) ==
  [i \in 1..Count |-> (bytes[ByteOf(bpp, X(i), Y(i))] \div Weight(bpp, X(i))) % Power[bpp]]

\* Green, and the others as differences to it.
Decorrelated(p) == <<p[2], (p[1] - p[2]) % Byte, (p[3] - p[2]) % Byte>>
Correlated(t) == <<(t[2] + t[1]) % Byte, t[1], (t[3] + t[1]) % Byte>>

Med(a, b, c) ==
  IF c >= Max({a, b}) THEN Min({a, b}) ELSE IF c <= Min({a, b}) THEN Max({a, b}) ELSE a + b - c

\* The prediction of channel ch at i from t's samples to the left, above and both.
Predicted(t, i, ch) ==
  LET a == IF X(i) > 0 THEN t[i - 1][ch] ELSE IF Y(i) > 0 THEN t[i - Width][ch] ELSE 0
      b == IF Y(i) > 0 THEN t[i - Width][ch] ELSE a
      c == IF X(i) > 0 /\ Y(i) > 0 THEN t[i - Width - 1][ch] ELSE b
  IN Med(a, b, c)

Residues(px) ==
  LET t == [i \in 1..Count |-> Decorrelated(px[i])]
  IN [i \in 1..Count |-> [ch \in 1..3 |-> (t[i][ch] - Predicted(t, i, ch)) % Byte]]

\* In place and in order: what a prediction reads is already restored.
Restored(res) ==
  LET t[n \in 0..Count] ==
        IF n = 0 THEN res
        ELSE LET s == t[n - 1]
             IN [s EXCEPT ![n] = [ch \in 1..3 |-> (s[n][ch] + Predicted(s, n, ch)) % Byte]]
  IN [i \in 1..Count |-> Correlated(t[Count][i])]

Encode ==
  /\ stage = "encode"
  /\ LET pal == Palette(Px)
         np == Len(pal)
         idx == [i \in 1..Count |-> IndexIn(pal, Px[i]) - 1]
     IN \/ np = 1 /\ payload' = <<"solid", pal[1]>>
        \/ np \in 2..MaxPalette /\ payload' = <<"palette", pal, Packed(Bpp(np), idx)>>
        \/ np > MaxPalette /\ payload' = <<"zrgb", Residues(Px)>>
        \/ np > 1 /\ payload' = <<"raw", Px>>
  /\ stage' = "decode"
  /\ UNCHANGED <<tile, step, shown>>

Decode ==
  /\ stage = "decode"
  /\ \/ payload[1] = "solid" /\ shown' = [i \in 1..Count |-> payload[2]] /\ stage' = "done"
     \/ payload[1] = "raw" /\ shown' = payload[2] /\ stage' = "done"
     \/ /\ payload[1] = "palette"
        /\ LET idx == Unpacked(Bpp(Len(payload[2])), payload[3])
           IN IF \E i \in 1..Count : idx[i] >= Len(payload[2])
              THEN stage' = "failed" /\ UNCHANGED shown
              ELSE stage' = "done" /\ shown' = [i \in 1..Count |-> payload[2][idx[i] + 1]]
     \/ payload[1] = "zrgb" /\ shown' = Restored(payload[2]) /\ stage' = "done"
  /\ UNCHANGED <<tile, step, payload>>

Next == Encode \/ Decode

Spec == Init /\ [][Next]_vars

-----------------------------------------------------------------------------
(* Properties.                                                             *)

\* Whatever encoding was chosen, the viewer shows every pixel to the nearest value
\* of the quality - the very pixel where the quality is lossless - unless the
\* nearest is beyond the largest byte.
Faithful ==
  /\ stage # "failed"
  /\ stage = "done" =>
       \A i \in 1..Count, ch \in 1..3 :
         /\ shown[i][ch] % step = 0
         /\ LET d == shown[i][ch] - tile[i][ch] IN
            2 * (IF d < 0 THEN -d ELSE d) <= step \/ tile[i][ch] + step > Byte
=============================================================================
