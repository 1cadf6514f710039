--------------------------------- MODULE Lz ---------------------------------
(***************************************************************************)
(* The byte compressor of tiles (common/rd_codec.c): LZ77 with a hash      *)
(* table of one candidate per slot, in the LZ4 block layout - a token with *)
(* two short lengths, runs of a maximal byte for longer ones, literals, an *)
(* offset, and a last sequence of literals alone.                          *)
(*                                                                         *)
(* The layout's constants are scaled so that short blocks meet all of it;  *)
(* a symbol stands for a byte and the output is a sequence of symbols and  *)
(* numbers.  Each action is one turn of rd_lz_compress's or                *)
(* rd_lz_decompress's loop.                                                *)
(***************************************************************************)
EXTENDS Integers, Sequences, FiniteSetsExt

CONSTANTS
  Alphabet,      \* values of a byte in a block
  Blocks,        \* the blocks compressed
  MinMatch,      \* LZ_MIN_MATCH
  LastLiterals,  \* LZ_LAST_LITERALS
  MfLimit,       \* LZ_MF_LIMIT
  Nibble,        \* 15, the largest length in a token
  TopByte,       \* 255, the largest byte
  SkipLength,    \* 64, the distance from the last match at which the search speeds up
  Slots,         \* slots of the hash table
  SlotOf,        \* the slot of MinMatch bytes
  Slack          \* 16, what rd_lz_bound adds

\* The token and the two bytes of an offset are fewer than those they stand for.
LzAssumption ==
  /\ {LastLiterals, MfLimit, Slack} \subseteq Nat
  /\ {MinMatch, Nibble, TopByte, SkipLength, Slots} \subseteq Nat \ {0}
  /\ Alphabet \subseteq Nat /\ Blocks \subseteq Seq(Alphabet)
  /\ MfLimit >= LastLiterals + MinMatch /\ MinMatch >= 4 /\ Slack >= 2
  /\ SlotOf \in [[1..MinMatch -> Alphabet] -> 0..(Slots - 1)]

VARIABLES
  block,   \* src of the compressor
  table,   \* table: position + 1 of the last sequence hashed to a slot, or 0
  ip,      \* next position to look at
  anchor,  \* first byte not yet written
  packed,  \* dst of the compressor, src of the decompressor
  pos,     \* ip of the decompressor
  unpacked,\* dst of the decompressor
  phase    \* which loop runs

vars == <<block, table, ip, anchor, packed, pos, unpacked, phase>>

BlockLen == Len(block)
At(i) == block[i + 1]                       \* src[i]
Bytes(a, b) == SubSeq(block, a + 1, b)      \* src[a..b-1]
Limit == BlockLen - MfLimit

Init ==
  /\ block \in Blocks
  /\ table = [s \in 0..(Slots - 1) |-> 0]
  /\ ip = 0 /\ anchor = 0 /\ packed = <<>>
  /\ pos = 0 /\ unpacked = <<>>
  /\ phase = "compress"

\* The operators whose comment says "mutant" are wrong on purpose: each is the
\* operator below it with a bug that some property rules out.

\* rd_lz_bound: what dst must have room for.
BoundFlat(n) == n + Slack                                              \* mutant
Bound(n) == n + n \div TopByte + Slack

\* put_len: full bytes and a last one that is not full.
PutLenFull(n) ==                                                       \* mutant
  [i \in 1..((n - 1) \div TopByte) |-> TopByte] \o <<n - TopByte * ((n - 1) \div TopByte)>>
PutLen(n) == [i \in 1..(n \div TopByte) |-> TopByte] \o <<n % TopByte>>

LongLen(n) == IF n >= Nibble THEN PutLen(n - Nibble) ELSE <<>>
Token(lit, match) == Min({lit, Nibble}) * (Nibble + 1) + Min({match, Nibble})

\* read32 of a position, and its slot.
Sequence(i) == Bytes(i, i + MinMatch)
Hash(i) == SlotOf[Sequence(i)]

\* The two bytes of an offset, and the largest.
Base == TopByte + 1
Offset(n) == <<n % Base, (n \div Base) % Base>>
Farthest == Base * Base - 1

\* Whether the table's candidate is a match.
Found ==
  /\ table[Hash(ip)] # 0
  /\ ip - (table[Hash(ip)] - 1) <= Farthest
  /\ Sequence(table[Hash(ip)] - 1) = Sequence(ip)

\* A match at ip, extended forwards up to the last literals and backwards to what
\* is not written yet.
Match ==
  LET ref == table[Hash(ip)] - 1
      fwd == Max({m \in MinMatch..(BlockLen - LastLiterals - ip) :
                    \A i \in 0..(m - 1) : At(ref + i) = At(ip + i)})
      back == Max({b \in 0..Min({ip - anchor, ref}) :
                    \A i \in 1..b : At(ip - i) = At(ref - i)})
  IN [from |-> ip - back, len |-> fwd + back, off |-> ip - ref]

\* One sequence from byte a on: token, literals, offset, length; and the last one,
\* of literals alone.
Emitted(a, m) ==
  <<Token(m.from - a, m.len - MinMatch)>>
  \o LongLen(m.from - a) \o Bytes(a, m.from)
  \o Offset(m.off) \o LongLen(m.len - MinMatch)
Ending(a) == <<Token(BlockLen - a, 0)>> \o LongLen(BlockLen - a) \o Bytes(a, BlockLen)

Compressing == phase = "compress" /\ BlockLen >= MfLimit /\ ip <= Limit

\* Nothing to match: the step grows with the distance from the last match.
Skip ==
  /\ Compressing /\ ~Found
  /\ table' = [table EXCEPT ![Hash(ip)] = ip + 1]
  /\ ip' = ip + 1 + (ip - anchor) \div SkipLength
  /\ UNCHANGED <<block, anchor, packed, pos, unpacked, phase>>

\* After a match the sequence two bytes before its end is hashed as well.
Copy ==
  /\ Compressing /\ Found
  /\ packed' = packed \o Emitted(anchor, Match)
  /\ ip' = Match.from + Match.len
  /\ anchor' = ip'
  /\ table' = LET t == [table EXCEPT ![Hash(ip)] = ip + 1]
              IN IF ip' - 2 <= Limit THEN [t EXCEPT ![Hash(ip' - 2)] = ip' - 1] ELSE t
  /\ UNCHANGED <<block, pos, unpacked, phase>>

\* The last sequence.
Flush ==
  /\ phase = "compress" /\ ~Compressing
  /\ packed' = packed \o Ending(anchor)
  /\ phase' = "decompress"
  /\ UNCHANGED <<block, table, ip, anchor, pos, unpacked>>

-----------------------------------------------------------------------------
(* rd_lz_decompress of what was written, into a buffer of the block's      *)
(* size.                                                                   *)

\* read_len at a position: how many bytes it takes and what they add.
RunsAt(i) == Min({k \in 0..(Len(packed) - i) : i + k < Len(packed) => packed[i + k + 1] # TopByte})
ReadLen(short, i) ==
  IF short < Nibble THEN [len |-> short, next |-> i, ok |-> TRUE]
  ELSE IF i + RunsAt(i) >= Len(packed) THEN [len |-> 0, next |-> i, ok |-> FALSE]
  ELSE [len |-> short + TopByte * RunsAt(i) + packed[i + RunsAt(i) + 1], next |-> i + RunsAt(i) + 1, ok |-> TRUE]

\* A match may overlap what it writes: byte by byte it repeats its start.
Repeated(dst, off, n) == dst \o [i \in 1..n |-> dst[Len(dst) - off + 1 + ((i - 1) % off)]]

Fail == phase' = "failed" /\ UNCHANGED <<pos, unpacked>>

Expand ==
  /\ phase = "decompress" /\ pos < Len(packed)
  /\ LET token == packed[pos + 1]
         lits == ReadLen(token \div (Nibble + 1), pos + 1)
         end == lits.next + lits.len
         dst == unpacked \o SubSeq(packed, lits.next + 1, end)
         off == packed[end + 1] + Base * packed[end + 2]
         match == ReadLen(token % (Nibble + 1), end + 2)
         n == match.len + MinMatch
     IN IF ~lits.ok \/ end > Len(packed) \/ Len(dst) > BlockLen THEN Fail
        ELSE IF end = Len(packed)
        THEN pos' = end /\ unpacked' = dst /\ UNCHANGED phase
        ELSE IF end + 2 > Len(packed) THEN Fail
        ELSE IF off = 0 \/ off > Len(dst) \/ ~match.ok \/ Len(dst) + n > BlockLen THEN Fail
        ELSE /\ pos' = match.next
             /\ unpacked' = Repeated(dst, off, n)
             /\ UNCHANGED phase
  /\ UNCHANGED <<block, table, ip, anchor, packed>>

Finish ==
  /\ phase = "decompress" /\ pos = Len(packed)
  /\ phase' = "done"
  /\ UNCHANGED <<block, table, ip, anchor, packed, pos, unpacked>>

Next == Skip \/ Copy \/ Flush \/ Expand \/ Finish

Spec == Init /\ [][Next]_vars

-----------------------------------------------------------------------------
(* Properties.                                                             *)

\* rd_lz_decompress gives back every block rd_lz_compress was given, whatever
\* matches the hash table suggested.
RoundTrip ==
  /\ phase # "failed"
  /\ phase = "done" => unpacked = block

\* rd_lz_compress checks the size of dst once, against rd_lz_bound, and never again
\* while it writes: no block makes it write more.
FitsBound == Len(packed) <= Bound(BlockLen)
=============================================================================
