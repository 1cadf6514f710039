----------------------------- MODULE MCDataPath -----------------------------
(* Model checking the layers of a picture: the constants that DataPath.cfg *)
(* cannot write down.                                                      *)
EXTENDS DataPath

CONSTANT MaxLen

\* Four colours whose channels differ, wrap and repeat.
MCPixel == {<<0, 0, 0>>, <<15, 3, 0>>, <<1, 2, 15>>, <<8, 9, 6>>}

\* Every short block, and longer ones whose second half repeats a part of the first,
\* too far away to be told; and a hash that different bytes share.
MCBlocks ==
  (UNION {[1..n -> Alphabet] : n \in 0..MaxLen})
  \cup {<<1, 0>> \o u \o <<1, 0, 1, 0, 0>> \o u \o <<0>> : u \in [1..4 -> Alphabet]}
MCSlotOf == [w \in [1..MinMatch -> Alphabet] |-> (w[1] + 2 * w[MinMatch]) % Slots]
=============================================================================
