------------------------------ MODULE WsReader ------------------------------
(***************************************************************************)
(* WebSocket framing (common/rd_ws.c): frames are written to a byte stream *)
(* that arrives in pieces of any size, and rd_ws_next takes messages out   *)
(* of the buffer whenever bytes were added.                                *)
(*                                                                         *)
(* Bytes are counted, not spelled: a frame is its header's fields, and the *)
(* payload of the n-th frame is the number n and whether it is unmasked.   *)
(* rd_ws_next unmasks in place, in the buffer of the bytes still unread.   *)
(***************************************************************************)
EXTENDS Integers, Sequences, FiniteSets, FiniteSetsExt

CONSTANTS
  MaxMessage,  \* max_message of the reader
  Lengths,     \* payload lengths in use
  MaxFrames    \* bound: frames on the stream

FramingAssumption == MaxMessage \in Nat /\ Lengths \subseteq Nat /\ MaxFrames \in Nat

VARIABLES
  frames,      \* every frame written to the stream
  taken,       \* frames consumed from the buffer
  inLen,       \* in->len: bytes in the buffer
  flipped,     \* the payload at the front of the buffer has been XORed
  assembly,    \* assembly_opcode, the payloads put together and their length
  awaiting,    \* rd_ws_next returned 0: the next call is after a read
  failed,      \* rd_ws_next returned -1
  messages     \* what rd_ws_next has returned

vars == <<frames, taken, inLen, flipped, assembly, awaiting, failed, messages>>

NoAssembly == [opcode |-> "none", parts |-> <<>>, len |-> 0]
Message(opcode, parts) == [opcode |-> opcode, parts |-> parts]

Init ==
  /\ frames = <<>> /\ taken = 0 /\ inLen = 0 /\ flipped = FALSE
  /\ assembly = NoAssembly /\ messages = <<>> /\ awaiting = TRUE /\ failed = FALSE

\* The operators whose comment says "mutant" are wrong on purpose: each is the
\* operator below it with a bug that some property rules out.

\* The bytes before the mask: 7-bit, 16-bit or 64-bit length.
LengthSize(len) == IF len < 126 THEN 2 ELSE IF len <= 65535 THEN 4 ELSE 10

\* rd_ws_write_frame with a mask, as both programs send towards a server.
WriterFrames == {[opcode |-> op, fin |-> TRUE, masked |-> TRUE, rsv |-> FALSE, len |-> n] :
                   op \in {"binary", "control"}, n \in Lengths}

\* What another implementation may send, or a frame that breaks the rules.
OtherFrames ==
  {f \in [opcode : {"binary", "cont", "control"}, fin : BOOLEAN, masked : {TRUE}, rsv : {FALSE}, len : Lengths] :
     f \notin WriterFrames}
  \cup {[opcode |-> "reserved", fin |-> TRUE, masked |-> TRUE, rsv |-> FALSE, len |-> 1],
        [opcode |-> "binary", fin |-> TRUE, masked |-> FALSE, rsv |-> FALSE, len |-> 1],
        [opcode |-> "binary", fin |-> TRUE, masked |-> TRUE, rsv |-> TRUE, len |-> 1],
        [opcode |-> "binary", fin |-> TRUE, masked |-> TRUE, rsv |-> FALSE, len |-> MaxMessage + 1]}

Write ==
  /\ ~failed /\ Len(frames) < MaxFrames
  /\ \E f \in WriterFrames \cup OtherFrames : frames' = Append(frames, f)
  /\ UNCHANGED <<taken, inLen, flipped, assembly, awaiting, failed, messages>>

HeaderSize(f) == LengthSize(f.len) + 4
Size(f) == HeaderSize(f) + f.len

\* Sums of the first n of a sequence's numbers, for each n.
Totals(s) == LET t[n \in 0..Len(s)] == IF n = 0 THEN 0 ELSE t[n - 1] + s[n] IN t

\* Where frames end on the stream, and the bytes of it not in the buffer yet.
Offset == Totals([k \in DOMAIN frames |-> Size(frames[k])])
Unread == Offset[Len(frames)] - Offset[taken] - inLen

First == frames[taken + 1]

\* A read ends at any byte; those between two of these places are alike to
\* rd_ws_next, which only compares inLen with the sizes.
Places ==
  {1, 2, 3, LengthSize(First.len), HeaderSize(First) - 1, HeaderSize(First)}
  \cup {Size(First) + d : d \in {-1, 0, 1}} \cup {inLen + Unread}

Arrive ==
  /\ awaiting /\ ~failed /\ Unread > 0
  /\ inLen' \in {n \in Places : inLen < n /\ n <= inLen + Unread}
  /\ awaiting' = FALSE
  /\ UNCHANGED <<frames, taken, flipped, assembly, failed, messages>>

-----------------------------------------------------------------------------
(* rd_ws_next, one frame at a time.  Its checks come as soon as the bytes  *)
(* they need are there.                                                    *)

BadStart == inLen >= 2 /\ (First.rsv \/ ~First.masked)
BadLength == inLen >= LengthSize(First.len) /\ First.len > MaxMessage

Payload(k, f) == [frame |-> k, plain |-> f]

\* Opcodes, fragments and sizes that end the connection once a frame is there.
BadFrame ==
  CASE First.opcode = "control" -> ~First.fin \/ First.len > 125
    [] First.opcode = "cont" -> assembly = NoAssembly \/ assembly.len + First.len > MaxMessage
    [] First.opcode = "binary" -> assembly # NoAssembly
    [] OTHER -> TRUE

\* When the payload is XORed with the key: with the whole frame there.
FlippedEarly == IF inLen >= HeaderSize(First) THEN ~flipped ELSE flipped \* mutant
FlippedNow == IF inLen >= Size(First) THEN ~flipped ELSE flipped

Fail ==
  /\ BadStart \/ BadLength \/ (inLen >= Size(First) /\ BadFrame)
  /\ failed' = TRUE
  /\ UNCHANGED <<frames, taken, inLen, flipped, assembly, awaiting, messages>>

More ==
  /\ ~BadStart /\ ~BadLength /\ inLen < Size(First)
  /\ awaiting' = TRUE
  /\ flipped' = FlippedNow
  /\ UNCHANGED <<frames, taken, inLen, assembly, failed, messages>>

\* The frame leaves the buffer; its payload joins what it belongs to.
TakeFrame ==
  /\ ~BadStart /\ ~BadLength /\ inLen >= Size(First) /\ ~BadFrame
  /\ taken' = taken + 1
  /\ inLen' = inLen - Size(First)
  /\ flipped' = FALSE
  /\ awaiting' = (inLen' = 0)
  /\ LET part == Payload(taken + 1, FlippedNow)
         parts == IF First.opcode = "cont" THEN Append(assembly.parts, part) ELSE <<part>>
         opcode == IF First.opcode = "cont" THEN assembly.opcode ELSE First.opcode
     IN \/ /\ First.opcode = "control"
           /\ messages' = Append(messages, Message("control", <<part>>))
           /\ UNCHANGED assembly
        \/ /\ First.opcode # "control" /\ First.fin
           /\ messages' = Append(messages, Message(opcode, parts))
           /\ assembly' = NoAssembly
        \/ /\ First.opcode # "control" /\ ~First.fin
           /\ assembly' = [opcode |-> opcode, parts |-> parts, len |-> assembly.len + First.len]
           /\ UNCHANGED messages
  /\ UNCHANGED <<frames, failed>>

Next ==
  \/ Write \/ Arrive
  \/ ~awaiting /\ ~failed /\ (Fail \/ More \/ TakeFrame)

Spec == Init /\ [][Next]_vars

-----------------------------------------------------------------------------
(* What a stream of frames means, without buffers or reads.                *)

Data == {k \in 1..Len(frames) : frames[k].opcode # "control"}

\* The data frames of the message that frame k ends or continues.
Ends == {k \in Data : frames[k].fin}
Group(k) == {j \in Data : j <= k /\ ~\E e \in Ends : j <= e /\ e < k}

\* Bytes of messages in the first n frames, and of the one frame k belongs to.
DataOffset == Totals([k \in DOMAIN frames |-> IF k \in Data THEN frames[k].len ELSE 0])
GroupLen(k) == DataOffset[k] - DataOffset[Min(Group(k)) - 1]

Allowed(k) ==
  LET f == frames[k] IN
  /\ f.masked /\ ~f.rsv /\ f.len <= MaxMessage
  /\ CASE f.opcode = "control" -> f.fin /\ f.len <= 125
       [] f.opcode = "cont" -> Group(k) # {k} /\ GroupLen(k) <= MaxMessage
       [] f.opcode = "binary" -> Group(k) = {k}
       [] OTHER -> FALSE

\* The members of a set of numbers from the least on.
InOrder(S) == [n \in 1..Cardinality(S) |-> CHOOSE k \in S : Cardinality({j \in S : j <= k}) = n]

\* The message that frame k ends, and those of the first n frames.
Meant(k) ==
  LET ks == IF k \in Data THEN Group(k) ELSE {k}
  IN Message(frames[Min(ks)].opcode, [i \in 1..Cardinality(ks) |-> Payload(InOrder(ks)[i], TRUE)])

Closing(n) == {k \in 1..n : k \in Data => k \in Ends}
Meaning(n) == [i \in 1..Cardinality(Closing(n)) |-> Meant(InOrder(Closing(n))[i])]

\* However the stream is cut into reads, rd_ws_next has returned the messages of
\* the frames it took, whole and unmasked, all of those frames were allowed, and it
\* fails only at a frame that is not; nothing that arrived is left unlooked at.
FramesExact ==
  /\ messages = Meaning(taken)
  /\ \A k \in 1..taken : Allowed(k)
  /\ failed => ~Allowed(taken + 1)
  /\ awaiting /\ taken < Len(frames) => inLen < Size(First)
=============================================================================
