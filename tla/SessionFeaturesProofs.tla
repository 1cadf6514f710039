------------------------ MODULE SessionFeaturesProofs ------------------------
(***************************************************************************)
(* Proofs about the features of a session (SessionFeatures), feature by    *)
(* feature, each for any values of its constants.                          *)
(***************************************************************************)
EXTENDS SessionFeatures, SequenceTheorems, WellFoundedInduction, TLAPS

-----------------------------------------------------------------------------
(* The automatic quality (AdaptiveQuality).                                *)

\* A step of SessionFeatures is a step of the quality or leaves it alone.
LEMMA QualitySteps == [Next]_vars => [Quality!Next]_(Quality!vars)
  BY DEF Next, vars, InQuality, InClipboard, InDisplays, InUploads, qualityVars, Quality!vars

\* Rates stay between one frame and the host's limit.
LEMMA RatesGranted ==
  ASSUME NEW f \in 0..255
  PROVE  Quality!Granted(f) \in 1..MaxFps
  BY QualityAssumed DEF Quality!AdaptAssumption, Quality!Granted, Quality!Most, Quality!Least

\* A window of adapt_quality keeps the types.
LEMMA QualityTyped ==
  ASSUME Quality!TypeOK, [Quality!Next]_(Quality!vars)
  PROVE  Quality!TypeOK'
<1>1. MaxFps \in Nat \ {0} /\ FpsChoices \subseteq 0..255
  BY QualityAssumed DEF Quality!AdaptAssumption
<1>2. /\ fps \in 1..MaxFps /\ effFps \in 1..MaxFps
      /\ setting \in 0..3 \cup {Automatic} /\ quality \in 0..3 /\ clean \in 0..1 /\ smooth \in BOOLEAN
  BY DEF Quality!TypeOK
<1>3. CASE Quality!ChooseSettings
  <2>1. PICK q \in 0..3 \cup {Automatic}, f \in FpsChoices :
          /\ setting' = q /\ quality' = IF q = Automatic THEN quality ELSE q
          /\ fps' = Quality!Granted(f) /\ effFps' = Quality!Granted(f)
          /\ UNCHANGED <<clean, smooth>>
    BY <1>3 DEF Quality!ChooseSettings
  <2>2. Quality!Granted(f) \in 1..MaxFps
    BY <1>1, RatesGranted
  <2>. QED
    BY <1>2, <2>1, <2>2 DEF Quality!TypeOK
<1>4. CASE Quality!Congested
  <2>1. CASE Quality!CanSlowDown
    <3>1. effFps > 10 /\ effFps' = Quality!Most(10, effFps \div 2) /\ quality' = quality
      BY <1>4, <2>1 DEF Quality!Congested, Quality!CanSlowDown
    <3>2. effFps' \in 1..MaxFps
      BY <1>1, <1>2, <3>1 DEF Quality!Most
    <3>. QED
      BY <1>2, <1>4, <3>1, <3>2 DEF Quality!TypeOK, Quality!Congested
  <2>2. CASE ~Quality!CanSlowDown
    BY <1>2, <1>4, <2>2 DEF Quality!TypeOK, Quality!Congested
  <2>. QED
    BY <2>1, <2>2
<1>5. CASE Quality!Smooth
  <2>1. effFps' = effFps \/ effFps' = Quality!Faster
    BY <1>5 DEF Quality!Smooth, Quality!Restore
  <2>2. effFps' \in 1..MaxFps
    BY <1>1, <1>2, <2>1 DEF Quality!Faster, Quality!Least
  <2>3. quality' = quality \/ (quality > 0 /\ quality' = quality - 1)
    BY <1>5 DEF Quality!Smooth, Quality!Restore, Quality!ColoursLost
  <2>4. clean' \in 0..1
    BY <1>2, <1>5 DEF Quality!Smooth
  <2>. QED
    BY <1>2, <1>5, <2>2, <2>3, <2>4 DEF Quality!TypeOK, Quality!Smooth
<1>6. CASE Quality!Mixed
  BY <1>2, <1>6 DEF Quality!TypeOK, Quality!Mixed
<1>7. CASE Quality!Recover
  BY <1>2, <1>7 DEF Quality!TypeOK, Quality!Recover
<1>8. CASE UNCHANGED Quality!vars
  BY <1>2, <1>8 DEF Quality!TypeOK, Quality!vars
<1>. QED
  BY <1>3, <1>4, <1>5, <1>6, <1>7, <1>8 DEF Quality!Next

\* Server::adapt_quality (server.cpp: "first lower the frame rate, and only
\* reduce colour depth if that isn't enough. When things are smooth again,
\* restore colour first, then frame rate"), for any limit of the host and any
\* rates viewers ask for.
THEOREM RateIsFirst == FairSpec => RateBeforeColour
<1>. DEFINE Ordered ==
       ~Quality!ChooseSettings =>
         /\ quality' > quality => effFps <= 10
         /\ effFps' > effFps /\ setting = Automatic => quality = 0
<1>1. FairSpec => Init /\ [][Next]_vars
  BY PTL DEF FairSpec
<1>2. Init => Quality!TypeOK
  <2>. SUFFICES ASSUME Quality!Init PROVE Quality!TypeOK
    BY DEF Init
  <2>1. MaxFps \in Nat \ {0}
    BY QualityAssumed DEF Quality!AdaptAssumption
  <2>2. MaxFps \in 1..MaxFps
    BY <2>1
  <2>. QED
    <3>1. fps \in 1..MaxFps /\ effFps \in 1..MaxFps
      BY <2>2 DEF Quality!Init
    <3>2. setting \in 0..3 \cup {Automatic} /\ quality \in 0..3
      BY DEF Quality!Init
    <3>3. clean = 0 /\ 0 \in 0..1
      BY DEF Quality!Init
    <3>4. smooth \in BOOLEAN
      BY Zenon DEF Quality!Init
    <3>. QED
      BY <3>1, <3>2, <3>3, <3>4 DEF Quality!TypeOK
<1>3. Quality!TypeOK /\ [Next]_vars => Quality!TypeOK'
  BY QualitySteps, QualityTyped
<1>4. Quality!TypeOK /\ [Next]_vars => [Ordered]_(Quality!vars)
  <2>. SUFFICES ASSUME Quality!TypeOK, Quality!Next, ~Quality!ChooseSettings
                PROVE  /\ quality' > quality => effFps <= 10
                       /\ effFps' > effFps /\ setting = Automatic => quality = 0
    BY QualitySteps
  <2>1. effFps \in Nat /\ quality \in 0..3
    BY QualityAssumed DEF Quality!TypeOK, Quality!AdaptAssumption
  <2>2. CASE Quality!Congested /\ Quality!CanSlowDown
    BY <2>1, <2>2 DEF Quality!Congested, Quality!CanSlowDown, Quality!Most
  <2>3. CASE Quality!Congested /\ ~Quality!CanSlowDown
    BY <2>1, <2>3 DEF Quality!Congested, Quality!CanSlowDown
  <2>4. CASE Quality!Smooth
    BY <2>1, <2>4 DEF Quality!Smooth, Quality!Restore, Quality!ColoursLost
  <2>5. CASE Quality!Mixed \/ Quality!Recover
    BY <2>1, <2>5 DEF Quality!Mixed, Quality!Recover
  <2>. QED
    BY <2>2, <2>3, <2>4, <2>5 DEF Quality!Next
<1>. QED
  BY <1>1, <1>2, <1>3, <1>4, PTL DEF RateBeforeColour, Quality!RateBeforeColour


-----------------------------------------------------------------------------
(* Uploads (Upload).                                                       *)

\* Every set of numbers that is not empty has a least element.
LEMMA LeastNumber ==
  ASSUME NEW S, S \subseteq Nat, S # {}
  PROVE  \E x \in S : \A y \in S : x <= y
<1>1. PICK x \in S : \A y \in Nat : <<y, x>> \in OpToRel(<, Nat) => y \notin S
  BY NatLessThanWellFounded, WFMin
<1>2. \A y \in S : ~(y < x)
  BY <1>1 DEF OpToRel
<1>. QED
  BY <1>2

Path == Uploads!Path
File ==
  [id : Nat, name : Name, size : Nat, real : Nat, fails : BOOLEAN, sent : Nat, begun : BOOLEAN, done : BOOLEAN]
Begins == [is : {"begin"}, id : Nat, name : Name, size : Nat]
Chunks == [is : {"chunk"}, id : Nat, n : Nat]
Ends == [is : {"end"}, id : Nat]
Sendings == Begins \cup Chunks \cup Ends
Results == [is : {"result"}, id : Nat, ok : BOOLEAN, path : Path \cup {Uploads!NoPath}]
Roles == [is : {"role"}, only : BOOLEAN]
Answers == Results \cup Roles
OpenFile == [id : Nat, path : Path, size : Nat, got : Nat]

UploadTypes ==
  /\ queue \in [Conn -> Seq(File)] /\ nextId \in [Conn -> Nat]
  /\ onlyHere \in [Conn -> BOOLEAN]
  /\ sending \in [Conn -> Seq(Sendings)] /\ answers \in [Conn -> Seq(Answers)]
  /\ open \in [Conn -> SUBSET OpenFile]
  /\ DOMAIN disk = Path /\ overwritten \in SUBSET Path

\* The path of a new upload is one of its name, and free if one is.
LEMMA PathIsFree ==
  ASSUME NEW n \in Name
  PROVE  /\ Uploads!FreePath(n) \in Path
         /\ Uploads!NoneFree(n) \/ disk[Uploads!FreePath(n)] = Uploads!Absent
<1>1. MaxNumber \in Nat
  BY UploadsAssumed DEF Uploads!UploadAssumption
<1>2. CASE Uploads!NoneFree(n)
  BY <1>1, <1>2 DEF Uploads!FreePath, Path, Uploads!Path
<1>3. CASE ~Uploads!NoneFree(n)
  <2>. DEFINE S == {i \in 0..MaxNumber : disk[<<n, i>>] = Uploads!Absent}
  <2>1. S # {} /\ S \subseteq Nat
    BY <1>3 DEF Uploads!NoneFree
  <2>2. PICK x \in S : \A y \in S : x <= y
    BY <2>1, LeastNumber
  <2>3. \A j \in 0..(x - 1) : j \in 0..MaxNumber /\ ~(x <= j)
    BY <1>1, <2>2
  <2>4. x \in 0..MaxNumber /\ disk[<<n, x>>] = Uploads!Absent
        /\ \A j \in 0..(x - 1) : disk[<<n, j>>] # Uploads!Absent
    BY <2>2, <2>3
  <2>. DEFINE P(i) == /\ disk[<<n, i>>] = Uploads!Absent
                      /\ \A j \in 0..(i - 1) : disk[<<n, j>>] # Uploads!Absent
  <2>5. \E i \in 0..MaxNumber : P(i)
    BY <2>4
  <2>6. PICK k : k = CHOOSE i \in 0..MaxNumber : P(i)
    OBVIOUS
  <2>7. k \in 0..MaxNumber /\ P(k)
    BY <2>5, <2>6
  <2>8. Uploads!FreePath(n) = <<n, k>>
    BY <1>3, <2>6 DEF Uploads!FreePath
  <2>. QED
    BY <2>7, <2>8 DEF Path, Uploads!Path
<1>. QED
  BY <1>2, <1>3

\* The queue without an upload has no others than the queue.
LEMMA ErasedTyped ==
  ASSUME NEW q \in Seq(File), NEW id
  PROVE  Uploads!Erased(q, id) \in Seq(File)
<1>. DEFINE at == {i \in DOMAIN q : q[i].id = id}
            i == CHOOSE n \in at : TRUE
<1>1. CASE at = {}
  BY <1>1 DEF Uploads!Erased
<1>2. CASE at # {}
  <2>1. PICK n : n = i
    OBVIOUS
  <2>2. n \in 1..Len(q) /\ Len(q) \in Nat
    BY <1>2, <2>1
  <2>3. SubSeq(q, 1, n - 1) \in Seq(File) /\ SubSeq(q, n + 1, Len(q)) \in Seq(File)
    <3>1. \A m \in 1..(n - 1) : q[m] \in File
      BY <2>2
    <3>2. \A m \in (n + 1)..Len(q) : q[m] \in File
      BY <2>2
    <3>3. n - 1 \in Int /\ n + 1 \in Int /\ Len(q) \in Int
      BY <2>2
    <3>. QED
      BY <3>1, <3>2, <3>3, SubSeqProperties
  <2>4. Uploads!Erased(q, id) = SubSeq(q, 1, n - 1) \o SubSeq(q, n + 1, Len(q))
    BY <1>2, <2>1 DEF Uploads!Erased
  <2>. QED
    BY <2>3, <2>4
<1>. QED
  BY <1>1, <1>2

\* What pump_uploads sends is of the right kind.
LEMMA SendsTyped ==
  ASSUME NEW u \in File, NEW k \in Nat, NEW end
  PROVE  /\ Uploads!Announced(u) \in Seq(Sendings) /\ Uploads!ReadOut(u, k) \in Seq(Sendings)
         /\ Uploads!Ended(u, end) \in Seq(Sendings)
<1>1. u.id \in Nat /\ u.name \in Name /\ u.size \in Nat
  BY DEF File
<1>2. [is |-> "begin", id |-> u.id, name |-> u.name, size |-> u.size] \in Sendings
  <2>1. [is |-> "begin", id |-> u.id, name |-> u.name, size |-> u.size] \in Begins
    BY <1>1 DEF Begins
  <2>. QED
    BY <2>1 DEF Sendings
<1>3. Uploads!More(u, k) \in Nat
  BY DEF Uploads!More
<1>4. \A n \in Nat : [is |-> "chunk", id |-> u.id, n |-> n] \in Sendings
  <2>1. \A n \in Nat : [is |-> "chunk", id |-> u.id, n |-> n] \in Chunks
    BY <1>1 DEF Chunks
  <2>. QED
    BY <2>1 DEF Sendings
<1>5. [is |-> "end", id |-> u.id] \in Sendings
  <2>1. [is |-> "end", id |-> u.id] \in Ends
    BY <1>1 DEF Ends
  <2>. QED
    BY <2>1 DEF Sendings
<1>6. Uploads!Announced(u) \in Seq(Sendings)
  BY <1>2 DEF Uploads!Announced
<1>7. Uploads!ReadOut(u, k) \in Seq(Sendings)
  <2>1. \A j \in 1..k : (IF j = k THEN 1 + Uploads!More(u, k) ELSE 1) \in Nat
    BY <1>3
  <2>. QED
    BY <1>4, <2>1 DEF Uploads!ReadOut
<1>8. Uploads!Ended(u, end) \in Seq(Sendings)
  BY <1>5 DEF Uploads!Ended
<1>. QED
  BY <1>6, <1>7, <1>8

\* pump_uploads keeps the types.
LEMMA PumpTyped ==
  ASSUME UploadTypes, NEW c \in Conn, Uploads!Pump(c)
  PROVE  UploadTypes'
<1>0. PICK i \in Uploads!Current(c) : \E n \in 0..queue[c][i].size : Uploads!PumpFile(c, i, n)
  BY DEF Uploads!Pump
<1>1. PICK k \in 0..queue[c][i].size : Uploads!PumpFile(c, i, k)
  BY <1>0
<1>2. k \in Nat
  <2>1. queue[c][i].size \in Nat
    <3>1. queue[c] \in Seq(File) /\ i \in 1..Len(queue[c])
      BY DEF UploadTypes, Uploads!Current
    <3>2. queue[c][i] \in File
      BY <3>1
    <3>. QED
      BY <3>2 DEF File
  <2>. QED
    BY <2>1
<1>3. queue[c] \in Seq(File) /\ i \in 1..Len(queue[c]) /\ sending[c] \in Seq(Sendings)
  BY DEF UploadTypes, Uploads!Current
<1>4. PICK u \in File : u = queue[c][i]
  BY <1>3
<1>5. PICK sent : sent = u.sent + k + Uploads!More(u, k)
  OBVIOUS
<1>6. sent \in Nat
  BY <1>2, <1>5 DEF File, Uploads!More
<1>7. PICK end \in BOOLEAN :
        /\ sending' = [sending EXCEPT ![c] =
             @ \o Uploads!Announced(u) \o Uploads!ReadOut(u, k) \o Uploads!Ended(u, end)]
        /\ queue' = [queue EXCEPT ![c][i] = [u EXCEPT !.sent = sent, !.begun = TRUE, !.done = end]]
  BY <1>1, <1>4, <1>5 DEF Uploads!PumpFile, Uploads!EndSent
<1>8. [u EXCEPT !.sent = sent, !.begun = TRUE, !.done = end] \in File
  <2>1. PICK a \in File : a = [u EXCEPT !.sent = sent]
    BY <1>6 DEF File
  <2>2. PICK b \in File : b = [a EXCEPT !.begun = TRUE]
    BY DEF File
  <2>3. [b EXCEPT !.done = end] \in File
    BY DEF File
  <2>4. [b EXCEPT !.done = end] = [u EXCEPT !.sent = sent, !.begun = TRUE, !.done = end]
    BY <2>1, <2>2
  <2>. QED
    BY <2>3, <2>4
<1>9. sending' \in [Conn -> Seq(Sendings)]
  <2>1. PICK w \in Seq(Sendings) :
          w = sending[c] \o Uploads!Announced(u) \o Uploads!ReadOut(u, k) \o Uploads!Ended(u, end)
    <3>1. /\ Uploads!Announced(u) \in Seq(Sendings) /\ Uploads!ReadOut(u, k) \in Seq(Sendings)
          /\ Uploads!Ended(u, end) \in Seq(Sendings)
      BY <1>2, SendsTyped
    <3>2. PICK x \in Seq(Sendings), y \in Seq(Sendings), z \in Seq(Sendings) :
            x = Uploads!Announced(u) /\ y = Uploads!ReadOut(u, k) /\ z = Uploads!Ended(u, end)
      BY <3>1
    <3>3. sending[c] \o x \o y \o z \in Seq(Sendings)
      BY <1>3
    <3>. QED
      BY <3>2, <3>3
  <2>2. sending' = [sending EXCEPT ![c] = w]
    BY <1>7, <2>1
  <2>. QED
    BY <2>2 DEF UploadTypes
<1>10. queue' \in [Conn -> Seq(File)]
  <2>1. PICK v \in File : v = [u EXCEPT !.sent = sent, !.begun = TRUE, !.done = end]
    BY <1>8
  <2>2. queue' = [queue EXCEPT ![c] = [queue[c] EXCEPT ![i] = v]]
    BY <1>7, <2>1
  <2>3. [queue[c] EXCEPT ![i] = v] \in Seq(File)
    BY <1>3
  <2>. QED
    BY <2>2, <2>3 DEF UploadTypes
<1>. QED
  BY <1>9, <1>10 DEF UploadTypes, Uploads!Pump

\* The other operations keep the types.
LEMMA DropTyped ==
  ASSUME UploadTypes, NEW c \in Conn, Uploads!Drop(c)
  PROVE  UploadTypes'
<1>1. PICK n \in Name, size \in Sizes, change \in {-1, 0, 1}, fails \in BOOLEAN :
        /\ size + change >= 0 /\ (fails => change < 0)
        /\ queue' = [queue EXCEPT ![c] = Append(@,
             [id |-> nextId[c], name |-> n, size |-> size, real |-> size + change, fails |-> fails, sent |-> 0,
              begun |-> FALSE, done |-> FALSE])]
  BY Zenon DEF Uploads!Drop
<1>2. size \in Nat /\ size + change \in Nat /\ nextId[c] \in Nat
  BY <1>1, UploadsAssumed DEF Uploads!UploadAssumption, UploadTypes
<1>3. PICK u \in File :
        u = [id |-> nextId[c], name |-> n, size |-> size, real |-> size + change, fails |-> fails, sent |-> 0,
             begun |-> FALSE, done |-> FALSE]
  BY <1>2 DEF File
<1>4. queue[c] \in Seq(File) /\ Append(queue[c], u) \in Seq(File)
  BY DEF UploadTypes
<1>5. queue' \in [Conn -> Seq(File)]
  BY <1>1, <1>3, <1>4 DEF UploadTypes
<1>6. nextId' \in [Conn -> Nat]
  BY <1>2 DEF UploadTypes, Uploads!Drop
<1>. QED
  BY <1>5, <1>6 DEF UploadTypes, Uploads!Drop

\* A message about a file keeps the types.
LEMMA ReceiveTyped ==
  ASSUME UploadTypes, NEW c \in Conn, Uploads!Receive(c)
  PROVE  UploadTypes'
<1>1. answers' \in [Conn -> Seq(Answers)]
  <2>1. answers[c] \in Seq(Answers) /\ answers[c] # <<>>
    BY DEF UploadTypes, Uploads!Receive
  <2>2. Tail(answers[c]) \in Seq(Answers)
    BY <2>1
  <2>. QED
    BY <2>2 DEF UploadTypes, Uploads!Receive
<1>2. queue' \in [Conn -> Seq(File)]
  <2>1. PICK id : queue' = queue \/ queue' = [queue EXCEPT ![c] = Uploads!Erased(queue[c], id)]
    BY DEF Uploads!Receive
  <2>2. queue[c] \in Seq(File)
    BY DEF UploadTypes
  <2>3. Uploads!Erased(queue[c], id) \in Seq(File)
    BY <2>2, ErasedTyped
  <2>. QED
    BY <2>1, <2>3 DEF UploadTypes
<1>. QED
  BY <1>1, <1>2 DEF UploadTypes, Uploads!Receive

\* A viewer that leaves keeps the types.
LEMMA LeaveTyped ==
  ASSUME UploadTypes, NEW c \in Conn, Uploads!Leave(c)
  PROVE  UploadTypes'
<1>1. queue' \in [Conn -> Seq(File)] /\ answers' \in [Conn -> Seq(Answers)]
  BY DEF UploadTypes, Uploads!Leave
<1>. QED
  BY <1>1 DEF UploadTypes, Uploads!Leave

\* A change of rights keeps the types.
LEMMA RoleTyped ==
  ASSUME UploadTypes, NEW c \in Conn, Uploads!ChangeRole(c)
  PROVE  UploadTypes'
<1>1. onlyHere[c] \in BOOLEAN /\ (~onlyHere[c]) \in BOOLEAN /\ answers[c] \in Seq(Answers)
  BY DEF UploadTypes
<1>2. PICK r \in Roles : r = [is |-> "role", only |-> ~onlyHere[c]]
  BY <1>1 DEF Roles
<1>3. Append(answers[c], r) \in Seq(Answers)
  BY <1>1 DEF Answers
<1>4. answers' \in [Conn -> Seq(Answers)]
  BY <1>2, <1>3 DEF UploadTypes, Uploads!ChangeRole
<1>5. onlyHere' \in [Conn -> BOOLEAN]
  BY <1>1 DEF UploadTypes, Uploads!ChangeRole
<1>. QED
  BY <1>4, <1>5 DEF UploadTypes, Uploads!ChangeRole

\* Reaping a viewer keeps the types.
LEMMA ReapTyped ==
  ASSUME UploadTypes, NEW c \in Conn, Uploads!Reap(c)
  PROVE  UploadTypes'
<1>1. open' \in [Conn -> SUBSET OpenFile] /\ sending' \in [Conn -> Seq(Sendings)]
  BY DEF UploadTypes, Uploads!Reap
<1>2. DOMAIN disk' = Path
  BY DEF Uploads!Reap, Uploads!Removed, Path
<1>. QED
  BY <1>1, <1>2 DEF UploadTypes, Uploads!Reap

\* What FILE_RESULT adds to the messages to a viewer.
LEMMA ResultTyped ==
  ASSUME UploadTypes, NEW c \in Conn, NEW id \in Nat, NEW ok \in BOOLEAN,
         NEW p \in Path \cup {Uploads!NoPath}, Uploads!Result(c, id, ok, p)
  PROVE  /\ answers' \in [Conn -> Seq(Answers)]
         /\ \E r \in Results :
              /\ r = [is |-> "result", id |-> id, ok |-> ok, path |-> p]
              /\ answers' = answers \/ answers' = [answers EXCEPT ![c] = Append(@, r)]
<1>1. PICK r \in Results : r = [is |-> "result", id |-> id, ok |-> ok, path |-> p]
  BY DEF Results
<1>2. answers[c] \in Seq(Answers) /\ Append(answers[c], r) \in Seq(Answers)
  BY DEF UploadTypes, Answers
<1>3. answers' = answers \/ answers' = [answers EXCEPT ![c] = Append(@, r)]
  BY <1>1 DEF Uploads!Result
<1>. QED
  BY <1>1, <1>2, <1>3 DEF UploadTypes

\* Who has a path open, and what must be on disk then.
Free(p) == \A c \in Conn : \A u \in open[c] : u.path # p
Image(c, u) == [by |-> Uploads!Key(c, u.id), got |-> u.got, of |-> u.size]
Holds(c, u, p) ==
  /\ u \in open[c] /\ u.path = p /\ disk[p] = Image(c, u)
  /\ \A d \in Conn : \A v \in open[d] : v.path = p => d = c /\ v = u

\* A path is whole, or cut short, or one upload alone has it open and all on disk is its own;
\* unless it was opened again when every number was taken.
Sound(p) ==
  p \in overwritten \/ (Free(p) /\ Uploads!AsClosed(p)) \/ (\E c \in Conn, u \in OpenFile : Holds(c, u, p))

\* What a viewer was told of an upload stays true.
Told(key, p) ==
  p \in Path /\ (p \in overwritten \/ (key # <<>> /\ disk[p].by = key /\ Uploads!AsClosed(p) /\ Free(p)))

Among(w) == {w[n] : n \in 1..Len(w)}
IsResult(m) == m.is = "result" /\ m.ok

UploadSound ==
  /\ \A p \in Path : Sound(p)
  /\ \A s \in saved : Told(s.by, s.path)
  /\ \A c \in Conn : \A m \in Among(answers[c]) : IsResult(m) => Told(Uploads!Key(c, m.id), m.path)

UploadInv == UploadTypes /\ UploadSound

\* A step that has to do with some paths only.
Spares(p) ==
  /\ disk'[p] = disk[p]
  /\ \A c \in Conn : \A u : u.path = p => (u \in open'[c] <=> u \in open[c])

\* What a step is told to do: it spares all but the paths of T, none of which a
\* viewer was told of, and leaves those sound; a new result is true.
UploadStep(T) ==
  /\ overwritten \subseteq overwritten' /\ cut \subseteq cut'
  /\ \A p \in Path \ T : Spares(p)
  /\ \A p \in T \cap Path : Sound(p)' /\ (p \in overwritten' \/ disk[p] = Uploads!Absent \/ ~Free(p))
  /\ \A s \in saved' : s \in saved \/ \E c \in Conn, m \in Results :
       m \in Among(answers[c]) /\ m.ok /\ s.by = Uploads!Key(c, m.id) /\ s.path = m.path
  /\ \A c \in Conn : \A m \in Among(answers'[c]) :
       m \in Among(answers[c]) \/ (IsResult(m) => Told(Uploads!Key(c, m.id), m.path)')

\* A step of the form that the actions of Upload have keeps the invariant.
LEMMA UploadSteps ==
  ASSUME UploadInv, UploadTypes', NEW T, UploadStep(T)
  PROVE  UploadInv'
<1>1. overwritten \subseteq overwritten' /\ cut \subseteq cut' /\ \A p \in Path \ T : Spares(p)
  BY DEF UploadStep
<1>2. \A p \in Path : Spares(p) => (Free(p)' <=> Free(p)) /\ (Uploads!AsClosed(p) => Uploads!AsClosed(p)')
  BY <1>1 DEF Spares, Free, Uploads!Whole, Uploads!AsClosed
<1>3. \A key : \A p \in Path : Told(key, p) => Told(key, p)'
  <2>. SUFFICES ASSUME NEW key, NEW p \in Path, Told(key, p), p \notin overwritten' PROVE Told(key, p)'
    BY DEF Told
  <2>1. key # <<>> /\ disk[p].by = key /\ Uploads!AsClosed(p) /\ Free(p)
    BY <1>1 DEF Told
  <2>2. p \notin T
    <3>1. disk[p] # Uploads!Absent
      BY <2>1 DEF Uploads!Absent
    <3>. QED
      BY <2>1, <3>1 DEF UploadStep
  <2>3. Spares(p)
    BY <1>1, <2>2
  <2>4. disk'[p] = disk[p]
    BY <2>3 DEF Spares
  <2>. QED
    BY <1>2, <2>1, <2>3, <2>4 DEF Told
<1>4. ASSUME NEW p \in Path, p \notin T, Sound(p) PROVE Sound(p)'
  <2>1. Spares(p)
    BY <1>1, <1>4
  <2>2. CASE p \in overwritten
    BY <1>1, <2>2 DEF Sound
  <2>3. CASE Free(p) /\ Uploads!AsClosed(p)
    BY <1>2, <2>1, <2>3 DEF Sound
  <2>4. ASSUME NEW c \in Conn, NEW u \in OpenFile, Holds(c, u, p) PROVE Holds(c, u, p)'
    <3>1. u \in open[c] /\ u.path = p /\ disk[p] = Image(c, u)
      BY <2>4 DEF Holds
    <3>2. u \in open'[c] /\ disk'[p] = Image(c, u)
      BY <2>1, <3>1 DEF Spares
    <3>3. \A d \in Conn : \A v \in open'[d] : v.path = p => d = c /\ v = u
      BY <2>1, <2>4 DEF Holds, Spares
    <3>. QED
      BY <3>1, <3>2, <3>3 DEF Holds, Image
  <2>. QED
    BY <1>4, <2>2, <2>3, <2>4 DEF Sound
<1>5. \A p \in Path : Sound(p)'
  BY <1>4 DEF UploadStep, UploadInv, UploadSound
<1>6. ASSUME NEW s \in saved' PROVE Told(s.by, s.path)'
  <2>1. Told(s.by, s.path)
    <3>1. CASE s \in saved
      BY <3>1 DEF UploadInv, UploadSound
    <3>2. CASE s \notin saved
      <4>1. PICK c \in Conn, m \in Results :
              m \in Among(answers[c]) /\ m.ok /\ s.by = Uploads!Key(c, m.id) /\ s.path = m.path
        BY <1>6, <3>2 DEF UploadStep
      <4>2. IsResult(m)
        BY <4>1 DEF IsResult, Results
      <4>3. Told(Uploads!Key(c, m.id), m.path)
        BY <4>1, <4>2 DEF UploadInv, UploadSound
      <4>. QED
        BY <4>1, <4>3
    <3>. QED
      BY <3>1, <3>2
  <2>. QED
    BY <1>3, <2>1 DEF Told
<1>7. ASSUME NEW c \in Conn, NEW m \in Among(answers'[c]), IsResult(m)
      PROVE  Told(Uploads!Key(c, m.id), m.path)'
  <2>1. CASE m \in Among(answers[c])
    <3>1. Told(Uploads!Key(c, m.id), m.path)
      BY <1>7, <2>1 DEF UploadInv, UploadSound
    <3>. QED
      BY <1>3, <3>1 DEF Told
  <2>2. CASE m \notin Among(answers[c])
    BY <1>7, <2>2 DEF UploadStep
  <2>. QED
    BY <2>1, <2>2
<1>8. UploadSound'
  BY <1>5, <1>6, <1>7 DEF UploadSound
<1>. QED
  BY <1>8 DEF UploadInv

\* The members of a sequence with one answer more.
LEMMA AmongAppend ==
  ASSUME NEW w \in Seq(Answers), NEW m \in Answers
  PROVE  Among(Append(w, m)) = Among(w) \cup {m}
<1>1. Len(Append(w, m)) = Len(w) + 1 /\ Len(w) \in Nat /\ Append(w, m)[Len(w) + 1] = m
  OBVIOUS
<1>2. \A n \in 1..Len(w) : Append(w, m)[n] = w[n]
  OBVIOUS
<1>. QED
  BY <1>1, <1>2 DEF Among

\* The members of a sequence without its first answer.
LEMMA AmongTail ==
  ASSUME NEW w \in Seq(Answers), w # <<>>
  PROVE  Head(w) \in Among(w) /\ Head(w) \in Answers /\ Among(Tail(w)) \subseteq Among(w)
<1>1. Len(Tail(w)) = Len(w) - 1 /\ Len(w) \in Nat /\ Len(w) > 0
  OBVIOUS
<1>2. \A n \in 1..Len(Tail(w)) : Tail(w)[n] = w[n + 1] /\ n + 1 \in 1..Len(w)
  BY <1>1
<1>3. Head(w) = w[1] /\ 1 \in 1..Len(w)
  BY <1>1
<1>. QED
  BY <1>1, <1>2, <1>3 DEF Among

\* What is left alone is spared.
LEMMA LeftAlone ==
  ASSUME UNCHANGED <<disk, open>>
  PROVE  \A p \in Path : Spares(p)
  BY DEF Spares

\* Steps of the viewer and of the connection touch no file.
LEMMA DropSteps ==
  ASSUME UploadInv, NEW c \in Conn, Uploads!Drop(c)
  PROVE  UploadInv'
<1>1. UploadTypes'
  BY DropTyped DEF UploadInv
<1>2. UploadStep({})
  BY LeftAlone DEF UploadStep, Uploads!Drop
<1>. QED
  BY <1>1, <1>2, UploadSteps

\* pump_uploads sends a part of a file, and keeps the invariant.
LEMMA PumpSteps ==
  ASSUME UploadInv, NEW c \in Conn, Uploads!Pump(c)
  PROVE  UploadInv'
<1>1. UploadTypes'
  BY PumpTyped DEF UploadInv
<1>2. UploadStep({})
  BY LeftAlone DEF UploadStep, Uploads!Pump
<1>. QED
  BY <1>1, <1>2, UploadSteps

\* The host that reads a part of a file keeps the invariant.
LEMMA ReceiveSteps ==
  ASSUME UploadInv, NEW c \in Conn, Uploads!Receive(c)
  PROVE  UploadInv'
<1>1. UploadTypes'
  BY ReceiveTyped DEF UploadInv
<1>2. UNCHANGED <<disk, open, cut, overwritten>>
  BY DEF Uploads!Receive
<1>3. PICK m : m = Head(answers[c])
  OBVIOUS
<1>4. answers[c] \in Seq(Answers) /\ answers[c] # <<>>
  BY DEF UploadInv, UploadTypes, Uploads!Receive
<1>5. m \in Among(answers[c]) /\ m \in Answers /\ Among(Tail(answers[c])) \subseteq Among(answers[c])
  BY <1>3, <1>4, AmongTail
<1>6. \A d \in Conn : Among(answers'[d]) \subseteq Among(answers[d])
  <2>1. answers' = [answers EXCEPT ![c] = Tail(answers[c])]
    BY DEF Uploads!Receive
  <2>2. \A d \in Conn : answers'[d] = IF d = c THEN Tail(answers[c]) ELSE answers[d]
    BY <2>1 DEF UploadInv, UploadTypes
  <2>. QED
    BY <1>5, <2>2
<1>7. \A s \in saved' : s \in saved \/ \E d \in Conn, r \in Results :
        r \in Among(answers[d]) /\ r.ok /\ s.by = Uploads!Key(d, r.id) /\ s.path = r.path
  <2>1. CASE m.is = "role"
    BY <1>3, <2>1 DEF Uploads!Receive
  <2>2. CASE m.is = "result"
    <3>1. m \in Results
      BY <1>5, <2>2 DEF Answers, Roles
    <3>2. saved' = IF m.ok THEN saved \cup {[by |-> Uploads!Key(c, m.id), path |-> m.path]} ELSE saved
      BY <1>3, <2>2 DEF Uploads!Receive
    <3>. QED
      BY <1>5, <3>1, <3>2
  <2>. QED
    BY <1>3, <2>1, <2>2 DEF Uploads!Receive
<1>8. UploadStep({})
  BY <1>2, <1>6, <1>7, LeftAlone DEF UploadStep
<1>. QED
  BY <1>1, <1>8, UploadSteps

\* A viewer that leaves keeps the invariant.
LEMMA LeaveSteps ==
  ASSUME UploadInv, NEW c \in Conn, Uploads!Leave(c)
  PROVE  UploadInv'
<1>1. UploadTypes'
  BY LeaveTyped DEF UploadInv
<1>2. \A d \in Conn : answers'[d] = answers[d] \/ answers'[d] = <<>>
  BY DEF UploadInv, UploadTypes, Uploads!Leave
<1>3. Among(<<>>) = {}
  BY DEF Among
<1>4. UploadStep({})
  BY <1>2, <1>3, LeftAlone DEF UploadStep, Uploads!Leave
<1>. QED
  BY <1>1, <1>4, UploadSteps

\* A change of rights keeps the invariant.
LEMMA RoleSteps ==
  ASSUME UploadInv, NEW c \in Conn, Uploads!ChangeRole(c)
  PROVE  UploadInv'
<1>1. UploadTypes'
  BY RoleTyped DEF UploadInv
<1>2. PICK r \in Roles : r = [is |-> "role", only |-> ~onlyHere[c]]
  <2>1. (~onlyHere[c]) \in BOOLEAN
    OBVIOUS
  <2>. QED
    BY <2>1 DEF Roles
<1>3. answers[c] \in Seq(Answers) /\ r \in Answers /\ ~IsResult(r)
  BY DEF UploadInv, UploadTypes, Answers, Roles, IsResult
<1>4. Among(Append(answers[c], r)) = Among(answers[c]) \cup {r}
  BY <1>3, AmongAppend
<1>5. \A d \in Conn : answers'[d] = answers[d] \/ (d = c /\ answers'[d] = Append(answers[c], r))
  <2>1. answers' = answers \/ answers' = [answers EXCEPT ![c] = Append(answers[c], r)]
    BY <1>2 DEF Uploads!ChangeRole
  <2>. QED
    BY <2>1 DEF UploadInv, UploadTypes
<1>6. \A d \in Conn : \A m \in Among(answers'[d]) : m \in Among(answers[d]) \/ ~IsResult(m)
  BY <1>3, <1>4, <1>5
<1>7. UploadStep({})
  BY <1>6, LeftAlone DEF UploadStep, Uploads!ChangeRole
<1>. QED
  BY <1>1, <1>7, UploadSteps

\* What was sending to a path when its connection is reaped had it alone.
LEMMA ReapSteps ==
  ASSUME UploadInv, NEW c \in Conn, Uploads!Reap(c)
  PROVE  UploadInv'
<1>1. UploadTypes'
  BY ReapTyped DEF UploadInv
<1>. DEFINE T == {u.path : u \in open[c]}
<1>2. open \in [Conn -> SUBSET OpenFile] /\ open' = [open EXCEPT ![c] = {}]
  BY DEF UploadInv, UploadTypes, Uploads!Reap
<1>3. \A p \in Path : disk'[p] = IF p \in T THEN Uploads!Absent ELSE disk[p]
  BY DEF Uploads!Reap, Uploads!Removed, Path
<1>4. \A p \in Path \ T : Spares(p)
  <2>. SUFFICES ASSUME NEW p \in Path, p \notin T, NEW d \in Conn, NEW u, u.path = p
                PROVE  u \in open'[d] <=> u \in open[d]
    BY <1>3 DEF Spares
  <2>. QED
    BY <1>2
<1>5. ASSUME NEW p \in T \cap Path PROVE Sound(p)' /\ ~Free(p)
  <2>1. ~Free(p)
    BY DEF Free
  <2>2. CASE p \in overwritten
    BY <2>1, <2>2 DEF Sound, Uploads!Reap
  <2>3. CASE p \notin overwritten
    <3>1. PICK d \in Conn, u \in OpenFile : Holds(d, u, p)
      BY <2>1, <2>3 DEF UploadInv, UploadSound, Sound
    <3>2. d = c
      BY <3>1 DEF Holds
    <3>3. Free(p)'
      BY <1>2, <3>1, <3>2 DEF Free, Holds
    <3>4. Uploads!AsClosed(p)'
      <4>1. disk'[p] = Uploads!Absent
        BY <1>3
      <4>. QED
        BY <4>1 DEF Uploads!AsClosed, Uploads!Whole, Uploads!Absent, Uploads!Mixed
    <3>. QED
      BY <2>1, <3>3, <3>4 DEF Sound
  <2>. QED
    BY <2>2, <2>3
<1>6. UploadStep(T)
  BY <1>4, <1>5 DEF UploadStep, Uploads!Reap
<1>. QED
  BY <1>1, <1>6, UploadSteps

\* The messages to a viewer after a FILE_RESULT.
Tells(c, id, ok, p) ==
  \A d \in Conn : \A m \in Among(answers'[d]) :
    m \in Among(answers[d]) \/ (d = c /\ m.id = id /\ m.ok = ok /\ m.path = p)

\* upload_result adds one answer.
LEMMA ResultAdds ==
  ASSUME UploadTypes, NEW c \in Conn, NEW id \in Nat, NEW ok \in BOOLEAN,
         NEW p \in Path \cup {Uploads!NoPath}, Uploads!Result(c, id, ok, p)
  PROVE  answers' \in [Conn -> Seq(Answers)] /\ Tells(c, id, ok, p)
<1>1. answers' \in [Conn -> Seq(Answers)]
  BY ResultTyped
<1>2. PICK r \in Results :
        /\ r = [is |-> "result", id |-> id, ok |-> ok, path |-> p]
        /\ answers' = answers \/ answers' = [answers EXCEPT ![c] = Append(@, r)]
  BY ResultTyped
<1>3. answers[c] \in Seq(Answers) /\ r \in Answers
  BY DEF UploadTypes, Answers
<1>4. Among(Append(answers[c], r)) = Among(answers[c]) \cup {r}
  BY <1>3, AmongAppend
<1>5. \A d \in Conn : answers'[d] = answers[d] \/ (d = c /\ answers'[d] = Append(answers[c], r))
  BY <1>2 DEF UploadTypes
<1>6. ASSUME NEW d \in Conn, NEW m \in Among(answers'[d]) PROVE m \in Among(answers[d]) \/ (d = c /\ m = r)
  <2>1. CASE answers'[d] = answers[d]
    BY <2>1
  <2>2. CASE d = c /\ answers'[d] = Append(answers[c], r)
    <3>1. m \in Among(Append(answers[c], r))
      BY <2>2
    <3>. QED
      BY <1>4, <2>2, <3>1
  <2>. QED
    BY <1>5, <2>1, <2>2
<1>7. r.id = id /\ r.ok = ok /\ r.path = p
  BY <1>2
<1>. QED
  BY <1>1, <1>6, <1>7 DEF Tells

\* BEGIN: refused, or a path of its own for the new upload.
LEMMA RejectSteps ==
  ASSUME UploadInv, NEW c \in Conn, NEW id \in Nat, Uploads!Reject(c, id),
         sending' \in [Conn -> Seq(Sendings)], UNCHANGED <<queue, nextId, onlyHere, cut, saved>>
  PROVE  UploadInv'
<1>1. Uploads!Result(c, id, FALSE, Uploads!NoPath) /\ UNCHANGED <<open, disk, overwritten>>
  BY DEF Uploads!Reject
<1>2. answers' \in [Conn -> Seq(Answers)] /\ Tells(c, id, FALSE, Uploads!NoPath)
  <2>1. UploadTypes /\ FALSE \in BOOLEAN /\ Uploads!NoPath \in Path \cup {Uploads!NoPath}
    BY DEF UploadInv
  <2>. QED
    BY <1>1, <2>1, ResultAdds
<1>3. UploadTypes'
  BY <1>1, <1>2 DEF UploadInv, UploadTypes
<1>4. UploadStep({})
  <2>1. \A d \in Conn : \A m \in Among(answers'[d]) : m \in Among(answers[d]) \/ ~IsResult(m)
    BY <1>2 DEF Tells, IsResult
  <2>. QED
    BY <1>1, <2>1, LeftAlone DEF UploadStep
<1>. QED
  BY <1>3, <1>4, UploadSteps

\* begin_upload that opens a path keeps the invariant.
LEMMA BeginSteps ==
  ASSUME UploadInv, NEW c \in Conn, NEW m \in Begins, ~Uploads!Reject(c, m.id), Uploads!Begin(c, m),
         sending' \in [Conn -> Seq(Sendings)], UNCHANGED <<queue, nextId, onlyHere, cut, saved>>
  PROVE  UploadInv'
<1>1. m.id \in Nat /\ m.name \in Name /\ m.size \in Nat
  BY DEF Begins
<1>2. PICK p \in Path :
        /\ p = Uploads!FreePath(m.name)
        /\ Uploads!NoneFree(m.name) \/ disk[p] = Uploads!Absent
  BY <1>1, PathIsFree
<1>3. /\ open' = [open EXCEPT ![c] = @ \cup {[id |-> m.id, path |-> p, size |-> m.size, got |-> 0]}]
      /\ disk' = [disk EXCEPT ![p] = [by |-> Uploads!Key(c, m.id), got |-> 0, of |-> m.size]]
      /\ overwritten' = IF Uploads!NoneFree(m.name) THEN overwritten \cup {p} ELSE overwritten
      /\ answers' = answers
  BY <1>2 DEF Uploads!Begin
<1>4. PICK u \in OpenFile : u = [id |-> m.id, path |-> p, size |-> m.size, got |-> 0]
  BY <1>1 DEF OpenFile
<1>5. u.id = m.id /\ u.path = p /\ u.size = m.size /\ u.got = 0
  BY <1>4
<1>6. open \in [Conn -> SUBSET OpenFile] /\ DOMAIN disk = Path /\ overwritten \in SUBSET Path
  BY DEF UploadInv, UploadTypes
<1>7. open'[c] = open[c] \cup {u} /\ \A d \in Conn : d # c => open'[d] = open[d]
  BY <1>3, <1>4, <1>6
<1>8. UploadTypes'
  <2>1. open' \in [Conn -> SUBSET OpenFile]
    BY <1>3, <1>4, <1>6
  <2>2. DOMAIN disk' = Path
    BY <1>3, <1>6
  <2>3. overwritten' \in SUBSET Path
    BY <1>3, <1>6
  <2>. QED
    BY <1>3, <2>1, <2>2, <2>3 DEF UploadInv, UploadTypes
<1>9. \A q \in Path \ {p} : Spares(q)
  <2>. SUFFICES ASSUME NEW q \in Path, q # p PROVE Spares(q)
    OBVIOUS
  <2>1. disk'[q] = disk[q]
    BY <1>3, <1>6
  <2>2. \A d \in Conn : \A v : v.path = q => (v \in open'[d] <=> v \in open[d])
    BY <1>5, <1>7
  <2>. QED
    BY <2>1, <2>2 DEF Spares
<1>10. Sound(p)' /\ (p \in overwritten' \/ disk[p] = Uploads!Absent)
  <2>1. CASE Uploads!NoneFree(m.name)
    BY <1>3, <2>1 DEF Sound
  <2>2. CASE p \in overwritten
    BY <1>3, <2>2 DEF Sound
  <2>3. CASE ~Uploads!NoneFree(m.name) /\ p \notin overwritten
    <3>1. disk[p] = Uploads!Absent
      BY <1>2, <2>3
    <3>2. Free(p)
      <4>1. ASSUME NEW d \in Conn, NEW v \in OpenFile, Holds(d, v, p) PROVE FALSE
        <5>1. disk[p].by = <<d, v.id>>
          BY <4>1 DEF Holds, Image, Uploads!Key
        <5>. QED
          BY <3>1, <5>1 DEF Uploads!Absent
      <4>. QED
        BY <2>3, <4>1 DEF UploadInv, UploadSound, Sound
    <3>3. disk'[p] = [by |-> Uploads!Key(c, m.id), got |-> 0, of |-> m.size]
      BY <1>3, <1>6
    <3>4. Holds(c, u, p)'
      <4>1. \A d \in Conn : \A v \in open'[d] : v.path = p => d = c /\ v = u
        BY <1>7, <3>2 DEF Free
      <4>. QED
        BY <1>5, <1>7, <3>3, <4>1 DEF Holds, Image
    <3>. QED
      BY <3>1, <3>4 DEF Sound
  <2>. QED
    BY <2>1, <2>2, <2>3, <1>2, <1>3
<1>11. UploadStep({p})
  BY <1>3, <1>9, <1>10 DEF UploadStep
<1>. QED
  BY <1>8, <1>11, UploadSteps

\* fwrite adds to what is the upload's own.
LEMMA WrittenIs ==
  ASSUME NEW p \in DOMAIN disk, NEW k, NEW g, NEW s, k # <<>>,
         disk[p] = [by |-> k, got |-> g, of |-> s]
  PROVE  \A n : Uploads!Written(p, k, n) = [disk EXCEPT ![p] = [by |-> k, got |-> g + n, of |-> s]]
<1>1. disk[p] # Uploads!Absent
  <2>1. disk[p].by # <<>>
    OBVIOUS
  <2>. QED
    BY <2>1 DEF Uploads!Absent
<1>. SUFFICES ASSUME NEW n
              PROVE  Uploads!Written(p, k, n) = [disk EXCEPT ![p] = [by |-> k, got |-> g + n, of |-> s]]
  OBVIOUS
<1>2. Uploads!Written(p, k, n)
        = [disk EXCEPT ![p] = [by |-> IF disk[p].by = k THEN k ELSE Uploads!Mixed, got |-> disk[p].got + n,
                               of |-> disk[p].of]]
  BY <1>1 DEF Uploads!Written
<1>3. disk[p].by = k /\ disk[p].got = g /\ disk[p].of = s
  OBVIOUS
<1>. QED
  BY <1>2, <1>3

\* An upload that has a path open has it alone, unless the path was opened again.
LEMMA OpenAlone ==
  ASSUME UploadInv, NEW c \in Conn, NEW u \in open[c]
  PROVE  /\ u \in OpenFile /\ u.path \in Path /\ ~Free(u.path)
         /\ u.path \in overwritten \/ Holds(c, u, u.path)
<1>1. u \in OpenFile
  BY DEF UploadInv, UploadTypes
<1>2. u.path \in Path
  BY <1>1 DEF OpenFile
<1>3. ~Free(u.path)
  BY DEF Free
<1>4. ASSUME u.path \notin overwritten PROVE Holds(c, u, u.path)
  <2>1. PICK d \in Conn, v \in OpenFile : Holds(d, v, u.path)
    BY <1>2, <1>3, <1>4 DEF UploadInv, UploadSound, Sound
  <2>2. d = c /\ v = u
    BY <2>1 DEF Holds
  <2>. QED
    BY <2>1, <2>2
<1>. QED
  BY <1>1, <1>2, <1>3, <1>4

\* A step on one open upload is about its path only.
LEMMA OthersSpared ==
  ASSUME UploadTypes, NEW c \in Conn, NEW u \in open[c], NEW W, \A w \in W : w.path = u.path,
         open' = [open EXCEPT ![c] = (@ \ {u}) \cup W],
         \A q \in Path \ {u.path} : disk'[q] = disk[q]
  PROVE  \A q \in Path \ {u.path} : Spares(q)
<1>1. open'[c] = (open[c] \ {u}) \cup W /\ \A d \in Conn : d # c => open'[d] = open[d]
  BY DEF UploadTypes
<1>. SUFFICES ASSUME NEW q \in Path, q # u.path PROVE Spares(q)
  OBVIOUS
<1>2. \A d \in Conn : \A v : v.path = q => (v \in open'[d] <=> v \in open[d])
  BY <1>1
<1>. QED
  BY <1>2 DEF Spares

\* An upload that fails leaves its path to nobody, and nothing there.
LEMMA FailSteps ==
  ASSUME UploadInv, NEW c \in Conn, NEW u \in open[c], Uploads!Fail(c, u),
         sending' \in [Conn -> Seq(Sendings)], UNCHANGED <<queue, nextId, onlyHere, cut, saved, overwritten>>
  PROVE  UploadInv'
<1>1. /\ disk' = [disk EXCEPT ![u.path] = Uploads!Absent]
      /\ open' = [open EXCEPT ![c] = @ \ {u}]
      /\ Uploads!Result(c, u.id, FALSE, Uploads!NoPath)
  BY DEF Uploads!Fail, Uploads!Failed, Uploads!Unlink
<1>2. /\ u \in OpenFile /\ u.path \in Path /\ ~Free(u.path)
      /\ u.path \in overwritten \/ Holds(c, u, u.path)
  BY OpenAlone
<1>3. open \in [Conn -> SUBSET OpenFile] /\ DOMAIN disk = Path /\ u.id \in Nat
  BY <1>2 DEF UploadInv, UploadTypes, OpenFile
<1>4. answers' \in [Conn -> Seq(Answers)] /\ Tells(c, u.id, FALSE, Uploads!NoPath)
  <2>1. UploadTypes /\ FALSE \in BOOLEAN /\ Uploads!NoPath \in Path \cup {Uploads!NoPath}
    BY DEF UploadInv
  <2>. QED
    BY <1>1, <1>3, <2>1, ResultAdds
<1>5. UploadTypes'
  <2>1. open' \in [Conn -> SUBSET OpenFile] /\ DOMAIN disk' = Path
    BY <1>1, <1>3
  <2>. QED
    BY <1>4, <2>1 DEF UploadInv, UploadTypes
<1>6. \A q \in Path \ {u.path} : Spares(q)
  <2>1. PICK W : W = {}
    OBVIOUS
  <2>2. open' = [open EXCEPT ![c] = (@ \ {u}) \cup W]
    BY <1>1, <2>1
  <2>3. \A q \in Path \ {u.path} : disk'[q] = disk[q]
    BY <1>1, <1>3
  <2>4. UploadTypes
    BY DEF UploadInv
  <2>5. \A w \in W : w.path = u.path
    BY <2>1
  <2>. QED
    BY <2>2, <2>3, <2>4, <2>5, OthersSpared
<1>7. Sound(u.path)'
  <2>1. CASE u.path \in overwritten
    BY <2>1 DEF Sound
  <2>2. CASE Holds(c, u, u.path)
    <3>1. Free(u.path)'
      BY <1>1, <1>3, <2>2 DEF Free, Holds
    <3>2. disk'[u.path] = Uploads!Absent
      BY <1>1, <1>2, <1>3
    <3>3. Uploads!AsClosed(u.path)'
      BY <3>2 DEF Uploads!AsClosed, Uploads!Whole, Uploads!Absent, Uploads!Mixed
    <3>. QED
      BY <3>1, <3>3 DEF Sound
  <2>. QED
    BY <1>2, <2>1, <2>2
<1>8. UploadStep({u.path})
  <2>1. \A d \in Conn : \A m \in Among(answers'[d]) : m \in Among(answers[d]) \/ ~IsResult(m)
    BY <1>4 DEF Tells, IsResult
  <2>. QED
    BY <1>2, <1>6, <1>7, <2>1 DEF UploadStep
<1>. QED
  BY <1>5, <1>8, UploadSteps

\* A chunk for an upload that is open.
LEMMA WriteSteps ==
  ASSUME UploadInv, NEW c \in Conn, NEW u \in open[c], NEW n \in Nat,
         disk' = Uploads!Written(u.path, Uploads!Key(c, u.id), n),
         open' = [open EXCEPT ![c] = (@ \ {u}) \cup {[u EXCEPT !.got = @ + n]}],
         sending' \in [Conn -> Seq(Sendings)],
         UNCHANGED <<answers, queue, nextId, onlyHere, cut, saved, overwritten>>
  PROVE  UploadInv'
<1>1. /\ u \in OpenFile /\ u.path \in Path /\ ~Free(u.path)
      /\ u.path \in overwritten \/ Holds(c, u, u.path)
  BY OpenAlone
<1>2. PICK v \in OpenFile : v = [u EXCEPT !.got = @ + n]
  <2>1. PICK g \in Nat : g = u.got + n
    BY <1>1 DEF OpenFile
  <2>2. [u EXCEPT !.got = g] \in OpenFile
    BY <1>1 DEF OpenFile
  <2>. QED
    BY <2>1, <2>2
<1>3. v.path = u.path /\ v.id = u.id /\ v.size = u.size /\ v.got = u.got + n
  BY <1>1, <1>2 DEF OpenFile
<1>4. open \in [Conn -> SUBSET OpenFile] /\ DOMAIN disk = Path
  BY DEF UploadInv, UploadTypes
<1>5. open' = [open EXCEPT ![c] = (@ \ {u}) \cup {v}]
  BY <1>2
<1>6. DOMAIN disk' = Path /\ \A q \in Path \ {u.path} : disk'[q] = disk[q]
  BY <1>1, <1>4 DEF Uploads!Written
<1>7. UploadTypes'
  <2>1. open' \in [Conn -> SUBSET OpenFile]
    BY <1>4, <1>5
  <2>. QED
    BY <1>6, <2>1 DEF UploadInv, UploadTypes
<1>8. \A q \in Path \ {u.path} : Spares(q)
  <2>1. PICK W : W = {v}
    OBVIOUS
  <2>2. open' = [open EXCEPT ![c] = (@ \ {u}) \cup W]
    BY <1>5, <2>1
  <2>3. \A q \in Path \ {u.path} : disk'[q] = disk[q]
    BY <1>6
  <2>4. UploadTypes
    BY DEF UploadInv
  <2>5. \A w \in W : w.path = u.path
    BY <1>3, <2>1
  <2>. QED
    BY <2>2, <2>3, <2>4, <2>5, OthersSpared
<1>9. Sound(u.path)'
  <2>1. CASE u.path \in overwritten
    BY <2>1 DEF Sound
  <2>2. CASE Holds(c, u, u.path)
    <3>1. disk[u.path] = Image(c, u) /\ \A d \in Conn : \A w \in open[d] : w.path = u.path => d = c /\ w = u
      BY <2>2 DEF Holds
    <3>2. disk' = [disk EXCEPT ![u.path] = [by |-> Uploads!Key(c, u.id), got |-> u.got + n, of |-> u.size]]
      <4>1. PICK p, k, g, s : p \in Path /\ p = u.path /\ k = Uploads!Key(c, u.id) /\ g = u.got /\ s = u.size
        BY <1>1
      <4>2. disk[p] = [by |-> k, got |-> g, of |-> s]
        BY <3>1, <4>1 DEF Image
      <4>3. p \in DOMAIN disk /\ k # <<>>
        BY <1>4, <4>1 DEF Uploads!Key
      <4>4. \A m : Uploads!Written(p, k, m) = [disk EXCEPT ![p] = [by |-> k, got |-> g + m, of |-> s]]
        BY <4>2, <4>3, WrittenIs
      <4>. QED
        BY <4>1, <4>4
    <3>3. disk'[u.path] = [by |-> Uploads!Key(c, v.id), got |-> v.got, of |-> v.size]
      BY <1>1, <1>3, <1>4, <3>2
    <3>4. open'[c] = (open[c] \ {u}) \cup {v} /\ \A d \in Conn : d # c => open'[d] = open[d]
      BY <1>4, <1>5
    <3>5. \A d \in Conn : \A w \in open'[d] : w.path = u.path => d = c /\ w = v
      BY <3>1, <3>4
    <3>6. Holds(c, v, u.path)'
      BY <1>3, <3>3, <3>4, <3>5 DEF Holds, Image
    <3>. QED
      BY <3>6 DEF Sound
  <2>. QED
    BY <1>1, <2>1, <2>2
<1>10. UploadStep({u.path})
  BY <1>1, <1>8, <1>9 DEF UploadStep
<1>. QED
  BY <1>7, <1>10, UploadSteps


\* FILE_END for a whole upload: what the viewer is told is what is on disk.
LEMMA CompleteSteps ==
  ASSUME UploadInv, NEW c \in Conn, NEW u \in open[c], Uploads!Complete(u),
         Uploads!Result(c, u.id, TRUE, u.path), Uploads!Close(c, u),
         open' = [open EXCEPT ![c] = @ \ {u}],
         sending' \in [Conn -> Seq(Sendings)], UNCHANGED <<queue, nextId, onlyHere, saved, overwritten>>
  PROVE  UploadInv'
<1>1. /\ u \in OpenFile /\ u.path \in Path /\ ~Free(u.path)
      /\ u.path \in overwritten \/ Holds(c, u, u.path)
  BY OpenAlone
<1>2. open \in [Conn -> SUBSET OpenFile] /\ u.id \in Nat
  BY <1>1 DEF UploadInv, UploadTypes, OpenFile
<1>3. answers' \in [Conn -> Seq(Answers)] /\ Tells(c, u.id, TRUE, u.path)
  <2>1. UploadTypes /\ TRUE \in BOOLEAN /\ u.path \in Path \cup {Uploads!NoPath}
    BY <1>1 DEF UploadInv
  <2>. QED
    BY <1>2, <2>1, ResultAdds
<1>9. /\ DOMAIN disk' = Path /\ cut \subseteq cut' /\ \A q \in Path \ {u.path} : disk'[q] = disk[q]
      /\ disk' = disk \/ (disk' = Uploads!Shortened(u.path) /\ Uploads!Key(c, u.id) \in cut')
  BY <1>1 DEF Uploads!Close, Uploads!Shortened, UploadInv, UploadTypes
<1>4. UploadTypes'
  <2>1. open' \in [Conn -> SUBSET OpenFile] /\ DOMAIN disk' = Path
    BY <1>2, <1>9
  <2>. QED
    BY <1>3, <2>1 DEF UploadInv, UploadTypes
<1>5. \A q \in Path \ {u.path} : Spares(q)
  <2>1. PICK W : W = {}
    OBVIOUS
  <2>2. open' = [open EXCEPT ![c] = (@ \ {u}) \cup W]
    BY <2>1
  <2>3. UploadTypes /\ \A q \in Path \ {u.path} : disk'[q] = disk[q]
    BY <1>9 DEF UploadInv
  <2>4. \A w \in W : w.path = u.path
    BY <2>1
  <2>. QED
    BY <2>2, <2>3, <2>4, OthersSpared
<1>6. Sound(u.path)' /\ Told(Uploads!Key(c, u.id), u.path)'
  <2>1. CASE u.path \in overwritten
    BY <1>1, <2>1 DEF Sound, Told
  <2>2. CASE Holds(c, u, u.path)
    <3>1. Free(u.path)'
      BY <1>2, <2>2 DEF Free, Holds
    <3>2. PICK k : k = Uploads!Key(c, u.id)
      OBVIOUS
    <3>3. disk[u.path] = [by |-> k, got |-> u.got, of |-> u.size] /\ u.got = u.size
      BY <2>2, <3>2 DEF Holds, Image, Uploads!Complete
    <3>4. k # <<>> /\ k # <<"mixed">>
      BY <3>2 DEF Uploads!Key
    <3>5. disk[u.path].by = k /\ disk[u.path].got = disk[u.path].of
      BY <3>3
    <3>6. disk'[u.path].by = k /\ Uploads!AsClosed(u.path)'
      <4>1. CASE disk' = disk
        BY <3>4, <3>5, <4>1 DEF Uploads!AsClosed, Uploads!Whole, Uploads!Mixed
      <4>2. CASE disk' = Uploads!Shortened(u.path) /\ k \in cut'
        <5>1. disk[u.path] # Uploads!Absent
          BY <3>4, <3>5 DEF Uploads!Absent
        <5>2. disk' = [disk EXCEPT ![u.path].got = @ - 1]
          BY <4>2, <5>1 DEF Uploads!Shortened
        <5>3. disk'[u.path] = [disk[u.path] EXCEPT !.got = @ - 1]
          BY <1>1, <5>2 DEF UploadInv, UploadTypes
        <5>4. disk'[u.path] = [by |-> k, got |-> u.got - 1, of |-> u.size]
          BY <3>3, <5>3
        <5>5. disk'[u.path].by = k
          BY <5>4
        <5>. QED
          BY <4>2, <5>5 DEF Uploads!AsClosed
      <4>. QED
        BY <1>9, <3>2, <4>1, <4>2
    <3>. QED
      BY <1>1, <3>1, <3>2, <3>4, <3>6 DEF Sound, Told
  <2>. QED
    BY <1>1, <2>1, <2>2
<1>7. \A d \in Conn : \A m \in Among(answers'[d]) :
        m \in Among(answers[d]) \/ (IsResult(m) => Told(Uploads!Key(d, m.id), m.path)')
  <2>. SUFFICES ASSUME NEW d \in Conn, NEW m \in Among(answers'[d]), m \notin Among(answers[d])
                PROVE  Told(Uploads!Key(d, m.id), m.path)'
    OBVIOUS
  <2>1. d = c /\ m.id = u.id /\ m.path = u.path
    BY <1>3 DEF Tells
  <2>. QED
    BY <1>6, <2>1
<1>8. UploadStep({u.path})
  BY <1>1, <1>5, <1>6, <1>7, <1>9 DEF UploadStep
<1>. QED
  BY <1>4, <1>8, UploadSteps

\* A message that changes no file.
LEMMA NoFileSteps ==
  ASSUME UploadInv, sending' \in [Conn -> Seq(Sendings)],
         UNCHANGED <<open, disk, answers, queue, nextId, onlyHere, cut, saved, overwritten>>
  PROVE  UploadInv'
<1>1. UploadTypes'
  BY DEF UploadInv, UploadTypes
<1>2. UploadStep({})
  BY LeftAlone DEF UploadStep
<1>. QED
  BY <1>1, <1>2, UploadSteps

\* What the host takes from a viewer.
LEMMA HostTakesSteps ==
  ASSUME UploadInv, NEW c \in Conn, Uploads!HostTakes(c)
  PROVE  UploadInv'
<1>1. sending[c] \in Seq(Sendings) /\ sending[c] # <<>>
  BY DEF UploadInv, UploadTypes, Uploads!HostTakes
<1>2. PICK m \in Sendings : m = Head(sending[c])
  BY <1>1
<1>3. sending' \in [Conn -> Seq(Sendings)]
  <2>1. Tail(sending[c]) \in Seq(Sendings)
    BY <1>1
  <2>2. sending' = [sending EXCEPT ![c] = Tail(sending[c])]
    BY DEF Uploads!HostTakes
  <2>. QED
    BY <2>1, <2>2 DEF UploadInv, UploadTypes
<1>4. UNCHANGED <<queue, nextId, onlyHere, saved>>
  BY DEF Uploads!HostTakes
<1>5. CASE m.is = "begin" /\ Uploads!Begin(c, m) /\ UNCHANGED cut
  <2>1. m \in Begins /\ m.id \in Nat
    BY <1>5 DEF Sendings, Begins, Chunks, Ends
  <2>2. CASE Uploads!Reject(c, m.id)
    BY <1>3, <1>4, <1>5, <2>1, <2>2, RejectSteps
  <2>3. CASE ~Uploads!Reject(c, m.id)
    BY <1>3, <1>4, <1>5, <2>1, <2>3, BeginSteps
  <2>. QED
    BY <2>2, <2>3
<1>6. CASE m.is = "chunk" /\ Uploads!Chunk(c, m) /\ UNCHANGED overwritten
  <2>1. m \in Chunks /\ m.n \in Nat
    BY <1>6 DEF Sendings, Begins, Chunks, Ends
  <2>2. CASE UNCHANGED <<open, disk, cut, answers>>
    BY <1>3, <1>4, <1>6, <2>2, NoFileSteps
  <2>3. ASSUME NEW u \in open[c], Uploads!Fail(c, u) PROVE UploadInv'
    <3>1. UNCHANGED cut
      BY <2>3 DEF Uploads!Fail
    <3>. QED
      BY <1>3, <1>4, <1>6, <2>3, <3>1, FailSteps
  <2>4. ASSUME NEW u \in open[c],
               disk' = Uploads!Written(u.path, Uploads!Key(c, u.id), m.n),
               open' = [open EXCEPT ![c] = (@ \ {u}) \cup {[u EXCEPT !.got = @ + m.n]}],
               UNCHANGED <<answers, cut>>
        PROVE  UploadInv'
    <3>1. PICK n \in Nat : n = m.n
      BY <2>1
    <3>2. /\ disk' = Uploads!Written(u.path, Uploads!Key(c, u.id), n)
          /\ open' = [open EXCEPT ![c] = (@ \ {u}) \cup {[u EXCEPT !.got = @ + n]}]
      BY <2>4, <3>1
    <3>3. UNCHANGED <<answers, queue, nextId, onlyHere, cut, saved, overwritten>>
      BY <1>4, <1>6, <2>4
    <3>. QED
      BY <1>3, <3>2, <3>3, WriteSteps
  <2>. QED
    BY <1>6, <2>2, <2>3, <2>4 DEF Uploads!Chunk
<1>7. CASE m.is = "end" /\ Uploads!End(c, m) /\ UNCHANGED overwritten
  <2>1. CASE UNCHANGED <<open, disk, cut, answers>>
    BY <1>3, <1>4, <1>7, <2>1, NoFileSteps
  <2>2. ASSUME NEW u \in open[c], Uploads!Fail(c, u) PROVE UploadInv'
    <3>1. UNCHANGED cut
      BY <2>2 DEF Uploads!Fail
    <3>. QED
      BY <1>3, <1>4, <1>7, <2>2, <3>1, FailSteps
  <2>3. ASSUME NEW u \in open[c], Uploads!Complete(u), open' = [open EXCEPT ![c] = @ \ {u}],
               Uploads!Result(c, u.id, TRUE, u.path), Uploads!Close(c, u)
        PROVE  UploadInv'
    <3>1. UNCHANGED <<queue, nextId, onlyHere, saved, overwritten>>
      BY <1>4, <1>7
    <3>. QED
      BY <1>3, <2>3, <3>1, CompleteSteps
  <2>. QED
    BY <1>7, <2>1, <2>2, <2>3 DEF Uploads!End
<1>. QED
  BY <1>2, <1>5, <1>6, <1>7 DEF Uploads!HostTakes

\* Every step of the uploads keeps their invariant.
LEMMA UploadKept ==
  ASSUME UploadInv, [Uploads!Next]_(Uploads!vars)
  PROVE  UploadInv'
<1>1. ASSUME NEW c \in Conn, Uploads!Die(c) PROVE UploadInv'
  <2>1. sending' \in [Conn -> Seq(Sendings)]
    BY <1>1 DEF UploadInv, UploadTypes, Uploads!Die
  <2>. QED
    BY <1>1, <2>1, NoFileSteps DEF Uploads!Die
<1>2. CASE Uploads!Quit
  <2>1. sending' \in [Conn -> Seq(Sendings)]
    BY <1>2 DEF UploadInv, UploadTypes, Uploads!Quit
  <2>. QED
    BY <1>2, <2>1, NoFileSteps DEF Uploads!Quit
<1>3. CASE UNCHANGED Uploads!vars
  <2>1. sending' \in [Conn -> Seq(Sendings)]
    BY <1>3 DEF UploadInv, UploadTypes, Uploads!vars
  <2>. QED
    BY <1>3, <2>1, NoFileSteps DEF Uploads!vars
<1>4. ASSUME NEW c \in Conn, Uploads!Drop(c) PROVE UploadInv'
  BY <1>4, DropSteps
<1>5. ASSUME NEW c \in Conn, Uploads!Pump(c) PROVE UploadInv'
  BY <1>5, PumpSteps
<1>6. ASSUME NEW c \in Conn, Uploads!Receive(c) PROVE UploadInv'
  BY <1>6, ReceiveSteps
<1>7. ASSUME NEW c \in Conn, Uploads!Leave(c) PROVE UploadInv'
  BY <1>7, LeaveSteps
<1>8. ASSUME NEW c \in Conn, Uploads!HostTakes(c) PROVE UploadInv'
  BY <1>8, HostTakesSteps
<1>9. ASSUME NEW c \in Conn, Uploads!ChangeRole(c) PROVE UploadInv'
  BY <1>9, RoleSteps
<1>10. ASSUME NEW c \in Conn, Uploads!Reap(c) PROVE UploadInv'
  BY <1>10, ReapSteps
<1>. QED
  BY <1>1, <1>2, <1>3, <1>4, <1>5, <1>6, <1>7, <1>8, <1>9, <1>10 DEF Uploads!Next

\* No file is under way at first.
LEMMA UploadStarts == Uploads!Init => UploadInv
<1>. SUFFICES ASSUME Uploads!Init PROVE UploadInv
  OBVIOUS
<1>1. /\ queue = [c \in Conn |-> <<>>] /\ nextId = [c \in Conn |-> 1]
      /\ only = [c \in Conn |-> FALSE] /\ onlyHere = only
      /\ sending = [c \in Conn |-> <<>>] /\ answers = sending /\ open = [c \in Conn |-> {}]
      /\ cut = {} /\ overwritten = {} /\ saved = {}
  BY DEF Uploads!Init
<1>2. PICK k \in Earlier : disk = [p \in Path |-> IF p[2] < k THEN Uploads!OfEarlier ELSE Uploads!Absent]
  BY DEF Uploads!Init, Path
<1>3. UploadTypes
  <2>1. queue \in [Conn -> Seq(File)] /\ nextId \in [Conn -> Nat]
    BY <1>1
  <2>2. sending \in [Conn -> Seq(Sendings)] /\ answers \in [Conn -> Seq(Answers)]
    BY <1>1
  <2>3. onlyHere \in [Conn -> BOOLEAN]
    BY <1>1, Zenon
  <2>4. open \in [Conn -> SUBSET OpenFile] /\ DOMAIN disk = Path /\ overwritten \in SUBSET Path
    BY <1>1, <1>2
  <2>. QED
    BY <2>1, <2>2, <2>3, <2>4 DEF UploadTypes
<1>4. \A p \in Path : Free(p) /\ Uploads!Whole(p)
  <2>1. \A p \in Path : Free(p)
    BY <1>1 DEF Free
  <2>2. \A p \in Path : disk[p] = Uploads!OfEarlier \/ disk[p] = Uploads!Absent
    BY <1>2
  <2>3. \A p \in Path : Uploads!Whole(p)
    <3>1. Uploads!OfEarlier.by # Uploads!Mixed /\ Uploads!OfEarlier.got = Uploads!OfEarlier.of
      BY DEF Uploads!OfEarlier, Uploads!Mixed
    <3>2. Uploads!Absent.by # Uploads!Mixed /\ Uploads!Absent.got = Uploads!Absent.of
      BY DEF Uploads!Absent, Uploads!Mixed
    <3>. QED
      BY <2>2, <3>1, <3>2 DEF Uploads!Whole
  <2>. QED
    BY <2>1, <2>3
<1>5. Among(<<>>) = {}
  BY DEF Among
<1>6. UploadSound
  BY <1>1, <1>4, <1>5 DEF UploadSound, Sound, Uploads!AsClosed
<1>. QED
  BY <1>3, <1>6 DEF UploadInv

\* A step of SessionFeatures is a step of the uploads or leaves them alone.
LEMMA FileSteps == [Next]_vars => [Uploads!Next]_(Uploads!vars)
  BY DEF Next, vars, InQuality, InClipboard, InDisplays, InUploads, uploadVars, Uploads!vars

\* The invariant of the uploads holds in every behaviour of the composition.
LEMMA UploadHolds == FairSpec => []UploadInv
<1>1. FairSpec => Init /\ [][Next]_vars
  BY PTL DEF FairSpec
<1>2. Init => UploadInv
  BY UploadStarts DEF Init
<1>3. UploadInv /\ [Next]_vars => UploadInv'
  BY FileSteps, UploadKept
<1>. QED
  BY <1>1, <1>2, <1>3, PTL

\* begin_upload, FILE_CHUNK, FILE_END and the reaping of connections in
\* host/server.cpp: whatever uploads of the same names go on, files fail and
\* connections end, a running host has no other files than whole ones, those it is
\* receiving, and those whose end was lost when finish_upload closed them.
THEOREM NothingLeftBehind == FairSpec => []WholeOrReceiving
<1>1. UploadInv => WholeOrReceiving
  <2>. SUFFICES ASSUME UploadInv, NEW p \in Path, p \notin overwritten, ~Uploads!AsClosed(p)
                PROVE  \E c \in Conn : \E u \in open[c] : u.path = p
    BY DEF WholeOrReceiving, Uploads!WholeOrReceiving, Path
  <2>. QED
    BY DEF UploadInv, UploadSound, Sound, Holds
<1>. QED
  BY <1>1, UploadHolds, PTL

\* FILE_RESULT: "Saved to ..." stays true of the name and the owner of the file, and
\* of its content unless the fclose of finish_upload failed for this very upload,
\* which the code does not notice.
THEOREM SavedStays == FairSpec => []SavedIsThere
<1>1. UploadInv => SavedIsThere
  BY DEF UploadInv, UploadSound, Told, SavedIsThere, Uploads!SavedIsThere
<1>. QED
  BY <1>1, UploadHolds, PTL


-----------------------------------------------------------------------------
(* The choice of the display (DisplayChoice).                              *)

\* A step of SessionFeatures is a step of the choice or leaves it alone.
LEMMA DisplaySteps == [Next]_vars => [Displays!Next]_(Displays!vars)
  BY DEF Next, vars, InQuality, InClipboard, InDisplays, InUploads, displayVars, Displays!vars

Controlling == Viewer \ Watching
Capturer == [display : Display, res : Displays!Res, running : BOOLEAN, frame : BOOLEAN]
Wishes == [display : Display, res : Displays!Res \cup {Displays!Leave}]
Infos == [is : {"info"}, display : Display, res : Displays!Res]
Changes == [is : {"role"}, only : BOOLEAN]
Tidings == Infos \cup Changes

DisplayTypes ==
  /\ cap \in Capturer
  /\ active \in [Controlling -> BOOLEAN] /\ watching \in [Controlling -> BOOLEAN]
  /\ refused \in [Controlling -> BOOLEAN] /\ live \in [Controlling -> BOOLEAN]
  /\ shadow \in [Controlling -> Displays!Res \cup {Displays!NoSize}]
  /\ toHost \in [Controlling -> Seq(Wishes)] /\ toViewer \in [Controlling -> Seq(Tidings)]
  /\ shown \in [Controlling -> Display] /\ resShown \in [Controlling -> Displays!Res]
  /\ pref \in [Controlling -> Displays!Res \cup {Displays!Leave}]

\* No DISPLAY_INFO is on its way, and what the last one says.
NoInfo(s) == \A i \in 1..Len(s) : s[i].is # "info"
LastIs(s, d, r) ==
  \A i \in 1..Len(s) :
    s[i].is = "info" /\ (\A j \in (i + 1)..Len(s) : s[j].is # "info") => s[i].display = d /\ s[i].res = r

\* A viewer that was told a size was told it with the display that is shared;
\* and a viewer that shows another display than that has said so in its last
\* SETTINGS, or was refused it, or will be told.
Informed(v) ==
  shadow[v] # Displays!NoSize =>
    /\ LastIs(toViewer[v], cap.display, shadow[v])
    /\ NoInfo(toViewer[v]) => resShown[v] = shadow[v]
Corrected(v) ==
  NoInfo(toViewer[v]) =>
    \/ shown[v] = cap.display
    \/ shadow[v] = Displays!NoSize
    \/ toHost[v] # <<>> /\ toHost[v][Len(toHost[v])].display = shown[v]
    \/ toHost[v] = <<>> /\ refused[v]
Offline(v) == ~live[v] /\ toHost[v] = <<>> /\ toViewer[v] = <<>>

Right(v) == IF active[v] THEN Informed(v) /\ Corrected(v) ELSE Offline(v)
ChoiceSound == \A v \in Controlling : Right(v)

ChoiceInv == DisplayTypes /\ ChoiceSound

\* DISPLAY_INFO among the messages to a viewer, as they are sent and taken.
LEMMA RoleAdded ==
  ASSUME NEW s \in Seq(Tidings), NEW m \in Changes
  PROVE  /\ Append(s, m) \in Seq(Tidings)
         /\ NoInfo(Append(s, m)) <=> NoInfo(s)
         /\ \A d, r : LastIs(s, d, r) => LastIs(Append(s, m), d, r)
<1>0. PICK t : t = Append(s, m)
  OBVIOUS
<1>1. m \in Tidings /\ m.is # "info"
  BY DEF Tidings, Changes
<1>2. /\ Len(t) = Len(s) + 1 /\ Len(s) \in Nat /\ t \in Seq(Tidings)
      /\ t[Len(s) + 1] = m /\ \A i \in 1..Len(s) : t[i] = s[i]
  BY <1>0, <1>1
<1>3. NoInfo(t) <=> NoInfo(s)
  BY <1>1, <1>2 DEF NoInfo
<1>4. ASSUME NEW d, NEW r, LastIs(s, d, r) PROVE LastIs(t, d, r)
  <2>. SUFFICES ASSUME NEW i \in 1..Len(t), t[i].is = "info", \A j \in (i + 1)..Len(t) : t[j].is # "info"
                PROVE  t[i].display = d /\ t[i].res = r
    BY DEF LastIs
  <2>1. i \in 1..Len(s) /\ t[i] = s[i]
    BY <1>1, <1>2, <1>4
  <2>2. \A j \in (i + 1)..Len(s) : s[j].is # "info"
    BY <1>2, <1>4, <2>1
  <2>. QED
    BY <1>4, <2>1, <2>2 DEF LastIs
<1>. QED
  BY <1>0, <1>2, <1>3, <1>4

\* A DISPLAY_INFO behind what is on its way is the last one there.
LEMMA InfoAdded ==
  ASSUME NEW s \in Seq(Tidings), NEW m \in Infos
  PROVE  /\ Append(s, m) \in Seq(Tidings)
         /\ ~NoInfo(Append(s, m)) /\ LastIs(Append(s, m), m.display, m.res)
<1>0. PICK t : t = Append(s, m)
  OBVIOUS
<1>1. m \in Tidings /\ m.is = "info"
  BY DEF Tidings, Infos
<1>2. /\ Len(t) = Len(s) + 1 /\ Len(s) \in Nat /\ t \in Seq(Tidings)
      /\ t[Len(s) + 1] = m
  BY <1>0, <1>1
<1>3. ~NoInfo(t)
  BY <1>1, <1>2 DEF NoInfo
<1>4. ASSUME NEW i \in 1..Len(t), \A j \in (i + 1)..Len(t) : t[j].is # "info"
      PROVE  t[i] = m
  <2>1. i = Len(s) + 1
    BY <1>1, <1>2, <1>4
  <2>. QED
    BY <1>2, <2>1
<1>5. LastIs(t, m.display, m.res)
  BY <1>4 DEF LastIs
<1>. QED
  BY <1>0, <1>2, <1>3, <1>5

\* Reading the first message leaves the last DISPLAY_INFO the last.
LEMMA TidingsTaken ==
  ASSUME NEW s \in Seq(Tidings), s # <<>>
  PROVE  /\ Tail(s) \in Seq(Tidings) /\ Head(s) \in Tidings
         /\ \A d, r : LastIs(s, d, r) => LastIs(Tail(s), d, r)
         /\ Head(s).is # "info" => (NoInfo(Tail(s)) <=> NoInfo(s))
         /\ \A d, r : LastIs(s, d, r) /\ Head(s).is = "info" /\ NoInfo(Tail(s)) =>
              Head(s).display = d /\ Head(s).res = r
<1>0. PICK t : t = Tail(s)
  OBVIOUS
<1>1. /\ Len(t) = Len(s) - 1 /\ Len(s) \in Nat /\ Len(s) > 0 /\ t \in Seq(Tidings)
      /\ \A i \in 1..Len(t) : t[i] = s[i + 1]
      /\ Head(s) = s[1] /\ Head(s) \in Tidings
  BY <1>0
<1>2. ASSUME NEW d, NEW r, LastIs(s, d, r) PROVE LastIs(t, d, r)
  <2>. SUFFICES ASSUME NEW i \in 1..Len(t), t[i].is = "info", \A j \in (i + 1)..Len(t) : t[j].is # "info"
                PROVE  t[i].display = d /\ t[i].res = r
    BY DEF LastIs
  <2>1. i + 1 \in 1..Len(s) /\ s[i + 1] = t[i]
    BY <1>1
  <2>2. \A j \in (i + 2)..Len(s) : j - 1 \in (i + 1)..Len(t) /\ s[j] = t[j - 1]
    BY <1>1
  <2>3. \A j \in (i + 1 + 1)..Len(s) : s[j].is # "info"
    BY <1>2, <2>2
  <2>. QED
    BY <1>2, <2>1, <2>3 DEF LastIs
<1>3. ASSUME Head(s).is # "info" PROVE NoInfo(t) <=> NoInfo(s)
  <2>1. \A i \in 2..Len(s) : i - 1 \in 1..Len(t) /\ s[i] = t[i - 1]
    BY <1>1
  <2>2. \A i \in 1..Len(t) : i + 1 \in 1..Len(s)
    BY <1>1
  <2>3. NoInfo(t) => \A i \in 2..Len(s) : s[i].is # "info"
    BY <2>1 DEF NoInfo
  <2>4. NoInfo(t) => NoInfo(s)
    BY <1>1, <1>3, <2>3 DEF NoInfo
  <2>5. NoInfo(s) => NoInfo(t)
    BY <1>1, <2>2 DEF NoInfo
  <2>. QED
    BY <2>4, <2>5
<1>4. ASSUME NEW d, NEW r, LastIs(s, d, r), Head(s).is = "info", NoInfo(t)
      PROVE  Head(s).display = d /\ Head(s).res = r
  <2>1. \A i \in 2..Len(s) : i - 1 \in 1..Len(t) /\ s[i] = t[i - 1]
    BY <1>1
  <2>2. \A j \in 2..Len(s) : s[j].is # "info"
    BY <1>4, <2>1 DEF NoInfo
  <2>. QED
    BY <1>1, <1>4, <2>2 DEF LastIs
<1>. QED
  BY <1>0, <1>1, <1>2, <1>3, <1>4

\* switch_display: whatever fails, the display changes only with a success, and
\* that makes the host forget the sizes viewers know.
LEMMA SwitchIs ==
  ASSUME NEW c \in Capturer, NEW d \in Display, NEW s \in Displays!SwitchOf(c, d)
  PROVE  s.cap \in Capturer /\ (s.cap.display # c.display => s.reset)
<1>1. \A e \in Display, ok \in BOOLEAN :
        Displays!Restarted(c, e, ok) \in Capturer /\ Displays!Restarted(c, e, ok).display = e
  <2>. SUFFICES ASSUME NEW e \in Display, NEW ok \in BOOLEAN
                PROVE  Displays!Restarted(c, e, ok) \in Capturer /\ Displays!Restarted(c, e, ok).display = e
    OBVIOUS
  <2>1. PICK x \in Capturer : x = [c EXCEPT !.display = e]
    BY DEF Capturer
  <2>2. PICK y \in Capturer : y = [x EXCEPT !.running = ok]
    BY DEF Capturer
  <2>3. PICK z \in Capturer : z = [y EXCEPT !.frame = FALSE]
    BY DEF Capturer
  <2>4. z.display = e
    BY <2>1, <2>2, <2>3 DEF Capturer
  <2>5. Displays!Restarted(c, e, ok) = z
    BY <2>1, <2>2, <2>3 DEF Displays!Restarted
  <2>. QED
    BY <2>4, <2>5
<1>2. c.display \in Display
  BY DEF Capturer
<1>3. CASE s = [cap |-> Displays!Restarted(c, d, TRUE), reset |-> TRUE]
  BY <1>1, <1>3
<1>4. ASSUME NEW f \in Displays!Failures(c, d), s = [cap |-> f, reset |-> FALSE]
      PROVE  s.cap \in Capturer /\ s.cap.display = c.display
  <2>1. PICK ok \in BOOLEAN : f = Displays!Restarted(c, c.display, ok)
    BY DEF Displays!Failures
  <2>. QED
    BY <1>1, <1>2, <1>4, <2>1
<1>. QED
  BY <1>3, <1>4 DEF Displays!SwitchOf


\* A step that is about one viewer.
Same(w) ==
  /\ active'[w] = active[w] /\ shadow'[w] = shadow[w] /\ refused'[w] = refused[w] /\ live'[w] = live[w]
  /\ toHost'[w] = toHost[w] /\ toViewer'[w] = toViewer[w]
  /\ shown'[w] = shown[w] /\ resShown'[w] = resShown[w]

\* A viewer about which nothing changed stays right.
LEMMA SameIsRight ==
  ASSUME cap'.display = cap.display, NEW w \in Controlling, Same(w), Right(w)
  PROVE  Right(w)'
  BY DEF Same, Right, Informed, Corrected, Offline

\* A step about one viewer keeps the invariant if it keeps that viewer right.
LEMMA OneViewer ==
  ASSUME ChoiceInv, DisplayTypes', cap'.display = cap.display,
         NEW v \in Controlling, \A w \in Controlling \ {v} : Same(w), Right(v)'
  PROVE  ChoiceInv'
<1>1. ASSUME NEW w \in Controlling PROVE Right(w)'
  <2>1. CASE w = v
    BY <2>1
  <2>2. CASE w # v
    <3>1. Same(w) /\ Right(w)
      BY <2>2 DEF ChoiceInv, ChoiceSound
    <3>. QED
      BY <3>1, SameIsRight
  <2>. QED
    BY <2>1, <2>2
<1>. QED
  BY <1>1 DEF ChoiceInv, ChoiceSound

\* What a viewer sends ends with what it shows.
LEMMA PressSteps ==
  ASSUME ChoiceInv, NEW v \in Controlling, Displays!Press(v)
  PROVE  ChoiceInv'
<1>1. /\ UNCHANGED <<cap, active, watching, shadow, refused, toViewer, live, resShown, viewOnly, listed>>
      /\ live[v] /\ Displays!Send(v)
  BY DEF Displays!Press, Displays!PressDisplay, Displays!PressSharpness, Displays!PressQuality,
         Displays!connVars
<1>2. /\ shown' \in [Controlling -> Display] /\ \A w \in Controlling \ {v} : shown'[w] = shown[w]
      /\ pref' \in [Controlling -> Displays!Res \cup {Displays!Leave}]
  <2>1. CASE Displays!PressDisplay(v)
    BY <2>1 DEF ChoiceInv, DisplayTypes, Displays!PressDisplay
  <2>2. CASE Displays!PressSharpness(v)
    BY <2>2 DEF ChoiceInv, DisplayTypes, Displays!PressSharpness
  <2>3. CASE Displays!PressQuality(v)
    BY <2>3 DEF ChoiceInv, DisplayTypes, Displays!PressQuality
  <2>. QED
    BY <2>1, <2>2, <2>3 DEF Displays!Press
<1>3. PICK m \in Wishes : m = [display |-> shown'[v], res |-> pref'[v]]
  BY <1>2 DEF Wishes
<1>4. toHost' = [toHost EXCEPT ![v] = Append(toHost[v], m)] /\ toHost[v] \in Seq(Wishes)
  BY <1>1, <1>3 DEF ChoiceInv, DisplayTypes, Displays!Send, Displays!Settings
<1>5. PICK s \in Seq(Wishes) : s = Append(toHost[v], m) /\ s # <<>> /\ s[Len(s)] = m
  <2>1. Append(toHost[v], m) \in Seq(Wishes)
    BY <1>4
  <2>2. Append(toHost[v], m) # <<>> /\ Append(toHost[v], m)[Len(Append(toHost[v], m))] = m
    BY <1>4
  <2>. QED
    BY <2>1, <2>2
<1>6. toHost' = [toHost EXCEPT ![v] = s] /\ toHost' \in [Controlling -> Seq(Wishes)]
  BY <1>4, <1>5 DEF ChoiceInv, DisplayTypes
<1>7. DisplayTypes'
  BY <1>1, <1>2, <1>6 DEF ChoiceInv, DisplayTypes
<1>8. \A w \in Controlling \ {v} : Same(w)
  BY <1>1, <1>2, <1>6 DEF Same, ChoiceInv, DisplayTypes
<1>9. Right(v)'
  <2>1. active[v] /\ Informed(v)
    BY <1>1 DEF ChoiceInv, ChoiceSound, Right, Offline
  <2>2. Informed(v)'
    BY <1>1, <2>1 DEF Informed
  <2>3. toHost'[v] # <<>> /\ toHost'[v][Len(toHost'[v])].display = shown'[v]
    BY <1>3, <1>5, <1>6 DEF ChoiceInv, DisplayTypes
  <2>. QED
    BY <1>1, <2>1, <2>2, <2>3 DEF Right, Corrected
<1>10. cap'.display = cap.display
  BY <1>1
<1>. QED
  BY <1>7, <1>8, <1>9, <1>10, OneViewer

\* An AUTH_RESULT that arrives: the first answer to it is the settings.
LEMMA RoleSeenSteps ==
  ASSUME ChoiceInv, NEW v \in Controlling, Displays!Receive(v), Head(toViewer[v]).is # "info"
  PROVE  ChoiceInv'
<1>1. /\ UNCHANGED <<cap, active, watching, shadow, refused>>
      /\ toViewer[v] # <<>> /\ toViewer' = [toViewer EXCEPT ![v] = Tail(toViewer[v])]
  BY DEF Displays!Receive, Displays!connVars
<1>2. toViewer[v] \in Seq(Tidings) /\ toHost[v] \in Seq(Wishes) /\ active[v]
  BY <1>1 DEF ChoiceInv, ChoiceSound, DisplayTypes, Right, Offline
<1>3. /\ Tail(toViewer[v]) \in Seq(Tidings) /\ Head(toViewer[v]) \in Tidings
      /\ \A d, r : LastIs(toViewer[v], d, r) => LastIs(Tail(toViewer[v]), d, r)
      /\ NoInfo(Tail(toViewer[v])) <=> NoInfo(toViewer[v])
  BY <1>1, <1>2, TidingsTaken
<1>4. PICK t \in Seq(Tidings) : t = Tail(toViewer[v])
  BY <1>3
<1>5. toViewer' = [toViewer EXCEPT ![v] = t] /\ toViewer' \in [Controlling -> Seq(Tidings)]
  BY <1>1, <1>4 DEF ChoiceInv, DisplayTypes
<1>6. /\ Head(toViewer[v]).is = "role" /\ Displays!ReceiveRole(v, Head(toViewer[v]))
  <2>1. Head(toViewer[v]).is = "role"
    BY <1>3 DEF Tidings, Infos, Changes
  <2>. QED
    BY <2>1 DEF Displays!Receive
<1>7. /\ live' = [live EXCEPT ![v] = TRUE] /\ UNCHANGED <<shown, resShown, pref>>
      /\ toHost' = toHost \/ Displays!Send(v)
  BY <1>6 DEF Displays!ReceiveRole
<1>8. PICK m \in Wishes : m = [display |-> shown'[v], res |-> pref'[v]] /\ m.display = shown[v]
  <2>1. shown'[v] = shown[v] /\ shown'[v] \in Display /\ pref'[v] \in Displays!Res \cup {Displays!Leave}
    BY <1>7 DEF ChoiceInv, DisplayTypes
  <2>2. [display |-> shown'[v], res |-> pref'[v]] \in Wishes
    BY <2>1 DEF Wishes
  <2>. QED
    BY <2>1, <2>2
<1>9. PICK s \in Seq(Wishes) : s = Append(toHost[v], m) /\ s # <<>> /\ s[Len(s)] = m
  <2>1. Append(toHost[v], m) \in Seq(Wishes)
    BY <1>2
  <2>2. Append(toHost[v], m) # <<>> /\ Append(toHost[v], m)[Len(Append(toHost[v], m))] = m
    BY <1>2
  <2>. QED
    BY <2>1, <2>2
<1>10. toHost' = toHost \/ toHost' = [toHost EXCEPT ![v] = s]
  BY <1>7, <1>8, <1>9 DEF Displays!Send, Displays!Settings
<1>11. toHost' \in [Controlling -> Seq(Wishes)] /\ live' \in [Controlling -> BOOLEAN]
  BY <1>7, <1>10 DEF ChoiceInv, DisplayTypes
<1>12. DisplayTypes'
  BY <1>1, <1>5, <1>7, <1>11 DEF ChoiceInv, DisplayTypes
<1>13. \A w \in Controlling \ {v} : Same(w)
  BY <1>1, <1>5, <1>7, <1>10 DEF Same, ChoiceInv, DisplayTypes
<1>14. Right(v)'
  <2>1. Informed(v) /\ Corrected(v)
    BY <1>2 DEF ChoiceInv, ChoiceSound, Right
  <2>2. toViewer'[v] = t
    BY <1>5 DEF ChoiceInv, DisplayTypes
  <2>3. Informed(v)'
    BY <1>1, <1>3, <1>4, <1>7, <2>1, <2>2 DEF Informed
  <2>4. Corrected(v)'
    <3>1. CASE toHost' = toHost
      BY <1>1, <1>3, <1>4, <1>7, <2>1, <2>2, <3>1 DEF Corrected
    <3>2. CASE toHost' = [toHost EXCEPT ![v] = s]
      <4>1. toHost'[v] = s
        BY <3>2 DEF ChoiceInv, DisplayTypes
      <4>. QED
        BY <1>7, <1>8, <1>9, <4>1 DEF Corrected
    <3>. QED
      BY <1>10, <3>1, <3>2
  <2>. QED
    BY <1>1, <1>2, <2>3, <2>4 DEF Right
<1>15. cap'.display = cap.display
  BY <1>1
<1>. QED
  BY <1>12, <1>13, <1>14, <1>15, OneViewer


\* A DISPLAY_INFO that arrives; the last one on its way is right.
LEMMA InfoSeenSteps ==
  ASSUME ChoiceInv, NEW v \in Controlling, Displays!Receive(v), Head(toViewer[v]).is = "info"
  PROVE  ChoiceInv'
<1>1. /\ UNCHANGED <<cap, active, watching, shadow, refused>>
      /\ toViewer[v] # <<>> /\ toViewer' = [toViewer EXCEPT ![v] = Tail(toViewer[v])]
  BY DEF Displays!Receive, Displays!connVars
<1>2. toViewer[v] \in Seq(Tidings) /\ active[v]
  BY <1>1 DEF ChoiceInv, ChoiceSound, DisplayTypes, Right, Offline
<1>3. /\ Tail(toViewer[v]) \in Seq(Tidings) /\ Head(toViewer[v]) \in Tidings
      /\ \A d, r : LastIs(toViewer[v], d, r) => LastIs(Tail(toViewer[v]), d, r)
      /\ \A d, r : LastIs(toViewer[v], d, r) /\ NoInfo(Tail(toViewer[v])) =>
           Head(toViewer[v]).display = d /\ Head(toViewer[v]).res = r
  BY <1>1, <1>2, TidingsTaken
<1>4. PICK t \in Seq(Tidings) : t = Tail(toViewer[v])
  BY <1>3
<1>5. toViewer' = [toViewer EXCEPT ![v] = t] /\ toViewer' \in [Controlling -> Seq(Tidings)]
  BY <1>1, <1>4 DEF ChoiceInv, DisplayTypes
<1>6. PICK m \in Infos : m = Head(toViewer[v])
  BY <1>3 DEF Tidings, Changes
<1>7. m.display \in Display /\ m.res \in Displays!Res
  BY DEF Infos
<1>8. /\ shown' = [shown EXCEPT ![v] = m.display] /\ resShown' = [resShown EXCEPT ![v] = m.res]
      /\ UNCHANGED <<live, pref, toHost>>
  BY <1>6 DEF Displays!Receive, Displays!ReceiveInfo
<1>9. DisplayTypes'
  <2>1. shown' \in [Controlling -> Display] /\ resShown' \in [Controlling -> Displays!Res]
    BY <1>7, <1>8 DEF ChoiceInv, DisplayTypes
  <2>. QED
    BY <1>1, <1>5, <1>8, <2>1 DEF ChoiceInv, DisplayTypes
<1>10. \A w \in Controlling \ {v} : Same(w)
  BY <1>1, <1>5, <1>8 DEF Same, ChoiceInv, DisplayTypes
<1>11. Right(v)'
  <2>1. Informed(v) /\ Corrected(v)
    BY <1>2 DEF ChoiceInv, ChoiceSound, Right
  <2>2. toViewer'[v] = t /\ shown'[v] = m.display /\ resShown'[v] = m.res
    BY <1>5, <1>8 DEF ChoiceInv, DisplayTypes
  <2>3. shadow[v] # Displays!NoSize /\ NoInfo(t) => m.display = cap.display /\ m.res = shadow[v]
    BY <1>3, <1>4, <1>6, <2>1 DEF Informed
  <2>4. Informed(v)'
    BY <1>1, <1>3, <1>4, <2>1, <2>2, <2>3 DEF Informed
  <2>5. Corrected(v)'
    BY <1>1, <2>2, <2>3 DEF Corrected
  <2>. QED
    BY <1>1, <1>2, <2>4, <2>5 DEF Right
<1>12. cap'.display = cap.display
  BY <1>1
<1>. QED
  BY <1>9, <1>10, <1>11, <1>12, OneViewer

\* on_authenticated, a lost connection and "/viewonly".
LEMMA JoinSteps ==
  ASSUME ChoiceInv, NEW v \in Controlling, Displays!Join(v)
  PROVE  ChoiceInv'
<1>1. /\ UNCHANGED <<cap, toHost, live, shown, resShown, pref>>
      /\ ~active[v] /\ active' = [active EXCEPT ![v] = TRUE]
      /\ watching' = [watching EXCEPT ![v] = FALSE] /\ refused' = [refused EXCEPT ![v] = FALSE]
      /\ shadow' = [shadow EXCEPT ![v] = Displays!NoSize]
      /\ toViewer' = [toViewer EXCEPT ![v] = <<Displays!Role(FALSE), Displays!Info(cap)>>]
  BY DEF Displays!Join, Displays!appVars
<1>2. PICK m \in Infos : m = Displays!Info(cap)
  BY DEF Infos, Displays!Info, ChoiceInv, DisplayTypes, Capturer
<1>3. PICK a \in Tidings : a = Displays!Role(FALSE)
  BY DEF Tidings, Changes, Displays!Role
<1>. DEFINE s == <<a, m>>
<1>4. s \in Seq(Tidings) /\ ~NoInfo(s)
  <2>1. m \in Tidings /\ m.is = "info"
    BY DEF Tidings, Infos
  <2>2. s \in Seq(Tidings)
    BY <2>1
  <2>3. Len(s) = 2 /\ s[2] = m
    OBVIOUS
  <2>4. 2 \in 1..Len(s)
    BY <2>3
  <2>. QED
    BY <2>1, <2>2, <2>3, <2>4 DEF NoInfo
<1>. HIDE DEF s
<1>5. toViewer' = [toViewer EXCEPT ![v] = s]
  BY <1>1, <1>2, <1>3 DEF s
<1>6. DisplayTypes'
  <2>1. toViewer' \in [Controlling -> Seq(Tidings)]
    BY <1>4, <1>5 DEF ChoiceInv, DisplayTypes
  <2>2. /\ active' \in [Controlling -> BOOLEAN] /\ watching' \in [Controlling -> BOOLEAN]
        /\ refused' \in [Controlling -> BOOLEAN]
    BY <1>1 DEF ChoiceInv, DisplayTypes
  <2>3. shadow' \in [Controlling -> Displays!Res \cup {Displays!NoSize}]
    BY <1>1 DEF ChoiceInv, DisplayTypes
  <2>. QED
    BY <1>1, <2>1, <2>2, <2>3 DEF ChoiceInv, DisplayTypes
<1>7. \A w \in Controlling \ {v} : Same(w)
  BY <1>1, <1>5 DEF Same, ChoiceInv, DisplayTypes
<1>8. Right(v)'
  <2>1. active'[v] /\ shadow'[v] = Displays!NoSize /\ toViewer'[v] = s
    BY <1>1, <1>5 DEF ChoiceInv, DisplayTypes
  <2>2. ~NoInfo(toViewer[v])'
    BY <1>4, <2>1 DEF NoInfo
  <2>. QED
    BY <2>1, <2>2 DEF Right, Informed, Corrected
<1>9. cap'.display = cap.display
  BY <1>1
<1>. QED
  BY <1>6, <1>7, <1>8, <1>9, OneViewer

\* A viewer whose connection is lost leaves the others right.
LEMMA LostSteps ==
  ASSUME ChoiceInv, NEW v \in Controlling, Displays!Drop(v)
  PROVE  ChoiceInv'
<1>1. /\ UNCHANGED <<cap, watching, shadow, refused, shown, resShown, pref>>
      /\ active' = [active EXCEPT ![v] = FALSE] /\ live' = [live EXCEPT ![v] = FALSE]
      /\ toHost' = [toHost EXCEPT ![v] = <<>>] /\ toViewer' = [toViewer EXCEPT ![v] = <<>>]
  BY DEF Displays!Drop
<1>2. DisplayTypes'
  <2>1. active' \in [Controlling -> BOOLEAN] /\ live' \in [Controlling -> BOOLEAN]
    BY <1>1 DEF ChoiceInv, DisplayTypes
  <2>2. toHost' \in [Controlling -> Seq(Wishes)] /\ toViewer' \in [Controlling -> Seq(Tidings)]
    BY <1>1 DEF ChoiceInv, DisplayTypes
  <2>. QED
    BY <1>1, <2>1, <2>2 DEF ChoiceInv, DisplayTypes
<1>3. \A w \in Controlling \ {v} : Same(w)
  BY <1>1 DEF Same, ChoiceInv, DisplayTypes
<1>4. Right(v)'
  BY <1>1 DEF Right, Offline, ChoiceInv, DisplayTypes
<1>5. cap'.display = cap.display
  BY <1>1
<1>. QED
  BY <1>2, <1>3, <1>4, <1>5, OneViewer

\* A viewer that gains or loses control is right.
LEMMA ControlSteps ==
  ASSUME ChoiceInv, NEW v \in Controlling, Displays!ChangeRole(v)
  PROVE  ChoiceInv'
<1>1. /\ UNCHANGED <<cap, active, shadow, refused, toHost, live, shown, resShown, pref>>
      /\ active[v] /\ watching' = [watching EXCEPT ![v] = ~watching[v]]
      /\ toViewer' = [toViewer EXCEPT ![v] = Append(@, Displays!Role(~watching[v]))]
  BY DEF Displays!ChangeRole, Displays!appVars
<1>2. (~watching[v]) \in BOOLEAN
  OBVIOUS
<1>3. PICK m \in Changes : m = Displays!Role(~watching[v])
  BY <1>2 DEF Changes, Displays!Role
<1>4. PICK s \in Seq(Tidings) : s = toViewer[v]
  BY DEF ChoiceInv, DisplayTypes
<1>5. /\ Append(s, m) \in Seq(Tidings)
      /\ NoInfo(Append(s, m)) <=> NoInfo(s)
      /\ \A d, r : LastIs(s, d, r) => LastIs(Append(s, m), d, r)
  BY RoleAdded
<1>6. PICK t \in Seq(Tidings) : t = Append(s, m)
  BY <1>5
<1>7. toViewer' = [toViewer EXCEPT ![v] = t]
  BY <1>1, <1>3, <1>4, <1>6
<1>8. DisplayTypes'
  <2>1. watching' \in [Controlling -> BOOLEAN] /\ toViewer' \in [Controlling -> Seq(Tidings)]
    BY <1>1, <1>2, <1>7 DEF ChoiceInv, DisplayTypes
  <2>. QED
    BY <1>1, <2>1 DEF ChoiceInv, DisplayTypes
<1>9. \A w \in Controlling \ {v} : Same(w)
  BY <1>1, <1>7 DEF Same, ChoiceInv, DisplayTypes
<1>10. Right(v)'
  <2>1. Informed(v) /\ Corrected(v)
    BY <1>1 DEF ChoiceInv, ChoiceSound, Right
  <2>2. toViewer'[v] = t
    BY <1>7 DEF ChoiceInv, DisplayTypes
  <2>3. Informed(v)'
    BY <1>1, <1>4, <1>5, <1>6, <2>1, <2>2 DEF Informed
  <2>4. Corrected(v)'
    BY <1>1, <1>4, <1>5, <1>6, <2>1, <2>2 DEF Corrected
  <2>. QED
    BY <1>1, <2>3, <2>4 DEF Right
<1>11. cap'.display = cap.display
  BY <1>1
<1>. QED
  BY <1>8, <1>9, <1>10, <1>11, OneViewer


\* SETTINGS: what the host makes of it.
LEMMA AppliedIs ==
  ASSUME DisplayTypes, NEW v \in Controlling, NEW m \in Wishes, Displays!HostApplies(v, m)
  PROVE  /\ cap' \in Capturer
         /\ \/ cap'.display = cap.display /\ shadow' = shadow
            \/ shadow' = [w \in Controlling |-> IF active[w] THEN Displays!NoSize ELSE shadow[w]]
         /\ refused' = [refused EXCEPT ![v] = m.display # cap'.display]
<1>. DEFINE wanted == [cap EXCEPT !.res = m.res]
<1>1. PICK step1 \in IF Displays!AsksRes(v, m) THEN Displays!SwitchOf(wanted, cap.display) ELSE Displays!NoSwitch(cap) :
      \E step2 \in IF Displays!AsksDisplay(v, m) THEN Displays!SwitchOf(step1.cap, m.display) ELSE Displays!NoSwitch(step1.cap) :
        /\ cap' = step2.cap
        /\ shadow' = Displays!Forgotten(step1, step2)
        /\ refused' = [refused EXCEPT ![v] = m.display # step2.cap.display]
  BY DEF Displays!HostApplies
<1>2. PICK step2 \in IF Displays!AsksDisplay(v, m) THEN Displays!SwitchOf(step1.cap, m.display) ELSE Displays!NoSwitch(step1.cap) :
        /\ cap' = step2.cap
        /\ shadow' = Displays!Forgotten(step1, step2)
        /\ refused' = [refused EXCEPT ![v] = m.display # step2.cap.display]
  BY <1>1
<1>3. cap \in Capturer /\ cap.display \in Display /\ m.display \in Display
  BY DEF DisplayTypes, Capturer, Wishes
<1>4. step1.cap \in Capturer /\ (step1.cap.display # cap.display => step1.reset)
  <2>1. CASE Displays!AsksRes(v, m)
    <3>1. m.res \in Displays!Res
      BY <2>1 DEF Displays!AsksRes, Wishes
    <3>2. wanted \in Capturer /\ wanted.display = cap.display
      BY <1>3, <3>1 DEF Capturer
    <3>3. step1 \in Displays!SwitchOf(wanted, cap.display)
      BY <1>1, <2>1
    <3>. HIDE DEF wanted
    <3>. QED
      BY <1>3, <3>2, <3>3, SwitchIs
  <2>2. CASE ~Displays!AsksRes(v, m)
    <3>1. step1 = [cap |-> cap, reset |-> FALSE]
      BY <1>1, <2>2 DEF Displays!NoSwitch
    <3>. QED
      BY <1>3, <3>1
  <2>. QED
    BY <2>1, <2>2
<1>5. step2.cap \in Capturer /\ (step2.cap.display # step1.cap.display => step2.reset)
  <2>1. CASE Displays!AsksDisplay(v, m)
    <3>1. step2 \in Displays!SwitchOf(step1.cap, m.display)
      BY <1>2, <2>1
    <3>. QED
      BY <1>3, <1>4, <3>1, SwitchIs
  <2>2. CASE ~Displays!AsksDisplay(v, m)
    <3>1. step2 = [cap |-> step1.cap, reset |-> FALSE]
      BY <1>2, <2>2 DEF Displays!NoSwitch
    <3>. QED
      BY <1>4, <3>1
  <2>. QED
    BY <2>1, <2>2
<1>6. CASE step1.reset \/ step2.reset
  <2>1. shadow' = [w \in Controlling |-> IF active[w] THEN Displays!NoSize ELSE shadow[w]]
    BY <1>2, <1>6 DEF Displays!Forgotten, Controlling
  <2>. QED
    BY <1>2, <1>5, <2>1
<1>7. CASE ~(step1.reset \/ step2.reset)
  <2>1. shadow' = shadow
    BY <1>2, <1>7 DEF Displays!Forgotten
  <2>2. cap'.display = cap.display
    BY <1>2, <1>4, <1>5, <1>7
  <2>. QED
    BY <1>2, <1>5, <2>1, <2>2
<1>. QED
  BY <1>6, <1>7

\* What viewers know when their sizes are forgotten.
LEMMA ForgottenIsRight ==
  ASSUME NEW w \in Controlling, Right(w),
         shadow'[w] = IF active[w] THEN Displays!NoSize ELSE shadow[w],
         active'[w] = active[w], live'[w] = live[w], toViewer'[w] = toViewer[w],
         toHost'[w] = toHost[w] \/ active[w]
  PROVE  Right(w)'
  BY DEF Right, Informed, Corrected, Offline

\* The host reads SETTINGS, and may switch the display.
LEMMA HostSettingsSteps ==
  ASSUME ChoiceInv, NEW v \in Controlling, Displays!HostSettings(v)
  PROVE  ChoiceInv'
<1>1. /\ UNCHANGED <<active, watching, toViewer, live, shown, resShown, pref>>
      /\ active[v] /\ toHost[v] # <<>> /\ toHost' = [toHost EXCEPT ![v] = Tail(toHost[v])]
      /\ Displays!HostApplies(v, Head(toHost[v]))
  BY DEF Displays!HostSettings, Displays!appVars
<1>2. PICK s \in Seq(Wishes) : s = toHost[v]
  BY DEF ChoiceInv, DisplayTypes
<1>3. PICK m \in Wishes : m = Head(s) /\ m = s[1]
  BY <1>1, <1>2
<1>4. /\ cap' \in Capturer
      /\ \/ cap'.display = cap.display /\ shadow' = shadow
         \/ shadow' = [w \in Controlling |-> IF active[w] THEN Displays!NoSize ELSE shadow[w]]
      /\ refused' = [refused EXCEPT ![v] = m.display # cap'.display]
  <2>1. DisplayTypes /\ Displays!HostApplies(v, m)
    BY <1>1, <1>2, <1>3 DEF ChoiceInv
  <2>. QED
    BY <2>1, AppliedIs
<1>5. PICK t \in Seq(Wishes) : t = Tail(s)
  <2>1. Tail(s) \in Seq(Wishes)
    BY <1>1, <1>2
  <2>. QED
    BY <2>1
<1>6. toHost' = [toHost EXCEPT ![v] = t]
  BY <1>1, <1>2, <1>5
<1>7. DisplayTypes'
  <2>1. toHost' \in [Controlling -> Seq(Wishes)]
    BY <1>6 DEF ChoiceInv, DisplayTypes
  <2>2. shadow' \in [Controlling -> Displays!Res \cup {Displays!NoSize}]
    BY <1>4 DEF ChoiceInv, DisplayTypes
  <2>3. refused' \in [Controlling -> BOOLEAN]
    <3>1. (m.display # cap'.display) \in BOOLEAN
      OBVIOUS
    <3>. QED
      BY <1>4, <3>1 DEF ChoiceInv, DisplayTypes
  <2>. QED
    BY <1>1, <1>4, <2>1, <2>2, <2>3 DEF ChoiceInv, DisplayTypes
<1>8. \A w \in Controlling : w # v => toHost'[w] = toHost[w] /\ refused'[w] = refused[w]
  BY <1>4, <1>6 DEF ChoiceInv, DisplayTypes
<1>9. \A w \in Controlling : Right(w)
  BY DEF ChoiceInv, ChoiceSound
<1>10. CASE shadow' = [w \in Controlling |-> IF active[w] THEN Displays!NoSize ELSE shadow[w]]
  <2>1. ASSUME NEW w \in Controlling PROVE Right(w)'
    <3>1. shadow'[w] = IF active[w] THEN Displays!NoSize ELSE shadow[w]
      BY <1>10
    <3>2. toHost'[w] = toHost[w] \/ active[w]
      BY <1>1, <1>8
    <3>3. active'[w] = active[w] /\ live'[w] = live[w] /\ toViewer'[w] = toViewer[w]
      BY <1>1
    <3>4. Right(w)
      BY <1>9
    <3>. QED
      BY <3>1, <3>2, <3>3, <3>4, ForgottenIsRight
  <2>. QED
    BY <1>7, <2>1 DEF ChoiceInv, ChoiceSound
<1>11. CASE cap'.display = cap.display /\ shadow' = shadow
  <2>1. \A w \in Controlling \ {v} : Same(w)
    BY <1>1, <1>8, <1>11 DEF Same
  <2>2. Right(v)'
    <3>1. Informed(v) /\ Corrected(v)
      BY <1>1, <1>9 DEF Right
    <3>2. Informed(v)'
      BY <1>1, <1>11, <3>1 DEF Informed
    <3>3. toHost'[v] = t /\ toHost[v] = s /\ refused'[v] = (m.display # cap'.display)
      BY <1>2, <1>4, <1>6 DEF ChoiceInv, DisplayTypes
    <3>4. Corrected(v)'
      <4>1. CASE t = <<>>
        <5>1. Len(s) = 1 /\ s # <<>>
          <6>1. s # <<>> /\ Len(t) = Len(s) - 1 /\ Len(s) \in Nat
            BY <1>1, <1>2, <1>5
          <6>2. Len(t) = 0
            BY <4>1
          <6>. QED
            BY <6>1, <6>2
        <5>2. m.display = cap.display => ~refused'[v]
          BY <1>11, <3>3
        <5>3. m.display # cap.display => refused'[v]
          BY <1>11, <3>3
        <5>4. s[Len(s)] = m
          BY <1>3, <5>1
        <5>. QED
          BY <1>1, <1>11, <3>1, <3>3, <4>1, <5>1, <5>2, <5>3, <5>4 DEF Corrected
      <4>2. CASE t # <<>>
        <5>1. s # <<>> /\ t[Len(t)] = s[Len(s)]
          BY <1>1, <1>2, <1>5, <4>2
        <5>. QED
          BY <1>1, <1>11, <3>1, <3>3, <4>2, <5>1 DEF Corrected
      <4>. QED
        BY <4>1, <4>2
    <3>. QED
      BY <1>1, <3>2, <3>4 DEF Right
  <2>3. ChoiceInv /\ cap'.display = cap.display
    BY <1>11
  <2>. QED
    BY <1>7, <2>1, <2>2, <2>3, OneViewer
<1>. QED
  BY <1>4, <1>10, <1>11

\* The capture thread, and the DISPLAY_INFO that goes with a frame.
LEMMA CaptureSteps ==
  ASSUME ChoiceInv, Displays!Capture
  PROVE  ChoiceInv'
<1>1. /\ cap' = [cap EXCEPT !.frame = TRUE]
      /\ UNCHANGED <<active, watching, shadow, refused, toHost, toViewer, live, shown, resShown, pref>>
  BY DEF Displays!Capture, Displays!connVars, Displays!appVars
<1>2. cap' \in Capturer /\ cap'.display = cap.display
  BY <1>1 DEF ChoiceInv, DisplayTypes, Capturer
<1>3. DisplayTypes'
  BY <1>1, <1>2 DEF ChoiceInv, DisplayTypes
<1>4. ASSUME NEW w \in Controlling PROVE Right(w)'
  <2>1. Same(w) /\ Right(w)
    BY <1>1 DEF Same, ChoiceInv, ChoiceSound
  <2>. QED
    BY <1>2, <2>1, SameIsRight
<1>. QED
  BY <1>3, <1>4 DEF ChoiceInv, ChoiceSound

\* DISPLAY_INFO goes out with the next frame to a viewer not told yet.
LEMMA FramePumpSteps ==
  ASSUME ChoiceInv, NEW v \in Controlling, Displays!Pump(v)
  PROVE  ChoiceInv'
<1>1. /\ UNCHANGED <<cap, active, watching, toHost, live, shown, resShown, pref>>
      /\ active[v] /\ shadow' = [shadow EXCEPT ![v] = cap.res]
      /\ toViewer' = [toViewer EXCEPT ![v] = Append(@, Displays!Info(cap))]
      /\ refused' = [refused EXCEPT ![v] = FALSE]
  BY DEF Displays!Pump, Displays!appVars
<1>2. cap.display \in Display /\ cap.res \in Displays!Res
  BY DEF ChoiceInv, DisplayTypes, Capturer
<1>3. PICK m \in Infos : m = Displays!Info(cap)
  BY <1>2 DEF Infos, Displays!Info
<1>4. m.display = cap.display /\ m.res = cap.res
  BY <1>3 DEF Displays!Info
<1>5. PICK s \in Seq(Tidings) : s = toViewer[v]
  BY DEF ChoiceInv, DisplayTypes
<1>6. /\ Append(s, m) \in Seq(Tidings)
      /\ ~NoInfo(Append(s, m)) /\ LastIs(Append(s, m), m.display, m.res)
  BY InfoAdded
<1>7. PICK t \in Seq(Tidings) : t = Append(s, m)
  BY <1>6
<1>8. toViewer' = [toViewer EXCEPT ![v] = t]
  BY <1>1, <1>3, <1>5, <1>7
<1>9. DisplayTypes'
  <2>1. toViewer' \in [Controlling -> Seq(Tidings)] /\ refused' \in [Controlling -> BOOLEAN]
    BY <1>1, <1>8 DEF ChoiceInv, DisplayTypes
  <2>2. shadow' \in [Controlling -> Displays!Res \cup {Displays!NoSize}]
    BY <1>1, <1>2 DEF ChoiceInv, DisplayTypes
  <2>. QED
    BY <1>1, <2>1, <2>2 DEF ChoiceInv, DisplayTypes
<1>10. \A w \in Controlling \ {v} : Same(w)
  BY <1>1, <1>8 DEF Same, ChoiceInv, DisplayTypes
<1>11. Right(v)'
  <2>1. toViewer'[v] = t /\ shadow'[v] = cap.res
    BY <1>1, <1>8 DEF ChoiceInv, DisplayTypes
  <2>2. ~NoInfo(toViewer[v])'
    BY <1>6, <1>7, <2>1
  <2>3. LastIs(toViewer[v], cap.display, shadow[v])'
    BY <1>1, <1>4, <1>6, <1>7, <2>1
  <2>. QED
    BY <1>1, <2>2, <2>3 DEF Right, Informed, Corrected
<1>12. cap'.display = cap.display
  BY <1>1
<1>. QED
  BY <1>9, <1>10, <1>11, <1>12, OneViewer


\* Every step of the display choice keeps its invariant.
LEMMA ChoiceKept ==
  ASSUME ChoiceInv, [Displays!Next]_(Displays!vars)
  PROVE  ChoiceInv'
<1>1. ASSUME NEW v \in Controlling, Displays!Receive(v) PROVE ChoiceInv'
  BY <1>1, RoleSeenSteps, InfoSeenSteps
<1>2. ASSUME NEW v \in Controlling, Displays!HostSettings(v) PROVE ChoiceInv'
  BY <1>2, HostSettingsSteps
<1>3. ASSUME NEW v \in Controlling, Displays!Pump(v) PROVE ChoiceInv'
  BY <1>3, FramePumpSteps
<1>4. CASE Displays!Capture
  BY <1>4, CaptureSteps
<1>5. ASSUME NEW v \in Controlling, Displays!Press(v) PROVE ChoiceInv'
  BY <1>5, PressSteps
<1>6. ASSUME NEW v \in Controlling, Displays!Join(v) PROVE ChoiceInv'
  BY <1>6, JoinSteps
<1>7. ASSUME NEW v \in Controlling, Displays!Drop(v) PROVE ChoiceInv'
  BY <1>7, LostSteps
<1>8. ASSUME NEW v \in Controlling, Displays!ChangeRole(v) PROVE ChoiceInv'
  BY <1>8, ControlSteps
<1>9. CASE UNCHANGED Displays!vars
  <2>1. DisplayTypes' /\ cap'.display = cap.display
    BY <1>9 DEF Displays!vars, ChoiceInv, DisplayTypes
  <2>2. ASSUME NEW w \in Controlling PROVE Right(w)'
    <3>1. Same(w) /\ Right(w)
      BY <1>9 DEF Displays!vars, Same, ChoiceInv, ChoiceSound
    <3>. QED
      BY <2>1, <3>1, SameIsRight
  <2>. QED
    BY <2>1, <2>2 DEF ChoiceInv, ChoiceSound
<1>. QED
  BY <1>1, <1>2, <1>3, <1>4, <1>5, <1>6, <1>7, <1>8, <1>9 DEF Displays!Next, Displays!Programs, Controlling

\* Every viewer is right at first.
LEMMA ChoiceStarts == Displays!Init => ChoiceInv
<1>. SUFFICES ASSUME Displays!Init PROVE ChoiceInv
  OBVIOUS
<1>1. /\ cap = [display |-> Started, res |-> "sharp", running |-> TRUE, frame |-> FALSE]
      /\ active = [v \in Controlling |-> FALSE] /\ watching = active /\ refused = active
      /\ shadow = [v \in Controlling |-> Displays!NoSize]
      /\ toHost = [v \in Controlling |-> <<>>] /\ toViewer = toHost /\ live = active
      /\ shown = [v \in Controlling |-> 0] /\ resShown = [v \in Controlling |-> "fast"]
      /\ pref = [v \in Controlling |-> Displays!Leave]
  BY DEF Displays!Init, Controlling
<1>2. 0 \in Display /\ Started \in Display
  BY DisplaysAssumed DEF Displays!DisplayAssumption
<1>3. DisplayTypes
  <2>1. cap \in Capturer
    BY <1>1, <1>2 DEF Capturer, Displays!Res
  <2>2. /\ active \in [Controlling -> BOOLEAN] /\ watching \in [Controlling -> BOOLEAN]
        /\ refused \in [Controlling -> BOOLEAN] /\ live \in [Controlling -> BOOLEAN]
    BY <1>1, Zenon
  <2>3. toHost \in [Controlling -> Seq(Wishes)] /\ toViewer \in [Controlling -> Seq(Tidings)]
    BY <1>1
  <2>4. shadow \in [Controlling -> Displays!Res \cup {Displays!NoSize}]
    BY <1>1
  <2>5. /\ shown \in [Controlling -> Display] /\ resShown \in [Controlling -> Displays!Res]
        /\ pref \in [Controlling -> Displays!Res \cup {Displays!Leave}]
    BY <1>1, <1>2 DEF Displays!Res
  <2>. QED
    BY <2>1, <2>2, <2>3, <2>4, <2>5 DEF DisplayTypes
<1>. QED
  BY <1>1, <1>3 DEF ChoiceInv, ChoiceSound, Right, Offline

\* The SETTINGS handler and switch_display of host/server.cpp with cur_display_
\* of client/app.cpp: however switches, failures and reconnections overlap, a
\* viewer that nothing is on its way to believes what is so, or was refused.
THEOREM ViewersAgree == FairSpec => []Agreement
<1>1. FairSpec => Init /\ [][Next]_vars
  BY PTL DEF FairSpec
<1>2. Init => ChoiceInv
  BY ChoiceStarts DEF Init
<1>3. ChoiceInv /\ [Next]_vars => ChoiceInv'
  BY DisplaySteps, ChoiceKept
<1>4. ChoiceInv => Agreement
  <2>. SUFFICES ASSUME ChoiceInv, Displays!Settled, cap.running, NEW v \in Controlling, active[v]
                PROVE  (shown[v] = cap.display \/ refused[v]) /\ resShown[v] = cap.res
    BY DEF Agreement, Displays!Agreement, Controlling
  <2>1. toHost[v] = <<>> /\ toViewer[v] = <<>> /\ shadow[v] = cap.res
    BY DEF Displays!Settled, Controlling
  <2>2. NoInfo(toViewer[v])
    BY <2>1 DEF NoInfo
  <2>3. shadow[v] # Displays!NoSize
    BY <2>1 DEF ChoiceInv, DisplayTypes, Capturer, Displays!Res, Displays!NoSize
  <2>4. Informed(v) /\ Corrected(v)
    BY DEF ChoiceInv, ChoiceSound, Right
  <2>. QED
    BY <2>1, <2>2, <2>3, <2>4 DEF Informed, Corrected
<1>. QED
  BY <1>1, <1>2, <1>3, <1>4, PTL


-----------------------------------------------------------------------------
(* The clipboard (ClipboardSync).                                          *)

\* A step of SessionFeatures is a step of the clipboard or leaves it alone.
LEMMA ClipboardSteps == [Next]_vars => [Clipboard!Next]_(Clipboard!vars)
  BY DEF Next, vars, InQuality, InClipboard, InDisplays, InUploads, clipboardVars, Clipboard!vars

Taking == Viewer \ Watching
Latest == IF copied = <<>> THEN Nothing ELSE copied[Len(copied)]
Seen(t) == t = Nothing \/ \E n \in 1..Len(copied) : t = copied[n]

SyncTypes ==
  /\ copied \in Seq(Text)
  /\ clip = [v \in Viewer |-> clip[v]] /\ DOMAIN lastLocal = Viewer /\ DOMAIN lastRemote = Viewer
  /\ DOMAIN up = Viewer /\ DOMAIN down = Viewer

\* Where the latest text is, for a viewer: not there yet, on its way, there; or
\* just copied there, and sent.
Quiet(v) == up[v] = <<>> /\ down[v] = <<>>
Waits(v) == Quiet(v) /\ ~Clipboard!WouldSend(v)
Coming(v) == up[v] = <<>> /\ down[v] = <<Latest>> /\ ~Clipboard!WouldSend(v)
Has(v) == clip[v] = Latest /\ lastLocal[v] = Latest
Copied(v) == Quiet(v) /\ clip[v] = Latest /\ lastLocal[v] # Latest /\ lastRemote[v] # Latest
Sent(v) == up[v] = <<Latest>> /\ down[v] = <<>> /\ Has(v)

\* It is the host's to send, or a viewer's, or the host has passed it on.
FromHost ==
  /\ Latest \in Text /\ hostClip = Latest /\ ~noticed /\ lastClip # Latest
  /\ \A v \in Taking : Waits(v)
FromViewer ==
  /\ Latest \in Text /\ noticed /\ lastClip # Latest
  /\ \E o \in Taking : (Copied(o) \/ Sent(o)) /\ \A v \in Taking \ {o} : Waits(v)
PassedOn ==
  /\ hostClip = Latest /\ lastClip = Latest /\ noticed
  /\ \A v \in Taking : Coming(v) \/ (Quiet(v) /\ Has(v))

SyncInv ==
  orderly =>
    /\ SyncTypes
    /\ \A v \in Taking : Seen(lastRemote[v])
    /\ \A v \in Watching : Quiet(v) /\ clip[v] = Nothing
    /\ FromHost \/ FromViewer \/ PassedOn

\* A text that is copied is the latest; all older ones stay seen.
LEMMA LatestIsCopied ==
  ASSUME copied \in Seq(Text), NEW t \in Text, copied' = Append(copied, t)
  PROVE  Latest' = t /\ copied' \in Seq(Text) /\ \A s : Seen(s) => Seen(s)'
<1>1. PICK w \in Seq(Text) : w = copied
  OBVIOUS
<1>2. PICK x \in Seq(Text) : x = Append(w, t)
  <2>1. Append(w, t) \in Seq(Text)
    OBVIOUS
  <2>. QED
    BY <2>1
<1>3. /\ Len(x) = Len(w) + 1 /\ Len(w) \in Nat /\ x[Len(w) + 1] = t /\ x # <<>>
      /\ \A n \in 1..Len(w) : x[n] = w[n]
  BY <1>2, SMTT(40)
<1>4. copied' = x
  BY <1>1, <1>2
<1>5. Latest' = t
  BY <1>3, <1>4 DEF Latest
<1>6. \A s : Seen(s) => Seen(s)'
  BY <1>1, <1>3, <1>4 DEF Seen
<1>. QED
  BY <1>4, <1>5, <1>6

\* A text is copied when the one before it is everywhere: it is another one.
LEMMA CopiedAtRest ==
  ASSUME orderly, SyncInv, NEW t \in Text, Clipboard!Copying(t)
  PROVE  /\ SyncTypes /\ copied' = Append(copied, t) /\ Latest # t
         /\ lastClip = Latest /\ hostClip = Latest /\ noticed
         /\ \A v \in Taking : Quiet(v) /\ Has(v) /\ lastRemote[v] # t
<1>1. /\ Clipboard!AtRest /\ \A n \in DOMAIN copied : copied[n] # t
      /\ copied' = Append(copied, t)
  BY DEF Clipboard!Copying
<1>2. SyncTypes /\ (\A v \in Taking : Seen(lastRemote[v])) /\ (FromHost \/ FromViewer \/ PassedOn)
  BY DEF SyncInv
<1>3. t # Nothing /\ Nothing \notin Text
  BY ClipboardAssumed DEF Clipboard!ClipboardAssumption
<1>4. \A s : Seen(s) => s # t
  BY <1>1, <1>2, <1>3 DEF Seen, SyncTypes
<1>5. Seen(Latest)
  <2>1. CASE copied = <<>>
    BY <2>1 DEF Seen, Latest
  <2>2. CASE copied # <<>>
    <3>1. Len(copied) \in 1..Len(copied)
      BY <1>2, <2>2 DEF SyncTypes
    <3>. QED
      BY <2>2, <3>1 DEF Seen, Latest
  <2>. QED
    BY <2>1, <2>2
<1>6. ~FromHost
  BY <1>1 DEF FromHost, Clipboard!AtRest
<1>7. ~FromViewer
  <2>. SUFFICES ASSUME FromViewer PROVE FALSE
    OBVIOUS
  <2>1. PICK o \in Taking : Copied(o) \/ Sent(o)
    BY DEF FromViewer
  <2>2. up[o] = <<>> /\ ~Clipboard!WouldSend(o) /\ o \notin Watching
    BY <1>1, <2>1 DEF Clipboard!AtRest, Taking
  <2>3. Copied(o)
    BY <2>1, <2>2 DEF Sent
  <2>4. Latest # Nothing
    BY <1>3 DEF FromViewer
  <2>. QED
    BY <2>2, <2>3, <2>4 DEF Copied, Clipboard!WouldSend
<1>8. PassedOn
  BY <1>2, <1>6, <1>7
<1>9. ASSUME NEW v \in Taking PROVE Quiet(v) /\ Has(v) /\ lastRemote[v] # t
  <2>1. down[v] = <<>>
    BY <1>1 DEF Clipboard!AtRest, Taking
  <2>2. ~Coming(v)
    BY <2>1 DEF Coming
  <2>. QED
    BY <1>2, <1>4, <1>8, <2>2 DEF PassedOn
<1>. QED
  BY <1>1, <1>2, <1>4, <1>5, <1>8, <1>9 DEF PassedOn

\* A copy on the host, when the last text has arrived everywhere.
LEMMA HostCopySteps ==
  ASSUME orderly, SyncInv, Clipboard!HostCopies
  PROVE  SyncInv'
<1>1. PICK t \in Text : Clipboard!Copying(t) /\ hostClip' = t
  BY DEF Clipboard!HostCopies
<1>2. ~noticed' /\ UNCHANGED <<lastClip, clip, lastLocal, lastRemote, up, down, orderly>>
  BY DEF Clipboard!HostCopies, Clipboard!viewVars
<1>3. /\ SyncTypes /\ copied' = Append(copied, t) /\ Latest # t
      /\ lastClip = Latest /\ hostClip = Latest /\ noticed
      /\ \A v \in Taking : Quiet(v) /\ Has(v) /\ lastRemote[v] # t
  BY <1>1, CopiedAtRest
<1>4. Latest' = t /\ copied' \in Seq(Text) /\ \A s : Seen(s) => Seen(s)'
  BY <1>3, LatestIsCopied DEF SyncTypes
<1>5. SyncTypes'
  BY <1>2, <1>3, <1>4 DEF SyncTypes
<1>6. \A v \in Taking : Seen(lastRemote[v])'
  <2>1. \A v \in Taking : Seen(lastRemote[v])
    BY DEF SyncInv
  <2>. QED
    BY <1>2, <1>4, <2>1 DEF Seen
<1>7. \A v \in Watching : (Quiet(v) /\ clip[v] = Nothing)'
  BY <1>2 DEF SyncInv, Quiet
<1>8. \A v \in Taking : Waits(v)'
  BY <1>2, <1>3 DEF Waits, Quiet, Has, Clipboard!WouldSend
<1>9. FromHost'
  BY <1>1, <1>2, <1>3, <1>4, <1>8 DEF FromHost
<1>. QED
  BY <1>5, <1>6, <1>7, <1>9 DEF SyncInv

\* A copy on a viewer, when the last text has arrived everywhere.
LEMMA ViewerCopySteps ==
  ASSUME orderly, SyncInv, NEW o \in Viewer, Clipboard!ViewerCopies(o)
  PROVE  SyncInv'
<1>1. PICK t \in Text : Clipboard!Copying(t) /\ clip' = [clip EXCEPT ![o] = t]
  BY DEF Clipboard!ViewerCopies
<1>2. /\ o \in Taking
      /\ UNCHANGED <<hostClip, noticed, lastClip, lastLocal, lastRemote, up, down, orderly>>
  BY DEF Clipboard!ViewerCopies, Clipboard!hostVars, Taking
<1>3. /\ SyncTypes /\ copied' = Append(copied, t) /\ Latest # t
      /\ lastClip = Latest /\ hostClip = Latest /\ noticed
      /\ \A v \in Taking : Quiet(v) /\ Has(v) /\ lastRemote[v] # t
  BY <1>1, CopiedAtRest
<1>4. Latest' = t /\ copied' \in Seq(Text) /\ \A s : Seen(s) => Seen(s)'
  BY <1>3, LatestIsCopied DEF SyncTypes
<1>5. SyncTypes'
  BY <1>1, <1>2, <1>3, <1>4 DEF SyncTypes
<1>6. \A v \in Taking : Seen(lastRemote[v])'
  <2>1. \A v \in Taking : Seen(lastRemote[v])
    BY DEF SyncInv
  <2>. QED
    BY <1>2, <1>4, <2>1 DEF Seen
<1>7. clip'[o] = t /\ \A v : v # o /\ v \in Viewer => clip'[v] = clip[v]
  BY <1>1, <1>3 DEF SyncTypes
<1>8. \A v \in Watching : (Quiet(v) /\ clip[v] = Nothing)'
  <2>1. \A v \in Watching : v \in Viewer /\ v # o
    BY <1>2, ClipboardAssumed DEF Clipboard!ClipboardAssumption, Taking
  <2>. QED
    BY <1>2, <1>7, <2>1 DEF SyncInv, Quiet
<1>9. \A v \in Taking \ {o} : Waits(v)'
  BY <1>2, <1>3, <1>7 DEF Waits, Quiet, Has, Clipboard!WouldSend, Taking
<1>10. Copied(o)'
  BY <1>2, <1>3, <1>4, <1>7 DEF Copied, Quiet, Has
<1>11. FromViewer'
  BY <1>2, <1>3, <1>4, <1>9, <1>10 DEF FromViewer
<1>. QED
  BY <1>5, <1>6, <1>8, <1>11 DEF SyncInv


\* check_local_clipboard: it sends what was copied, once.
LEMMA PollViewerSteps ==
  ASSUME orderly, SyncInv, NEW o \in Viewer, Clipboard!PollViewer(o)
  PROVE  SyncInv'
<1>1. /\ Clipboard!WouldSend(o) /\ o \in Taking
      /\ UNCHANGED <<hostClip, noticed, lastClip, clip, lastRemote, down, copied, orderly>>
      /\ up' = [up EXCEPT ![o] = Append(@, clip[o])] /\ lastLocal' = [lastLocal EXCEPT ![o] = clip[o]]
  BY DEF Clipboard!PollViewer, Clipboard!Send, Clipboard!hostVars, Clipboard!WouldSend, Taking
<1>2. SyncTypes /\ Latest' = Latest
  BY <1>1 DEF SyncInv, Latest
<1>3. FromViewer /\ Copied(o) /\ \A v \in Taking \ {o} : Waits(v)
  BY <1>1 DEF SyncInv, FromHost, FromViewer, PassedOn, Waits, Coming, Has, Sent, Clipboard!WouldSend
<1>4. SyncTypes'
  BY <1>1, <1>2 DEF SyncTypes
<1>5. /\ \A v \in Viewer : v # o => up'[v] = up[v] /\ lastLocal'[v] = lastLocal[v]
      /\ up'[o] = <<Latest>> /\ lastLocal'[o] = Latest
  <2>1. Append(<<>>, Latest) = <<Latest>>
    OBVIOUS
  <2>. QED
    BY <1>1, <1>2, <1>3, <2>1 DEF SyncTypes, Copied, Quiet
<1>6. Sent(o)'
  BY <1>1, <1>2, <1>3, <1>5 DEF Sent, Has, Copied, Quiet
<1>7. \A v \in Taking \ {o} : Waits(v)'
  BY <1>1, <1>3, <1>5 DEF Waits, Quiet, Clipboard!WouldSend, Taking
<1>8. FromViewer'
  BY <1>1, <1>2, <1>3, <1>6, <1>7 DEF FromViewer
<1>9. \A v \in Watching : (Quiet(v) /\ clip[v] = Nothing)'
  <2>1. \A v \in Watching : v \in Viewer /\ v # o
    BY <1>1, ClipboardAssumed DEF Clipboard!ClipboardAssumption, Taking
  <2>. QED
    BY <1>1, <1>5, <2>1 DEF SyncInv, Quiet
<1>10. \A v \in Taking : Seen(lastRemote[v])'
  BY <1>1 DEF SyncInv, Seen
<1>. QED
  BY <1>4, <1>8, <1>9, <1>10 DEF SyncInv

\* poll_clipboard: what was copied on the host goes to all who take part.
LEMMA PollHostSteps ==
  ASSUME orderly, SyncInv, Clipboard!PollHost
  PROVE  SyncInv'
<1>1. /\ ~noticed /\ noticed' = TRUE
      /\ UNCHANGED <<hostClip, clip, lastLocal, lastRemote, up, copied, orderly>>
  BY DEF Clipboard!PollHost, Clipboard!viewVars
<1>2. SyncTypes /\ Latest' = Latest /\ FromHost
  BY <1>1 DEF SyncInv, Latest, FromViewer, PassedOn
<1>3. lastClip' = hostClip /\ down' = Clipboard!SendTo(Taking, hostClip)
  <2>1. hostClip \notin {Nothing, lastClip}
    BY <1>2, ClipboardAssumed DEF FromHost, Clipboard!ClipboardAssumption
  <2>. QED
    BY <2>1 DEF Clipboard!PollHost, Clipboard!Taking, Taking
<1>4. /\ DOMAIN down' = Viewer /\ \A v \in Taking : down'[v] = <<Latest>>
      /\ \A v \in Viewer \ Taking : down'[v] = down[v]
  <2>1. Append(<<>>, Latest) = <<Latest>>
    OBVIOUS
  <2>2. \A v \in Taking : down[v] = <<>> /\ v \in Viewer
    BY <1>2 DEF FromHost, Waits, Quiet, Taking
  <2>. QED
    BY <1>2, <1>3, <2>1, <2>2 DEF FromHost, Clipboard!SendTo
<1>5. SyncTypes'
  BY <1>1, <1>2, <1>4 DEF SyncTypes
<1>6. \A v \in Taking : Coming(v)'
  BY <1>1, <1>2, <1>4 DEF FromHost, Waits, Quiet, Coming, Clipboard!WouldSend
<1>7. PassedOn'
  BY <1>1, <1>2, <1>3, <1>6 DEF PassedOn, FromHost
<1>8. \A v \in Watching : (Quiet(v) /\ clip[v] = Nothing)'
  <2>1. \A v \in Watching : v \in Viewer \ Taking
    BY ClipboardAssumed DEF Clipboard!ClipboardAssumption, Taking
  <2>. QED
    BY <1>1, <1>4, <2>1 DEF SyncInv, Quiet
<1>9. \A v \in Taking : Seen(lastRemote[v])'
  BY <1>1 DEF SyncInv, Seen
<1>. QED
  BY <1>5, <1>7, <1>8, <1>9 DEF SyncInv

\* CLIPBOARD from a viewer: it goes to the others.
LEMMA HostReceivesSteps ==
  ASSUME orderly, SyncInv, NEW o \in Viewer, Clipboard!HostReceives(o)
  PROVE  SyncInv'
<1>1. /\ up[o] # <<>> /\ up' = [up EXCEPT ![o] = Tail(@)]
      /\ UNCHANGED <<clip, lastLocal, lastRemote, copied, orderly>>
  BY DEF Clipboard!HostReceives, Clipboard!viewVars
<1>2. o \in Taking /\ o \notin Watching
  BY <1>1 DEF SyncInv, Quiet, Taking
<1>3. SyncTypes /\ Latest' = Latest
  BY <1>1 DEF SyncInv, Latest
<1>4. FromViewer /\ Sent(o) /\ \A v \in Taking \ {o} : Waits(v)
  BY <1>1, <1>2 DEF SyncInv, FromHost, FromViewer, PassedOn, Waits, Coming, Copied, Quiet
<1>5. /\ hostClip' = Latest /\ lastClip' = Latest /\ noticed' = TRUE
      /\ down' = Clipboard!SendTo(Taking \ {o}, Latest)
  <2>1. Head(up[o]) = Latest /\ Latest # lastClip
    BY <1>4 DEF Sent, FromViewer
  <2>. QED
    BY <1>2, <2>1 DEF Clipboard!HostReceives, Clipboard!ToOthers, Clipboard!Taking, Taking
<1>6. /\ DOMAIN down' = Viewer /\ \A v \in Taking \ {o} : down'[v] = <<Latest>>
      /\ \A v \in Viewer \ (Taking \ {o}) : down'[v] = down[v]
  <2>1. Append(<<>>, Latest) = <<Latest>>
    OBVIOUS
  <2>2. \A v \in Taking \ {o} : down[v] = <<>> /\ v \in Viewer
    BY <1>4 DEF Waits, Quiet, Taking
  <2>. QED
    BY <1>5, <2>1, <2>2 DEF Clipboard!SendTo
<1>7. up'[o] = <<>> /\ DOMAIN up' = Viewer /\ \A v \in Viewer : v # o => up'[v] = up[v]
  <2>1. Tail(<<Latest>>) = <<>>
    OBVIOUS
  <2>. QED
    BY <1>1, <1>3, <1>4, <2>1 DEF SyncTypes, Sent
<1>8. SyncTypes'
  BY <1>1, <1>3, <1>6, <1>7 DEF SyncTypes
<1>9. \A v \in Taking \ {o} : Coming(v)'
  BY <1>1, <1>3, <1>4, <1>6, <1>7 DEF Waits, Quiet, Coming, Clipboard!WouldSend, Taking
<1>10. (Quiet(o) /\ Has(o))'
  BY <1>1, <1>3, <1>4, <1>6, <1>7 DEF Sent, Quiet, Has
<1>11. PassedOn'
  BY <1>3, <1>5, <1>9, <1>10 DEF PassedOn
<1>12. \A v \in Watching : (Quiet(v) /\ clip[v] = Nothing)'
  <2>1. \A v \in Watching : v \in Viewer \ (Taking \ {o}) /\ v # o
    BY <1>2, ClipboardAssumed DEF Clipboard!ClipboardAssumption, Taking
  <2>. QED
    BY <1>1, <1>6, <1>7, <2>1 DEF SyncInv, Quiet
<1>13. \A v \in Taking : Seen(lastRemote[v])'
  BY <1>1 DEF SyncInv, Seen
<1>. QED
  BY <1>8, <1>11, <1>12, <1>13 DEF SyncInv

\* CLIPBOARD from the host: it is not sent back.
LEMMA ViewerReceivesSteps ==
  ASSUME orderly, SyncInv, NEW o \in Viewer, Clipboard!ViewerReceives(o)
  PROVE  SyncInv'
<1>1. /\ down[o] # <<>> /\ down' = [down EXCEPT ![o] = Tail(@)]
      /\ clip' = [clip EXCEPT ![o] = Head(down[o])] /\ lastLocal' = [lastLocal EXCEPT ![o] = Head(down[o])]
      /\ lastRemote' = [lastRemote EXCEPT ![o] = Head(down[o])]
      /\ UNCHANGED <<hostClip, noticed, lastClip, up, copied, orderly>>
  BY DEF Clipboard!ViewerReceives, Clipboard!hostVars
<1>2. o \in Taking /\ o \notin Watching
  BY <1>1 DEF SyncInv, Quiet, Taking
<1>3. SyncTypes /\ Latest' = Latest
  BY <1>1 DEF SyncInv, Latest
<1>4. PassedOn /\ Coming(o)
  BY <1>1, <1>2 DEF SyncInv, FromHost, FromViewer, PassedOn, Waits, Copied, Sent, Quiet
<1>5. down[o] = <<Latest>> /\ Head(down[o]) = Latest /\ Tail(down[o]) = <<>>
  BY <1>4 DEF Coming
<1>6. /\ down'[o] = <<>> /\ clip'[o] = Latest /\ lastLocal'[o] = Latest /\ lastRemote'[o] = Latest
      /\ \A v \in Viewer : v # o => /\ down'[v] = down[v] /\ clip'[v] = clip[v]
                                    /\ lastLocal'[v] = lastLocal[v] /\ lastRemote'[v] = lastRemote[v]
  BY <1>1, <1>3, <1>5 DEF SyncTypes
<1>7. SyncTypes'
  BY <1>1, <1>3 DEF SyncTypes
<1>8. (Quiet(o) /\ Has(o))'
  BY <1>1, <1>3, <1>4, <1>6 DEF Quiet, Has, Coming
<1>9. \A v \in Taking \ {o} : (Coming(v) \/ (Quiet(v) /\ Has(v)))'
  <2>. SUFFICES ASSUME NEW v \in Taking, v # o PROVE (Coming(v) \/ (Quiet(v) /\ Has(v)))'
    OBVIOUS
  <2>1. Coming(v) \/ (Quiet(v) /\ Has(v))
    BY <1>4 DEF PassedOn
  <2>2. v \in Viewer
    BY DEF Taking
  <2>. QED
    BY <1>1, <1>3, <1>6, <2>1, <2>2 DEF Coming, Quiet, Has, Clipboard!WouldSend
<1>10. PassedOn'
  BY <1>1, <1>3, <1>4, <1>8, <1>9 DEF PassedOn
<1>11. \A v \in Watching : (Quiet(v) /\ clip[v] = Nothing)'
  <2>1. \A v \in Watching : v \in Viewer /\ v # o
    BY <1>2, ClipboardAssumed DEF Clipboard!ClipboardAssumption, Taking
  <2>. QED
    BY <1>1, <1>6, <2>1 DEF SyncInv, Quiet
<1>12. \A v \in Taking : Seen(lastRemote[v])'
  <2>1. Seen(Latest)
    <3>1. CASE copied = <<>>
      BY <3>1 DEF Seen, Latest
    <3>2. CASE copied # <<>>
      <4>1. Len(copied) \in 1..Len(copied)
        BY <1>3, <3>2 DEF SyncTypes
      <4>. QED
        BY <3>2, <4>1 DEF Seen, Latest
    <3>. QED
      BY <3>1, <3>2
  <2>2. \A v \in Taking : Seen(lastRemote'[v])
    BY <1>2, <1>6, <2>1 DEF SyncInv, Taking
  <2>. QED
    BY <1>1, <2>2 DEF Seen
<1>. QED
  BY <1>7, <1>10, <1>11, <1>12 DEF SyncInv

\* Every step of the clipboards keeps their invariant.
LEMMA SyncKept ==
  ASSUME SyncInv, [Clipboard!Next]_(Clipboard!vars)
  PROVE  SyncInv'
<1>1. UNCHANGED orderly
  BY DEF Clipboard!Next, Clipboard!vars, Clipboard!HostCopies, Clipboard!ViewerCopies, Clipboard!PressSend,
         Clipboard!Programs, Clipboard!PollHost, Clipboard!PollViewer, Clipboard!HostReceives,
         Clipboard!ViewerReceives
<1>2. CASE ~orderly
  BY <1>1, <1>2 DEF SyncInv
<1>3. CASE orderly
  <2>1. CASE UNCHANGED Clipboard!vars
    BY <2>1 DEF Clipboard!vars, SyncInv, SyncTypes, Seen, Quiet, FromHost, FromViewer, PassedOn, Waits, Coming,
                Has, Copied, Sent, Latest, Clipboard!WouldSend
  <2>2. \A v : ~Clipboard!PressSend(v)
    BY <1>3 DEF Clipboard!PressSend
  <2>. QED
    BY <1>3, <2>1, <2>2, HostCopySteps, ViewerCopySteps, PollViewerSteps, PollHostSteps, HostReceivesSteps,
       ViewerReceivesSteps DEF Clipboard!Next, Clipboard!Programs
<1>. QED
  BY <1>2, <1>3

\* poll_clipboard, check_local_clipboard and the CLIPBOARD messages: at rest, the
\* text copied last is everywhere it should be and nowhere else, for any number of
\* viewers and texts.
THEOREM ClipboardsAgree == FairSpec => []InSync
<1>1. FairSpec => Init /\ [][Next]_vars
  BY PTL DEF FairSpec
<1>2. Init => SyncInv
  <2>. SUFFICES ASSUME Clipboard!Init PROVE SyncInv
    BY DEF Init
  <2>1. /\ hostClip = Nothing /\ noticed = TRUE /\ lastClip = Nothing /\ copied = <<>>
        /\ clip = [v \in Viewer |-> Nothing] /\ lastLocal = clip /\ lastRemote = clip
        /\ up = [v \in Viewer |-> <<>>] /\ down = up
    BY DEF Clipboard!Init
  <2>2. Latest = Nothing
    BY <2>1 DEF Latest
  <2>3. SyncTypes
    BY <2>1 DEF SyncTypes
  <2>4. \A v \in Viewer : Quiet(v) /\ Has(v) /\ clip[v] = Nothing /\ Seen(lastRemote[v])
    BY <2>1, <2>2 DEF Quiet, Has, Seen
  <2>5. Watching \subseteq Viewer /\ Taking \subseteq Viewer
    BY ClipboardAssumed DEF Clipboard!ClipboardAssumption, Taking
  <2>6. PassedOn
    BY <2>1, <2>2, <2>4, <2>5 DEF PassedOn
  <2>. QED
    BY <2>3, <2>4, <2>5, <2>6 DEF SyncInv
<1>3. SyncInv /\ [Next]_vars => SyncInv'
  BY ClipboardSteps, SyncKept
<1>4. SyncInv => InSync
  <2>. SUFFICES ASSUME SyncInv, orderly, Clipboard!AtRest, copied # <<>>
                PROVE  /\ hostClip = Latest
                       /\ clip = [v \in Viewer |-> IF v \in Taking THEN Latest ELSE Nothing]
    BY DEF InSync, Clipboard!InSync, Latest, Clipboard!Taking, Taking
  <2>1. ~FromHost
    BY DEF FromHost, Clipboard!AtRest
  <2>2. ~FromViewer
    <3>. SUFFICES ASSUME FromViewer PROVE FALSE
      OBVIOUS
    <3>1. PICK o \in Taking : Copied(o) \/ Sent(o)
      BY DEF FromViewer
    <3>2. up[o] = <<>> /\ ~Clipboard!WouldSend(o) /\ o \notin Watching
      BY <3>1 DEF Clipboard!AtRest, Taking
    <3>3. Copied(o)
      BY <3>1, <3>2 DEF Sent
    <3>4. Latest # Nothing
      BY ClipboardAssumed DEF FromViewer, Clipboard!ClipboardAssumption
    <3>. QED
      BY <3>2, <3>3, <3>4 DEF Copied, Clipboard!WouldSend
  <2>3. PassedOn
    BY <2>1, <2>2 DEF SyncInv
  <2>4. \A v \in Taking : clip[v] = Latest
    <3>. SUFFICES ASSUME NEW v \in Taking PROVE clip[v] = Latest
      OBVIOUS
    <3>1. down[v] = <<>>
      BY DEF Clipboard!AtRest, Taking
    <3>2. ~Coming(v)
      BY <3>1 DEF Coming
    <3>. QED
      BY <2>3, <3>2 DEF PassedOn, Has
  <2>5. \A v \in Viewer : v \notin Taking => clip[v] = Nothing
    BY DEF SyncInv, Taking
  <2>6. hostClip = Latest
    BY <2>3 DEF PassedOn
  <2>7. clip = [v \in Viewer |-> clip[v]]
    BY DEF SyncInv, SyncTypes
  <2>. QED
    BY <2>4, <2>5, <2>6, <2>7
<1>. QED
  BY <1>1, <1>2, <1>3, <1>4, PTL
=============================================================================
