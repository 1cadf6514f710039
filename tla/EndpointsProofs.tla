--------------------------- MODULE EndpointsProofs ---------------------------
(***************************************************************************)
(* Proofs about what the programs do around a session (Endpoints), part by *)
(* part, each for any values of its constants.                             *)
(***************************************************************************)
EXTENDS Endpoints, SequenceTheorems, FiniteSetTheorems, TLAPS

KeyProofs == INSTANCE HostIdentityProofs WITH at <- main, DiskFull <- KeyDiskFull

-----------------------------------------------------------------------------
(* What is kept on disk.                                                   *)

\* A step of Endpoints is a step of the host's key or leaves it alone.
LEMMA KeySteps == [Next]_vars => [KeyProofs!Next]_(KeyProofs!vars)
<1>1. CASE InKey /\ Identified!Next
  BY <1>1 DEF Identified!Next, Identified!Start, Identified!Read, Identified!Make,
       Identified!CannotMake, Identified!Store, Identified!Serve, Identified!End,
       Identified!GoesOn, Identified!Usable, Identified!Making, Identified!NoKeys, Identified!File,
       KeyProofs!Next, KeyProofs!Start, KeyProofs!Read, KeyProofs!Make,
       KeyProofs!CannotMake, KeyProofs!Store, KeyProofs!Serve, KeyProofs!End,
       KeyProofs!GoesOn, KeyProofs!Usable, KeyProofs!Making, KeyProofs!NoKeys, KeyProofs!File
<1>2. CASE UNCHANGED keyVars
  BY <1>2 DEF keyVars, KeyProofs!vars
<1>3. [Next]_vars => (InKey /\ Identified!Next) \/ UNCHANGED keyVars
  BY DEF Next, vars, InConnection, InInput, InTransport, InLink, InShare, InSaved
<1>. QED
  BY <1>1, <1>2, <1>3

\* A step of the composition keeps what HostIdentity proves of the host's key.
LEMMA KeyKept == Init /\ [][Next]_vars => []KeyProofs!IInv
<1>1. Init => KeyProofs!IInv
  <2>1. Init => KeyProofs!Init
    BY DEF Init, Identified!Init, KeyProofs!Init, Identified!NoKeys, KeyProofs!NoKeys,
           Identified!File, KeyProofs!File
  <2>. QED
    BY <2>1, KeyProofs!InitIInv
<1>2. KeyProofs!IdentityAssumption
  BY IdentityAssumed DEF KeyProofs!IdentityAssumption, Identified!IdentityAssumption
<1>3. KeyProofs!IInv /\ [Next]_vars => KeyProofs!IInv'
  BY <1>2, KeySteps, KeyProofs!NextIInv
<1>. QED
  BY <1>1, <1>3, PTL

\* What load() would make of viewer.tsv.
OnDisk == IF viewerTsv = None THEN {} ELSE viewerTsv

\* viewer.tsv has what the last save() wrote until save() removes it, and from then on
\* the temporary file has all of what is in memory; less only if the disk was full.
SavedInv ==
  /\ at \in {"idle", "writing", "written", "removed"}
  /\ at # "removed" => OnDisk = saved \/ ("file" \in short /\ OnDisk \subseteq saved)
  /\ at = "removed" => viewerTsv = None
  /\ at = "writing" => tmp \subseteq pcs
  /\ at \in {"written", "removed"} => tmp = pcs \/ ("tmp" \in short /\ tmp \subseteq pcs)
  /\ pcs \in SUBSET Record /\ saved \in SUBSET Record

\* A file and the absence of one are not mistaken for one another.
LEMMA SavedSound == \A f \in SUBSET Record : f # None
BY SavedAssumed DEF Saved!StoreAssumption

\* At first the file is whole and nobody saves.
LEMMA SavedStarts == Saved!Init => SavedInv
BY SavedSound DEF Saved!Init, SavedInv, OnDisk

\* Every step keeps the invariant, kills included.
LEMMA SavedNext == SavedInv /\ [Saved!Next]_savedVars => SavedInv'
<1>. SUFFICES ASSUME SavedInv, [Saved!Next]_savedVars PROVE SavedInv'
  OBVIOUS
<1>. USE SavedSound DEF SavedInv, OnDisk
<1>1. CASE Saved!Change
  BY <1>1 DEF Saved!Change
<1>2. CASE Saved!Write
  BY <1>2 DEF Saved!Write
<1>3. CASE Saved!RemoveOld
  BY <1>3 DEF Saved!RemoveOld
<1>4. CASE Saved!Rename
  BY <1>4 DEF Saved!Rename
<1>5. CASE Saved!Restart
  <2>1. OnDisk \in SUBSET Record
    BY DEF OnDisk
  <2>. QED
    BY <1>5, <2>1 DEF Saved!Restart
<1>6. CASE UNCHANGED savedVars
  BY <1>6 DEF savedVars
<1>. QED
  BY <1>1, <1>2, <1>3, <1>4, <1>5, <1>6 DEF Saved!Next

\* Store::save, killed at any line, and Store::load after it: all of the old version or
\* all of the new one; but nothing if it is killed between the removal and the rename,
\* and a part if the disk was full while it wrote, which it does not notice.
THEOREM SavesAreWhole == Saved!Spec => Saved!NeverHalf
<1>1. Saved!Init => SavedInv
  BY SavedStarts
<1>2. SavedInv /\ [Saved!Next]_(Saved!vars) => SavedInv'
  BY SavedNext DEF Saved!vars, savedVars
<1>3. SavedInv /\ [Saved!Next]_(Saved!vars) => [Saved!WholeStep]_(Saved!vars)
  BY DEF SavedInv, OnDisk, Saved!Restart, Saved!WholeStep
<1>. QED
  BY <1>1, <1>2, <1>3, PTL DEF Saved!Spec, Saved!NeverHalf

\* A step of the composition keeps what save() goes by.
LEMMA SavedKept == Init /\ [][Next]_vars => []SavedInv
<1>1. Init => SavedInv
  BY SavedStarts DEF Init
<1>2. [Next]_vars => [Saved!Next]_savedVars
  BY DEF Next, vars, InSaved, InConnection, InInput, InTransport, InLink, InShare, InKey
<1>3. SavedInv /\ [Next]_vars => SavedInv'
  BY <1>2, SavedNext
<1>. QED
  BY <1>1, <1>3, PTL

\* Store::save, load_or_create_host_key and load_or_create_relay_id, killed anywhere,
\* on a disk that may be full: the next start of the viewer finds all of the saved PCs
\* as of the last save or the one before, but for the removal window and for what a
\* full disk cut off; and the host is the same one at its next start, but for files
\* that two first starts made at once or that found the disk full.
THEOREM DiskKept == FairSpec => KeptOnDisk
<1>. DEFINE Kept == Saved!WholeStep /\ Identified!OneIdentity' /\ Identified!NextIsSame'
<1>1. FairSpec => Init /\ [][Next]_vars
  BY PTL DEF FairSpec
<1>2. KeyProofs!IInv' => Identified!OneIdentity' /\ Identified!NextIsSame'
  <2>1. KeyProofs!IInv => Identified!OneIdentity /\ Identified!NextIsSame
    BY DEF KeyProofs!IInv, Identified!OneIdentity, Identified!NextIsSame, KeyProofs!ShownStored,
           KeyProofs!HasStored, KeyProofs!Making, KeyProofs!File, Identified!File
  <2>. QED
    BY <2>1, PTL
<1>3. SavedInv /\ [Next]_vars => Saved!WholeStep \/ UNCHANGED vars
  BY DEF SavedInv, OnDisk, Saved!WholeStep, Saved!Restart
<1>4. SavedInv /\ KeyProofs!IInv' /\ [Next]_vars => [Kept]_vars
  BY <1>2, <1>3
<1>. QED
  BY <1>1, <1>4, KeyKept, SavedKept, PTL DEF KeptOnDisk

-----------------------------------------------------------------------------
(* Why a transport ended.                                                  *)

\* Induction over numbers: a set of them has a least one.
LEMMA LeastNumber ==
  ASSUME NEW T, T \subseteq Nat, T # {}
  PROVE  \E n \in T : \A m \in T : n <= m
<1>1. PICK n \in T : \A m \in Nat : <<m, n>> \in OpToRel(<, Nat) => m \notin T
  BY NatLessThanWellFounded, WFMin
<1>2. \A m \in T : ~(m < n)
  BY <1>1 DEF OpToRel
<1>. QED
  BY <1>2

\* open_socket passes over the addresses of a family the computer has not, only.
LEMMA OpensFirst ==
  ASSUME Transport!TransportAssumption, NEW from \in Nat
  PROVE  /\ Transport!Opens(from) = -1 =>
              \A i \in Transport!Names : i >= from /\ i < MaxAddresses => reach[i] = "unsupported"
         /\ Transport!Opens(from) # -1 =>
              /\ Transport!Opens(from) \in Transport!Names /\ Transport!Opens(from) >= from
              /\ \A i \in Transport!Names :
                   i >= from /\ i < Transport!Opens(from) /\ i < MaxAddresses => reach[i] = "unsupported"
<1>1. Addresses \in Nat /\ MaxAddresses \in Nat
  BY DEF Transport!TransportAssumption
<1>2. PICK usable : usable = {i \in Transport!Names : i >= from /\ i < MaxAddresses /\ reach[i] # "unsupported"}
  OBVIOUS
<1>3. Transport!Opens(from) = IF usable = {} THEN -1 ELSE CHOOSE i \in usable : \A j \in usable : i <= j
  BY <1>2 DEF Transport!Opens
<1>4. usable \subseteq Nat
  BY <1>1, <1>2 DEF Transport!Names
<1>5. CASE usable = {}
  BY <1>2, <1>3, <1>5
<1>6. CASE usable # {}
  <2>1. PICK o : o = Transport!Opens(from)
    OBVIOUS
  <2>2. o \in usable /\ \A j \in usable : o <= j
    <3>1. \E i \in usable : \A j \in usable : i <= j
      BY <1>4, <1>6, LeastNumber
    <3>. QED
      BY <1>3, <1>6, <2>1, <3>1
  <2>3. o \in Transport!Names /\ o >= from /\ o # -1
    BY <1>2, <1>4, <2>2
  <2>4. ASSUME NEW i \in Transport!Names, i >= from, i < o, i < MaxAddresses
        PROVE  reach[i] = "unsupported"
    <3>1. i \notin usable
      <4>1. i \in Nat /\ o \in Nat
        BY <1>1, <1>4, <2>2 DEF Transport!Names
      <4>. QED
        BY <2>2, <2>4, <4>1
    <3>. QED
      BY <1>2, <2>4, <3>1
  <2>. QED
    BY <2>1, <2>3, <2>4
<1>. QED
  BY <1>5, <1>6

\* What is on the wire follows what was handed over: messages, and then the end.
Following(w, n, s) ==
  /\ w \in Seq(Int) /\ n \in Nat
  /\ \A i \in 1..Len(w) : w[i] = n + i \/ (i = Len(w) /\ w[i] <= 0)
  /\ s = n + (IF w # <<>> /\ w[Len(w)] <= 0 THEN Len(w) - 1 ELSE Len(w))

ReasonInv ==
  /\ got \in Seq(Nat) /\ \A i \in 1..Len(got) : got[i] = i
  /\ error # "none" => state = "Closed"
  /\ error = "refused" =>
       \A i \in Transport!Names : i < MaxAddresses => reach[i] \in {"refuses", "unsupported"}
  /\ error = "closed" => Len(got) = sent
  /\ state # "Closed" => Following(wire, Len(got), sent)
  /\ state = "Connecting" /\ ~tcpUp =>
       /\ attempt \in Transport!Names
       /\ \A i \in Transport!Names :
            i < attempt /\ i < MaxAddresses => reach[i] \in {"refuses", "unsupported"}

\* What follows a number on the wire is a sequence of numbers.
LEMMA FollowingTyped ==
  ASSUME NEW w, NEW n, NEW s, Following(w, n, s)
  PROVE  /\ w \in Seq(Int) /\ n \in Nat /\ Len(w) \in Nat
         /\ \A i \in 1..Len(w) : w[i] \in Int
  BY DEF Following

\* The messages in front of the end, where only the last can be the end.
LEMMA GoodOf ==
  ASSUME NEW m \in Nat, NEW r, DOMAIN r = 1..m, Len(r) = m, \A i \in 1..m : r[i] \in Int,
         \A i \in 1..m : i < m => r[i] > 0
  PROVE  Transport!Good(r) = IF m > 0 /\ r[m] <= 0 THEN m - 1 ELSE m
<1>1. CASE m > 0 /\ r[m] <= 0
  <2>1. m \in DOMAIN r /\ r[m] <= 0
    BY <1>1
  <2>2. Transport!Good(r) = CHOOSE h \in 0..(m - 1) : r[h + 1] <= 0 /\ \A i \in 1..h : r[i] > 0
    BY <2>1 DEF Transport!Good
  <2>3. m - 1 \in 0..(m - 1) /\ r[(m - 1) + 1] <= 0 /\ \A i \in 1..(m - 1) : r[i] > 0
    BY <1>1
  <2>4. PICK g : g = Transport!Good(r)
    OBVIOUS
  <2>5. g \in 0..(m - 1) /\ r[g + 1] <= 0
    BY <2>2, <2>3, <2>4
  <2>6. g = m - 1
    <3>1. g + 1 \in 1..m /\ r[g + 1] \in Int /\ ~(r[g + 1] > 0)
      BY <2>5
    <3>2. ~(g + 1 < m)
      BY <3>1
    <3>. QED
      BY <2>5, <3>2
  <2>. QED
    BY <1>1, <2>4, <2>6
<1>2. CASE ~(m > 0 /\ r[m] <= 0)
  <2>1. ASSUME NEW i \in 1..m
        PROVE  ~(r[i] <= 0)
    BY <1>2, <2>1
  <2>2. ~\E i \in DOMAIN r : r[i] <= 0
    BY <2>1
  <2>. QED
    BY <1>2, <2>2 DEF Transport!Good
<1>. QED
  BY <1>1, <1>2

\* The messages in the first m of what is read, and what stands behind them.
LEMMA GoodPart ==
  ASSUME NEW w, NEW n, NEW s, Following(w, n, s), NEW m \in 0..Len(w),
         NEW r, r \in Seq(Int), Len(r) = m, \A i \in 1..m : r[i] = w[i]
  PROVE  /\ Transport!Good(r) \in 0..m
         /\ \A i \in 1..Transport!Good(r) : w[i] = n + i
         /\ Transport!Good(r) < m => m = Len(w) /\ Transport!Good(r) = m - 1 /\ w[m] <= 0
         /\ Transport!Good(r) = m /\ m > 0 => w[m] > 0
<1>1. n \in Nat /\ Len(w) \in Nat /\ m \in Nat /\ (\A i \in 1..Len(w) : w[i] \in Int)
      /\ \A i \in 1..Len(w) : w[i] = n + i \/ (i = Len(w) /\ w[i] <= 0)
  BY FollowingTyped DEF Following
<1>2. \A i \in 1..m : r[i] \in Int /\ w[i] \in Int
  BY <1>1
<1>3. \A i \in 1..m : i < m => w[i] = n + i /\ r[i] > 0
  BY <1>1
<1>4. DOMAIN r = 1..m
  OBVIOUS
<1>5. PICK g : g = Transport!Good(r)
  OBVIOUS
<1>6. g = IF m > 0 /\ r[m] <= 0 THEN m - 1 ELSE m
  BY <1>1, <1>2, <1>3, <1>4, <1>5, GoodOf
<1>7. CASE m > 0 /\ w[m] <= 0
  <2>1. g = m - 1 /\ m = Len(w)
    BY <1>1, <1>6, <1>7
  <2>. QED
    BY <1>1, <1>3, <1>5, <1>7, <2>1
<1>8. CASE ~(m > 0 /\ w[m] <= 0)
  <2>1. g = m
    BY <1>1, <1>6, <1>8
  <2>2. m > 0 => w[m] > 0 /\ w[m] = n + m
    BY <1>1, <1>2, <1>8
  <2>3. \A i \in 1..m : w[i] = n + i
    BY <1>1, <1>3, <2>2
  <2>. QED
    BY <1>1, <1>5, <2>1, <2>2, <2>3
<1>. QED
  BY <1>7, <1>8

\* Transport connects: the next address, or a reason that is so.
LEMMA ReasonConnect ==
  ASSUME Transport!TransportAssumption, ReasonInv, Transport!Connect
  PROVE  ReasonInv'
<1>1. state = "Idle" /\ UNCHANGED <<tcpUp, secure, clock, got, reach, server, wire, sent>>
  BY DEF Transport!Connect, Transport!peer
<1>2. PICK o : o = Transport!Opens(0)
  OBVIOUS
<1>3. /\ o = -1 => \A i \in Transport!Names : i >= 0 /\ i < MaxAddresses => reach[i] = "unsupported"
      /\ o # -1 => /\ o \in Transport!Names
                   /\ \A i \in Transport!Names : i >= 0 /\ i < o /\ i < MaxAddresses => reach[i] = "unsupported"
  BY <1>2, OpensFirst
<1>4. \A i \in Transport!Names : i >= 0
  BY DEF Transport!Names, Transport!TransportAssumption
<1>5. CASE o = -1
  <2>1. state' = "Closed" /\ error' = "no address"
    BY <1>1, <1>2, <1>5 DEF Transport!Connect, Transport!Fails, ReasonInv
  <2>. QED
    BY <1>1, <2>1 DEF ReasonInv
<1>6. CASE o # -1
  <2>1. state' = "Connecting" /\ attempt' = o /\ error' = error
    BY <1>1, <1>2, <1>6 DEF Transport!Connect
  <2>2. o \in Transport!Names
        /\ \A i \in Transport!Names : i < o /\ i < MaxAddresses => reach[i] \in {"refuses", "unsupported"}
    BY <1>3, <1>4, <1>6
  <2>. QED
    BY <1>1, <2>1, <2>2 DEF ReasonInv, Transport!Names
<1>. QED
  BY <1>5, <1>6

\* The server refuses: the reason is the refusal.
LEMMA ReasonRefused ==
  ASSUME Transport!TransportAssumption, ReasonInv, Transport!Refused
  PROVE  ReasonInv'
<1>1. state = "Connecting" /\ ~tcpUp /\ reach[attempt] = "refuses"
      /\ UNCHANGED <<tcpUp, secure, clock, got, reach, server, wire, sent>>
  BY DEF Transport!Refused, Transport!peer
<1>2. attempt \in Transport!Names
      /\ \A i \in Transport!Names : i < attempt /\ i < MaxAddresses => reach[i] \in {"refuses", "unsupported"}
  BY <1>1 DEF ReasonInv
<1>3. PICK n \in Nat : n = attempt + 1
  BY <1>2 DEF Transport!Names, Transport!TransportAssumption
<1>4. PICK o : o = Transport!Opens(n)
  OBVIOUS
<1>5. /\ o = -1 => \A i \in Transport!Names : i >= n /\ i < MaxAddresses => reach[i] = "unsupported"
      /\ o # -1 => /\ o \in Transport!Names
                   /\ \A i \in Transport!Names : i >= n /\ i < o /\ i < MaxAddresses => reach[i] = "unsupported"
  BY <1>4, OpensFirst
<1>6. \A i \in Transport!Names : i < attempt \/ i = attempt \/ i >= n
  BY <1>2, <1>3 DEF Transport!Names, Transport!TransportAssumption
<1>7. CASE o = -1
  <2>1. state' = "Closed" /\ error' = "refused"
    BY <1>1, <1>3, <1>4, <1>7 DEF Transport!Refused, Transport!Fails, ReasonInv
  <2>2. \A i \in Transport!Names : i < MaxAddresses => reach[i] \in {"refuses", "unsupported"}
    BY <1>1, <1>2, <1>5, <1>6, <1>7
  <2>. QED
    BY <1>1, <2>1, <2>2 DEF ReasonInv, Transport!Names
<1>8. CASE o # -1
  <2>1. attempt' = o /\ error' = error /\ state' = state
    BY <1>1, <1>3, <1>4, <1>8 DEF Transport!Refused
  <2>2. o \in Transport!Names
        /\ \A i \in Transport!Names : i < o /\ i < MaxAddresses => reach[i] \in {"refuses", "unsupported"}
    BY <1>1, <1>2, <1>5, <1>6, <1>8
  <2>. QED
    BY <1>1, <2>1, <2>2 DEF ReasonInv, Transport!Names
<1>. QED
  BY <1>7, <1>8

\* poll reads messages up to the CLOSE or the end of the stream.
LEMMA ReasonRead ==
  ASSUME ReasonInv, Transport!Read
  PROVE  ReasonInv'
<1>1. PICK n \in 0..Len(wire) :
        /\ Transport!Deliver(SubSeq(wire, 1, n))
        /\ wire' = SubSeq(wire, n + 1, Len(wire))
  BY DEF Transport!Read
<1>2. state # "Closed" /\ (state = "Connecting" => tcpUp)
      /\ UNCHANGED <<attempt, tcpUp, secure, clock, reach, server, sent>>
  BY DEF Transport!Read, Transport!Secured
<1>3. Following(wire, Len(got), sent) /\ error = "none"
  BY <1>2 DEF ReasonInv
<1>4. PICK r, g : r = SubSeq(wire, 1, n) /\ g = Transport!Good(r)
  OBVIOUS
<1>0. g = Transport!Good(r) /\ r = SubSeq(wire, 1, n) /\ r \in Seq(Int) /\ Len(r) = n
      /\ \A i \in 1..n : r[i] = wire[i]
  BY <1>3, <1>4, FollowingTyped
<1>5. /\ g \in 0..n /\ r \in Seq(Int) /\ Len(r) = n
      /\ \A i \in 1..g : wire[i] = Len(got) + i
      /\ g < n => n = Len(wire) /\ g = n - 1 /\ wire[n] <= 0
      /\ g = n /\ n > 0 => wire[n] > 0
  <2>1. PICK k : k = Len(got)
    OBVIOUS
  <2>2. Following(wire, k, sent) /\ n \in 0..Len(wire)
    BY <1>1, <1>3, <2>1
  <2>3. r \in Seq(Int) /\ Len(r) = n /\ \A i \in 1..n : r[i] = wire[i]
    BY <1>0
  <2>4. /\ Transport!Good(r) \in 0..n
        /\ \A i \in 1..Transport!Good(r) : wire[i] = k + i
        /\ Transport!Good(r) < n => n = Len(wire) /\ Transport!Good(r) = n - 1 /\ wire[n] <= 0
        /\ Transport!Good(r) = n /\ n > 0 => wire[n] > 0
    BY <2>2, <2>3, GoodPart
  <2>5. g = Transport!Good(r)
    BY <1>4
  <2>. QED
    BY <2>1, <2>3, <2>4, <2>5, Zenon
<1>6. wire \in Seq(Int) /\ Len(got) \in Nat /\ Len(wire) \in Nat /\ n \in Nat
      /\ (\A i \in 1..Len(wire) : wire[i] \in Int)
      /\ got \in Seq(Nat) /\ \A i \in 1..Len(got) : got[i] = i
  <2>1. wire \in Seq(Int) /\ Len(got) \in Nat /\ Len(wire) \in Nat
    BY <1>3, FollowingTyped
  <2>4. \A i \in 1..Len(wire) : wire[i] \in Int
    BY <1>3, FollowingTyped
  <2>2. got \in Seq(Nat) /\ \A i \in 1..Len(got) : got[i] = i
    BY DEF ReasonInv
  <2>3. n \in Nat
    BY <2>1
  <2>. QED
    BY <2>1, <2>2, <2>3, <2>4
<1>7. PICK p : p = SubSeq(r, 1, g)
  OBVIOUS
<1>8. Len(p) = g /\ \A i \in 1..g : p[i] = Len(got) + i
  BY <1>4, <1>5, <1>6, <1>7
<1>9. p \in Seq(Nat)
  <2>1. p \in Seq(Int)
    BY <1>5, <1>7
  <2>2. \A i \in 1..Len(p) : p[i] \in Nat
    BY <1>6, <1>8
  <2>. QED
    BY <2>1, <2>2, SMTT(40)
<1>10. got' = got \o p
  BY <1>1, <1>4, <1>7 DEF Transport!Deliver
<1>11. got' \in Seq(Nat) /\ Len(got') = Len(got) + g
  <2>1. got \o p \in Seq(Nat) /\ Len(got \o p) = Len(got) + Len(p)
    BY <1>6, <1>9, ConcatProperties
  <2>. QED
    BY <1>8, <1>10, <2>1, Zenon
<1>12. ASSUME NEW i \in 1..Len(got')
       PROVE  got'[i] = i
  <2>1. CASE i <= Len(got)
    <3>1. i \in 1..Len(got)
      BY <1>6, <2>1
    <3>2. got[i] = i /\ got'[i] = got[i]
      BY <1>6, <1>9, <1>10, <3>1, ConcatProperties
    <3>. QED
      BY <3>2
  <2>2. CASE ~(i <= Len(got))
    <3>1. i - Len(got) \in 1..g /\ got'[i] = p[i - Len(got)]
      BY <1>6, <1>8, <1>9, <1>10, <1>11, <2>2
    <3>. QED
      BY <1>6, <1>8, <3>1
  <2>. QED
    BY <2>1, <2>2
<1>13. CASE g < n
  <2>1. n = Len(wire) /\ g = n - 1 /\ wire[n] <= 0 /\ wire # <<>>
    BY <1>5, <1>6, <1>13
  <2>2. sent = Len(got) + g
    BY <1>3, <2>1 DEF Following
  <2>0. \E why \in {"closed", "protocol error"} : Transport!Fails(why)
    <3>1. Transport!Good(SubSeq(wire, 1, n)) # Len(SubSeq(wire, 1, n))
      BY <1>0, <1>5, <1>6, <1>13
    <3>. QED
      BY <1>1, <3>1 DEF Transport!Deliver
  <2>3. state' = "Closed"
    BY <2>0 DEF Transport!Fails
  <2>4. error' \in {"closed", "protocol error"}
    BY <1>3, <2>0 DEF Transport!Fails
  <2>. QED
    BY <1>2, <1>11, <1>12, <2>2, <2>3, <2>4 DEF ReasonInv
<1>14. CASE g = n
  <2>1. state' = "Open" /\ error' = error
    BY <1>1, <1>4, <1>5, <1>14 DEF Transport!Deliver
  <2>2. PICK w : w = SubSeq(wire, n + 1, Len(wire))
    OBVIOUS
  <2>3. w \in Seq(Int) /\ Len(w) = Len(wire) - n /\ \A i \in 1..Len(w) : w[i] = wire[n + i]
    BY <1>6, <2>2
  <2>4. \A i \in 1..Len(w) : w[i] = (Len(got) + n) + i \/ (i = Len(w) /\ w[i] <= 0)
    <3>1. ASSUME NEW i \in 1..Len(w)
          PROVE  w[i] = (Len(got) + n) + i \/ (i = Len(w) /\ w[i] <= 0)
      <4>1. n + i \in 1..Len(wire) /\ (n + i = Len(wire) => i = Len(w)) /\ w[i] = wire[n + i]
        BY <1>6, <2>3
      <4>2. wire[n + i] = Len(got) + (n + i) \/ (n + i = Len(wire) /\ wire[n + i] <= 0)
        BY <1>3, <4>1 DEF Following
      <4>3. Len(got) + (n + i) = (Len(got) + n) + i
        BY <1>6
      <4>. QED
        BY <4>1, <4>2, <4>3
    <3>. QED
      BY <3>1
  <2>5. sent = (Len(got) + n) + (IF w # <<>> /\ w[Len(w)] <= 0 THEN Len(w) - 1 ELSE Len(w))
    <3>1. sent = Len(got) + (IF wire # <<>> /\ wire[Len(wire)] <= 0 THEN Len(wire) - 1 ELSE Len(wire))
      BY <1>3 DEF Following
    <3>2. CASE w = <<>>
      <4>1. n = Len(wire) /\ Len(w) = 0
        BY <1>6, <2>3, <3>2
      <4>2. ~(wire # <<>> /\ wire[Len(wire)] <= 0)
        BY <1>5, <1>6, <1>14, <4>1
      <4>. QED
        BY <1>6, <3>1, <3>2, <4>1, <4>2
    <3>3. CASE w # <<>>
      <4>0. Len(w) \in 1..Len(w) /\ n + Len(w) = Len(wire) /\ Len(wire) > 0
        <5>1. Len(w) \in Nat /\ Len(w) # 0
          BY <2>3, <3>3, EmptySeq
        <5>. QED
          BY <1>6, <2>3, <5>1
      <4>1. w[Len(w)] = wire[Len(wire)] /\ wire # <<>>
        <5>1. PICK j : j = Len(w)
          OBVIOUS
        <5>2. w[j] = wire[n + j]
          BY <2>3, <4>0, <5>1
        <5>3. n + j = Len(wire) /\ Len(wire) # 0
          BY <1>6, <4>0, <5>1
        <5>4. wire # <<>>
          BY <1>6, <5>3
        <5>. QED
          BY <5>1, <5>2, <5>3, <5>4, Zenon
      <4>2. Len(w) = Len(wire) - n /\ Len(wire) \in Nat /\ n \in Nat /\ Len(got) \in Nat
        BY <1>6, <2>3
      <4>3. CASE wire[Len(wire)] <= 0
        <5>1. sent = Len(got) + (Len(wire) - 1) /\ w # <<>> /\ w[Len(w)] <= 0
          BY <3>1, <3>3, <4>1, <4>3
        <5>2. sent = (Len(got) + n) + (Len(w) - 1)
          BY <4>2, <5>1
        <5>. QED
          BY <5>1, <5>2
      <4>4. CASE ~(wire[Len(wire)] <= 0)
        <5>1. sent = Len(got) + Len(wire) /\ ~(w[Len(w)] <= 0)
          BY <3>1, <3>3, <4>1, <4>4
        <5>2. sent = (Len(got) + n) + Len(w)
          BY <4>2, <5>1
        <5>. QED
          BY <5>1, <5>2
      <4>. QED
        BY <4>3, <4>4
    <3>. QED
      BY <3>2, <3>3
  <2>6. Len(got') = Len(got) + n /\ Len(got) + n \in Nat
    BY <1>6, <1>11, <1>14
  <2>7. Following(w, Len(got) + n, sent)
    BY <2>3, <2>4, <2>5, <2>6 DEF Following
  <2>8. wire' = w
    BY <1>1, <2>2
  <2>. QED
    BY <1>2, <1>3, <1>11, <1>12, <2>1, <2>6, <2>7, <2>8 DEF ReasonInv
<1>. QED
  BY <1>5, <1>6, <1>13, <1>14

\* The server adds to what is on the wire, or ends it.
LEMMA ReasonSends ==
  ASSUME ReasonInv, Transport!ServerSends
  PROVE  ReasonInv'
<1>1. state # "Closed" /\ (\A i \in 1..Len(wire) : wire[i] > 0)
      /\ UNCHANGED <<state, attempt, tcpUp, tlsReady, secure, error, clock, got, reach, server>>
      /\ (state = "Connecting" => tcpUp)
  BY DEF Transport!ServerSends, Transport!Secured
<1>2. Following(wire, Len(got), sent) /\ error = "none"
  BY <1>1 DEF ReasonInv
<1>3. wire \in Seq(Int) /\ Len(got) \in Nat /\ Len(wire) \in Nat
      /\ \A i \in 1..Len(wire) : wire[i] \in Int
  BY <1>2, FollowingTyped
<1>4. \A i \in 1..Len(wire) : wire[i] = Len(got) + i
  BY <1>1, <1>2, <1>3, SMTT(40) DEF Following
<1>5. sent = Len(got) + Len(wire)
  BY <1>1, <1>2, <1>3 DEF Following
<1>6. PICK m \in Int : /\ wire' = Append(wire, m)
                       /\ \/ m = sent + 1 /\ sent' = sent + 1
                          \/ m <= 0 /\ sent' = sent
  BY <1>3, <1>5, SMTT(30) DEF Transport!ServerSends, Transport!End, Transport!Broken
<1>7. PICK w : w = Append(wire, m)
  OBVIOUS
<1>8. w \in Seq(Int) /\ Len(w) = Len(wire) + 1 /\ w[Len(w)] = m /\ w # <<>>
      /\ \A i \in 1..Len(wire) : w[i] = wire[i]
  BY <1>3, <1>7
<1>9. ASSUME NEW i \in 1..Len(w)
      PROVE  w[i] = Len(got) + i \/ (i = Len(w) /\ w[i] <= 0)
  <2>1. CASE i = Len(w)
    BY <1>3, <1>5, <1>6, <1>8, <2>1
  <2>2. CASE i # Len(w)
    <3>1. i \in 1..Len(wire)
      BY <1>3, <1>8, <2>2
    <3>2. w[i] = wire[i] /\ wire[i] = Len(got) + i
      BY <1>4, <1>8, <3>1
    <3>. QED
      BY <3>2
  <2>. QED
    BY <2>1, <2>2
<1>10. sent' = Len(got) + (IF w # <<>> /\ w[Len(w)] <= 0 THEN Len(w) - 1 ELSE Len(w))
  BY <1>3, <1>5, <1>6, <1>8
<1>11. Following(w, Len(got), sent')
  BY <1>3, <1>8, <1>9, <1>10 DEF Following
<1>. QED
  BY <1>1, <1>2, <1>6, <1>7, <1>11 DEF ReasonInv

\* Every step of the transport keeps the reasons true.
LEMMA ReasonStep ==
  ASSUME Transport!TransportAssumption, ReasonInv, [Next]_vars
  PROVE  ReasonInv'
<1>1. CASE UNCHANGED transportVars
  BY <1>1 DEF transportVars, ReasonInv
<1>2. CASE Transport!Connect
  BY <1>2, ReasonConnect
<1>3. CASE Transport!Refused
  BY <1>3, ReasonRefused
<1>4. CASE Transport!TcpUp \/ Transport!Close \/ Transport!Wait
  BY <1>4 DEF Transport!TcpUp, Transport!Close, Transport!Wait, Transport!peer, ReasonInv
<1>5. CASE Transport!TcpTimeout \/ Transport!NotUpgraded \/ Transport!SendFails \/ Transport!Handshake
  <2>1. state # "Closed" /\ UNCHANGED <<attempt, tcpUp, got, reach, wire, sent>>
    BY <1>5 DEF Transport!TcpTimeout, Transport!NotUpgraded, Transport!SendFails, Transport!Handshake,
                Transport!peer
  <2>2. \/ state' = state /\ error' = error
        \/ state' = "Closed" /\ error' \notin {"refused", "closed"}
    BY <1>5, <2>1 DEF ReasonInv, Transport!Fails,
       Transport!TcpTimeout, Transport!NotUpgraded, Transport!SendFails, Transport!Handshake
  <2>. QED
    BY <2>1, <2>2 DEF ReasonInv
<1>6. CASE Transport!Read
  BY <1>6, ReasonRead
<1>7. CASE Transport!ServerSends
  BY <1>7, ReasonSends
<1>8. [Next]_vars => (InTransport /\ Transport!Next) \/ UNCHANGED transportVars
  BY DEF Next, vars, InConnection, InInput, InLink, InShare, InSaved, InKey
<1>. QED
  BY <1>1, <1>2, <1>3, <1>4, <1>5, <1>6, <1>7, <1>8 DEF Transport!Next, Transport!Program

\* The reasons are true in every behaviour of the composition.
LEMMA ReasonKept == Init /\ [][Next]_vars => []ReasonInv
<1>1. Init => ReasonInv
  BY DEF Init, Transport!Init, ReasonInv, Following
<1>2. Transport!TransportAssumption
  BY TransportAssumed
<1>3. ReasonInv /\ [Next]_vars => ReasonInv'
  BY <1>2, ReasonStep
<1>. QED
  BY <1>1, <1>3, PTL

\* The invariant says that the reason shown is the case.
LEMMA ReasonGiven == ReasonInv => Transport!ReasonIsTrue
<1>1. SUFFICES ASSUME ReasonInv PROVE got = [i \in 1..Len(got) |-> i]
  BY DEF ReasonInv, Transport!ReasonIsTrue
<1>2. got \in Seq(Nat) /\ \A i \in 1..Len(got) : got[i] = i
  BY <1>1 DEF ReasonInv
<1>. QED
  BY <1>2


-----------------------------------------------------------------------------
(* The viewer's connection.  Each function of the App is known by what it   *)
(* makes of the fields of the record.                                       *)

\* A sequence of whatever it may be.
IsSeq(s) == \E S : s \in Seq(S)

\* A sequence with one member more.
LEMMA SeqAppend ==
  ASSUME NEW s, IsSeq(s), NEW m
  PROVE  /\ IsSeq(Append(s, m))
         /\ Len(Append(s, m)) = Len(s) + 1 /\ Len(s) \in Nat
         /\ \A i \in 1..Len(s) : Append(s, m)[i] = s[i]
         /\ Append(s, m)[Len(s) + 1] = m
<1>1. PICK S : s \in Seq(S)
  BY DEF IsSeq
<1>2. PICK T : T = S \cup {m}
  OBVIOUS
<1>3. s \in Seq(T) /\ m \in T
  BY <1>1, <1>2
<1>4. Append(s, m) \in Seq(T)
  BY <1>3
<1>. QED
  BY <1>3, <1>4, AppendProperties DEF IsSeq

\* Two sequences, one behind the other.
LEMMA SeqConcat ==
  ASSUME NEW s, IsSeq(s), NEW t, IsSeq(t)
  PROVE  /\ IsSeq(s \o t)
         /\ Len(s) \in Nat /\ Len(t) \in Nat /\ Len(s \o t) = Len(s) + Len(t)
         /\ \A i \in 1..Len(s \o t) : \/ i \in 1..Len(s) /\ (s \o t)[i] = s[i]
                                      \/ i - Len(s) \in 1..Len(t) /\ (s \o t)[i] = t[i - Len(s)]
<1>1. PICK S, T : s \in Seq(S) /\ t \in Seq(T)
  BY DEF IsSeq
<1>2. PICK U : U = S \cup T
  OBVIOUS
<1>3. s \in Seq(U) /\ t \in Seq(U)
  BY <1>1, <1>2
<1>4. s \o t \in Seq(U) /\ Len(s) \in Nat /\ Len(t) \in Nat /\ Len(s \o t) = Len(s) + Len(t)
  BY <1>3, ConcatProperties
<1>5. ASSUME NEW i \in 1..Len(s \o t)
      PROVE  \/ i \in 1..Len(s) /\ (s \o t)[i] = s[i]
             \/ i - Len(s) \in 1..Len(t) /\ (s \o t)[i] = t[i - Len(s)]
  <2>1. (s \o t)[i] = IF i <= Len(s) THEN s[i] ELSE t[i - Len(s)]
    BY <1>3, <1>4, ConcatProperties
  <2>2. (i <= Len(s) => i \in 1..Len(s)) /\ (~(i <= Len(s)) => i - Len(s) \in 1..Len(t))
    BY <1>4
  <2>. QED
    BY <2>1, <2>2
<1>. QED
  BY <1>4, <1>5 DEF IsSeq

\* A sequence without its first member.
LEMMA SeqTail ==
  ASSUME NEW s, IsSeq(s), s # <<>>
  PROVE  /\ IsSeq(Tail(s)) /\ 1 \in 1..Len(s) /\ Head(s) = s[1]
         /\ Len(Tail(s)) = Len(s) - 1 /\ Len(s) \in Nat
         /\ \A i \in 1..Len(Tail(s)) : i + 1 \in 1..Len(s) /\ Tail(s)[i] = s[i + 1]
<1>1. PICK S : s \in Seq(S)
  BY DEF IsSeq
<1>2. Tail(s) \in Seq(S) /\ Len(Tail(s)) = Len(s) - 1 /\ Len(s) \in Nat /\ Len(s) > 0
  BY <1>1
<1>3. \A i \in 1..Len(Tail(s)) : i + 1 \in 1..Len(s) /\ Tail(s)[i] = s[i + 1]
  BY <1>1, <1>2
<1>. QED
  BY <1>2, <1>3 DEF IsSeq

\* The App object: its fields, and those of a PC.
Fields == {"phase", "screen", "dialog", "error", "userClosed", "attempts", "timer", "net", "sealing",
           "seen", "out", "target", "pc", "pin", "refused"}
PcFields == {"password", "remember", "listed", "valid"}
IsApp(a) ==
  DOMAIN a = Fields /\ DOMAIN a.target = PcFields /\ DOMAIN a.pc = PcFields /\ IsSeq(a.out)

\* What fail_connect sets and what it leaves alone.
LEMMA FailFields ==
  ASSUME NEW a, IsApp(a), NEW b, b = Connection!FailConnect(a)
  PROVE  /\ IsApp(b) /\ b.phase = "None" /\ b.userClosed = TRUE /\ b.net = "Closed" /\ b.error = TRUE
         /\ b.dialog = "Connecting"
         /\ b.screen = a.screen /\ b.attempts = a.attempts /\ b.timer = a.timer
         /\ b.sealing = a.sealing /\ b.seen = a.seen /\ b.out = a.out
         /\ b.target = a.target /\ b.pc = a.pc /\ b.pin = a.pin /\ b.refused = a.refused
  BY DEF Connection!FailConnect, IsApp, Fields

\* A message goes out on an open connection only; nothing else changes.
LEMMA SendFields ==
  ASSUME NEW a, IsApp(a), NEW m, NEW b, b = Connection!Send(a, m)
  PROVE  /\ IsApp(b) /\ b.out = (IF a.net = "Open" THEN Append(a.out, m) ELSE a.out)
         /\ b.phase = a.phase /\ b.userClosed = a.userClosed /\ b.net = a.net /\ b.error = a.error
         /\ b.dialog = a.dialog
         /\ b.screen = a.screen /\ b.attempts = a.attempts /\ b.timer = a.timer
         /\ b.sealing = a.sealing /\ b.seen = a.seen
         /\ b.target = a.target /\ b.pc = a.pc /\ b.pin = a.pin /\ b.refused = a.refused
<1>1. IsSeq(Append(a.out, m))
  BY SeqAppend DEF IsApp
<1>. QED
  BY <1>1 DEF Connection!Send, IsApp, Fields

\* The message of send_auth.
Proof(a) == [type |-> "AUTH", password |-> a.target.password, sealed |-> a.sealing]

\* What send_auth sets: the phase, and the dialog that gives way to it.
LEMMA AuthFields ==
  ASSUME NEW a, IsApp(a), NEW b, b = Connection!SendAuth(a)
  PROVE  /\ IsApp(b) /\ b.out = (IF a.net = "Open" THEN Append(a.out, Proof(a)) ELSE a.out)
         /\ b.phase = "Auth" /\ b.userClosed = a.userClosed /\ b.net = a.net /\ b.error = a.error
         /\ b.dialog \in {a.dialog, "None", "Connecting"} /\ b.dialog # "Verify"
         /\ (a.dialog # "Verify" => b.dialog = a.dialog)
         /\ b.screen = a.screen /\ b.attempts = a.attempts /\ b.timer = a.timer
         /\ b.sealing = a.sealing /\ b.seen = a.seen
         /\ b.target = a.target /\ b.pc = a.pc /\ b.pin = a.pin /\ b.refused = a.refused
<1>1. PICK c : c = Connection!Send(a, Proof(a))
  OBVIOUS
<1>2. /\ IsApp(c) /\ c.out = (IF a.net = "Open" THEN Append(a.out, Proof(a)) ELSE a.out)
      /\ c.phase = a.phase /\ c.userClosed = a.userClosed /\ c.net = a.net /\ c.error = a.error
      /\ c.dialog = a.dialog
      /\ c.screen = a.screen /\ c.attempts = a.attempts /\ c.timer = a.timer
      /\ c.sealing = a.sealing /\ c.seen = a.seen
      /\ c.target = a.target /\ c.pc = a.pc /\ c.pin = a.pin /\ c.refused = a.refused
  BY <1>1, SendFields
<1>3. b = [c EXCEPT !.phase = "Auth",
                    !.dialog = IF @ # "Verify" THEN @
                               ELSE IF a.screen = "Session" THEN "None" ELSE "Connecting"]
  BY <1>1 DEF Connection!SendAuth, Proof
<1>. QED
  BY <1>2, <1>3, ZenonT(40) DEF IsApp, Fields

\* The password that the host refused is neither in use nor saved, and what is
\* saved is that of a PC in the list.
PcInv(a) ==
  /\ a.refused # None => a.target.password # a.refused /\ a.pc.password # a.refused
  /\ a.pc.password # None => a.pc.listed /\ a.pc.remember
  /\ a.target.listed => a.pc.listed
  /\ a.screen = "Session" => a.pc.listed

\* What holds of the App between any two of its functions.  The PC in use is in
\* the list, if the PC is, while anything goes on.
AppInv(a) ==
  /\ IsApp(a) /\ PcInv(a)
  /\ a.sealing => a.phase \notin {"Connecting", "Hello"}
  /\ a.phase # "None" \/ a.dialog # "None" \/ a.timer => (a.pc.listed => a.target.listed)
  /\ a.userClosed => a.phase = "None" /\ a.dialog # "Verify"
  /\ a.dialog = "Connecting" /\ ~a.error => a.phase # "None" \/ a.timer
  /\ a.phase = "Live" => a.screen = "Session" /\ a.dialog = "None"

\* What a password may be proved to: a host that is the pinned one.
Sure(a) == a.sealing /\ (TrustNew \/ a.seen = a.pin)
Over(a) == a.net \in {"Idle", "Closed", "Connecting"}

\* A message that may be on its way while the App is a.
Allowed(a, m) ==
  m.type = "AUTH" =>
    /\ m.sealed => Sure(a)
    /\ ~Over(a) /\ a.refused # None => m.password # a.refused
Carried(a, s) == IsSeq(s) /\ \A i \in 1..Len(s) : Allowed(a, s[i])

\* A change of the App that leaves what is on its way allowed.
Keeps(a, b) ==
  /\ Sure(a) => Sure(b)
  /\ ~Over(b) => ~Over(a) /\ b.refused \in {a.refused, None}

\* What was allowed on its way stays so while the App keeps what allowed it.
LEMMA KeepsCarried ==
  ASSUME NEW a, NEW b, Keeps(a, b), NEW s, Carried(a, s)
  PROVE  Carried(b, s)
  BY DEF Keeps, Carried, Allowed

\* Keeping is transitive.
LEMMA KeepsOn ==
  ASSUME NEW a, NEW b, NEW c, Keeps(a, b), Keeps(b, c)
  PROVE  Keeps(a, c)
  BY DEF Keeps

\* One function of the App, from a to b.
Turn(a, b) == AppInv(b) /\ Carried(b, b.out) /\ Keeps(a, b)

\* fail_connect keeps the invariant of the App.
LEMMA FailTurn ==
  ASSUME NEW a, AppInv(a), Carried(a, a.out), a.pc.listed => a.target.listed,
         NEW b, b = Connection!FailConnect(a)
  PROVE  Turn(a, b)
<1>0. IsApp(a)
  BY DEF AppInv, PcInv
<1>3. /\ IsApp(b) /\ b.phase = "None" /\ b.userClosed = TRUE /\ b.net = "Closed" /\ b.error = TRUE
      /\ b.dialog = "Connecting"
      /\ b.screen = a.screen /\ b.attempts = a.attempts /\ b.timer = a.timer
      /\ b.sealing = a.sealing /\ b.seen = a.seen /\ b.out = a.out
      /\ b.target = a.target /\ b.pc = a.pc /\ b.pin = a.pin /\ b.refused = a.refused
  BY <1>0, FailFields, ZenonT(40)
<1>1. AppInv(b) /\ b.out = a.out
  BY <1>3 DEF AppInv, PcInv
<1>2. Keeps(a, b)
  BY <1>3 DEF Keeps, Sure, Over
<1>. QED
  BY <1>1, <1>2, KeepsCarried DEF Turn

\* RD_S_HELLO
LEMMA HelloTurn ==
  ASSUME NEW a, AppInv(a), Carried(a, a.out), a.phase # "None",
         NEW m, NEW b, b = Connection!OnHello(a, m)
  PROVE  Turn(a, b)
<1>0. IsApp(a)
  BY DEF AppInv, PcInv
<1>1. CASE a.phase # "Hello"
  BY <1>1, FailTurn DEF Connection!OnHello, AppInv, PcInv
<1>2. CASE a.phase = "Hello" /\ Connection!Trusted(a, m.key)
  <2>1. PICK c : c = [a EXCEPT !.sealing = TRUE, !.seen = m.key, !.pin = IF @ = None THEN m.key ELSE @]
    OBVIOUS
  <2>2. /\ IsApp(c) /\ c.out = a.out
        /\ c.phase = a.phase /\ c.userClosed = a.userClosed /\ c.net = a.net /\ c.error = a.error
        /\ c.dialog = a.dialog
        /\ c.screen = a.screen /\ c.timer = a.timer
        /\ c.sealing = TRUE /\ c.seen = m.key /\ c.pin = (IF a.pin = None THEN m.key ELSE a.pin)
        /\ c.target = a.target /\ c.pc = a.pc /\ c.refused = a.refused
    BY <1>0, <2>1 DEF IsApp, Fields
  <2>3. b = Connection!SendAuth(c)
    BY <1>2, <2>1 DEF Connection!OnHello
  <2>4. /\ IsApp(b) /\ b.out = (IF c.net = "Open" THEN Append(c.out, Proof(c)) ELSE c.out)
        /\ b.phase = "Auth" /\ b.userClosed = c.userClosed /\ b.net = c.net /\ b.error = c.error
        /\ b.dialog \in {c.dialog, "None", "Connecting"} /\ b.dialog # "Verify"
        /\ b.screen = c.screen /\ b.timer = c.timer
        /\ b.sealing = c.sealing /\ b.seen = c.seen
        /\ b.target = c.target /\ b.pc = c.pc /\ b.pin = c.pin /\ b.refused = c.refused
    BY <2>2, <2>3, AuthFields
  <2>5. Sure(b)
    BY <1>2, <2>2, <2>4 DEF Sure, Connection!Trusted
  <2>6. AppInv(b)
    BY <1>2, <2>2, <2>4 DEF AppInv, PcInv
  <2>7. Keeps(a, b)
    BY <2>2, <2>4, <2>5 DEF Keeps, Over
  <2>8. Carried(b, a.out)
    BY <2>7, KeepsCarried
  <2>9. Allowed(b, Proof(c))
    BY <2>2, <2>4, <2>5 DEF Allowed, Proof, AppInv, PcInv
  <2>10. CASE c.net = "Open"
    <3>1. b.out = Append(a.out, Proof(c))
      BY <2>2, <2>4, <2>10
    <3>2. Carried(b, b.out)
      <4>1. PICK p : p = Proof(c)
        OBVIOUS
      <4>2. IsSeq(a.out) /\ \A i \in 1..Len(a.out) : Allowed(b, a.out[i])
        BY <2>8 DEF Carried
      <4>3. /\ IsSeq(Append(a.out, p))
            /\ Len(Append(a.out, p)) = Len(a.out) + 1 /\ Len(a.out) \in Nat
            /\ \A i \in 1..Len(a.out) : Append(a.out, p)[i] = a.out[i]
            /\ Append(a.out, p)[Len(a.out) + 1] = p
        BY <4>2, SeqAppend
      <4>4. ASSUME NEW i \in 1..(Len(a.out) + 1) PROVE Allowed(b, Append(a.out, p)[i])
        <5>1. i \in 1..Len(a.out) \/ i = Len(a.out) + 1
          BY <4>3
        <5>. QED
          BY <2>9, <4>1, <4>2, <4>3, <5>1
      <4>. QED
        BY <3>1, <4>1, <4>3, <4>4 DEF Carried
    <3>. QED
      BY <2>6, <2>7, <3>2 DEF Turn
  <2>11. CASE c.net # "Open"
    BY <2>2, <2>4, <2>6, <2>7, <2>8, <2>11 DEF Turn
  <2>. QED
    BY <2>10, <2>11
<1>3. CASE a.phase = "Hello" /\ ~Connection!Trusted(a, m.key)
  <2>1. b = [a EXCEPT !.sealing = TRUE, !.seen = m.key, !.phase = "Verify", !.dialog = "Verify"]
    BY <1>3 DEF Connection!OnHello
  <2>2. /\ IsApp(b) /\ b.out = a.out
        /\ b.phase = "Verify" /\ b.userClosed = a.userClosed /\ b.net = a.net /\ b.error = a.error
        /\ b.dialog = "Verify"
        /\ b.screen = a.screen /\ b.timer = a.timer /\ b.sealing = TRUE
        /\ b.target = a.target /\ b.pc = a.pc /\ b.refused = a.refused
    BY <1>0, <2>1 DEF IsApp, Fields
  <2>3. AppInv(b)
    BY <1>3, <2>2 DEF AppInv, PcInv
  <2>4. ~Sure(a)
    BY <1>3 DEF AppInv, PcInv, Sure
  <2>5. Keeps(a, b)
    BY <2>2, <2>4 DEF Keeps, Over
  <2>. QED
    BY <2>2, <2>3, <2>5, KeepsCarried DEF Turn
<1>. QED
  BY <1>1, <1>2, <1>3


\* RD_S_AUTH_RESULT with ok = 0
LEMMA RefusedTurn ==
  ASSUME NEW a, AppInv(a), Carried(a, a.out), a.phase # "None",
         NEW m, NEW b, b = Connection!OnRefused(a, m)
  PROVE  Turn(a, b)
<1>0. IsApp(a) /\ (a.pc.listed => a.target.listed)
  BY DEF AppInv, PcInv
<1>1. PICK h : h = [a EXCEPT !.attempts = 0, !.screen = "Home"]
  OBVIOUS
<1>2. /\ IsApp(h) /\ h.screen = "Home" /\ h.out = a.out
      /\ h.phase = a.phase /\ h.userClosed = a.userClosed /\ h.net = a.net /\ h.error = a.error
      /\ h.dialog = a.dialog /\ h.timer = a.timer
      /\ h.sealing = a.sealing /\ h.seen = a.seen /\ h.pin = a.pin
      /\ h.target = a.target /\ h.pc = a.pc /\ h.refused = a.refused
  BY <1>0, <1>1 DEF IsApp, Fields
<1>3. IsApp(h)
  BY <1>2
<1>4. PICK c : c = Connection!FailConnect(h)
  OBVIOUS
<1>8. /\ IsApp(c) /\ c.phase = "None" /\ c.userClosed = TRUE /\ c.net = "Closed" /\ c.error = TRUE
      /\ c.dialog = "Connecting"
      /\ c.screen = h.screen /\ c.attempts = h.attempts /\ c.timer = h.timer
      /\ c.sealing = h.sealing /\ c.seen = h.seen /\ c.out = h.out
      /\ c.target = h.target /\ c.pc = h.pc /\ c.pin = h.pin /\ c.refused = h.refused
  BY <1>3, <1>4, FailFields, ZenonT(40)
<1>5. Turn(a, c)
  <2>1. AppInv(c)
    BY <1>0, <1>2, <1>8 DEF AppInv, PcInv
  <2>2. Keeps(a, c)
    BY <1>2, <1>8 DEF Keeps, Sure, Over
  <2>3. c.out = a.out
    BY <1>2, <1>8
  <2>. QED
    BY <2>1, <2>2, <2>3, KeepsCarried DEF Turn
<1>6. CASE m.why # "password"
  BY <1>1, <1>4, <1>5, <1>6 DEF Connection!OnRefused, Turn
<1>7. CASE m.why = "password"
  <2>1. PICK p : p = IF a.target.listed /\ c.pc.remember THEN [c.pc EXCEPT !.password = None] ELSE c.pc
    OBVIOUS
  <2>2. PICK t : t = [c.target EXCEPT !.password = None]
    OBVIOUS
  <2>3. b = [c EXCEPT !.pc = p, !.refused = a.target.password, !.target = t, !.dialog = "Password"]
    BY <1>1, <1>4, <1>7, <2>1, <2>2 DEF Connection!OnRefused
  <2>4. IsApp(c) /\ AppInv(c) /\ Carried(c, c.out)
    BY <1>5 DEF Turn, AppInv, PcInv
  <2>5. /\ c.phase = "None" /\ c.net = "Closed" /\ c.screen = "Home"
        /\ c.target = a.target /\ c.pc = a.pc /\ c.dialog = "Connecting"
    BY <1>2, <1>8
  <2>6. /\ DOMAIN p = PcFields /\ (p.password # None => p.password = c.pc.password)
        /\ p.remember = c.pc.remember /\ p.listed = c.pc.listed
        /\ a.target.listed /\ c.pc.remember => p.password = None
    BY <2>1, <2>4 DEF IsApp, PcFields
  <2>7. /\ DOMAIN t = PcFields /\ t.password = None /\ t.listed = c.target.listed
    BY <2>2, <2>4 DEF IsApp, PcFields
  <2>8. /\ IsApp(b) /\ b.out = c.out
        /\ b.phase = "None" /\ b.userClosed = c.userClosed /\ b.net = "Closed" /\ b.error = c.error
        /\ b.dialog = "Password" /\ b.screen = "Home" /\ b.timer = c.timer
        /\ b.sealing = c.sealing /\ b.seen = c.seen /\ b.pin = c.pin
        /\ b.target = t /\ b.pc = p /\ b.refused = a.target.password
    BY <2>3, <2>4, <2>5, <2>6, <2>7 DEF IsApp, Fields
  <2>9. p.password = None
    BY <1>0, <2>4, <2>5, <2>6 DEF AppInv, PcInv
  <2>10. AppInv(b)
    BY <1>0, <2>4, <2>5, <2>6, <2>7, <2>8, <2>9 DEF AppInv, PcInv
  <2>11. Keeps(c, b)
    BY <2>8 DEF Keeps, Sure, Over
  <2>. QED
    BY <1>5, <2>4, <2>8, <2>10, <2>11, KeepsOn, KeepsCarried DEF Turn
<1>. QED
  BY <1>6, <1>7

\* RD_S_AUTH_RESULT with ok = 1
LEMMA AcceptedTurn ==
  ASSUME NEW a, AppInv(a), Carried(a, a.out), a.phase # "None",
         NEW b, b = Connection!OnAccepted(a)
  PROVE  Turn(a, b)
<1>0. IsApp(a) /\ (a.pc.listed => a.target.listed)
  BY DEF AppInv, PcInv
<1>1. CASE a.phase # "Auth"
  BY <1>1 DEF Connection!OnAccepted, Turn, Keeps
<1>2. CASE a.phase = "Auth"
  <2>1. PICK t : t = [a.target EXCEPT !.listed = TRUE]
    OBVIOUS
  <2>2. PICK p : p = IF a.screen = "Session" THEN a.pc
                     ELSE [a.target EXCEPT !.listed = TRUE,
                                           !.password = IF a.target.remember THEN @ ELSE None]
    OBVIOUS
  <2>3. b = [a EXCEPT !.phase = "Live", !.dialog = "None", !.screen = "Session", !.attempts = 0,
                      !.target = t, !.pc = p]
    BY <1>2, <2>1, <2>2 DEF Connection!OnAccepted
  <2>4. DOMAIN t = PcFields /\ t.password = a.target.password /\ t.listed = TRUE
    BY <1>0, <2>1 DEF IsApp, PcFields
  <2>5. /\ DOMAIN p = PcFields /\ p.listed
        /\ p.password # None => p.password \in {a.pc.password, a.target.password} /\ p.remember
    <3>1. CASE a.screen = "Session"
      BY <1>0, <2>2, <3>1 DEF AppInv, PcInv, IsApp
    <3>2. CASE a.screen # "Session"
      BY <1>0, <2>2, <3>2 DEF IsApp, PcFields
    <3>. QED
      BY <3>1, <3>2
  <2>6. /\ IsApp(b) /\ b.out = a.out
        /\ b.phase = "Live" /\ b.userClosed = a.userClosed /\ b.net = a.net /\ b.error = a.error
        /\ b.dialog = "None" /\ b.screen = "Session" /\ b.timer = a.timer
        /\ b.sealing = a.sealing /\ b.seen = a.seen /\ b.pin = a.pin
        /\ b.target = t /\ b.pc = p /\ b.refused = a.refused
    BY <1>0, <2>3, <2>4, <2>5 DEF IsApp, Fields
  <2>7. AppInv(b)
    BY <1>2, <2>4, <2>5, <2>6 DEF AppInv, PcInv
  <2>8. Keeps(a, b)
    BY <2>6 DEF Keeps, Sure, Over
  <2>. QED
    BY <2>6, <2>7, <2>8, KeepsCarried DEF Turn
<1>. QED
  BY <1>1, <1>2

\* handle_message keeps the invariant of the App, whatever the message is.
LEMMA MessageTurn ==
  ASSUME NEW a, AppInv(a), Carried(a, a.out), NEW m, NEW b, b = Connection!HandleMessage(a, m)
  PROVE  Turn(a, b)
<1>1. CASE a.phase = "None"
  BY <1>1 DEF Connection!HandleMessage, Turn, Keeps
<1>2. CASE a.phase # "None"
  <2>1. a.pc.listed => a.target.listed
    BY <1>2 DEF AppInv, PcInv
  <2>2. \/ b = Connection!FailConnect(a) \/ b = Connection!OnHello(a, m)
        \/ b = Connection!OnRefused(a, m) \/ b = Connection!OnAccepted(a)
    BY <1>2 DEF Connection!HandleMessage
  <2>. QED
    BY <1>2, <2>1, <2>2, FailTurn, HelloTurn, RefusedTurn, AcceptedTurn
<1>. QED
  BY <1>1, <1>2

\* on_transport_closed
LEMMA ClosedTurn ==
  ASSUME NEW a, AppInv(a), Carried(a, a.out), a.phase # "None",
         NEW b, b = Connection!OnTransportClosed(a)
  PROVE  Turn(a, b)
<1>0. IsApp(a) /\ (a.pc.listed => a.target.listed) /\ ~a.userClosed
  BY DEF AppInv, PcInv
<1>1. CASE Connection!Retries(a)
  <2>1. b = [a EXCEPT !.phase = "None", !.attempts = @ + 1, !.timer = TRUE]
    BY <1>0, <1>1 DEF Connection!OnTransportClosed, IsApp, Fields
  <2>2. /\ IsApp(b) /\ b.out = a.out
        /\ b.phase = "None" /\ b.userClosed = a.userClosed /\ b.net = a.net /\ b.error = a.error
        /\ b.dialog = a.dialog /\ b.screen = a.screen /\ b.timer = TRUE
        /\ b.sealing = a.sealing /\ b.seen = a.seen /\ b.pin = a.pin
        /\ b.target = a.target /\ b.pc = a.pc /\ b.refused = a.refused
    BY <1>0, <2>1 DEF IsApp, Fields
  <2>3. AppInv(b) /\ Keeps(a, b)
    BY <1>0, <2>2 DEF AppInv, PcInv, Keeps, Sure, Over
  <2>. QED
    BY <2>2, <2>3, KeepsCarried DEF Turn
<1>2. CASE ~Connection!Retries(a)
  <2>1. PICK h : h = [a EXCEPT !.phase = "None", !.attempts = 0, !.screen = "Home"]
    OBVIOUS
  <2>2. b = Connection!FailConnect(h)
    BY <1>0, <1>2, <2>1 DEF Connection!OnTransportClosed, IsApp, Fields
  <2>3. /\ IsApp(h) /\ h.out = a.out
        /\ h.phase = "None" /\ h.userClosed = a.userClosed /\ h.net = a.net /\ h.error = a.error
        /\ h.dialog = a.dialog /\ h.screen = "Home" /\ h.timer = a.timer
        /\ h.sealing = a.sealing /\ h.seen = a.seen /\ h.pin = a.pin
        /\ h.target = a.target /\ h.pc = a.pc /\ h.refused = a.refused
    BY <1>0, <2>1 DEF IsApp, Fields
  <2>6. IsApp(h)
    BY <2>3
  <2>4. /\ IsApp(b) /\ b.phase = "None" /\ b.userClosed = TRUE /\ b.net = "Closed" /\ b.error = TRUE
        /\ b.dialog = "Connecting"
        /\ b.screen = h.screen /\ b.attempts = h.attempts /\ b.timer = h.timer
        /\ b.sealing = h.sealing /\ b.seen = h.seen /\ b.out = h.out
        /\ b.target = h.target /\ b.pc = h.pc /\ b.pin = h.pin /\ b.refused = h.refused
    BY <2>2, <2>6, FailFields
  <2>5. AppInv(b) /\ Keeps(a, b)
    BY <1>0, <2>3, <2>4 DEF AppInv, PcInv, Keeps, Sure, Over
  <2>. QED
    BY <2>3, <2>4, <2>5, KeepsCarried DEF Turn
<1>. QED
  BY <1>1, <1>2


\* The App after each of n messages, starting from a.
Turns(f, a, n) ==
  f = [k \in 0..n |-> IF k = 0 THEN a ELSE Connection!HandleMessage(f[k - 1], toViewer[k])]

\* The App after any number of messages is defined.
LEMMA TurnsExist ==
  ASSUME NEW a, NEW n \in Nat
  PROVE  \E f : Turns(f, a, n)
<1>. DEFINE Bad == {k \in Nat : ~\E f : Turns(f, a, k)}
<1>1. SUFFICES Bad = {}
  OBVIOUS
<1>2. SUFFICES ASSUME Bad # {} PROVE FALSE
  OBVIOUS
<1>3. PICK m \in Bad : \A k \in Bad : m <= k
  <2>1. Bad \subseteq Nat
    OBVIOUS
  <2>. HIDE DEF Bad
  <2>. QED
    BY <1>2, <2>1, LeastNumber
<1>4. m \in Nat /\ ~\E f : Turns(f, a, m)
  OBVIOUS
<1>5. CASE m = 0
  <2>1. PICK f : f = [k \in 0..m |-> a]
    OBVIOUS
  <2>2. f = [k \in 0..m |-> IF k = 0 THEN a ELSE Connection!HandleMessage(f[k - 1], toViewer[k])]
    BY <1>5, <2>1
  <2>. QED
    BY <1>4, <2>2 DEF Turns
<1>6. CASE m # 0
  <2>1. m - 1 \in Nat /\ ~(m <= m - 1)
    BY <1>4, <1>6
  <2>2. PICK g : Turns(g, a, m - 1)
    BY <1>3, <2>1
  <2>3. \A k \in 0..(m - 1) :
          g[k] = IF k = 0 THEN a ELSE Connection!HandleMessage(g[k - 1], toViewer[k])
    BY <2>2 DEF Turns
  <2>4. PICK f : f = [k \in 0..m |-> IF k = m THEN Connection!HandleMessage(g[m - 1], toViewer[m]) ELSE g[k]]
    OBVIOUS
  <2>5. ASSUME NEW k \in 0..m
        PROVE  f[k] = IF k = 0 THEN a ELSE Connection!HandleMessage(f[k - 1], toViewer[k])
    <3>1. CASE k = m
      <4>1. f[m - 1] = g[m - 1] /\ f[k] = Connection!HandleMessage(g[m - 1], toViewer[m])
        BY <1>4, <2>1, <2>4, <3>1
      <4>. QED
        BY <1>6, <3>1, <4>1, Zenon
    <3>2. CASE k # m
      <4>1. k \in 0..(m - 1)
        BY <1>4, <3>2
      <4>2. f[k] = g[k] /\ (k # 0 => f[k - 1] = g[k - 1])
        BY <1>4, <2>4, <4>1
      <4>. QED
        BY <2>3, <4>1, <4>2
    <3>. QED
      BY <3>1, <3>2
  <2>6. f = [k \in 0..m |-> f[k]]
    BY <2>4
  <2>7. f = [k \in 0..m |-> IF k = 0 THEN a ELSE Connection!HandleMessage(f[k - 1], toViewer[k])]
    BY <2>5, <2>6
  <2>. QED
    BY <1>4, <2>7 DEF Turns
<1>. QED
  BY <1>5, <1>6

\* Any number of messages keeps the invariant of the App.
LEMMA TurnsAre ==
  ASSUME NEW a, AppInv(a), Carried(a, a.out), NEW n \in Nat, NEW f, Turns(f, a, n)
  PROVE  Turn(a, f[n])
<1>0. \A k \in 0..n : f[k] = IF k = 0 THEN a ELSE Connection!HandleMessage(f[k - 1], toViewer[k])
  BY DEF Turns
<1>. DEFINE Bad == {k \in 0..n : ~Turn(a, f[k])}
<1>1. SUFFICES Bad = {}
  OBVIOUS
<1>2. SUFFICES ASSUME Bad # {} PROVE FALSE
  OBVIOUS
<1>3. PICK m \in Bad : \A k \in Bad : m <= k
  <2>1. Bad \subseteq Nat
    OBVIOUS
  <2>. HIDE DEF Bad
  <2>. QED
    BY <1>2, <2>1, LeastNumber
<1>4. m \in 0..n /\ ~Turn(a, f[m])
  OBVIOUS
<1>5. CASE m = 0
  <2>1. f[m] = a
    BY <1>0, <1>4, <1>5
  <2>2. Turn(a, a)
    BY DEF Turn, Keeps
  <2>. QED
    BY <1>4, <2>1, <2>2
<1>6. CASE m # 0
  <2>1. m - 1 \in 0..n /\ ~(m <= m - 1)
    BY <1>4, <1>6
  <2>2. PICK b, c : b = f[m - 1] /\ c = f[m]
    OBVIOUS
  <2>3. Turn(a, b)
    BY <1>3, <2>1, <2>2
  <2>4. c = Connection!HandleMessage(b, toViewer[m])
    BY <1>0, <1>4, <1>6, <2>2
  <2>5. AppInv(b) /\ Carried(b, b.out) /\ Keeps(a, b)
    BY <2>3 DEF Turn
  <2>6. Turn(b, c)
    BY <2>4, <2>5, MessageTurn
  <2>7. Turn(a, c)
    BY <2>5, <2>6, KeepsOn DEF Turn
  <2>. QED
    BY <1>4, <2>2, <2>7
<1>. QED
  BY <1>5, <1>6

\* The part of Tick behind the messages.
Rest(b, n) ==
  LET c == IF ended /\ n = Len(toViewer) THEN [b EXCEPT !.net = "Closed"] ELSE b
      d == IF c.phase = "Connecting" /\ c.net = "Open"
           THEN [Connection!Send(c, [type |-> "HELLO"]) EXCEPT !.phase = "Hello"] ELSE c
  IN IF d.phase # "None" /\ d.net = "Closed" THEN Connection!OnTransportClosed(d) ELSE d

\* What tick does behind the messages keeps the invariant of the App.
LEMMA RestTurn ==
  ASSUME NEW b, AppInv(b), Carried(b, b.out), NEW n, NEW e, e = Rest(b, n)
  PROVE  Turn(b, e)
<1>1. PICK c : c = IF ended /\ n = Len(toViewer) THEN [b EXCEPT !.net = "Closed"] ELSE b
  OBVIOUS
<1>2. PICK d : d = IF c.phase = "Connecting" /\ c.net = "Open"
                   THEN [Connection!Send(c, [type |-> "HELLO"]) EXCEPT !.phase = "Hello"] ELSE c
  OBVIOUS
<1>3. e = IF d.phase # "None" /\ d.net = "Closed" THEN Connection!OnTransportClosed(d) ELSE d
  BY <1>1, <1>2 DEF Rest
<1>4. Turn(b, c)
  <2>1. CASE ended /\ n = Len(toViewer)
    <3>1. /\ IsApp(c) /\ c.out = b.out
          /\ c.phase = b.phase /\ c.userClosed = b.userClosed /\ c.net = "Closed" /\ c.error = b.error
          /\ c.dialog = b.dialog /\ c.screen = b.screen /\ c.timer = b.timer
          /\ c.sealing = b.sealing /\ c.seen = b.seen /\ c.pin = b.pin
          /\ c.target = b.target /\ c.pc = b.pc /\ c.refused = b.refused
      BY <1>1, <2>1 DEF IsApp, Fields, AppInv, PcInv
    <3>2. AppInv(c) /\ Keeps(b, c)
      BY <3>1 DEF AppInv, PcInv, Keeps, Sure, Over
    <3>. QED
      BY <3>1, <3>2, KeepsCarried DEF Turn
  <2>2. CASE ~(ended /\ n = Len(toViewer))
    BY <1>1, <2>2 DEF Turn, Keeps
  <2>. QED
    BY <2>1, <2>2
<1>5. AppInv(c) /\ Carried(c, c.out) /\ IsApp(c)
  BY <1>4 DEF Turn, AppInv, PcInv
<1>6. Turn(c, d)
  <2>1. CASE c.phase = "Connecting" /\ c.net = "Open"
    <3>1. PICK m : m = [type |-> "HELLO"]
      OBVIOUS
    <3>2. PICK x : x = Connection!Send(c, m)
      OBVIOUS
    <3>3. /\ IsApp(x) /\ x.out = (IF c.net = "Open" THEN Append(c.out, m) ELSE c.out)
          /\ x.phase = c.phase /\ x.userClosed = c.userClosed /\ x.net = c.net /\ x.error = c.error
          /\ x.dialog = c.dialog
          /\ x.screen = c.screen /\ x.attempts = c.attempts /\ x.timer = c.timer
          /\ x.sealing = c.sealing /\ x.seen = c.seen
          /\ x.target = c.target /\ x.pc = c.pc /\ x.pin = c.pin /\ x.refused = c.refused
      BY <1>5, <3>2, SendFields
    <3>4. d = [x EXCEPT !.phase = "Hello"]
      BY <1>2, <2>1, <3>1, <3>2
    <3>5. /\ IsApp(d) /\ d.out = Append(c.out, m)
          /\ d.phase = "Hello" /\ d.userClosed = c.userClosed /\ d.net = c.net /\ d.error = c.error
          /\ d.dialog = c.dialog /\ d.screen = c.screen /\ d.timer = c.timer
          /\ d.sealing = c.sealing /\ d.seen = c.seen /\ d.pin = c.pin
          /\ d.target = c.target /\ d.pc = c.pc /\ d.refused = c.refused
      BY <2>1, <3>3, <3>4 DEF IsApp, Fields
    <3>6. AppInv(d) /\ Keeps(c, d)
      BY <1>5, <2>1, <3>5 DEF AppInv, PcInv, Keeps, Sure, Over
    <3>7. IsSeq(c.out) /\ \A i \in 1..Len(c.out) : Allowed(d, c.out[i])
      BY <1>5, <3>6, KeepsCarried DEF Carried
    <3>8. /\ IsSeq(Append(c.out, m))
          /\ Len(Append(c.out, m)) = Len(c.out) + 1 /\ Len(c.out) \in Nat
          /\ \A i \in 1..Len(c.out) : Append(c.out, m)[i] = c.out[i]
          /\ Append(c.out, m)[Len(c.out) + 1] = m
      BY <3>7, SeqAppend
    <3>9. Allowed(d, m)
      BY <3>1 DEF Allowed
    <3>10. ASSUME NEW i \in 1..(Len(c.out) + 1) PROVE Allowed(d, Append(c.out, m)[i])
      <4>1. i \in 1..Len(c.out) \/ i = Len(c.out) + 1
        BY <3>8
      <4>. QED
        BY <3>7, <3>8, <3>9, <4>1
    <3>. QED
      BY <3>5, <3>6, <3>8, <3>10 DEF Turn, Carried
  <2>2. CASE ~(c.phase = "Connecting" /\ c.net = "Open")
    BY <1>2, <1>5, <2>2 DEF Turn, Keeps
  <2>. QED
    BY <2>1, <2>2
<1>7. AppInv(d) /\ Carried(d, d.out)
  BY <1>6 DEF Turn
<1>8. Turn(d, e)
  <2>1. CASE d.phase # "None" /\ d.net = "Closed"
    BY <1>3, <1>7, <2>1, ClosedTurn
  <2>2. CASE ~(d.phase # "None" /\ d.net = "Closed")
    BY <1>3, <1>7, <2>2 DEF Turn, Keeps
  <2>. QED
    BY <2>1, <2>2
<1>. QED
  BY <1>4, <1>6, <1>8, KeepsOn DEF Turn

\* tick
LEMMA TickTurn ==
  ASSUME NEW a, AppInv(a), Carried(a, a.out), NEW n \in Nat, NEW e, e = Connection!Tick(a, n)
  PROVE  Turn(a, e)
<1>1. PICK f : f = CHOOSE g : Turns(g, a, n)
  OBVIOUS
<1>2. Turns(f, a, n)
  BY <1>1, TurnsExist
<1>3. e = Rest(f[n], n)
  <2>. DEFINE F(g) == g = [k \in 0..n |-> IF k = 0 THEN a ELSE Connection!HandleMessage(g[k - 1], toViewer[k])]
  <2>1. Connection!Tick(a, n) = Rest((CHOOSE g : F(g))[n], n)
    BY DEF Connection!Tick, Rest
  <2>2. f = CHOOSE g : F(g)
    BY <1>1 DEF Turns
  <2>. HIDE DEF F
  <2>. QED
    BY <2>1, <2>2
<1>4. PICK b : b = f[n]
  OBVIOUS
<1>5. Turn(a, b)
  BY <1>2, <1>4, TurnsAre
<1>6. AppInv(b) /\ Carried(b, b.out)
  BY <1>5 DEF Turn
<1>7. Turn(b, e)
  BY <1>3, <1>4, <1>6, RestTurn
<1>. QED
  BY <1>5, <1>7, KeepsOn DEF Turn


\* start_connect
LEMMA StartTurn ==
  ASSUME NEW a, IsApp(a), PcInv(a), a.pc.listed => a.target.listed,
         NEW b, b = Connection!StartConnect(a)
  PROVE  AppInv(b) /\ Over(b)
<1>1. /\ IsApp(b)
      /\ b.screen = a.screen /\ b.attempts = a.attempts /\ b.timer = a.timer
      /\ b.seen = a.seen /\ b.out = a.out
      /\ b.target = a.target /\ b.pc = a.pc /\ b.pin = a.pin /\ b.refused = a.refused
      /\ \/ /\ b.phase = "None" /\ b.userClosed = TRUE /\ b.net = "Closed" /\ b.error = TRUE
            /\ b.dialog = "Connecting" /\ b.sealing = a.sealing
         \/ /\ b.phase = "Connecting" /\ b.userClosed = FALSE /\ b.net = "Connecting"
            /\ b.error = FALSE /\ b.sealing = FALSE
            /\ b.dialog = (IF a.screen # "Session" THEN "Connecting" ELSE a.dialog)
  BY DEF Connection!StartConnect, Connection!FailConnect, IsApp, Fields
<1>2. PcInv(b)
  BY <1>1 DEF PcInv
<1>3. AppInv(b)
  BY <1>1, <1>2 DEF AppInv
<1>4. Over(b)
  BY <1>1 DEF Over
<1>. QED
  BY <1>3, <1>4

\* What the App may become in one action: nothing is on its way from a closed one.
Changes(a, b) == AppInv(b) /\ (Over(b) \/ (Keeps(a, b) /\ Carried(b, b.out)))

\* Nothing on its way is always allowed.
LEMMA CarriesNothing ==
  ASSUME NEW a
  PROVE  Carried(a, <<>>)
<1>1. <<>> \in Seq({}) /\ Len(<<>>) = 0
  OBVIOUS
<1>. QED
  BY <1>1 DEF Carried, IsSeq

\* begin_connect keeps the invariant, for a PC whose password was not refused.
LEMMA BeginTurn ==
  ASSUME NEW a, AppInv(a), a.out = <<>>, a.phase # "Live",
         NEW pc, DOMAIN pc = PcFields, a.refused # None => pc.password # a.refused,
         pc.listed => a.pc.listed, a.pc.listed => pc.listed,
         NEW b, b = Connection!BeginConnect(a, pc)
  PROVE  Changes(a, b)
<1>0. IsApp(a) /\ PcInv(a)
  BY DEF AppInv
<1>1. PICK c : c = [a EXCEPT !.target = pc]
  OBVIOUS
<1>2. /\ IsApp(c) /\ c.out = a.out
      /\ c.phase = a.phase /\ c.userClosed = a.userClosed /\ c.net = a.net /\ c.error = a.error
      /\ c.dialog = a.dialog /\ c.screen = a.screen /\ c.timer = a.timer
      /\ c.sealing = a.sealing /\ c.seen = a.seen /\ c.pin = a.pin
      /\ c.target = pc /\ c.pc = a.pc /\ c.refused = a.refused
  BY <1>0, <1>1 DEF IsApp, Fields
<1>3. PcInv(c)
  BY <1>0, <1>2 DEF PcInv
<1>4. CASE pc.password = None
  <2>1. b = [c EXCEPT !.error = FALSE, !.dialog = "Password"]
    BY <1>1, <1>4 DEF Connection!BeginConnect
  <2>2. /\ IsApp(b) /\ b.out = <<>>
        /\ b.phase = a.phase /\ b.userClosed = a.userClosed /\ b.net = a.net /\ b.error = FALSE
        /\ b.dialog = "Password" /\ b.screen = a.screen /\ b.timer = a.timer
        /\ b.sealing = a.sealing /\ b.seen = a.seen /\ b.pin = a.pin
        /\ b.target = pc /\ b.pc = a.pc /\ b.refused = a.refused
    BY <1>2, <2>1 DEF IsApp, Fields
  <2>3. AppInv(b) /\ Keeps(a, b)
    BY <1>0, <2>2 DEF AppInv, PcInv, Keeps, Sure, Over
  <2>. QED
    BY <2>2, <2>3, CarriesNothing DEF Changes
<1>5. CASE pc.password # None
  <2>1. b = Connection!StartConnect(c) /\ IsApp(c) /\ (c.pc.listed => c.target.listed)
    BY <1>1, <1>2, <1>5 DEF Connection!BeginConnect
  <2>. QED
    BY <1>3, <2>1, StartTurn DEF Changes
<1>. QED
  BY <1>4, <1>5

\* disconnect_user keeps the invariant of the App.
LEMMA DisconnectTurn ==
  ASSUME NEW a, AppInv(a), NEW b, b = Connection!DisconnectUser(a)
  PROVE  Changes(a, b)
<1>0. IsApp(a) /\ PcInv(a)
  BY DEF AppInv
<1>1. /\ IsApp(b) /\ b.phase = "None" /\ b.timer = FALSE /\ b.screen = "Home" /\ b.dialog = "None"
      /\ b.net \in {"Idle", "Closed"}
      /\ b.target = a.target /\ b.pc = a.pc /\ b.refused = a.refused
  BY <1>0 DEF Connection!DisconnectUser, IsApp, Fields
<1>2. PcInv(b)
  BY <1>0, <1>1 DEF PcInv
<1>. QED
  BY <1>1, <1>2 DEF Changes, AppInv, Over

\* "Verify" in the dialog about a host's key.
LEMMA VerifyTurn ==
  ASSUME NEW a, AppInv(a), a.out = <<>>, a.dialog = "Verify",
         NEW b, b = Connection!SendAuth([a EXCEPT !.pin = a.seen])
  PROVE  Changes(a, b)
<1>0. IsApp(a) /\ PcInv(a)
  BY DEF AppInv
<1>1. PICK c : c = [a EXCEPT !.pin = a.seen]
  OBVIOUS
<1>2. /\ IsApp(c) /\ c.out = <<>>
      /\ c.phase = a.phase /\ c.userClosed = a.userClosed /\ c.net = a.net /\ c.error = a.error
      /\ c.dialog = a.dialog /\ c.screen = a.screen /\ c.timer = a.timer
      /\ c.sealing = a.sealing /\ c.seen = a.seen /\ c.pin = a.seen
      /\ c.target = a.target /\ c.pc = a.pc /\ c.refused = a.refused
  BY <1>0, <1>1 DEF IsApp, Fields
<1>3. b = Connection!SendAuth(c) /\ IsApp(c)
  BY <1>1, <1>2
<1>4. /\ IsApp(b) /\ b.out = (IF c.net = "Open" THEN Append(c.out, Proof(c)) ELSE c.out)
      /\ b.phase = "Auth" /\ b.userClosed = c.userClosed /\ b.net = c.net /\ b.error = c.error
      /\ b.dialog \in {c.dialog, "None", "Connecting"} /\ b.dialog # "Verify"
      /\ b.screen = c.screen /\ b.timer = c.timer
      /\ b.sealing = c.sealing /\ b.seen = c.seen
      /\ b.target = c.target /\ b.pc = c.pc /\ b.pin = c.pin /\ b.refused = c.refused
  BY <1>3, AuthFields
<1>5. AppInv(b) /\ Keeps(a, b)
  BY <1>0, <1>2, <1>4 DEF AppInv, PcInv, Keeps, Sure, Over
<1>6. Allowed(b, Proof(c))
  BY <1>0, <1>2, <1>4 DEF Allowed, Proof, PcInv, Sure
<1>7. Carried(b, Append(<<>>, Proof(c)))
  <2>1. PICK p : p = Proof(c)
    OBVIOUS
  <2>2. IsSeq(<<>>)
    BY CarriesNothing DEF Carried
  <2>3. /\ IsSeq(Append(<<>>, p)) /\ Len(Append(<<>>, p)) = 1
        /\ Append(<<>>, p)[1] = p
    <3>1. PICK e : e = <<>>
      OBVIOUS
    <3>2. /\ IsSeq(Append(e, p)) /\ Len(Append(e, p)) = Len(e) + 1
          /\ Append(e, p)[Len(e) + 1] = p
      BY <2>2, <3>1, SeqAppend
    <3>3. Len(e) = 0 /\ Len(e) + 1 = 1
      BY <3>1
    <3>. QED
      BY <3>1, <3>2, <3>3, Zenon
  <2>4. ASSUME NEW i \in 1..Len(Append(<<>>, p)) PROVE Allowed(b, Append(<<>>, p)[i])
    <3>1. i = 1
      BY <2>3
    <3>. QED
      BY <1>6, <2>1, <2>3, <3>1
  <2>. QED
    BY <2>1, <2>3, <2>4 DEF Carried
<1>8. Carried(b, b.out)
  BY <1>2, <1>4, <1>7, CarriesNothing
<1>. QED
  BY <1>5, <1>8 DEF Changes


\* A record of the App with nothing left to send is the same App.
LEMMA SentTurn ==
  ASSUME NEW a, AppInv(a), NEW b, b = [a EXCEPT !.out = <<>>]
  PROVE  AppInv(b) /\ b.out = <<>> /\ Keeps(a, b) /\ (Over(b) <=> Over(a))
<1>0. IsApp(a) /\ IsSeq(<<>>)
  BY CarriesNothing DEF AppInv, Carried
<1>1. /\ IsApp(b) /\ b.out = <<>>
      /\ b.phase = a.phase /\ b.userClosed = a.userClosed /\ b.net = a.net /\ b.error = a.error
      /\ b.dialog = a.dialog /\ b.screen = a.screen /\ b.timer = a.timer
      /\ b.sealing = a.sealing /\ b.seen = a.seen /\ b.pin = a.pin
      /\ b.target = a.target /\ b.pc = a.pc /\ b.refused = a.refused
  BY <1>0 DEF IsApp, Fields
<1>. QED
  BY <1>1 DEF AppInv, PcInv, Keeps, Sure, Over

\* The invariant of the viewer's connection: what is on its way to the host may
\* be, and who proved a password has seen the pinned key.
ConnInv ==
  /\ AppInv(app) /\ app.out = <<>>
  /\ Carried(app, toHost) /\ IsSeq(toViewer)
  /\ stage = "active" /\ ~ended => Sure(app)
  /\ Over(app) => toHost = <<>>

\* Two allowed queues, one behind the other, are allowed.
LEMMA CarriedBoth ==
  ASSUME NEW a, NEW s, Carried(a, s), NEW t, Carried(a, t)
  PROVE  Carried(a, s \o t)
<1>1. IsSeq(s) /\ (\A i \in 1..Len(s) : Allowed(a, s[i]))
      /\ IsSeq(t) /\ \A i \in 1..Len(t) : Allowed(a, t[i])
  BY DEF Carried
<1>2. /\ IsSeq(s \o t)
      /\ \A i \in 1..Len(s \o t) : \/ i \in 1..Len(s) /\ (s \o t)[i] = s[i]
                                   \/ i - Len(s) \in 1..Len(t) /\ (s \o t)[i] = t[i - Len(s)]
  BY <1>1, SeqConcat
<1>3. ASSUME NEW i \in 1..Len(s \o t) PROVE Allowed(a, (s \o t)[i])
  BY <1>1, <1>2
<1>. QED
  BY <1>2, <1>3 DEF Carried

\* An action that changes the App within the invariant keeps that of the connection.
LEMMA BecomesKept ==
  ASSUME ConnInv, NEW b, Changes(app, b), NEW left, IsSeq(left), Connection!Becomes(b, left)
  PROVE  ConnInv'
<1>1. app' = [b EXCEPT !.out = <<>>] /\ (stage' = IF Over(b) THEN "gone" ELSE stage)
      /\ (toHost' = IF Over(b) THEN <<>> ELSE toHost \o b.out)
      /\ (toViewer' = IF Over(b) THEN <<>> ELSE left)
      /\ (ended' => ended) /\ (~Over(b) => (ended' <=> ended))
  BY DEF Connection!Becomes, Over, ConnInv
<1>2. PICK a : a = app'
  OBVIOUS
<1>3. AppInv(a) /\ a.out = <<>> /\ Keeps(b, a) /\ (Over(a) <=> Over(b))
  BY <1>1, <1>2, SentTurn DEF Changes
<1>4. IsSeq(<<>>)
  BY CarriesNothing DEF Carried
<1>5. CASE Over(b)
  BY <1>1, <1>2, <1>3, <1>4, <1>5, CarriesNothing DEF ConnInv
<1>6. CASE ~Over(b)
  <2>1. Keeps(app, b) /\ Carried(b, b.out)
    BY <1>6 DEF Changes
  <2>2. Carried(b, toHost)
    BY <2>1, KeepsCarried DEF ConnInv
  <2>3. Carried(b, toHost \o b.out)
    BY <2>1, <2>2, CarriedBoth
  <2>4. Carried(a, toHost \o b.out)
    BY <1>3, <2>3, KeepsCarried
  <2>5. stage' = "active" /\ ~ended' => Sure(a)
    BY <1>1, <1>3, <1>6, <2>1 DEF ConnInv, Keeps
  <2>. QED
    BY <1>1, <1>2, <1>3, <1>6, <2>4, <2>5 DEF ConnInv
<1>. QED
  BY <1>5, <1>6

\* A part of a sequence is one.
LEMMA SeqPart ==
  ASSUME NEW s, IsSeq(s), NEW i, NEW j, i \in 1..(Len(s) + 1), j \in 0..Len(s)
  PROVE  IsSeq(SubSeq(s, i, j)) /\ Len(s) \in Nat
<1>1. PICK S : s \in Seq(S)
  BY DEF IsSeq
<1>2. SubSeq(s, i, j) \in Seq(S) /\ Len(s) \in Nat
  BY <1>1, SubSeqProperties
<1>. QED
  BY <1>2 DEF IsSeq

\* tick polls the transport, takes the messages and goes on.
LEMMA ConnPoll ==
  ASSUME ConnInv, Connection!Poll
  PROVE  ConnInv'
<1>0. IsSeq(toViewer) /\ Len(toViewer) \in Nat /\ AppInv(app) /\ Carried(app, app.out)
  BY CarriesNothing DEF ConnInv, IsSeq
<1>1. PICK n \in 0..Len(toViewer) :
        Connection!Becomes(Connection!Tick(app, n), SubSeq(toViewer, n + 1, Len(toViewer)))
  BY DEF Connection!Poll
<1>2. n \in Nat
  BY <1>0
<1>3. PICK b : b = Connection!Tick(app, n)
  OBVIOUS
<1>4. Turn(app, b)
  BY <1>0, <1>2, <1>3, TickTurn
<1>5. PICK left : left = SubSeq(toViewer, n + 1, Len(toViewer))
  OBVIOUS
<1>6. IsSeq(left)
  <2>1. n + 1 \in 1..(Len(toViewer) + 1) /\ Len(toViewer) \in 0..Len(toViewer)
    BY <1>0
  <2>. QED
    BY <1>0, <1>5, <2>1, SeqPart
<1>7. Changes(app, b)
  BY <1>4 DEF Turn, Changes
<1>. QED
  BY <1>1, <1>3, <1>5, <1>6, <1>7, BecomesKept

\* tick starts the next attempt when its time has come.
LEMMA ConnReconnect ==
  ASSUME ConnInv, Connection!Reconnect
  PROVE  ConnInv'
<1>0. IsApp(app) /\ PcInv(app) /\ (app.pc.listed => app.target.listed)
  BY DEF ConnInv, AppInv, Connection!Reconnect
<1>1. PICK a : a = [app EXCEPT !.timer = FALSE]
  OBVIOUS
<1>2. /\ IsApp(a) /\ a.screen = app.screen /\ a.target = app.target /\ a.pc = app.pc /\ a.refused = app.refused
  BY <1>0, <1>1 DEF IsApp, Fields
<1>3. PcInv(a) /\ (a.pc.listed => a.target.listed)
  BY <1>0, <1>2 DEF PcInv
<1>4. PICK b : b = Connection!StartConnect(a)
  OBVIOUS
<1>5. Changes(app, b)
  BY <1>2, <1>3, <1>4, StartTurn DEF Changes
<1>6. IsSeq(<<>>) /\ Connection!Becomes(b, <<>>)
  BY <1>1, <1>4, CarriesNothing DEF Connection!Reconnect, Carried
<1>. QED
  BY <1>5, <1>6, BecomesKept

\* The user chooses a PC.
LEMMA ConnChoose ==
  ASSUME ConnInv, Connection!Choose
  PROVE  ConnInv'
<1>0. AppInv(app) /\ app.out = <<>> /\ IsApp(app) /\ PcInv(app) /\ app.phase # "Live" /\ IsSeq(toViewer)
  BY DEF ConnInv, AppInv, Connection!Choose
<1>1. PICK pc : /\ \/ pc = app.pc
                   \/ ~app.pc.listed /\ pc = [Connection!NotListed EXCEPT !.valid = FALSE]
                /\ Connection!Becomes(Connection!BeginConnect(app, pc), toViewer)
  BY DEF Connection!Choose
<1>2. /\ DOMAIN pc = PcFields /\ (app.refused # None => pc.password # app.refused)
      /\ (pc.listed => app.pc.listed) /\ (app.pc.listed => pc.listed)
  <2>1. CASE pc = app.pc
    BY <1>0, <2>1 DEF IsApp, PcInv
  <2>2. CASE ~app.pc.listed /\ pc = [Connection!NotListed EXCEPT !.valid = FALSE]
    BY <2>2 DEF Connection!NotListed, PcFields
  <2>. QED
    BY <1>1, <2>1, <2>2
<1>3. PICK b : b = Connection!BeginConnect(app, pc)
  OBVIOUS
<1>4. Changes(app, b)
  BY <1>0, <1>2, <1>3, BeginTurn
<1>. QED
  BY <1>0, <1>1, <1>3, <1>4, BecomesKept

\* The user answers the password dialog, or closes it.
LEMMA ConnPassword ==
  ASSUME ConnInv, Connection!PasswordDialog
  PROVE  ConnInv'
<1>0. AppInv(app) /\ app.out = <<>> /\ IsApp(app) /\ PcInv(app) /\ app.phase # "Live" /\ IsSeq(toViewer)
      /\ app.dialog = "Password" /\ (app.pc.listed => app.target.listed)
  BY DEF ConnInv, AppInv, Connection!PasswordDialog
<1>1. CASE Connection!Becomes([app EXCEPT !.dialog = "None"], toViewer)
  <2>1. PICK b : b = [app EXCEPT !.dialog = "None"]
    OBVIOUS
  <2>2. /\ IsApp(b) /\ b.out = <<>>
        /\ b.phase = app.phase /\ b.userClosed = app.userClosed /\ b.net = app.net /\ b.error = app.error
        /\ b.dialog = "None" /\ b.screen = app.screen /\ b.timer = app.timer
        /\ b.sealing = app.sealing /\ b.seen = app.seen /\ b.pin = app.pin
        /\ b.target = app.target /\ b.pc = app.pc /\ b.refused = app.refused
    BY <1>0, <2>1 DEF IsApp, Fields
  <2>3. AppInv(b) /\ Keeps(app, b)
    BY <1>0, <2>2 DEF AppInv, PcInv, Keeps, Sure, Over
  <2>4. Changes(app, b)
    BY <2>2, <2>3, CarriesNothing DEF Changes
  <2>. QED
    BY <1>0, <1>1, <2>1, <2>4, BecomesKept
<1>2. ASSUME NEW pw \in Password, NEW r \in BOOLEAN,
             Connection!Becomes(Connection!StartConnect(
               [app EXCEPT !.target.password = pw, !.target.remember = r, !.refused = None,
                           !.pc = IF app.target.listed
                                  THEN [@ EXCEPT !.remember = r, !.password = IF r THEN pw ELSE None]
                                  ELSE @]), toViewer)
      PROVE  ConnInv'
  <2>1. PICK a : a = [app EXCEPT !.target.password = pw, !.target.remember = r, !.refused = None,
                           !.pc = IF app.target.listed
                                  THEN [@ EXCEPT !.remember = r, !.password = IF r THEN pw ELSE None]
                                  ELSE @]
    OBVIOUS
  <2>2. /\ IsApp(a) /\ a.screen = app.screen /\ a.refused = None
        /\ a.target.listed = app.target.listed /\ a.pc.listed = app.pc.listed
        /\ \/ a.pc = app.pc
           \/ app.target.listed /\ (a.pc.password # None => a.pc.remember)
    BY <1>0, <2>1 DEF IsApp, Fields, PcFields
  <2>3. PcInv(a) /\ (a.pc.listed => a.target.listed)
    BY <1>0, <2>2 DEF PcInv
  <2>4. PICK b : b = Connection!StartConnect(a)
    OBVIOUS
  <2>5. Changes(app, b)
    BY <2>2, <2>3, <2>4, StartTurn DEF Changes
  <2>. QED
    BY <1>0, <1>2, <2>1, <2>4, <2>5, BecomesKept
<1>. QED
  BY <1>1, <1>2 DEF Connection!PasswordDialog


\* The user disconnects.
LEMMA ConnLeave ==
  ASSUME ConnInv, Connection!Becomes(Connection!DisconnectUser(app), toViewer)
  PROVE  ConnInv'
<1>1. PICK b : b = Connection!DisconnectUser(app)
  OBVIOUS
<1>2. AppInv(app) /\ IsSeq(toViewer)
  BY DEF ConnInv
<1>3. Changes(app, b)
  BY <1>1, <1>2, DisconnectTurn
<1>. QED
  BY <1>1, <1>2, <1>3, BecomesKept

\* The user answers the Verify dialog.
LEMMA ConnVerify ==
  ASSUME ConnInv, Connection!VerifyDialog
  PROVE  ConnInv'
<1>1. CASE Connection!Becomes(Connection!SendAuth([app EXCEPT !.pin = app.seen]), toViewer)
  <2>1. PICK b : b = Connection!SendAuth([app EXCEPT !.pin = app.seen])
    OBVIOUS
  <2>2. AppInv(app) /\ app.out = <<>> /\ app.dialog = "Verify" /\ IsSeq(toViewer)
    BY DEF ConnInv, Connection!VerifyDialog
  <2>3. Changes(app, b)
    BY <2>1, <2>2, VerifyTurn
  <2>. QED
    BY <1>1, <2>1, <2>2, <2>3, BecomesKept
<1>. QED
  BY <1>1, ConnLeave DEF Connection!VerifyDialog

\* The user answers the dialog of a connection under way or failed.
LEMMA ConnConnecting ==
  ASSUME ConnInv, Connection!ConnectingDialog
  PROVE  ConnInv'
<1>0. AppInv(app) /\ app.out = <<>> /\ IsApp(app) /\ PcInv(app) /\ app.phase # "Live" /\ IsSeq(toViewer)
      /\ app.dialog = "Connecting" /\ (app.pc.listed => app.target.listed)
  BY DEF ConnInv, AppInv, Connection!ConnectingDialog
<1>1. CASE Connection!Becomes([app EXCEPT !.dialog = "None"], toViewer)
  <2>1. PICK b : b = [app EXCEPT !.dialog = "None"]
    OBVIOUS
  <2>2. /\ IsApp(b) /\ b.out = <<>>
        /\ b.phase = app.phase /\ b.userClosed = app.userClosed /\ b.net = app.net /\ b.error = app.error
        /\ b.dialog = "None" /\ b.screen = app.screen /\ b.timer = app.timer
        /\ b.sealing = app.sealing /\ b.seen = app.seen /\ b.pin = app.pin
        /\ b.target = app.target /\ b.pc = app.pc /\ b.refused = app.refused
    BY <1>0, <2>1 DEF IsApp, Fields
  <2>3. AppInv(b) /\ Keeps(app, b)
    BY <1>0, <2>2 DEF AppInv, PcInv, Keeps, Sure, Over
  <2>4. Changes(app, b)
    BY <2>2, <2>3, CarriesNothing DEF Changes
  <2>. QED
    BY <1>0, <1>1, <2>1, <2>4, BecomesKept
<1>2. CASE Connection!Becomes(Connection!BeginConnect(app, app.target), toViewer)
  <2>1. PICK b, pc : pc = app.target /\ b = Connection!BeginConnect(app, pc)
    OBVIOUS
  <2>2. /\ DOMAIN pc = PcFields /\ (app.refused # None => pc.password # app.refused)
        /\ (pc.listed => app.pc.listed) /\ (app.pc.listed => pc.listed)
    BY <1>0, <2>1 DEF IsApp, PcInv
  <2>3. Changes(app, b)
    BY <1>0, <2>1, <2>2, BeginTurn
  <2>. QED
    BY <1>0, <1>2, <2>1, <2>3, BecomesKept
<1>. QED
  BY <1>1, <1>2, ConnLeave DEF Connection!ConnectingDialog

\* The outcome of the transport's connect.
LEMMA ConnNet ==
  ASSUME ConnInv, Connection!Connected \/ Connection!NotConnected
  PROVE  ConnInv'
<1>0. AppInv(app) /\ IsApp(app) /\ PcInv(app) /\ app.out = <<>> /\ toHost = <<>>
  BY DEF ConnInv, AppInv, Connection!Connected, Connection!NotConnected, Over
<1>1. PICK b : b = app'
  OBVIOUS
<1>2. (b = [app EXCEPT !.net = "Open"] /\ stage' = "hello") \/ (b = [app EXCEPT !.net = "Closed"] /\ stage' = stage)
  BY <1>1 DEF Connection!Connected, Connection!NotConnected
<1>3. /\ IsApp(b) /\ b.out = <<>>
      /\ b.phase = app.phase /\ b.userClosed = app.userClosed /\ b.error = app.error
      /\ b.dialog = app.dialog /\ b.screen = app.screen /\ b.timer = app.timer
      /\ b.sealing = app.sealing /\ b.seen = app.seen /\ b.pin = app.pin
      /\ b.target = app.target /\ b.pc = app.pc /\ b.refused = app.refused
  BY <1>0, <1>2 DEF IsApp, Fields
<1>4. AppInv(b) /\ (Sure(app) => Sure(b))
  BY <1>0, <1>3 DEF AppInv, PcInv, Sure
<1>5. toHost' = toHost /\ toViewer' = toViewer /\ ended' = ended
  BY DEF Connection!Connected, Connection!NotConnected
<1>. QED
  BY <1>0, <1>1, <1>2, <1>3, <1>4, <1>5, CarriesNothing DEF ConnInv

\* The host reads a message and answers it.
LEMMA ConnHostReads ==
  ASSUME ConnInv, Connection!HostReads
  PROVE  ConnInv'
<1>0. /\ toHost # <<>> /\ ~ended /\ toHost' = Tail(toHost) /\ app' = app
      /\ Carried(app, toHost) /\ IsSeq(toViewer)
  BY DEF Connection!HostReads, ConnInv
<1>1. PICK r : /\ r \in Connection!Answer(Head(toHost))
               /\ toViewer' = (IF r[1].type = "NONE" THEN toViewer ELSE Append(toViewer, r[1]))
               /\ stage' = r[2] /\ ended' = (r[2] = "gone")
  BY DEF Connection!HostReads
<1>2. /\ IsSeq(Tail(toHost)) /\ 1 \in 1..Len(toHost) /\ Head(toHost) = toHost[1]
      /\ \A i \in 1..Len(Tail(toHost)) : i + 1 \in 1..Len(toHost) /\ Tail(toHost)[i] = toHost[i + 1]
  BY <1>0, SeqTail DEF Carried
<1>3. Carried(app, Tail(toHost))
  BY <1>0, <1>2 DEF Carried
<1>4. IsSeq(toViewer')
  BY <1>0, <1>1, SeqAppend
<1>5. PICK m : m = Head(toHost)
  OBVIOUS
<1>6. stage' = "active" => m.type = "AUTH" /\ m.sealed
  <2>1. SUFFICES ASSUME ~(m.type = "AUTH" /\ m.sealed) PROVE r[2] # "active"
    BY <1>1
  <2>2. \/ r = <<[type |-> "HELLO", key |-> host.key], "auth">>
        \/ r = <<Connection!Refused("other"), "gone">>
        \/ r = <<[type |-> "NONE"], "gone">>
    BY <1>1, <1>5, <2>1 DEF Connection!Answer
  <2>. QED
    BY <2>2
<1>7. Allowed(app, m)
  BY <1>0, <1>2, <1>5 DEF Carried
<1>8. stage' = "active" => Sure(app)
  BY <1>6, <1>7 DEF Allowed
<1>9. ~Over(app)
  BY <1>0 DEF ConnInv
<1>. QED
  BY <1>0, <1>3, <1>4, <1>8, <1>9 DEF ConnInv

\* A connection is lost.
LEMMA ConnDrop ==
  ASSUME ConnInv, NEW h, Connection!Drop(h)
  PROVE  ConnInv'
<1>1. stage' = "gone" /\ toHost' = <<>> /\ app' = app /\ IsSeq(toViewer) /\ Len(toViewer) \in Nat
  BY DEF Connection!Drop, ConnInv, IsSeq
<1>2. PICK n \in 0..Len(toViewer) : toViewer' = SubSeq(toViewer, 1, n)
  BY DEF Connection!Drop
<1>3. IsSeq(SubSeq(toViewer, 1, n))
  <2>1. 1 \in 1..(Len(toViewer) + 1)
    BY <1>1
  <2>. QED
    BY <1>1, <1>2, <2>1, SeqPart
<1>. QED
  BY <1>1, <1>2, <1>3, CarriesNothing DEF ConnInv

\* The host comes back with another key, password or version.
LEMMA ConnAlter ==
  ASSUME ConnInv, Connection!Alter
  PROVE  ConnInv'
<1>1. UNCHANGED <<app, toHost, stage, ended>> /\ IsSeq(toViewer)
  BY DEF Connection!Alter, ConnInv
<1>2. PICK i \in 1..Len(toViewer) : toViewer' = [toViewer EXCEPT ![i] = [type |-> "ALTERED"]]
  BY DEF Connection!Alter
<1>3. PICK m : m = [type |-> "ALTERED"]
  OBVIOUS
<1>4. PICK S : toViewer \in Seq(S)
  BY <1>1 DEF IsSeq
<1>5. PICK T : T = S \cup {m}
  OBVIOUS
<1>6. toViewer \in Seq(T) /\ m \in T
  BY <1>4, <1>5
<1>7. [toViewer EXCEPT ![i] = m] \in Seq(T)
  BY <1>2, <1>6, ExceptSeq
<1>8. IsSeq(toViewer')
  BY <1>2, <1>3, <1>7 DEF IsSeq
<1>. QED
  BY <1>1, <1>8 DEF ConnInv

\* Every step of the connection keeps its invariant.
LEMMA ConnStep ==
  ASSUME ConnInv, [Next]_vars
  PROVE  ConnInv'
<1>1. CASE UNCHANGED connectionVars
  BY <1>1 DEF connectionVars, ConnInv, Over, Carried, Sure, AppInv, PcInv
<1>2. [Next]_vars => (InConnection /\ Connection!Next) \/ UNCHANGED connectionVars
  BY DEF Next, vars, InTransport, InInput, InLink, InShare, InSaved, InKey
<1>3. CASE Connection!Leave
  BY <1>3, ConnLeave DEF Connection!Leave
<1>4. CASE Connection!Lost \/ Connection!HandshakeTimeout
  BY <1>4, ConnDrop DEF Connection!Lost, Connection!HandshakeTimeout
<1>5. CASE Connection!Next
  BY <1>3, <1>4, <1>5, ConnPoll, ConnReconnect, ConnChoose, ConnPassword, ConnVerify, ConnConnecting,
     ConnNet, ConnHostReads, ConnAlter DEF Connection!Next
<1>. QED
  BY <1>1, <1>2, <1>5

\* The invariant of the connection holds at first.
LEMMA ConnInit == Init => ConnInv
<1>. SUFFICES ASSUME Connection!Init PROVE ConnInv
  BY DEF Init
<1>1. PICK pc \in {Connection!NotListed} \cup [password : Password \cup {None}, remember : {TRUE},
                                 listed : {TRUE}, valid : {TRUE}],
           pin \in Identity \cup {None} :
        app = [phase |-> "None", screen |-> "Home", dialog |-> "None", error |-> FALSE,
              userClosed |-> FALSE, attempts |-> 0, timer |-> FALSE,
              net |-> "Idle", sealing |-> FALSE, seen |-> None, out |-> <<>>,
              target |-> Connection!NotListed, pc |-> pc, pin |-> pin,
              refused |-> None]
  BY DEF Connection!Init
<1>2. toHost = <<>> /\ toViewer = <<>> /\ stage = "gone"
  BY DEF Connection!Init
<1>3. DOMAIN pc = PcFields /\ (pc.password # None => pc.listed /\ pc.remember)
  <2>1. CASE pc = Connection!NotListed
    BY <2>1 DEF Connection!NotListed, PcFields
  <2>2. CASE pc \in [password : Password \cup {None}, remember : {TRUE}, listed : {TRUE}, valid : {TRUE}]
    <3>1. PICK Set : Set = {TRUE}
      OBVIOUS
    <3>2. pc \in [password : Password \cup {None}, remember : Set, listed : Set, valid : Set]
      BY <2>2, <3>1, Zenon
    <3>3. DOMAIN pc = PcFields /\ pc.listed \in Set /\ pc.remember \in Set
      BY <3>2 DEF PcFields
    <3>. QED
      BY <3>1, <3>3
  <2>. QED
    BY <2>1, <2>2
<1>4. IsSeq(<<>>)
  BY CarriesNothing DEF Carried
<1>5. DOMAIN app = Fields /\ app.target = Connection!NotListed /\ app.pc = pc /\ app.out = <<>>
      /\ app.refused = None /\ app.phase = "None" /\ app.screen = "Home" /\ app.dialog = "None"
      /\ ~app.timer /\ ~app.userClosed /\ ~app.sealing
  BY <1>1 DEF Fields
<1>6. DOMAIN Connection!NotListed = PcFields /\ ~Connection!NotListed.listed
  BY DEF Connection!NotListed, PcFields
<1>7. AppInv(app)
  BY <1>3, <1>4, <1>5, <1>6 DEF AppInv, PcInv, IsApp
<1>. QED
  BY <1>2, <1>4, <1>5, <1>7, CarriesNothing DEF ConnInv

\* The invariant of the connection holds in every behaviour of the composition.
LEMMA ConnKept == Init /\ [][Next]_vars => []ConnInv
<1>1. Init => ConnInv
  BY ConnInit
<1>2. ConnInv /\ [Next]_vars => ConnInv'
  BY ConnStep
<1>. QED
  BY <1>1, <1>2, PTL

\* start_connect, RD_S_HELLO, send_auth and RD_S_AUTH_RESULT, over any number of
\* connections and restarts of the host: a password is proved to the pinned host
\* only, and one that the host refused is not sent again before it was typed again.
THEOREM PasswordIsSafe == FairSpec => []PasswordSafe
<1>1. ConnInv => PasswordSafe
  BY DEF ConnInv, PasswordSafe, Connection!LiveIsTrusted, Connection!NoRefusedRetry, Sure, Carried,
         Allowed, Over
<1>2. FairSpec => Init /\ [][Next]_vars
  BY PTL DEF FairSpec
<1>. QED
  BY <1>1, <1>2, ConnKept, PTL

\* The dialogs of the viewer, and the transport's error(): "Connecting" is shown
\* while something goes on, nothing over a live session, and the reason why a
\* connection ended is what happened.
THEOREM TruthIsTold == FairSpec => []TellsTheTruth
<1>1. ConnInv => Connection!ShownIsTrue
  BY DEF ConnInv, AppInv, Connection!ShownIsTrue
<1>2. ConnInv /\ ReasonInv => TellsTheTruth
  BY <1>1, ReasonGiven DEF TellsTheTruth
<1>3. FairSpec => Init /\ [][Next]_vars
  BY PTL DEF FairSpec
<1>. QED
  BY <1>2, <1>3, ConnKept, ReasonKept, PTL


-----------------------------------------------------------------------------
(* The keys that are down.                                                 *)

\* release_input goes through the keys in some order.
LEMMA InOrder ==
  ASSUME NEW S, IsFiniteSet(S)
  PROVE  IsSeq(Input!SetToSeq(S))
<1>1. Cardinality(S) \in Nat /\ ExistsBijection(1..Cardinality(S), S)
  BY FS_CardinalityType
<1>2. PICK c \in Nat : c = Cardinality(S)
  BY <1>1
<1>3. PICK f \in [1..c -> S] : \A a, b \in DOMAIN f : f[a] = f[b] => a = b
  BY <1>1, <1>2 DEF ExistsBijection, Bijection, Injection, IsInjective
<1>4. PICK o : o = Input!SetToSeq(S)
  OBVIOUS
<1>5. o \in [1..c -> S]
  BY <1>2, <1>3, <1>4 DEF Input!SetToSeq, Input!IsInjective, Input!Cardinality, Cardinality
<1>6. o \in Seq(S)
  BY <1>2, <1>5
<1>. QED
  BY <1>4, <1>6 DEF IsSeq


\* A message that presses or releases the key; and one whose buttons are no keys.
About(k, m) == "key" \in DOMAIN m /\ m.key = k
Pointed(m) == "key" \notin DOMAIN m => m.buttons \subseteq Button

\* Whether the key is down after the first n messages, on a host where d is down.
Comes(k, d, s, n) ==
  \/ k \in d /\ \A i \in 1..n : ~About(k, s[i])
  \/ \E i \in 1..n : /\ About(k, s[i]) /\ s[i].isDown
                     /\ \A j \in 1..n : j > i => ~About(k, s[j])

\* A key is down after a message because it was, or because the message pressed it.
LEMMA ComesApplied ==
  ASSUME NEW k, k \notin Button, NEW m, Pointed(m), NEW d, k \in Input!Apply(d, m)
  PROVE  (k \in d /\ ~About(k, m)) \/ (About(k, m) /\ m.isDown)
  BY DEF Input!Apply, About, Pointed

\* One message further.
LEMMA ComesFurther ==
  ASSUME NEW k, k \notin Button, NEW d, NEW s, NEW n \in Nat, Pointed(s[n + 1]),
         NEW e, k \in e => Comes(k, d, s, n), k \in Input!Apply(e, s[n + 1])
  PROVE  Comes(k, d, s, n + 1)
<1>1. (k \in e /\ ~About(k, s[n + 1])) \/ (About(k, s[n + 1]) /\ s[n + 1].isDown)
  BY ComesApplied
<1>2. \A i \in 1..(n + 1) : i \in 1..n \/ i = n + 1
  OBVIOUS
<1>3. (\A i \in 1..n : i \in 1..(n + 1)) /\ n + 1 \in 1..(n + 1) /\ \A i \in 1..(n + 1) : ~(i > n + 1)
  OBVIOUS
<1>4. CASE About(k, s[n + 1]) /\ s[n + 1].isDown
  BY <1>3, <1>4 DEF Comes
<1>5. CASE k \in e /\ ~About(k, s[n + 1])
  BY <1>2, <1>3, <1>5 DEF Comes
<1>. QED
  BY <1>1, <1>4, <1>5

\* A message that is sent.
LEMMA ComesSent ==
  ASSUME NEW k, NEW d, NEW s, IsSeq(s), NEW m, Comes(k, d, Append(s, m), Len(s) + 1)
  PROVE  IF About(k, m) THEN m.isDown ELSE Comes(k, d, s, Len(s))
<1>1. PICK t : t = Append(s, m)
  OBVIOUS
<1>2. PICK n \in Nat : n = Len(s)
  BY SeqAppend
<1>3. (\A i \in 1..n : t[i] = s[i]) /\ t[n + 1] = m
  BY <1>1, <1>2, SeqAppend
<1>4. (\A i \in 1..(n + 1) : i \in 1..n \/ i = n + 1) /\ (\A i \in 1..n : i \in 1..(n + 1) /\ n + 1 > i)
      /\ n + 1 \in 1..(n + 1)
  OBVIOUS
<1>5. Comes(k, d, t, n + 1)
  BY <1>1, <1>2
<1>6. CASE About(k, m)
  BY <1>3, <1>4, <1>5, <1>6 DEF Comes
<1>7. CASE ~About(k, m)
  <2>1. Comes(k, d, s, n)
    BY <1>3, <1>4, <1>5, <1>7 DEF Comes
  <2>. QED
    BY <1>2, <1>7, <2>1
<1>. QED
  BY <1>6, <1>7

\* The first message is read: what it leaves down on the host, e, makes up for it.
LEMMA ComesRead ==
  ASSUME NEW k, NEW d, NEW s, IsSeq(s), s # <<>>, NEW e,
         k \in e => (k \in d /\ ~About(k, s[1])) \/ (About(k, s[1]) /\ s[1].isDown),
         Comes(k, e, Tail(s), Len(Tail(s)))
  PROVE  Comes(k, d, s, Len(s))
<1>1. PICK t : t = Tail(s)
  OBVIOUS
<1>2. PICK n \in Nat : n = Len(t)
  BY <1>1, SeqTail
<1>3. Len(s) = n + 1 /\ \A i \in 1..n : t[i] = s[i + 1]
  BY <1>1, <1>2, SeqTail
<1>4. Comes(k, e, t, n)
  BY <1>1, <1>2
<1>5. /\ \A i \in 1..n : i + 1 \in 1..(n + 1) /\ i + 1 > 1
      /\ \A i \in 1..(n + 1) : i = 1 \/ (i - 1 \in 1..n /\ (i - 1) + 1 = i)
      /\ 1 \in 1..(n + 1)
  OBVIOUS
<1>6. CASE k \in e /\ \A i \in 1..n : ~About(k, t[i])
  <2>1. \A i \in 1..(n + 1) : i > 1 => ~About(k, s[i])
    <3>1. ASSUME NEW i \in 1..(n + 1), i > 1 PROVE ~About(k, s[i])
      <4>1. i - 1 \in 1..n /\ (i - 1) + 1 = i
        BY <1>5, <3>1
      <4>. QED
        BY <1>3, <1>6, <4>1
    <3>. QED
      BY <3>1
  <2>2. CASE About(k, s[1]) /\ s[1].isDown
    BY <1>3, <1>5, <2>1, <2>2 DEF Comes
  <2>3. CASE k \in d /\ ~About(k, s[1])
    <3>1. \A i \in 1..(n + 1) : i = 1 \/ i > 1
      OBVIOUS
    <3>. QED
      BY <1>3, <2>1, <2>3, <3>1 DEF Comes
  <2>. QED
    BY <1>6, <2>2, <2>3
<1>7. CASE \E i \in 1..n : /\ About(k, t[i]) /\ t[i].isDown
                           /\ \A j \in 1..n : j > i => ~About(k, t[j])
  <2>1. PICK i \in 1..n : /\ About(k, t[i]) /\ t[i].isDown
                          /\ \A j \in 1..n : j > i => ~About(k, t[j])
    BY <1>7
  <2>2. PICK p \in 1..(n + 1) : p = i + 1
    BY <1>5
  <2>3. About(k, s[p]) /\ s[p].isDown
    BY <1>3, <2>1, <2>2
  <2>4. ASSUME NEW j \in 1..(n + 1), j > p PROVE ~About(k, s[j])
    <3>1. j - 1 \in 1..n /\ (j - 1) + 1 = j /\ j - 1 > i
      BY <2>2, <2>4
    <3>. QED
      BY <1>3, <2>1, <3>1
  <2>. QED
    BY <1>3, <2>3, <2>4 DEF Comes
<1>. QED
  BY <1>4, <1>6, <1>7 DEF Comes


\* What is down on the host, if the viewer is to know it: not while the host has a
\* connection the viewer left that pressed something.
Own == IF Input!Lingering THEN {} ELSE down

\* The connections the viewer left.
IsLeft(o) == DOMAIN o = {"toHost", "viewOnly", "sentInput"}
OldOk == \E S : old \in Seq(S) /\ \A o \in S : IsLeft(o)

\* What the App knows of its input: it remembers each key that will be down.
IsView(v) ==
  /\ DOMAIN v = {"held", "buttons", "viewOnly", "menu", "chat", "out"}
  /\ IsFiniteSet(v.held) /\ v.buttons \subseteq Button /\ IsSeq(v.out)
Knows(v, s) ==
  /\ \A i \in 1..Len(s) : Pointed(s[i])
  /\ \A k \in Key : Comes(k, Own, s, Len(s)) => k \in v.held
KeysOk(v) == IsView(v) /\ Knows(v, inputUp \o v.out)

\* What joins a queue stays behind what is on its way before it.
LEMMA AppendBehind ==
  ASSUME NEW s, IsSeq(s), NEW o, IsSeq(o), NEW m
  PROVE  s \o Append(o, m) = Append(s \o o, m)
<1>1. PICK S, T : s \in Seq(S) /\ o \in Seq(T)
  BY DEF IsSeq
<1>2. PICK U : U = S \cup T \cup {m}
  OBVIOUS
<1>3. s \in Seq(U) /\ o \in Seq(U) /\ m \in U
  BY <1>1, <1>2
<1>4. Append(o, m) = o \o <<m>> /\ Append(s \o o, m) = (s \o o) \o <<m>> /\ <<m>> \in Seq(U)
      /\ s \o o \in Seq(U)
  BY <1>3, AppendIsConcat, ConcatProperties
<1>5. s \o (o \o <<m>>) = (s \o o) \o <<m>>
  BY <1>3, <1>4, ConcatAssociative
<1>. QED
  BY <1>4, <1>5, Zenon

\* The App w behind v has sent the message m.
LEMMA SentOk ==
  ASSUME IsSeq(inputUp), NEW v, KeysOk(v), NEW w, IsView(w), NEW m, Pointed(m), w.out = Append(v.out, m),
         \A k \in Key : IF About(k, m) THEN m.isDown => k \in w.held ELSE k \in v.held => k \in w.held
  PROVE  KeysOk(w)
<1>1. IsSeq(v.out) /\ Knows(v, inputUp \o v.out)
  BY DEF KeysOk, IsView
<1>2. PICK s : s = inputUp \o v.out
  OBVIOUS
<1>3. IsSeq(s) /\ inputUp \o w.out = Append(s, m)
  <2>1. PICK o : o = v.out
    OBVIOUS
  <2>2. IsSeq(inputUp \o o)
    BY <1>1, <2>1, SeqConcat
  <2>3. inputUp \o Append(o, m) = Append(inputUp \o o, m)
    BY <1>1, <2>1, AppendBehind
  <2>. QED
    BY <1>2, <2>1, <2>2, <2>3, Zenon
<1>4. PICK t : t = Append(s, m)
  OBVIOUS
<1>5. Len(t) = Len(s) + 1 /\ Len(s) \in Nat /\ (\A i \in 1..Len(s) : t[i] = s[i]) /\ t[Len(s) + 1] = m
  BY <1>3, <1>4, SeqAppend
<1>6. ASSUME NEW i \in 1..Len(t) PROVE Pointed(t[i])
  <2>1. i \in 1..Len(s) \/ i = Len(s) + 1
    BY <1>5
  <2>. QED
    BY <1>1, <1>2, <1>5, <2>1 DEF Knows
<1>7. ASSUME NEW k \in Key, Comes(k, Own, t, Len(t)) PROVE k \in w.held
  <2>1. Comes(k, Own, Append(s, m), Len(s) + 1)
    BY <1>4, <1>5, <1>7, Zenon
  <2>2. IF About(k, m) THEN m.isDown ELSE Comes(k, Own, s, Len(s))
    BY <1>3, <2>1, ComesSent
  <2>. QED
    BY <1>1, <1>2, <2>2 DEF Knows
<1>. QED
  BY <1>3, <1>4, <1>6, <1>7 DEF KeysOk, Knows

\* A KEY message goes with a change of held_.
LEMMA SendKeyOk ==
  ASSUME IsSeq(inputUp), NEW v, KeysOk(v), NEW k, NEW d, NEW w, w = Input!SendKey(v, k, d)
  PROVE  KeysOk(w)
<1>1. CASE v.viewOnly
  BY <1>1 DEF Input!SendKey
<1>2. CASE ~v.viewOnly
  <2>1. PICK m : m = [key |-> k, isDown |-> d]
    OBVIOUS
  <2>2. PICK h : h = IF d THEN v.held \cup {k} ELSE v.held \ {k}
    OBVIOUS
  <2>3. w = [v EXCEPT !.held = h, !.out = Append(@, m)]
    BY <1>2, <2>1, <2>2 DEF Input!SendKey
  <2>4. IsView(v) /\ IsSeq(Append(v.out, m))
    BY SeqAppend DEF KeysOk, IsView
  <2>5. IsFiniteSet(h)
    BY <2>2, <2>4, FS_AddElement, FS_RemoveElement DEF IsView
  <2>6. IsView(w) /\ w.out = Append(v.out, m) /\ w.held = h
    BY <2>3, <2>4, <2>5 DEF IsView
  <2>7. Pointed(m) /\ m.isDown = d /\ \A x : About(x, m) <=> x = k
    BY <2>1 DEF Pointed, About
  <2>8. \A x \in Key : IF About(x, m) THEN m.isDown => x \in w.held ELSE x \in v.held => x \in w.held
    BY <2>2, <2>6, <2>7
  <2>. QED
    BY <2>6, <2>7, <2>8, SentOk
<1>. QED
  BY <1>1, <1>2

\* A pointer message presses no key.
LEMMA SendPointerOk ==
  ASSUME IsSeq(inputUp), NEW v, KeysOk(v), NEW w, w = Input!SendPointer(v)
  PROVE  KeysOk(w)
<1>1. CASE v.viewOnly
  BY <1>1 DEF Input!SendPointer
<1>2. CASE ~v.viewOnly
  <2>1. PICK m : m = [buttons |-> v.buttons]
    OBVIOUS
  <2>3. w = [v EXCEPT !.out = Append(@, m)]
    BY <1>2, <2>1 DEF Input!SendPointer
  <2>4. IsView(v) /\ IsSeq(Append(v.out, m))
    BY SeqAppend DEF KeysOk, IsView
  <2>6. IsView(w) /\ w.out = Append(v.out, m) /\ w.held = v.held
    BY <2>3, <2>4 DEF IsView
  <2>7. Pointed(m) /\ \A x : ~About(x, m)
    BY <2>1, <2>4 DEF Pointed, About, IsView
  <2>8. \A x \in Key : IF About(x, m) THEN m.isDown => x \in w.held ELSE x \in v.held => x \in w.held
    BY <2>6, <2>7
  <2>. QED
    BY <2>6, <2>7, <2>8, SentOk
<1>. QED
  BY <1>1, <1>2

\* What neither sends nor forgets a key.
LEMMA QuietOk ==
  ASSUME NEW v, KeysOk(v), NEW w, DOMAIN w = DOMAIN v, w.held = v.held, w.buttons \subseteq Button,
         w.out = v.out
  PROVE  KeysOk(w)
  BY DEF KeysOk, IsView, Knows

\* A key event of the user keeps held_ in step with what was sent.
LEMMA KeyEventOk ==
  ASSUME IsSeq(inputUp), NEW v, KeysOk(v), NEW k, NEW d, NEW w, w = Input!KeyEvent(v, k, d)
  PROVE  KeysOk(w)
<1>0. IsView(v)
  BY DEF KeysOk
<1>1. CASE v.chat \/ (v.menu /\ k = Esc)
  <2>1. DOMAIN w = DOMAIN v /\ w.held = v.held /\ w.buttons \subseteq Button /\ w.out = v.out
    BY <1>0, <1>1 DEF Input!KeyEvent, IsView
  <2>. QED
    BY <2>1, QuietOk
<1>2. CASE ~(v.chat \/ (v.menu /\ k = Esc))
  <2>1. w = Input!SendKey(v, k, d) \/ w = v
    BY <1>2 DEF Input!KeyEvent
  <2>. QED
    BY <2>1, SendKeyOk
<1>. QED
  BY <1>1, <1>2

\* A button event of the user changes no key.
LEMMA ButtonEventOk ==
  ASSUME IsSeq(inputUp), NEW v, KeysOk(v), NEW b \in Button, NEW d, NEW o,
         NEW w, w = Input!ButtonEvent(v, b, d, o)
  PROVE  KeysOk(w)
<1>0. IsView(v)
  BY DEF KeysOk
<1>1. PICK x : x = [v EXCEPT !.buttons = IF d THEN @ \cup {b} ELSE @ \ {b}]
  OBVIOUS
<1>2. KeysOk(x)
  <2>1. DOMAIN x = DOMAIN v /\ x.held = v.held /\ x.buttons \subseteq Button /\ x.out = v.out
    BY <1>0, <1>1 DEF IsView
  <2>. QED
    BY <2>1, QuietOk
<1>3. PICK y : y = [v EXCEPT !.menu = FALSE]
  OBVIOUS
<1>4. KeysOk(y)
  <2>1. DOMAIN y = DOMAIN v /\ y.held = v.held /\ y.buttons \subseteq Button /\ y.out = v.out
    BY <1>0, <1>3 DEF IsView
  <2>. QED
    BY <2>1, QuietOk
<1>5. w = v \/ w = y \/ w = Input!SendPointer(x)
  BY <1>1, <1>3 DEF Input!ButtonEvent
<1>. QED
  BY <1>2, <1>4, <1>5, SendPointerOk


\* The App after each of the keys in o is released, starting from v.
Releases(f, v, o) ==
  f = [n \in 0..Len(o) |-> IF n = 0 THEN v ELSE Input!SendKey(f[n - 1], o[n], FALSE)]

\* Releasing the keys of a sequence one by one is defined.
LEMMA ReleasesExist ==
  ASSUME NEW v, NEW o, Len(o) \in Nat
  PROVE  \E f : Releases(f, v, o)
<1>. DEFINE Upto(f, k) == f = [n \in 0..k |-> IF n = 0 THEN v ELSE Input!SendKey(f[n - 1], o[n], FALSE)]
            Bad == {k \in Nat : ~\E f : Upto(f, k)}
<1>1. SUFFICES Bad = {}
  BY DEF Releases
<1>2. SUFFICES ASSUME Bad # {} PROVE FALSE
  OBVIOUS
<1>3. PICK m \in Bad : \A k \in Bad : m <= k
  <2>1. Bad \subseteq Nat
    OBVIOUS
  <2>. HIDE DEF Bad
  <2>. QED
    BY <1>2, <2>1, LeastNumber
<1>4. m \in Nat /\ ~\E f : Upto(f, m)
  <2>. HIDE DEF Upto
  <2>. QED
    OBVIOUS
<1>5. CASE m = 0
  <2>1. PICK f : f = [n \in 0..m |-> v]
    OBVIOUS
  <2>2. Upto(f, m)
    BY <1>5, <2>1
  <2>. HIDE DEF Upto
  <2>. QED
    BY <1>4, <2>2
<1>6. CASE m # 0
  <2>1. m - 1 \in Nat /\ ~(m <= m - 1)
    BY <1>4, <1>6
  <2>2. PICK g : Upto(g, m - 1)
    <3>1. m - 1 \notin Bad
      BY <1>3, <2>1
    <3>. HIDE DEF Upto
    <3>. QED
      BY <2>1, <3>1
  <2>3. \A n \in 0..(m - 1) : g[n] = IF n = 0 THEN v ELSE Input!SendKey(g[n - 1], o[n], FALSE)
    BY <2>2
  <2>4. PICK f : f = [n \in 0..m |-> IF n = m THEN Input!SendKey(g[m - 1], o[m], FALSE) ELSE g[n]]
    OBVIOUS
  <2>5. ASSUME NEW n \in 0..m
        PROVE  f[n] = IF n = 0 THEN v ELSE Input!SendKey(f[n - 1], o[n], FALSE)
    <3>1. CASE n = m
      <4>0. m - 1 \in 0..m /\ m \in 0..m /\ m - 1 # m
        BY <1>4, <2>1
      <4>1. f[m - 1] = g[m - 1] /\ f[n] = Input!SendKey(g[m - 1], o[m], FALSE)
        BY <2>4, <3>1, <4>0
      <4>. QED
        BY <1>6, <3>1, <4>1, Zenon
    <3>2. CASE n # m
      <4>1. n \in 0..(m - 1)
        BY <1>4, <3>2
      <4>2. f[n] = g[n] /\ (n # 0 => f[n - 1] = g[n - 1])
        BY <1>4, <2>4, <4>1
      <4>. QED
        BY <2>3, <4>1, <4>2
    <3>. QED
      BY <3>1, <3>2
  <2>6. f = [n \in 0..m |-> f[n]]
    BY <2>4
  <2>7. Upto(f, m)
    BY <2>5, <2>6
  <2>. HIDE DEF Upto
  <2>. QED
    BY <1>4, <2>7
<1>. QED
  BY <1>5, <1>6

\* Releasing any keys keeps held_ in step with what was sent.
LEMMA ReleasesOk ==
  ASSUME IsSeq(inputUp), NEW v, KeysOk(v), NEW o, Len(o) \in Nat, NEW f, Releases(f, v, o)
  PROVE  KeysOk(f[Len(o)])
<1>0. \A n \in 0..Len(o) : f[n] = IF n = 0 THEN v ELSE Input!SendKey(f[n - 1], o[n], FALSE)
  BY DEF Releases
<1>. DEFINE Bad == {n \in 0..Len(o) : ~KeysOk(f[n])}
<1>1. SUFFICES Bad = {}
  OBVIOUS
<1>2. SUFFICES ASSUME Bad # {} PROVE FALSE
  OBVIOUS
<1>3. PICK m \in Bad : \A k \in Bad : m <= k
  <2>1. Bad \subseteq Nat
    OBVIOUS
  <2>. HIDE DEF Bad
  <2>. QED
    BY <1>2, <2>1, LeastNumber
<1>4. m \in 0..Len(o) /\ ~KeysOk(f[m])
  OBVIOUS
<1>5. CASE m = 0
  BY <1>0, <1>4, <1>5
<1>6. CASE m # 0
  <2>1. m - 1 \in 0..Len(o) /\ ~(m <= m - 1)
    BY <1>4, <1>6
  <2>2. PICK a, b, k : a = f[m - 1] /\ b = f[m] /\ k = o[m]
    OBVIOUS
  <2>3. KeysOk(a)
    BY <1>3, <2>1, <2>2
  <2>4. b = Input!SendKey(a, k, FALSE)
    BY <1>0, <1>4, <1>6, <2>2
  <2>5. KeysOk(b)
    BY <2>3, <2>4, SendKeyOk
  <2>. QED
    BY <1>4, <2>2, <2>5
<1>. QED
  BY <1>5, <1>6

\* release_input keeps held_ in step with what was sent.
LEMMA ReleaseOk ==
  ASSUME IsSeq(inputUp), NEW v, KeysOk(v), NEW w, w = Input!ReleaseInput(v)
  PROVE  KeysOk(w)
<1>1. PICK o : o = Input!SetToSeq(v.held)
  OBVIOUS
<1>2. Len(o) \in Nat
  BY <1>1, InOrder, SeqAppend DEF KeysOk, IsView
<1>3. PICK f : f = CHOOSE g : Releases(g, v, o)
  OBVIOUS
<1>4. Releases(f, v, o)
  BY <1>2, <1>3, ReleasesExist
<1>5. PICK x : x = f[Len(o)]
  OBVIOUS
<1>6. KeysOk(x)
  BY <1>2, <1>4, <1>5, ReleasesOk
<1>7. w = IF v.buttons = {} THEN x ELSE Input!SendPointer([x EXCEPT !.buttons = {}])
  <2>. DEFINE F(g) == g = [n \in 0..Len(o) |-> IF n = 0 THEN v ELSE Input!SendKey(g[n - 1], o[n], FALSE)]
  <2>1. Input!ReleaseInput(v) =
          IF v.buttons = {} THEN (CHOOSE g : F(g))[Len(o)]
          ELSE Input!SendPointer([(CHOOSE g : F(g))[Len(o)] EXCEPT !.buttons = {}])
    BY <1>1 DEF Input!ReleaseInput
  <2>2. f = CHOOSE g : F(g)
    BY <1>3 DEF Releases
  <2>. HIDE DEF F
  <2>. QED
    BY <1>5, <2>1, <2>2
<1>8. PICK y : y = [x EXCEPT !.buttons = {}]
  OBVIOUS
<1>9. KeysOk(y)
  <2>1. DOMAIN y = DOMAIN x /\ y.held = x.held /\ y.buttons \subseteq Button /\ y.out = x.out
    BY <1>6, <1>8 DEF KeysOk, IsView
  <2>. QED
    BY <1>6, <2>1, QuietOk
<1>. QED
  BY <1>6, <1>7, <1>8, <1>9, SendPointerOk


\* The invariant of the viewer's input.  A host that takes no input has no key
\* down, and neither has one that was sent none: a viewer that comes back, or
\* gets its rights again, starts with nothing held.
KeysInv ==
  /\ IsView(view) /\ view.out = <<>> /\ IsSeq(inputUp)
  /\ \A i \in 1..Len(inputUp) : Pointed(inputUp[i])
  /\ live => \A k \in Key : Comes(k, Own, inputUp, Len(inputUp)) => k \in view.held
  /\ hostViewOnly \/ ~sentInput => \A k \in Key : k \notin Own
  /\ ~live => inputUp = <<>> /\ ~sentInput
  /\ OldOk

\* In a session the view is in step with what was sent.
LEMMA KeysNow ==
  ASSUME KeysInv, live
  PROVE  KeysOk(view)
<1>1. inputUp \o <<>> = inputUp
  <2>1. PICK S : inputUp \in Seq(S)
    BY DEF KeysInv, IsSeq
  <2>. QED
    BY <2>1, ConcatEmptySeq
<1>2. PICK s : s = inputUp \o view.out
  OBVIOUS
<1>3. s = inputUp
  BY <1>1, <1>2 DEF KeysInv
<1>4. Knows(view, s)
  BY <1>3 DEF KeysInv, Knows
<1>. QED
  BY <1>2, <1>4 DEF KeysInv, KeysOk

\* A view that is in step keeps the invariant.
LEMMA KeysBecome ==
  ASSUME KeysInv, NEW v, KeysOk(v), Input!Becomes(v), live, live',
         UNCHANGED <<hostViewOnly, sentInput, old, down>>
  PROVE  KeysInv'
<1>1. view' = [v EXCEPT !.out = <<>>] /\ inputUp' = inputUp \o v.out
  BY DEF Input!Becomes
<1>2. IsView(v) /\ Knows(v, inputUp') /\ IsSeq(inputUp) /\ IsSeq(v.out) /\ IsSeq(<<>>)
  BY <1>1, CarriesNothing DEF KeysOk, KeysInv, IsView, Carried
<1>3. IsSeq(inputUp')
  <2>1. PICK o : o = v.out
    OBVIOUS
  <2>. QED
    BY <1>1, <1>2, <2>1, SeqConcat
<1>4. PICK w, s : w = view' /\ s = inputUp'
  OBVIOUS
<1>5. IsView(w) /\ w.out = <<>> /\ w.held = v.held
  BY <1>1, <1>2, <1>4 DEF IsView
<1>6. (\A i \in 1..Len(s) : Pointed(s[i])) /\ \A k \in Key : Comes(k, Own, s, Len(s)) => k \in w.held
  BY <1>2, <1>4, <1>5 DEF Knows
<1>7. Own' = Own /\ OldOk'
  BY DEF Own, OldOk, Input!Lingering, KeysInv
<1>. QED
  BY <1>3, <1>4, <1>5, <1>6, <1>7 DEF KeysInv

\* Everything the user does, and reading AUTH_RESULT, keeps the invariant.
LEMMA KeysUser ==
  ASSUME KeysInv, Input!UseKey \/ Input!UseButton \/ Input!Move \/ Input!OpenMenu \/ Input!OpenChat
                  \/ Input!FocusLost \/ Input!ReadRights, live
  PROVE  KeysInv'
<1>0. KeysOk(view) /\ IsSeq(inputUp) /\ IsView(view) /\ live'
      /\ UNCHANGED <<hostViewOnly, sentInput, old, down>>
  BY KeysNow DEF KeysInv, Input!UseKey, Input!UseButton, Input!Move, Input!OpenMenu, Input!OpenChat,
                 Input!FocusLost, Input!ReadRights
<1>1. CASE Input!UseKey
  <2>1. PICK k \in Key : Input!Becomes(IF live THEN Input!KeyEvent(view, k, k \in touched') ELSE view)
    BY <1>1 DEF Input!UseKey
  <2>2. PICK d : d = (k \in touched')
    OBVIOUS
  <2>3. PICK v : v = Input!KeyEvent(view, k, d)
    OBVIOUS
  <2>4. KeysOk(v)
    BY <1>0, <2>3, KeyEventOk
  <2>5. Input!Becomes(v)
    BY <2>1, <2>2, <2>3
  <2>. QED
    BY <1>0, <2>4, <2>5, KeysBecome
<1>2. CASE Input!UseButton
  <2>1. PICK b \in Button, o \in BOOLEAN :
          Input!Becomes(IF live THEN Input!ButtonEvent(view, b, b \in touched', o) ELSE view)
    BY <1>2 DEF Input!UseButton
  <2>2. PICK d : d = (b \in touched')
    OBVIOUS
  <2>3. PICK v : v = Input!ButtonEvent(view, b, d, o)
    OBVIOUS
  <2>4. KeysOk(v)
    BY <1>0, <2>3, ButtonEventOk
  <2>5. Input!Becomes(v)
    BY <2>1, <2>2, <2>3
  <2>. QED
    BY <1>0, <2>4, <2>5, KeysBecome
<1>3. CASE Input!Move
  <2>1. PICK v : v = Input!SendPointer(view)
    OBVIOUS
  <2>2. KeysOk(v)
    BY <1>0, <2>1, SendPointerOk
  <2>. QED
    BY <1>0, <1>3, <2>1, <2>2, KeysBecome DEF Input!Move
<1>4. CASE Input!OpenMenu
  <2>1. PICK v : v = [view EXCEPT !.menu = ~@]
    OBVIOUS
  <2>2. DOMAIN v = DOMAIN view /\ v.held = view.held /\ v.buttons \subseteq Button /\ v.out = view.out
    BY <1>0, <2>1 DEF IsView
  <2>3. KeysOk(v)
    BY <1>0, <2>2, QuietOk
  <2>. QED
    BY <1>0, <1>4, <2>1, <2>3, KeysBecome DEF Input!OpenMenu
<1>5. CASE Input!OpenChat
  <2>1. PICK r, v : r = Input!ReleaseInput(view) /\ v = [r EXCEPT !.chat = TRUE, !.menu = FALSE]
    OBVIOUS
  <2>2. KeysOk(r)
    BY <1>0, <2>1, ReleaseOk
  <2>3. DOMAIN v = DOMAIN r /\ v.held = r.held /\ v.buttons \subseteq Button /\ v.out = r.out
    BY <2>1, <2>2 DEF KeysOk, IsView
  <2>4. KeysOk(v)
    BY <2>2, <2>3, QuietOk
  <2>. QED
    BY <1>0, <1>5, <2>1, <2>4, KeysBecome DEF Input!OpenChat
<1>6. CASE Input!FocusLost
  <2>1. PICK v : v = Input!ReleaseInput(view)
    OBVIOUS
  <2>2. KeysOk(v)
    BY <1>0, <2>1, ReleaseOk
  <2>. QED
    BY <1>0, <1>6, <2>1, <2>2, KeysBecome DEF Input!FocusLost
<1>7. CASE Input!ReadRights
  <2>1. PICK v : v = [view EXCEPT !.viewOnly = Head(rightsDown)]
    OBVIOUS
  <2>2. DOMAIN v = DOMAIN view /\ v.held = view.held /\ v.buttons \subseteq Button /\ v.out = view.out
    BY <1>0, <2>1 DEF IsView
  <2>3. KeysOk(v)
    BY <1>0, <2>2, QuietOk
  <2>4. PICK w : w = IF v.viewOnly THEN Input!ReleaseInput(v) ELSE v
    OBVIOUS
  <2>5. KeysOk(w)
    BY <1>0, <2>3, <2>4, ReleaseOk
  <2>6. Input!Becomes(w)
    BY <1>7, <2>1, <2>4 DEF Input!ReadRights
  <2>. QED
    BY <1>0, <2>5, <2>6, KeysBecome
<1>. QED
  BY <1>1, <1>2, <1>3, <1>4, <1>5, <1>6, <1>7

\* What the user does while there is no session stays without effect.
LEMMA KeysIdle ==
  ASSUME KeysInv, Input!UseKey \/ Input!UseButton, ~live
  PROVE  KeysInv'
<1>1. Input!Becomes(view) /\ UNCHANGED <<live, hostViewOnly, sentInput, old, down>>
  BY DEF Input!UseKey, Input!UseButton
<1>2. inputUp \o <<>> = inputUp
  <2>1. PICK S : inputUp \in Seq(S)
    BY DEF KeysInv, IsSeq
  <2>. QED
    BY <2>1, ConcatEmptySeq
<1>3. inputUp' = inputUp /\ view' = [view EXCEPT !.out = <<>>]
  BY <1>1, <1>2 DEF Input!Becomes, KeysInv
<1>4. PICK w : w = view'
  OBVIOUS
<1>5. IsView(w) /\ w.out = <<>>
  BY <1>3, <1>4, CarriesNothing DEF KeysInv, IsView, Carried
<1>6. Own' = Own /\ OldOk'
  BY <1>1 DEF Own, OldOk, Input!Lingering, KeysInv
<1>. QED
  BY <1>1, <1>3, <1>4, <1>5, <1>6 DEF KeysInv

\* A viewer that leaves hands its connection over to the host, and has sent nothing on
\* the next one.
LEMMA KeysLeave ==
  ASSUME KeysInv, Input!Leave
  PROVE  KeysInv'
<1>1. /\ live /\ ~live' /\ down' = down /\ inputUp' = <<>> /\ ~hostViewOnly' /\ ~sentInput'
      /\ \E s : old' = Append(old, [toHost |-> s, viewOnly |-> hostViewOnly, sentInput |-> sentInput])
  BY DEF Input!Leave, Input!Left
<1>2. IsView(view') /\ view'.out = <<>>
  <2>1. CASE view' = [Input!ReleaseInput(view) EXCEPT !.menu = FALSE, !.chat = FALSE, !.out = <<>>]
    <3>1. PICK r, w : r = Input!ReleaseInput(view) /\ w = view'
      OBVIOUS
    <3>2. IsView(r)
      BY <1>1, <3>1, KeysNow, ReleaseOk DEF KeysInv, KeysOk
    <3>3. IsView(w) /\ w.out = <<>>
      BY <2>1, <3>1, <3>2, CarriesNothing DEF IsView, Carried
    <3>. QED
      BY <3>1, <3>3
  <2>2. CASE view' \in {view, [view EXCEPT !.held = {}, !.buttons = {}]}
    <3>1. PICK w : w = view'
      OBVIOUS
    <3>2. IsView(w) /\ w.out = <<>>
      BY <2>2, <3>1, FS_EmptySet DEF KeysInv, IsView
    <3>. QED
      BY <3>1, <3>2
  <2>. QED
    BY <2>1, <2>2 DEF Input!Leave
<1>3. ASSUME NEW k \in Key, k \in Own' PROVE FALSE
  <2>1. PICK m : old' = Append(old, m) /\ m.sentInput = sentInput
    BY <1>1
  <2>2. ~Input!Lingering' /\ k \in down
    BY <1>1, <1>3 DEF Own
  <2>0. PICK S : old \in Seq(S)
    BY DEF KeysInv, OldOk
  <2>3. PICK n \in Nat : n = Len(old)
    BY <2>0
  <2>4. /\ DOMAIN old = 1..n /\ DOMAIN old' = 1..(n + 1) /\ old'[n + 1] = m
        /\ \A i \in 1..n : old'[i] = old[i]
    BY <2>0, <2>1, <2>3
  <2>5. ~Input!Lingering /\ ~sentInput
    <3>1. \A i \in 1..(n + 1) : ~old'[i].sentInput
      BY <2>2, <2>4 DEF Input!Lingering
    <3>2. n + 1 \in 1..(n + 1) /\ \A i \in 1..n : i \in 1..(n + 1)
      OBVIOUS
    <3>. QED
      BY <2>1, <2>4, <3>1, <3>2 DEF Input!Lingering
  <2>. QED
    BY <2>2, <2>5 DEF Own, KeysInv
<1>4. OldOk'
  <2>1. PICK S : old \in Seq(S) /\ \A o \in S : IsLeft(o)
    BY DEF KeysInv, OldOk
  <2>2. PICK m : old' = Append(old, m) /\ IsLeft(m)
    BY <1>1 DEF IsLeft
  <2>3. PICK T : T = S \cup {m}
    OBVIOUS
  <2>4. old' \in Seq(T) /\ \A o \in T : IsLeft(o)
    BY <2>1, <2>2, <2>3
  <2>. QED
    BY <2>4 DEF OldOk
<1>. QED
  BY <1>1, <1>2, <1>3, <1>4, CarriesNothing DEF KeysInv, Carried

\* The host applies an input, or ignores one of a viewer without control.
LEMMA KeysHostReads ==
  ASSUME KeysInv, Input!HostReads
  PROVE  KeysInv'
<1>0. inputUp # <<>> /\ live /\ UNCHANGED <<live, view, hostViewOnly, old>> /\ inputUp' = Tail(inputUp) /\ IsSeq(inputUp)
      /\ \A i \in 1..Len(inputUp) : Pointed(inputUp[i])
  BY DEF Input!HostReads, KeysInv
<1>1. Key \cap Button = {}
  BY InputAssumed DEF Input!InputAssumption
<1>2. PICK t : t = Tail(inputUp)
  OBVIOUS
<1>3. /\ IsSeq(t) /\ 1 \in 1..Len(inputUp) /\ Head(inputUp) = inputUp[1]
      /\ \A i \in 1..Len(t) : i + 1 \in 1..Len(inputUp) /\ t[i] = inputUp[i + 1]
  BY <1>0, <1>2, SeqTail
<1>4. \A i \in 1..Len(t) : Pointed(t[i])
  BY <1>0, <1>3
<1>5. ASSUME NEW k \in Key, k \in Own'
      PROVE  (k \in Own /\ ~About(k, inputUp[1])) \/ (About(k, inputUp[1]) /\ inputUp[1].isDown)
  <2>0. ~Input!Lingering /\ Own = down /\ k \in down'
    BY <1>0, <1>5 DEF Own, Input!Lingering
  <2>1. CASE hostViewOnly
    BY <2>0, <2>1 DEF Input!HostReads, KeysInv
  <2>2. CASE ~hostViewOnly
    <3>1. down' = Input!Apply(down, inputUp[1])
      BY <1>3, <2>2 DEF Input!HostReads
    <3>2. k \notin Button /\ Pointed(inputUp[1])
      BY <1>0, <1>1, <1>3
    <3>. QED
      BY <2>0, <3>1, <3>2, ComesApplied
  <2>. QED
    BY <2>1, <2>2
<1>6. ASSUME NEW k \in Key, Comes(k, Own', t, Len(t))
      PROVE  Comes(k, Own, inputUp, Len(inputUp))
  <2>1. PICK e : e = Own'
    OBVIOUS
  <2>2. k \in e => (k \in Own /\ ~About(k, inputUp[1])) \/ (About(k, inputUp[1]) /\ inputUp[1].isDown)
    BY <1>5, <2>1
  <2>3. Comes(k, e, Tail(inputUp), Len(Tail(inputUp)))
    BY <1>2, <1>6, <2>1
  <2>. QED
    BY <1>0, <2>2, <2>3, ComesRead
<1>7. hostViewOnly' \/ ~sentInput' => \A k \in Key : k \notin Own'
  BY <1>0 DEF Input!HostReads, KeysInv, Own, Input!Lingering
<1>8. OldOk'
  BY <1>0 DEF OldOk, KeysInv
<1>. QED
  BY <1>0, <1>2, <1>3, <1>4, <1>6, <1>7, <1>8 DEF KeysInv

\* What the host lifts, or a connection the viewer left does, only takes keys from
\* those the viewer has to know.
LEMMA KeysFewer ==
  ASSUME KeysInv, \A k \in Key : k \in Own' => k \in Own,
         UNCHANGED <<live, view, inputUp, sentInput>>, OldOk',
         (hostViewOnly' <=> hostViewOnly) \/ \A k \in Key : hostViewOnly' => k \notin Own'
  PROVE  KeysInv'
<1>1. ASSUME NEW k \in Key, Comes(k, Own', inputUp, Len(inputUp)) PROVE Comes(k, Own, inputUp, Len(inputUp))
  BY <1>1 DEF Comes
<1>2. hostViewOnly' \/ ~sentInput' => \A k \in Key : k \notin Own'
  BY DEF KeysInv
<1>. QED
  BY <1>1, <1>2 DEF KeysInv

\* The host takes or gives control, and lifts what is down when it takes it.
LEMMA KeysRights ==
  ASSUME KeysInv, Input!ToggleViewOnly
  PROVE  KeysInv'
<1>1. /\ UNCHANGED <<live, view, inputUp, sentInput, old>>
      /\ down' = IF hostViewOnly' /\ sentInput THEN {} ELSE down
  BY DEF Input!ToggleViewOnly
<1>2. \A k \in Key : k \in Own' => k \in Own
  BY <1>1 DEF Own, Input!Lingering
<1>3. \A k \in Key : hostViewOnly' => k \notin Own'
  BY <1>1, <1>2 DEF KeysInv, Own, Input!Lingering
<1>4. OldOk'
  BY <1>1 DEF OldOk, KeysInv
<1>. QED
  BY <1>1, <1>2, <1>3, <1>4, KeysFewer

\* The viewer comes back, whatever the host knows of the connection it left.
LEMMA KeysReconnect ==
  ASSUME KeysInv, Input!Reconnect
  PROVE  KeysInv'
<1>1. /\ inputUp = <<>> /\ ~sentInput /\ view' = [view EXCEPT !.viewOnly = FALSE]
      /\ UNCHANGED <<inputUp, hostViewOnly, sentInput, old, down>> /\ live'
  BY DEF Input!Reconnect, KeysInv
<1>2. Own' = Own /\ \A k \in Key : k \notin Own
  BY <1>1 DEF KeysInv, Own, Input!Lingering
<1>3. PICK w : w = view'
  OBVIOUS
<1>4. IsView(w) /\ w.out = <<>>
  BY <1>1, <1>3 DEF KeysInv, IsView
<1>5. \A k \in Key : ~Comes(k, Own', inputUp', Len(inputUp'))
  BY <1>1, <1>2 DEF Comes
<1>6. OldOk'
  BY <1>1 DEF OldOk, KeysInv
<1>. QED
  BY <1>1, <1>2, <1>3, <1>4, <1>5, <1>6 DEF KeysInv

\* What is left when a connection is reaped.
LEMMA ReapLeaves ==
  ASSUME NEW S, NEW s \in Seq(S), NEW n \in Nat, n = Len(s), NEW i \in 1..n, old = s, Input!Reap(i)
  PROVE  /\ old' \in Seq(S) /\ Len(old') = n - 1
         /\ \A j \in 1..(n - 1) : old'[j] = IF j < i THEN s[j] ELSE s[j + 1]
<1>1. PICK a, b : a = SubSeq(s, 1, i - 1) /\ b = SubSeq(s, i + 1, n)
  OBVIOUS
<1>2. /\ a \in Seq(S) /\ Len(a) = i - 1 /\ b \in Seq(S) /\ Len(b) = n - i
      /\ \A j \in 1..(i - 1) : a[j] = s[j]
      /\ \A j \in 1..(n - i) : b[j] = s[i + j]
  BY <1>1
<1>3. old' = a \o b
  BY <1>1, Zenon DEF Input!Reap, Input!RemoveAt
<1>4. PICK c : c = a \o b
  OBVIOUS
<1>5. /\ c \in Seq(S) /\ Len(c) = n - 1
      /\ \A j \in 1..(n - 1) : c[j] = IF j <= i - 1 THEN a[j] ELSE b[j - (i - 1)]
  <2>1. /\ c \in Seq(S) /\ Len(c) = Len(a) + Len(b)
        /\ \A j \in 1..(Len(a) + Len(b)) : c[j] = IF j <= Len(a) THEN a[j] ELSE b[j - Len(a)]
    BY <1>2, <1>4, ConcatProperties
  <2>2. Len(a) + Len(b) = n - 1
    BY <1>2
  <2>. QED
    BY <1>2, <2>1, <2>2
<1>6. ASSUME NEW j \in 1..(n - 1) PROVE c[j] = IF j < i THEN s[j] ELSE s[j + 1]
  <2>1. CASE j < i
    <3>1. j <= i - 1 /\ j \in 1..(i - 1)
      BY <2>1
    <3>. QED
      BY <1>2, <1>5, <2>1, <3>1
  <2>2. CASE ~(j < i)
    <3>1. PICK h \in 1..(n - i) : h = j - (i - 1) /\ i + h = j + 1
      BY <2>2
    <3>. QED
      BY <1>2, <1>5, <2>2, <3>1
  <2>. QED
    BY <2>1, <2>2
<1>7. old' = c
  BY <1>3, <1>4, Zenon
<1>. QED
  BY <1>5, <1>6, <1>7

\* What happens to a connection the viewer left: it is read, loses or gets its rights,
\* or is reaped.
LEMMA KeysOld ==
  ASSUME KeysInv, NEW i \in DOMAIN old, Input!HostReadsOld(i) \/ Input!ToggleOld(i) \/ Input!Reap(i)
  PROVE  KeysInv'
<1>0. UNCHANGED <<live, view, inputUp, hostViewOnly, sentInput>>
  BY DEF Input!HostReadsOld, Input!ToggleOld, Input!Reap
<1>1. PICK S : old \in Seq(S) /\ \A o \in S : IsLeft(o)
  BY DEF KeysInv, OldOk
<1>2. PICK n \in Nat : n = Len(old) /\ DOMAIN old = 1..n /\ i \in 1..n
  BY <1>1
<1>3. PICK o : o = old[i] /\ IsLeft(o)
  BY <1>1, <1>2
<1>4. ASSUME NEW p, IsLeft(p), old' = [old EXCEPT ![i] = p], o.sentInput => p.sentInput,
             ~p.sentInput => \A k \in Key : k \in down' => k \in down
      PROVE  OldOk' /\ \A k \in Key : k \in Own' => k \in Own
  <2>1. PICK T : T = S \cup {p}
    OBVIOUS
  <2>2. old' \in Seq(T) /\ \A x \in T : IsLeft(x)
    BY <1>1, <1>2, <1>4, <2>1
  <2>3. DOMAIN old' = 1..n /\ \A j \in 1..n : old'[j] = IF j = i THEN p ELSE old[j]
    BY <1>2, <1>4
  <2>4. ~Input!Lingering' => ~Input!Lingering /\ ~p.sentInput
    BY <1>2, <1>3, <1>4, <2>3 DEF Input!Lingering
  <2>. QED
    BY <1>4, <2>2, <2>4 DEF OldOk, Own
<1>5. CASE Input!HostReadsOld(i)
  <2>1. PICK p : p = [o EXCEPT !.toHost = Tail(@), !.sentInput = @ \/ ~o.viewOnly]
    OBVIOUS
  <2>2. IsLeft(p) /\ (p.sentInput <=> o.sentInput \/ ~o.viewOnly)
    BY <1>3, <2>1 DEF IsLeft
  <2>3. old' = [old EXCEPT ![i] = p]
    BY <1>2, <1>3, <1>5, <2>1 DEF Input!HostReadsOld, IsLeft
  <2>4. o.viewOnly => down' = down
    BY <1>3, <1>5 DEF Input!HostReadsOld
  <2>. QED
    BY <1>0, <1>4, <2>2, <2>3, <2>4, KeysFewer DEF KeysInv
<1>6. CASE Input!ToggleOld(i)
  <2>1. PICK p : p = [o EXCEPT !.viewOnly = ~@]
    OBVIOUS
  <2>2. IsLeft(p) /\ p.sentInput = o.sentInput
    BY <1>3, <2>1 DEF IsLeft
  <2>3. old' = [old EXCEPT ![i] = p]
    BY <1>2, <1>3, <1>6, <2>1 DEF Input!ToggleOld
  <2>4. \A k \in Key : k \in down' => k \in down
    BY <1>6 DEF Input!ToggleOld
  <2>. QED
    BY <1>0, <1>4, <2>2, <2>3, <2>4, KeysFewer DEF KeysInv
<1>7. CASE Input!Reap(i)
  <2>1. /\ old' \in Seq(S) /\ Len(old') = n - 1
        /\ \A j \in 1..(n - 1) : old'[j] = IF j < i THEN old[j] ELSE old[j + 1]
    <3>1. PICK s : s = old
      OBVIOUS
    <3>2. s \in Seq(S) /\ n \in Nat /\ n = Len(s) /\ i \in 1..n /\ old = s
      BY <1>1, <1>2, <3>1
    <3>3. /\ old' \in Seq(S) /\ Len(old') = n - 1
          /\ \A j \in 1..(n - 1) : old'[j] = IF j < i THEN s[j] ELSE s[j + 1]
      BY <1>7, <3>2, ReapLeaves
    <3>. QED
      BY <3>1, <3>3
  <2>2. ASSUME ~Input!Lingering', ~o.sentInput PROVE ~Input!Lingering
    <3>1. \A j \in 1..(n - 1) : ~old'[j].sentInput
      BY <2>1, <2>2 DEF Input!Lingering
    <3>2. ASSUME NEW j \in 1..n PROVE ~old[j].sentInput
      <4>1. CASE j = i
        BY <1>3, <2>2, <4>1
      <4>2. CASE j < i
        <5>1. j \in 1..(n - 1)
          BY <1>2, <4>2
        <5>. QED
          BY <2>1, <3>1, <4>2, <5>1
      <4>3. CASE j > i
        <5>1. PICK h \in 1..(n - 1) : h = j - 1
          BY <1>2, <4>3
        <5>2. ~(h < i) /\ h + 1 = j
          BY <1>2, <4>3, <5>1
        <5>. QED
          BY <2>1, <3>1, <5>1, <5>2
      <4>. QED
        BY <1>2, <4>1, <4>2, <4>3
    <3>. QED
      BY <1>2, <3>2 DEF Input!Lingering
  <2>3. down' = IF o.sentInput THEN {} ELSE down
    BY <1>3, <1>7 DEF Input!Reap
  <2>4. \A k \in Key : k \in Own' => k \in Own
    BY <2>2, <2>3 DEF Own
  <2>5. OldOk'
    BY <1>1, <2>1 DEF OldOk
  <2>. QED
    BY <1>0, <2>4, <2>5, KeysFewer DEF KeysInv
<1>. QED
  BY <1>5, <1>6, <1>7

\* Every step of the input keeps its invariant.
LEMMA KeysStep ==
  ASSUME KeysInv, [Next]_vars
  PROVE  KeysInv'
<1>1. CASE UNCHANGED inputVars
  BY <1>1 DEF inputVars, KeysInv, Own, OldOk, Input!Lingering
<1>2. [Next]_vars => (InInput /\ Input!Next) \/ UNCHANGED inputVars
  BY DEF Next, vars, InTransport, InConnection, InLink, InShare, InSaved, InKey
<1>3. CASE Input!Move \/ Input!OpenMenu \/ Input!OpenChat \/ Input!FocusLost \/ Input!ReadRights
  BY <1>3, KeysUser DEF Input!Move, Input!OpenMenu, Input!OpenChat, Input!FocusLost, Input!ReadRights
<1>4. CASE Input!Next
  BY <1>3, <1>4, KeysUser, KeysIdle, KeysLeave, KeysHostReads, KeysRights, KeysReconnect, KeysOld DEF Input!Next
<1>. QED
  BY <1>1, <1>2, <1>4

\* No key is down or held at first.
LEMMA KeysInit == Init => KeysInv
<1>. SUFFICES ASSUME Input!Init PROVE KeysInv
  BY DEF Init
<1>1. IsSeq(<<>>) /\ IsFiniteSet({})
  BY CarriesNothing, FS_EmptySet DEF Carried
<1>2. view = Input!Idle /\ inputUp = <<>> /\ down = {} /\ old = <<>> /\ live
  BY DEF Input!Init
<1>3. IsView(Input!Idle) /\ Input!Idle.out = <<>>
  BY <1>1 DEF Input!Idle, IsView
<1>4. \A k \in Key : k \notin Own /\ ~Comes(k, Own, inputUp, Len(inputUp))
  BY <1>2 DEF Comes, Own
<1>5. OldOk
  <2>1. <<>> \in Seq({})
    OBVIOUS
  <2>. QED
    BY <1>2, <2>1 DEF OldOk
<1>. QED
  BY <1>1, <1>2, <1>3, <1>4, <1>5 DEF KeysInv


\* What comes down on the host is what the messages on their way say.
LEMMA ComingDown ==
  ASSUME KeysInv, ~hostViewOnly, NEW k \in Key, k \in Input!Coming
  PROVE  Comes(k, down, inputUp, Len(inputUp))
<1>. DEFINE N == Len(inputUp)
            F(f, m) == f = [n \in 0..m |-> IF n = 0 THEN down ELSE Input!Apply(f[n - 1], inputUp[n])]
            Bad == {m \in Nat : ~\E f : F(f, m)}
<1>0. N \in Nat /\ k \notin Button /\ \A i \in 1..N : Pointed(inputUp[i])
  BY InputAssumed, SeqAppend DEF KeysInv, Input!InputAssumption
<1>1. Bad = {}
  <2>1. SUFFICES ASSUME Bad # {} PROVE FALSE
    OBVIOUS
  <2>2. PICK m \in Bad : \A i \in Bad : m <= i
    <3>1. Bad \subseteq Nat
      OBVIOUS
    <3>. HIDE DEF Bad
    <3>. QED
      BY <2>1, <3>1, LeastNumber
  <2>3. m \in Nat /\ ~\E f : F(f, m)
    <3>. HIDE DEF F
    <3>. QED
      OBVIOUS
  <2>4. CASE m = 0
    <3>1. PICK f : f = [n \in 0..m |-> down]
      OBVIOUS
    <3>2. F(f, m)
      BY <2>4, <3>1
    <3>. HIDE DEF F
    <3>. QED
      BY <2>3, <3>2
  <2>5. CASE m # 0
    <3>1. m - 1 \in Nat /\ ~(m <= m - 1)
      BY <2>3, <2>5
    <3>2. PICK g : F(g, m - 1)
      <4>1. m - 1 \notin Bad
        BY <2>2, <3>1
      <4>. HIDE DEF F
      <4>. QED
        BY <3>1, <4>1
    <3>3. \A n \in 0..(m - 1) : g[n] = IF n = 0 THEN down ELSE Input!Apply(g[n - 1], inputUp[n])
      BY <3>2
    <3>4. PICK f : f = [n \in 0..m |-> IF n = m THEN Input!Apply(g[m - 1], inputUp[m]) ELSE g[n]]
      OBVIOUS
    <3>5. ASSUME NEW n \in 0..m
          PROVE  f[n] = IF n = 0 THEN down ELSE Input!Apply(f[n - 1], inputUp[n])
      <4>1. CASE n = m
        <5>0. m - 1 \in 0..m /\ m \in 0..m /\ m - 1 # m
          BY <2>3, <3>1
        <5>1. f[m - 1] = g[m - 1] /\ f[n] = Input!Apply(g[m - 1], inputUp[m])
          BY <3>4, <4>1, <5>0
        <5>. QED
          BY <2>5, <4>1, <5>1, Zenon
      <4>2. CASE n # m
        <5>1. n \in 0..(m - 1)
          BY <2>3, <4>2
        <5>2. f[n] = g[n] /\ (n # 0 => f[n - 1] = g[n - 1])
          BY <2>3, <3>4, <5>1
        <5>. QED
          BY <3>3, <5>1, <5>2
      <4>. QED
        BY <4>1, <4>2
    <3>6. f = [n \in 0..m |-> f[n]]
      BY <3>4
    <3>7. F(f, m)
      BY <3>5, <3>6
    <3>. HIDE DEF F
    <3>. QED
      BY <2>3, <3>7
  <2>. QED
    BY <2>4, <2>5
<1>2. PICK c : c = CHOOSE f : F(f, N)
  OBVIOUS
<1>3. F(c, N)
  <2>1. \E f : F(f, N)
    <3>. HIDE DEF F, N
    <3>. QED
      BY <1>0, <1>1
  <2>. HIDE DEF F
  <2>. QED
    BY <1>2, <2>1
<1>4. k \in c[N]
  <2>1. Input!Coming = IF hostViewOnly THEN down ELSE (CHOOSE f : F(f, N))[N]
    BY DEF Input!Coming
  <2>. HIDE DEF F
  <2>. QED
    BY <1>2, <2>1
<1>5. \A n \in 0..N : c[n] = IF n = 0 THEN down ELSE Input!Apply(c[n - 1], inputUp[n])
  BY <1>3
<1>. HIDE DEF F, Bad
<1>. DEFINE Wrong == {n \in 0..N : k \in c[n] /\ ~Comes(k, down, inputUp, n)}
<1>6. Wrong = {}
  <2>1. SUFFICES ASSUME Wrong # {} PROVE FALSE
    OBVIOUS
  <2>2. PICK m \in Wrong : \A i \in Wrong : m <= i
    <3>1. Wrong \subseteq Nat
      BY <1>0
    <3>. HIDE DEF Wrong
    <3>. QED
      BY <2>1, <3>1, LeastNumber
  <2>3. m \in 0..N /\ k \in c[m] /\ ~Comes(k, down, inputUp, m)
    BY <2>2
  <2>4. CASE m = 0
    <3>1. k \in down /\ \A i \in 1..0 : FALSE
      BY <1>5, <2>3, <2>4
    <3>. QED
      BY <2>3, <2>4, <3>1 DEF Comes
  <2>5. CASE m # 0
    <3>1. PICK p \in Nat : p = m - 1
      BY <1>0, <2>3, <2>5
    <3>2. p \in 0..N /\ ~(m <= p) /\ p + 1 = m /\ m \in 1..N
      BY <1>0, <2>3, <2>5, <3>1
    <3>3. PICK e : e = c[p]
      OBVIOUS
    <3>4. k \in e => Comes(k, down, inputUp, p)
      BY <2>2, <3>2, <3>3
    <3>5. k \in Input!Apply(e, inputUp[p + 1])
      BY <1>5, <2>3, <2>5, <3>1, <3>2, <3>3
    <3>6. Pointed(inputUp[p + 1])
      BY <1>0, <3>2
    <3>7. Comes(k, down, inputUp, p + 1)
      BY <1>0, <3>4, <3>5, <3>6, ComesFurther
    <3>. QED
      BY <2>3, <3>2, <3>7
  <2>. QED
    BY <2>4, <2>5
<1>7. N \in 0..N
  BY <1>0
<1>. QED
  BY <1>4, <1>6, <1>7

\* The invariant of the input holds in every behaviour of the composition.
LEMMA KeysKept == Init /\ [][Next]_vars => []KeysInv
<1>1. Init => KeysInv
  BY KeysInit
<1>2. KeysInv /\ [Next]_vars => KeysInv'
  BY KeysStep
<1>. QED
  BY <1>1, <1>2, PTL

\* send_key and release_input, whatever the user, the operator's toggles of the
\* rights, the menu and the network do: a key that is down on the host, or will be, is
\* one the viewer knows to be held, unless the host still has a connection that this
\* viewer left and that pressed something; a viewer may be back long before it is reaped.
THEOREM KeysAreHeld == FairSpec => []KeysAreKnown
<1>1. KeysInv => KeysAreKnown
  <2>1. SUFFICES ASSUME KeysInv, live, ~Input!Lingering, NEW k \in Key, k \in Input!Coming
                 PROVE  k \in view.held
    BY DEF KeysAreKnown, Input!KeysAreKnown
  <2>2. Own = down
    BY <2>1 DEF Own
  <2>3. CASE hostViewOnly
    BY <2>1, <2>2, <2>3 DEF KeysInv, Input!Coming
  <2>4. CASE ~hostViewOnly
    <3>1. Comes(k, down, inputUp, Len(inputUp))
      BY <2>1, <2>4, ComingDown
    <3>. QED
      BY <2>1, <2>2, <3>1 DEF KeysInv
  <2>. QED
    BY <2>3, <2>4
<1>2. FairSpec => Init /\ [][Next]_vars
  BY PTL DEF FairSpec
<1>. QED
  BY <1>1, <1>2, KeysKept, PTL
=============================================================================
