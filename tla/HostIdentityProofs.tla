------------------------- MODULE HostIdentityProofs -------------------------
(***************************************************************************)
(* For any number of hosts and starts: a host keeps its key and its ID     *)
(* unless two first starts meet or the disk is full.                       *)
(***************************************************************************)
EXTENDS HostIdentity, TLAPS

\* One host at a time makes a file, and only one that cannot be used.
OneMaker(f) ==
  \A g, h \in Host : Making(g, f) => ~Usable(f) /\ (Making(h, f) => g = h)

\* Who has a key has the one in the file, unless it is still making it.
HasStored(f) ==
  \A h \in Host : at[h] # "off" /\ ~Making(h, f) /\ own[h][f] # None => disk[f] = own[h][f]

\* What was ever served with is in the file.
ShownStored(f) == \A k \in shown[f] : disk[f] = k

\* A host has nothing for the file it reads or makes, nor for those after it.
NotYet(h) ==
  /\ at[h] \in {"read", "make"} => own[h][doing[h]] = None
  /\ at[h] \in {"read", "make", "store"} /\ doing[h] = "host_key" => own[h]["relay_id"] = None

IInv ==
  /\ TypeOK
  /\ \A h \in Host : NotYet(h)
  /\ \A f \in File \ hurt : OneMaker(f) /\ HasStored(f) /\ ShownStored(f)

-----------------------------------------------------------------------------

\* Init establishes the invariant: nobody runs, nothing was served.
LEMMA InitIInv == Init => IInv
<1>. SUFFICES ASSUME Init PROVE IInv
  OBVIOUS
<1>1. TypeOK
  BY DEF Init, TypeOK, NoKeys, File
<1>2. \A h \in Host : NotYet(h)
  BY DEF Init, NotYet, NoKeys, File
<1>3. \A f \in File : OneMaker(f) /\ HasStored(f) /\ ShownStored(f)
  BY DEF Init, OneMaker, HasStored, ShownStored, Making
<1>. QED
  BY <1>1, <1>2, <1>3 DEF IInv

\* Every step keeps the types.
LEMMA TypeStep == TypeOK /\ [Next]_vars => TypeOK'
<1>. SUFFICES ASSUME TypeOK, [Next]_vars PROVE TypeOK'
  OBVIOUS
<1>. USE DEF TypeOK, File
<1>1. ASSUME NEW h \in Host, Start(h) PROVE TypeOK'
  BY <1>1 DEF Start, NoKeys
<1>0. ASSUME NEW h \in Host, GoesOn(h)
      PROVE  /\ at' \in [Host -> {"off", "read", "make", "store", "ready", "serving"}]
             /\ doing' \in [Host -> File]
  BY <1>0 DEF GoesOn
<1>2. ASSUME NEW h \in Host, Read(h) PROVE TypeOK'
  <2>1. CASE Usable(doing[h])
    <3>1. disk[doing[h]] \in Nat
      BY <2>1 DEF Usable
    <3>2. own' = [own EXCEPT ![h][doing[h]] = disk[doing[h]]] /\ GoesOn(h)
      BY <1>2, <2>1 DEF Read
    <3>3. own' \in [Host -> [File -> Nat \cup {None}]]
      BY <3>1, <3>2
    <3>4. UNCHANGED <<disk, made, starts, shown, hurt>>
      BY <1>2, <2>1 DEF Read
    <3>5. /\ at' \in [Host -> {"off", "read", "make", "store", "ready", "serving"}]
          /\ doing' \in [Host -> File]
      BY <1>0, <3>2
    <3>. QED
      BY <3>3, <3>4, <3>5
  <2>2. CASE ~Usable(doing[h])
    <3>1. at' \in [Host -> {"off", "read", "make", "store", "ready", "serving"}]
      BY <1>2, <2>2 DEF Read
    <3>2. hurt' \subseteq File
      BY <1>2, <2>2 DEF Read
    <3>. QED
      BY <1>2, <2>2, <3>1, <3>2 DEF Read
  <2>. QED
    BY <2>1, <2>2
<1>3. ASSUME NEW h \in Host, Make(h) PROVE TypeOK'
  BY <1>3 DEF Make
<1>4. ASSUME NEW h \in Host, CannotMake(h) PROVE TypeOK'
  BY <1>4 DEF CannotMake
<1>5. ASSUME NEW h \in Host, Store(h) PROVE TypeOK'
  <2>0. doing[h] \in File /\ own[h][doing[h]] \in Nat \cup {None, Part}
    OBVIOUS
  <2>1. disk' \in [File -> Nat \cup {None, Part}] /\ hurt' \subseteq File
    <3>1. CASE disk' = [disk EXCEPT ![doing[h]] = own[h][doing[h]]] /\ UNCHANGED hurt
      BY <2>0, <3>1
    <3>2. CASE hurt' = hurt \cup {doing[h]} /\ UNCHANGED disk
      BY <2>0, <3>2
    <3>. QED
      BY <1>5, <3>1, <3>2 DEF Store
  <2>2. GoesOn(h) /\ UNCHANGED <<own, made, starts, shown>>
    BY <1>5 DEF Store
  <2>3. /\ at' \in [Host -> {"off", "read", "make", "store", "ready", "serving"}]
        /\ doing' \in [Host -> File]
    BY <1>0, <2>2
  <2>. QED
    BY <2>1, <2>2, <2>3
<1>6. ASSUME NEW h \in Host, Serve(h) PROVE TypeOK'
  BY <1>6 DEF Serve
<1>7. ASSUME NEW h \in Host, End(h) PROVE TypeOK'
  BY <1>7 DEF End
<1>8. ASSUME UNCHANGED vars PROVE TypeOK'
  BY <1>8 DEF vars
<1>. QED
  BY <1>1, <1>2, <1>3, <1>4, <1>5, <1>6, <1>7, <1>8 DEF Next

\* A host still has nothing for what it has not read or made.
LEMMA NotYetStep ==
  TypeOK /\ (\A h \in Host : NotYet(h)) /\ [Next]_vars => (\A h \in Host : NotYet(h))'
<1>. SUFFICES ASSUME TypeOK, \A h \in Host : NotYet(h), [Next]_vars, NEW g \in Host
              PROVE  NotYet(g)'
  OBVIOUS
<1>. USE DEF TypeOK, File, NotYet
<1>1. ASSUME NEW h \in Host, Start(h) PROVE NotYet(g)'
  BY <1>1 DEF Start, NoKeys
<1>2. ASSUME NEW h \in Host, Read(h) PROVE NotYet(g)'
  BY <1>2 DEF Read, Usable, GoesOn
<1>3. ASSUME NEW h \in Host, Make(h) PROVE NotYet(g)'
  BY <1>3 DEF Make
<1>4. ASSUME NEW h \in Host, CannotMake(h) PROVE NotYet(g)'
  BY <1>4 DEF CannotMake
<1>5. ASSUME NEW h \in Host, Store(h) PROVE NotYet(g)'
  BY <1>5 DEF Store, GoesOn
<1>6. ASSUME NEW h \in Host, Serve(h) PROVE NotYet(g)'
  BY <1>6 DEF Serve
<1>7. ASSUME NEW h \in Host, End(h) PROVE NotYet(g)'
  BY <1>7 DEF End
<1>8. ASSUME UNCHANGED vars PROVE NotYet(g)'
  BY <1>8 DEF vars
<1>. QED
  BY <1>1, <1>2, <1>3, <1>4, <1>5, <1>6, <1>7, <1>8 DEF Next

\* What the invariant says of a file goes on to hold unless it comes to harm.
FileInv(f) == OneMaker(f) /\ HasStored(f) /\ ShownStored(f)

\* Every step keeps what the invariant says of a file that is not hurt.
LEMMA FileStep ==
  ASSUME IdentityAssumption, IInv, [Next]_vars, NEW f \in File \ hurt'
  PROVE  FileInv(f)'
<1>0. f \notin hurt
  BY DEF Next, vars, Start, Read, Make, CannotMake, Store, Serve, End
<1>. /\ TypeOK /\ \A h \in Host : NotYet(h)
     /\ OneMaker(f) /\ HasStored(f) /\ ShownStored(f)
  BY <1>0 DEF IInv
<1>. USE DEF IdentityAssumption, TypeOK, FileInv, OneMaker, HasStored, ShownStored, Making, Usable
<1>1. ASSUME NEW h \in Host, Start(h) PROVE FileInv(f)'
  BY <1>1 DEF Start, NoKeys
<1>2. ASSUME NEW h \in Host, Read(h) PROVE FileInv(f)'
  <2>1. CASE doing[h] = f /\ Usable(f)
    BY <1>2, <2>1 DEF Read, GoesOn, File
  <2>2. CASE doing[h] = f /\ ~Usable(f)
    BY <1>2, <2>2 DEF Read, NotYet
  <2>3. CASE doing[h] # f
    BY <1>2, <2>3 DEF Read, GoesOn, NotYet, File
  <2>. QED
    BY <2>1, <2>2, <2>3
<1>3. ASSUME NEW h \in Host, Make(h) PROVE FileInv(f)'
  <2>1. CASE doing[h] = f
    BY <1>3, <2>1 DEF Make
  <2>2. CASE doing[h] # f
    BY <1>3, <2>2 DEF Make
  <2>. QED
    BY <2>1, <2>2
<1>4. ASSUME NEW h \in Host, CannotMake(h) PROVE FileInv(f)'
  BY <1>4 DEF CannotMake, NotYet
<1>5. ASSUME NEW h \in Host, Store(h) PROVE FileInv(f)'
  <2>1. CASE doing[h] = f
    BY <1>5, <2>1, <1>0 DEF Store, GoesOn, File
  <2>2. CASE doing[h] # f
    BY <1>5, <2>2 DEF Store, GoesOn, NotYet, File
  <2>. QED
    BY <2>1, <2>2
<1>6. ASSUME NEW h \in Host, Serve(h) PROVE FileInv(f)'
  BY <1>6 DEF Serve
<1>7. ASSUME NEW h \in Host, End(h) PROVE FileInv(f)'
  BY <1>7 DEF End
<1>8. ASSUME UNCHANGED vars PROVE FileInv(f)'
  BY <1>8 DEF vars
<1>. QED
  BY <1>1, <1>2, <1>3, <1>4, <1>5, <1>6, <1>7, <1>8 DEF Next

\* The invariant is inductive.
LEMMA NextIInv == IdentityAssumption /\ IInv /\ [Next]_vars => IInv'
<1>. SUFFICES ASSUME IdentityAssumption, IInv, [Next]_vars PROVE IInv'
  OBVIOUS
<1>1. TypeOK'
  BY TypeStep DEF IInv
<1>2. (\A h \in Host : NotYet(h))'
  BY NotYetStep DEF IInv
<1>3. (\A f \in File \ hurt : OneMaker(f) /\ HasStored(f) /\ ShownStored(f))'
  <2>. SUFFICES ASSUME NEW f \in File \ hurt'
                PROVE  OneMaker(f)' /\ HasStored(f)' /\ ShownStored(f)'
    BY DEF File
  <2>. QED
    BY FileStep DEF FileInv
<1>. QED
  BY <1>1, <1>2, <1>3 DEF IInv

\* The invariant holds in every behaviour.
LEMMA SpecIInv ==
  ASSUME IdentityAssumption
  PROVE  Spec => []IInv
<1>1. IInv /\ [Next]_vars => IInv'
  BY NextIInv
<1>. QED
  BY <1>1, InitIInv, PTL DEF Spec

-----------------------------------------------------------------------------

\* The keys and IDs hosts serve with (load_or_create_host_key, load_or_create_relay_id
\* and what follows them in td_host_main) never change but for the two reasons named.
THEOREM IdentityKept ==
  ASSUME IdentityAssumption
  PROVE  Spec => []OneIdentity
<1>1. IInv => OneIdentity
  BY DEF IInv, OneIdentity, ShownStored
<1>. QED
  BY <1>1, SpecIInv, PTL

\* A host that serves finds what it serves with again at its next start.
THEOREM IdentityStored ==
  ASSUME IdentityAssumption
  PROVE  Spec => []NextIsSame
<1>1. IInv => NextIsSame
  BY DEF IInv, NextIsSame, HasStored, Making
<1>. QED
  BY <1>1, SpecIInv, PTL
=============================================================================
