---------------------------- MODULE HostIdentity ----------------------------
(***************************************************************************)
(* What a host is known by: its identity key, which viewers pin, and its   *)
(* ID at the relay (host/main.cpp).  Each is a file that a start reads and *)
(* that the first start makes.  Hosts that share a folder may start at the *)
(* same time, be killed anywhere and find the disk full.                   *)
(***************************************************************************)
EXTENDS Naturals

CONSTANTS
  Host,      \* processes with the same --key-file
  None,      \* no key, or no file
  Part,      \* a file that is too short to be used
  DiskFull,  \* the disk may be full while a file is written
  MaxStarts  \* bound on starts

IdentityAssumption ==
  DiskFull \in BOOLEAN /\ MaxStarts \in Nat /\ None # Part /\ {None, Part} \cap Nat = {}

VARIABLES
  disk,   \* [File -> None, Part or a key]
  at,     \* [Host -> where td_host_main is]
  doing,  \* [Host -> the file it is at]
  own,    \* [Host -> [File -> the key it has]]
  made,   \* keys made so far
  starts,
  shown,  \* history: [File -> the keys that hosts served with]
  hurt    \* history: the files that two hosts made at once, or that found the disk full

vars == <<disk, at, doing, own, made, starts, shown, hurt>>

File == {"host_key", "relay_id"}
NoKeys == [f \in File |-> None]

Init ==
  /\ disk = NoKeys /\ made = 0 /\ starts = 0
  /\ at = [h \in Host |-> "off"] /\ doing = [h \in Host |-> "host_key"] /\ own = [h \in Host |-> NoKeys]
  /\ shown = [f \in File |-> {}] /\ hurt = {}

Start(h) ==
  /\ at[h] = "off" /\ starts < MaxStarts /\ starts' = starts + 1
  /\ at' = [at EXCEPT ![h] = "read"] /\ doing' = [doing EXCEPT ![h] = "host_key"]
  /\ own' = [own EXCEPT ![h] = NoKeys]
  /\ UNCHANGED <<disk, made, shown, hurt>>

\* After the key comes the ID, unless --no-relay; after that the password.
GoesOn(h) ==
  \/ /\ doing[h] = "host_key"
     /\ at' = [at EXCEPT ![h] = "read"] /\ doing' = [doing EXCEPT ![h] = "relay_id"]
  \/ at' = [at EXCEPT ![h] = "ready"] /\ UNCHANGED doing

\* The operators whose comment says "mutant" are wrong on purpose: each is the
\* operator below it with a bug that some property rules out.

UsablePart(f) == disk[f] # None                                         \* mutant
Usable(f) == disk[f] \notin {None, Part}

\* Host h is making file f.
Making(h, f) == at[h] \in {"make", "store"} /\ doing[h] = f

\* load_or_create_*, what there is: all of it, or the start makes its own.
Read(h) ==
  LET f == doing[h] IN
  /\ at[h] = "read"
  /\ IF Usable(f)
     THEN own' = [own EXCEPT ![h][f] = disk[f]] /\ GoesOn(h) /\ UNCHANGED hurt
     ELSE /\ at' = [at EXCEPT ![h] = "make"] /\ UNCHANGED <<doing, own>>
          /\ hurt' = IF \E g \in Host : Making(g, f)
                     THEN hurt \cup {f} ELSE hurt
  /\ UNCHANGED <<disk, made, starts, shown>>

\* A new key, and fopen for writing, which empties the file.
Make(h) ==
  LET f == doing[h] IN
  /\ at[h] = "make" /\ made' = made + 1
  /\ own' = [own EXCEPT ![h][f] = made']
  /\ disk' = [disk EXCEPT ![f] = Part] /\ at' = [at EXCEPT ![h] = "store"]
  /\ UNCHANGED <<doing, starts, shown, hurt>>

\* No key or no file: without the one the host ends, without the other it has no relay.
CannotMake(h) ==
  /\ at[h] = "make"
  /\ IF doing[h] = "host_key" THEN at' = [at EXCEPT ![h] = "off"] ELSE at' = [at EXCEPT ![h] = "ready"]
  /\ UNCHANGED <<disk, doing, own, made, starts, shown, hurt>>

\* mutant: the key is used but not stored
StoreNothing(h) == at[h] = "store" /\ GoesOn(h) /\ UNCHANGED <<disk, own, made, starts, shown, hurt>>

\* fwrite or fprintf only fill a buffer: what fclose cannot write is not noticed.
Store(h) ==
  LET f == doing[h] IN
  /\ at[h] = "store" /\ GoesOn(h)
  /\ \/ disk' = [disk EXCEPT ![f] = own[h][f]] /\ UNCHANGED hurt
     \/ DiskFull /\ hurt' = hurt \cup {f} /\ UNCHANGED disk
  /\ UNCHANGED <<own, made, starts, shown>>

\* The rest of td_host_main: the banner and Server::run.
Serve(h) ==
  /\ at[h] = "ready" /\ at' = [at EXCEPT ![h] = "serving"]
  /\ shown' = [f \in File |-> shown[f] \cup ({own[h][f]} \ {None})]
  /\ UNCHANGED <<disk, doing, own, made, starts, hurt>>

\* A short password, no display to capture, the user's stop, or a kill anywhere.
End(h) ==
  /\ at[h] # "off" /\ at' = [at EXCEPT ![h] = "off"]
  /\ UNCHANGED <<disk, doing, own, made, starts, shown, hurt>>

Next == \E h \in Host : Start(h) \/ Read(h) \/ Make(h) \/ CannotMake(h) \/ Store(h) \/ Serve(h) \/ End(h)
Spec == Init /\ [][Next]_vars

-----------------------------------------------------------------------------
(* Properties.                                                             *)

\* The variables keep to their types.
TypeOK ==
  /\ disk \in [File -> Nat \cup {None, Part}]
  /\ at \in [Host -> {"off", "read", "make", "store", "ready", "serving"}]
  /\ doing \in [Host -> File]
  /\ own \in [Host -> [File -> Nat \cup {None}]]
  /\ made \in Nat /\ starts \in Nat
  /\ shown \in [File -> SUBSET Nat] /\ hurt \subseteq File

\* main.cpp:134 and 168: viewers and the relay know a host by the same key and ID
\* over restarts, also over kills in load_or_create_*, unless two first starts met or
\* the disk was full.
OneIdentity == \A f \in File \ hurt : \A k, l \in shown[f] : k = l

\* What a host serves with is what the next start will read - whole, even when a
\* start before it was killed between fopen and fclose.
NextIsSame ==
  \A h \in Host : at[h] = "serving" =>
    \A f \in File \ hurt : own[h][f] # None => disk[f] = own[h][f]
=============================================================================
