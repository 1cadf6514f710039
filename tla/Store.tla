------------------------------- MODULE Store -------------------------------
(***************************************************************************)
(* The viewer's saved PCs and pinned host keys (client/store.cpp): what is *)
(* in memory and in the file, and a program that may be killed anywhere in *)
(* save().  Records are opaque; one program uses the folder; remove and    *)
(* rename, whose results nobody looks at, succeed.                         *)
(***************************************************************************)
EXTENDS FiniteSets, Naturals

CONSTANTS
  Record,     \* PCs, pins, the settings of sharing
  Absent,     \* no such file
  DiskFull,   \* the disk may be full while a file is written
  MaxChanges  \* bound on changes and crashes

StoreAssumption == DiskFull \in BOOLEAN /\ MaxChanges \in Nat /\ \A f \in SUBSET Record : f # Absent

VARIABLES
  pcs,        \* what the Store has in memory
  file, tmp,  \* viewer.tsv and viewer.tsv.tmp
  at,         \* where save() is
  saved,      \* history: what the last save() was to write, or load() found
  short,      \* history: which of "tmp" and "file" lacks what a full disk did not take
  changes

vars == <<pcs, file, tmp, at, saved, short, changes>>

Init ==
  /\ pcs \in SUBSET Record /\ saved = pcs
  /\ file = IF pcs = {} THEN Absent ELSE pcs
  /\ tmp = Absent /\ at = "idle" /\ short = {} /\ changes = 0

\* upsert, remove, trust and forgetting a password are all followed by save(), which
\* gives up if it cannot open the file.
Change ==
  /\ at = "idle" /\ changes < MaxChanges /\ changes' = changes + 1
  /\ \E r \in Record : pcs' = IF r \in pcs THEN pcs \ {r} ELSE pcs \cup {r}
  /\ \/ tmp' = {} /\ at' = "writing" /\ short' = short \ {"tmp"}
     \/ UNCHANGED <<tmp, at, short>>
  /\ UNCHANGED <<file, saved>>

\* save, lines 106-115, one record after the other; a failing write is not noticed.
Write ==
  /\ at = "writing"
  /\ \/ \E r \in pcs \ tmp : tmp' = tmp \cup {r} /\ UNCHANGED <<at, short>>
     \/ pcs = tmp /\ at' = "written" /\ UNCHANGED <<tmp, short>>
     \/ DiskFull /\ at' = "written" /\ short' = short \cup {"tmp"} /\ UNCHANGED tmp
  /\ UNCHANGED <<pcs, file, saved, changes>>

\* The operators whose comment says "mutant" are wrong on purpose: each is the
\* operator below it with a bug that some property rules out.

\* mutant: the file is replaced before all is written
RemoveEarly ==
  /\ at \in {"writing", "written"} /\ at' = "removed" /\ file' = Absent
  /\ UNCHANGED <<pcs, tmp, saved, short, changes>>

\* save, lines 119 and 120.
RemoveOld ==
  /\ at = "written" /\ at' = "removed" /\ file' = Absent
  /\ UNCHANGED <<pcs, tmp, saved, short, changes>>

Rename ==
  /\ at = "removed" /\ at' = "idle" /\ file' = tmp /\ tmp' = Absent /\ saved' = pcs
  /\ short' = IF "tmp" \in short THEN {"file"} ELSE {}
  /\ UNCHANGED <<pcs, changes>>

\* The program is killed, and later started: load.
Restart ==
  /\ changes < MaxChanges /\ changes' = changes + 1
  /\ pcs' = IF file = Absent THEN {} ELSE file
  /\ saved' = pcs' /\ at' = "idle" /\ short' = {}
  /\ UNCHANGED <<file, tmp>>

Next == Change \/ Write \/ RemoveOld \/ Rename \/ Restart
Spec == Init /\ [][Next]_vars

\* Killed anywhere, the program comes back with what it had before the save or
\* with what it was saving, never with a part of it.  There are two exceptions: if a
\* full disk cut the last save short, the part of that save which fitted; and between
\* lines 119 and 120, where there is no file, nothing.
WholeStep ==
  Restart => \/ pcs' \in {saved, pcs}
             \/ "file" \in short /\ pcs' \subseteq saved
             \/ at = "removed" /\ pcs' = {}
NeverHalf == [][WholeStep]_vars
=============================================================================
