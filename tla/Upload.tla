------------------------------- MODULE Upload -------------------------------
(***************************************************************************)
(* Files dropped on a viewer and saved by the host: queue_upload,          *)
(* pump_uploads and FILE_RESULT in client/app.cpp, begin_upload, the       *)
(* FILE_ messages, finish_upload and the reaping of connections in         *)
(* host/server.cpp.                                                        *)
(*                                                                         *)
(* Abstracted: bytes are counted in chunks; a name is a value, and the     *)
(* name on disk is a name and the number in " (1)"; the reasons to refuse  *)
(* a BEGIN that do not depend on other steps (disabled, too large, fopen)  *)
(* are one choice.  A reconnected viewer is another connection, since both *)
(* sides forget the uploads of the old one.                                *)
(***************************************************************************)
EXTENDS Integers, Sequences, FiniteSets

CONSTANTS
  Conn,        \* connections, all Active at first
  Name,
  Sizes,       \* of files, in chunks
  MaxEvents,   \* bound: files dropped and "/viewonly" in all
  MaxNumber,   \* the host tries numbers up to this one (999)
  Earlier,     \* how many files of a name may be there already
  MaxUploads,  \* uploads at once on a connection (4)
  Window       \* messages waiting in the viewer's transport (1 MB)

UploadAssumption ==
  /\ {MaxEvents, MaxNumber} \subseteq Nat
  /\ Sizes \subseteq Nat /\ Earlier \subseteq Nat
  /\ {MaxUploads, Window} \subseteq Nat \ {0}

VARIABLES
  queue,    \* uploads_ of each viewer
  nextId,   \* next_upload_id_
  viewOnly, \* view_only_, the viewer's
  watching, \* view_only, the host's
  link,     \* the host's connection: "up", "dead", "gone"
  alive,    \* the viewer's side of it
  up, down, \* messages of each connection
  open,     \* uploads of each connection of the host
  disk,     \* cfg_.downloads_dir
  cut,      \* history: uploads whose end was lost when their file was closed
  overwritten, \* history: paths opened when every number was taken
  saved,    \* history: results "Saved to ..." the viewers were shown
  quit,     \* the host stopped
  roles     \* bounded counter

vars == <<queue, nextId, viewOnly, watching, link, alive, up, down, open, disk, cut, overwritten, saved, quit, roles>>

Path == Name \X (0..MaxNumber)
UploadKey == Conn \X (1..MaxEvents)
Absent == [by |-> <<>>, got |-> 0, of |-> 0]     \* no such file
OfEarlier == [by |-> <<"earlier">>, got |-> 1, of |-> 1]
Key(c, id) == <<c, id>>                          \* an upload

Init ==
  /\ queue = [c \in Conn |-> <<>>] /\ nextId = [c \in Conn |-> 1]
  /\ viewOnly = [c \in Conn |-> FALSE] /\ watching = viewOnly
  /\ link = [c \in Conn |-> "up"] /\ alive = [c \in Conn |-> TRUE]
  /\ up = [c \in Conn |-> <<>>] /\ down = up
  /\ open = [c \in Conn |-> {}]
  /\ \E k \in Earlier : disk = [p \in Path |-> IF p[2] < k THEN OfEarlier ELSE Absent]
  /\ cut = {} /\ overwritten = {} /\ saved = {} /\ quit = FALSE /\ roles = 0

MoreEvents == Cardinality({k \in UploadKey : k[2] < nextId[k[1]]}) + roles < MaxEvents

\* The operators whose comment says "mutant" are wrong on purpose: each is the
\* operator below it with a bug that some property rules out.

-----------------------------------------------------------------------------
(* The viewer.                                                             *)

\* queue_upload; the file may grow or shrink after its size was taken, so that
\* reading it yields "real" chunks, and then its end or, from then on, an error.
Drop(c) ==
  /\ alive[c] /\ ~viewOnly[c]
  /\ MoreEvents
  /\ \E n \in Name, size \in Sizes, change \in {-1, 0, 1}, fails \in BOOLEAN :
       /\ size + change >= 0 /\ (fails => change < 0)
       /\ queue' = [queue EXCEPT ![c] = Append(@,
         [id |-> nextId[c], name |-> n, size |-> size, real |-> size + change, fails |-> fails, sent |-> 0,
          begun |-> FALSE, done |-> FALSE])]
  /\ nextId' = [nextId EXCEPT ![c] = @ + 1]
  /\ UNCHANGED <<viewOnly, watching, link, alive, up, down, open, disk, cut, overwritten, saved, quit, roles>>

\* The upload pump_uploads works on: the first that is not all sent.
Current(c) == {i \in DOMAIN queue[c] : ~queue[c][i].done /\ \A j \in 1..(i-1) : queue[c][j].done}

\* The end of the file, found by a read that yields nothing, ends the sending
\* just as the announced size does.
EndIfAll(u, sent, eof) == sent >= u.size                               \* mutant
EndSent(u, sent, eof) == sent >= u.size \/ eof

\* What a turn of pump_uploads sends of a file: its announcement, k chunks, and
\* its end.  The last read of a file that has grown returns more.
More(u, k) == IF k > 0 /\ u.sent + k = u.size /\ u.real > u.size THEN 1 ELSE 0
Announced(u) == IF u.begun THEN <<>> ELSE <<[is |-> "begin", id |-> u.id, name |-> u.name, size |-> u.size]>>
ReadOut(u, k) == [j \in 1..k |-> [is |-> "chunk", id |-> u.id, n |-> IF j = k THEN 1 + More(u, k) ELSE 1]]
Ended(u, end) == IF end THEN <<[is |-> "end", id |-> u.id]>> ELSE <<>>

\* fread yields no more and feof is not set.
Unreadable(u) == u.fails /\ u.sent = u.real /\ ~u.done

\* As many chunks are read as there is room for.  After an error the next turns try
\* again, and the upload stays the one that is worked on.
PumpFile(c, i, k) ==
  LET u == queue[c][i]
      sent == u.sent + k + More(u, k)
      waiting == Len(up[c]) + Len(Announced(u)) + k
      nothing == sent = u.real /\ sent < u.size /\ waiting < Window
      end == EndSent(u, sent, nothing /\ ~u.fails)
  IN
  /\ u.sent + k <= u.size /\ sent <= u.real
  /\ k > 0 => waiting <= Window
  /\ sent >= u.size \/ nothing \/ waiting >= Window
  /\ ~u.begun \/ k > 0 \/ end
  /\ up' = [up EXCEPT ![c] = @ \o Announced(u) \o ReadOut(u, k) \o Ended(u, end)]
  /\ queue' = [queue EXCEPT ![c][i] = [u EXCEPT !.sent = sent, !.begun = TRUE, !.done = end]]

Pump(c) ==
  /\ alive[c]
  /\ \E i \in Current(c) : \E k \in 0..queue[c][i].size : PumpFile(c, i, k)
  /\ UNCHANGED <<nextId, viewOnly, watching, link, alive, down, open, disk, cut, overwritten, saved, quit, roles>>

\* The queue without an upload.
Erased(q, id) ==
  LET at == {i \in DOMAIN q : q[i].id = id}
      i == CHOOSE n \in at : TRUE
  IN IF at = {} THEN q ELSE SubSeq(q, 1, i - 1) \o SubSeq(q, i + 1, Len(q))

\* FILE_RESULT takes the upload off the queue, whether all was sent or not;
\* a further AUTH_RESULT changes what the viewer may do.
Receive(c) ==
  /\ alive[c] /\ down[c] # <<>>
  /\ down' = [down EXCEPT ![c] = Tail(@)]
  /\ LET m == Head(down[c]) IN
     \/ /\ m.is = "role" /\ viewOnly' = [viewOnly EXCEPT ![c] = m.only]
        /\ UNCHANGED <<queue, saved>>
     \/ /\ m.is = "result"
        /\ queue' = [queue EXCEPT ![c] = Erased(@, m.id)]
        /\ saved' = IF m.ok THEN saved \cup {[by |-> Key(c, m.id), path |-> m.path]} ELSE saved
        /\ UNCHANGED viewOnly
  /\ UNCHANGED <<nextId, watching, link, alive, up, open, disk, cut, overwritten, quit, roles>>

\* disconnect_user, on_transport_closed: the uploads are forgotten.
Leave(c) ==
  /\ alive[c]
  /\ alive' = [alive EXCEPT ![c] = FALSE]
  /\ queue' = [queue EXCEPT ![c] = <<>>]
  /\ down' = [down EXCEPT ![c] = <<>>]
  /\ UNCHANGED <<nextId, viewOnly, watching, link, up, open, disk, cut, overwritten, saved, quit, roles>>

\* The viewer learns that the host closed the connection.
SeesClosed(c) == link[c] # "up" /\ Leave(c)

-----------------------------------------------------------------------------
(* The host.                                                               *)

Result(c, id, ok, path) ==
  down' = IF alive[c]
          THEN [down EXCEPT ![c] = Append(@, [is |-> "result", id |-> id, ok |-> ok, path |-> path])]
          ELSE down

NoPath == <<>>
Reject(c, id) == Result(c, id, FALSE, NoPath) /\ UNCHANGED <<open, disk, overwritten>>

NoneFree(n) == \A i \in 0..MaxNumber : disk[<<n, i>>] # Absent

\* begin_upload's path: the first free number, and the last one if none is.
AnyPath(n) == <<n, 0>>                                                 \* mutant
FreePath(n) ==
  IF NoneFree(n) THEN <<n, MaxNumber>>
  ELSE <<n, CHOOSE i \in 0..MaxNumber : /\ disk[<<n, i>>] = Absent
                                        /\ \A j \in 0..(i-1) : disk[<<n, j>>] # Absent>>

Begin(c, m) ==
  \/ Reject(c, m.id)
  \/ /\ ~watching[c]
     /\ Cardinality(open[c]) < MaxUploads /\ \A u \in open[c] : u.id # m.id
     /\ LET p == FreePath(m.name) IN
        /\ open' = [open EXCEPT ![c] = @ \cup {[id |-> m.id, path |-> p, size |-> m.size, got |-> 0]}]
        /\ disk' = [disk EXCEPT ![p] = [by |-> Key(c, m.id), got |-> 0, of |-> m.size]]
        /\ overwritten' = IF NoneFree(m.name) THEN overwritten \cup {p} ELSE overwritten
     /\ UNCHANGED down

\* fwrite: a file that was opened again since is nobody's, and a file that was
\* removed stays removed.
Mixed == <<"mixed">>
Written(p, key, n) ==
  IF disk[p] = Absent THEN disk
  ELSE [disk EXCEPT ![p] = [by |-> IF @.by = key THEN key ELSE Mixed, got |-> @.got + n, of |-> @.of]]

\* finish_upload
Unlink(p) == [disk EXCEPT ![p] = Absent]
Failed(p) == Unlink(p)

\* fclose writes what stdio still holds; whether it could, nobody asks.
Shortened(p) == IF disk[p] = Absent THEN disk ELSE [disk EXCEPT ![p].got = @ - 1]
Close(c, u) ==
  \/ UNCHANGED <<disk, cut>>
  \/ /\ u.got > 0
     /\ disk' = Shortened(u.path)
     /\ cut' = cut \cup {Key(c, u.id)}

Fail(c, u) ==
  /\ disk' = Failed(u.path)
  /\ open' = [open EXCEPT ![c] = @ \ {u}]
  /\ Result(c, u.id, FALSE, NoPath)
  /\ UNCHANGED cut

\* FILE_CHUNK; fwrite may fail
Fits(u, n) == u.got + n <= u.size

Chunk(c, m) ==
  \/ /\ \A u \in open[c] : u.id # m.id
     /\ UNCHANGED <<open, disk, cut, down>>
  \/ \E u \in open[c] :
       /\ u.id = m.id
       /\ \/ Fail(c, u)
          \/ /\ Fits(u, m.n)
             /\ disk' = Written(u.path, Key(c, u.id), m.n)
             /\ open' = [open EXCEPT ![c] = (@ \ {u}) \cup {[u EXCEPT !.got = @ + m.n]}]
             /\ UNCHANGED <<cut, down>>

\* FILE_END
Complete(u) == u.got = u.size

End(c, m) ==
  \/ /\ \A u \in open[c] : u.id # m.id
     /\ UNCHANGED <<open, disk, cut, down>>
  \/ \E u \in open[c] :
       /\ u.id = m.id
       /\ IF Complete(u)
          THEN /\ open' = [open EXCEPT ![c] = @ \ {u}]
               /\ Result(c, u.id, TRUE, u.path)
               /\ Close(c, u)
          ELSE Fail(c, u)

HostTakes(c) ==
  /\ ~quit /\ link[c] = "up" /\ up[c] # <<>>
  /\ up' = [up EXCEPT ![c] = Tail(@)]
  /\ LET m == Head(up[c]) IN
     \/ m.is = "begin" /\ Begin(c, m) /\ UNCHANGED cut
     \/ m.is = "chunk" /\ Chunk(c, m) /\ UNCHANGED overwritten
     \/ m.is = "end" /\ End(c, m) /\ UNCHANGED overwritten
  /\ UNCHANGED <<queue, nextId, viewOnly, watching, link, alive, saved, quit, roles>>

\* "/viewonly": uploads that have begun go on.
ChangeRole(c) ==
  /\ ~quit /\ link[c] = "up" /\ MoreEvents
  /\ roles' = roles + 1
  /\ watching' = [watching EXCEPT ![c] = ~@]
  /\ down' = IF alive[c] THEN [down EXCEPT ![c] = Append(@, [is |-> "role", only |-> ~watching[c]])] ELSE down
  /\ UNCHANGED <<queue, nextId, viewOnly, link, alive, up, open, disk, cut, overwritten, saved, quit>>

\* An end of the connection, an error or a timeout.
Die(c) ==
  /\ ~quit /\ link[c] = "up"
  /\ link' = [link EXCEPT ![c] = "dead"]
  /\ UNCHANGED <<queue, nextId, viewOnly, watching, alive, up, down, open, disk, cut, overwritten, saved, quit, roles>>

\* The end of an iteration: what a dead connection was sending is removed.
NothingRemoved(c) == disk                                              \* mutant
Removed(c) == [p \in Path |-> IF \E u \in open[c] : u.path = p THEN Absent ELSE disk[p]]

Reap(c) ==
  /\ ~quit /\ link[c] = "dead"
  /\ link' = [link EXCEPT ![c] = "gone"]
  /\ disk' = Removed(c)
  /\ open' = [open EXCEPT ![c] = {}]
  /\ up' = [up EXCEPT ![c] = <<>>]
  /\ UNCHANGED <<queue, nextId, viewOnly, watching, alive, down, cut, overwritten, saved, quit, roles>>

\* "/quit" or a signal: run returns without reaping, and the sockets close.
Quit ==
  /\ ~quit /\ quit' = TRUE
  /\ link' = [c \in Conn |-> "gone"]
  /\ UNCHANGED <<queue, nextId, viewOnly, watching, alive, up, down, open, disk, cut, overwritten, saved, roles>>

Next ==
  \/ Quit
  \/ \E c \in Conn : \/ Drop(c) \/ Pump(c) \/ Receive(c) \/ Leave(c)
                     \/ HostTakes(c) \/ ChangeRole(c) \/ Die(c) \/ Reap(c)

Spec == Init /\ [][Next]_vars

\* The transport drains, the host reads and reaps, the viewer handles what
\* arrives and notices a closed connection.
Programs == \E c \in Conn : Pump(c) \/ Receive(c) \/ SeesClosed(c) \/ HostTakes(c) \/ Reap(c)

\* The loops of the programs go round.
FairSpec == Spec /\ WF_vars(Programs)

-----------------------------------------------------------------------------
(* Properties.                                                             *)

Whole(p) == disk[p].by # Mixed /\ disk[p].got = disk[p].of

\* A file is whole, or finish_upload lost its end without noticing.
AsClosed(p) == Whole(p) \/ disk[p].by \in cut

\* A viewer that was told "Saved to ..." finds its file there, its own and not
\* another's, whatever other uploads of the name did before or after, and whole
\* unless the fclose of just this upload failed; all this unless begin_upload ran
\* out of numbers and opened the file again.
SavedIsThere ==
  \A s \in saved : (disk[s.path].by = s.by /\ AsClosed(s.path)) \/ s.path \in overwritten

\* While the host runs, a file on disk is whole or is being received: failed and
\* abandoned uploads leave nothing behind, but those whose fclose failed.
WholeOrReceiving ==
  ~quit => \A p \in Path \ overwritten :
    disk[p] # Absent => AsClosed(p) \/ \E c \in Conn : \E u \in open[c] : u.path = p

\* What must hold for good in the end: no file stays queued; its result arrived or
\* the session ended, even if it changed size while it was sent or the host stopped;
\* unless the first cannot be read any further.
NothingQueued == \A c \in Conn : queue[c] = <<>> \/ Unreadable(Head(queue[c]))
=============================================================================
