# A TLA+ model of TetherDesk

TetherDesk is a remote-desktop program. A *host* shares its screen and lets
connected *viewers* control it; a *relay* joins the two when neither can accept
connections from the internet. This directory holds TLA+ modules of its
state-bearing parts, TLC configurations that check them on small instances, and
TLAPS proofs, for instances of every size, of all the safety properties that those
runs check.

Paths below are relative to the repository's root, `src/`. `PROJECT.json` lists,
for every definition that models code, the lines it stands for.

    tlc -workers 2 -config RelayPointers.cfg MCRelay.tla     # a run
    tlapm RelayProofs.tla                                    # the proofs

Contents: [1 inventory](#1-the-system) · [2 plan](#2-plan) ·
[3 modules](#3-the-modules) · [4 runs](#4-the-runs) ·
[5 fairness](#5-fairness) · [6 proofs](#6-what-is-proved) ·
[7 findings](#7-where-code-and-documentation-disagree) ·
[8 what is left out](#8-what-is-not-modelled)

## 1. The system

    viewer  <--- WebSocket: secure channel: session messages --->  host
       \                                                          /
        \---- WebSocket ---->  relay  <---- control, data -------/

Host and relay are each one thread around `poll`, plus, on the host, a capture
thread and the encoder's worker pool. The viewer is one thread that draws,
handles events and drains its transport once a frame. All asynchrony is
therefore between programs, between a program and its sockets, and inside the
host's two small multithreaded parts.

| Component | State it keeps | Operations | Interacts with |
|---|---|---|---|
| Relay `relay/relay.cpp` | connections (kind, peer, queues), `g_hosts` (ID to key and control channel), `g_tickets` (ticket to waiting viewer) | register a host, ask for a host, answer with a data channel, forward, close, time out, reap | WebSockets of hosts and viewers; raw pointers between its own connections |
| Host sessions `host/server.cpp` | `conns_`, failures per address, recent failures, password, viewer list | accept, upgrade, handshake, password check, input, chat, kick, view-only, time out, reap | platform input; shares `conns_` with everything below |
| Host link to the relay `server.cpp` 193-271, 303-377 | control connection, back-off, online flag | connect, keep alive, open a data connection, reconnect | relay; host sessions |
| Screen streaming `server.cpp` 835-935, `app.cpp` 461-604 | per viewer: shadow, `tile_q`, frame id, acknowledged id, size; on the viewer: frame buffer, size | capture, compare and send, acknowledge, refresh, resize, refine | capture thread through the frame slot; encoder |
| Automatic quality `server.cpp` 898-916 | effective rate, quality, stalls, clean windows | one window a second, SETTINGS | streaming |
| Display and resolution choice `server.cpp` 698-725, 918-935; `app.cpp` | capturer's display and resolution; each viewer's idea of them | press a button, SETTINGS, switch, DISPLAY_INFO | streaming, all viewers |
| Worker pool, tile encoder `host/encoder.cpp` | job pointer, generation, pending count, two condition variables; atomic tile and refinement counters | `run_all`, `encode`, destructor | streaming |
| Clipboard `server.cpp` 745-754, 939-954; `app.cpp` | clipboards and last text seen or received, on each side | copy, poll, send, pass on | operating system |
| File upload `app.cpp` 724-797; `server.cpp` 776-803, 1062-1119 | queue of the viewer; open files of the host; download folder | BEGIN, CHUNK, END, RESULT, abandon | disk, session end |
| Viewer session `client/app.cpp` | phase, remembered password, reconnection count | connect, verify host, authenticate, drop, retry | transport, store |
| Transports `client/transport_*.cpp` | addresses still to try, deadlines, close reason | connect, poll, close | sockets |
| Secure channel `common/rd_secure.c` | keys, message counters | handshake, seal, open | above WebSocket |
| WebSocket, buffers `common/rd_ws.c`, `rd_bytes.c` | partial frame and message | next message, append, read | every connection |
| Codec `common/rd_codec.c` | none | encode and decode a tile | encoder, viewer |
| Store `client/store.cpp` | saved PCs, pinned host keys | load, save, pin | disk |
| Host start `host/main.cpp` | options; identity key and relay ID, each a file | read or make key and ID, serve | disk; viewers' pins; relay |
| Host process, service `client/host_process.cpp`, `host_service.cpp`, `quicksupport.cpp` | child process, watchdog's mutex, connected names | start, restart, stop, read the host's log | operating system |

What makes each correct:

- **Relay.** Pointers between connections never dangle whoever dies first; a
  viewer talks only to the host it asked for; an ID stays with the key that holds
  it; frames arrive once, in order, also those sent before the pairing; memory is
  bounded; every waiting viewer gets an answer and both ends of a pairing go.
- **Host sessions.** Capacity holds whichever way viewers come; a guesser gets a
  bounded number of attempts over any number of parallel connections; no key
  stays down for a viewer that left or lost control; the list of viewers is
  current; sockets of non-viewers are freed.
- **Streaming.** The shadow is what the viewer will show once all on its way has
  arrived; no frame meets a buffer of another size; the window counts exactly
  what is on its way; a still screen is in the end shown exactly.
- **Worker pool, encoder.** The closure of a job is not used after `run_all`
  returns; no wake-up is lost; no two threads hold one tile; every changed tile
  is sent.
- **Display choice, clipboard.** After messages that crossed, both sides agree,
  and they stop answering each other.
- **Uploads.** A file reported as saved is there, stays and is whole; an abandoned one
  leaves nothing; no file waits for ever. (Two of these have exceptions in the code:
  section 7.)
- **Viewer.** The password is proved to the pinned host only, a refused one is not
  tried again by itself, dialogs say what is the case, a dropped session is live
  again or given up, a key that is down on the host is known to be held, but for what
  a lost connection left down.
- **Links.** Every attempt to connect ends, with the true reason; the host is on
  line again once its relay answers.
- **Secure channel, framing, codec.** What is accepted is what the other end of
  this session said, in order, up to the first deviation; messages do not depend on
  how the stream was cut; what is decoded is what was encoded.
- **Host start.** A host has the same key and ID at every start.
- **Store, sharing.** A save that is cut short leaves one version or the other; what
  the switch shows is what runs.

What is hard about it: connections that die at any point of any exchange, and are
found dead only later; raw pointers between such connections; state on both ends
of a connection that is updated by messages crossing on the way; state shared
between viewers (the display, the keys that are down, the download folder);
timers that race late answers; and a lock-and-condition protocol written by hand.
`PROJECT.json` lists these hazards one by one at their lines, with the property
that covers each, or the reason why none does.

## 2. Plan

Modules in the order of their importance to the system, all written, and where
their safety properties are proved.

| # | Modules | Proved in | To prove next |
|---|---|---|---|
| 1 | `Relay` | `RelayProofs` | - |
| 2 | `RunAll`, `WorkerPool`, `TileEncoder` | `DataPathProofs` | - |
| 3 | `HostSession` | `HostSessionProofs` | - |
| 4 | `FrameStream` | `FrameStreamProofs` | - |
| 5 | `AdaptiveQuality`, `DisplayChoice`, `ClipboardSync`, `Upload`, checked together as `SessionFeatures` | `SessionFeaturesProofs` | - |
| 6 | `Channel`, `SecureChannel` | `DataPathProofs` | - |
| 7 | `ViewerApp`, `ViewerInput`, `NativeTransport`, `Store`, `HostIdentity`, checked together with `HostRelayLink` and `Sharing` as `Endpoints` | `EndpointsProofs`, `HostIdentityProofs` | the other two have liveness properties only |
| 8 | `WsReader`, `TileCodec`, `Lz`, checked with 2 and 6 as `DataPath` | `DataPathProofs` (framing), `CodecProofs` | - |

Modules that share no variable of the programs share a run (`SessionFeatures`,
`Endpoints`, `DataPath`): a variable `subject` says which is followed, the others
rest in one of their initial states, so that every behaviour of each is there and
none is interleaved with behaviours it cannot influence. The project is kept to
dozen runs, so that checking all of it stays a matter of minutes.

Abstract specifications: `RunAll` (what `run_all` promises: `WorkerPool` is shown
to implement it, `TileEncoder` is built on it) and `Channel` (what one direction of
a sealed session promises: `SecureChannel` is shown to implement it twice).

## 3. The modules

In every module one action is one handler, or one branch of it, from entry to
return with all calls that change state. Where several connections are served by
one loop, their actions interleave freely, which includes every order the loop
can serve them in. "History" variables are read by no guard of the program and
exist so that properties can speak of the past. Operators marked `mutant` are
deliberately wrong variants of the operator that follows; they are used only to
confirm that a property notices the bug, and nothing refers to them.

### `Relay` (relay/relay.cpp)

A member of `Conn` is one `Conn` object, accepted and freed once, so that a
pointer to a freed object is not mistaken for its successor. `kind`, `dead`,
`closing`, `id`, `ticket`, `peer`, `pending`, `out` are its fields; `owner`, `ctl`
are `g_hosts`, `waiting` is `g_tickets`.

`HostRequest`, `ViewerRequest`, `ViewerRefused`, `DataRequest`, `PlainRequest` are
the ways through `handle_http`; frames pipelined behind an upgrade are handled
inside the same call, before any other connection is looked at (`turn`,
`Pipelined`). `Receive` is `read_conn` with `handle_ws_message` for a batch of
messages and, possibly, a CLOSE or a lost socket behind them; `Flush` is the
socket accepting output; `Kill` is `kill_conn`; `HttpTimeout`, `AnswerTimeout`,
`IdleTimeout` are the three timers; `Reap` erases the dead, all at once.

Abstracted: frames are numbered instead of carrying bytes, so queue limits count
frames; a timer may fire whenever its other conditions hold; pings, pongs and
HTTP bodies are left out, as is the limit of connections per address. Tickets are
128 random bits: a client uses only a ticket it was sent (`known`), drawn once
(`issued`).

### `HostSession` (host/server.cpp)

`Conn::state` with `dead`, `close_after_flush`, a flag for output not yet sent;
failures and lockouts per address; the failures of the last minute; what every
viewer was last told about the others (`roster`); who pressed what is down
(`holder`). Actions: accept or relayed data connection, upgrade, HELLO, AUTH (with
lockout, global pause, capacity and password in the code's order), input,
view-only, kick, password change, CLOSE, failure of the socket at any moment, both
timers, flush, reaping.

Abstracted: cryptography (an AUTH proves one password, or none), clocks, the
link to the relay (a data connection it asks for simply opens).

### `FrameStream`, `AdaptiveQuality`

`FrameStream` is one viewer's stream: the frame slot, `maybe_send_frame`, the
messages in both directions, `on_frame`. A tile is a content and the level it was
sent at. Sequence numbers become `fresh` (the newest frame differs from the one
encoded last); the rate limit and the send queue's limit may refuse a frame at
any time (`Wait`), since they depend on the clock and on the network alone. The
refinement takes any subset of the size of the budget, since the worker threads
race for it. The first DISPLAY_INFO has the size of a frame, of the display where there
is no frame yet, or 0. Of `adapt_quality` there is what the pictures depend on
(`Adapt`): a second with no stall (`Smooth`) restores the colours and then the rate; one
is congested only after a new frame had to wait for another on its way (`stalled`), and
lowers the colours only when the rate is at its lowest (`slow`). How many stalls that
takes is left open here; `AdaptiveQuality` counts.

`AdaptiveQuality` is `adapt_quality` window by window, with the code's numbers;
the counters of a window are reduced to the three cases the code distinguishes.

### `RunAll`, `WorkerPool`, `TileEncoder`

`RunAll` says what callers rely on: in a call every index runs once, and the call
returns when all have. `WorkerPool` has the mutex's critical sections as actions,
waits that release it, spurious wake-ups and the destructor. The closure lives on
the caller's stack, so a worker that runs it outside a call is a use after free:
that is `JobAlive`. `TileEncoder` is `encode` over `RunAll`: chunks taken from an
atomic counter, the refinement budget from another.

### `DisplayChoice`, `ClipboardSync`, `Upload`, `SessionFeatures`

Each of the first three has both ends and the two queues between them, per viewer.
`SessionFeatures` instantiates them and `AdaptiveQuality` (section 2).

`DisplayChoice`: SETTINGS carries the viewer's own idea of display and sharpness
whatever button was pressed; the host switches when it differs from what it
shares; all active viewers are told with the next frame. All displays have one
size: that is the hard case, since then only the reset in `switch_display` makes
`maybe_send_frame` send DISPLAY_INFO.

`ClipboardSync`: three memories (`last_clip_`, `last_local_clip_`,
`last_remote_clip_`) keep a text from being sent back. In a behaviour that is
`orderly` a text is copied when the last has arrived; otherwise copies cross.

`Upload`: files are counted in chunks; a file may turn out longer or shorter than
announced, or not to be readable from some chunk on (`Unreadable`: `fread` yields
nothing and `feof` is not set); a write may fail on the host, and so may `fclose`, which
writes what stdio still holds and whose result nobody looks at (`Close`; `cut` remembers
whose file lost its end that way); the host may stop; the folder may have files of the
name from before. The host's table of uploads, the
disk and the viewer's queue are separate, so that a result may arrive after the
viewer gave up.

### `ViewerApp`, `ViewerInput`, `NativeTransport`, `Endpoints`

`ViewerApp` is the viewer's connection: `phase_`, screen, dialog, the transport's
state as `tick` sees it, the target and the saved PC, the pinned key, attempts and
the time of the next one. The functions of `App` are operators on that record
(`FailConnect`, `StartConnect`, `SendAuth`, `OnTransportClosed`, ...), so that an
action is the whole of what one event makes of it, through all its calls; `Tick` is
`tick` up to the features of a session: a batch of messages, the HELLO, the end of
the connection. The user may press any button a dialog shows, at any time it is
shown, also when the connection it was about is gone. The host answers as
`handle_message` does, may lock the viewer out, drop the connection, and come back
with another key, password or version. Host addresses are one: a viewer of several
PCs differs in nothing.

`ViewerInput` has `held_`, `buttons_`, `view_only_`, `menu_open_` and `chat_open_`
against what is down on the host, with messages on their way in both directions:
keys, KEY messages and AUTH_RESULTs that take and give rights cross. When the viewer
leaves or its connection is lost, the host still has that connection (`old`), with any
part of what was on its way: it goes on reading it, may change its rights, and lifts
what is down when it reaps it, at once or up to 45 s later. The viewer may be back
(`Reconnect`) before that, several times over.

`NativeTransport` is `poll` of `transport_native.cpp`: addresses in turn, ten
seconds for all together, TLS, the upgrade, messages up to the CLOSE or the end of
the stream. Time is counted in units (`TcpLimit`, `TlsLimit`).

### `HostRelayLink`, `Sharing`, `Store`

`HostRelayLink` is the control connection as `run`, `maintain_relay` and
`finish_relay_upgrade` see it, with its three clocks and the back-off; the relay
stops, comes back, has the ID in use by another, or loses the connection without
telling. Time passes only when the loop has nothing to do (`Due`): it turns several
times a second, and the units are seconds.

`Sharing` is Windows': the program's switch, the Run value, the watchdog's mutex
and its events, the watchdog's two waits, the hosts and the password file. The half
second that `service_uninstall` waits is a state of the program (`todo`); with
`Prompt` other processes start and end within it, without it they may take longer.

`Store` is `save` record by record, with the removal and the rename as steps of
their own; the program may be killed at each. With `DiskFull`, as in the run, a write
may fail, which the code does not notice (`short` remembers which file lacks
something). That `remove` or `rename` fails is not modelled; their results are not
looked at either.

### `HostIdentity`

`load_or_create_host_key` and `load_or_create_relay_id` of hosts that share a
folder, as a watchdog's host and the program's do, or one started by hand: read,
make a key and empty the file (`Make`), write and close (`Store`), serve. A host may
end before, between and after these steps. A file that is too short to be used is
`Part`; with `DiskFull` the close may fail to write, which the code does not notice.
`hurt` remembers the files that two hosts made at once or that a full disk cut off;
`shown` the keys that were served with, which viewers may have pinned.

### `Channel`, `SecureChannel`

`Channel` is the promise: messages of this session's sender, once and in order,
until the reader gives up. `SecureChannel` has the two HELLOs, the keys as the
transcript both ends hashed (`th`), and the two counters per end. A sealed message
is a record of key, direction, counter and body; it opens under its own key,
direction and counter only: the primitives are taken to be ideal. The path may
lose, repeat, swap and alter messages and bring up any sealed message it has ever
carried, of this or an earlier connection and of either direction; the HELLOs may
be altered too, after which the keys differ and nothing opens.

### `WsReader`, `TileCodec`, `Lz`, `DataPath`

`WsReader` counts bytes: a frame is its header's fields, the buffer is a length,
and what matters of a payload is whose it is and whether it has been XORed. A
read ends at any byte; those between two sizes the code compares with are
equivalent, so `Places` has the sizes and their neighbours. Besides the frames
both programs write there are fragments, control frames between them, and frames
that break each rule. `Meaning` is what the stream says, without buffer or reads: the
frames that close a message (`Closing`), in order, each with the payloads of its
message. Sums over frames are functions of the number of frames (`Totals`), and the
assembly keeps its length beside its parts, as `rd_buf` does.

`Lz` is `rd_lz_compress` and `rd_lz_decompress`, one turn of a loop per action: the
hash table with one candidate per slot, the search that speeds up, matches extended
both ways, lengths in a nibble and in runs of full bytes, the two bytes of an offset
and its limit, and what `rd_lz_bound` asks for. The hash is any function of the four
bytes (`SlotOf`). The constants are smaller than the code's (a nibble of 2, a full byte
of 2, so that an offset is at most 8; 1 and 5 for the 5 and 12 bytes at the end), the
minimal match of 4 is the code's, so that blocks of ten symbols meet every case; a few
longer ones repeat a part that is too far away to be told. Which hash, which blocks and
which colours are constants of `DataPath`, about which the proofs know only what `Lz`
and `TileCodec` assume; `MCDataPath` has the ones that TLC checks.

`TileCodec` is `rd_encode_tile` and `rd_decode_tile`: rounding, palette, packed
indices, decorrelated and predicted channels, each undone. Bytes have four bits, so
that sums wrap and several indices share a byte in a tile of 3 x 2. What the code does
in place - the palette that grows, the indices that are put into bytes, the samples
that are restored - is a recursive function of the number of pixels done.

## 4. The runs

All runs together take about ten minutes on two cores. A bound named `Max...` that
is not a constant of the code only limits how often an environment acts.

| Run | Question | Instance, and why it is enough |
|---|---|---|
| RelayPointers | Is every pointer live, mutual and of the right kind, one control channel per ID, every waiting viewer findable (`PointersAgree`); does a viewer meet the host it asked for, and an ID stay with its key? | 4 connection objects, 3 at once, 2 keys, 2 tickets: a host, its reconnected second control channel or a stranger, a viewer and a data channel; reaping makes room for the fourth |
| RelayDelivery | Is nothing lost, repeated or reordered; is memory bounded; is each waiting viewer answered; do both ends of a pairing go? | one pairing, limits of 1, up to 4 messages from each end, so that every limit is hit from both sides; fairness of section 5 |
| DataPath | *Pool:* is the closure alive whenever used, does each call run every index once and return, does the destructor return? *Tiles:* no tile in two hands, viewer and shadow agree between calls, what is owed is sent. *Codec, compression:* is what comes out what went in, and does it fit the buffer? *Sealing:* is each direction a `Channel`, and is nothing refused that was left alone? *Framing:* are the messages those of the stream? | 3 workers and the caller, 3 calls: a late worker can meet the next call and the one after; 3 threads, 3 tiles in chunks of 2, so that the last chunk is partial, 2 calls, the second of which can refine what the first sent coarsely; every 3 x 2 tile of four colours, lossless and rounded, with more colours than the palette holds; every block of up to 10 symbols, and 16 longer ones; 2 connections, 2 faults, so that one can undo or hide the other; 3 frames of lengths with short and long headers, cut anywhere |
| HostEntry | Capacity; wrong passwords are bounded per address and per minute | parallel connections for fewer places, one of them relayed; 2 addresses |
| HostViewers | An input that is down belongs to a viewer that is there and in control; the roster is current; sockets are freed, inputs released | 2 connections, operator commands, fairness of section 5 |
| FrameStream | Shadow is view; at rest the picture is exact; no frame before its size; the window counts what is on its way; the exchange comes to rest | sizes of 1 and 2 tiles, window of 2, ids modulo 6 so that they wrap; one request or restart; both a screen that keeps its size while it is captured and one that does not |
| SessionFeatures | Quality: rate before colour. Clipboard: each text reaches everyone in control and nobody else. Displays: each viewer marks what is shared. Uploads: what was saved is there, no half files. All: it comes to rest (`ComesToRest`) | the code's frame rates; 3 viewers, one view-only, 3 copies of 3 texts; 2 viewers, 4 connections, presses or role changes in all, one display that may fail to start; 2 connections, 2 files of one name, empty or of 2 chunks (and 1 more or less when read), numbers up to 1 with number 0 taken or not: the second upload gets the next number, or collides when the numbers run out |
| Endpoints | *Connection:* the password goes to the pinned host only and a refused one to nobody, dialogs tell the truth, a dropped session is resolved. *Input:* keys that are down are known. *Transport:* reasons are true, attempts end. *Link:* on line again. *Sharing:* it comes to what was asked for. *Saved PCs, host's key:* no half file by a kill, always the same key | 2 keys and passwords of the host, 2 retries, 5 events of user and surroundings, so that a session can be made, dropped and meet a changed host; 2 keys (one of them Esc), a button and 5 inputs: a press, a lost connection, a return before the host has reaped it, and two more; 3 addresses of which 2 are tried, each behaving in 4 ways; 3 faults of relay and network against a back-off that doubles twice; 2 watchdogs, 2 passwords, 6 acts; 3 records, 5 changes or crashes on a disk that may be full; 2 hosts of one folder, 3 starts: two that meet or are killed and one that shows what became of it |
| HostRelease, FrameSharper, DisplayStart, SharingSlow | Section 7 | the smallest that shows the disagreement |

Properties worth a remark:

- `OnlyOwnersRelease`, `SharperTakesEffect`, `StartedDisplayShared` and `Settles` (of
  `SharingSlow`) are *refuted*: see section 7.
- `FrameSharper` has no setting but Medium and Lossless and no frame after the first,
  so that the trace is the one of its finding: SETTINGS with Medium, a frame, SETTINGS
  with Lossless, and a screen at rest with coarse tiles.
- `KeptOnDisk` is `NeverHalf` of `Store` and `OneIdentity` and `NextIsSame` of
  `HostIdentity`. The latter two except files that two first starts made at once or
  that met a full disk: the first makes a host serve with a key that another has
  overwritten, the second with a key nobody stored (section 7). `NeverHalf` excepts a
  kill between lines 119 and 120, which leaves no file, and what a full disk cut off
  the last save. No other kill is excepted.
- `ShadowIsView`, `FramesFit`, `QuietIsExact` and `BecomesQuiet` leave out screens
  that change size while they are captured: `send_display_info` reads the frame
  slot again (`Announce`), so that the size announced and the size encoded may
  differ. `FlowControl` holds there too.
- `InSync` is stated for texts that arrive one at a time and are not copied twice:
  see the end of section 7.
- `RosterCurrent` allows a viewer that is gone to stay listed until it is reaped,
  because the list is sent when it is reaped.
- `Agreement` excepts a viewer whose own request was refused: it marked the
  display it asked for at once, the host says only "Could not switch display" in a
  notice. The text tells the user; the mark stays.
- `SavedIsThere` and `WholeOrReceiving` except paths that were opened when all
  numbers up to 999 were taken: `begin_upload` then opens the last one whatever is
  there. Both say "whole" of a file whose own `fclose` did not fail (`AsClosed`), and
  `NothingQueued` excepts a queue whose first file can no longer be read (`Unreadable`):
  in both cases the code goes wrong, see section 7. `WholeOrReceiving` is stated of a
  running host, since a host that stops does not reap.
- Deadlock is not checked: every bounded model stops when its environment has
  used up its bounds. That threads do not block each other is `PoolPromise`, and the
  liveness properties elsewhere.
- `ComesToRest` and `AttemptsEnd` join the ends of several modules in one formula,
  because each temporal formula costs TLC a graph of its own; the parts are named in
  the modules (`Restored`, `AtRest`, `Settled`, `NothingQueued`; `DropResolved`,
  `ConnectEnds`, `BackOnline`).
- `KeysAreKnown` is about keys: buttons are corrected only by the next motion. It
  says nothing while the host has a connection the viewer left and that pressed
  something (`Lingering`): the viewer then does not know the keys, see section 7. Nor
  does it cover a connection that the host ends first, which lifts all that is down.
- `TellsTheTruth` takes the wire to lose nothing that was sent before an end, and has one
  reason for all errors of the operating system at the same place.
- `ConnectEnds` excepts a server that takes the connection and never answers the
  upgrade, `BackOnline` asks for a relay that is up from some time on: see section 7.
- `SharingSettles` is `Settles` where processes start and end within the half second
  that `service_uninstall` waits; where they do not, it is refuted.
- Symmetry is used in safety runs only, over sets no definition distinguishes.

## 5. Fairness

Liveness is checked under weak fairness of what the programs do by themselves:

- **Relay:** the loop looks at every connection in every iteration: it goes on
  reading what is pipelined, its timers are evaluated, it reaps. `Flush` is fair
  because a socket with output either drains or fails, and a paired connection
  that does neither is ended by the 90 s timer.
- **HostSession:** timers and reaping.
  Draining of sockets is *not* assumed: the timers alone must free a slot.
- **WorkerPool:** threads that can run do. Nothing is assumed of callers.
- **FrameStream, ClipboardSync, DisplayChoice, Upload:** each program's loop turns
  and TCP delivers in order or the connection ends. Users, the operator, failures
  and, except after a restart, the capturer are never assumed to act.
- **AdaptiveQuality:** windows end, because the loop calls it continuously.
- **ViewerApp, NativeTransport:** `tick` runs once a frame, the transport's connect
  ends in one way or the other, the host reads or its handshake timer ends the
  connection. The user is never assumed to act.
- **HostRelayLink:** the loop turns and time passes.
- **Sharing:** the processes go on; nobody is assumed to press anything, and hosts
  fail only as often as the bound lets them.

## 6. What is proved

Every safety property that a passing run checks is a theorem, for all values of the
constants that satisfy the module's named assumption. The
assumptions say that null values are not members and that limits are natural
numbers; those that say more are named below. `EndpointsProofs`,
`SessionFeaturesProofs` and `DataPathProofs` treat the modules joined there one after
another: a first lemma says that a step of the whole is a step of the part or leaves
it alone, and the rest speaks of the part.

An invariant of a run is seldom inductive. For each there is a strengthening
(`...Inv`), made of named parts, with a lemma for the initial states, one per action,
and one that joins them. Where a number is to be followed by
the next, a proof takes the least counterexample (`WFMin`, with `<` on `Nat`): no
module declares a RECURSIVE operator, and the recursive functions are reasoned about
by their equations, which a lemma shows to have a solution (`Recursion`).

### `RelayProofs`

From `RelayAssumption`, where a viewer's queue before pairing is no larger than the
back-pressure threshold (4 MiB and 8 MiB in the code):

- `TypeCorrect`: `Spec => []TypeOK`;
- `PointersAreSafe`: `Spec => []PointersAgree`, that is `PairedBothWays`,
  `NoDanglingPointer`, `OneControlChannel` and `WaitingIsFindable`;
- `OwnershipIsKept`: `Spec => OwnershipKept`;
- `ViewersMeetTheirHost`, `ForwardingIsInOrder`, `NoMessageIsLost`,
  `QueuesStayBounded`: `PairedWithAskedHost`, `ForwardedInOrder`, `NothingLost`,
  `MemoryBounded`.

The four pointer properties are not inductive alone. `DataRequest`
pairs with whatever a ticket leads to, and must not break a pairing that exists:
that needs `TicketsIssued` (whoever has a ticket is an unpaired viewer, and its
ticket was drawn before, so that a new one is nobody's). That a control channel is
replaced only by its own host needs `OwnerProved` (the channel of an ID presented
the key that owns the ID). That a message finds the entry in `g_hosts` needs
`IdsKnown`. `IInv == TypeOK /\ Pointers` adds the three and is inductive
(`Inductive`). The proof has one lemma per handler; handlers that do not touch
pointers share `SamePointers` and `CloseKeepsPointers`, and everything that ends a
connection goes through `KillKeepsPointers`, as in the code it goes through
`kill_conn`. `OwnershipKept` then needs only one look at each step under `IInv`.

Forwarding needs more (`FInv`). Who is paired was decided by a ticket, so that it must
say which tickets a host can know: those told on its control channel, and of its own
viewers only (`TicketsAreTold`). That messages are one line from a reader to one
socket needs that a connection is paired once and never again (`PairedOnce`), that one
not upgraded has read nothing, and that one not paired was sent nothing and keeps what
it read (`Unpaired`). `QueuesBounded` bounds what is queued for an end of a pairing by
the threshold and one batch of reads; the assumption on the threshold is what makes a
viewer's early queue fit.

### `HostSessionProofs`

From `HostAssumption` (`LockAt` is at least 1; 5 in the code): `TypeCorrect`,
`InputsAreHeld` (`HeldByAViewer`), `RostersAreCurrent` (`RosterCurrent`),
`GuessesAreLimited` (`GuessLimits`), `CapacityIsKept` (`Capacity`).

`IInv` says how far a connection has come (`Progress`), that each entry of each
viewer's list is somebody who was in session and has not been reaped, with the
rights it has now (`RosterSound`), and counts failures: an
address that has used its five is locked out (`LockedWhenSpent`), which is why
parallel connections of one address cannot pass the lock. Counts of connections are
cardinalities of finite sets (`FiniteOpen`): an action that grows one has checked it,
all others fall under `NoGrowth`.

### `DataPathProofs`

- *The pool:* `ClosureIsAlive` (`JobAlive`); `PoolImplementsRunAll`, that the pool
  implements the safety part of `RunAll` (`RunSafe`). The heart is that `pending_` is the
  number of workers that owe a finish, seen the job or not, late or not
  (`PoolCounts`), and that who has not run it is the difference between the counts
  of runs (`PoolRuns`). The caller returns at zero, when nobody is left who could use
  its closure.
- *Tiles:* `TilesAreApart` (`NoSharedTile`), from the counter that hands each tile to
  one thread (`TilesTaken`); `AllTilesAreSent` (`TilesAreSent`), from an account of
  the tiles `Handled` so far, in whatever order: what is changed among them is sent,
  what may be refined is counted, up to the budget (`TilesCall`), and no tile is
  in two scratch buffers or twice in one (`TilesOnce`), so that joining the buffers keeps each once.
- *Sealing:* `SessionIsKept` (`ChannelsKept`): each direction of `SecureChannel`
  implements `Channel`, and nothing is refused that was left alone, for any number of
  messages, connections and faults. What makes replay
  harmless is `SealRecorded`: of all that was ever recorded, only messages of this
  session are under its keys, and each is the one sent with its counter. That there is no
  false alarm needs the path's contents in full (`Calm`): while nothing was
  disturbed, the message at place n opens with the counter n steps on. That
  `"altered"` is no message (`ChannelAssumption`) only keeps the mark of an altered body
  apart from the bodies.
- *Framing:* `EveryFrameIsRead` (`FramesExact`). `FramesInv` says that the buffer
  holds the bytes from the end of what was taken (`FramesBuffered`), and that the
  assembly holds the frames since the last one that ended a message (`Begun`), masked bytes
  flipped (`FramesRead`); `Meaning` grows frame by frame, and the code's refusals are
  the rules' (`RefusedFrames`).

### `CodecProofs`

From `LzAssumption` and `CodecAssumption`: `NothingLost` (`Lossless`), and with it
`OutputFits` (`FitsBound`), for blocks of every length, any hash function, tiles, bytes, palettes and
steps of every size. `LzAssumption` asks for what the format rests on: a match is no
shorter than the token and offset that tell it (`MinMatch >= 4`), and one that starts
before the limit ends before the last literals. `CodecAssumption` asks that whole
indices fill a byte and tell all colours of their palette.

- *Compression:* `LzInv` relates what is written to the block by *cuts*: a set of pairs of
  a place in `packed` and one in the block, the first pair (0, 0), where each leads to the
  next by one sequence whose literals are there and whose match repeats the bytes `off`
  before it (`Parsed`). Which candidate the hash table held does not matter, only that
  every candidate is an earlier position. Each turn of `rd_lz_compress` adds a cut, the
  flush a last part of literals; each turn of `rd_lz_decompress` goes from one cut to the
  next, and what it has written is the block up to there: a copy that overlaps itself
  repeats with the period `off`, and so does the block (`Periodic`).
- *The buffer:* `packed` is never longer than `anchor` and one byte more for every full
  byte in it (`LzWriting`), because a sequence spends at most four bytes, and runs of
  lengths, on what it stands for (`PartShort`). The last part has no match to pay for its
  token: that, and a length byte, is what `rd_lz_bound` adds.
- *Tiles:* `CodecInv` says that what is sent is one of the encodings of the rounded
  tile, and that what is shown is that tile. Each encoding has its inverse:
  `PaletteIs` (every colour is found at its index), `PackedBack`, `RestoredIs`. For the
  second, bytes are filled from the left: what a pixel adds is less than the weight
  of an index further left and a multiple of all that comes further right
  (`Filled`). For the third, a prediction reads earlier pixels only, so that restoring
  in place meets the samples the residues were taken from (`PredictedSame`).

### `FrameStreamProofs`

From `StreamAssumption` (the frame id counts further than twice the window, and one
more; 2^32 and 2 in the code): `WindowIsRight` (`FlowControl`), `TilesFit` (`FramesFit`),
`ShadowIsRight` (`ShadowIsView`), `QuietShowsTheScreen` (`QuietIsExact`).

`FlowInv` holds of all screens: the ids on their way to the viewer
and back are the successive numbers between the last one acknowledged and the
last one sent, so that the difference, wrapped or not, is their number. `ViewInv` says
that there is a sequence of buffers, from the one the viewer
shows, through one after each message on its way, to the host's shadow (`Chain`,
`Agreed`), each message fitting the buffer before it; a request to send all again
suspends the end of the chain, not the chain.

### `SessionFeaturesProofs`

- `RateIsFirst` (`RateBeforeColour`), an action property, from the type invariant;
- `NothingLeftBehind` (`WholeOrReceiving`) and `SavedStays` (`SavedIsThere`), from
  `UploadInv`: each path is free, or open for one upload that has written the part
  it has read, or saved by one, whole or with its end lost by `fclose`; and every RESULT
  on its way names such a one. Both theorems hold with the exceptions named in section 4;
  that a saved file is whole on a full disk is not true;
- `ViewersAgree` (`Agreement`), from `ChoiceInv`: a viewer in session is informed
  (the last DISPLAY_INFO on its way, or the screen it shows, is what is
  shared) and corrected (if it marks another display, it has asked for that one and will be
  answered, or was refused), whatever requests cross;
- `ClipboardsAgree` (`InSync`), from `SyncInv`: the latest text is the host's to send,
  or one viewer's, or passed on, and nobody else has anything to send.

### `EndpointsProofs`, `HostIdentityProofs`

- `PasswordIsSafe` (`PasswordSafe`) and half of `TruthIsTold` (`TellsTheTruth`), from
  `ConnInv`: what holds of the viewer's state between any two of its functions
  (`AppInv`), what each message on its way implies of it (`Carried`), and that an
  end the viewer has given up hears nothing more. The functions of
  `ViewerApp` call each other, so that there is a lemma for each, cited by those for
  its callers;
- the other half of `TruthIsTold`, from `ReasonInv`: all addresses before the one
  being tried have refused, and what the server sent is what was handed over and then
  what is on the wire, without a gap;
- `KeysAreHeld` (`KeysAreKnown`), from `KeysInv`: a key that is down on the host once
  all input on its way has come is held by the viewer. `Own` is what is down, and nothing
  while a connection the viewer left has pressed something: as long as there is one no
  claim is made, and reaping it lifts everything, so that what is down after the last
  is what the present connection pressed. A connection the viewer left that has pressed
  nothing yet may do so later, and then counts;
- `SavesAreWhole`: `NeverHalf` of `Store`, for any records, on any disk. `SavedInv`
  says which of the two files holds which version at each line of `save`, or, if the disk
  was full, a part of it. The exceptions are in the formula: a kill between the removal
  and the rename leaves nothing, a full disk the part that fitted;
- `DiskKept` (`KeptOnDisk`), on any disk too, from that invariant and the next module.

`HostIdentityProofs` proves, from `IdentityAssumption` (no
key and a short file are not mistaken for keys):

- `IdentityKept`: `Spec => []OneIdentity`;
- `IdentityStored`: `Spec => []NextIsSame`.

`OneIdentity` speaks of the past only, so that its invariant must say where the past
is kept: what was ever served with is in the file (`ShownStored`). `Make`, which
empties the file, keeps this because nobody makes a usable file (`OneMaker`), and
`Store` because nobody else is at it and no other host has a key for it
(`HasStored`, `NotYet`).

### Only model-checked

- Liveness, out of the prover's reach like anything about ENABLED:
  `WaitingIsAnswered`, `BothEndsGo`, that calls and the destructor return
  (`PoolPromise`; its safety part is `PoolImplementsRunAll`), `SlotsFreed`,
  `InputsReleased`, `BecomesQuiet`, `ComesToRest`, `AttemptsEnd`, `SharingSettles`.
  `Sharing` and `HostRelayLink` have no other properties.

## 7. Where code and documentation disagree

Each is a run that TLC refutes.

| Run | The text | What the code does |
|---|---|---|
| HostRelease | host/platform.h, on `release_all`: "Called when the owning viewer leaves" | reaping or restricting one viewer lifts whatever is down, also what another viewer holds |
| FrameSharper | host/server.cpp:705: "sharper settings take effect through per-tile refinement" | tiles are refined in automatic mode only; a still screen keeps the tiles of the coarser setting |
| SharingSlow | client/host_service.cpp:200-201: the watchdog restarts its host "whenever it exits ... until told to stop"; README.md:97: "restarts itself if it ever stops" | `service_uninstall` sets an event only if it exists already and waits half a second: a watchdog that has not made its event yet is never told and shares on while the switch shows off; one that has not ended yet makes its successor exit at once, and nothing is shared while the switch shows on |
| DisplayStart | host/main.cpp:49: "--display N display index to share" | the first viewer in control sends SETTINGS with display 0 before it knows which is shared, and the host switches |

Noted while modelling, without a run:

- README.md:136 has logins paused after *more than* 30 failures a minute;
  host/server.cpp:1130 pauses at 30.
- README.md:111 has what was sent with reduced colours "automatically re-sent
  losslessly once that part of the screen stops changing". While other parts
  change, tiles that change in some frames and not in others may take the whole
  refinement budget of every frame (host/server.cpp:880), and a still one waits.
- README.md:114: "clipboard text syncs both ways". `check_local_clipboard`
  (client/app.cpp:685) does not send a text equal to the last one received, even
  after another: the host copies A, the viewer B, then the viewer A again, and the
  host keeps B.

- common/rd_codec.h says each tile is encoded "with whichever of these is smallest";
  `rd_encode_tile` never tries ZRGB where a palette is possible. It says lossy
  levels "clear low colour bits"; the code rounds (rd_codec.c:155-163), and a value
  near the top is rounded down because its nearest multiple is no byte.
- host/server.cpp:801 tells the viewer "Saved to " and the path, but `finish_upload`
  does not look at the result of `fclose` (line 1107), which writes what stdio still
  holds: on a full disk the end of the file is lost, the short file stays, and the viewer
  takes it for saved. TLC shows it when `AsClosed` in `SavedIsThere` is replaced by `Whole`.
- README.md:114: "Dropping a file on the native viewer uploads it". When `fread` fails
  before the end of the file (client/app.cpp:778-787: nothing read, `feof` not set),
  FILE_END is not sent and the upload never counts as done: it and all files behind it
  wait for the rest of the session. TLC shows it when `NothingQueued` loses its exception.
- README.md:112: "Held keys are released when a viewer leaves or the viewer window
  loses focus". A lost connection clears `held_` and the viewer is back after a second
  (client/app.cpp:301-306); the host keeps what that connection pressed until it reaps it,
  45 s later if nobody tells it (host/server.cpp:242, 252-258). A loss of focus in
  between does not release the key. TLC shows the state when `KeysAreKnown` loses its
  exception.
- store.cpp:115-120: writes are not checked, so that a full disk's short file
  replaces the good one; between lines 119 and 120 there is no file at all. Both can be
  seen by leaving out the exceptions in `WholeStep`. Two programs on one folder
  overwrite each other's pins.
- The Verify dialog stays when the connection it is about drops. Trust then sends no
  AUTH but sets the phase (app.cpp:241-253), on a session screen whose "Reconnecting"
  (app.cpp:1854-1860) may then stand for nothing that goes on; Disconnect or Esc
  leave it. Pressed on the next connection before its HELLO, it makes that HELLO
  come out of place, and the connection fails.
- host/main.cpp:134-135, of the host's key: "it must stay the same across restarts";
  168-169, of its ID: "by the same ID every time". `fwrite` and `fprintf` only fill a
  buffer; that `fclose` could not write it (full disk) is not noticed (lines 163-164,
  193-194), the host serves with a key it has not stored, and the next start makes
  another. It is seen by leaving `\ hurt` out of `OneIdentity`.
- Two hosts of one folder that start for the first time together each make a key and
  both serve, one of them with a key that the file does not keep (host/main.cpp:145-165).
  Later they have one relay ID and one key, so that the relay retires the one when the
  other registers (relay.cpp:286-291), and each comes back after two seconds, for ever
  (host/server.cpp:264, reset at 370). host/server.cpp:125-127 expects a second host
  beside the first; client/quicksupport.cpp:143-144 gives quick support an identity
  of its own for that reason.
- `fail_connect` from a live session leaves held keys, buttons and queued files as
  they are.
- `release_input` at app.cpp:457 sends nothing, because `view_only_` is set just
  before; the host has released by itself. After two toggles of `/viewonly` in quick
  succession a key may stay down on the host until the window loses focus (README.md:112
  speaks of that moment), and a loss of focus between the two releases nothing. Esc
  held while the menu opens stays down until its next press.
- transport_native.cpp: one silent address uses the ten seconds of all (line 87), and
  nothing limits the wait for the answer to the upgrade (line 114).
- The host's link tries the first address of the relay only (server.cpp:310), and
  resolving its name stops the event loop.

## 8. What is not modelled

- **Cryptographic primitives:** arithmetic on large numbers; covered by the test
  vectors of `tests/test_common.c`. The models take a MAC to prove what it was made
  from and a sealed message to open under its own key and nonce only.
- **Sockets and TLS wrappers, platform backends:** calls of the operating system;
  their outcomes are choices in the models.
- **The web viewer's transport and its way out of a failed connection:** the
  browser's.
- **macOS LaunchAgent and quick support:** launchd's restarts; a host of its own with
  fewer buttons.
- **HTTP headers, the WebSocket accept key, the text format of saved PCs, byte
  readers:** functions of their input without state.
- **Drawing, fonts, widgets, parsing of options, tools, packaging, the website:** no state
  that outlives a frame or a start. More than half of the repository's lines are
  one of these: `common/rd_font_data.h` alone is 13423 generated lines of 23787, and
  the map of the whole project can therefore cover only a small share of all lines.
- **Inside modelled parts:** chat and notices, pings, statistics, wording, the
  exact clock; the list of displays does not change; capture at a third size
  between two reads of the frame slot in one turn (`PROJECT.json`, hazards).
