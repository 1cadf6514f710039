------------------------------ MODULE DataPath ------------------------------
(***************************************************************************)
(* The layers a picture goes through, together: the encoder's thread pool  *)
(* (WorkerPool) and its tiles (TileEncoder), the encoding of a tile        *)
(* (TileCodec) and its compression (Lz), sealing (SecureChannel) and       *)
(* framing (WsReader).  Each layer is a library to the next and keeps no   *)
(* variable of another, so that a behaviour is followed in one at a time.  *)
(***************************************************************************)
EXTENDS Integers, Sequences

CONSTANTS
  Threads, MaxCalls,                                                \* pool
  N, Total, Chunk, Color, Qualities, Budgets, MaxEncodes,           \* tiles
  Width, Height, Bits, MaxPalette, Steps, Pixel,                    \* codec
  Alphabet, Blocks, MinMatch, LastLiterals, MfLimit, Nibble, TopByte, SkipLength, Slots, SlotOf, Slack, \* compression
  Msg, MaxConnects, MaxSent, MaxFaults,                             \* sealing
  MaxMessage, Lengths, MaxFrames                                    \* framing

VARIABLES
  subject,   \* the layer followed
  caller, pc, seen, myJob, job, generation, pending, quit, runs,
  phase, left, frame, shadow, tileQ, next, refines, span, scratch, full, quality, budget,
  refined, screen, before, encodes,
  tile, step, payload, shown, stage,
  block, table, ip, anchor, packed, pos, unpacked, lzPhase,
  end, wire, conn, sent, got, recorded, disturbed, faultsDone,
  frames, taken, inLen, flipped, assembly, awaiting, failed, messages

Pool == INSTANCE WorkerPool WITH N <- Threads
Tiles == INSTANCE TileEncoder
Codec == INSTANCE TileCodec
Compression == INSTANCE Lz WITH phase <- lzPhase
Sealing == INSTANCE SecureChannel
Framing == INSTANCE WsReader

ASSUME PoolAssumed == Pool!PoolAssumption
ASSUME TilesAssumed == Tiles!EncoderAssumption
ASSUME CodecAssumed == Codec!CodecAssumption
ASSUME CompressionAssumed == Compression!LzAssumption
ASSUME SealingAssumed == Sealing!ChannelAssumption
ASSUME FramingAssumed == Framing!FramingAssumption

poolVars == <<caller, pc, seen, myJob, job, generation, pending, quit, runs>>
tilesVars == <<phase, left, frame, shadow, tileQ, next, refines, span, scratch, full, quality, budget,
               refined, screen, before, encodes>>
codecVars == <<tile, step, payload, shown, stage>>
lzVars == <<block, table, ip, anchor, packed, pos, unpacked, lzPhase>>
sealVars == <<end, wire, conn, sent, got, recorded, disturbed, faultsDone>>
frameVars == <<frames, taken, inLen, flipped, assembly, awaiting, failed, messages>>

vars == <<subject, poolVars, tilesVars, codecVars, lzVars, sealVars, frameVars>>

\* Where what is not followed starts.
OnePixel == CHOOSE p \in Pixel : TRUE
OneStep == CHOOSE s \in Steps : TRUE
OneBlock == CHOOSE b \in Blocks : TRUE

\* What is not followed starts in one of its initial states.
Init ==
  /\ subject \in {"pool", "tiles", "codec", "compression", "sealing", "framing"}
  /\ Pool!Init
  /\ Tiles!Init /\ (subject = "tiles" \/ \A k \in DOMAIN shadow : shadow[k] = CHOOSE c \in Color : TRUE)
  /\ IF subject = "codec" THEN Codec!Init
     ELSE Codec!Init /\ step = OneStep /\ \A i \in DOMAIN tile : tile[i] = OnePixel
  /\ Compression!Init /\ (subject = "compression" \/ block = OneBlock)
  /\ Sealing!Init
  /\ Framing!Init

InPool == subject = "pool" /\ UNCHANGED <<subject, tilesVars, codecVars, lzVars, sealVars, frameVars>>
InTiles == subject = "tiles" /\ UNCHANGED <<subject, poolVars, codecVars, lzVars, sealVars, frameVars>>
InCodec == subject = "codec" /\ UNCHANGED <<subject, poolVars, tilesVars, lzVars, sealVars, frameVars>>
InLz == subject = "compression" /\ UNCHANGED <<subject, poolVars, tilesVars, codecVars, sealVars, frameVars>>
InSealing == subject = "sealing" /\ UNCHANGED <<subject, poolVars, tilesVars, codecVars, lzVars, frameVars>>
InFraming == subject = "framing" /\ UNCHANGED <<subject, poolVars, tilesVars, codecVars, lzVars, sealVars>>

Next ==
  \/ InPool /\ Pool!Next
  \/ InTiles /\ Tiles!Next
  \/ InCodec /\ Codec!Next
  \/ InLz /\ Compression!Next
  \/ InSealing /\ Sealing!Next
  \/ InFraming /\ Framing!Next

\* Threads that can run do (as in WorkerPool).
FairSpec ==
  /\ Init /\ [][Next]_vars
  /\ WF_vars(InPool /\ Pool!NotifyStart) /\ WF_vars(InPool /\ Pool!OwnShare) /\ WF_vars(InPool /\ Pool!WaitDone)
  /\ WF_vars(InPool /\ Pool!NotifyQuit) /\ WF_vars(InPool /\ Pool!Join)
  /\ \A w \in 1..Threads : /\ WF_vars(InPool /\ Pool!Take(w))
                     /\ WF_vars(InPool /\ Pool!Run(w))
                     /\ WF_vars(InPool /\ Pool!Finish(w))

-----------------------------------------------------------------------------
(* Properties: those of the modules, whose comments say what they are      *)
(* about.                                                                  *)

\* worker_main never runs a job whose run_all has returned.
JobAlive == Pool!JobAlive

\* run_all and ~WorkerPool do what their callers rely on, and return.
PoolPromise == Pool!Promise /\ Pool!Destroyed

\* FrameEncoder::encode's threads never have a tile in common.
NoSharedTile == Tiles!NoSharedTile

\* A call of encode sends what it owes, and the viewer then shows what the host
\* remembers.
TilesAreSent == Tiles!ViewerMatchesShadow /\ Tiles!OwedIsSent

\* rd_decode_tile and rd_lz_decompress undo rd_encode_tile and rd_lz_compress, which
\* never writes past what rd_lz_bound says.
Lossless == Codec!Faithful /\ Compression!RoundTrip /\ Compression!FitsBound

\* rd_channel_seal and rd_channel_open make a Channel of each direction.
ChannelsKept == Sealing!ChannelsKept

\* rd_ws_next returns the messages of the stream however it is cut.
FramesExact == Framing!FramesExact
=============================================================================
