-------------------------- MODULE SessionFeatures --------------------------
(***************************************************************************)
(* Four features of a session together: AdaptiveQuality, ClipboardSync,    *)
(* DisplayChoice and Upload.  They share no variable of the programs but   *)
(* view_only, which each of the last two changes by itself, so that a      *)
(* behaviour of the session is followed in one of them at a time.          *)
(***************************************************************************)
EXTENDS Integers, Sequences

CONSTANTS
  Viewer, Watching, Text, Nothing, MaxCopies,                 \* clipboard
  MaxFps, FpsChoices, Automatic,                              \* quality
  Display, Started, Unreliable, MaxEvents,                    \* displays
  Conn, Name, Sizes, MaxDrops, MaxNumber, Earlier, MaxUploads, Window \* uploads

VARIABLES
  subject,    \* the feature followed
  hostClip, noticed, lastClip, clip, lastLocal, lastRemote, up, down, orderly, copied,
  fps, effFps, setting, quality, clean, smooth,
  cap, active, watching, shadow, refused, toHost, toViewer, live, shown,
  resShown, pref, viewOnly, listed, asked, events,
  queue, nextId, only, onlyHere, link, alive, sending, answers, open, disk, cut, overwritten, saved, quit, roles

Quality == INSTANCE AdaptiveQuality
Clipboard == INSTANCE ClipboardSync
Displays == INSTANCE DisplayChoice
  WITH Viewer <- Viewer \ Watching, up <- toHost, down <- toViewer
Uploads == INSTANCE Upload
  WITH MaxEvents <- MaxDrops, viewOnly <- only, watching <- onlyHere, up <- sending, down <- answers

ASSUME QualityAssumed == Quality!AdaptAssumption
ASSUME ClipboardAssumed == Clipboard!ClipboardAssumption
ASSUME DisplaysAssumed == Displays!DisplayAssumption
ASSUME UploadsAssumed == Uploads!UploadAssumption

qualityVars == <<fps, effFps, setting, quality, clean, smooth>>
clipboardVars == <<hostClip, noticed, lastClip, clip, lastLocal, lastRemote, up, down, orderly, copied>>
displayVars == <<cap, active, watching, shadow, refused, toHost, toViewer, live, shown,
                 resShown, pref, viewOnly, listed, asked, events>>
uploadVars == <<queue, nextId, only, onlyHere, link, alive, sending, answers, open, disk, cut, overwritten,
                saved, quit, roles>>

Init ==
  /\ subject \in {"quality", "clipboard", "displays", "uploads"}
  /\ Quality!Init /\ Clipboard!Init /\ Displays!Init /\ Uploads!Init
  /\ orderly \/ subject = "clipboard"
  /\ subject = "uploads" \/ \A p \in DOMAIN disk : disk[p] = Uploads!Absent

vars == <<subject, qualityVars, clipboardVars, displayVars, uploadVars>>

InQuality == subject = "quality" /\ UNCHANGED <<subject, clipboardVars, displayVars, uploadVars>>
InClipboard == subject = "clipboard" /\ UNCHANGED <<subject, qualityVars, displayVars, uploadVars>>
InDisplays == subject = "displays" /\ UNCHANGED <<subject, qualityVars, clipboardVars, uploadVars>>
InUploads == subject = "uploads" /\ UNCHANGED <<subject, qualityVars, clipboardVars, displayVars>>

Next ==
  \/ InQuality /\ Quality!Next
  \/ InClipboard /\ Clipboard!Next
  \/ InDisplays /\ Displays!Next
  \/ InUploads /\ Uploads!Next

\* Once a second a window ends; both programs' loops go round.
FairSpec ==
  /\ Init /\ [][Next]_vars
  /\ WF_vars(InQuality /\ Quality!Smooth)
  /\ WF_vars(InClipboard /\ Clipboard!Programs)
  /\ WF_vars(InDisplays /\ Displays!Programs)
  /\ WF_vars(InUploads /\ Uploads!Programs)

-----------------------------------------------------------------------------
(* Properties: those of the modules, whose comments say what they are      *)
(* about.                                                                  *)

\* adapt_quality takes the frame rate before the colours, and gives the colours
\* back before the frame rate.
RateBeforeColour == Quality!RateBeforeColour

\* poll_clipboard, check_local_clipboard and the CLIPBOARD messages bring each
\* text to everyone who takes part and to nobody else.
InSync == Clipboard!InSync

\* switch_display, SETTINGS and DISPLAY_INFO leave every viewer with the right
\* idea of what it is looking at.
Agreement == Displays!Agreement

\* A FILE_RESULT that says "Saved to ..." is true.
SavedIsThere == Uploads!SavedIsThere

\* finish_upload and the reaping of connections leave no part of a file behind.
WholeOrReceiving == Uploads!WholeOrReceiving

\* Everything comes to an end: adapt_quality gives rate and colours back, texts
\* and switches of the display do not go back and forth for ever, and no file
\* stays queued.
ComesToRest ==
  <>[](/\ Quality!Restored
       /\ Clipboard!AtRest
       /\ Displays!Settled
       /\ Uploads!NothingQueued)
=============================================================================
