----------------------------- MODULE Endpoints -----------------------------
(***************************************************************************)
(* What the two programs do around a session, together: the viewer's       *)
(* connection (ViewerApp), its input, its transport and its saved PCs, the *)
(* host's key, its link to the relay, and "Share this PC".  They share no  *)
(* variable of the programs - ViewerApp takes the transport's outcomes as  *)
(* choices - so that a behaviour is followed in one of them at a time.     *)
(***************************************************************************)
EXTENDS Integers, Sequences

CONSTANTS
  Identity, Password, None, MaxAttempts, TrustNew, Altered, MaxEvents, \* connection
  Key, Esc, Button, MaxInput,                                          \* input
  MaxAddresses, Addresses, TcpLimit, TlsLimit, MaxMessages,            \* transport
  FirstBackoff, MaxBackoff, PingAfter, QuietLimit, UpgradeLimit, Secure, MaxFaults, \* link
  First, Dog, Prompt, MaxActs,                                         \* sharing
  Record, DiskFull, MaxChanges,                                        \* saved PCs
  Host, Part, KeyDiskFull, MaxStarts                                   \* the host's key

VARIABLES
  subject,    \* the part followed
  app, host, toHost, toViewer, stage, ended, events,
  live, view, touched, inputUp, rightsDown, hostViewOnly, sentInput, old, down, inputs,
  state, attempt, tcpUp, tlsReady, secure, error, clock, got, reach, server, wire, sent,
  ctl, online, next, backoff, age, quiet, pinged, pong, relay, whole, faults,
  open, sharing, always, password, todo, file, mine, installed, dog, stop, restart, acts,
  pcs, viewerTsv, tmp, at, saved, short, changes,
  disk, main, doing, own, made, starts, shown, hurt

Connection == INSTANCE ViewerApp
Input == INSTANCE ViewerInput WITH toHost <- inputUp, toViewer <- rightsDown
Transport == INSTANCE NativeTransport
Link == INSTANCE HostRelayLink
Share == INSTANCE Sharing
Saved == INSTANCE Store WITH file <- viewerTsv, Absent <- None
Identified == INSTANCE HostIdentity WITH at <- main, DiskFull <- KeyDiskFull

ASSUME ConnectionAssumed == Connection!ViewerAssumption
ASSUME InputAssumed == Input!InputAssumption
ASSUME TransportAssumed == Transport!TransportAssumption
ASSUME LinkAssumed == Link!LinkAssumption
ASSUME SharingAssumed == Share!SharingAssumption
ASSUME SavedAssumed == Saved!StoreAssumption
ASSUME IdentityAssumed == Identified!IdentityAssumption

connectionVars == <<app, host, toHost, toViewer, stage, ended, events>>
inputVars == <<live, view, touched, inputUp, rightsDown, hostViewOnly, sentInput, old, down, inputs>>
transportVars == <<state, attempt, tcpUp, tlsReady, secure, error, clock, got, reach, server, wire, sent>>
linkVars == <<ctl, online, next, backoff, age, quiet, pinged, pong, relay, whole, faults>>
shareVars == <<open, sharing, always, password, todo, file, mine, installed, dog, stop, restart, acts>>
savedVars == <<pcs, viewerTsv, tmp, at, saved, short, changes>>
keyVars == <<disk, main, doing, own, made, starts, shown, hurt>>

vars ==
  <<subject, connectionVars, inputVars, transportVars, linkVars, shareVars, savedVars, keyVars>>

\* What is not followed starts in one of its initial states.
Init ==
  /\ subject \in {"connection", "input", "transport", "link", "share", "saved", "key"}
  /\ Connection!Init
  /\ subject = "connection" \/ (/\ app.pc.valid /\ app.pc = Connection!NotListed /\ app.pin = None
                                /\ host = CHOOSE h \in [key : Identity, password : Password, fits : {TRUE}] : TRUE)
  /\ Input!Init
  /\ Transport!Init
  /\ subject = "transport" \/ (/\ reach = [i \in Transport!Names |-> "silent"] /\ ~secure
                               /\ server = [tls |-> "ok", upgrade |-> "ok"])
  /\ Link!Init /\ (subject = "link" \/ relay = "down")
  /\ Share!Init /\ (subject = "share" \/ always)
  /\ Saved!Init /\ (subject = "saved" \/ pcs = {})
  /\ Identified!Init

InConnection == subject = "connection" /\ UNCHANGED <<subject, inputVars, transportVars, linkVars, shareVars, savedVars, keyVars>>
InInput == subject = "input" /\ UNCHANGED <<subject, connectionVars, transportVars, linkVars, shareVars, savedVars, keyVars>>
InTransport == subject = "transport" /\ UNCHANGED <<subject, connectionVars, inputVars, linkVars, shareVars, savedVars, keyVars>>
InLink == subject = "link" /\ UNCHANGED <<subject, connectionVars, inputVars, transportVars, shareVars, savedVars, keyVars>>
InShare == subject = "share" /\ UNCHANGED <<subject, connectionVars, inputVars, transportVars, linkVars, savedVars, keyVars>>
InSaved == subject = "saved" /\ UNCHANGED <<subject, connectionVars, inputVars, transportVars, linkVars, shareVars, keyVars>>
InKey == subject = "key" /\ UNCHANGED <<subject, connectionVars, inputVars, transportVars, linkVars, shareVars, savedVars>>

Next ==
  \/ InConnection /\ Connection!Next
  \/ InInput /\ Input!Next
  \/ InTransport /\ Transport!Next
  \/ InLink /\ Link!Next
  \/ InShare /\ Share!Next
  \/ InSaved /\ Saved!Next
  \/ InKey /\ Identified!Next

\* Every program's loop goes round, and time passes.
FairSpec ==
  /\ Init /\ [][Next]_vars
  /\ WF_vars(InConnection /\ Connection!Programs)
  /\ WF_vars(InTransport /\ Transport!Program) /\ WF_vars(InTransport /\ Transport!Wait)
  /\ WF_vars(InLink /\ Link!Program) /\ WF_vars(InLink /\ Link!Wait)
  /\ WF_vars(InShare /\ Share!Programs)

-----------------------------------------------------------------------------
(* Properties: those of the modules, whose comments say what they are      *)
(* about.                                                                  *)

\* start_connect, RD_S_HELLO, send_auth and RD_S_AUTH_RESULT give the password to
\* the pinned host only, and a refused one to nobody again.
PasswordSafe == Connection!LiveIsTrusted /\ Connection!NoRefusedRetry

\* What the dialogs of the viewer and the transport's error() say is so.
TellsTheTruth == Connection!ShownIsTrue /\ Transport!ReasonIsTrue

\* send_key and release_input lose no key that is down on the host.
KeysAreKnown == Input!KeysAreKnown

\* Attempts to connect, to reconnect and to be on line at the relay come to an end.
AttemptsEnd == Connection!DropResolved /\ Transport!ConnectEnds /\ Link!BackOnline

\* start_sharing, stop_sharing and the watchdog come to what the user asked for.
SharingSettles == Share!Settles

\* A kill in Store::save never leaves a part of a file, and one in load_or_create_host_key
\* or load_or_create_relay_id no host that is another one at its next start; the parts
\* name what a full disk, the place between two lines and two first starts may do.
KeptOnDisk ==
  [][Saved!WholeStep /\ Identified!OneIdentity' /\ Identified!NextIsSame']_vars
=============================================================================
