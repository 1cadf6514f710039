------------------------------ MODULE Sharing ------------------------------
(***************************************************************************)
(* "Share this PC" on Windows: the viewer program that starts and stops a  *)
(* host of its own (client/app.cpp, host_process.cpp), or installs a       *)
(* background service, and the service's watchdog, which runs a host and   *)
(* restarts it (host_service.cpp).  The processes meet in a Run value, a   *)
(* named mutex, a manual-reset and an auto-reset event and the password    *)
(* file.  Kernel objects live as long as a process holds them.             *)
(***************************************************************************)
EXTENDS FiniteSets, Naturals

CONSTANTS
  Password, First,  \* passwords chosen for sharing
  Dog,              \* watchdog processes
  Prompt,           \* processes start and end within the half second of service_uninstall
  MaxActs           \* bound on what the user does and what fails

SharingAssumption ==
  /\ First \in Password /\ MaxActs \in Nat /\ Prompt \in BOOLEAN
  /\ MaxActs > 0

VARIABLES
  open, sharing, always, password,  \* the App: running; sharing_; the Store's settings
  todo,       \* what it does when service_uninstall's Sleep is over
  file,       \* the password file
  mine,       \* the App's own host: "none", "booting", or the password it has read
  installed,  \* the Run value is there
  dog,        \* each watchdog's place in its code, and its host
  stop, restart,  \* the events are signalled
  acts

app == <<open, sharing, always, password, todo, file, mine, installed>>
vars == <<app, dog, stop, restart, acts>>

NoDog == [at |-> "none", host |-> "none"]
Holds(w) == dog[w].at \in {"watch", "pause", "ending"}   \* mutex and events
Owned == \E w \in Dog : Holds(w)

Init ==
  /\ open = TRUE /\ sharing = FALSE /\ always \in BOOLEAN /\ password = First
  /\ todo = "nothing" /\ file = First /\ mine = "none" /\ installed = FALSE
  /\ dog = [w \in Dog |-> NoDog] /\ stop = FALSE /\ restart = FALSE /\ acts = 0

-----------------------------------------------------------------------------
(* The operators whose comment says "mutant" are wrong on purpose: each is *)
(* the operator below it with a bug that some property rules out.          *)

\* service_uninstall, before its Sleep: an event that nobody holds cannot be set.
Uninstall == installed' = FALSE /\ stop' = Owned

\* start_sharing: the service, which first removes an older one, or a host.
Start(alwaysOn) ==
  /\ file' = password
  /\ IF alwaysOn
     THEN Uninstall /\ todo' = "install" /\ mine' = "none" /\ UNCHANGED sharing
     ELSE mine' = "booting" /\ sharing' = TRUE /\ todo' = "nothing" /\ UNCHANGED <<installed, stop>>

\* stop_sharing, and start_sharing behind it in restart_sharing.
Stop(then, alwaysOn) ==
  IF installed
  THEN /\ Uninstall /\ mine' = "none" /\ todo' = then
       /\ UNCHANGED <<sharing, file>>
  ELSE IF then = "start" THEN Start(alwaysOn)
  ELSE /\ mine' = "none" /\ sharing' = FALSE
       /\ UNCHANGED <<file, installed, stop, todo>>

\* The user finds the program waiting, and the processes it started under way.
User ==
  /\ acts < MaxActs /\ acts' = acts + 1
  /\ open /\ todo = "nothing"
  /\ Prompt => \A w \in Dog : dog[w].at # "new"

\* The switch.
Switch ==
  /\ User
  /\ IF sharing THEN Stop("nothing more", always) ELSE Start(always)
  /\ UNCHANGED <<open, always, password, dog, restart>>

\* "Always on".
ToggleAlways ==
  /\ User /\ always' = ~always
  /\ \/ sharing /\ Stop("start", always')
     \/ ~sharing /\ always' /\ Start(always')
     \/ ~sharing /\ ~always' /\ UNCHANGED <<sharing, todo, file, mine, installed, stop>>
  /\ UNCHANGED <<open, password, dog, restart>>

\* "New password": the file first, then the host that is to read it.
NewPassword ==
  /\ User /\ \E p \in Password \ {password} : password' = p
  /\ file' = IF sharing THEN password' ELSE file
  /\ restart' = (restart \/ (sharing /\ installed /\ Owned))
  /\ mine' = IF sharing /\ ~installed THEN "booting" ELSE mine
  /\ UNCHANGED <<open, sharing, always, todo, installed, dog, stop>>

\* service_uninstall has slept; the mutex may still be there unless all was prompt.
Wake ==
  /\ todo # "nothing" /\ (Prompt => ~stop)
  /\ \/ /\ todo = "nothing more" /\ todo' = "nothing" /\ sharing' = FALSE
        /\ UNCHANGED <<file, mine, installed, dog, stop>>
     \/ todo = "start" /\ Start(always) /\ UNCHANGED dog
     \/ /\ todo = "install" /\ todo' = "nothing" /\ sharing' = TRUE /\ installed' = TRUE
        /\ \E w \in Dog : dog[w] = NoDog /\ dog' = [dog EXCEPT ![w].at = "new"]
        /\ UNCHANGED <<file, mine, stop>>
  /\ UNCHANGED <<open, always, password, restart, acts>>

\* poll_share_log: the host it started is gone.
NoticeStopped ==
  /\ open /\ todo = "nothing" /\ sharing /\ mine = "none" /\ ~installed
  /\ sharing' = FALSE
  /\ UNCHANGED <<open, always, password, todo, file, mine, installed, dog, stop, restart, acts>>

\* The window is closed, which stops a host of its own, and opened again.
CloseOrOpen ==
  /\ acts < MaxActs /\ acts' = acts + 1 /\ todo = "nothing"
  /\ open' = ~open
  /\ mine' = "none" /\ sharing' = (open' /\ installed)
  /\ UNCHANGED <<always, password, todo, file, installed, dog, stop, restart>>

\* The computer starts again: the Run value starts a watchdog.
Reboot ==
  /\ acts < MaxActs /\ acts' = acts + 1 /\ todo = "nothing"
  /\ open' = FALSE /\ mine' = "none" /\ sharing' = FALSE /\ stop' = FALSE /\ restart' = FALSE
  /\ LET first == CHOOSE w \in Dog : TRUE
     IN dog' = [w \in Dog |-> IF installed /\ w = first THEN [NoDog EXCEPT !.at = "new"] ELSE NoDog]
  /\ UNCHANGED <<always, password, todo, file, installed>>

-----------------------------------------------------------------------------
(* The watchdog, and the hosts. *)

\* service_watchdog_main: only one owns the mutex; a host is started.
Begin(w) ==
  /\ dog[w].at = "new"
  /\ dog' = [dog EXCEPT ![w] = IF Owned THEN NoDog ELSE [at |-> "watch", host |-> "booting"]]
  /\ UNCHANGED <<app, stop, restart, acts>>

\* The stop event: host.stop(), which may take a while, and the end.
SeesStop(w) ==
  /\ stop /\ dog[w].at \in {"watch", "pause"}
  /\ dog' = [dog EXCEPT ![w].at = "ending"]
  /\ UNCHANGED <<app, stop, restart, acts>>

End(w) ==
  /\ dog[w].at = "ending"
  /\ dog' = [dog EXCEPT ![w] = NoDog] /\ stop' = FALSE /\ restart' = FALSE
  /\ UNCHANGED <<app, acts>>

\* mutant: the restart event stays signalled
SeesRestartForGood(w) ==
  /\ restart /\ ~stop /\ dog[w].at = "watch"
  /\ dog' = [dog EXCEPT ![w] = [at |-> "pause", host |-> "none"]]
  /\ UNCHANGED <<app, stop, restart, acts>>

\* The restart event, which resets itself.
SeesRestart(w) ==
  /\ restart /\ ~stop /\ dog[w].at = "watch" /\ restart' = FALSE
  /\ dog' = [dog EXCEPT ![w] = [at |-> "pause", host |-> "none"]]
  /\ UNCHANGED <<app, stop, acts>>

\* The host has ended by itself; three seconds later it is started again.
SeesEnd(w) ==
  /\ dog[w].at = "watch" /\ dog[w].host = "none"
  /\ dog' = [dog EXCEPT ![w].at = "pause"]
  /\ UNCHANGED <<app, stop, restart, acts>>

StartsAgain(w) ==
  /\ dog[w].at = "pause" /\ ~stop
  /\ dog' = [dog EXCEPT ![w] = [at |-> "watch", host |-> "booting"]]
  /\ UNCHANGED <<app, stop, restart, acts>>

\* A host reads the password file as it starts; or it fails.
HostReads ==
  \/ /\ mine = "booting" /\ mine' = file
     /\ UNCHANGED <<open, sharing, always, password, todo, file, installed, dog, stop, restart, acts>>
  \/ /\ \E w \in Dog : dog[w].host = "booting" /\ dog' = [dog EXCEPT ![w].host = file]
     /\ UNCHANGED <<app, stop, restart, acts>>

HostFails ==
  /\ acts < MaxActs /\ acts' = acts + 1
  /\ \/ mine # "none" /\ mine' = "none" /\ UNCHANGED dog
     \/ \E w \in Dog : dog[w].host # "none" /\ dog' = [dog EXCEPT ![w].host = "none"] /\ UNCHANGED mine
  /\ UNCHANGED <<open, sharing, always, password, todo, file, installed, stop, restart>>

Watchdog(w) == Begin(w) \/ SeesStop(w) \/ End(w) \/ SeesRestart(w) \/ SeesEnd(w) \/ StartsAgain(w)
Programs == Wake \/ NoticeStopped \/ HostReads \/ \E w \in Dog : Watchdog(w)

Next ==
  \/ Switch \/ ToggleAlways \/ NewPassword \/ CloseOrOpen \/ Reboot \/ HostFails
  \/ Programs

Spec == Init /\ [][Next]_vars
FairSpec == Spec /\ WF_vars(Programs)

-----------------------------------------------------------------------------
(* Properties.                                                             *)

Hosts == {w \in Dog : dog[w].host # "none"}

\* What the user sees is what runs: nothing, or one host with the last password.
AsShown ==
  /\ (IF open THEN sharing ELSE installed) => \/ mine = password /\ Hosts = {}
                                              \/ /\ mine = "none" /\ Cardinality(Hosts) = 1
                                                 /\ \A w \in Hosts : dog[w].host = password
  /\ ~(IF open THEN sharing ELSE installed) => mine = "none" /\ Hosts = {}

\* When the user leaves it at that, and no host fails, it comes to be so and stays
\* so: over switches between a host of its own and the service, restarts for a
\* new password, hosts that fail, and reboots (host_service.cpp:200-229,
\* app.cpp:1352-1365, 1505-1514).
Settles == <>[]AsShown
=============================================================================
