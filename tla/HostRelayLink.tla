--------------------------- MODULE HostRelayLink ---------------------------
(***************************************************************************)
(* The host's control connection to a relay (host/server.cpp): opened from *)
(* the event loop, through TCP, TLS and the upgrade, kept alive by pings,  *)
(* and opened again, later and later, however it ends.  The loop goes      *)
(* round much more often than the unit of time (Due).                      *)
(***************************************************************************)
EXTENDS Integers

CONSTANTS
  FirstBackoff, MaxBackoff,  \* 2 and 30 seconds in the code
  PingAfter, QuietLimit,     \* 25 and 70
  UpgradeLimit,              \* 120
  Secure,                    \* cfg_.relay_port = 443
  MaxFaults                  \* bound on what happens to relay and network

LinkAssumption ==
  /\ {FirstBackoff, MaxBackoff, PingAfter, QuietLimit, UpgradeLimit, MaxFaults} \subseteq Nat
  /\ 0 < FirstBackoff /\ FirstBackoff <= MaxBackoff
  /\ PingAfter + 1 < QuietLimit   \* a PING is answered before the host gives up
  /\ Secure \in BOOLEAN

VARIABLES
  ctl,      \* the connection relay_ctl_ points to: its state, "none" or "dead"
  online,   \* relay_online_
  next,     \* relay_next_us_: time until it has come
  backoff,  \* relay_backoff_us_
  age, quiet, pinged,  \* time since created_us, last_rx_us, last_ping_us
  pong,     \* the answer to a PING is on its way
  relay,    \* the relay answers, has the ID in use by another (409), or is unreachable
  whole,    \* this connection's network path works
  faults

vars == <<ctl, online, next, backoff, age, quiet, pinged, pong, relay, whole, faults>>
timers == <<age, quiet, pinged>>
world == <<relay, whole, faults>>

Lower(a, b) == IF a < b THEN a ELSE b

Init ==
  /\ ctl = "none" /\ online = FALSE /\ next = 0 /\ backoff = FirstBackoff
  /\ age = 0 /\ quiet = 0 /\ pinged = 0 /\ pong = FALSE
  /\ relay \in {"up", "taken", "down"} /\ whole = TRUE /\ faults = 0

-----------------------------------------------------------------------------
(* The operators whose comment says "mutant" are wrong on purpose: each is *)
(* the operator below it with a bug that some property rules out.          *)

\* Lines 263 and 313: not before the back-off is over, and then twice as long.
BackOff ==
  /\ next' = backoff
  /\ backoff' = Lower(2 * backoff, MaxBackoff)

\* maintain_relay and open_relay_conn; the connect may fail at once.
Open ==
  /\ ctl = "none" /\ next = 0
  /\ \/ /\ ctl' = "TcpPending" /\ whole' = (relay # "down")
        /\ age' = 0 /\ quiet' = 0 /\ pinged' = 0 /\ pong' = FALSE
        /\ UNCHANGED <<next, backoff, relay, faults>>
     \/ /\ relay = "down"
        /\ BackOff /\ UNCHANGED <<ctl, timers, pong, world>>
  /\ UNCHANGED online

\* run, lines 193-223, as far as the other end answers.
Connected ==
  /\ ctl \in {"TcpPending", "Tls"} /\ whole /\ relay # "down"
  /\ ctl' = IF ctl = "TcpPending" /\ Secure THEN "Tls" ELSE "RelayUpgrade"
  /\ UNCHANGED <<online, next, backoff, timers, pong, world>>

\* finish_relay_upgrade: 101, or 409 and whatever else.
Upgraded ==
  /\ ctl = "RelayUpgrade" /\ whole /\ relay # "down"
  /\ quiet' = 0
  /\ IF relay = "up" THEN ctl' = "RelayCtl" /\ online' = TRUE /\ backoff' = FirstBackoff
     ELSE ctl' = "dead" /\ UNCHANGED <<online, backoff>>
  /\ UNCHANGED <<next, age, pinged, pong, world>>

\* read_conn of a PONG.
Pong ==
  /\ ctl = "RelayCtl" /\ pong /\ whole /\ relay = "up"
  /\ pong' = FALSE /\ quiet' = 0
  /\ UNCHANGED <<ctl, online, next, backoff, age, pinged, world>>

\* mutant: a relay that went quiet is not given up
GoneUnanswered == ctl \notin {"none", "dead", "RelayCtl"} /\ age > UpgradeLimit

\* run, lines 232-241: no answer for too long.
Gone ==
  \/ ctl = "RelayCtl" /\ quiet > QuietLimit
  \/ ctl \notin {"none", "dead", "RelayCtl"} /\ age > UpgradeLimit

Timeout ==
  /\ Gone /\ ctl' = "dead"
  /\ UNCHANGED <<online, next, backoff, timers, pong, world>>

Ping ==
  /\ ctl = "RelayCtl" /\ ~Gone /\ pinged > PingAfter
  /\ pinged' = 0 /\ pong' = (whole /\ relay = "up")
  /\ UNCHANGED <<ctl, online, next, backoff, age, quiet, world>>

\* Every other end: a connect, a handshake or a read that fails; a CLOSE frame of
\* a relay that shuts down, whose echo is flushed first (Closing).
Fail ==
  /\ ctl \notin {"none", "dead"} /\ (relay # "up" \/ ~whole)
  /\ ctl' \in {"dead"} \cup (IF ctl = "RelayCtl" THEN {"Closing"} ELSE {})
  /\ UNCHANGED <<online, next, backoff, timers, pong, world>>

\* run, lines 252-265 and 271.
Reap ==
  /\ ctl = "dead"
  /\ ctl' = "none" /\ online' = FALSE /\ pong' = FALSE /\ BackOff
  /\ UNCHANGED <<timers, world>>

-----------------------------------------------------------------------------
(* The relay and the network. *)

\* The relay stops or comes back, or the ID is taken or given up; a connection
\* that it had is not told.
Change ==
  /\ faults < MaxFaults /\ faults' = faults + 1
  /\ relay' \in {"up", "taken", "down"} \ {relay} /\ whole' = (ctl = "none")
  /\ UNCHANGED <<ctl, online, next, backoff, timers, pong>>

Lose ==
  /\ faults < MaxFaults /\ faults' = faults + 1
  /\ whole /\ ctl # "none" /\ whole' = FALSE
  /\ UNCHANGED <<ctl, online, next, backoff, timers, pong, relay>>

\* What comes before any more time goes by: the loop's own work, and the answers of
\* a relay that answers.
Due ==
  \/ Gone \/ ctl = "dead" \/ (ctl = "none" /\ next = 0)
  \/ ctl = "RelayCtl" /\ (pinged > PingAfter \/ (pong /\ whole /\ relay = "up"))
  \/ ctl \in {"TcpPending", "Tls", "RelayUpgrade"} /\ whole /\ relay # "down"

Wait ==
  /\ ~Due
  /\ next' = IF next = 0 THEN 0 ELSE next - 1
  /\ IF ctl = "none" THEN UNCHANGED timers
     ELSE /\ age' = Lower(age + 1, UpgradeLimit + 1)   \* more would tell nothing new
          /\ quiet' = Lower(quiet + 1, QuietLimit + 1) /\ pinged' = Lower(pinged + 1, PingAfter + 1)
  /\ UNCHANGED <<ctl, online, backoff, pong, world>>

Program == Open \/ Connected \/ Upgraded \/ Pong \/ Timeout \/ Ping \/ Reap
Next == Program \/ Fail \/ Change \/ Lose \/ Wait

Spec == Init /\ [][Next]_vars
FairSpec == Spec /\ WF_vars(Program) /\ WF_vars(Wait)

-----------------------------------------------------------------------------
(* Properties.                                                             *)

\* Once the relay answers and has nobody else under the ID, the host is on line and
\* stays so over a path that works, whatever went wrong before (lines 230-238,
\* 259-264, 303-314) - also when it was never told that its connection is gone.
BackOnline == <>[](relay = "up") => <>[](online /\ ctl = "RelayCtl" /\ whole)
=============================================================================
