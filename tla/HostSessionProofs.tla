-------------------------- MODULE HostSessionProofs --------------------------
(***************************************************************************)
(* Proofs about HostSession, for any number of connections, addresses and  *)
(* inputs and for every value of the limits: type correctness, that a held *)
(* input belongs to a viewer that will release it, that the viewer lists   *)
(* are true, and that guesses, viewers and relay channels stay within      *)
(* their limits.                                                           *)
(***************************************************************************)
EXTENDS HostSession, FiniteSetTheorems, TLAPS

\* A connection past HELLO has a name; only one that has not begun is unmarked
\* as the relay's before open_relay_conn.
Progress ==
  \A c \in Conn :
    /\ state[c] \in {"Auth", "Active"} => named[c]
    /\ state[c] = "new" => ~relayed[c]

\* Who is on a list was a viewer and has not been reaped; those still in
\* session are on it with the rights they have now.
Entry(e) ==
  /\ named[e.viewer] /\ state[e.viewer] \in {"Active", "Closing"}
  /\ e.viewer \in Active => e.viewOnly = viewOnly[e.viewer]

RosterSound ==
  \A c \in Active :
    /\ Listed(Active, viewOnly) \subseteq roster[c]
    /\ \A e \in roster[c] : Entry(e)

\* An address that has used up its guesses is locked out.
LockedWhenSpent == \A a \in Addr : failures[a] = LockAt + expired[a] => locked[a]

FiniteOpen == IsFiniteSet(Open)

IInv ==
  /\ TypeOK /\ Progress /\ FiniteOpen
  /\ HeldByAViewer /\ RosterSound
  /\ GuessBudget /\ LockedWhenSpent /\ GuessRate
  /\ Capacity
-----------------------------------------------------------------------------
(* Types.                                                                  *)

\* The lists that broadcast_viewers sends are lists of viewers with rights.
LEMMA ListedType ==
  ASSUME NEW act \in SUBSET Conn, NEW vo \in [Conn -> BOOLEAN]
  PROVE  Listed(act, vo) \in SUBSET [viewer : Conn, viewOnly : BOOLEAN]
BY DEF Listed

\* ... and leave every connection with such a list.
LEMMA BroadcastType ==
  ASSUME TypeOK, NEW act \in SUBSET Conn, NEW vo \in [Conn -> BOOLEAN]
  PROVE  Broadcast(act, vo) \in [Conn -> SUBSET [viewer : Conn, viewOnly : BOOLEAN]]
BY ListedType DEF Broadcast, TypeOK

\* The guesses' bookkeeping and the connections after an AUTH message.
LEMMA AuthType ==
  ASSUME HostAssumption, TypeOK, NEW c \in Conn, NEW p \in Password \cup {None}, Auth(c, p)
  PROVE  TypeOK'
<1>. USE DEF TypeOK
<1>1. CASE Refuse(c) /\ UNCHANGED guard
  BY <1>1 DEF Refuse, Hangup, guard
<1>2. CASE Refuse(c) /\ RecordFailure(addr[c])
  BY <1>2, HostAssumption DEF Refuse, Hangup, RecordFailure
<1>3. CASE LogIn(c)
  <2>1. viewOnly' \in [Conn -> BOOLEAN] /\ Active \cup {c} \in SUBSET Conn
    BY <1>3, HostAssumption DEF LogIn, Active
  <2>2. roster' \in [Conn -> SUBSET [viewer : Conn, viewOnly : BOOLEAN]]
    BY <1>3, <2>1, BroadcastType DEF LogIn
  <2>3. unsent' \in [Conn -> BOOLEAN]
    BY <1>3 DEF LogIn
  <2>4. failures' \in [Addr -> Nat] /\ expired' \in [Addr -> Nat] /\ locked' \in [Addr -> BOOLEAN]
    BY <1>3 DEF LogIn
  <2>. QED
    BY <1>3, <2>1, <2>2, <2>3, <2>4 DEF LogIn, Auth
<1>. QED
  BY <1>1, <1>2, <1>3 DEF Auth

\* The count of the operator's commands stays a number.
LEMMA CommandType == TypeOK /\ Command => commands' \in Nat
BY DEF TypeOK, Command

\* Every step keeps the types.
LEMMA TypeStep == HostAssumption /\ TypeOK /\ [Next]_vars => TypeOK'
<1>. SUFFICES ASSUME HostAssumption, TypeOK, [Next]_vars PROVE TypeOK'
  OBVIOUS
<1>. USE DEF TypeOK
<1>1. ASSUME NEW c \in Conn,
             Accept(c) \/ OpenRelayed(c) \/ Upgrade(c) \/ AnswerPage(c)
      PROVE  TypeOK'
  BY <1>1, ZenonT(40) DEF Accept, OpenRelayed, Upgrade, AnswerPage, guard, Live
<1>2. ASSUME NEW c \in Conn, Fail(c) \/ Flush(c) \/ HandshakeTimeout(c) \/ IdleTimeout(c)
      PROVE  TypeOK'
  BY <1>2 DEF Fail, Flush, HandshakeTimeout, IdleTimeout, guard
<1>3. ASSUME NEW c \in Conn, Hello(c) \/ HelloRefused(c) PROVE TypeOK'
  BY <1>3, ZenonT(40) DEF Hello, HelloRefused, guard
<1>4. ASSUME NEW c \in Conn, NEW k \in Input, Press(c, k) \/ Release(c, k) PROVE TypeOK'
  BY <1>4, ZenonT(40) DEF Press, Release, guard
<1>5. ASSUME NEW c \in Conn, Answer(c) PROVE TypeOK'
  <2>1. unsent' \in [Conn -> BOOLEAN]
    BY <1>5 DEF Answer
  <2>. QED
    BY <1>5, <2>1 DEF Answer, guard
<1>6. ASSUME NEW c \in Conn, CloseFrame(c) \/ Kick(c) PROVE TypeOK'
  BY <1>6, CommandType, ZenonT(40) DEF CloseFrame, Kick, Hangup, guard
<1>7. ASSUME NEW c \in Conn, ToggleViewOnly(c) PROVE TypeOK'
  <2>1. viewOnly' \in [Conn -> BOOLEAN] /\ unsent' \in [Conn -> BOOLEAN]
    BY <1>7 DEF ToggleViewOnly
  <2>2. roster' \in [Conn -> SUBSET [viewer : Conn, viewOnly : BOOLEAN]]
    BY <1>7, <2>1, BroadcastType DEF ToggleViewOnly, Active
  <2>3. holder' \in [Input -> Conn \cup {Nobody}]
    BY <1>7 DEF ToggleViewOnly, ReleaseIfSent, AllUp
  <2>. QED
    BY <1>7, <2>1, <2>2, <2>3, CommandType DEF ToggleViewOnly, guard
<1>8. CASE ChangePassword \/ (\E a \in Addr : LockExpires(a)) \/ RecentExpires
  <2>1. CASE ChangePassword
    BY <2>1, CommandType DEF ChangePassword, conns, guard
  <2>2. ASSUME NEW a \in Addr, LockExpires(a) PROVE TypeOK'
    BY <2>2 DEF LockExpires, conns
  <2>3. CASE RecentExpires
    BY <2>3 DEF RecentExpires, conns
  <2>. QED
    BY <1>8, <2>1, <2>2, <2>3
<1>9. CASE Reap
  <2>1. roster' \in [Conn -> SUBSET [viewer : Conn, viewOnly : BOOLEAN]]
    BY <1>9, BroadcastType DEF Reap, Active
  <2>2. holder' \in [Input -> Conn \cup {Nobody}] /\ unsent' \in [Conn -> BOOLEAN]
    BY <1>9 DEF Reap, ReleaseLeft, AllUp
  <2>3. state' \in [Conn -> {"new", "Http", "RelayUpgrade", "Hello", "Auth", "Active",
                             "Closing", "freed"}]
        /\ \A c \in Conn : state'[c] = "Closing" => closing'[c]
    BY <1>9 DEF Reap
  <2>. QED
    BY <1>9, <2>1, <2>2, <2>3 DEF Reap, guard
<1>10. CASE UNCHANGED vars
  BY <1>10 DEF vars
<1>. QED
  BY <1>1, <1>2, <1>3, <1>4, <1>5, <1>6, <1>7, <1>8, <1>9, <1>10, AuthType DEF Next
-----------------------------------------------------------------------------
(* What holds of each connection.                                          *)

\* AUTH only reads a name and the relay's mark.
LEMMA AuthMarks ==
  ASSUME TypeOK, Progress, NEW c \in Conn, NEW p \in Password \cup {None}, Auth(c, p)
  PROVE  /\ named' = named /\ relayed' = relayed /\ named[c]
         /\ state' \in {[state EXCEPT ![c] = "Active"], [state EXCEPT ![c] = "Closing"]}
BY DEF Progress, Auth, Refuse, Hangup, RecordFailure, LogIn

\* Every step keeps the names and the marks in order.
LEMMA ProgressStep == TypeOK /\ Progress /\ [Next]_vars => Progress'
<1>. SUFFICES ASSUME TypeOK, Progress, [Next]_vars PROVE Progress'
  OBVIOUS
<1>. USE DEF TypeOK, Progress
<1>1. ASSUME NEW c \in Conn,
             Accept(c) \/ OpenRelayed(c) \/ Upgrade(c) \/ AnswerPage(c)
             \/ Hello(c) \/ HelloRefused(c)
      PROVE  Progress'
  BY <1>1 DEF Accept, OpenRelayed, Upgrade, AnswerPage, Hello, HelloRefused, Live, Exists
<1>2. ASSUME NEW c \in Conn, NEW p \in Password \cup {None}, Auth(c, p) PROVE Progress'
  BY <1>2, AuthMarks
<1>3. ASSUME NEW c \in Conn, CloseFrame(c) \/ Kick(c) PROVE Progress'
  BY <1>3 DEF CloseFrame, Kick, Hangup
<1>4. CASE UNCHANGED <<state, named, relayed>>
  BY <1>4
<1>5. ASSUME NEW c \in Conn,
             \/ Fail(c) \/ Flush(c) \/ HandshakeTimeout(c) \/ IdleTimeout(c)
             \/ \E k \in Input : Press(c, k) \/ Release(c, k)
             \/ Answer(c) \/ ToggleViewOnly(c)
      PROVE  UNCHANGED <<state, named, relayed>>
  BY <1>5 DEF Fail, Flush, HandshakeTimeout, IdleTimeout, Press, Release, Answer, ToggleViewOnly
<1>6. CASE ChangePassword \/ (\E a \in Addr : LockExpires(a)) \/ RecentExpires \/ UNCHANGED vars
  BY <1>4, <1>6 DEF ChangePassword, LockExpires, RecentExpires, vars, conns
<1>7. CASE Reap
  BY <1>7 DEF Reap
<1>. QED
  BY <1>1, <1>2, <1>3, <1>4, <1>5, <1>6, <1>7 DEF Next

\* Whatever connections do, who holds an input is still there and will release it.
LEMMA HeldStep == HostAssumption /\ TypeOK /\ HeldByAViewer /\ [Next]_vars => HeldByAViewer'
<1>. SUFFICES ASSUME HostAssumption, TypeOK, HeldByAViewer, [Next]_vars, NEW k \in Input,
                     (holder[k] # Nobody)'
              PROVE  (LET c == holder[k] IN
                      Exists(c) /\ sentInput[c] /\ ~viewOnly[c] /\ state[c] \in {"Active", "Closing"})'
  BY DEF HeldByAViewer, Down
<1>. DEFINE Holds(c) == Exists(c) /\ sentInput[c] /\ ~viewOnly[c] /\ state[c] \in {"Active", "Closing"}
<1>a. /\ holder[k] \in Conn => Holds(holder[k])
      /\ holder[k] \in Conn \cup {Nobody}
      /\ Nobody \notin Conn
  BY DEF HostAssumption, HeldByAViewer, Down, TypeOK
<1>. USE DEF TypeOK, Exists
<1>1. ASSUME NEW c \in Conn,
             Accept(c) \/ OpenRelayed(c) \/ Upgrade(c) \/ AnswerPage(c)
             \/ Hello(c) \/ HelloRefused(c)
      PROVE  Holds(holder[k])'
  BY <1>1, <1>a DEF Accept, OpenRelayed, Upgrade, AnswerPage, Hello, HelloRefused, Live
<1>2. ASSUME NEW c \in Conn, NEW p \in Password \cup {None}, Auth(c, p)
      PROVE  Holds(holder[k])'
  <2>1. CASE Refuse(c)
    BY <1>2, <2>1, <1>a DEF Auth, Refuse, Hangup
  <2>2. CASE LogIn(c)
    <3>1. \A d \in Conn : d # c => viewOnly'[d] = viewOnly[d] /\ state'[d] = state[d]
      BY <2>2 DEF LogIn
    <3>2. holder[k] # c /\ UNCHANGED <<holder, sentInput>>
      BY <1>2, <2>2, <1>a DEF Auth, LogIn
    <3>. QED
      BY <3>1, <3>2, <1>a
  <2>. QED
    BY <1>2, <2>1, <2>2 DEF Auth
<1>3. ASSUME NEW c \in Conn, CloseFrame(c) \/ Kick(c) PROVE Holds(holder[k])'
  BY <1>3, <1>a DEF CloseFrame, Kick, Hangup
<1>4. CASE UNCHANGED <<state, viewOnly, sentInput, holder>>
  BY <1>4, <1>a
<1>5. ASSUME NEW c \in Conn,
             Fail(c) \/ Flush(c) \/ HandshakeTimeout(c) \/ IdleTimeout(c) \/ Answer(c)
      PROVE  UNCHANGED <<state, viewOnly, sentInput, holder>>
  BY <1>5 DEF Fail, Flush, HandshakeTimeout, IdleTimeout, Answer
<1>6. CASE ChangePassword \/ (\E a \in Addr : LockExpires(a)) \/ RecentExpires \/ UNCHANGED vars
  BY <1>4, <1>6 DEF ChangePassword, LockExpires, RecentExpires, vars, conns
<1>7. ASSUME NEW c \in Conn, NEW j \in Input, Press(c, j) \/ Release(c, j)
      PROVE  Holds(holder[k])'
  BY <1>7, <1>a DEF Press, Release, Active
<1>8. ASSUME NEW c \in Conn, ToggleViewOnly(c) PROVE Holds(holder[k])'
  <2>1. CASE ~viewOnly[c] /\ sentInput[c]
    BY <1>8, <2>1, <1>a DEF ToggleViewOnly, ReleaseIfSent, AllUp
  <2>2. CASE ~(~viewOnly[c] /\ sentInput[c])
    BY <1>8, <2>2, <1>a DEF ToggleViewOnly, ReleaseIfSent
  <2>. QED
    BY <2>1, <2>2
<1>9. CASE Reap
  <2>1. CASE \E c \in Dead : sentInput[c]
    BY <1>9, <2>1 DEF Reap, ReleaseLeft, AllUp
  <2>2. CASE ~\E c \in Dead : sentInput[c]
    BY <1>9, <2>2, <1>a DEF Reap, ReleaseLeft
  <2>. QED
    BY <2>1, <2>2
<1>. QED
  BY <1>1, <1>2, <1>3, <1>4, <1>5, <1>6, <1>7, <1>8, <1>9 DEF Next
-----------------------------------------------------------------------------
(* The viewer lists.                                                       *)

\* A step that sends everyone in session the new list.
Announced == roster' = Broadcast(Active', viewOnly')

\* A step that nobody is told of: none joins or changes rights, and whoever was
\* on a list is still connected.
Silent ==
  /\ roster' = roster /\ viewOnly' = viewOnly
  /\ Active' \subseteq Active
  /\ \A d \in Conn : state[d] \in {"Active", "Closing"} /\ named[d]
                     => state'[d] \in {"Active", "Closing"} /\ named'[d]

\* Every step is one or the other.
LEMMA AnnouncedOrSilent == TypeOK /\ Progress /\ [Next]_vars => Announced \/ Silent
<1>. SUFFICES ASSUME TypeOK, Progress, [Next]_vars PROVE Announced \/ Silent
  OBVIOUS
<1>. USE DEF TypeOK, Active
<1>1. ASSUME NEW c \in Conn,
             Accept(c) \/ OpenRelayed(c) \/ Upgrade(c) \/ AnswerPage(c)
             \/ Hello(c) \/ HelloRefused(c)
      PROVE  Silent
  BY <1>1 DEF Silent, Accept, OpenRelayed, Upgrade, AnswerPage, Hello, HelloRefused
<1>2. ASSUME NEW c \in Conn, NEW p \in Password \cup {None}, Auth(c, p)
      PROVE  Announced \/ Silent
  <2>1. CASE Refuse(c)
    BY <1>2, <2>1 DEF Silent, Auth, Refuse, Hangup
  <2>2. CASE LogIn(c)
    <3>1. Active' = Active \cup {c}
      BY <1>2, <2>2 DEF Auth, LogIn, Live
    <3>. QED
      BY <2>2, <3>1 DEF Announced, LogIn
  <2>. QED
    BY <1>2, <2>1, <2>2 DEF Auth
<1>3. ASSUME NEW c \in Conn, CloseFrame(c) \/ Kick(c) PROVE Silent
  BY <1>3 DEF Silent, CloseFrame, Kick, Hangup
<1>4. CASE UNCHANGED <<state, dead, named, viewOnly, roster>>
  BY <1>4 DEF Silent
<1>5. ASSUME NEW c \in Conn, Fail(c) \/ Flush(c) \/ HandshakeTimeout(c) \/ IdleTimeout(c)
      PROVE  Silent
  BY <1>5 DEF Silent, Fail, Flush, HandshakeTimeout, IdleTimeout, Live
<1>6. ASSUME NEW c \in Conn, Answer(c) \/ \E k \in Input : Press(c, k) \/ Release(c, k)
      PROVE  UNCHANGED <<state, dead, named, viewOnly, roster>>
  BY <1>6 DEF Answer, Press, Release
<1>7. ASSUME NEW c \in Conn, ToggleViewOnly(c) PROVE Announced
  BY <1>7 DEF ToggleViewOnly, Announced
<1>8. CASE ChangePassword \/ (\E a \in Addr : LockExpires(a)) \/ RecentExpires \/ UNCHANGED vars
  BY <1>4, <1>8 DEF ChangePassword, LockExpires, RecentExpires, vars, conns
<1>9. CASE Reap
  <2>1. Active' = Active
    BY <1>9 DEF Reap, Dead, Open
  <2>2. CASE Departed = {}
    BY <1>9, <2>1, <2>2 DEF Reap, Departed, Silent
  <2>3. CASE Departed # {}
    BY <1>9, <2>1, <2>3 DEF Reap, Announced
  <2>. QED
    BY <2>2, <2>3
<1>. QED
  BY <1>1, <1>2, <1>3, <1>4, <1>5, <1>6, <1>7, <1>8, <1>9 DEF Next

\* The lists stay true.
LEMMA RosterStep ==
  TypeOK /\ TypeOK' /\ Progress /\ Progress' /\ RosterSound /\ [Next]_vars => RosterSound'
<1>. SUFFICES ASSUME TypeOK, TypeOK', Progress, Progress', RosterSound, [Next]_vars,
                     NEW c \in Active'
              PROVE  /\ Listed(Active', viewOnly') \subseteq roster'[c]
                     /\ \A e \in roster'[c] : Entry(e)'
  BY DEF RosterSound
<1>1. c \in Conn
  BY DEF Active
<1>2. CASE Announced
  <2>1. roster'[c] = Listed(Active', viewOnly')
    BY <1>1, <1>2 DEF Announced, Broadcast
  <2>2. ASSUME NEW e \in roster'[c] PROVE Entry(e)'
    <3>1. PICK d \in Active' : e = [viewer |-> d, viewOnly |-> viewOnly'[d]]
      BY <2>1 DEF Listed
    <3>2. e.viewer = d /\ e.viewOnly = viewOnly'[d]
      BY <3>1
    <3>3. d \in Conn /\ state'[d] = "Active" /\ named'[d]
      BY DEF Active, Progress
    <3>. QED
      BY <3>2, <3>3 DEF Entry
  <2>. QED
    BY <2>1, <2>2
<1>3. CASE Silent
  <2>1. c \in Active /\ roster'[c] = roster[c]
    BY <1>3 DEF Silent
  <2>2. Listed(Active', viewOnly') \subseteq Listed(Active, viewOnly)
    BY <1>3 DEF Silent, Listed
  <2>3. ASSUME NEW e \in roster[c] PROVE Entry(e)'
    <3>1. Entry(e) /\ e.viewer \in Conn
      BY <1>1, <2>1 DEF RosterSound, TypeOK
    <3>. QED
      BY <1>3, <3>1 DEF Silent, Entry
  <2>. QED
    BY <2>1, <2>2, <2>3 DEF RosterSound
<1>. QED
  BY <1>2, <1>3, AnnouncedOrSilent

-----------------------------------------------------------------------------
(* Guesses.                                                                *)

Guesses == GuessBudget /\ LockedWhenSpent /\ GuessRate

\* A guess is counted only while there is one left, and the last one locks.
LEMMA FailureStep ==
  ASSUME HostAssumption, TypeOK, Guesses, NEW a \in Addr, ~LockedOut(a), RecordFailure(a)
  PROVE  Guesses'
<1>. USE DEF HostAssumption, TypeOK, Guesses
<1>1. recent' <= RecentLimit
  BY DEF LockedOut, RecordFailure
<1>2. ASSUME NEW b \in Addr
      PROVE  /\ failures'[b] <= LockAt + expired'[b]
             /\ failures'[b] = LockAt + expired'[b] => locked'[b]
  <2>1. /\ failures[b] <= LockAt + expired[b]
        /\ failures[b] = LockAt + expired[b] => locked[b]
        /\ failures[b] \in Nat /\ expired[b] \in Nat /\ LockAt \in Nat
    BY DEF GuessBudget, LockedWhenSpent
  <2>2. CASE b = a
    <3>1. ~locked[a] /\ failures'[b] = failures[b] + 1 /\ expired'[b] = expired[b]
          /\ (failures[b] + 1 >= LockAt => locked'[b])
      BY <2>2 DEF RecordFailure, LockedOut
    <3>2. failures[b] < LockAt + expired[b]
      BY <2>1, <2>2, <3>1
    <3>. QED
      BY <2>1, <3>1, <3>2
  <2>3. CASE b # a
    <3>1. failures'[b] = failures[b] /\ expired'[b] = expired[b] /\ locked'[b] = locked[b]
      BY <2>3 DEF RecordFailure
    <3>. QED
      BY <2>1, <3>1
  <2>. QED
    BY <2>2, <2>3
<1>. QED
  BY <1>1, <1>2 DEF GuessBudget, LockedWhenSpent, GuessRate

\* Every step keeps the limits on guessing.
LEMMA GuessStep == HostAssumption /\ TypeOK /\ Guesses /\ [Next]_vars => Guesses'
<1>. SUFFICES ASSUME HostAssumption, TypeOK, Guesses, [Next]_vars PROVE Guesses'
  OBVIOUS
<1>. USE DEF HostAssumption, TypeOK
<1>1. CASE UNCHANGED guard
  BY <1>1 DEF guard, Guesses, GuessBudget, LockedWhenSpent, GuessRate
<1>2. ASSUME NEW c \in Conn,
             \/ Accept(c) \/ OpenRelayed(c) \/ Upgrade(c) \/ AnswerPage(c)
             \/ Fail(c) \/ Flush(c) \/ HandshakeTimeout(c) \/ IdleTimeout(c)
             \/ Hello(c) \/ HelloRefused(c)
             \/ \E k \in Input : Press(c, k) \/ Release(c, k)
             \/ Answer(c) \/ CloseFrame(c) \/ Kick(c) \/ ToggleViewOnly(c)
      PROVE  UNCHANGED guard
  BY <1>2 DEF Accept, OpenRelayed, Upgrade, AnswerPage, Fail, Flush, HandshakeTimeout, IdleTimeout,
              Hello, HelloRefused, Press, Release, Answer, CloseFrame, Kick, ToggleViewOnly
<1>3. CASE ChangePassword \/ Reap \/ UNCHANGED vars
  BY <1>1, <1>3 DEF ChangePassword, Reap, vars, guard
<1>4. ASSUME NEW c \in Conn, NEW p \in Password \cup {None}, Auth(c, p) PROVE Guesses'
  <2>1. CASE ~LockedOut(addr[c]) /\ RecordFailure(addr[c])
    BY <2>1, FailureStep
  <2>2. CASE LogIn(c)
    <3>1. recent' = recent
      BY <2>2 DEF LogIn
    <3>2. ASSUME NEW b \in Addr
          PROVE  \/ failures'[b] = failures[b] /\ expired'[b] = expired[b] /\ locked'[b] = locked[b]
                 \/ failures'[b] = 0 /\ expired'[b] = 0
      BY <2>2 DEF LogIn
    <3>. QED
      BY <3>1, <3>2 DEF Guesses, GuessBudget, LockedWhenSpent, GuessRate
  <2>. QED
    BY <1>1, <1>4, <2>1, <2>2 DEF Auth
<1>5. ASSUME NEW a \in Addr, LockExpires(a) PROVE Guesses'
  <2>1. failures' = failures /\ recent' = recent
        /\ \A b \in Addr : \/ expired'[b] = expired[b] /\ locked'[b] = locked[b]
                           \/ expired'[b] = expired[b] + 1
    BY <1>5 DEF LockExpires
  <2>. QED
    BY <2>1 DEF Guesses, GuessBudget, LockedWhenSpent, GuessRate
<1>6. CASE RecentExpires
  BY <1>6 DEF RecentExpires, Guesses, GuessBudget, LockedWhenSpent, GuessRate
<1>. QED
  BY <1>1, <1>2, <1>3, <1>4, <1>5, <1>6 DEF Next
-----------------------------------------------------------------------------
(* What is shared out.                                                     *)

\* Connections that count against the relay's share.
RelayedOpen == {c \in Open : relayed[c] /\ ~dead[c]}

\* A step that opens no connection and makes none a viewer.
NoGrowth == Open' \subseteq Open /\ Active' \subseteq Active /\ RelayedOpen' \subseteq RelayedOpen

Shares == FiniteOpen /\ Capacity

\* The sets that are counted are finite.
LEMMA Countable ==
  ASSUME FiniteOpen
  PROVE  /\ IsFiniteSet(Open) /\ IsFiniteSet(Active) /\ IsFiniteSet(RelayedOpen)
         /\ Cardinality(Active) \in Nat /\ Cardinality(RelayedOpen) \in Nat
<1>1. Active \in SUBSET Open /\ RelayedOpen \in SUBSET Open
  BY DEF Active, RelayedOpen, Open, Exists
<1>. QED
  BY <1>1, FS_Subset, FS_CardinalityType DEF FiniteOpen

\* Without growth, what was within its share still is.
LEMMA SharesShrink ==
  ASSUME HostAssumption, Shares, NoGrowth
  PROVE  Shares'
<1>1. IsFiniteSet(Open') /\ IsFiniteSet(Active') /\ IsFiniteSet(RelayedOpen')
      /\ Cardinality(Active') <= Cardinality(Active)
      /\ Cardinality(RelayedOpen') <= Cardinality(RelayedOpen)
  BY Countable, FS_Subset DEF NoGrowth, Shares
<1>2. Cardinality(Active') \in Nat /\ Cardinality(RelayedOpen') \in Nat
  BY <1>1, FS_CardinalityType
<1>. QED
  BY <1>1, <1>2, Countable DEF Shares, FiniteOpen, Capacity, RelayedOpen, HostAssumption

\* Steps that give no place away: those before and at the end of a connection ...
LEMMA MostSharesStep ==
  ASSUME TypeOK, NEW c \in Conn,
         \/ Upgrade(c) \/ AnswerPage(c) \/ Hello(c) \/ HelloRefused(c)
         \/ Fail(c) \/ Flush(c) \/ HandshakeTimeout(c) \/ IdleTimeout(c)
  PROVE  NoGrowth
<1>. USE DEF TypeOK, NoGrowth, Open, Active, RelayedOpen, Exists
<1>1. CASE Upgrade(c) \/ AnswerPage(c) \/ Hello(c) \/ HelloRefused(c)
  BY <1>1 DEF Upgrade, AnswerPage, Hello, HelloRefused, Live
<1>2. CASE Fail(c) \/ Flush(c) \/ HandshakeTimeout(c) \/ IdleTimeout(c)
  BY <1>2 DEF Fail, Flush, HandshakeTimeout, IdleTimeout, Live
<1>. QED
  BY <1>1, <1>2

\* ... and the last message of one.
LEMMA HangupShares ==
  ASSUME TypeOK, NEW c \in Conn, Exists(c), Hangup(c), UNCHANGED <<dead, relayed>>
  PROVE  NoGrowth
BY DEF TypeOK, NoGrowth, Open, Active, RelayedOpen, Exists, Hangup

\* A place is given away only while there is one.
LEMMA SharesStep ==
  HostAssumption /\ TypeOK /\ Progress /\ Shares /\ [Next]_vars => Shares'
<1>. SUFFICES ASSUME HostAssumption, TypeOK, Progress, Shares, [Next]_vars PROVE Shares'
  OBVIOUS
<1>1. ASSUME NEW c \in Conn, Accept(c) PROVE Shares'
  <2>1. Open' = Open \cup {c} /\ Active' = Active /\ RelayedOpen' = RelayedOpen
    BY <1>1 DEF TypeOK, Progress, Accept, Open, Active, RelayedOpen, Exists
  <2>. QED
    BY <2>1, FS_AddElement DEF Shares, FiniteOpen, Capacity, RelayedOpen
<1>2. ASSUME NEW c \in Conn, OpenRelayed(c) PROVE Shares'
  <2>1. Open' = Open \cup {c} /\ Active' = Active /\ RelayedOpen' \in SUBSET (RelayedOpen \cup {c})
    BY <1>2 DEF TypeOK, OpenRelayed, Open, Active, RelayedOpen, Exists
  <2>2. IsFiniteSet(Open') /\ Cardinality(RelayedOpen') <= Cardinality(RelayedOpen \cup {c})
        /\ IsFiniteSet(RelayedOpen \cup {c}) /\ IsFiniteSet(RelayedOpen')
        /\ Cardinality(RelayedOpen \cup {c}) <= Cardinality(RelayedOpen) + 1
    BY <2>1, Countable, FS_AddElement, FS_Subset DEF Shares, FiniteOpen
  <2>3. Cardinality(RelayedOpen) < RelayedCap
    BY <1>2 DEF OpenRelayed, RoomForRelayed, RelayedOpen
  <2>4. Cardinality(RelayedOpen') \in Nat /\ Cardinality(RelayedOpen) \in Nat
        /\ Cardinality(RelayedOpen \cup {c}) \in Nat /\ RelayedCap \in Nat
    BY <2>2, Countable, FS_CardinalityType DEF Shares, HostAssumption
  <2>5. Cardinality(RelayedOpen') <= RelayedCap
    BY <2>2, <2>3, <2>4
  <2>. QED
    BY <2>1, <2>2, <2>5 DEF Shares, FiniteOpen, Capacity, RelayedOpen
<1>3. ASSUME NEW c \in Conn,
             \/ Upgrade(c) \/ AnswerPage(c) \/ Hello(c) \/ HelloRefused(c)
             \/ Fail(c) \/ Flush(c) \/ HandshakeTimeout(c) \/ IdleTimeout(c)
      PROVE  Shares'
  BY <1>3, MostSharesStep, SharesShrink
<1>9. ASSUME NEW c \in Conn, CloseFrame(c) \/ Kick(c) PROVE Shares'
  <2>1. Exists(c) /\ Hangup(c) /\ UNCHANGED <<dead, relayed>>
    BY <1>9 DEF CloseFrame, Kick, Active, Exists, Live
  <2>. QED
    BY <2>1, HangupShares, SharesShrink
<1>4. ASSUME NEW c \in Conn, NEW p \in Password \cup {None}, Auth(c, p) PROVE Shares'
  <2>1. CASE Refuse(c)
    <3>1. Exists(c) /\ Hangup(c) /\ UNCHANGED <<dead, relayed>>
      BY <1>4, <2>1 DEF Auth, Refuse, Live
    <3>. QED
      BY <3>1, HangupShares, SharesShrink
  <2>2. CASE ~Full /\ LogIn(c)
    <3>1. Open' = Open /\ Active' = Active \cup {c} /\ RelayedOpen' = RelayedOpen
      BY <1>4, <2>2 DEF TypeOK, Auth, LogIn, Live, Open, Active, RelayedOpen, Exists
    <3>a. IsFiniteSet(Active) /\ Cardinality(Active) \in Nat
      BY Countable DEF Shares
    <3>b. Cardinality(Active \cup {c}) =
            IF c \in Active THEN Cardinality(Active) ELSE Cardinality(Active) + 1
      BY <3>a, FS_AddElement
    <3>2. Cardinality(Active') <= Cardinality(Active) + 1 /\ Cardinality(Active') \in Nat
      BY <3>1, <3>a, <3>b
    <3>3. Cardinality(Active') <= MaxViewers
      BY <2>2, <3>2, <3>a DEF Full, HostAssumption
    <3>. QED
      BY <3>1, <3>3 DEF Shares, FiniteOpen, Capacity, RelayedOpen
  <2>. QED
    BY <1>4, <2>1, <2>2 DEF Auth
<1>5. CASE UNCHANGED <<state, dead, relayed>>
  BY <1>5 DEF Shares, FiniteOpen, Capacity, Open, Active, Exists
<1>6. ASSUME NEW c \in Conn,
             (\E k \in Input : Press(c, k) \/ Release(c, k)) \/ Answer(c) \/ ToggleViewOnly(c)
      PROVE  UNCHANGED <<state, dead, relayed>>
  BY <1>6 DEF Press, Release, Answer, ToggleViewOnly
<1>7. CASE ChangePassword \/ (\E a \in Addr : LockExpires(a)) \/ RecentExpires \/ UNCHANGED vars
  BY <1>5, <1>7 DEF ChangePassword, LockExpires, RecentExpires, vars, conns
<1>8. CASE Reap
  <2>1. NoGrowth
    BY <1>8 DEF TypeOK, NoGrowth, Reap, Dead, Open, Active, RelayedOpen, Exists
  <2>. QED
    BY <2>1, SharesShrink
<1>. QED
  BY <1>1, <1>2, <1>3, <1>4, <1>5, <1>6, <1>7, <1>8, <1>9 DEF Next

-----------------------------------------------------------------------------
(* The theorems.                                                           *)

\* The program starts in a good state ...
LEMMA InitIInv == HostAssumption /\ Init => IInv
<1>. SUFFICES ASSUME HostAssumption, Init PROVE IInv
  OBVIOUS
<1>1. TypeOK /\ Progress
  BY DEF Init, HostAssumption, TypeOK, Progress
<1>2. Open = {} /\ Active = {} /\ RelayedOpen = {}
  BY DEF Init, Open, Active, RelayedOpen, Exists
<1>3. FiniteOpen /\ Capacity
  BY <1>2, FS_EmptySet DEF FiniteOpen, Capacity, RelayedOpen, HostAssumption
<1>4. HeldByAViewer /\ RosterSound
  BY <1>2 DEF Init, HeldByAViewer, Down, RosterSound
<1>5. GuessBudget /\ LockedWhenSpent /\ GuessRate
  BY DEF Init, HostAssumption, GuessBudget, LockedWhenSpent, GuessRate
<1>. QED
  BY <1>1, <1>3, <1>4, <1>5 DEF IInv

\* ... and every step leads from a good state to a good state.
LEMMA NextIInv == HostAssumption /\ IInv /\ [Next]_vars => IInv'
<1>. SUFFICES ASSUME HostAssumption, IInv, [Next]_vars PROVE IInv'
  OBVIOUS
<1>1. TypeOK' /\ Progress' /\ HeldByAViewer'
  BY TypeStep, ProgressStep, HeldStep DEF IInv
<1>2. RosterSound'
  BY <1>1, RosterStep DEF IInv
<1>3. Guesses' /\ Shares'
  BY GuessStep, SharesStep DEF IInv, Guesses, Shares
<1>. QED
  BY <1>1, <1>2, <1>3 DEF IInv, Guesses, Shares

\* So every reachable state is a good one.
LEMMA Inductive == Spec => []IInv
BY InitIInv, NextIInv, HostAssumption, PTL DEF Spec

\* The variables of Server and Conn keep to their types, and a connection that
\* hang-up left in Closing is always marked to be closed once it is flushed.
THEOREM TypeCorrect == Spec => []TypeOK
<1>1. IInv => TypeOK
  BY DEF IInv
<1>. QED
  BY <1>1, Inductive, PTL

\* on_authenticated, close frames, kicks, view-only and reap, in any order and over
\* any number of viewers, leave no input down that no one will release.
THEOREM InputsAreHeld == Spec => []HeldByAViewer
<1>1. IInv => HeldByAViewer
  BY DEF IInv
<1>. QED
  BY <1>1, Inductive, PTL

\* broadcast_viewers is called often enough: the list that was last queued for a
\* viewer has all in session with their rights, and of others only those that
\* the host has not reaped.
THEOREM RostersAreCurrent == Spec => []RosterCurrent
<1>1. IInv => RosterCurrent
  <2>. SUFFICES ASSUME IInv, NEW c \in Active, NEW e \in roster[c] \ Listed(Active, viewOnly)
                PROVE  Exists(e.viewer) /\ e.viewer \notin Active
    BY DEF IInv, RosterSound, RosterCurrent
  <2>1. Entry(e) /\ e \in [viewer : Conn, viewOnly : BOOLEAN]
    BY DEF IInv, RosterSound, TypeOK, Active
  <2>2. e.viewer \notin Active
    <3>. SUFFICES ASSUME e.viewer \in Active PROVE FALSE
      OBVIOUS
    <3>1. e = [viewer |-> e.viewer, viewOnly |-> viewOnly[e.viewer]]
      BY <2>1 DEF Entry
    <3>. QED
      BY <3>1 DEF Listed
  <2>. QED
    BY <2>1, <2>2 DEF Entry, Exists
<1>. QED
  BY <1>1, Inductive, PTL

\* locked_out and record_auth_failure: over any number of connections and
\* addresses, an address has LockAt guesses and one more for each lockout that
\* ran out, and all together have RecentLimit in a minute.
THEOREM GuessesAreLimited == Spec => []GuessLimits
<1>1. IInv => GuessLimits
  BY DEF IInv, GuessLimits
<1>. QED
  BY <1>1, Inductive, PTL

\* Neither the viewers in session nor the channels through the relay exceed what
\* the options allow, however connections come and go.
THEOREM CapacityIsKept == Spec => []Capacity
<1>1. IInv => Capacity
  BY DEF IInv
<1>. QED
  BY <1>1, Inductive, PTL
=============================================================================
