-------------------------- MODULE RoomControlProofs --------------------------
(***************************************************************************)
(* Proofs about RoomControl for any number of zones, inputs, editors,      *)
(* users' commands, keypad changes, failures and configuration changes.    *)
(***************************************************************************)
EXTENDS RoomControl, SequenceTheorems, WellFoundedInduction, TLAPS

-----------------------------------------------------------------------------
(* Keypad wake-ups. *)

Waking == \E u \in late \cup Handled : u.update.setting = "wake"

\* A connection that goes takes no wake-up with it: its listener still sets it.
LEMMA WakingOutlivesConnection ==
    ASSUME Waking, LeavesLast
    PROVE  Waking'
  BY DEF Waking, Handled, LeavesLast

\* Only the wake-up itself ends a listener's waking.
LEMMA WakingOutlivesOthers ==
    ASSUME Waking, NEW u, Done(u), u.update.setting # "wake"
    PROVE  Waking'
<1>1. PICK v \in late \cup Handled : v.update.setting = "wake"
  BY DEF Waking
<1>2. v # u
  BY <1>1
<1>3. v \in late' \cup Handled'
  BY <1>1, <1>2 DEF Done, Handled
<1> QED BY <1>1, <1>3 DEF Waking

\* The initial state has no zone waiting.
LEMMA WakeUpInit == Init => WakeUpsAreKept
  BY DEF Init, WakeUpsAreKept

\* Every step keeps the wake-up of a zone that waits.
LEMMA WakeUpNext == WakeUpsAreKept /\ [Next]_vars => WakeUpsAreKept'
<1> SUFFICES ASSUME WakeUpsAreKept, [Next]_vars, refresh' # {}
             PROVE  wake' \/ watcher'.pc = "take" \/ Waking'
  BY DEF WakeUpsAreKept, Waking
<1> DEFINE Noticed == refresh = {} \/ wake \/ watcher.pc = "take" \/ Waking
<1>0. Noticed
  BY DEF WakeUpsAreKept, Waking
<1> USE <1>0
<1>1. ASSUME UNCHANGED <<busy, late, refresh, wake, watcher>> PROVE Noticed'
  BY <1>1 DEF Waking, Handled
<1>2. ASSUME LeavesLast \/ UNCHANGED <<busy, late>>, UNCHANGED <<refresh, wake>>,
             watcher' = watcher \/ watcher.pc # "take"
      PROVE  Noticed'
  BY <1>2, WakingOutlivesConnection DEF Waking, Handled
<1>10. ASSUME NEW up, Connects(up) PROVE LeavesLast \/ UNCHANGED <<busy, late>>
  BY <1>10 DEF Connects, Dropped, listening
<1>3. ASSUME World PROVE Noticed'
    BY <1>1, <1>3 DEF World, KeypadChange, ConnectionLost, Lost, ControllerSilent, Recovers,
      BackoffEnds, flags, server, listening
<1>4. ASSUME Begin \/ Command PROVE Noticed'
  <2>1. CASE WriteFails \/ WriteGoesOut
    <3>1. LeavesLast \/ UNCHANGED <<busy, late>>
      BY <1>10, <2>1 DEF WriteFails, WriteGoesOut, Lost, listening
    <3> QED BY <1>2, <2>1, <3>1 DEF WriteFails, WriteGoesOut, flags
  <2> QED
    BY <1>1, <1>4, <2>1 DEF Begin, Command, SaveCommand, flags, listening
<1>5. ASSUME Listener PROVE Noticed'
  <2>1. CASE TakeUpdate
    <3>1. CASE Head(wire).setting = "refresh"
      BY <2>1, <3>1 DEF TakeUpdate, Waking, Handled, Hint, Write, NoUpdate
    <3>2. CASE Head(wire).setting # "refresh"
      BY <2>1, <3>2 DEF TakeUpdate, Waking, Handled, server
    <3> QED BY <3>1, <3>2
  <2>2. ASSUME NEW u \in late \cup Handled, SetWake(u) PROVE Noticed'
    BY <2>2 DEF SetWake
  <2>3. ASSUME NEW u \in late \cup Handled, ApplyUpdate(u) PROVE Noticed'
    <3>1. u.update.setting # "wake" /\ Done(u) /\ UNCHANGED <<refresh, wake, watcher>>
      BY <2>3 DEF ApplyUpdate, flags, server
    <3> QED BY <3>1, WakingOutlivesOthers
  <2> QED BY <1>5, <2>1, <2>2, <2>3 DEF Listener
<1>6. ASSUME Watcher PROVE Noticed'
  <2>1. CASE ClearWake
    BY <2>1 DEF ClearWake, Go, Resting
  <2>2. CASE TakeZones
    BY <2>2 DEF TakeZones
  <2>3. CASE Ensure \/ Woken \/ PollDue \/ NotDue \/ BeginRead \/ ZoneAnswers \/ ZonePartly \/ ZoneSilent \/ EndRead
    <3>1. watcher.pc # "take" /\ UNCHANGED <<refresh, wake>>
      BY <2>3 DEF Ensure, Woken, PollDue, NotDue, BeginRead, ZoneAnswers, ZonePartly, ZoneSilent, EndRead,
        StartPoll, SkipPoll, PollTakes, flags
    <3>2. LeavesLast \/ UNCHANGED <<busy, late>>
      BY <1>10, <2>3 DEF Ensure, Woken, PollDue, NotDue, BeginRead, ZoneAnswers, ZonePartly, ZoneSilent,
        EndRead, listening
    <3> QED BY <1>2, <3>1, <3>2
  <2> QED BY <1>6, <2>1, <2>2, <2>3 DEF Watcher
<1>7. ASSUME NEW e \in Editors, SaveConfig(e) PROVE Noticed'
  <2>1. UNCHANGED <<refresh, wake, watcher>>
    BY <1>7 DEF SaveConfig, flags
  <2>2. CASE UNCHANGED listening
    BY <1>1, <2>1, <2>2 DEF listening
  <2>3. CASE Dropped
    BY <1>2, <2>1, <2>3 DEF Dropped
  <2> QED BY <1>7, <2>2, <2>3 DEF SaveConfig
<1>8. ASSUME NEW e \in Editors, Editing(e) PROVE Noticed'
  <2>1. CASE WakeWatcher(e)
    BY <2>1 DEF WakeWatcher
  <2> QED
    BY <1>1, <1>8, <2>1 DEF Editing, CloseOld, ClearFlag, AskForPoll, flags, listening
<1>9. CASE UNCHANGED vars
  BY <1>1, <1>9 DEF vars
<1> QED
  BY <1>3, <1>4, <1>5, <1>6, <1>7, <1>8, <1>9 DEF Next

\* In every run a zone that a keypad changed stays noticed until it is read.
THEOREM WakeUps == Spec => []WakeUpsAreKept
  BY WakeUpInit, WakeUpNext, PTL DEF Spec

-----------------------------------------------------------------------------
(* Who works on the saved state. *)

\* state_lock is held by the thread that reads the zones exactly while it reads
\* them, and both records keep the state they have loaded.
LockInv ==
    /\ lock \in {"command", "watcher", Nobody}
    /\ lock = "watcher" <=> watcher.pc = "read"
    /\ DOMAIN cmd = DOMAIN NoCommand
    /\ DOMAIN watcher = DOMAIN Resting
Serialized == LockInv /\ NoLostUpdate

\* The initial state is idle.
LEMMA SerializedInit == Init => Serialized
  BY NobodyAssumption DEF Init, Serialized, LockInv, NoLostUpdate, NoCommand, Resting

\* A resting watcher reads nothing.
LEMMA WatcherRests ==
    ASSUME Serialized, NEW pc, pc # "read", watcher.pc # "read",
           watcher'.pc = pc, DOMAIN watcher' = DOMAIN Resting, UNCHANGED <<lock, cmd, saved>>
    PROVE  Serialized'
  BY DEF Serialized, LockInv, NoLostUpdate

\* Steps of anybody who neither holds the lock nor takes it.
LEMMA OthersStep ==
    ASSUME Serialized, UNCHANGED <<lock, cmd, watcher, saved>>
    PROVE  Serialized'
  BY DEF Serialized, LockInv, NoLostUpdate

\* Every step leaves the saved state to the holder of the lock.
LEMMA SerializedNext == Serialized /\ [Next]_vars => Serialized'
<1> SUFFICES ASSUME Serialized, [Next]_vars PROVE Serialized'
  OBVIOUS
<1>1. ASSUME World PROVE Serialized'
  BY <1>1, OthersStep DEF World, KeypadChange, ConnectionLost, ControllerSilent, Recovers,
    BackoffEnds, server
<1>2. ASSUME Begin PROVE Serialized'
  <2>1. lock = Nobody /\ lock' = "command" /\ UNCHANGED <<watcher, saved>>
    BY <1>2 DEF Begin, Free
  <2>2. DOMAIN cmd' = DOMAIN NoCommand /\ cmd'.base = saved
    BY <1>2 DEF Begin, NoCommand
  <2> QED BY <2>1, <2>2, NobodyAssumption DEF Serialized, LockInv, NoLostUpdate
<1>3. ASSUME Command PROVE Serialized'
  <2>1. lock = "command" /\ watcher' = watcher /\ watcher.pc # "read"
    BY <1>3 DEF Command, WriteGoesOut, WriteFails, SaveCommand, Serialized, LockInv
  <2>2. ASSUME Answer PROVE Serialized'
    BY <2>1, <2>2, NobodyAssumption DEF Answer, Serialized, LockInv, NoLostUpdate
  <2>3. ASSUME Written, UNCHANGED <<lock, saved>>
        PROVE  Serialized'
    <3>1. DOMAIN cmd' = DOMAIN NoCommand /\ cmd'.base = cmd.base
      BY <2>3 DEF Written, Serialized, LockInv, NoCommand
    <3> QED BY <2>1, <2>3, <3>1 DEF Serialized, LockInv, NoLostUpdate
  <2> QED BY <1>3, <2>2, <2>3 DEF Command, WriteGoesOut, WriteFails, SaveCommand
<1>4. ASSUME Listener PROVE Serialized'
  <2>1. CASE TakeUpdate
    BY <2>1, OthersStep DEF TakeUpdate, server
  <2>2. ASSUME NEW u \in late \cup Handled, SetWake(u) PROVE Serialized'
    BY <2>2, OthersStep DEF SetWake, server
  <2>3. ASSUME NEW u \in late \cup Handled, ApplyUpdate(u) PROVE Serialized'
    <3>1. lock = Nobody /\ UNCHANGED <<lock, cmd, watcher>>
      BY <2>3 DEF ApplyUpdate, Free, server
    <3> QED BY <3>1, NobodyAssumption DEF Serialized, LockInv, NoLostUpdate
  <2> QED BY <1>4, <2>1, <2>2, <2>3 DEF Listener
<1>5. ASSUME Watcher PROVE Serialized'
  <2>1. ASSUME NEW pc, Go(pc) PROVE watcher'.pc = pc /\ DOMAIN watcher' = DOMAIN Resting
    BY <2>1 DEF Go, Resting
  <2>2. CASE Ensure \/ Woken \/ PollDue \/ NotDue \/ ClearWake \/ TakeZones
    <3>1. watcher.pc # "read" /\ UNCHANGED <<lock, cmd, saved>>
      BY <2>2 DEF Ensure, Woken, PollDue, NotDue, ClearWake, TakeZones
    <3>2. watcher'.pc \in {"ensure", "wait", "lock", "debounce", "take"}
          /\ DOMAIN watcher' = DOMAIN Resting
      <4>1. ASSUME \/ watcher' = [Resting EXCEPT !.pc = "lock", !.whole = TRUE, !.todo = Zones]
                   \/ watcher' = [Resting EXCEPT !.pc = "lock", !.todo = refresh]
            PROVE  watcher'.pc = "lock" /\ DOMAIN watcher' = DOMAIN Resting
        BY <4>1 DEF Resting
      <4> QED
        BY <2>1, <2>2, <4>1 DEF Ensure, Woken, PollDue, NotDue, ClearWake, TakeZones, StartPoll,
          SkipPoll
    <3> QED BY <3>1, <3>2, WatcherRests
  <2>3. CASE BeginRead
    <3>1. lock = Nobody /\ lock' = "watcher" /\ UNCHANGED <<cmd, saved>>
      BY <2>3 DEF BeginRead, Free
    <3>2. DOMAIN watcher' = DOMAIN Resting /\ watcher'.pc = "read" /\ watcher'.base = saved
      BY <2>3 DEF BeginRead, Resting, Serialized, LockInv
    <3> QED BY <3>1, <3>2, NobodyAssumption DEF Serialized, LockInv, NoLostUpdate
  <2>4. CASE ZoneAnswers \/ ZonePartly \/ ZoneSilent
    <3>1. UNCHANGED <<lock, cmd, saved>>
      BY <2>4 DEF ZoneAnswers, ZonePartly, ZoneSilent
    <3>2. DOMAIN watcher' = DOMAIN Resting /\ UNCHANGED <<watcher.pc, watcher.base>>
      BY <2>4 DEF ZoneAnswers, ZonePartly, ZoneSilent, Resting, Serialized, LockInv
    <3> QED BY <3>1, <3>2 DEF Serialized, LockInv, NoLostUpdate
  <2>5. CASE EndRead
    <3>1. lock = "watcher" /\ lock' = Nobody /\ cmd' = cmd
      BY <2>5 DEF EndRead, Serialized, LockInv
    <3>2. watcher'.pc = "ensure" /\ DOMAIN watcher' = DOMAIN Resting
      BY <2>1, <2>5 DEF EndRead
    <3> QED BY <3>1, <3>2, NobodyAssumption DEF Serialized, LockInv, NoLostUpdate
  <2> QED BY <1>5, <2>2, <2>3, <2>4, <2>5 DEF Watcher
<1>6. ASSUME NEW e \in Editors, SaveConfig(e) \/ Editing(e) PROVE Serialized'
  BY <1>6, OthersStep DEF SaveConfig, Editing, CloseOld, ClearFlag, AskForPoll, WakeWatcher
<1>7. CASE UNCHANGED vars
  BY <1>7, OthersStep DEF vars
<1> QED
  BY <1>1, <1>2, <1>3, <1>4, <1>5, <1>6, <1>7 DEF Next

LEMMA SerializedAlways == Spec => []Serialized
  BY SerializedInit, SerializedNext, PTL DEF Spec

\* In every run nobody saves over the state a command or a poll works on.
THEOREM NothingIsOverwritten == Spec => []NoLostUpdate
  BY SerializedAlways, PTL DEF Serialized

\* Who saves while the lock is free is a listener of the present connection.
LEMMA ListenerSaves ==
    ASSUME Serialized, Next, saved' # saved, lock = Nobody
    PROVE  \E u \in late \cup Handled : u.gen = link.gen /\ saved' = Noted(u.update)
<1>1. CASE Listener
  <2>1. PICK u \in late \cup Handled : ApplyUpdate(u)
    BY <1>1 DEF Listener, TakeUpdate, SetWake
  <2> QED BY <2>1 DEF ApplyUpdate, OfPresentConnection
<1>2. CASE Command
  BY <1>2, NobodyAssumption DEF Command, WriteGoesOut, WriteFails, SaveCommand
<1>3. CASE Watcher
  <2>1. ~EndRead
    BY NobodyAssumption DEF EndRead, Serialized, LockInv
  <2> QED
    BY <1>3, <2>1 DEF Watcher, Ensure, Woken, PollDue, NotDue, ClearWake, TakeZones, BeginRead,
      ZoneAnswers, ZonePartly, ZoneSilent
<1>4. CASE World \/ Begin
  BY <1>4 DEF World, KeypadChange, ConnectionLost, ControllerSilent, Recovers, BackoffEnds, Begin
<1>5. ASSUME NEW e \in Editors, SaveConfig(e) \/ Editing(e)
      PROVE  saved' = saved
  BY <1>5 DEF SaveConfig, Editing, CloseOld, ClearFlag, AskForPoll, WakeWatcher
<1> QED BY <1>1, <1>2, <1>3, <1>4, <1>5 DEF Next

\* In every run updates of earlier connections leave the saved state alone.
THEOREM OldConnectionsAreIgnored == Spec => PresentConnectionOnly
<1>1. Serialized /\ [Next]_vars =>
        [saved' # saved /\ lock = Nobody =>
           \E u \in late \cup Handled : u.gen = link.gen /\ saved' = Noted(u.update)]_vars
  BY ListenerSaves DEF vars
<1> QED BY <1>1, SerializedAlways, PTL DEF Spec, PresentConnectionOnly

-----------------------------------------------------------------------------
(* Types. *)

States == [Zones -> Settings]
Hints == {Hint(z, "refresh") : z \in Zones}
Waits == {Hint(z, "wake") : z \in Zones}
Updates == [update : Writes \cup Waits, gen : Nat]
Links == [shared : BOOLEAN, open : BOOLEAN, gen : Nat, backoff : BOOLEAN]

\* A command writes each setting of a zone once.
OnceEach(todo) ==
    todo \subseteq Writes /\ \A v, w \in todo : v.zone = w.zone /\ v.setting = w.setting => v = w

HardwareTypes ==
    /\ hw \in States /\ saved \in States
    /\ gateway \in [reachable : BOOLEAN, answering : BOOLEAN]
    /\ health \in {"unknown", "ok", "unreachable", "silent"}
LinkTypes ==
    /\ link \in Links /\ (link.open => link.shared /\ gateway.reachable)
    /\ wire \in Seq(Writes \cup Hints) /\ (wire # <<>> \/ busy # NoUpdate => link.shared)
    /\ busy \in Updates \cup {NoUpdate} /\ late \in SUBSET Updates
WorkTypes ==
    /\ cmd \in [strict : BOOLEAN, begun : BOOLEAN, todo : SUBSET Writes, base : States, target : States]
    /\ OnceEach(cmd.todo)
    /\ watcher \in [pc : {"ensure", "wait", "debounce", "take", "lock", "read"}, todo : SUBSET Zones,
                    base : States, copy : States, whole : BOOLEAN, reachable : BOOLEAN,
                    answered : BOOLEAN]
FlagTypes ==
    /\ refresh \in SUBSET Zones /\ wake \in BOOLEAN /\ full \in BOOLEAN /\ reconfiguring \in BOOLEAN
    /\ editor \in [Editors -> {"idle", "closing", "clearing", "asking", "waking"}]

TypeInv == HardwareTypes /\ LinkTypes /\ WorkTypes /\ FlagTypes

\* A set of numbers has a smallest one.
LEMMA Smallest ==
    ASSUME NEW T, T \subseteq Nat, T # {}
    PROVE  \E x \in T : \A y \in T : x <= y
<1> DEFINE R == OpToRel(<, Nat)
<1>1. \A x, y \in Nat : y < x => <<y, x>> \in R
  BY DEF OpToRel
<1>2. IsWellFoundedOn(R, Nat)
  BY NatLessThanWellFounded
<1> HIDE DEF R
<1>3. PICK x \in T : \A y \in T : ~ (<<y, x>> \in R)
  BY <1>2, WFMin
<1>4. \A y \in T : ~(y < x) /\ y \in Nat /\ x \in Nat
  BY <1>1, <1>3
<1>5. \A y \in T : x <= y
  BY <1>4
<1> QED BY <1>3, <1>5

\* What the writes and the hints are.
LEMMA WritesAre ==
    /\ \A w \in Writes : /\ w.zone \in Zones
                         /\ \/ w.setting = "power" /\ w.value \in Power
                            \/ w.setting = "source" /\ w.value \in Sources
    /\ \A z \in Zones, p \in Power : Write(z, "power", p) \in Writes
    /\ \A z \in Zones, s \in Sources : Write(z, "source", s) \in Writes
    /\ \A h \in Hints : h.zone \in Zones /\ h.setting = "refresh"
    /\ \A h \in Waits : h.zone \in Zones /\ h.setting = "wake"
    /\ \A z \in Zones : Hint(z, "refresh") \in Hints /\ Hint(z, "wake") \in Waits
    /\ Zones \subseteq Nat
<1>0. Zones \subseteq Nat
  BY ZonesAssumption DEF Zones
<1>1. ASSUME NEW w \in Writes
      PROVE  /\ w.zone \in Zones
             /\ \/ w.setting = "power" /\ w.value \in Power
                \/ w.setting = "source" /\ w.value \in Sources
  <2>1. CASE w \in {Write(z, "power", p) : z \in Zones, p \in Power}
    BY <2>1 DEF Write
  <2>2. CASE w \in {Write(z, "source", s) : z \in Zones, s \in Sources}
    BY <2>2 DEF Write
  <2> QED BY <2>1, <2>2 DEF Writes
<1>2. /\ \A z \in Zones, p \in Power : Write(z, "power", p) \in Writes
      /\ \A z \in Zones, s \in Sources : Write(z, "source", s) \in Writes
  BY DEF Writes
<1>3. /\ \A h \in Hints : h.zone \in Zones /\ h.setting = "refresh"
      /\ \A h \in Waits : h.zone \in Zones /\ h.setting = "wake"
  BY DEF Hints, Waits, Hint, Write
<1>4. \A z \in Zones : Hint(z, "refresh") \in Hints /\ Hint(z, "wake") \in Waits
  BY DEF Hints, Waits
<1> QED BY <1>0, <1>1, <1>2, <1>3, <1>4

\* A write to a state of the zones leaves a state of the zones.
LEMMA WrittenTypes ==
    ASSUME NEW w \in Writes
    PROVE  /\ \A state \in States : Applied(state, w) \in States
           /\ saved \in States => Noted(w) \in States
<1>1. /\ w.zone \in Zones
      /\ \/ w.setting = "power" /\ w.value \in Power
         \/ w.setting = "source" /\ w.value \in Sources
  BY WritesAre
<1>2. ASSUME NEW state \in States PROVE Applied(state, w) \in States
  BY <1>1, <1>2 DEF Applied, States, Settings, Power
<1>3. ASSUME saved \in States PROVE Noted(w) \in States
  BY <1>1, <1>3 DEF Noted, States, Settings
<1> QED BY <1>2, <1>3

\* What the four kinds of commands ask for.
LEMMA RequestTypes ==
    ASSUME saved \in States, NEW r \in Requests
    PROVE  OnceEach(r.todo) /\ r.target \in States /\ StopsOnFailure(r.kind, TRUE) \in BOOLEAN
<1>0. Enabled \subseteq Zones /\ Shortcut \subseteq Zones
  BY ZonesAssumption
<1>1. ASSUME NEW w \in Writes, r = ZoneRequest(w) PROVE OnceEach(r.todo) /\ r.target \in States
  BY <1>1, WrittenTypes DEF ZoneRequest, OnceEach
<1>2. ASSUME NEW p \in Power, r = PowerRequest(p) PROVE OnceEach(r.todo) /\ r.target \in States
  <2>1. r.todo = {Write(z, "power", p) : z \in IF p = "on" THEN Enabled ELSE Zones}
    BY <1>2 DEF PowerRequest
  <2>2. OnceEach(r.todo)
    BY <1>0, <2>1, WritesAre DEF OnceEach, Write
  <2>3. r.target = [z \in Zones |->
                      [saved[z] EXCEPT !.power = IF p = "on" /\ z \in Enabled THEN "on" ELSE "off"]]
    BY <1>2 DEF PowerRequest
  <2>4. r.target \in States
    BY <2>3 DEF States, Settings, Power
  <2> QED BY <2>2, <2>4
<1>3. ASSUME NEW s \in Sources, r = SourceRequest(s) PROVE OnceEach(r.todo) /\ r.target \in States
  <2>1. r.todo = {Write(z, "source", s) : z \in Enabled}
    BY <1>3 DEF SourceRequest
  <2>2. OnceEach(r.todo)
    BY <1>0, <2>1, WritesAre DEF OnceEach, Write
  <2>3. r.target = [z \in Zones |->
                      IF z \in Enabled THEN [saved[z] EXCEPT !.source = s] ELSE saved[z]]
    BY <1>3 DEF SourceRequest
  <2>4. r.target \in States
    BY <2>3 DEF States, Settings
  <2> QED BY <2>2, <2>4
<1>4. ASSUME NEW s \in Sources, r = ShortcutRequest(s) PROVE OnceEach(r.todo) /\ r.target \in States
  <2>1. r.todo = {Write(z, "power", "on") : z \in Shortcut} \cup {Write(z, "source", s) : z \in Shortcut}
    BY <1>4 DEF ShortcutRequest
  <2>2. OnceEach(r.todo)
    <3>1. "on" \in Power /\ Shortcut \subseteq Zones
      BY <1>0 DEF Power
    <3>2. r.todo \subseteq Writes
      BY <1>4, <2>1, <3>1, WritesAre
    <3>3. \A v, w \in r.todo : v.zone = w.zone /\ v.setting = w.setting => v = w
      BY <2>1 DEF Write
    <3> QED BY <3>2, <3>3 DEF OnceEach
  <2>3. r.target = [z \in Zones |-> IF z \in Shortcut THEN [power |-> "on", source |-> s] ELSE saved[z]]
    BY <1>4 DEF ShortcutRequest
  <2>4. r.target \in States
    BY <2>3 DEF States, Settings, Power
  <2> QED BY <2>2, <2>4
<1> QED BY <1>1, <1>2, <1>3, <1>4 DEF Requests, StopsOnFailure

\* A command that has writes left has a next one.
LEMMA NextWriteIs ==
    ASSUME OnceEach(cmd.todo), cmd.todo # {}
    PROVE  NextWrite \in cmd.todo
<1> DEFINE todo == cmd.todo
           T == {w.zone : w \in todo}
<1>1. T \subseteq Nat /\ T # {}
  <2>1. \A w \in todo : w.zone \in Nat
    BY WritesAre DEF OnceEach
  <2> QED BY <2>1
<1> HIDE DEF T
<1>2. PICK z \in T : \A y \in T : z <= y
  BY <1>1, Smallest
<1>3. PICK v \in todo : v.zone = z
  BY <1>2 DEF T
<1>4. PICK w \in todo : w.zone = z /\ \A o \in todo : o.zone = z => w.setting = "power" \/ w = o
  <2>1. CASE \E p \in todo : p.zone = z /\ p.setting = "power"
    BY <2>1
  <2>2. CASE ~\E p \in todo : p.zone = z /\ p.setting = "power"
    BY <1>3, <2>2, WritesAre DEF OnceEach
  <2> QED BY <2>1, <2>2
<1>5. \A o \in todo : z <= o.zone /\ o.zone \in Nat /\ z \in Nat
  BY <1>1, <1>2 DEF T
<1>6. \A o \in todo : w.zone < o.zone \/ (w.zone = o.zone /\ (w.setting = "power" \/ w = o))
  BY <1>4, <1>5
<1> QED BY <1>6 DEF NextWrite

\* A connection that is tried is open only on a gateway that takes it.
LEMMA TriedTypes ==
    ASSUME TypeInv, NEW up \in Reached
    PROVE  /\ Tried(up) \in Links /\ up \in BOOLEAN
           /\ Tried(up).open => Tried(up).shared /\ gateway.reachable
           /\ link.open => Tried(up).open
<1>1. link \in Links /\ (link.open => link.shared /\ gateway.reachable)
  BY DEF TypeInv, LinkTypes
<1>2. up \in BOOLEAN
  BY DEF Reached, Accepting
<1>3. CASE ~Replaces
  <2>1. Tried(up) = link
    BY <1>3 DEF Tried
  <2> QED BY <1>1, <1>2, <2>1
<1>4. CASE Replaces
  <2>1. Tried(up) = [link EXCEPT !.open = up, !.backoff = ~up]
    BY <1>4 DEF Tried
  <2>2. up => gateway.reachable
    BY <1>4 DEF Replaces, Reached, Accepting
  <2> QED BY <1>1, <1>2, <1>4, <2>1, <2>2 DEF Replaces, Links
<1> QED BY <1>3, <1>4

\* A connection that goes leaves its last update to its listener.
LEMMA LastTypes == ASSUME TypeInv, LeavesLast PROVE busy' = NoUpdate /\ late' \in SUBSET Updates
<1>1. Handled \in SUBSET Updates
  BY DEF TypeInv, LinkTypes, Handled
<1> QED BY <1>1 DEF TypeInv, LinkTypes, LeavesLast

LEMMA DroppedTypes ==
    ASSUME TypeInv, Dropped, link' \in Links, link'.open => link'.shared /\ gateway'.reachable
    PROVE  LinkTypes'
  BY LastTypes, EmptySeq DEF Dropped, LinkTypes

\* A connection that is tried has the old one's listener or one of its own.
LEMMA ConnectsTypes ==
    ASSUME TypeInv, NEW up \in Reached, Connects(up), gateway' = gateway
    PROVE  LinkTypes'
<1>1. link' \in Links /\ (link'.open => link'.shared /\ gateway'.reachable)
  BY TriedTypes DEF Connects
<1>2. CASE Dropped
  BY <1>1, <1>2, DroppedTypes
<1>3. CASE UNCHANGED listening
  <2>1. link'.shared = link.shared
    BY DEF Connects, Tried, TypeInv, LinkTypes, Links
  <2> QED BY <1>1, <1>3, <2>1 DEF TypeInv, LinkTypes, listening
<1> QED BY <1>2, <1>3 DEF Connects

\* A lost connection has delivered, or goes on to deliver, a beginning of its updates.
LEMMA LostTypes == ASSUME TypeInv, Lost PROVE LinkTypes'
<1>1. link' \in Links /\ ~link'.open /\ link'.shared = link.shared
  BY DEF TypeInv, LinkTypes, Lost, Links
<1>2. PICK n \in 0..Len(wire) : wire' = SubSeq(wire, 1, n)
  BY DEF Lost
<1>3. wire \in Seq(Writes \cup Hints)
  BY DEF TypeInv, LinkTypes
<1>4. wire' \in Seq(Writes \cup Hints) /\ (wire = <<>> => wire' = <<>>)
  BY <1>2, <1>3, SubSeqProperties
<1> QED BY <1>1, <1>4 DEF TypeInv, LinkTypes, Lost

\* What another thread leaves alone keeps its type.
LEMMA OtherTypes ==
    ASSUME TypeInv
    PROVE  /\ UNCHANGED <<amplifier, saved, health>> => HardwareTypes'
           /\ UNCHANGED <<link, gateway, listening>> => LinkTypes'
           /\ UNCHANGED <<cmd, watcher>> => WorkTypes'
           /\ UNCHANGED <<flags, reconfiguring, editor>> => FlagTypes'
<1>1. ASSUME UNCHANGED <<amplifier, saved, health>> PROVE HardwareTypes'
  BY <1>1 DEF TypeInv, HardwareTypes, amplifier
<1>2. ASSUME UNCHANGED <<link, gateway, listening>> PROVE LinkTypes'
  BY <1>2 DEF TypeInv, LinkTypes, listening
<1>3. ASSUME UNCHANGED <<cmd, watcher>> PROVE WorkTypes'
  BY <1>3 DEF TypeInv, WorkTypes
<1>4. ASSUME UNCHANGED <<flags, reconfiguring, editor>> PROVE FlagTypes'
  BY <1>4 DEF TypeInv, FlagTypes, flags
<1> QED BY <1>1, <1>2, <1>3, <1>4

LEMMA WorldTypes == ASSUME TypeInv, World PROVE TypeInv'
<1>1. WorkTypes' /\ FlagTypes'
  BY OtherTypes DEF World, KeypadChange, ConnectionLost, ControllerSilent, Recovers, BackoffEnds, server
<1>2. ASSUME NEW w \in Writes, KeypadChange(w) PROVE HardwareTypes' /\ LinkTypes'
  <2>1. hw' \in States
    BY <1>2, WrittenTypes DEF KeypadChange, TypeInv, HardwareTypes
  <2>2. HardwareTypes'
    BY <1>2, <2>1 DEF KeypadChange, TypeInv, HardwareTypes
  <2>3. w \in Writes \cup Hints /\ Hint(w.zone, "refresh") \in Writes \cup Hints /\ wire \in Seq(Writes \cup Hints)
    BY WritesAre DEF TypeInv, LinkTypes
  <2>4. wire' = wire \/ (link.open /\ (wire' = Append(wire, w) \/ wire' = Append(wire, Hint(w.zone, "refresh"))))
    BY <1>2 DEF KeypadChange
  <2>5. wire' \in Seq(Writes \cup Hints)
    BY <2>3, <2>4, AppendProperties
  <2>6. LinkTypes'
    BY <1>2, <2>4, <2>5 DEF KeypadChange, TypeInv, LinkTypes
  <2> QED BY <2>2, <2>6
<1>3. CASE ConnectionLost
  <2>1. HardwareTypes'
    BY <1>3 DEF ConnectionLost, TypeInv, HardwareTypes
  <2>2. LinkTypes'
    BY <1>3, LostTypes DEF ConnectionLost
  <2> QED BY <1>1, <2>1, <2>2 DEF TypeInv
<1>4. CASE ControllerSilent \/ Recovers
  <2>1. HardwareTypes'
    <3>1. gateway' \in [reachable : BOOLEAN, answering : BOOLEAN]
      <4>1. gateway \in [reachable : BOOLEAN, answering : BOOLEAN]
        BY DEF TypeInv, HardwareTypes
      <4>2. \/ gateway' = [gateway EXCEPT !.answering = FALSE]
            \/ gateway' = [reachable |-> TRUE, answering |-> TRUE]
        BY <1>4 DEF ControllerSilent, Recovers
      <4>3. CASE gateway' = [gateway EXCEPT !.answering = FALSE]
        BY <4>1, <4>3
      <4>4. CASE gateway' = [reachable |-> TRUE, answering |-> TRUE]
        BY <4>4
      <4> QED BY <4>2, <4>3, <4>4
    <3> QED BY <1>4, <3>1 DEF ControllerSilent, Recovers, TypeInv, HardwareTypes
  <2>2. gateway.reachable => gateway'.reachable
    BY <1>4 DEF ControllerSilent, Recovers, TypeInv, HardwareTypes
  <2>3. LinkTypes'
    BY <1>4, <2>2 DEF ControllerSilent, Recovers, TypeInv, LinkTypes, listening
  <2> QED BY <1>1, <2>1, <2>3 DEF TypeInv
<1>5. CASE BackoffEnds
  <2>1. HardwareTypes'
    BY <1>5, OtherTypes DEF BackoffEnds
  <2>2. LinkTypes'
    BY <1>5 DEF BackoffEnds, TypeInv, LinkTypes, Links, amplifier, listening
  <2> QED BY <1>1, <2>1, <2>2 DEF TypeInv
<1> QED BY <1>1, <1>2, <1>3, <1>4, <1>5 DEF World, TypeInv

LEMMA CommandTypes == ASSUME TypeInv, Begin \/ Command PROVE TypeInv'
<1>1. FlagTypes'
  BY OtherTypes DEF Begin, Command, WriteGoesOut, WriteFails, SaveCommand
<1>2. ASSUME cmd.todo # {} PROVE NextWrite \in Writes
  BY <1>2, NextWriteIs DEF TypeInv, WorkTypes, OnceEach
<1>3. ASSUME Written, UNCHANGED watcher PROVE WorkTypes'
  <2>1. OnceEach(cmd.todo \ {NextWrite})
    BY DEF TypeInv, WorkTypes, OnceEach
  <2> QED BY <1>3, <2>1 DEF Written, TypeInv, WorkTypes
<1>4. ASSUME cmd' = NoCommand, UNCHANGED watcher PROVE WorkTypes'
  <2>1. Off \in States /\ OnceEach({})
    BY ZonesAssumption DEF Off, States, Settings, Power, OnceEach
  <2> QED BY <1>4, <2>1 DEF TypeInv, WorkTypes, NoCommand
<1>5. CASE Begin
  <2>1. PICK r \in Requests, up \in Reached :
          cmd' = [strict |-> StopsOnFailure(r.kind, link.shared \/ up), begun |-> FALSE,
                  todo |-> r.todo, base |-> saved, target |-> r.target]
    BY <1>5 DEF Begin
  <2>2. OnceEach(r.todo) /\ r.target \in States /\ saved \in States
    BY RequestTypes DEF TypeInv, HardwareTypes
  <2>3. StopsOnFailure(r.kind, link.shared \/ up) \in BOOLEAN
    BY TriedTypes DEF StopsOnFailure, TypeInv, LinkTypes, Links
  <2>4. WorkTypes'
    BY <1>5, <2>1, <2>2, <2>3 DEF Begin, TypeInv, WorkTypes, OnceEach
  <2> QED BY <1>1, <1>5, <2>4, OtherTypes DEF Begin, TypeInv, amplifier
<1>6. CASE WriteGoesOut
  <2> DEFINE heard == IF Replaces THEN <<>> ELSE wire
  <2>1. /\ TRUE \in Usable /\ link' = Tried(TRUE) /\ NextWrite \in Writes /\ gateway' = gateway
        /\ IF Replaces THEN LeavesLast ELSE UNCHANGED <<busy, late>>
    BY <1>2, <1>6 DEF WriteGoesOut
  <2>2. HardwareTypes'
    BY <1>6, <2>1, WrittenTypes DEF WriteGoesOut, TypeInv, HardwareTypes
  <2>3. wire' = heard \/ (link'.open /\ wire' = Append(heard, NextWrite))
    BY <1>6 DEF WriteGoesOut
  <2>4. wire' \in Seq(Writes \cup Hints)
    <3>1. NextWrite \in Writes \cup Hints /\ heard \in Seq(Writes \cup Hints)
      BY <2>1, EmptySeq DEF TypeInv, LinkTypes
    <3> HIDE DEF heard
    <3> QED BY <2>3, <3>1, AppendProperties
  <2>5. link' \in Links /\ (link'.open => link'.shared /\ gateway.reachable) /\ (link.open => link'.open)
    <3> DEFINE yes == TRUE
    <3>1. yes \in Reached /\ link' = Tried(yes)
      <4>1. CASE Kept
        BY <2>1, <4>1 DEF Usable, Kept, Reached
      <4>2. CASE ~Kept
        BY <2>1, <4>2 DEF Usable
      <4> QED BY <4>1, <4>2
    <3> HIDE DEF yes
    <3> QED BY <3>1, TriedTypes
  <2>6. LinkTypes'
    <3>1. (busy' = NoUpdate /\ late' \in SUBSET Updates) \/ UNCHANGED <<busy, late>>
      BY <2>1, LastTypes
    <3>2. link'.shared = link.shared
      BY <2>1 DEF Tried, TypeInv, LinkTypes, Links
    <3>3. wire' # <<>> \/ busy' # NoUpdate => link'.shared
      <4>1. heard # <<>> => link.shared
        BY DEF TypeInv, LinkTypes
      <4> QED BY <2>3, <2>5, <3>1, <3>2, <4>1 DEF TypeInv, LinkTypes
    <3>4. busy' \in Updates \cup {NoUpdate} /\ late' \in SUBSET Updates
      BY <3>1 DEF TypeInv, LinkTypes
    <3> QED BY <2>1, <2>4, <2>5, <3>3, <3>4 DEF TypeInv, LinkTypes
  <2> QED BY <1>1, <1>3, <1>6, <2>2, <2>6 DEF WriteGoesOut, TypeInv
<1>7. CASE WriteFails
  <2>1. NextWrite \in Writes
    BY <1>2, <1>7 DEF WriteFails
  <2>2. HardwareTypes'
    BY <1>7, <2>1, WrittenTypes DEF WriteFails, TypeInv, HardwareTypes
  <2>3. LinkTypes'
    <3>1. CASE Lost
      BY <3>1, LostTypes
    <3>2. CASE FALSE \in Reached /\ Connects(FALSE)
      <4> DEFINE no == FALSE
      <4>1. no \in Reached /\ Connects(no) /\ gateway' = gateway
        BY <1>7, <3>2 DEF WriteFails
      <4> HIDE DEF no
      <4> QED BY <4>1, ConnectsTypes
    <3>3. CASE Kept /\ UNCHANGED <<link, listening>>
      BY <1>7, <3>3, OtherTypes DEF WriteFails
    <3> QED BY <1>7, <3>1, <3>2, <3>3 DEF WriteFails, Usable
  <2>4. WorkTypes'
    BY <1>3, <1>4, <1>7 DEF WriteFails, Answer
  <2> QED BY <1>1, <2>2, <2>3, <2>4 DEF TypeInv
<1>8. CASE SaveCommand
  <2>1. HardwareTypes'
    BY <1>8 DEF SaveCommand, TypeInv, HardwareTypes, WorkTypes, amplifier
  <2>2. WorkTypes'
    BY <1>4, <1>8 DEF SaveCommand, Answer
  <2>3. LinkTypes'
    BY <1>8, OtherTypes DEF SaveCommand, amplifier
  <2> QED BY <1>1, <2>1, <2>2, <2>3 DEF TypeInv
<1> QED BY <1>5, <1>6, <1>7, <1>8 DEF Command

LEMMA ListenerTypes == ASSUME TypeInv, Listener PROVE TypeInv'
<1>1. WorkTypes'
  BY OtherTypes DEF Listener, TakeUpdate, SetWake, ApplyUpdate, server
<1>2. Handled \subseteq Updates
  BY DEF TypeInv, LinkTypes, Handled
<1>3. ASSUME NEW u \in late \cup Handled, Done(u), UNCHANGED <<link, gateway, wire>> PROVE LinkTypes'
  <2>1. /\ busy' \in Updates \cup {NoUpdate} /\ late' \in SUBSET Updates
        /\ busy' = busy \/ busy' = NoUpdate
    BY <1>3 DEF TypeInv, LinkTypes, Done
  <2> QED BY <1>3, <2>1 DEF TypeInv, LinkTypes
<1>4. CASE TakeUpdate
  <2> DEFINE u == Head(wire)
  <2>1. u \in Writes \cup Hints /\ wire' \in Seq(Writes \cup Hints) /\ link.shared /\ link.gen \in Nat
    BY <1>4, HeadTailProperties DEF TakeUpdate, TypeInv, LinkTypes, Links
  <2>2. u.zone \in Zones /\ (u.setting # "refresh" => u \in Writes)
    BY <2>1, WritesAre
  <2>3. Hint(u.zone, "wake") \in Waits
    BY <2>2, WritesAre
  <2>4. busy' = [update |-> Hint(u.zone, "wake"), gen |-> link.gen]
        \/ (u.setting # "refresh" /\ busy' = [update |-> u, gen |-> link.gen])
    BY <1>4 DEF TakeUpdate
  <2>5. busy' \in Updates
    BY <2>1, <2>2, <2>3, <2>4 DEF Updates
  <2>6. LinkTypes'
    BY <1>4, <2>1, <2>5 DEF TakeUpdate, TypeInv, LinkTypes, amplifier
  <2>7. FlagTypes'
    BY <1>4, <2>2 DEF TakeUpdate, TypeInv, FlagTypes, server
  <2>8. HardwareTypes'
    BY <1>4, OtherTypes DEF TakeUpdate
  <2> QED BY <1>1, <2>6, <2>7, <2>8 DEF TypeInv
<1>5. ASSUME NEW u \in late \cup Handled, SetWake(u) PROVE TypeInv'
  <2>1. HardwareTypes'
    BY <1>5, OtherTypes DEF SetWake
  <2>2. LinkTypes'
    BY <1>3, <1>5 DEF SetWake, amplifier
  <2>3. FlagTypes'
    BY <1>5 DEF SetWake, TypeInv, FlagTypes, server
  <2> QED BY <1>1, <2>1, <2>2, <2>3 DEF TypeInv
<1>6. ASSUME NEW u \in late \cup Handled, ApplyUpdate(u) PROVE TypeInv'
  <2>1. u \in Updates
    BY <1>2 DEF TypeInv, LinkTypes
  <2>2. u.update \in Writes
    BY <1>6, <2>1, WritesAre DEF ApplyUpdate, Updates
  <2>3. HardwareTypes'
    BY <1>6, <2>2, WrittenTypes DEF ApplyUpdate, TypeInv, HardwareTypes, amplifier
  <2>4. LinkTypes'
    BY <1>3, <1>6 DEF ApplyUpdate, amplifier
  <2>5. FlagTypes'
    BY <1>6, OtherTypes DEF ApplyUpdate, server
  <2> QED BY <1>1, <2>3, <2>4, <2>5 DEF TypeInv
<1> QED BY <1>4, <1>5, <1>6 DEF Listener

\* A watcher that rests, or has taken zones, works on nothing.
LEMMA RestingTypes ==
    ASSUME TypeInv, UNCHANGED cmd,
           \/ \E pc \in {"ensure", "wait", "debounce", "take"} : Go(pc)
           \/ watcher' = [Resting EXCEPT !.pc = "lock", !.whole = TRUE, !.todo = Zones]
           \/ \E zones \in SUBSET Zones : watcher' = [Resting EXCEPT !.pc = "lock", !.todo = zones]
    PROVE  WorkTypes'
<1>1. Off \in States
  BY ZonesAssumption DEF Off, States, Settings, Power
<1> QED BY <1>1 DEF TypeInv, WorkTypes, Go, Resting

\* The next zone to read is one that is left.
LEMMA NextZoneIs == ASSUME TypeInv, watcher.todo # {} PROVE NextZone \in Zones
<1>1. watcher.todo \subseteq Zones /\ Zones \subseteq Nat
  BY WritesAre DEF TypeInv, WorkTypes
<1>2. \E z \in watcher.todo : \A o \in watcher.todo : z <= o
  BY <1>1, Smallest
<1>3. NextZone \in watcher.todo
  BY <1>2 DEF NextZone
<1> QED BY <1>1, <1>3

LEMMA WatcherTypes == ASSUME TypeInv, Watcher PROVE TypeInv'
<1>1. \A pc \in {"ensure", "wait", "debounce", "take"} : Go(pc) /\ UNCHANGED cmd => WorkTypes'
  BY RestingTypes
<1>2. StartPoll /\ UNCHANGED cmd => WorkTypes'
  BY RestingTypes DEF StartPoll
<1>3. PollTakes /\ UNCHANGED <<refresh, reconfiguring, editor>> => FlagTypes'
  BY DEF PollTakes, TypeInv, FlagTypes
<1>4. CASE Ensure
  <2>1. WorkTypes' /\ FlagTypes'
    BY <1>1, <1>4, OtherTypes DEF Ensure
  <2>2. HardwareTypes'
    BY <1>4 DEF Ensure, TypeInv, HardwareTypes, amplifier
  <2>3. LinkTypes'
    <3>1. CASE UNCHANGED <<link, listening>>
      BY <1>4, <3>1, OtherTypes DEF Ensure, amplifier
    <3>2. ASSUME NEW up \in Reached, Connects(up) PROVE LinkTypes'
      BY <1>4, <3>2, ConnectsTypes DEF Ensure, amplifier
    <3>3. ASSUME ~link.shared, NEW up \in Accepting, UNCHANGED listening,
                 link' = [link EXCEPT !.shared = TRUE, !.open = up, !.backoff = ~up]
          PROVE  LinkTypes'
      <4>1. up \in BOOLEAN /\ (up => gateway.reachable)
        BY DEF Accepting
      <4>2. link' \in Links /\ link'.open = up /\ link'.shared
        BY <3>3, <4>1 DEF TypeInv, LinkTypes, Links
      <4>3. UNCHANGED <<gateway, wire, busy, late>> /\ wire = <<>> /\ busy = NoUpdate
        BY <1>4, <3>3 DEF Ensure, amplifier, listening, TypeInv, LinkTypes
      <4> QED BY <4>1, <4>2, <4>3 DEF TypeInv, LinkTypes
    <3> QED BY <1>4, <3>1, <3>2, <3>3 DEF Ensure
  <2> QED BY <2>1, <2>2, <2>3 DEF TypeInv
<1>5. CASE Woken \/ PollDue \/ NotDue
  <2>1. HardwareTypes' /\ LinkTypes'
    BY <1>5, OtherTypes DEF Woken, PollDue, NotDue, amplifier
  <2>2. UNCHANGED <<reconfiguring, cmd, editor>>
    BY <1>5 DEF Woken, PollDue, NotDue
  <2>3. CASE StartPoll \/ SkipPoll
    <3>1. WorkTypes'
      BY <1>1, <1>2, <2>2, <2>3 DEF SkipPoll
    <3>2. FlagTypes'
      BY <1>3, <2>2, <2>3 DEF StartPoll, SkipPoll
    <3> QED BY <2>1, <3>1, <3>2 DEF TypeInv
  <2>4. CASE (Go("debounce") \/ Go("ensure")) /\ UNCHANGED flags
    BY <1>1, <2>1, <2>2, <2>4, OtherTypes DEF TypeInv
  <2> QED BY <1>5, <2>3, <2>4 DEF Woken, PollDue, NotDue
<1>6. CASE ClearWake \/ TakeZones
  <2>1. HardwareTypes' /\ LinkTypes'
    BY <1>6, OtherTypes DEF ClearWake, TakeZones, amplifier
  <2>2. FlagTypes'
    BY <1>6 DEF ClearWake, TakeZones, TypeInv, FlagTypes
  <2>3. WorkTypes'
    <3>1. CASE \E pc \in {"ensure", "take"} : Go(pc)
      BY <1>1, <1>6, <3>1 DEF ClearWake, TakeZones
    <3>2. CASE watcher' = [Resting EXCEPT !.pc = "lock", !.todo = refresh]
      <4>1. refresh \in SUBSET Zones
        BY DEF TypeInv, FlagTypes
      <4> QED BY <1>6, <3>2, <4>1, RestingTypes DEF ClearWake, TakeZones
    <3> QED BY <1>6, <3>1, <3>2 DEF ClearWake, TakeZones
  <2> QED BY <2>1, <2>2, <2>3 DEF TypeInv
<1>7. CASE BeginRead
  <2>1. PICK up \in Reached :
          /\ Connects(up)
          /\ watcher' = [watcher EXCEPT !.pc = "read", !.reachable = up, !.base = saved, !.copy = saved]
    BY <1>7 DEF BeginRead
  <2>2. WorkTypes'
    BY <1>7, <2>1, TriedTypes DEF BeginRead, TypeInv, WorkTypes, HardwareTypes
  <2>3. LinkTypes'
    BY <1>7, <2>1, ConnectsTypes DEF BeginRead, amplifier
  <2> QED BY <1>7, <2>2, <2>3, OtherTypes DEF BeginRead, TypeInv
<1>8. CASE ZoneAnswers \/ ZonePartly
  <2>1. LinkTypes'
    <3> DEFINE yes == TRUE
    <3>1. yes \in Reached /\ Connects(yes) /\ gateway' = gateway
      BY <1>8 DEF ZoneAnswers, ZonePartly, amplifier
    <3> HIDE DEF yes
    <3> QED BY <3>1, ConnectsTypes
  <2>2. WorkTypes'
    <3>1. watcher.copy \in States /\ hw \in States /\ NextZone \in Zones
      BY <1>8, NextZoneIs DEF ZoneAnswers, ZonePartly, TypeInv, WorkTypes, HardwareTypes
    <3>2. Off \in States
      BY ZonesAssumption DEF Off, States, Settings, Power
    <3>3. PICK heard \in Settings :
            watcher' = [watcher EXCEPT !.todo = @ \ {NextZone}, !.answered = TRUE,
                                       !.copy[NextZone] = heard]
      <4>1. CASE ZoneAnswers
        <5>1. hw[NextZone] \in Settings
          BY <3>1 DEF States
        <5>2. watcher' = [watcher EXCEPT !.todo = @ \ {NextZone}, !.answered = TRUE,
                                         !.copy[NextZone] = hw[NextZone]]
          BY <4>1 DEF ZoneAnswers, TypeInv, WorkTypes
        <5> QED BY <5>1, <5>2
      <4>2. CASE ZonePartly
        <5>1. PICK p \in {"off", hw[NextZone].power}, s \in {Off[NextZone].source, hw[NextZone].source} :
                watcher' = [watcher EXCEPT !.todo = @ \ {NextZone}, !.answered = TRUE,
                                           !.copy[NextZone] = [power |-> p, source |-> s]]
          BY <4>2 DEF ZonePartly
        <5>2. [power |-> p, source |-> s] \in Settings
          BY <3>1, <3>2 DEF States, Settings, Power
        <5> QED BY <5>1, <5>2
      <4> QED BY <1>8, <4>1, <4>2
    <3> DEFINE copy == [watcher.copy EXCEPT ![NextZone] = heard]
    <3>4. copy \in States
      BY <3>1 DEF States
    <3>5. watcher' = [watcher EXCEPT !.todo = @ \ {NextZone}, !.copy = copy, !.answered = TRUE]
      BY <3>3 DEF TypeInv, WorkTypes
    <3> HIDE DEF copy
    <3>6. UNCHANGED cmd
      BY <1>8 DEF ZoneAnswers, ZonePartly
    <3> QED BY <3>4, <3>5, <3>6 DEF TypeInv, WorkTypes
  <2> QED BY <1>8, <2>1, <2>2, OtherTypes DEF ZoneAnswers, ZonePartly, TypeInv
<1>9. CASE ZoneSilent
  <2>1. LinkTypes'
    <3>1. PICK up \in Reached : Connects(up)
      BY <1>9 DEF ZoneSilent
    <3> QED BY <1>9, <3>1, ConnectsTypes DEF ZoneSilent, amplifier
  <2>2. WorkTypes'
    BY <1>9 DEF ZoneSilent, TypeInv, WorkTypes
  <2> QED BY <1>9, <2>1, <2>2, OtherTypes DEF ZoneSilent, TypeInv
<1>10. CASE EndRead
  <2>1. health' \in {"unknown", "ok", "unreachable", "silent"}
    BY <1>10 DEF EndRead, HealthAfter, TypeInv, HardwareTypes
  <2>2. HardwareTypes'
    BY <1>10, <2>1 DEF EndRead, TypeInv, HardwareTypes, WorkTypes, amplifier
  <2>3. WorkTypes'
    BY <1>1, <1>10 DEF EndRead
  <2> QED BY <1>10, <2>2, <2>3, OtherTypes DEF EndRead, TypeInv, amplifier
<1> QED BY <1>4, <1>5, <1>6, <1>7, <1>8, <1>9, <1>10 DEF Watcher

LEMMA EditorTypes ==
    ASSUME TypeInv, NEW e \in Editors, SaveConfig(e) \/ Editing(e)
    PROVE  TypeInv'
<1>1. WorkTypes'
  BY OtherTypes DEF SaveConfig, Editing, CloseOld, ClearFlag, AskForPoll, WakeWatcher
<1>2. FlagTypes'
  <2>1. \E pc \in {"idle", "closing", "clearing", "asking", "waking"} : editor' = [editor EXCEPT ![e] = pc]
    BY DEF SaveConfig, Editing, CloseOld, ClearFlag, AskForPoll, WakeWatcher, EditorStep
  <2>2. editor' \in [Editors -> {"idle", "closing", "clearing", "asking", "waking"}]
    BY <2>1 DEF TypeInv, FlagTypes
  <2> QED BY <2>2 DEF SaveConfig, Editing, CloseOld, ClearFlag, AskForPoll, WakeWatcher, flags,
    TypeInv, FlagTypes
<1>3. CASE Editing(e)
  BY <1>1, <1>2, <1>3, OtherTypes DEF Editing, CloseOld, ClearFlag, AskForPoll, WakeWatcher, amplifier, TypeInv
<1>4. CASE SaveConfig(e)
  <2>1. HardwareTypes'
    BY <1>4 DEF SaveConfig, TypeInv, HardwareTypes, amplifier
  <2>2. LinkTypes'
    <3>1. CASE UNCHANGED <<link, listening>>
      BY <1>4, <3>1, OtherTypes DEF SaveConfig, amplifier
    <3>2. ASSUME link' = [shared |-> FALSE, open |-> FALSE, gen |-> link.gen + 1, backoff |-> FALSE],
                 Dropped
          PROVE  LinkTypes'
      <4>1. link' \in Links /\ ~link'.open
        BY <3>2 DEF TypeInv, LinkTypes, Links
      <4> QED BY <3>2, <4>1, DroppedTypes
    <3> QED BY <1>4, <3>1, <3>2 DEF SaveConfig
  <2> QED BY <1>1, <1>2, <2>1, <2>2 DEF TypeInv
<1> QED BY <1>3, <1>4

LEMMA TypeNext == ASSUME TypeInv, [Next]_vars PROVE TypeInv'
<1>1. CASE UNCHANGED vars
  BY <1>1, OtherTypes DEF vars, amplifier, listening, flags, TypeInv
<1> QED BY <1>1, WorldTypes, CommandTypes, ListenerTypes, WatcherTypes, EditorTypes DEF Next

LEMMA TypeInit == Init => TypeInv
<1> SUFFICES ASSUME Init PROVE TypeInv
  OBVIOUS
<1>1. Off \in States /\ OnceEach({})
  BY ZonesAssumption DEF Off, States, Settings, Power, OnceEach
<1>2. HardwareTypes
  BY <1>1 DEF Init, HardwareTypes
<1>3. LinkTypes
  BY EmptySeq DEF Init, LinkTypes, Links
<1>4. WorkTypes
  BY <1>1 DEF Init, WorkTypes, NoCommand, Resting
<1>5. FlagTypes
  BY DEF Init, FlagTypes
<1> QED BY <1>2, <1>3, <1>4, <1>5 DEF TypeInv

\* Every variable has its type; with the shared connection goes what its listener has not
\* taken up, and an open connection has a gateway that took it.
THEOREM TypeCorrect == Spec => []TypeOK
<1>1. TypeInv /\ Serialized => TypeOK
  <2> SUFFICES ASSUME TypeInv, Serialized PROVE TypeOK
    OBVIOUS
  <2>1. cmd.todo \subseteq Writes /\ watcher.todo \subseteq Zones
    BY DEF TypeInv, WorkTypes
  <2>2. lock \in {"command", "watcher", Nobody} /\ (lock = "watcher" <=> watcher.pc = "read")
    BY DEF Serialized, LockInv
  <2> QED BY <2>1, <2>2 DEF TypeInv, HardwareTypes, LinkTypes, FlagTypes, TypeOK, States, Updates,
    Waits, Hints, Links
<1> QED BY <1>1, TypeInit, TypeNext, SerializedAlways, PTL DEF Spec

===============================================================================
