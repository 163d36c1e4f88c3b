----------------------------- MODULE RoomControl -----------------------------
(***************************************************************************)
(* The zones of the amplifier as the web server controls and follows them: *)
(* the command handlers of web/russound_controller.py on the gateway       *)
(* connection of web/russound_backend.py, and the push, refresh and poll   *)
(* paths, the reconnects and the configuration changes of                  *)
(* web/russound_server.py.  state_lock serialises everybody who works on   *)
(* russound_state.json; the hardware, its keypads, the connection and the  *)
(* listener thread do not wait for it.                                     *)
(*                                                                         *)
(* A zone is its power and its source; a zone's other settings travel the  *)
(* path of the source.  The gateway may refuse connections, or accept them *)
(* in front of a controller that is silent.                                *)
(***************************************************************************)
EXTENDS Naturals, Sequences, FiniteSets

CONSTANTS
    NumZones,     \* the configured zones are 1..NumZones, read in this order
    Enabled,      \* the zones that are enabled
    Sources,      \* the configured inputs
    Shortcut,     \* the zones a shortcut switches on
    Editors,      \* browsers that save a configuration with a new endpoint
    MaxEvents,    \* bound: commands, keypad changes, configuration changes and failures
    Nobody

Zones    == 1..NumZones
Power    == {"on", "off"}
Settings == [power : Power, source : Sources]

ASSUME ZonesAssumption ==
    /\ NumZones \in Nat /\ Enabled \subseteq Zones /\ Shortcut \subseteq Zones
    /\ Sources # {} /\ Sources \cap Power = {}
ASSUME NobodyAssumption == Nobody \notin {"command", "watcher"}
ASSUME BoundsAssumption == MaxEvents \in Nat

VARIABLES
    hw,            \* the zones in the amplifier
    gateway,       \* the gateway takes connections; the controller answers
    saved,         \* russound_state.json
    health,        \* _backend_health
    link,          \* _event_backend: it exists, its socket is open, its generation,
                   \* and the back-off after a refused connection is running
    wire,          \* updates on their way to the listener, or read and not yet taken up
    busy,          \* the update the listener is handling
    late,          \* updates that listeners of earlier connections still handle
    refresh,       \* _zone_refresh_addresses
    wake,          \* _zone_refresh_requested
    full,          \* _full_poll_requested
    reconfiguring, \* _backend_reconfiguring
    lock,          \* the holder of state_lock while it works on the hardware
    cmd,           \* the command that holds state_lock, or the outcome of the last
    watcher,       \* the backend-change-watcher thread
    editor,        \* configuration changes after they released state_lock
    count          \* what users, keypads and failures have done so far

vars == <<hw, gateway, saved, health, link, wire, busy, late, refresh, wake, full,
          reconfiguring, lock, cmd, watcher, editor, count>>
amplifier == <<hw, gateway>>
listening == <<wire, busy, late>>
flags     == <<refresh, wake, full>>
server    == <<reconfiguring, lock, cmd, watcher, editor>>

Event == count < MaxEvents /\ count' = count + 1

Write(z, s, v) == [zone |-> z, setting |-> s, value |-> v]
Writes == {Write(z, "power", p) : z \in Zones, p \in Power} \cup
          {Write(z, "source", s) : z \in Zones, s \in Sources}
Hint(z, s) == Write(z, s, Nobody)
NoUpdate == [update |-> Hint(0, "none"), gen |-> 0]
Off == [z \in Zones |-> [power |-> "off", source |-> CHOOSE s \in Sources : TRUE]]

NoCommand == [strict |-> TRUE, begun |-> FALSE, todo |-> {}, base |-> Off, target |-> Off]
Resting == [pc |-> "ensure", todo |-> {}, base |-> Off, copy |-> Off, whole |-> FALSE,
            reachable |-> FALSE, answered |-> FALSE]

\* The server starts with a gateway that may be down, and polls once at the start.
Init ==
    /\ hw = Off /\ saved = Off
    /\ gateway = [reachable |-> TRUE, answering |-> TRUE]
    /\ health = "unknown"
    /\ link = [shared |-> TRUE, open |-> TRUE, gen |-> 0, backoff |-> FALSE]
    /\ wire = <<>> /\ busy = NoUpdate /\ late = {}
    /\ refresh = {} /\ wake = FALSE /\ full = FALSE /\ reconfiguring = FALSE
    /\ lock = Nobody /\ cmd = NoCommand /\ watcher = Resting
    /\ editor = [e \in Editors |-> "idle"]
    /\ count = 0

-----------------------------------------------------------------------------
(* The amplifier and its gateway. *)

\* A zone that is given a source is on.
Applied(state, w) ==
    IF w.setting = "power" THEN [state EXCEPT ![w.zone].power = w.value]
    ELSE [state EXCEPT ![w.zone] = [power |-> "on", source |-> w.value]]

\* Someone uses a keypad: the amplifier reports the value, only that the zone
\* changed, or nothing at all.
KeypadChange(w) ==
    /\ Event
    /\ hw' = Applied(hw, w) /\ hw' # hw
    /\ wire' \in {wire} \cup IF link.open THEN {Append(wire, w), Append(wire, Hint(w.zone, "refresh"))}
                                          ELSE {}
    /\ UNCHANGED <<gateway, saved, health, link, busy, late, flags, server>>

\* The socket is lost with what the listener had not read; it goes on delivering
\* what it had.
Lost ==
    /\ link' = [link EXCEPT !.open = FALSE]
    /\ wire' \in {SubSeq(wire, 1, n) : n \in 0..Len(wire)}
    /\ UNCHANGED <<busy, late>>

Handled == IF busy = NoUpdate THEN {} ELSE {busy}

LeavesLast == busy' = NoUpdate /\ late' = late \cup Handled

\* Mutant of Dropped: the old listener goes on delivering.
DroppedLater == UNCHANGED wire /\ LeavesLast

\* A connection that is closed takes its listener's callback away, or its generation
\* has passed: what the listener has read and not taken up is dropped, the update it
\* is handling is not.
Dropped == wire' = <<>> /\ LeavesLast

ConnectionLost ==
    /\ link.open /\ Event
    /\ gateway' \in {gateway, [gateway EXCEPT !.reachable = FALSE]}
    /\ Lost
    /\ UNCHANGED <<hw, saved, health, flags, server>>

ControllerSilent ==
    /\ gateway.answering /\ Event
    /\ gateway' = [gateway EXCEPT !.answering = FALSE]
    /\ UNCHANGED <<hw, saved, health, link, listening, flags, server>>

Recovers ==
    /\ gateway' = [reachable |-> TRUE, answering |-> TRUE]
    /\ gateway' # gateway
    /\ UNCHANGED <<hw, saved, health, link, listening, flags, server, count>>

\* ser2net may take one connection at a time.
Accepting ==
    IF ~gateway.reachable THEN {FALSE}
    ELSE IF \E e \in Editors : editor[e] = "closing" THEN BOOLEAN ELSE {TRUE}

Replaces == link.shared /\ ~link.open /\ ~link.backoff

\* RussoundBackend._connect: an open connection is reused, a lost one is replaced
\* unless a refusal was too recent.  Without a shared backend a call makes a
\* backend of its own, from the configuration or with the default endpoint.
Reached ==
    IF ~link.shared THEN Accepting \cup {FALSE}
    ELSE IF link.open THEN {TRUE} ELSE IF link.backoff THEN {FALSE} ELSE Accepting
Tried(up) ==
    IF Replaces THEN [link EXCEPT !.open = up, !.backoff = ~up] ELSE link
Connects(up) ==
    /\ link' = Tried(up)
    /\ IF Replaces THEN Dropped ELSE UNCHANGED listening

BackoffEnds ==
    /\ link.backoff
    /\ link' = [link EXCEPT !.backoff = FALSE]
    /\ UNCHANGED <<amplifier, saved, health, listening, flags, server, count>>

-----------------------------------------------------------------------------
(* Commands.  A handler loads the state, writes to the hardware zone by zone, *)
(* and saves.  Waiting for state_lock changes nothing.                        *)

\* Mutant of Free: the listener does not wait for the lock.
FreeForListener(who) == lock = Nobody \/ who = "listener"
Free(who) == lock = Nobody

\* update_zone_setting, set_system_power, set_shared_source, apply_shortcut: what
\* they write, and what they save when no failure stops them.
Noted(w) == [saved EXCEPT ![w.zone] =
    IF w.setting = "power" THEN [@ EXCEPT !.power = w.value] ELSE [@ EXCEPT !.source = w.value]]
ZoneRequest(w) == [kind |-> "zone", todo |-> {w}, target |-> Noted(w)]
PowerRequest(p) ==
    [kind |-> "power", todo |-> {Write(z, "power", p) : z \in IF p = "on" THEN Enabled ELSE Zones},
     target |-> [z \in Zones |->
         [saved[z] EXCEPT !.power = IF p = "on" /\ z \in Enabled THEN "on" ELSE "off"]]]
SourceRequest(s) ==
    [kind |-> "source", todo |-> {Write(z, "source", s) : z \in Enabled},
     target |-> [z \in Zones |-> IF z \in Enabled THEN [saved[z] EXCEPT !.source = s] ELSE saved[z]]]
ShortcutRequest(s) ==
    [kind |-> "shortcut",
     todo |-> {Write(z, "power", "on") : z \in Shortcut} \cup {Write(z, "source", s) : z \in Shortcut},
     target |-> [z \in Zones |-> IF z \in Shortcut THEN [power |-> "on", source |-> s] ELSE saved[z]]]
Requests ==
    {ZoneRequest(w) : w \in Writes} \cup {PowerRequest(p) : p \in Power} \cup
    {SourceRequest(s) : s \in Sources} \cup {ShortcutRequest(s) : s \in Sources}

\* A failed write ends a change of system power, and of one zone if
\* _backend_for_config found a backend; it is ignored otherwise.
StopsOnFailure(kind, provided) == kind = "power" \/ (kind = "zone" /\ provided)

Begin ==
    /\ Free("command") /\ Event
    /\ lock' = "command"
    /\ \E r \in Requests, up \in Reached :
         cmd' = [strict |-> StopsOnFailure(r.kind, link.shared \/ up), begun |-> FALSE,
                 todo |-> r.todo, base |-> saved, target |-> r.target]
    /\ UNCHANGED <<amplifier, saved, health, link, listening, flags, reconfiguring, watcher,
                   editor>>

\* Zones in their configured order; a shortcut switches a zone on, then its source.
NextWrite == CHOOSE w \in cmd.todo : \A o \in cmd.todo :
    w.zone < o.zone \/ (w.zone = o.zone /\ (w.setting = "power" \/ w = o))
Written == cmd' = [cmd EXCEPT !.todo = @ \ {NextWrite}, !.begun = TRUE]
Answer == cmd' = NoCommand /\ lock' = Nobody

\* Every write of a zone asks for a connection; turn_all_zones_on and off keep the
\* client of their first write, and fail when it has lost its connection.
Kept == cmd.strict /\ cmd.begun /\ link.shared
Usable == IF Kept THEN {link.open} ELSE Reached

\* The write goes out; a silent controller does not act on it, and nobody
\* notices.  The echo of a power change is taken for the response, or reaches
\* the listener.
WriteGoesOut ==
    /\ lock = "command" /\ cmd.todo # {}
    /\ TRUE \in Usable
    /\ link' = Tried(TRUE)
    /\ IF Replaces THEN LeavesLast ELSE UNCHANGED <<busy, late>>
    /\ hw' = IF gateway.answering THEN Applied(hw, NextWrite) ELSE hw
    /\ LET heard == IF Replaces THEN <<>> ELSE wire IN
       wire' \in {heard} \cup IF hw' # hw /\ link'.open /\ NextWrite.setting = "power"
                             THEN {Append(heard, NextWrite)} ELSE {}
    /\ Written
    /\ UNCHANGED <<gateway, saved, health, flags, reconfiguring, lock, watcher, editor, count>>

\* No connection, or it is lost before the response is read.
WriteFails ==
    /\ lock = "command" /\ cmd.todo # {}
    /\ \/ /\ FALSE \in Usable
          /\ IF Kept THEN UNCHANGED <<link, listening>> ELSE Connects(FALSE)
          /\ UNCHANGED <<hw, count>>
       \/ /\ link.open /\ Event /\ Lost
          /\ hw' \in {hw, IF gateway.answering THEN Applied(hw, NextWrite) ELSE hw}
    /\ IF cmd.strict THEN Answer
       ELSE Written /\ UNCHANGED lock
    /\ UNCHANGED <<gateway, saved, health, flags, reconfiguring, watcher, editor>>

\* persist_state may fail on a full disk.
SaveCommand ==
    /\ lock = "command" /\ cmd.todo = {}
    /\ (saved' = cmd.target /\ UNCHANGED count) \/ (Event /\ UNCHANGED saved)
    /\ Answer
    /\ UNCHANGED <<amplifier, health, link, listening, flags, reconfiguring, watcher, editor>>

-----------------------------------------------------------------------------
(* The listener thread, _handle_unsolicited_zone_update.                    *)

\* A value passes the first check of its generation and waits for state_lock; a
\* hint adds its zone before it sets the event.
TakeUpdate ==
    /\ busy = NoUpdate /\ wire # <<>>
    /\ LET u == Head(wire) IN
       IF u.setting = "refresh"
       THEN refresh' = refresh \cup {u.zone} /\ busy' = [update |-> Hint(u.zone, "wake"), gen |-> link.gen]
       ELSE busy' = [update |-> u, gen |-> link.gen] /\ UNCHANGED refresh
    /\ wire' = Tail(wire)
    /\ UNCHANGED <<amplifier, saved, health, link, late, wake, full, server, count>>

Done(u) ==
    IF u = busy THEN busy' = NoUpdate /\ UNCHANGED late ELSE late' = late \ {u} /\ UNCHANGED busy

SetWake(u) ==
    /\ u.update.setting = "wake"
    /\ wake' = TRUE
    /\ Done(u)
    /\ UNCHANGED <<amplifier, saved, health, link, wire, refresh, full, server, count>>

OfAnyConnection(gen) == TRUE   \* mutant of OfPresentConnection: no check under the lock
OfPresentConnection(gen) == gen = link.gen

\* Under state_lock the generation is checked again; a failure to save is logged.
ApplyUpdate(u) ==
    /\ u.update.setting \in {"power", "source"} /\ Free("listener")
    /\ IF OfPresentConnection(u.gen)
       THEN (saved' = Noted(u.update) /\ UNCHANGED count) \/ (Event /\ UNCHANGED saved)
       ELSE UNCHANGED <<saved, count>>
    /\ Done(u)
    /\ UNCHANGED <<amplifier, health, link, wire, flags, server>>

-----------------------------------------------------------------------------
(* The watcher thread, _backend_change_watcher_loop.                        *)

Go(pc) == watcher' = [Resting EXCEPT !.pc = pc]

\* _ensure_update_listener creates the shared backend, or replaces a lost
\* connection; its own back-off, 5 to 60 s, may let it pass.
Ensure ==
    /\ watcher.pc = "ensure" /\ Free("watcher")
    /\ \/ (reconfiguring \/ link.shared) /\ UNCHANGED <<link, listening, health>>
       \/ /\ ~reconfiguring /\ link.shared
          /\ \E up \in Reached : Connects(up)
          /\ UNCHANGED health
       \/ /\ ~reconfiguring /\ ~link.shared
          /\ \E up \in Accepting :
               link' = [link EXCEPT !.shared = TRUE, !.open = up, !.backoff = ~up]
          /\ health' = "unknown"
          /\ UNCHANGED listening
    /\ Go("wait")
    /\ UNCHANGED <<amplifier, saved, flags, reconfiguring, lock, cmd, editor, count>>

\* Mutant of PollTakes: the poll covers every zone, so the event is cleared too.
PollClearsWake == full' = FALSE /\ wake' = FALSE
PollTakes == full' = FALSE /\ UNCHANGED wake

\* A full poll runs for an open page, or while the health is unknown.
StartPoll ==
    /\ PollTakes
    /\ watcher' = [Resting EXCEPT !.pc = "lock", !.whole = TRUE, !.todo = Zones]
    /\ UNCHANGED refresh
SkipPoll ==
    /\ health # "unknown"
    /\ PollTakes
    /\ Go("ensure")
    /\ UNCHANGED refresh

Woken ==
    /\ watcher.pc = "wait" /\ wake
    /\ IF full THEN StartPoll \/ SkipPoll ELSE Go("debounce") /\ UNCHANGED flags
    /\ UNCHANGED <<amplifier, saved, health, link, listening, reconfiguring, lock, cmd, editor, count>>

PollDue ==
    /\ watcher.pc = "wait" /\ ~wake
    /\ StartPoll
    /\ UNCHANGED <<amplifier, saved, health, link, listening, reconfiguring, lock, cmd, editor, count>>

\* Every 5 s the watcher looks after the connection.
NotDue ==
    /\ watcher.pc = "wait" /\ ~wake
    /\ (Go("ensure") /\ UNCHANGED flags) \/ SkipPoll
    /\ UNCHANGED <<amplifier, saved, health, link, listening, reconfiguring, lock, cmd, editor,
                   count>>

\* _take_zone_refresh_addresses: the event is cleared before the zones are taken.
ClearWake ==
    /\ watcher.pc = "debounce"
    /\ wake' = FALSE
    /\ Go("take")
    /\ UNCHANGED <<amplifier, saved, health, link, listening, refresh, full, reconfiguring, lock,
                   cmd, editor, count>>

TakeZones ==
    /\ watcher.pc = "take"
    /\ refresh' = {}
    /\ IF refresh = {} THEN Go("ensure")
       ELSE watcher' = [Resting EXCEPT !.pc = "lock", !.todo = refresh]
    /\ UNCHANGED <<amplifier, saved, health, link, listening, wake, full, reconfiguring, lock,
                   cmd, editor, count>>

\* _sync_state_from_backend, on the state loaded under the lock.
BeginRead ==
    /\ watcher.pc = "lock" /\ Free("watcher")
    /\ lock' = "watcher"
    /\ \E up \in Reached :
         /\ Connects(up)
         /\ watcher' = [watcher EXCEPT !.pc = "read", !.reachable = up, !.base = saved, !.copy = saved]
    /\ UNCHANGED <<amplifier, saved, health, flags, reconfiguring, cmd, editor, count>>

NextZone == CHOOSE z \in watcher.todo : \A o \in watcher.todo : z <= o

ZoneAnswers ==
    /\ watcher.pc = "read" /\ watcher.todo # {}
    /\ TRUE \in Reached /\ gateway.answering
    /\ Connects(TRUE)
    /\ watcher' = [watcher EXCEPT !.todo = @ \ {NextZone}, !.copy[NextZone] = hw[NextZone],
                                  !.answered = TRUE]
    /\ UNCHANGED <<amplifier, saved, health, flags, reconfiguring, lock, cmd, editor, count>>

\* One that misses the extended request is asked for its power, source and volume
\* in turn; of those some may go unanswered: a missing power is off, a missing
\* source the first input.
ZonePartly ==
    /\ watcher.pc = "read" /\ watcher.todo # {}
    /\ TRUE \in Reached /\ gateway.answering /\ Event
    /\ Connects(TRUE)
    /\ \E p \in {"off", hw[NextZone].power}, s \in {Off[NextZone].source, hw[NextZone].source} :
         watcher' = [watcher EXCEPT !.todo = @ \ {NextZone}, !.answered = TRUE,
                                    !.copy[NextZone] = [power |-> p, source |-> s]]
    /\ UNCHANGED <<amplifier, saved, health, flags, reconfiguring, lock, cmd, editor>>

\* A zone that does not answer ends the round, unless one has answered before.
ZoneSilent ==
    /\ watcher.pc = "read" /\ watcher.todo # {}
    /\ \/ \E up \in Reached : Connects(up) /\ (up => ~gateway.answering) /\ UNCHANGED count
       \/ TRUE \in Reached /\ Connects(TRUE) /\ Event
    /\ watcher' = [watcher EXCEPT !.todo = IF watcher.answered THEN @ \ {NextZone} ELSE {}]
    /\ UNCHANGED <<amplifier, saved, health, flags, reconfiguring, lock, cmd, editor>>

\* Mutant of HealthAfter: silent hardware keeps its last health.
HealthAfterAnswer(w) == IF w.answered THEN "ok" ELSE IF ~w.reachable THEN "unreachable" ELSE health
\* _record_backend_health
HealthAfter(w) == IF w.answered THEN "ok" ELSE IF ~w.reachable THEN "unreachable" ELSE "silent"

\* Only a full poll judges the health; it is recorded before the state is saved.
EndRead ==
    /\ watcher.pc = "read" /\ watcher.todo = {}
    /\ health' = IF watcher.whole THEN HealthAfter(watcher) ELSE health
    /\ (saved' = watcher.copy /\ UNCHANGED count) \/ (Event /\ UNCHANGED saved)
    /\ lock' = Nobody
    /\ Go("ensure")
    /\ UNCHANGED <<amplifier, link, listening, flags, reconfiguring, cmd, editor>>

-----------------------------------------------------------------------------
(* POST /api/config.                                                        *)

\* Under state_lock the connection is detached if the endpoint changed: updates
\* it has read and not taken up will fail the first check of their generation.
SaveConfig(e) ==
    /\ editor[e] = "idle" /\ Free("editor") /\ Event
    /\ \/ /\ reconfiguring' = TRUE
          /\ link' = [shared |-> FALSE, open |-> FALSE, gen |-> link.gen + 1, backoff |-> FALSE]
          /\ Dropped
          /\ health' = "unknown"
          /\ editor' = [editor EXCEPT ![e] = IF link.open THEN "closing" ELSE "clearing"]
       \/ /\ editor' = [editor EXCEPT ![e] = "clearing"]
          /\ UNCHANGED <<reconfiguring, link, listening, health>>
    /\ UNCHANGED <<amplifier, saved, flags, lock, cmd, watcher>>

EditorStep(e, from, to) == editor[e] = from /\ editor' = [editor EXCEPT ![e] = to]

\* Outside the lock: the old connection is closed, the flag is cleared whoever
\* set it, and the watcher is woken for a full poll.
CloseOld(e) ==
    /\ EditorStep(e, "closing", "clearing")
    /\ UNCHANGED <<amplifier, saved, health, link, listening, flags, reconfiguring, lock, cmd,
                   watcher, count>>
ClearFlag(e) ==
    /\ EditorStep(e, "clearing", "asking")
    /\ reconfiguring' = FALSE
    /\ UNCHANGED <<amplifier, saved, health, link, listening, flags, lock, cmd, watcher, count>>
AskForPoll(e) ==
    /\ EditorStep(e, "asking", "waking")
    /\ full' = TRUE
    /\ UNCHANGED <<amplifier, saved, health, link, listening, refresh, wake, reconfiguring, lock,
                   cmd, watcher, count>>
WakeWatcher(e) ==
    /\ EditorStep(e, "waking", "idle")
    /\ wake' = TRUE
    /\ UNCHANGED <<amplifier, saved, health, link, listening, refresh, full, reconfiguring, lock,
                   cmd, watcher, count>>

-----------------------------------------------------------------------------
World    == (\E w \in Writes : KeypadChange(w)) \/ ConnectionLost \/ ControllerSilent \/ Recovers
               \/ BackoffEnds
Command  == WriteGoesOut \/ WriteFails \/ SaveCommand
Listener == TakeUpdate \/ \E u \in late \cup Handled : SetWake(u) \/ ApplyUpdate(u)
Watcher  == Ensure \/ Woken \/ PollDue \/ NotDue \/ ClearWake \/ TakeZones
               \/ BeginRead \/ ZoneAnswers \/ ZonePartly \/ ZoneSilent \/ EndRead
Editing(e) == CloseOld(e) \/ ClearFlag(e) \/ AskForPoll(e) \/ WakeWatcher(e)

Next ==
    \/ World \/ Begin \/ Command \/ Listener \/ Watcher
    \/ \E e \in Editors : SaveConfig(e) \/ Editing(e)

Spec == Init /\ [][Next]_vars

\* Threads run and back-offs end; a page is open, so that a poll that is due, as it
\* is again and again however often the watcher is woken, takes place.  Nothing is
\* assumed of users, of the hardware or of the listener.
FairSpec ==
    /\ Spec
    /\ WF_vars(Command) /\ WF_vars(Watcher) /\ SF_vars(PollDue) /\ WF_vars(BackoffEnds)
    /\ \A e \in Editors : WF_vars(Editing(e))

-----------------------------------------------------------------------------
(* Properties. *)

\* Every variable has its type.
TypeOK ==
    LET Updates == [update : Writes \cup {Hint(z, "wake") : z \in Zones}, gen : Nat] IN
    /\ hw \in [Zones -> Settings] /\ saved \in [Zones -> Settings]
    /\ gateway \in [reachable : BOOLEAN, answering : BOOLEAN]
    /\ health \in {"unknown", "ok", "unreachable", "silent"}
    /\ link \in [shared : BOOLEAN, open : BOOLEAN, gen : Nat, backoff : BOOLEAN]
    /\ link.open => link.shared /\ gateway.reachable
    /\ wire \in Seq(Writes \cup {Hint(z, "refresh") : z \in Zones})
    /\ wire # <<>> \/ busy # NoUpdate => link.shared
    /\ busy \in Updates \cup {NoUpdate} /\ late \in SUBSET Updates
    /\ refresh \subseteq Zones /\ wake \in BOOLEAN /\ full \in BOOLEAN
    /\ reconfiguring \in BOOLEAN
    /\ lock \in {"command", "watcher", Nobody}
    /\ lock = "watcher" <=> watcher.pc = "read"
    /\ cmd.todo \subseteq Writes /\ watcher.todo \subseteq Zones
    /\ editor \in [Editors -> {"idle", "closing", "clearing", "asking", "waking"}]

\* "Hardware refreshes remain serialized with commands to prevent stale polls from
\* overwriting newer changes" (web/API.md): while a command or a poll works on the
\* state it has loaded, nobody else saves another one.
NoLostUpdate ==
    /\ lock = "command" => saved = cmd.base
    /\ watcher.pc = "read" => saved = watcher.base

\* A zone a keypad changed is not forgotten between the listener, which adds it
\* and then sets the event, and the watcher, which clears the event and then
\* takes it: while a zone waits, the watcher has been or will be woken.
WakeUpsAreKept ==
    refresh # {} => \/ wake \/ watcher.pc = "take"
                    \/ \E u \in late \cup Handled : u.update.setting = "wake"

\* "Listener callbacks from the old generation are ignored": what the listener
\* saves was reported by the connection of the present configuration, also when it
\* waited for the lock while the configuration was changed.
PresentConnectionOnly ==
    [][saved' # saved /\ lock = Nobody =>
         \E u \in late \cup Handled : u.gen = link.gen /\ saved' = Noted(u.update)]_vars

\* The poll "catches anything the push path missed, including connectivity loss":
\* with a page open, whatever commands, keypads, losses, failed saves and
\* configuration changes came before, the saved state and the health end up true.
Settled ==
    health = CASE ~gateway.reachable -> "unreachable"
               [] gateway.reachable /\ ~gateway.answering -> "silent"
               [] OTHER -> "ok"
Settles == <>[](Settled /\ (health = "ok" => saved = hw))
=============================================================================
