--------------------------- MODULE RnetTransactions ---------------------------
(***************************************************************************)
(* Requests and notifications on the one byte stream of the RNet gateway:  *)
(* web/russound_connector.py, called by read_zone and set_zone_power of    *)
(* web/russound_backend.py under the web server's state_lock, against an   *)
(* amplifier or tool/dummy_backend/dummy_backend.py.                       *)
(*                                                                         *)
(* An answer carries no request number: it is recognised by its message    *)
(* type and zone number, which zones of several controllers share.  Late   *)
(* answers, notifications and echoes therefore meet the next request.      *)
(* A zone is its power; source and volume travel the same way.             *)
(***************************************************************************)
EXTENDS Naturals, SequencesExt

CONSTANTS
    NumZones,     \* the configured zones are 1..NumZones, polled in this order
    Number,       \* a zone's number on its controller
    MaxSets,      \* bound: commands of users
    MaxEvents     \* bound: keypad changes, late answers and failures

Zones == 1..NumZones

ASSUME ZonesAssumption == NumZones \in Nat \ {0} /\ Number \in [Zones -> Nat]
ASSUME BoundsAssumption == MaxSets \in Nat /\ MaxEvents \in Nat

VARIABLES
    hardware,    \* an amplifier's controller, or the dummy
    hw,          \* the zones that are on
    inbox,       \* requests on their way to the hardware
    wire,        \* frames on their way from the hardware
    pending,     \* _pending_frames
    updates,     \* _pending_zone_updates
    batch,       \* by connection: what its listener thread is delivering
    conn,        \* the present connection
    issued,      \* by connection: notifications the hardware has sent
    told,        \* by connection: notifications its listener has delivered
    caller,      \* who holds state_lock, and the call it is in
    view,        \* russound_state.json: the zones saved as on
    count        \* what users and events have done so far

vars == <<hardware, hw, inbox, wire, pending, updates, batch, conn, issued, told, caller, view, count>>
stream    == <<inbox, wire>>
connector == <<pending, updates, batch>>
ledger    == <<conn, issued, told>>

Connections == 0..MaxEvents
Event == count.events < MaxEvents /\ count' = [count EXCEPT !.events = @ + 1]

\* A frame: an answer without header (of the dummy), zone info with a header, the
\* echo of a set, a notification of a zone's power, or of a keypad.
Frame(kind, z, on, serial) == [kind |-> kind, zone |-> z, on |-> on, serial |-> serial]
Info(f) == f.kind \in {"answer", "info"}
Notifications == {"event", "hint"}
Others == {"answer", "info", "echo"}
Direct(f) == f.kind \in Notifications

\* Those of a sequence of frames that are of these kinds, in order.
OfKinds(frames, kinds) ==
    LET kept[i \in 0..Len(frames)] ==
          IF i = 0 THEN <<>>
          ELSE IF frames[i].kind \in kinds THEN Append(kept[i - 1], frames[i])
          ELSE kept[i - 1]
    IN  kept[Len(frames)]

Nowhere == [call |-> "none", phase |-> "rest", zone |-> 0, on |-> FALSE, power |-> "missing",
            answered |-> FALSE, found |-> FALSE, copy |-> {}]

Init ==
    /\ hardware \in {"controller", "dummy"}
    /\ hw = {} /\ view = {}
    /\ inbox = <<>> /\ wire = <<>> /\ pending = <<>> /\ updates = <<>>
    /\ batch = [c \in Connections |-> <<>>]
    /\ conn = 0
    /\ issued = [c \in Connections |-> 0] /\ told = [c \in Connections |-> 0]
    /\ caller = Nowhere
    /\ count = [sets |-> 0, events |-> 0]

-----------------------------------------------------------------------------
(* The hardware. *)

Switched(z, on) == IF on THEN hw \cup {z} ELSE hw \ {z}

\* The amplifier reports a change of power, only that a keypad was used, or
\* nothing; the dummy sends zone info for every power set.
Notices(z, on, kinds) ==
    \/ /\ hardware = "dummy"
       /\ wire' = Append(wire, Frame("info", z, on, 0)) /\ UNCHANGED issued
    \/ /\ hardware = "controller"
       /\ \E kind \in kinds :
            /\ issued' = [issued EXCEPT ![conn] = IF kind = "echo" THEN @ ELSE @ + 1]
            /\ wire' = Append(wire, Frame(kind, z, on, IF kind = "echo" THEN 0 ELSE issued'[conn]))
    \/ /\ hardware = "controller"
       /\ UNCHANGED <<wire, issued>>

KeypadChange(z) ==
    /\ Event
    /\ hw' = Switched(z, z \notin hw)
    /\ Notices(z, z \notin hw, {"event", "hint"})
    /\ UNCHANGED <<hardware, inbox, connector, conn, told, caller, view>>

Answer(z) == Frame(IF hardware = "dummy" THEN "answer" ELSE "info", z, z \in hw, 0)

\* Requests are recognised by their form and handled one by one, in the order they
\* were sent.
Asked(kind) == inbox # <<>> /\ Head(inbox).kind = kind

ServeRead ==
    /\ Asked("read")
    /\ wire' = Append(wire, Answer(Head(inbox).zone))
    /\ inbox' = Tail(inbox)
    /\ UNCHANGED <<hardware, hw, connector, ledger, caller, view, count>>

ServeSet ==
    /\ Asked("set")
    /\ LET r == Head(inbox) IN
         /\ hw' = Switched(r.zone, r.on)
         /\ IF hw' = hw /\ hardware = "controller" THEN UNCHANGED <<wire, issued>>
            ELSE Notices(r.zone, r.on, {"event", "echo"})
    /\ inbox' = Tail(inbox)
    /\ UNCHANGED <<hardware, connector, conn, told, caller, view, count>>

\* A request that is not acted on.
Ignored ==
    /\ inbox # <<>> /\ Event
    /\ inbox' = Tail(inbox)
    /\ UNCHANGED <<hardware, hw, wire, connector, ledger, caller, view>>

-----------------------------------------------------------------------------
(* The connector under its lock. *)

\* _read_available_locked: notifications are set aside, everything else waits in
\* _pending_frames.
ReadFrames == pending \o OfKinds(wire, Others)
ReadUpdates == updates \o OfKinds(wire, Notifications)

Locked == caller.phase = "sent"

\* __find_signature
Matches(f, z) == Info(f) /\ Number[f.zone] = Number[z]

\* _pop_matching_frame_locked: the first frame that matches.
FirstMatch(frames, z) == CHOOSE i \in 1..Len(frames) :
    Matches(frames[i], z) /\ \A j \in 1..(i - 1) : ~Matches(frames[j], z)
HasMatch(frames, z) == \E i \in 1..Len(frames) : Matches(frames[i], z)

Basic == {"power", "source", "volume"}
Reads == {"extended"} \cup Basic

\* get_zone_info counts its transaction before it waits for the lock.
Enter ==
    /\ caller.call \in Basic /\ caller.phase = "rest"
    /\ caller' = [caller EXCEPT !.phase = "waiting"]
    /\ UNCHANGED <<hardware, hw, stream, connector, ledger, view, count>>
InTransaction == caller.call \in Basic /\ caller.phase # "rest"

Send ==
    /\ \/ caller.call \in {"extended", "set"} /\ caller.phase = "rest"
       \/ caller.call \in Basic /\ caller.phase = "waiting"
    /\ inbox' = Append(inbox, [kind |-> IF caller.call = "set" THEN "set" ELSE "read",
                               zone |-> caller.zone, on |-> caller.on])
    /\ caller' = [caller EXCEPT !.phase = "sent"]
    /\ UNCHANGED <<hardware, hw, wire, connector, ledger, view, count>>

\* read_zone after a call: the extended answer holds everything; otherwise power,
\* source and volume are asked for one by one, and a zone that answers one of them
\* is saved with what came, its power as off when that is missing.  A silent zone
\* ends the round unless one has been found before.
NextZone(copy, found) ==
    LET over == caller.zone = NumZones \/ ~found IN
    [Nowhere EXCEPT !.call = IF over THEN "save" ELSE "extended",
                    !.zone = IF over THEN 0 ELSE caller.zone + 1,
                    !.found = found, !.copy = copy]
Saved(on) == IF on THEN caller.copy \cup {caller.zone} ELSE caller.copy \ {caller.zone}

AfterRead(got, on) ==
    LET c == [caller EXCEPT !.phase = "rest", !.answered = @ \/ got] IN
    CASE caller.call = "extended" /\ got  -> NextZone(Saved(on), TRUE)
      [] caller.call = "extended" /\ ~got -> [c EXCEPT !.call = "power"]
      [] caller.call = "power" ->
           [c EXCEPT !.call = "source", !.power = IF got THEN IF on THEN "on" ELSE "off" ELSE @]
      [] caller.call = "source" -> [c EXCEPT !.call = "volume"]
      [] caller.call = "volume" ->
           NextZone(IF c.answered THEN Saved(caller.power = "on") ELSE caller.copy,
                    c.found \/ c.answered)

\* __get_response_message of a read.
Receive ==
    /\ Locked /\ caller.call \in Reads
    /\ HasMatch(ReadFrames, caller.zone)
    /\ LET i == FirstMatch(ReadFrames, caller.zone) IN
         /\ pending' = RemoveAt(ReadFrames, i)
         /\ caller' = AfterRead(TRUE, ReadFrames[i].on)
    /\ updates' = ReadUpdates
    /\ wire' = <<>>
    /\ UNCHANGED <<hardware, hw, inbox, batch, ledger, view, count>>

\* Ten reads in vain: no answer is under way, or it is late.
GiveUp ==
    /\ Locked /\ caller.call \in Reads
    /\ ~HasMatch(ReadFrames, caller.zone)
    /\ (inbox = <<>> /\ UNCHANGED count) \/ (inbox # <<>> /\ Event)
    /\ pending' = ReadFrames /\ updates' = ReadUpdates
    /\ wire' = <<>>
    /\ caller' = AfterRead(FALSE, FALSE)
    /\ UNCHANGED <<hardware, hw, inbox, batch, ledger, view>>

\* A set reads once and takes the first frame, whatever it is, for its response.
ReceiveAny ==
    /\ Locked /\ caller.call = "set"
    /\ pending' = IF ReadFrames = <<>> THEN <<>> ELSE Tail(ReadFrames)
    /\ updates' = ReadUpdates
    /\ wire' = <<>>
    /\ view' = IF caller.on THEN view \cup {caller.zone} ELSE view \ {caller.zone}
    /\ caller' = Nowhere
    /\ UNCHANGED <<hardware, hw, inbox, batch, ledger, count>>

-----------------------------------------------------------------------------
(* The callers, which hold state_lock. *)

AtRest == caller = Nowhere

BeginPoll ==
    /\ AtRest
    /\ caller' = [Nowhere EXCEPT !.call = "extended", !.zone = 1, !.copy = view]
    /\ UNCHANGED <<hardware, hw, stream, connector, ledger, view, count>>

EndPoll ==
    /\ caller.call = "save"
    /\ view' = caller.copy
    /\ caller' = Nowhere
    /\ UNCHANGED <<hardware, hw, stream, connector, ledger, count>>

SetPower(z, on) ==
    /\ AtRest /\ count.sets < MaxSets
    /\ count' = [count EXCEPT !.sets = @ + 1]
    /\ caller' = [Nowhere EXCEPT !.call = "set", !.zone = z, !.on = on]
    /\ UNCHANGED <<hardware, hw, stream, connector, ledger, view>>

-----------------------------------------------------------------------------
(* The listener thread of a connection. *)

\* Mutant of Taken: what has been handed out is kept.
TakenAgain(frames) == frames
Taken(frames) == <<>>

\* Mutant of Retained: zone info stays until a request asks for it.
RetainedAlways == ReadFrames
\* _collect_unsolicited_updates_locked: no frame is taken away from a read that has
\* begun.
Retained == IF InTransaction THEN ReadFrames ELSE <<>>
\* _parse_zone_updates
Collected == IF InTransaction THEN <<>> ELSE OfKinds(ReadFrames, {"info", "echo"})

\* Every 50 ms, when everything of the last time has been delivered.
Collect ==
    /\ ~Locked /\ batch[conn] = <<>>
    /\ wire # <<>> \/ pending # <<>> \/ updates # <<>>
    /\ pending' = Retained
    /\ LET all == ReadUpdates \o Collected IN
         batch' = [batch EXCEPT ![conn] = all] /\ updates' = Taken(all)
    /\ wire' = <<>>
    /\ UNCHANGED <<hardware, hw, inbox, ledger, caller, view, count>>

\* The callback; a value waits for state_lock.
Deliver(c) ==
    /\ batch[c] # <<>>
    /\ LET u == Head(batch[c]) IN
         /\ u.kind # "hint" => AtRest
         /\ view' = IF u.kind = "hint" THEN view
                    ELSE IF u.on THEN view \cup {u.zone} ELSE view \ {u.zone}
         /\ told' = IF Direct(u) THEN [told EXCEPT ![c] = @ + 1] ELSE told
    /\ batch' = [batch EXCEPT ![c] = Tail(@)]
    /\ UNCHANGED <<hardware, hw, stream, pending, updates, conn, issued, caller, count>>

\* stop_update_listener, when the connection has been replaced: without a callback
\* what the old listener has not delivered yet is dropped.
Abandon(c) ==
    /\ c # conn /\ batch[c] # <<>>
    /\ batch' = [batch EXCEPT ![c] = <<>>]
    /\ UNCHANGED <<hardware, hw, stream, pending, updates, ledger, caller, view, count>>

\* The socket is lost; a call that has its connector fails, and the next one finds a
\* new one.  The old listener goes on with its batch.
ConnectionLost ==
    /\ Event
    /\ conn' = conn + 1
    /\ inbox' = <<>> /\ wire' = <<>> /\ pending' = <<>> /\ updates' = <<>>
    /\ \/ caller.call \in Reads /\ caller' = NextZone(caller.copy, caller.found)
       \/ caller.call = "set" /\ caller' = Nowhere
       \/ caller.call \notin Basic /\ ~Locked /\ UNCHANGED caller
    /\ UNCHANGED <<hardware, hw, batch, issued, told, view>>

-----------------------------------------------------------------------------
Hardware == ServeRead \/ ServeSet
Calls    == Enter \/ Send \/ Receive \/ GiveUp \/ ReceiveAny \/ BeginPoll \/ EndPoll
World    == (\E z \in Zones : KeypadChange(z)) \/ Ignored \/ ConnectionLost
               \/ \E z \in Zones, on \in BOOLEAN : SetPower(z, on)

Delivery == \E c \in Connections : Deliver(c) \/ Abandon(c)

Next == Hardware \/ Calls \/ World \/ Collect \/ Delivery

Spec == Init /\ [][Next]_vars

\* Polls go on, at intervals of a second and more: the hardware's late answers, the
\* listener, which comes every 50 ms, and its callbacks find time between two.
FairSpec ==
    /\ Spec
    /\ WF_vars(Calls) /\ WF_vars(Hardware)
    /\ SF_vars(AtRest /\ Hardware) /\ SF_vars(AtRest /\ Collect)
    /\ SF_vars(Delivery)

-----------------------------------------------------------------------------
(* Properties. *)

\* Every variable has its type; a call under way has its zone.
TypeOK ==
    LET Frames == [kind : {"answer", "info", "echo", "event", "hint"}, zone : Zones, on : BOOLEAN,
                   serial : Nat] IN
    /\ hw \subseteq Zones /\ view \subseteq Zones
    /\ inbox \in Seq([kind : {"read", "set"}, zone : Zones, on : BOOLEAN])
    /\ wire \in Seq(Frames)
    /\ pending \in Seq({f \in Frames : ~Direct(f)})
    /\ updates \in Seq({f \in Frames : Direct(f)})
    /\ batch \in [Connections -> Seq({f \in Frames : f.kind # "answer"})]
    /\ conn \in Connections
    /\ issued \in [Connections -> Nat] /\ told \in [Connections -> Nat]
    /\ caller.call \in Reads \cup {"none", "set", "save"}
    /\ caller.call \in Reads \cup {"set"} <=> caller.zone \in Zones
    /\ caller.phase \in {"rest", "waiting", "sent"}
    /\ caller.found \in BOOLEAN
    /\ caller.copy \subseteq Zones /\ caller.power \in {"missing", "on", "off"}

\* What is on its way through a connection, from the oldest on.
UnderWay(c) == OfKinds(batch[c] \o (IF c = conn THEN updates \o wire ELSE <<>>), Notifications)

\* Notifications are told to the web server once each and in the order they were
\* sent, although listener, polls and commands read them from one stream: what is
\* under way follows what was told, without a gap up to the last one sent.
EventsOnceInOrder ==
    \A c \in Connections :
        /\ \A i \in 1..Len(UnderWay(c)) : UnderWay(c)[i].serial = told[c] + i
        /\ c = conn => told[c] + Len(UnderWay(c)) = issued[c]

\* Frames are kept apart by what the code does with them, and none is told twice.
Orderly == TypeOK /\ EventsOnceInOrder

\* Each poll "catches anything the push path missed" (software-architecture.md):
\* however answers were late, taken for another zone's, taken by a command or lost,
\* the saved state is that of the hardware in the end.
Converges == <>[](view = hw)
=============================================================================
