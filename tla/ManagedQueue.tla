---------------------------- MODULE ManagedQueue ----------------------------
(***************************************************************************)
(* One output's MPD queue as MPDBackend manages it (lib/mpdbackend.py):    *)
(* whoever holds mpd_control.lock (the agent executing a command, the      *)
(* supervisor reconciling) reads playback.json, resolves the station,      *)
(* inspects the queue, replaces or reuses the one managed entry, persists  *)
(* its song id, starts it muted, verifies the route and unmutes it.        *)
(*                                                                         *)
(* Every call to MPD can fail, before or after it took effect; the holder  *)
(* can be killed between any two steps; MPD can restart (its queue is not  *)
(* kept and its song ids start again); another MPD client can add entries, *)
(* of a station's URL too; PipeWire can move the audio stream; a TuneIn    *)
(* station can change its URL.  A URL is a pair: the station it belongs to *)
(* and its version.                                                        *)
(***************************************************************************)
EXTENDS Naturals, FiniteSets

CONSTANTS
    UrlStations,    \* stations whose URL the administrator configured
    TuneInStations, \* stations whose URL TuneIn resolves, and may change
    MaxCommands,    \* bound: commands of users
    MaxFaults,      \* bound: failed calls, crashes, broken streams, lost routes
    MaxRotations,   \* bound: changes of a TuneIn URL
    MaxRestarts,    \* bound: restarts of MPD
    MaxForeign,     \* bound: entries added by other MPD clients
    NoStation, NoUrl, NoSong,
    ForeignUrl      \* the URL of an entry that is no station's

Stations == UrlStations \cup TuneInStations
Urls     == (Stations \X Nat) \cup {NoUrl}
Songs    == Nat \ {0}

ASSUME StationsAssumption ==
    /\ UrlStations \cap TuneInStations = {}
    /\ NoStation \notin Stations
    /\ NoUrl \notin Stations \X Nat
    /\ NoSong \notin Nat
ASSUME BoundsAssumption ==
    /\ MaxCommands \in Nat /\ MaxFaults \in Nat /\ MaxRotations \in Nat
    /\ MaxRestarts \in Nat /\ MaxForeign \in Nat

VARIABLES
    saved,   \* the output's row of playback.json
    queue,   \* MPD's queue: song ids with their URL and whose they are
    player,  \* MPD's player and software volume
    nextId,  \* the id MPD gives to the next entry
    routed,  \* the player's audio stream goes to the output's own sink
    live,    \* version of the URL each station resolves to now
    holder,  \* the holder of the mutation lock and what it remembers; history: whether
             \* the stream moved since it verified the route
    count    \* how much of each bound is used

vars == <<saved, queue, player, nextId, routed, live, holder, count>>
mpd  == <<queue, player, nextId, routed>>

Idle == [pc |-> "idle", stream |-> [station |-> NoStation, url |-> NoUrl, managed |-> NoSong,
         intention |-> "stop"], target |-> NoSong, fresh |-> FALSE, resolved |-> FALSE,
         linked |-> FALSE, moved |-> FALSE]

Stopped == [state |-> "stop", song |-> NoSong, volume |-> 100, error |-> FALSE]

\* default_output_state: an output with a default station starts by playing it.
Defaults ==
    {[station |-> NoStation, url |-> NoUrl, managed |-> NoSong, intention |-> "stop"]} \cup
    {[station |-> s, url |-> IF s \in UrlStations THEN <<s, 0>> ELSE NoUrl, managed |-> NoSong,
      intention |-> "play"] : s \in Stations}

Init ==
    /\ saved \in Defaults
    /\ queue  = {} /\ player = Stopped /\ nextId = 1 /\ routed = FALSE
    /\ live   = [s \in Stations |-> 0]
    /\ holder = Idle
    /\ count  = [commands |-> 0, faults |-> 0, rotations |-> 0, restarts |-> 0, foreign |-> 0]

-----------------------------------------------------------------------------
(* The holder of the lock. *)

At(pc) == holder.pc = pc
Goto(pc) == holder' = [holder EXCEPT !.pc = pc]
Use(bound, max) == count[bound] < max /\ count' = [count EXCEPT ![bound] = @ + 1]
Fault == Use("faults", MaxFaults)

UrlOfNothing(s) == <<s, NoUrl>>   \* mutant of UrlOf: an answer without a URL is taken
UrlOf(s) == <<s, live[s]>>
Playing(url) ==
    /\ player.state = "play" /\ ~player.error
    /\ \E e \in queue : e.id = player.song /\ e.url = url

\* reconcile: the saved intention is read under the lock.
Reconcile ==
    /\ At("idle")
    /\ holder' = [Idle EXCEPT !.pc = IF saved.intention = "play" THEN "audio" ELSE "quiet",
                              !.stream = saved]
    /\ UNCHANGED <<saved, mpd, live, count>>

\* manual_operation and the command line: the intention is saved first.  An
\* output without a station refuses to play and stops instead of pausing.
Transport(action) ==
    LET intention == IF action = "pause" /\ saved.station = NoStation THEN "stop" ELSE action IN
    /\ At("idle") /\ Use("commands", MaxCommands)
    /\ action = "play" => saved.station # NoStation
    /\ saved' = [saved EXCEPT !.intention = intention]
    /\ holder' = [Idle EXCEPT !.pc = IF intention = "play" THEN "audio" ELSE "quiet",
                              !.stream = saved']
    /\ UNCHANGED <<mpd, live>>

\* _set_station resolves the source before it looks at the queue.
Select(s) ==
    /\ At("idle") /\ Use("commands", MaxCommands)
    /\ holder' = [Idle EXCEPT !.pc = "inspect", !.resolved = TRUE,
                    !.stream = [station |-> s, url |-> UrlOf(s), managed |-> saved.managed,
                                intention |-> "play"]]
    /\ UNCHANGED <<saved, mpd, live>>

Ids(entries) == {e.id : e \in entries}

\* The queue with an entry another client added for the backend's own, because it
\* plays the wanted URL.
Adopted(url) ==
    {IF e.owner = "other" /\ e.url = url THEN [e EXCEPT !.owner = "adopted"] ELSE e : e \in queue}

\* The queue may be managed: it is empty, or its one entry is the persisted one
\* or plays the saved URL.
ManageableAlways(managed, url) == TRUE   \* mutant of Manageable: no queue is refused
ManageableById(managed, url) ==          \* mutant of Manageable: no adoption by URL
    queue = {} \/ \E e \in queue : queue = {e} /\ e.id = managed
Manageable(managed, url) ==
    \/ queue = {}
    \/ \E e \in queue : queue = {e} /\ (e.id = managed \/ e.url = url)

\* The URL compared is the one saved before the selection.
SelectInspects ==
    /\ At("inspect")
    /\ IF Manageable(saved.managed, saved.url)
       THEN /\ queue'  = Adopted(saved.url)
            /\ holder' = [holder EXCEPT !.pc = "save",
                 !.stream.managed = IF queue = {} THEN @ ELSE CHOOSE id \in Ids(queue) : TRUE]
       ELSE holder' = Idle /\ UNCHANGED queue
    /\ UNCHANGED <<saved, player, nextId, routed, live, count>>

\* Station, URL, song id and the intention to play in one atomic write.
SelectSaves ==
    /\ At("save")
    /\ saved' = holder.stream
    /\ Goto("audio")
    /\ UNCHANGED <<mpd, live, count>>

\* wait_for_audio succeeds; its failure is a Refused step.
AudioReady ==
    /\ At("audio")
    /\ Goto(IF holder.resolved THEN "plan" ELSE "resolve")
    /\ UNCHANGED <<saved, mpd, live, count>>

\* _start_stream: a TuneIn URL is resolved again unless it is playing; a URL
\* that differs from the saved one is saved before the queue is touched.
Resolve ==
    /\ At("resolve")
    /\ LET s   == holder.stream.station
           old == holder.stream.url
           url == IF s \in TuneInStations /\ old # NoUrl /\ Playing(old) THEN old ELSE UrlOf(s)
       IN  /\ saved'  = [saved EXCEPT !.url = url]
           /\ holder' = [holder EXCEPT !.pc = "plan", !.stream.url = url]
    /\ UNCHANGED <<mpd, live, count>>

\* _start_managed_stream inspects queue and player on a new connection: it
\* reuses the entry that plays the wanted URL, replaces the managed one (the
\* target is then the entry to delete), or refuses a queue that holds anything else.
Plan ==
    /\ At("plan")
    /\ LET wanted == holder.stream
           reused == {e \in queue : e.url = wanted.url}
       IN  IF ~Manageable(wanted.managed, wanted.url) THEN holder' = Idle /\ UNCHANGED queue
           ELSE IF reused # {}
           THEN /\ queue' = Adopted(wanted.url)
                /\ \E e \in reused :
                   holder' = [holder EXCEPT !.pc = "persist", !.target = e.id, !.linked = TRUE,
                     !.fresh = player.state # "play" \/ player.song # e.id \/ player.error]
           ELSE /\ holder' = [holder EXCEPT !.pc = "silence", !.fresh = TRUE, !.linked = TRUE,
                     !.target = IF queue = {} THEN NoSong ELSE wanted.managed]
                /\ UNCHANGED queue
    /\ UNCHANGED <<saved, player, nextId, routed, live, count>>

-----------------------------------------------------------------------------
(* Calls to MPD inside the try block: a call that succeeds; a call that fails,  *)
(* with or without its effect; a call on a connection that MPD's restart broke. *)

Raise == holder' = [holder EXCEPT !.pc = "cleanup"]

SilencePlayer(p) == [p EXCEPT !.volume = 0, !.error = FALSE, !.state = "stop"]

Silence ==
    /\ At("silence")
    /\ \/ /\ holder.linked
          /\ player' = SilencePlayer(player)
          /\ Goto(IF holder.target # NoSong THEN "delete" ELSE "add")
          /\ UNCHANGED count
       \/ Fault /\ Raise /\ player' \in {player, [player EXCEPT !.volume = 0], SilencePlayer(player)}
       \/ ~holder.linked /\ Raise /\ UNCHANGED <<player, count>>
    /\ UNCHANGED <<saved, queue, nextId, routed, live>>

WithoutAny == {}   \* mutant of WithoutManaged: the queue is cleared
WithoutManaged == {e \in queue : e.id # holder.target}

\* deleteid, then the queue must be empty: entries that appeared meanwhile are
\* an error and stay.
Delete ==
    /\ At("delete")
    /\ \/ /\ holder.linked
          /\ queue' = WithoutManaged
          /\ IF queue' = {} THEN Goto("add") ELSE Raise
          /\ UNCHANGED count
       \/ Fault /\ Raise /\ queue' \in {queue, WithoutManaged}
       \/ ~holder.linked /\ Raise /\ UNCHANGED <<queue, count>>
    /\ player' = IF player.song \in Ids(queue') THEN player ELSE [player EXCEPT !.song = NoSong]
    /\ UNCHANGED <<saved, nextId, routed, live>>

OwnEntry == [id |-> nextId, url |-> holder.stream.url, owner |-> "backend"]

Add ==
    /\ At("add")
    /\ \/ /\ holder.linked
          /\ queue' = queue \cup {OwnEntry} /\ nextId' = nextId + 1
          /\ holder' = [holder EXCEPT !.pc = "persist", !.target = nextId]
          /\ UNCHANGED count
       \/ /\ Fault /\ Raise
          /\ \/ queue' = queue \cup {OwnEntry} /\ nextId' = nextId + 1
             \/ UNCHANGED <<queue, nextId>>
       \/ ~holder.linked /\ Raise /\ UNCHANGED <<queue, nextId, count>>
    /\ UNCHANGED <<saved, player, routed, live>>

\* _persist_managed_song_id writes playback.json, nothing goes to MPD.
Persist ==
    /\ At("persist")
    /\ \/ /\ saved' = [saved EXCEPT !.managed = holder.target]
          /\ Goto(IF holder.fresh THEN "play" ELSE "route")
          /\ UNCHANGED count
       \/ Fault /\ Raise /\ UNCHANGED saved
    /\ UNCHANGED <<mpd, live>>

PlayLoud ==   \* mutant of PlayMuted: setvol(0) is left out
    [state |-> "play", song |-> holder.target, volume |-> player.volume, error |-> FALSE]
PlayMuted == [state |-> "play", song |-> holder.target, volume |-> 0, error |-> FALSE]

\* setvol(0), clearerror, playid.  A new audio stream may go to any sink.  An
\* entry that is gone cannot be played.
PlaySong ==
    /\ At("play")
    /\ \/ /\ holder.linked /\ holder.target \in Ids(queue)
          /\ player' = PlayMuted /\ routed' \in BOOLEAN
          /\ Goto("route")
          /\ UNCHANGED count
       \/ /\ Fault /\ Raise
          /\ player' \in {player, [player EXCEPT !.volume = 0]} \cup
                         (IF holder.target \in Ids(queue) THEN {PlayMuted} ELSE {})
          /\ routed' \in BOOLEAN
       \/ ~(holder.linked /\ holder.target \in Ids(queue)) /\ Raise
          /\ UNCHANGED <<player, routed, count>>
    /\ UNCHANGED <<saved, queue, nextId, live>>

\* recover_route moves the stream and waits until the move holds.  Without a
\* playing stream there is no route to recover.
Route ==
    /\ At("route")
    /\ \/ player.state = "play" /\ routed' = TRUE /\ Goto("gain") /\ UNCHANGED count
       \/ Fault /\ Raise /\ routed' \in BOOLEAN
       \/ player.state # "play" /\ Raise /\ UNCHANGED <<routed, count>>
    /\ UNCHANGED <<saved, queue, player, nextId, live>>

\* The sink's gain is set and read back for up to 5 s; nothing looks at the route again.
SetGain ==
    /\ At("gain")
    /\ (Goto("unmute") /\ UNCHANGED count) \/ (Fault /\ Raise)
    /\ UNCHANGED <<saved, mpd, live>>

Unmute ==
    /\ At("unmute")
    /\ \/ holder.linked /\ player' = [player EXCEPT !.volume = 100] /\ Goto("verify")
          /\ UNCHANGED count
       \/ Fault /\ Raise /\ player' \in {player, [player EXCEPT !.volume = 100]}
       \/ ~holder.linked /\ Raise /\ UNCHANGED <<player, count>>
    /\ UNCHANGED <<saved, queue, nextId, routed, live>>

Verify ==
    /\ At("verify")
    /\ \/ holder.linked /\ player.state = "play" /\ ~player.error /\ holder' = Idle
          /\ UNCHANGED count
       \/ Fault /\ Raise
       \/ ~(holder.linked /\ player.state = "play" /\ ~player.error) /\ Raise /\ UNCHANGED count
    /\ UNCHANGED <<saved, mpd, live>>

\* The stop of the except branch; its own failure is only logged.
Cleanup ==
    /\ At("cleanup")
    /\ holder' = Idle
    /\ \/ holder.linked /\ player' = [player EXCEPT !.state = "stop"]
       \/ UNCHANGED player
    /\ UNCHANGED <<saved, queue, nextId, routed, live, count>>

\* _stop_selected, and reconcile for a stopped or paused intention: a stopped
\* player stays stopped, a playing one is stopped or paused.
Quiet ==
    /\ At("quiet")
    /\ player' = CASE holder.stream.intention = "stop" -> [player EXCEPT !.state = "stop"]
                   [] player.state = "play" -> [player EXCEPT !.state = "pause"]
                   [] OTHER -> player
    /\ holder' = Idle
    /\ UNCHANGED <<saved, queue, nextId, routed, live, count>>

-----------------------------------------------------------------------------
(* Failures and the world outside. *)

\* An error outside the try block (no audio, no resolution, no connection, no
\* write), or the holder is killed: it stops where it is, the lock is released.
HolderStops ==
    /\ ~At("idle") /\ Fault
    /\ holder' = Idle
    /\ UNCHANGED <<saved, mpd, live>>

MpdRestarts ==
    /\ Use("restarts", MaxRestarts)
    /\ queue' = {} /\ player' = Stopped /\ nextId' = 1 /\ routed' = FALSE
    /\ holder' = [holder EXCEPT !.linked = FALSE]
    /\ UNCHANGED <<saved, live>>

\* Another client adds a URL of its own, or one that a station has or had.
ForeignAdds ==
    /\ Use("foreign", MaxForeign)
    /\ \E url \in {ForeignUrl} \cup UNION {{<<s, v>> : v \in 0 .. live[s]} : s \in Stations} :
         queue' = queue \cup {[id |-> nextId, url |-> url, owner |-> "other"]}
    /\ nextId' = nextId + 1
    /\ UNCHANGED <<saved, player, routed, live, holder>>

Rotates(s) ==
    /\ Use("rotations", MaxRotations)
    /\ live' = [live EXCEPT ![s] = @ + 1]
    /\ UNCHANGED <<saved, mpd, holder>>

\* The station's server drops the stream.
StreamBreaks ==
    /\ player.state = "play" /\ Fault
    /\ player' = [player EXCEPT !.state = "stop", !.error = TRUE]
    /\ UNCHANGED <<saved, queue, nextId, routed, live, holder>>

\* PipeWire moves the stream to another sink, at any time: also between the
\* holder's verification and its setvol(100).
RouteLost ==
    /\ routed /\ Fault
    /\ routed' = FALSE
    /\ holder' = [holder EXCEPT !.moved = At("gain") \/ At("unmute")]
    /\ UNCHANGED <<saved, queue, player, nextId, live>>

-----------------------------------------------------------------------------
Command == (\E action \in {"play", "pause", "stop"} : Transport(action))
              \/ (\E s \in Stations : Select(s))
Choose  == SelectInspects \/ SelectSaves \/ AudioReady \/ Resolve \/ Plan
Drive   == Silence \/ Delete \/ Add \/ Persist \/ PlaySong \/ Route \/ SetGain \/ Unmute
              \/ Verify \/ Cleanup \/ Quiet
World   == HolderStops \/ MpdRestarts \/ ForeignAdds \/ (\E s \in TuneInStations : Rotates(s))
              \/ StreamBreaks \/ RouteLost

Next == Reconcile \/ Command \/ Choose \/ Drive \/ World

Spec == Init /\ [][Next]_vars

\* The holder of the lock goes on, and the supervisor's loop comes back to every
\* output (after at most 30 s of back-off).
FairSpec == Spec /\ WF_vars(Choose \/ Drive) /\ WF_vars(Reconcile)

-----------------------------------------------------------------------------
(* Properties. *)

Streams == [station : Stations \cup {NoStation}, url : Urls, managed : Songs \cup {NoSong},
            intention : {"play", "pause", "stop"}]

\* Every variable has its type.
TypeOK ==
    /\ saved \in Streams
    /\ queue \in SUBSET [id : Songs, url : Urls \cup {ForeignUrl}, 
                           owner : {"backend", "adopted", "other"}]
    /\ player \in [state : {"play", "pause", "stop"}, song : Songs \cup {NoSong},
                   volume : {0, 100}, error : BOOLEAN]
    /\ nextId \in Songs /\ routed \in BOOLEAN
    /\ live \in [Stations -> Nat]
    /\ holder \in [pc : {"idle", "audio", "quiet", "inspect", "save", "resolve", "plan",
                         "silence", "delete", "add", "persist", "play", "route", "gain",
                         "unmute", "verify", "cleanup"},
                   stream : Streams, target : Songs \cup {NoSong}, fresh : BOOLEAN,
                   resolved : BOOLEAN, linked : BOOLEAN, moved : BOOLEAN]
    /\ count \in [{"commands", "faults", "rotations", "restarts", "foreign"} -> Nat]

Own == {e \in queue : e.owner # "other"}

\* "Repeated selection must not accumulate stale station URLs or duplicate
\* entries": whatever fails, the backend never has two entries in the queue,
\* counting one that it adopted.
OneManagedEntry == Cardinality(Own) <= 1

Sounding == player.state = "play" /\ player.volume = 100

\* Sound only ever starts (a muted start is unmuted, or a start is not muted)
\* from the source that playback.json names, while the saved intention is to
\* play, and on the output's own sink.  The one exception: PipeWire moved the
\* stream after this holder had verified the route, while it set the gain, and
\* the code does not look again before setvol(100).
SoundStartsRight ==
    [][~Sounding /\ Sounding' =>
         /\ routed' \/ holder.moved
         /\ saved'.intention = "play"
         /\ \E e \in queue' : e.id = player'.song /\ e.url = saved'.url]_vars

\* The backend removes no entry of another MPD client, unless it adopted it: found
\* it alone in the queue with the saved URL.  The one exception: MPD counts its song
\* ids from the start again after a restart, so that an entry added since may
\* carry the id that playback.json remembers.
ForeignEntriesSurvive ==
    [][\A e \in queue : e.owner = "other" =>
         \/ e.id \in Ids(queue') \/ count'.restarts # count.restarts
         \/ count.restarts > 0 /\ e.id = holder.target]_vars

Restored == Sounding /\ routed /\ Playing(saved.url)

\* Reconciliation recovers: "the supervisor can retry through its normal
\* reconciliation path" (mpd-playback-operations-api.md), a saved intention to play
\* is restored through failed calls, crashes, broken streams and MPD restarts.
PlayIsRestored == <>[](saved.intention = "play" => Restored)

\* What is true of it: the station of playback.json is heard in the end, on the
\* right sink, unless the queue holds several entries, or one that has neither the
\* persisted song id nor the saved URL, which the backend must not claim.
Unclaimed ==
    \/ Cardinality(queue) > 1
    \/ \E e \in queue : e.id # saved.managed /\ e.url # saved.url
RestoredOrRefused == <>[](saved.intention = "play" => Restored \/ Unclaimed)
=============================================================================
