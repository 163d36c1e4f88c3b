-------------------------- MODULE ManagedQueueProofs --------------------------
(***************************************************************************)
(* Proofs about ManagedQueue for any stations and any number of commands,  *)
(* failures, rotated URLs, restarts of MPD and foreign entries.            *)
(***************************************************************************)
EXTENDS ManagedQueue, FiniteSetTheorems, TLAPS

-----------------------------------------------------------------------------
(* Types. *)

Pcs == {"idle", "audio", "quiet", "inspect", "save", "resolve", "plan", "silence", "delete",
        "add", "persist", "play", "route", "gain", "unmute", "verify", "cleanup"}
Holders == [pc : Pcs, stream : Streams, target : Songs \cup {NoSong}, fresh : BOOLEAN,
            resolved : BOOLEAN, linked : BOOLEAN, moved : BOOLEAN]
Entries == [id : Songs, url : Urls \cup {ForeignUrl}, owner : {"backend", "adopted", "other"}]
Players == [state : {"play", "pause", "stop"}, song : Songs \cup {NoSong}, volume : {0, 100},
            error : BOOLEAN]

\* What a holder that is to play works for: the station and the URL of playback.json.
SourceInv ==
    /\ saved.intention = "play" => saved.station # NoStation
    /\ holder.pc \in {"inspect", "save"} =>
         holder.stream.intention = "play" /\ holder.stream.station # NoStation
    /\ holder.pc \in Pcs \ {"idle", "quiet", "inspect", "save", "cleanup"} =>
         /\ saved.intention = "play" /\ saved.station # NoStation
         /\ saved.url = holder.stream.url /\ holder.stream.station # NoStation

\* The initial state is well typed.
LEMMA TypeInit == Init => TypeOK
<1> SUFFICES ASSUME Init PROVE TypeOK
  OBVIOUS
<1>1. saved \in Streams
  BY DEF Init, Defaults, Streams, Urls
<1>2. holder \in Holders
  BY DEF Init, Idle, Holders, Pcs, Streams, Urls
<1>3. count \in [{"commands", "faults", "rotations", "restarts", "foreign"} -> Nat]
  BY DEF Init
<1>4. player \in Players
  BY DEF Init, Stopped, Players, Songs
<1>5. live \in [Stations -> Nat]
  BY DEF Init
<1>6. nextId \in Songs
  BY DEF Init, Songs
<1>7. routed \in BOOLEAN /\ queue = {}
  BY DEF Init
<1> QED BY <1>1, <1>2, <1>3, <1>4, <1>5, <1>6, <1>7 DEF TypeOK, Entries, Players, Holders, Pcs

\* What a holder may become.
LEMMA HolderTypes ==
    ASSUME NEW h \in Holders
    PROVE  /\ Idle \in Holders
           /\ \A pc \in Pcs : [h EXCEPT !.pc = pc] \in Holders
           /\ \A pc \in Pcs, s \in Streams : [h EXCEPT !.pc = pc, !.stream = s] \in Holders
           /\ \A pc \in Pcs, s \in Streams : [Idle EXCEPT !.pc = pc, !.stream = s] \in Holders
           /\ \A pc \in Pcs, m \in Songs \cup {NoSong} :
                [h EXCEPT !.pc = pc, !.stream.managed = m] \in Holders
           /\ \A pc \in Pcs, t \in Songs \cup {NoSong} : [h EXCEPT !.pc = pc, !.target = t] \in Holders
           /\ [h EXCEPT !.linked = FALSE] \in Holders
           /\ \A b \in BOOLEAN : [h EXCEPT !.moved = b] \in Holders
<1>1. Idle \in Holders
  BY DEF Idle, Holders, Pcs, Streams, Urls
<1>2. \A pc \in Pcs, s \in Streams : [Idle EXCEPT !.pc = pc, !.stream = s] \in Holders
  BY <1>1 DEF Holders
<1>3. \A pc \in Pcs, m \in Songs \cup {NoSong} : [h EXCEPT !.pc = pc, !.stream.managed = m] \in Holders
  BY DEF Holders, Streams
<1> QED BY <1>1, <1>2, <1>3 DEF Holders

\* Using up a bound leaves the counters numbers.
LEMMA CountTypes ==
    ASSUME TypeOK, NEW bound \in {"commands", "faults", "rotations", "restarts", "foreign"},
           NEW max, Use(bound, max)
    PROVE  count' \in [{"commands", "faults", "rotations", "restarts", "foreign"} -> Nat]
  BY DEF TypeOK, Use

LEMMA FaultTypes ==
    ASSUME TypeOK, Fault \/ UNCHANGED count
    PROVE  count' \in [{"commands", "faults", "rotations", "restarts", "foreign"} -> Nat]
  BY CountTypes DEF Fault, TypeOK

\* Adopting an entry changes neither its song id nor its URL, and no other entry.
LEMMA AdoptedEntries ==
    ASSUME queue \in SUBSET Entries, NEW url
    PROVE  /\ Adopted(url) \in SUBSET Entries
           /\ \A e \in queue : \E f \in Adopted(url) : f.id = e.id /\ f.url = e.url
           /\ \A f \in Adopted(url) : \E e \in queue : f.id = e.id /\ f.url = e.url
           /\ \A f \in Adopted(url) : f.owner = "other" => f \in queue /\ f.url # url
           /\ Ids(Adopted(url)) = Ids(queue)
           /\ \A e \in queue : queue = {e} => \E f : Adopted(url) = {f}
<1> DEFINE Own1(e) == IF e.owner = "other" /\ e.url = url THEN [e EXCEPT !.owner = "adopted"] ELSE e
<1>1. Adopted(url) = {Own1(e) : e \in queue}
  BY DEF Adopted
<1>2. ASSUME NEW e \in queue
      PROVE  /\ Own1(e) \in Entries /\ Own1(e).id = e.id /\ Own1(e).url = e.url
             /\ Own1(e).owner = "other" => Own1(e) = e /\ e.url # url
  <2>1. e \in Entries
    OBVIOUS
  <2> QED BY <2>1 DEF Entries
<1> HIDE DEF Own1
<1>3. Ids(Adopted(url)) = Ids(queue)
  BY <1>1, <1>2 DEF Ids
<1>4. Adopted(url) \in SUBSET Entries
  BY <1>1, <1>2
<1>5. \A e \in queue : \E f \in Adopted(url) : f.id = e.id /\ f.url = e.url
  BY <1>1, <1>2
<1>6. ASSUME NEW f \in Adopted(url)
      PROVE  /\ \E e \in queue : f.id = e.id /\ f.url = e.url
             /\ f.owner = "other" => f \in queue /\ f.url # url
  <2>1. PICK e \in queue : f = Own1(e)
    BY <1>1
  <2> QED BY <1>2, <2>1
<1>7. ASSUME NEW e \in queue, queue = {e} PROVE \E f : Adopted(url) = {f}
  <2>1. Adopted(url) = {Own1(e)}
    BY <1>1, <1>7
  <2> QED BY <2>1
<1> QED BY <1>3, <1>4, <1>5, <1>6, <1>7

\* Every step leaves every variable in its type.
LEMMA TypeNext == TypeOK /\ SourceInv /\ [Next]_vars => TypeOK'
<1> SUFFICES ASSUME TypeOK, SourceInv, [Next]_vars PROVE TypeOK'
  OBVIOUS
<1> DEFINE Counts == [{"commands", "faults", "rotations", "restarts", "foreign"} -> Nat]
<1>0. /\ saved \in Streams /\ queue \in SUBSET Entries /\ player \in Players
      /\ nextId \in Songs /\ routed \in BOOLEAN /\ live \in [Stations -> Nat]
      /\ holder \in Holders /\ count \in Counts
  BY DEF TypeOK, Entries, Players, Holders, Pcs
<1>T. ASSUME saved' \in Streams, queue' \in SUBSET Entries, player' \in Players, nextId' \in Songs,
             routed' \in BOOLEAN, live' \in [Stations -> Nat], holder' \in Holders, count' \in Counts
      PROVE  TypeOK'
  BY <1>T DEF TypeOK, Entries, Players, Holders, Pcs
<1>U. \A s \in Stations : UrlOf(s) \in Urls
  BY <1>0 DEF UrlOf, Urls
<1>H. \A pc \in Pcs : Goto(pc) => holder' \in Holders
  BY <1>0, HolderTypes DEF Goto
<1>R. Raise => holder' \in Holders
  BY <1>0, HolderTypes DEF Raise, Pcs
<1>1. CASE Reconcile
  <2>1. holder' \in Holders
    BY <1>0, <1>1, HolderTypes DEF Reconcile, Pcs
  <2> QED BY <1>0, <1>T, <1>1, <2>1 DEF Reconcile, mpd
<1>2. ASSUME NEW action \in {"play", "pause", "stop"}, Transport(action) PROVE TypeOK'
  <2>1. saved' \in Streams
    BY <1>0, <1>2 DEF Transport, Streams
  <2>2. \A pc \in Pcs : [Idle EXCEPT !.pc = pc, !.stream = saved'] \in Holders
    BY <1>0, <2>1, HolderTypes
  <2>3. holder' \in Holders
    BY <1>2, <2>2 DEF Transport, Pcs
  <2>4. count' \in Counts
    BY <1>2, CountTypes DEF Transport
  <2> QED BY <1>0, <1>T, <1>2, <2>1, <2>3, <2>4 DEF Transport, mpd
<1>3. ASSUME NEW s \in Stations, Select(s) PROVE TypeOK'
  <2>1. holder' \in Holders
    BY <1>0, <1>U, <1>3 DEF Select, Idle, Holders, Pcs, Streams
  <2>2. count' \in Counts
    BY <1>3, CountTypes DEF Select
  <2> QED BY <1>0, <1>T, <1>3, <2>1, <2>2 DEF Select, mpd
<1>4. CASE SelectInspects
  <2>1. queue # {} => (CHOOSE id \in Ids(queue) : TRUE) \in Songs
    BY <1>0 DEF Ids, Entries
  <2>2. holder.stream.managed \in Songs \cup {NoSong}
    BY <1>0 DEF Holders, Streams
  <2>q. queue' \in SUBSET Entries
    <3>1. queue' = queue \/ queue' = Adopted(saved.url)
      BY <1>4 DEF SelectInspects
    <3> QED BY <1>0, <3>1, AdoptedEntries
  <2>3. CASE holder' = Idle
    BY <1>0, <1>T, <1>4, <2>q, <2>3, HolderTypes DEF SelectInspects
  <2>4. ASSUME NEW m \in Songs \cup {NoSong}, holder' = [holder EXCEPT !.pc = "save", !.stream.managed = m]
        PROVE  TypeOK'
    <3>1. holder' \in Holders
      BY <1>0, <2>4, HolderTypes DEF Pcs
    <3> QED BY <1>0, <1>T, <1>4, <2>q, <3>1 DEF SelectInspects
  <2>5. \/ holder' = Idle
        \/ \E m \in Songs \cup {NoSong} : holder' = [holder EXCEPT !.pc = "save", !.stream.managed = m]
    BY <1>4, <2>1, <2>2 DEF SelectInspects
  <2> QED BY <2>3, <2>4, <2>5
<1>5. CASE SelectSaves
  <2>1. saved' \in Streams
    BY <1>0, <1>5 DEF SelectSaves, Holders
  <2> QED BY <1>0, <1>T, <1>H, <1>5, <2>1 DEF SelectSaves, mpd, Pcs
<1>6. CASE AudioReady
  BY <1>0, <1>T, <1>H, <1>6 DEF AudioReady, mpd, Pcs
<1>7. CASE Resolve
  <2>1. PICK url : /\ saved'  = [saved EXCEPT !.url = url]
                   /\ holder' = [holder EXCEPT !.pc = "plan", !.stream.url = url]
                   /\ url \in {holder.stream.url, UrlOf(holder.stream.station)}
    BY <1>7 DEF Resolve
  <2>2. holder.stream.url \in Urls /\ holder.stream.station \in Stations
    BY <1>0, <1>7 DEF Resolve, At, SourceInv, Holders, Streams, Pcs
  <2>3. url \in Urls
    BY <1>U, <2>1, <2>2
  <2>4. saved' \in Streams
    BY <1>0, <2>1, <2>3 DEF Streams
  <2>5. holder' \in Holders
    BY <1>0, <2>1, <2>3 DEF Holders, Streams, Pcs
  <2> QED BY <1>0, <1>T, <1>7, <2>4, <2>5 DEF Resolve, mpd
<1>8. CASE Plan
  <2>1. \A t \in Songs \cup {NoSong}, f \in BOOLEAN, pc \in Pcs :
          [holder EXCEPT !.pc = pc, !.target = t, !.linked = TRUE, !.fresh = f] \in Holders
    BY <1>0 DEF Holders
  <2>2. holder.stream.managed \in Songs \cup {NoSong} /\ \A e \in queue : e.id \in Songs
    BY <1>0 DEF Holders, Streams, Entries
  <2>3. ASSUME NEW e \in queue,
               holder' = [holder EXCEPT !.pc = "persist", !.target = e.id, !.linked = TRUE,
                     !.fresh = player.state # "play" \/ player.song # e.id \/ player.error]
        PROVE  holder' \in Holders
    <3>1. e.id \in Songs /\ (player.state # "play" \/ player.song # e.id \/ player.error) \in BOOLEAN
      BY <1>0, <2>2 DEF Players
    <3> QED BY <2>1, <2>3, <3>1 DEF Pcs
  <2>4. ASSUME holder' = [holder EXCEPT !.pc = "silence", !.fresh = TRUE, !.linked = TRUE,
                     !.target = IF queue = {} THEN NoSong ELSE holder.stream.managed]
        PROVE  holder' \in Holders
    <3>1. [holder EXCEPT !.pc = "silence", !.target = IF queue = {} THEN NoSong ELSE holder.stream.managed,
                         !.linked = TRUE, !.fresh = TRUE] \in Holders
      BY <2>1, <2>2 DEF Pcs
    <3> QED BY <1>0, <2>4, <3>1 DEF Holders
  <2>5. holder' \in Holders
    BY <1>8, <2>3, <2>4, HolderTypes, <1>0 DEF Plan
  <2>6. queue' \in SUBSET Entries
    <3>1. queue' = queue \/ queue' = Adopted(holder.stream.url)
      BY <1>8 DEF Plan
    <3> QED BY <1>0, <3>1, AdoptedEntries
  <2> QED BY <1>0, <1>T, <1>8, <2>5, <2>6 DEF Plan
<1>P. /\ SilencePlayer(player) \in Players /\ [player EXCEPT !.volume = 0] \in Players
      /\ [player EXCEPT !.volume = 100] \in Players /\ [player EXCEPT !.song = NoSong] \in Players
      /\ \A state \in {"stop", "pause"} : [player EXCEPT !.state = state] \in Players
      /\ [player EXCEPT !.state = "stop", !.error = TRUE] \in Players
      /\ holder.target \in Songs => PlayMuted \in Players
  BY <1>0 DEF SilencePlayer, Players, PlayMuted
<1>9. CASE Silence
  <2>1. holder' \in Holders /\ count' \in Counts
    BY <1>0, <1>9, <1>H, <1>R, FaultTypes DEF Silence, Pcs
  <2>2. player' \in Players
    BY <1>0, <1>9, <1>P DEF Silence
  <2> QED BY <1>0, <1>T, <1>9, <2>1, <2>2 DEF Silence
<1>10. CASE Delete
  <2>1. holder' \in Holders /\ count' \in Counts
    BY <1>0, <1>10, <1>H, <1>R, FaultTypes DEF Delete, Pcs
  <2>2. queue' \in SUBSET Entries
    BY <1>0, <1>10 DEF Delete, WithoutManaged
  <2>3. player' \in Players
    BY <1>0, <1>10, <1>P DEF Delete
  <2> QED BY <1>0, <1>T, <1>10, <2>1, <2>2, <2>3 DEF Delete
<1>11. CASE Add
  <2>1. OwnEntry \in Entries /\ nextId + 1 \in Songs
    BY <1>0 DEF OwnEntry, Entries, Songs, Holders, Streams
  <2>2. [holder EXCEPT !.pc = "persist", !.target = nextId] \in Holders
    BY <1>0, HolderTypes DEF Pcs
  <2>3. holder' \in Holders /\ count' \in Counts
    BY <1>0, <1>11, <1>R, <2>2, FaultTypes DEF Add
  <2>4. queue' \in SUBSET Entries /\ nextId' \in Songs
    BY <1>0, <1>11, <2>1 DEF Add
  <2> QED BY <1>0, <1>T, <1>11, <2>3, <2>4 DEF Add
<1>12. CASE Persist
  <2>1. holder' \in Holders /\ count' \in Counts
    BY <1>0, <1>12, <1>H, <1>R, FaultTypes DEF Persist, Pcs
  <2>2. saved' \in Streams
    BY <1>0, <1>12 DEF Persist, Streams, Holders
  <2> QED BY <1>0, <1>T, <1>12, <2>1, <2>2 DEF Persist, mpd
<1>13. CASE PlaySong
  <2>1. holder' \in Holders /\ count' \in Counts
    BY <1>0, <1>13, <1>H, <1>R, FaultTypes DEF PlaySong, Pcs
  <2>2. holder.target \in Ids(queue) => holder.target \in Songs
    BY <1>0 DEF Ids, Entries
  <2>3. player' \in Players /\ routed' \in BOOLEAN
    BY <1>0, <1>13, <1>P, <2>2 DEF PlaySong
  <2> QED BY <1>0, <1>T, <1>13, <2>1, <2>3 DEF PlaySong
<1>14. CASE Route
  <2>1. holder' \in Holders /\ count' \in Counts
    BY <1>0, <1>14, <1>H, <1>R, FaultTypes DEF Route, Pcs
  <2> QED BY <1>0, <1>T, <1>14, <2>1 DEF Route
<1>G. CASE SetGain
  <2>1. holder' \in Holders /\ count' \in Counts
    BY <1>0, <1>G, <1>H, <1>R, FaultTypes DEF SetGain, Pcs
  <2> QED BY <1>0, <1>T, <1>G, <2>1 DEF SetGain, mpd
<1>15. CASE Unmute
  <2>1. holder' \in Holders /\ count' \in Counts
    BY <1>0, <1>15, <1>H, <1>R, FaultTypes DEF Unmute, Pcs
  <2> QED BY <1>0, <1>T, <1>P, <1>15, <2>1 DEF Unmute
<1>16. CASE Verify
  <2>1. holder' \in Holders /\ count' \in Counts
    BY <1>0, <1>16, <1>R, HolderTypes, FaultTypes DEF Verify
  <2> QED BY <1>0, <1>T, <1>16, <2>1 DEF Verify, mpd
<1>17. CASE Cleanup \/ Quiet
  <2>1. holder' \in Holders
    BY <1>0, <1>17, HolderTypes DEF Cleanup, Quiet
  <2>2. player' \in Players
    BY <1>0, <1>17, <1>P DEF Cleanup, Quiet
  <2> QED BY <1>0, <1>T, <1>17, <2>1, <2>2 DEF Cleanup, Quiet
<1>18. CASE HolderStops
  <2>1. holder' \in Holders /\ count' \in Counts
    BY <1>0, <1>18, HolderTypes, FaultTypes DEF HolderStops
  <2> QED BY <1>0, <1>T, <1>18, <2>1 DEF HolderStops, mpd
<1>19. CASE MpdRestarts
  <2>1. holder' \in Holders /\ count' \in Counts
    BY <1>0, <1>19, HolderTypes, CountTypes DEF MpdRestarts
  <2>2. player' \in Players /\ nextId' \in Songs
    BY <1>19 DEF MpdRestarts, Stopped, Players, Songs
  <2> QED BY <1>0, <1>T, <1>19, <2>1, <2>2 DEF MpdRestarts
<1>20. CASE ForeignAdds
  <2>1. count' \in Counts
    BY <1>20, CountTypes DEF ForeignAdds
  <2>2. nextId' \in Songs
    BY <1>0, <1>20 DEF ForeignAdds, Songs
  <2>3. \A s \in Stations : \A v \in 0 .. live[s] : <<s, v>> \in Urls
    BY <1>0 DEF Urls
  <2>4. PICK url \in Urls \cup {ForeignUrl} :
          queue' = queue \cup {[id |-> nextId, url |-> url, owner |-> "other"]}
    BY <1>20, <2>3 DEF ForeignAdds
  <2>5. [id |-> nextId, url |-> url, owner |-> "other"] \in Entries
    BY <1>0 DEF Entries
  <2>6. queue' \in SUBSET Entries
    BY <1>0, <2>4, <2>5
  <2> QED BY <1>0, <1>T, <1>20, <2>1, <2>2, <2>6 DEF ForeignAdds
<1>21. ASSUME NEW s \in TuneInStations, Rotates(s) PROVE TypeOK'
  <2>1. count' \in Counts
    BY <1>21, CountTypes DEF Rotates
  <2>2. live' \in [Stations -> Nat]
    BY <1>0, <1>21 DEF Rotates, Stations
  <2> QED BY <1>0, <1>T, <1>21, <2>1, <2>2 DEF Rotates, mpd
<1>22. CASE StreamBreaks \/ RouteLost
  <2>1. count' \in Counts
    BY <1>22, FaultTypes DEF StreamBreaks, RouteLost
  <2>2. (At("gain") \/ At("unmute")) \in BOOLEAN
    BY DEF At
  <2>3. holder' \in Holders
    BY <1>0, <1>22, <2>2, HolderTypes DEF StreamBreaks, RouteLost
  <2> QED BY <1>0, <1>T, <1>P, <1>22, <2>1, <2>3 DEF StreamBreaks, RouteLost
<1>23. CASE UNCHANGED vars
  BY <1>0, <1>T, <1>23 DEF vars
<1> QED
  BY <1>1, <1>2, <1>3, <1>4, <1>5, <1>6, <1>7, <1>8, <1>9, <1>10, <1>11, <1>12, <1>13, <1>14,
    <1>G, <1>15, <1>16, <1>17, <1>18, <1>19, <1>20, <1>21, <1>22, <1>23 DEF Next, Command, Choose, Drive,
    World

-----------------------------------------------------------------------------
(* The station and the URL of playback.json. *)

\* Every step keeps the holder at the saved source, and an intention to play at a station.
LEMMA SourceNext == TypeOK /\ SourceInv /\ [Next]_vars => SourceInv'
<1> SUFFICES ASSUME TypeOK, SourceInv, [Next]_vars PROVE SourceInv'
  OBVIOUS
<1>0. saved \in Streams /\ holder \in Holders
  BY DEF TypeOK, Holders, Pcs
<1> USE <1>0 DEF SourceInv, Holders, Streams, Pcs
<1>1. ASSUME holder' = Idle \/ holder'.pc = "cleanup", saved'.station = saved.station,
             saved'.intention = saved.intention
      PROVE  SourceInv'
  BY <1>1 DEF Idle
<1>2. ASSUME UNCHANGED <<saved, holder.pc, holder.stream>>
      PROVE  SourceInv'
  BY <1>2
<1>3. CASE Reconcile
  BY <1>3 DEF Reconcile, Idle
<1>4. ASSUME NEW action \in {"play", "pause", "stop"}, Transport(action) PROVE SourceInv'
  BY <1>4 DEF Transport, Idle
<1>5. ASSUME NEW s \in Stations, Select(s) PROVE SourceInv'
  BY <1>5, StationsAssumption DEF Select, Idle, At
<1>6. CASE SelectInspects
  <2>1. \/ holder' = Idle
        \/ \E m : holder' = [holder EXCEPT !.pc = "save", !.stream.managed = m]
    BY <1>6 DEF SelectInspects
  <2>2. holder.pc = "inspect" /\ saved' = saved
    BY <1>6 DEF SelectInspects, At
  <2>3. ASSUME NEW m, holder' = [holder EXCEPT !.pc = "save", !.stream.managed = m]
        PROVE  holder'.pc = "save" /\ UNCHANGED <<holder.stream.intention, holder.stream.station>>
    BY <2>3
  <2>4. CASE \E m : holder' = [holder EXCEPT !.pc = "save", !.stream.managed = m]
    BY <2>2, <2>3, <2>4
  <2> QED BY <1>1, <2>1, <2>2, <2>4
<1>7. CASE SelectSaves
  BY <1>7 DEF SelectSaves, At, Goto
<1>8. CASE AudioReady
  BY <1>8 DEF AudioReady, At, Goto
<1>9. CASE Resolve
  BY <1>9 DEF Resolve, At
<1>10. CASE Plan
  <2>1. holder.pc = "plan" /\ saved' = saved
    BY <1>10 DEF Plan, At
  <2>2. CASE holder' = Idle
    BY <1>1, <2>1, <2>2
  <2>3. ASSUME NEW e, holder' = [holder EXCEPT !.pc = "persist", !.target = e.id, !.linked = TRUE,
                     !.fresh = player.state # "play" \/ player.song # e.id \/ player.error]
        PROVE  SourceInv'
    BY <2>1, <2>3
  <2>4. ASSUME holder' = [holder EXCEPT !.pc = "silence", !.fresh = TRUE, !.linked = TRUE,
                     !.target = IF queue = {} THEN NoSong ELSE holder.stream.managed]
        PROVE  SourceInv'
    BY <2>1, <2>4
  <2> HIDE <1>0 DEF SourceInv
  <2> QED BY <1>10, <2>2, <2>3, <2>4 DEF Plan
<1>11. CASE Silence \/ Delete \/ PlaySong \/ Route \/ SetGain \/ Unmute
  <2>1. saved' = saved /\ holder.pc \in {"silence", "delete", "play", "route", "gain", "unmute"}
    BY <1>11 DEF Silence, Delete, PlaySong, Route, SetGain, Unmute, At
  <2>2. \E pc \in {"delete", "add", "route", "gain", "unmute", "verify", "cleanup"} :
          holder' = [holder EXCEPT !.pc = pc]
    BY <1>11 DEF Silence, Delete, PlaySong, Route, SetGain, Unmute, Goto, Raise
  <2> QED BY <2>1, <2>2
<1>12. CASE Add
  BY <1>12 DEF Add, At, Raise
<1>13. CASE Persist
  BY <1>13 DEF Persist, At, Goto, Raise
<1>14. CASE Verify \/ Cleanup \/ Quiet \/ HolderStops
  BY <1>1, <1>14 DEF Verify, Raise, Cleanup, Quiet, HolderStops
<1>15. CASE MpdRestarts
  BY <1>2, <1>15 DEF MpdRestarts
<1>16. ASSUME NEW s, Rotates(s) PROVE SourceInv'
  BY <1>2, <1>16 DEF Rotates
<1>17. CASE ForeignAdds \/ StreamBreaks \/ RouteLost \/ UNCHANGED vars
  <2>1. RouteLost => UNCHANGED <<saved, holder.pc, holder.stream>>
    BY DEF RouteLost
  <2>2. ForeignAdds \/ StreamBreaks \/ UNCHANGED vars => UNCHANGED <<saved, holder.pc, holder.stream>>
    BY DEF ForeignAdds, StreamBreaks, vars
  <2> QED BY <1>2, <1>17, <2>1, <2>2
<1> QED
  BY <1>3, <1>4, <1>5, <1>6, <1>7, <1>8, <1>9, <1>10, <1>11, <1>12, <1>13, <1>14, <1>15, <1>16,
    <1>17 DEF Next, Command, Choose, Drive, World

LEMMA SourceInit == Init => SourceInv
  BY StationsAssumption DEF Init, SourceInv, Defaults, Idle, Pcs

Typed == TypeOK /\ SourceInv

LEMMA TypedAlways == Spec => []Typed
  BY TypeInit, SourceInit, TypeNext, SourceNext, PTL DEF Spec, Typed

\* In every run every variable has its type.
THEOREM TypeCorrect == Spec => []TypeOK
  BY TypedAlways, PTL DEF Typed

-----------------------------------------------------------------------------
(* The managed entry. *)

\* There is one own or adopted entry at most, and none when one is about to be added.
OwnInv ==
    /\ \A e, f \in Own : e = f
    /\ holder.pc = "add" \/ (holder.pc = "silence" /\ holder.target = NoSong) => Own = {}

LEMMA OwnInit == Init => OwnInv
  BY DEF Init, OwnInv, Own

\* Every step leaves one own entry at most.
LEMMA OwnNext == TypeOK /\ OwnInv /\ [Next]_vars => OwnInv'
<1> SUFFICES ASSUME TypeOK, OwnInv, [Next]_vars PROVE OwnInv'
  OBVIOUS
<1>0. holder \in Holders
  BY DEF TypeOK, Holders, Pcs
<1>1. ASSUME Own' \subseteq Own, holder'.pc \notin {"add", "silence"} PROVE OwnInv'
  BY <1>1 DEF OwnInv
<1>2. ASSUME Own' \subseteq Own, holder'.pc = holder.pc, holder'.target = holder.target PROVE OwnInv'
  BY <1>2 DEF OwnInv
<1>3. ASSUME holder'.pc \notin {"add", "silence"}, UNCHANGED queue PROVE OwnInv'
  BY <1>1, <1>3 DEF Own
<1>A. ASSUME NEW managed, NEW url, Manageable(managed, url), queue' = Adopted(url),
             holder'.pc \notin {"add", "silence"}
      PROVE  OwnInv'
  <2>1. queue \in SUBSET Entries
    BY DEF TypeOK, Entries
  <2>2. CASE queue = {}
    BY <1>A, <2>1, <2>2, AdoptedEntries DEF OwnInv, Own
  <2>3. CASE \E e \in queue : queue = {e}
    BY <1>A, <2>1, <2>3, AdoptedEntries DEF OwnInv, Own
  <2> QED BY <1>A, <2>2, <2>3 DEF Manageable
<1>4. CASE Reconcile
  BY <1>3, <1>4 DEF Reconcile, Idle, mpd
<1>5. ASSUME NEW action \in {"play", "pause", "stop"}, Transport(action) PROVE OwnInv'
  BY <1>3, <1>5 DEF Transport, Idle, mpd
<1>6. ASSUME NEW s \in Stations, Select(s) PROVE OwnInv'
  BY <1>3, <1>6 DEF Select, Idle, mpd
<1>7. CASE SelectInspects
  <2>1. ASSUME NEW m, holder' = [holder EXCEPT !.pc = "save", !.stream.managed = m]
        PROVE  holder'.pc = "save"
    BY <1>0, <2>1 DEF Holders
  <2>2. \/ holder' = Idle
        \/ \E m : holder' = [holder EXCEPT !.pc = "save", !.stream.managed = m]
    BY <1>7 DEF SelectInspects
  <2>3. holder'.pc \in {"idle", "save"}
    <3>1. CASE holder' = Idle
      BY <3>1 DEF Idle
    <3>2. CASE \E m : holder' = [holder EXCEPT !.pc = "save", !.stream.managed = m]
      BY <2>1, <3>2
    <3> QED BY <2>2, <3>1, <3>2
  <2>4. CASE queue' = queue
    BY <1>3, <2>3, <2>4
  <2>5. CASE queue' = Adopted(saved.url) /\ Manageable(saved.managed, saved.url)
    BY <1>A, <2>3, <2>5
  <2> QED BY <1>7, <2>4, <2>5 DEF SelectInspects
<1>8. CASE SelectSaves \/ AudioReady
  BY <1>0, <1>3, <1>8 DEF SelectSaves, AudioReady, Goto, Holders, mpd
<1>9. CASE Resolve
  BY <1>0, <1>3, <1>9 DEF Resolve, Holders, mpd
<1>10. CASE Plan
  <2>2. ASSUME queue # {}, Manageable(holder.stream.managed, holder.stream.url),
               {e \in queue : e.url = holder.stream.url} = {}
        PROVE  holder.stream.managed # NoSong
    <3>1. PICK e \in queue : e.id = holder.stream.managed
      BY <2>2 DEF Manageable
    <3> QED BY <3>1, StationsAssumption DEF TypeOK, Songs
  <2>3. ASSUME holder' = [holder EXCEPT !.pc = "silence", !.fresh = TRUE, !.linked = TRUE,
                     !.target = IF queue = {} THEN NoSong ELSE holder.stream.managed],
               queue # {} => holder.stream.managed # NoSong, queue' = queue
        PROVE  OwnInv'
    <3>1. holder'.pc = "silence" /\ holder'.target = IF queue = {} THEN NoSong ELSE holder.stream.managed
      BY <1>0, <2>3 DEF Holders
    <3> QED BY <2>3, <3>1 DEF OwnInv, Own
  <2>4. ASSUME NEW e, holder' = [holder EXCEPT !.pc = "persist", !.target = e.id, !.linked = TRUE,
                     !.fresh = player.state # "play" \/ player.song # e.id \/ player.error],
               queue' = Adopted(holder.stream.url), Manageable(holder.stream.managed, holder.stream.url)
        PROVE  OwnInv'
    <3>1. holder'.pc = "persist"
      BY <1>0, <2>4 DEF Holders
    <3> QED BY <1>A, <2>4, <3>1
  <2>5. CASE holder' = Idle /\ queue' = queue
    BY <1>3, <2>5 DEF Idle
  <2> QED BY <1>10, <2>2, <2>3, <2>4, <2>5 DEF Plan
<1>11. CASE Silence
  <2>1. Own' = Own
    BY <1>11 DEF Silence, Own
  <2>2. \/ holder.target = NoSong /\ holder' = [holder EXCEPT !.pc = "add"]
        \/ holder' = [holder EXCEPT !.pc = "delete"] \/ holder' = [holder EXCEPT !.pc = "cleanup"]
    BY <1>11 DEF Silence, Goto, Raise
  <2> QED BY <1>0, <1>1, <1>11, <2>1, <2>2 DEF Silence, At, OwnInv, Holders
<1>12. CASE Delete
  <2>1. Own' \subseteq Own
    BY <1>12 DEF Delete, Own, WithoutManaged
  <2>2. \/ queue' = {} /\ holder' = [holder EXCEPT !.pc = "add"]
        \/ holder' = [holder EXCEPT !.pc = "cleanup"]
    BY <1>12 DEF Delete, Goto, Raise
  <2> QED BY <1>0, <1>1, <2>1, <2>2 DEF OwnInv, Own, Holders
<1>13. CASE Add
  <2>1. Own' \subseteq {OwnEntry} /\ holder'.pc \notin {"add", "silence"}
    BY <1>0, <1>13 DEF Add, At, Raise, OwnInv, Own, Holders
  <2> QED BY <2>1 DEF OwnInv
<1>14. CASE Persist \/ PlaySong \/ Route \/ SetGain \/ Unmute
  <2>1. queue' = queue
    BY <1>14 DEF Persist, PlaySong, Route, SetGain, Unmute, mpd
  <2>2. \E pc \in {"play", "route", "gain", "unmute", "verify", "cleanup"} :
          holder' = [holder EXCEPT !.pc = pc]
    BY <1>14 DEF Persist, PlaySong, Route, SetGain, Unmute, Goto, Raise
  <2> QED BY <1>0, <1>3, <2>1, <2>2 DEF Holders
<1>15. CASE Verify \/ Cleanup \/ Quiet \/ HolderStops
  <2>1. queue' = queue
    BY <1>15 DEF Verify, Cleanup, Quiet, HolderStops, mpd
  <2>2. holder' = Idle \/ holder' = [holder EXCEPT !.pc = "cleanup"]
    BY <1>15 DEF Verify, Cleanup, Quiet, HolderStops, Raise
  <2> QED BY <1>0, <1>3, <2>1, <2>2 DEF Holders, Idle
<1>16. CASE MpdRestarts
  BY <1>0, <1>2, <1>16 DEF MpdRestarts, Own, Holders
<1>17. CASE ForeignAdds
  BY <1>2, <1>17 DEF ForeignAdds, Own
<1>18. ASSUME NEW s, Rotates(s) PROVE OwnInv'
  BY <1>2, <1>18 DEF Rotates, Own, mpd
<1>19. CASE StreamBreaks \/ RouteLost \/ UNCHANGED vars
  <2>1. UNCHANGED <<holder.pc, holder.target>> /\ queue' = queue
    BY <1>0, <1>19 DEF StreamBreaks, RouteLost, vars, Holders
  <2> QED BY <1>2, <2>1 DEF Own
<1> QED
  BY <1>4, <1>5, <1>6, <1>7, <1>8, <1>9, <1>10, <1>11, <1>12, <1>13, <1>14, <1>15, <1>16, <1>17,
    <1>18, <1>19 DEF Next, Command, Choose, Drive, World

LEMMA OwnGives == OwnInv => OneManagedEntry
<1> SUFFICES ASSUME OwnInv PROVE Cardinality(Own) <= 1
  BY DEF OneManagedEntry
<1>1. Cardinality({}) = 0
  BY FS_EmptySet
<1>2. ASSUME NEW e \in Own PROVE Cardinality(Own) <= 1
  <2>1. Own = {e}
    BY <1>2 DEF OwnInv
  <2>2. Cardinality({e}) = 1
    BY FS_Singleton
  <2> QED BY <2>1, <2>2
<1>3. CASE \A e : e \notin Own
  <2>1. Own = {}
    BY <1>3
  <2> QED BY <1>1, <2>1
<1> QED BY <1>2, <1>3

\* In every run the backend has one entry in the queue at most.
THEOREM OneEntry == Spec => []OneManagedEntry
  BY TypedAlways, OwnInit, OwnNext, OwnGives, PTL DEF Spec, Typed

-----------------------------------------------------------------------------
(* Sound. *)

\* What plays is the wanted URL.
PlaysWanted ==
    player.state = "play" => \E e \in queue : e.id = player.song /\ e.url = holder.stream.url

\* Before it starts a song the holder has its entry, unless MPD restarted; after that
\* the player plays it; once the route was verified, only PipeWire has moved the stream.
SoundInv ==
    /\ holder.pc \in {"silence", "delete", "add"} => holder.fresh
    /\ holder.pc \in {"persist", "play"} /\ holder.linked =>
         \E e \in queue : e.id = holder.target /\ e.url = holder.stream.url
    /\ holder.pc \in {"route", "gain", "unmute", "verify"} \/ (holder.pc = "persist" /\ ~holder.fresh)
         => PlaysWanted
    /\ holder.pc \in {"gain", "unmute"} /\ player.state = "play" => routed \/ holder.moved

LEMMA SoundInit == Init => SoundInv
  BY DEF Init, SoundInv, Idle

\* Every step keeps the order of entry, start, route and volume.
LEMMA SoundNext == TypeOK /\ SoundInv /\ [Next]_vars => SoundInv'
<1> SUFFICES ASSUME TypeOK, SoundInv, [Next]_vars PROVE SoundInv'
  OBVIOUS
<1>0. holder \in Holders /\ player \in Players
  BY DEF TypeOK, Holders, Pcs, Players
<1>1. ASSUME holder'.pc \in {"idle", "audio", "quiet", "inspect", "save", "resolve", "plan", "cleanup"}
      PROVE  SoundInv'
  BY <1>1 DEF SoundInv
<1>2. ASSUME UNCHANGED <<holder, queue, player, routed>> PROVE SoundInv'
  BY <1>2 DEF SoundInv, PlaysWanted
<1>C. holder' = [holder EXCEPT !.pc = "cleanup"] => SoundInv'
  BY <1>0, <1>1 DEF Holders
<1>I. holder' = Idle => SoundInv'
  BY <1>1 DEF Idle
<1>3. CASE Reconcile
  BY <1>1, <1>3 DEF Reconcile, Idle
<1>4. ASSUME NEW action \in {"play", "pause", "stop"}, Transport(action) PROVE SoundInv'
  BY <1>1, <1>4 DEF Transport, Idle
<1>5. ASSUME NEW s \in Stations, Select(s) PROVE SoundInv'
  BY <1>1, <1>5 DEF Select, Idle
<1>6. CASE SelectInspects
  <2>1. ASSUME NEW m, holder' = [holder EXCEPT !.pc = "save", !.stream.managed = m]
        PROVE  holder'.pc = "save"
    BY <1>0, <2>1 DEF Holders
  <2>2. \/ holder' = Idle
        \/ \E m : holder' = [holder EXCEPT !.pc = "save", !.stream.managed = m]
    BY <1>6 DEF SelectInspects
  <2> QED BY <1>1, <1>I, <2>1, <2>2
<1>7. CASE SelectSaves \/ AudioReady
  BY <1>0, <1>1, <1>7 DEF SelectSaves, AudioReady, Goto, Holders
<1>8. CASE Resolve
  BY <1>0, <1>1, <1>8 DEF Resolve, Holders
<1>9. CASE Plan
  <2>1. queue \in SUBSET Entries /\ player' = player
    BY <1>9 DEF Plan, TypeOK, Entries
  <2>2. ASSUME NEW e \in queue, e.url = holder.stream.url, queue' = Adopted(holder.stream.url),
               holder' = [holder EXCEPT !.pc = "persist", !.target = e.id, !.linked = TRUE,
                     !.fresh = player.state # "play" \/ player.song # e.id \/ player.error]
        PROVE  SoundInv'
    <3>1. /\ holder'.pc = "persist" /\ holder'.target = e.id /\ UNCHANGED holder.stream
          /\ ~holder'.fresh => player.state = "play" /\ player.song = e.id
      BY <1>0, <2>2 DEF Holders
    <3>2. PICK f \in queue' : f.id = e.id /\ f.url = holder.stream.url
      BY <2>1, <2>2, AdoptedEntries
    <3> QED BY <2>1, <3>1, <3>2 DEF SoundInv, PlaysWanted
  <2>3. ASSUME holder' = [holder EXCEPT !.pc = "silence", !.fresh = TRUE, !.linked = TRUE,
                     !.target = IF queue = {} THEN NoSong ELSE holder.stream.managed]
        PROVE  SoundInv'
    <3>1. holder'.pc = "silence" /\ holder'.fresh
      BY <1>0, <2>3 DEF Holders
    <3> QED BY <3>1 DEF SoundInv
  <2> QED BY <1>9, <1>I, <2>2, <2>3 DEF Plan
<1>10. CASE Silence \/ Delete
  <2>1. holder' = [holder EXCEPT !.pc = "delete"] \/ holder' = [holder EXCEPT !.pc = "add"]
        \/ holder' = [holder EXCEPT !.pc = "cleanup"]
    BY <1>10 DEF Silence, Delete, Goto, Raise
  <2>2. holder.fresh
    BY <1>10 DEF Silence, Delete, At, SoundInv
  <2>3. holder'.fresh /\ holder'.pc \in {"delete", "add", "cleanup"}
    BY <1>0, <2>1, <2>2 DEF Holders
  <2> QED BY <2>3 DEF SoundInv
<1>11. CASE Add
  <2>1. CASE queue' = queue \cup {OwnEntry} /\ holder' = [holder EXCEPT !.pc = "persist", !.target = nextId]
    <3>1. holder'.pc = "persist" /\ holder'.target = nextId /\ UNCHANGED <<holder.stream, holder.fresh>>
      BY <1>0, <2>1 DEF Holders
    <3>2. OwnEntry \in queue' /\ OwnEntry.id = nextId /\ OwnEntry.url = holder.stream.url
      BY <2>1 DEF OwnEntry
    <3>3. holder.fresh
      BY <1>11 DEF Add, At, SoundInv
    <3> QED BY <3>1, <3>2, <3>3 DEF SoundInv
  <2> QED BY <1>11, <1>C, <2>1 DEF Add, Raise
<1>12. CASE Persist
  <2>1. UNCHANGED <<queue, player>>
    BY <1>12 DEF Persist, mpd
  <2>2. ASSUME holder' = [holder EXCEPT !.pc = IF holder.fresh THEN "play" ELSE "route"] PROVE SoundInv'
    <3>1. holder'.pc = (IF holder.fresh THEN "play" ELSE "route")
          /\ UNCHANGED <<holder.stream, holder.target, holder.fresh, holder.linked>>
      BY <1>0, <2>2 DEF Holders
    <3> QED BY <1>12, <2>1, <3>1 DEF Persist, At, SoundInv, PlaysWanted
  <2> QED BY <1>12, <1>C, <2>2 DEF Persist, Goto, Raise
<1>13. CASE PlaySong
  <2>1. CASE holder.linked /\ player' = PlayMuted /\ holder' = [holder EXCEPT !.pc = "route"] /\ queue' = queue
    <3>1. PICK e \in queue : e.id = holder.target /\ e.url = holder.stream.url
      BY <1>13, <2>1 DEF PlaySong, At, SoundInv
    <3>2. holder'.pc = "route" /\ UNCHANGED holder.stream /\ player'.song = holder.target
      BY <1>0, <2>1 DEF Holders, PlayMuted
    <3> QED BY <2>1, <3>1, <3>2 DEF SoundInv, PlaysWanted
  <2> QED BY <1>13, <1>C, <2>1 DEF PlaySong, Goto, Raise
<1>14. CASE Route
  <2>1. CASE routed' /\ holder' = [holder EXCEPT !.pc = "gain"]
    <3>1. holder'.pc = "gain" /\ UNCHANGED <<holder.stream, queue, player>>
      BY <1>0, <1>14, <2>1 DEF Holders, Route
    <3> QED BY <1>14, <2>1, <3>1 DEF Route, At, SoundInv, PlaysWanted
  <2> QED BY <1>14, <1>C, <2>1 DEF Route, Goto, Raise
<1>G. CASE SetGain
  <2>1. CASE holder' = [holder EXCEPT !.pc = "unmute"]
    <3>1. holder'.pc = "unmute" /\ UNCHANGED <<holder.stream, holder.moved, queue, player, routed>>
      BY <1>0, <1>G, <2>1 DEF Holders, SetGain, mpd
    <3> QED BY <1>G, <3>1 DEF SetGain, At, SoundInv, PlaysWanted
  <2> QED BY <1>G, <1>C, <2>1 DEF SetGain, Goto, Raise
<1>15. CASE Unmute
  <2>1. CASE player' = [player EXCEPT !.volume = 100] /\ holder' = [holder EXCEPT !.pc = "verify"]
    <3>1. holder'.pc = "verify" /\ UNCHANGED <<holder.stream, queue, player.state, player.song>>
      BY <1>0, <1>15, <2>1 DEF Holders, Players, Unmute
    <3> QED BY <1>15, <3>1 DEF Unmute, At, SoundInv, PlaysWanted
  <2> QED BY <1>15, <1>C, <2>1 DEF Unmute, Goto, Raise
<1>16. CASE Verify \/ Cleanup \/ Quiet \/ HolderStops
  BY <1>16, <1>C, <1>I DEF Verify, Raise, Cleanup, Quiet, HolderStops
<1>17. CASE MpdRestarts
  <2>1. player'.state = "stop"
    BY <1>17 DEF MpdRestarts, Stopped
  <2>2. ~holder'.linked /\ UNCHANGED <<holder.pc, holder.fresh>>
    BY <1>0, <1>17 DEF MpdRestarts, Holders
  <2> QED BY <2>1, <2>2 DEF SoundInv, PlaysWanted
<1>18. CASE ForeignAdds
  <2>1. queue \subseteq queue' /\ UNCHANGED <<holder, player, routed>>
    BY <1>18 DEF ForeignAdds
  <2> QED BY <2>1 DEF SoundInv, PlaysWanted
<1>19. CASE StreamBreaks
  <2>1. player'.state = "stop" /\ UNCHANGED <<holder, queue>>
    BY <1>0, <1>19 DEF StreamBreaks, Players
  <2> QED BY <2>1 DEF SoundInv, PlaysWanted
<1>20. ASSUME NEW s, Rotates(s) PROVE SoundInv'
  BY <1>2, <1>20 DEF Rotates, mpd
<1>21. CASE RouteLost
  <2>1. /\ UNCHANGED <<queue, player, holder.pc, holder.stream, holder.target, holder.fresh, holder.linked>>
        /\ holder.pc \in {"gain", "unmute"} => holder'.moved
    BY <1>0, <1>21 DEF RouteLost, At, Holders
  <2> QED BY <2>1 DEF SoundInv, PlaysWanted
<1>22. CASE UNCHANGED vars
  BY <1>2, <1>22 DEF vars
<1> QED
  BY <1>3, <1>4, <1>5, <1>6, <1>7, <1>8, <1>9, <1>10, <1>11, <1>12, <1>13, <1>14, <1>G, <1>15, <1>16,
    <1>17, <1>18, <1>19, <1>20, <1>21, <1>22 DEF Next, Command, Choose, Drive, World

\* Only two steps make the player audible that was not.
LEMMA SoundSteps ==
    ASSUME TypeOK, [Next]_vars, ~Sounding, Sounding'
    PROVE  Unmute /\ player.state = "play" /\ player'.song = player.song
<1>0. player \in Players
  BY DEF TypeOK, Players
<1>1. ~(Silence \/ Delete \/ Cleanup \/ Quiet \/ StreamBreaks)
  <2>1. ~Silence
    <3>1. Silence => player' \in {player, [player EXCEPT !.volume = 0], SilencePlayer(player)}
      BY DEF Silence
    <3>2. [player EXCEPT !.volume = 0].volume # 100
      BY <1>0 DEF Players
    <3>3. SilencePlayer(player).volume # 100
      BY <1>0 DEF Players, SilencePlayer
    <3>4. Silence => player' = player \/ player'.volume # 100
      BY <3>1, <3>2, <3>3
    <3> QED BY <3>4 DEF Sounding
  <2>2. ~Delete
    <3>1. Delete => player' \in {player, [player EXCEPT !.song = NoSong]}
      BY DEF Delete
    <3>2. /\ [player EXCEPT !.song = NoSong].volume = player.volume
          /\ [player EXCEPT !.song = NoSong].state = player.state
      BY <1>0 DEF Players
    <3> QED BY <3>1, <3>2 DEF Sounding
  <2>3. ~(Cleanup \/ StreamBreaks)
    <3>1. [player EXCEPT !.state = "stop"].state = "stop"
      BY <1>0 DEF Players
    <3>2. [player EXCEPT !.state = "stop", !.error = TRUE].state = "stop"
      BY <1>0 DEF Players
    <3> QED BY <3>1, <3>2 DEF Cleanup, StreamBreaks, Sounding
  <2>4. ~Quiet
    <3>1. Quiet => player' \in {player, [player EXCEPT !.state = "stop"],
                                [player EXCEPT !.state = "pause"]}
      BY DEF Quiet
    <3>2. /\ [player EXCEPT !.state = "stop"].state = "stop"
          /\ [player EXCEPT !.state = "pause"].state = "pause"
      BY <1>0 DEF Players
    <3> QED BY <3>1, <3>2 DEF Sounding
  <2> QED BY <2>1, <2>2, <2>3, <2>4
<1>2. ~(PlaySong \/ MpdRestarts)
  BY <1>0 DEF PlaySong, PlayMuted, MpdRestarts, Stopped, Players, Sounding
<1>3. player' # player
  BY DEF Sounding
<1>4. Unmute
  BY <1>1, <1>2, <1>3 DEF Next, Command, Choose, Drive, World, vars, mpd, Reconcile, Transport,
    Select, SelectInspects, SelectSaves, AudioReady, Resolve, Plan, Add, Persist, Route, SetGain,
    Verify, HolderStops, ForeignAdds, Rotates, RouteLost
<1> QED BY <1>0, <1>3, <1>4 DEF Unmute, Players, Sounding

\* In every run sound starts only from the saved source while playing is intended, and on
\* the right sink unless PipeWire moved the stream after the route was verified.
THEOREM SoundStarts == Spec => SoundStartsRight
<1>1. Typed /\ SoundInv /\ [Next]_vars =>
        [~Sounding /\ Sounding' =>
           /\ routed' \/ holder.moved
           /\ saved'.intention = "play"
           /\ \E e \in queue' : e.id = player'.song /\ e.url = saved'.url]_vars
  <2> SUFFICES ASSUME Typed, SoundInv, [Next]_vars, ~Sounding, Sounding'
               PROVE  /\ routed' \/ holder.moved
                      /\ saved'.intention = "play"
                      /\ \E e \in queue' : e.id = player'.song /\ e.url = saved'.url
    OBVIOUS
  <2>1. Unmute /\ player.state = "play" /\ player'.song = player.song
    BY SoundSteps DEF Typed
  <2>2. (routed \/ holder.moved) /\ PlaysWanted /\ UNCHANGED <<routed, saved, queue>>
    BY <2>1 DEF Unmute, At, SoundInv
  <2>3. saved.intention = "play" /\ saved.url = holder.stream.url
    BY <2>1 DEF Unmute, At, Typed, SourceInv, Pcs
  <2> QED BY <2>1, <2>2, <2>3 DEF PlaysWanted
<1> QED BY <1>1, TypedAlways, SoundInit, SoundNext, PTL DEF Spec, Typed, SoundStartsRight

-----------------------------------------------------------------------------
(* The entries of other MPD clients. *)

\* A song id the backend remembers: none, or one that was given already and to no foreign entry.
Ours(id) == id = NoSong \/ (id < nextId /\ \A e \in queue : e.owner = "other" => e.id # id)

\* While MPD has not restarted, no remembered id is that of a foreign entry nobody adopted.
IdInv == count.restarts = 0 =>
    /\ \A e \in queue : e.id < nextId
    /\ Ours(saved.managed) /\ Ours(holder.stream.managed) /\ Ours(holder.target)

LEMMA IdInit == Init => IdInv
  BY DEF Init, IdInv, Ours, Defaults, Idle

\* Only a restart of MPD counts as one.
LEMMA RestartsCounted ==
    ASSUME TypeOK, NEW bound \in {"commands", "faults", "rotations", "foreign"}, NEW max,
           Use(bound, max) \/ UNCHANGED count
    PROVE  count'.restarts = count.restarts
  BY DEF TypeOK, Use

\* Every step remembers ids of the backend's own entries only.
LEMMA IdNext == TypeOK /\ IdInv /\ [Next]_vars => IdInv'
<1> SUFFICES ASSUME TypeOK, IdInv, [Next]_vars PROVE IdInv'
  OBVIOUS
<1>0. /\ holder \in Holders /\ saved \in Streams /\ nextId \in Songs /\ queue \in SUBSET Entries
      /\ NoSong \notin Nat
  BY StationsAssumption DEF TypeOK, Holders, Pcs, Entries
<1>F. Fault \/ UNCHANGED count => count'.restarts = count.restarts
  BY RestartsCounted DEF Fault
<1>K. ASSUME \A f \in queue' : f.owner = "other" => f \in queue,
             \A f \in queue' : \E e \in queue : f.id = e.id,
             nextId' = nextId, count'.restarts = count.restarts,
             {saved'.managed, holder'.stream.managed, holder'.target} \subseteq
               {NoSong, saved.managed, holder.stream.managed, holder.target}
      PROVE  IdInv'
  <2>1. ASSUME NEW id, Ours(id) PROVE Ours(id)'
    BY <1>K, <2>1 DEF Ours
  <2>2. Ours(NoSong)
    BY DEF Ours
  <2> QED BY <1>K, <2>1, <2>2 DEF IdInv
<1>I. Idle.stream.managed = NoSong /\ Idle.target = NoSong
  BY DEF Idle
<1>1. CASE Reconcile
  <2>1. holder'.stream = saved /\ holder'.target = NoSong
    BY <1>1 DEF Reconcile, Idle
  <2> QED BY <1>K, <1>1, <2>1 DEF Reconcile, mpd
<1>2. ASSUME NEW action \in {"play", "pause", "stop"}, Transport(action) PROVE IdInv'
  <2>1. saved'.managed = saved.managed
    BY <1>0, <1>2 DEF Transport, Streams
  <2>2. holder'.stream = saved' /\ holder'.target = NoSong
    BY <1>2 DEF Transport, Idle
  <2>3. count'.restarts = count.restarts
    BY <1>2, RestartsCounted DEF Transport
  <2> QED BY <1>K, <1>2, <2>1, <2>2, <2>3 DEF Transport, mpd
<1>3. ASSUME NEW s \in Stations, Select(s) PROVE IdInv'
  <2>1. holder'.stream.managed = saved.managed /\ holder'.target = NoSong
    BY <1>3 DEF Select, Idle
  <2>2. count'.restarts = count.restarts
    BY <1>3, RestartsCounted DEF Select
  <2> QED BY <1>K, <1>3, <2>1, <2>2 DEF Select, mpd
<1>A. ASSUME NEW url, queue' = Adopted(url)
      PROVE  /\ \A f \in queue' : f.owner = "other" => f \in queue /\ f.url # url
             /\ \A f \in queue' : \E e \in queue : f.id = e.id /\ f.url = e.url
  BY <1>0, <1>A, AdoptedEntries
<1>4. CASE SelectInspects
  <2>0. UNCHANGED <<saved, nextId, count>>
    BY <1>4 DEF SelectInspects
  <2>1. CASE holder' = Idle /\ queue' = queue
    BY <1>I, <1>K, <2>0, <2>1
  <2>2. CASE /\ holder' = [holder EXCEPT !.pc = "save",
                   !.stream.managed = IF queue = {} THEN @ ELSE CHOOSE id \in Ids(queue) : TRUE]
             /\ queue = {} /\ queue' = Adopted(saved.url)
    <3>1. UNCHANGED <<holder.stream.managed, holder.target>>
      BY <1>0, <2>2 DEF Holders, Streams
    <3> QED BY <1>A, <1>K, <2>0, <2>2, <3>1
  <2>3. ASSUME NEW e \in queue, queue = {e}, e.id = saved.managed \/ e.url = saved.url,
               queue' = Adopted(saved.url),
               holder' = [holder EXCEPT !.pc = "save",
                 !.stream.managed = IF queue = {} THEN @ ELSE CHOOSE id \in Ids(queue) : TRUE]
        PROVE  IdInv'
    <3>1. Ids(queue) = {e.id}
      BY <2>3 DEF Ids
    <3>2. (CHOOSE id \in Ids(queue) : TRUE) = e.id
      BY <3>1
    <3>3. holder'.stream.managed = e.id /\ UNCHANGED holder.target
      BY <1>0, <2>3, <3>2 DEF Holders, Streams
    <3>4. CASE e.id = saved.managed
      BY <1>A, <1>K, <2>0, <2>3, <3>3, <3>4
    <3>5. CASE e.url = saved.url
      <4>1. \A f \in queue' : f.owner # "other" /\ f.id = e.id
        BY <1>A, <2>3, <3>5
      <4> QED BY <2>0, <2>3, <3>3, <4>1 DEF IdInv, Ours
    <3> QED BY <2>3, <3>4, <3>5
  <2> QED BY <1>4, <2>1, <2>2, <2>3 DEF SelectInspects, Manageable
<1>5. CASE SelectSaves
  <2>1. UNCHANGED <<holder.stream, holder.target>> /\ saved' = holder.stream
    BY <1>0, <1>5 DEF SelectSaves, Goto, Holders
  <2> QED BY <1>K, <1>5, <2>1 DEF SelectSaves, mpd
<1>6. CASE AudioReady
  <2>1. UNCHANGED <<holder.stream, holder.target>>
    BY <1>0, <1>6 DEF AudioReady, Goto, Holders
  <2> QED BY <1>K, <1>6, <2>1 DEF AudioReady, mpd
<1>7. CASE Resolve
  <2>1. PICK url : /\ saved'  = [saved EXCEPT !.url = url]
                   /\ holder' = [holder EXCEPT !.pc = "plan", !.stream.url = url]
    BY <1>7 DEF Resolve
  <2>2. UNCHANGED <<saved.managed, holder.stream.managed, holder.target>>
    BY <1>0, <2>1 DEF Holders, Streams
  <2> QED BY <1>K, <1>7, <2>2 DEF Resolve, mpd
<1>8. CASE Plan
  <2>1. UNCHANGED <<saved, nextId, count>>
    BY <1>8 DEF Plan
  <2>2. CASE holder' = Idle /\ queue' = queue
    BY <1>I, <1>K, <2>1, <2>2
  <2>3. ASSUME NEW e \in queue, queue = {e}, e.url = holder.stream.url,
               queue' = Adopted(holder.stream.url),
               holder' = [holder EXCEPT !.pc = "persist", !.target = e.id, !.linked = TRUE,
                     !.fresh = player.state # "play" \/ player.song # e.id \/ player.error]
        PROVE  IdInv'
    <3>1. holder'.target = e.id /\ UNCHANGED holder.stream
      BY <1>0, <2>3 DEF Holders
    <3>2. \A f \in queue' : f.owner # "other" /\ f.id = e.id
      BY <1>A, <2>3
    <3> QED BY <2>1, <2>3, <3>1, <3>2 DEF IdInv, Ours
  <2>4. ASSUME holder' = [holder EXCEPT !.pc = "silence", !.fresh = TRUE, !.linked = TRUE,
                     !.target = IF queue = {} THEN NoSong ELSE holder.stream.managed],
               queue' = queue
        PROVE  IdInv'
    <3>1. holder'.target \in {NoSong, holder.stream.managed} /\ UNCHANGED holder.stream
      BY <1>0, <2>4 DEF Holders
    <3> QED BY <1>K, <2>1, <2>4, <3>1
  <2>5. ASSUME Manageable(holder.stream.managed, holder.stream.url), NEW e \in queue
        PROVE  queue = {e}
    BY <2>5 DEF Manageable
  <2> QED BY <1>8, <2>2, <2>3, <2>4, <2>5 DEF Plan
<1>9. CASE Silence \/ PlaySong \/ Route \/ SetGain \/ Unmute
  <2>1. UNCHANGED <<saved, queue, nextId>> /\ count'.restarts = count.restarts
    BY <1>9, <1>F DEF Silence, PlaySong, Route, SetGain, Unmute, mpd
  <2>2. \E pc : holder' = [holder EXCEPT !.pc = pc]
    BY <1>9 DEF Silence, PlaySong, Route, SetGain, Unmute, Goto, Raise
  <2>3. UNCHANGED <<holder.stream, holder.target>>
    BY <1>0, <2>2 DEF Holders
  <2> QED BY <1>K, <2>1, <2>3
<1>10. CASE Delete
  <2>1. UNCHANGED <<saved, nextId>> /\ queue' \subseteq queue /\ count'.restarts = count.restarts
    BY <1>10, <1>F DEF Delete, WithoutManaged
  <2>2. \E pc : holder' = [holder EXCEPT !.pc = pc]
    BY <1>10 DEF Delete, Goto, Raise
  <2>3. UNCHANGED <<holder.stream, holder.target>>
    BY <1>0, <2>2 DEF Holders
  <2> QED BY <1>K, <2>1, <2>3
<1>11. CASE Add
  <2>1. saved' = saved /\ count'.restarts = count.restarts
    BY <1>11, <1>F DEF Add
  <2>2. CASE UNCHANGED <<queue, nextId>> /\ Raise
    <3>1. UNCHANGED <<holder.stream, holder.target>>
      BY <1>0, <2>2 DEF Raise, Holders
    <3> QED BY <1>K, <2>1, <2>2, <3>1
  <2>3. CASE queue' = queue \cup {OwnEntry} /\ nextId' = nextId + 1
    <3>1. OwnEntry.owner # "other" /\ OwnEntry.id = nextId
      BY DEF OwnEntry
    <3>2. UNCHANGED holder.stream /\ holder'.target \in {holder.target, nextId}
      BY <1>0, <1>11 DEF Add, Raise, Holders
    <3>3. /\ \A e \in queue : e.id \in Nat
          /\ {saved.managed, holder.stream.managed, holder.target} \subseteq Nat \cup {NoSong}
          /\ nextId \in Nat
      BY <1>0 DEF Entries, Songs, Streams, Holders
    <3>4. \A e \in queue' : e.owner = "other" => e \in queue
      BY <2>3, <3>1
    <3>5. \A e \in queue' : e \in queue \/ e.id = nextId
      BY <2>3, <3>1
    <3>6. ASSUME NEW id \in Nat \cup {NoSong}, Ours(id) PROVE Ours(id)'
      BY <1>0, <2>3, <3>3, <3>4, <3>6 DEF Ours
    <3>7. ASSUME \A e \in queue : e.id < nextId, NEW id, id = nextId PROVE Ours(id)'
      BY <2>3, <3>3, <3>4, <3>7 DEF Ours
    <3>8. (\A e \in queue : e.id < nextId) => \A e \in queue' : e.id < nextId'
      BY <2>3, <3>3, <3>5
    <3>10. CASE count.restarts = 0
      <4>1. Ours(saved.managed)' /\ Ours(holder.stream.managed)'
        BY <2>1, <3>2, <3>3, <3>6, <3>10 DEF IdInv
      <4>2. Ours(holder.target)'
        BY <3>2, <3>3, <3>6, <3>7, <3>10 DEF IdInv
      <4> QED BY <3>8, <3>10, <4>1, <4>2 DEF IdInv
    <3> QED BY <2>1, <3>10 DEF IdInv
  <2> QED BY <1>11, <2>2, <2>3 DEF Add
<1>12. CASE Persist
  <2>1. saved'.managed \in {saved.managed, holder.target}
    BY <1>0, <1>12 DEF Persist, Streams
  <2>2. \E pc : holder' = [holder EXCEPT !.pc = pc]
    BY <1>12 DEF Persist, Goto, Raise
  <2>3. UNCHANGED <<holder.stream, holder.target>>
    BY <1>0, <2>2 DEF Holders
  <2>4. UNCHANGED <<queue, nextId>> /\ count'.restarts = count.restarts
    BY <1>12, <1>F DEF Persist, mpd
  <2> QED BY <1>K, <2>1, <2>3, <2>4
<1>13. CASE Verify \/ Cleanup \/ Quiet \/ HolderStops
  <2>1. UNCHANGED <<saved, queue, nextId>> /\ count'.restarts = count.restarts
    BY <1>13, <1>F DEF Verify, Cleanup, Quiet, HolderStops, mpd
  <2>2. holder' = Idle \/ holder' = [holder EXCEPT !.pc = "cleanup"]
    BY <1>13 DEF Verify, Cleanup, Quiet, HolderStops, Raise
  <2>3. {holder'.stream.managed, holder'.target} \subseteq
          {NoSong, holder.stream.managed, holder.target}
    BY <1>0, <1>I, <2>2 DEF Holders
  <2> QED BY <1>K, <2>1, <2>3
<1>14. CASE MpdRestarts
  <2>1. count'.restarts # 0
    BY <1>14 DEF MpdRestarts, Use, TypeOK
  <2> QED BY <1>14, <2>1 DEF MpdRestarts, IdInv
<1>15. CASE ForeignAdds
  <2>1. count'.restarts = count.restarts /\ UNCHANGED <<saved, holder>>
    BY <1>15, RestartsCounted DEF ForeignAdds
  <2>2. PICK f : f.id = nextId /\ queue' = queue \cup {f}
    BY <1>15 DEF ForeignAdds
  <2>3. nextId' = nextId + 1
    BY <1>15 DEF ForeignAdds
  <2>4. /\ \A e \in queue : e.id \in Nat
        /\ {saved.managed, holder.stream.managed, holder.target} \subseteq Nat \cup {NoSong}
        /\ nextId \in Nat
    BY <1>0 DEF Entries, Songs, Streams, Holders
  <2>5. ASSUME NEW id \in Nat \cup {NoSong}, Ours(id) PROVE Ours(id)'
    BY <1>0, <2>2, <2>3, <2>4, <2>5 DEF Ours
  <2>6. (\A e \in queue : e.id < nextId) => \A e \in queue' : e.id < nextId'
    BY <2>2, <2>3, <2>4
  <2> QED BY <2>1, <2>2, <2>4, <2>5, <2>6 DEF IdInv
<1>16. ASSUME NEW s, Rotates(s) PROVE IdInv'
  <2>1. count'.restarts = count.restarts
    BY <1>16, RestartsCounted DEF Rotates
  <2> QED BY <1>K, <1>16, <2>1 DEF Rotates, mpd
<1>17. CASE StreamBreaks \/ RouteLost \/ UNCHANGED vars
  <2>1. UNCHANGED <<saved, queue, nextId>> /\ count'.restarts = count.restarts
    BY <1>17, <1>F DEF StreamBreaks, RouteLost, vars
  <2>2. UNCHANGED <<holder.stream, holder.target>>
    BY <1>0, <1>17 DEF StreamBreaks, RouteLost, vars, Holders
  <2> QED BY <1>K, <2>1, <2>2
<1> QED
  BY <1>1, <1>2, <1>3, <1>4, <1>5, <1>6, <1>7, <1>8, <1>9, <1>10, <1>11, <1>12, <1>13, <1>14,
    <1>15, <1>16, <1>17 DEF Next, Command, Choose, Drive, World

\* In every run the backend removes no entry of another client that it did not adopt, unless
\* MPD restarted and gave the remembered id away.
THEOREM ForeignEntriesStay == Spec => ForeignEntriesSurvive
<1> DEFINE Stays == \A e \in queue : e.owner = "other" =>
                      \/ e.id \in Ids(queue') \/ count'.restarts # count.restarts
                      \/ count.restarts > 0 /\ e.id = holder.target
<1>1. TypeOK /\ IdInv /\ [Next]_vars => [Stays]_vars
  <2> SUFFICES ASSUME TypeOK, IdInv, [Next]_vars, NEW e \in queue, e.owner = "other",
                      e.id \notin Ids(queue'), count'.restarts = count.restarts
               PROVE  count.restarts > 0 /\ e.id = holder.target
    OBVIOUS
  <2>0. e.id \in Nat /\ count.restarts \in Nat
    BY DEF TypeOK, Songs
  <2>1. ~MpdRestarts
    <3>1. MpdRestarts => count'.restarts = count.restarts + 1
      BY DEF MpdRestarts, Use, TypeOK
    <3> QED BY <2>0, <3>1
  <2>a. ~(queue \subseteq queue')
    BY DEF Ids
  <2>b. ~(SelectInspects \/ Plan)
    <3>1. \A url : Ids(Adopted(url)) = Ids(queue)
      BY AdoptedEntries DEF TypeOK, Entries
    <3>2. SelectInspects \/ Plan => queue' = queue \/ \E url : queue' = Adopted(url)
      BY DEF SelectInspects, Plan
    <3>3. e.id \in Ids(queue)
      BY DEF Ids
    <3> QED BY <3>1, <3>2, <3>3
  <2>2. Delete
    BY <2>1, <2>a, <2>b DEF Next, Command, Choose, Drive, World, vars, mpd, Reconcile, Transport,
      Select, SelectSaves, AudioReady, Resolve, Silence, Add, Persist, PlaySong, Route, SetGain,
      Unmute, Verify, Cleanup, Quiet, HolderStops, ForeignAdds, Rotates, StreamBreaks, RouteLost
  <2>3. e.id = holder.target
    BY <2>2, <2>a DEF Delete, WithoutManaged, Ids
  <2>4. e.id # NoSong
    BY <2>0, StationsAssumption
  <2> QED BY <2>0, <2>3, <2>4 DEF IdInv, Ours
<1> QED BY <1>1, TypedAlways, IdInit, IdNext, PTL DEF Spec, Typed, ForeignEntriesSurvive

=============================================================================
