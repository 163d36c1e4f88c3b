---------------------- MODULE PlaybackObservationProofs ----------------------
(***************************************************************************)
(* Proofs about PlaybackObservation for any number of edits, changes at    *)
(* MPD, commands, restarts and faults.                                     *)
(***************************************************************************)
EXTENDS PlaybackObservation, TLAPS

\* A snapshot whose stations, gains and favorites were read no earlier than its tick
\* began.
Sound(s) ==
    /\ DOMAIN s = {"config", "control", "since", "streams", "list", "probe"}
    /\ s.since \in Nat
    /\ s.streams \in Nat /\ s.since <= s.streams
    /\ s.list # None => s.list \in Nat /\ s.since <= s.list

\* playback.json only ever gets newer.
DiskInv == DOMAIN disk = {"config", "valid", "control"} /\ disk.control \in Nat

\* The tick may end with a publication.
Ready == agent.phase = "observe" \/ (agent.phase \in {"rest", "closing"} /\ collector # None)

\* What the tick has read so far.
AgentInv ==
    /\ DOMAIN agent = DOMAIN Resting
    /\ collector # None => DOMAIN collector = {"config", "streams", "probe"}
    /\ agent.list # None => agent.list \in Nat /\ agent.list <= disk.control
    /\ agent.phase \in {"favorites", "controls", "collect"} =>
         agent.since \in Nat /\ agent.since <= disk.control
    /\ agent.phase \in {"controls", "collect"} => agent.list \in Nat /\ agent.since <= agent.list
    /\ Ready => /\ agent.since \in Nat /\ agent.since <= disk.control
                /\ agent.list \in Nat /\ agent.since <= agent.list
                /\ collector.streams \in Nat /\ agent.since <= collector.streams

\* Favorites that are read later are no older than s.
NoneOlder(s) ==
    /\ s.since <= disk.control
    /\ agent.list # None => s.since <= agent.list

\* What the agent has published, and what a round of the poller has read of it.
RoundInv ==
    /\ pub # None => Sound(pub) /\ pub.list \in Nat /\ NoneOlder(pub)
    /\ poll # None => /\ Sound(poll) /\ NoneOlder(poll)
                      /\ pub # None => poll.since <= pub.list

\* What the web server and the page have accepted, and the page has named.
PageInv ==
    /\ DOMAIN web = {"status", "code", "snapshot"}
    /\ web.status = "ok" => Sound(web.snapshot)
    /\ DOMAIN page = {"shown", "available", "waits", "told"}
    /\ page.available /\ page.shown.status = "ok" => Sound(page.shown.snapshot)
    /\ DOMAIN edit = DOMAIN NoEdit
    /\ edit.phase # "none" => Sound(edit.seen)

Inv == DiskInv /\ AgentInv /\ RoundInv /\ PageInv

\* The initial state has read nothing.
LEMMA InvInit == Init => Inv
  BY DEF Init, Inv, DiskInv, AgentInv, RoundInv, PageInv, Ready, Resting, NoEdit

\* Every step keeps playback.json or writes a newer one.
LEMMA DiskNext ==
    ASSUME Inv, [Next]_vars
    PROVE  DiskInv' /\ disk.control <= disk'.control
<1>1. DiskInv
  BY DEF Inv
<1>2. CASE disk' = disk
  BY <1>1, <1>2 DEF DiskInv
<1>3. CASE disk' = [disk EXCEPT !.control = @ + 1]
  BY <1>1, <1>3 DEF DiskInv
<1>4. CASE \E valid \in BOOLEAN : disk' = [disk EXCEPT !.config = @ + 1, !.valid = valid]
  BY <1>1, <1>4 DEF DiskInv
<1>5. CASE World \/ Command
  BY <1>2, <1>3, <1>4, <1>5 DEF World, AdminEdits, OthersWrite, MusicChanges, Restart, ObserverStops,
    Command, Arrive, Confirmed, Unknown, Execute, LoseAnswer, Refuse, world
<1>6. CASE Tick \/ (\E due \in BOOLEAN : Observe(due)) \/ FinishJob
  BY <1>2, <1>6 DEF Tick, ReadStreams, ReadFavorites, ReadControls, Reads, KeepCollector,
    ReplaceCollector, Closed, Observe, FinishJob, world
<1>7. CASE Round \/ PollFails \/ Fetch \/ FetchFails \/ Submit \/ LoseRequest \/ Retry
  BY <1>2, <1>7 DEF Round, PollOutputs, PollFavorites, PollFails, Fetch, FetchFails, Submit,
    LoseRequest, Unknown, Retry, world
<1>8. CASE UNCHANGED vars
  BY <1>2, <1>8 DEF vars
<1> QED BY <1>5, <1>6, <1>7, <1>8 DEF Next

\* A step of anybody but the observer leaves what the tick has read.
LEMMA AgentKept ==
    ASSUME Inv, DiskInv', disk.control <= disk'.control, UNCHANGED <<agent, collector>>
    PROVE  AgentInv'
  BY DEF Inv, DiskInv, AgentInv, Ready

\* Every step leaves a tick whose readings are in order.
LEMMA AgentNext ==
    ASSUME Inv, [Next]_vars
    PROVE  AgentInv'
<1> USE NoneAssumption DEF Inv
<1>1. DiskInv' /\ disk.control <= disk'.control
  BY DiskNext
<1>2. ASSUME Withdraw PROVE AgentInv'
  BY <1>1, <1>2 DEF Withdraw, AgentInv, Ready, Resting
<1>3. CASE Restart
  BY <1>1, <1>3 DEF Restart, AgentInv, Ready, Resting
<1>4. CASE ObserverStops
  BY <1>1, <1>4 DEF ObserverStops, DiskInv, AgentInv, Ready, Resting, world
<1>5. CASE ReadStreams
  <2>1. CASE agent' = [agent EXCEPT !.phase = "favorites", !.since = disk.control] /\ UNCHANGED collector
    BY <1>1, <1>5, <2>1 DEF ReadStreams, Reads, DiskInv, AgentInv, Ready, Resting
  <2> QED BY <1>2, <1>5, <2>1 DEF ReadStreams, Reads
<1>6. CASE ReadFavorites
  <2>1. CASE agent' = [agent EXCEPT !.phase = "controls", !.list = disk.control] /\ UNCHANGED collector
    BY <1>1, <1>6, <2>1 DEF ReadFavorites, Reads, DiskInv, AgentInv, Ready, Resting, world
  <2> QED BY <1>2, <1>6, <2>1 DEF ReadFavorites, Reads
<1>7. CASE ReadControls
  <2>1. CASE /\ agent' = [agent EXCEPT !.phase = "collect", !.config = disk.config, !.control = disk.control]
             /\ UNCHANGED collector
    BY <1>1, <1>7, <2>1 DEF ReadControls, Reads, DiskInv, AgentInv, Ready, Resting, world
  <2> QED BY <1>2, <1>7, <2>1 DEF ReadControls, Reads
<1>8. CASE KeepCollector
  BY <1>1, <1>8 DEF KeepCollector, SameConfiguration, DiskInv, AgentInv, Ready, Resting, world
<1>9. CASE ReplaceCollector
  <2>1. CASE disk.valid
    <3>1. /\ collector' = NewCollector /\ disk' = disk
          /\ agent' = [agent EXCEPT !.phase = IF collector = None THEN "observe" ELSE "closing"]
          /\ agent.phase = "collect"
      BY <1>9, <2>1 DEF ReplaceCollector, world
    <3> QED BY <3>1 DEF NewCollector, DiskInv, AgentInv, Ready, Resting
  <2> QED BY <1>2, <1>9, <2>1 DEF ReplaceCollector
<1>10. CASE Closed
  BY <1>1, <1>10 DEF Closed, DiskInv, AgentInv, Ready, Resting, world
<1>11. CASE \E due \in BOOLEAN : Observe(due)
  BY <1>1, <1>11 DEF Observe, DiskInv, AgentInv, Ready, Resting, world
<1>12. CASE FinishJob
  <2>1. CASE collector' = collector
    BY <1>1, <1>12, <2>1, AgentKept DEF FinishJob
  <2>2. CASE collector # None /\ collector' = [collector EXCEPT !.probe = ReadPlayback(@)]
    BY <1>1, <1>12, <2>2 DEF FinishJob, DiskInv, AgentInv, Ready, world
  <2> QED BY <1>12, <2>1, <2>2 DEF FinishJob
<1>13. CASE AdminEdits \/ OthersWrite \/ MusicChanges \/ Command
  BY <1>1, <1>13, AgentKept DEF AdminEdits, OthersWrite, MusicChanges, Command, Arrive, Confirmed, observer
<1>14. CASE Round \/ PollFails \/ Fetch \/ FetchFails \/ Submit \/ LoseRequest \/ Retry
  BY <1>1, <1>14, AgentKept DEF Round, PollOutputs, PollFavorites, PollFails, Fetch, FetchFails,
    Submit, LoseRequest, Retry, observer
<1>15. CASE UNCHANGED vars
  BY <1>1, <1>15, AgentKept DEF vars
<1> QED
  BY <1>3, <1>4, <1>5, <1>6, <1>7, <1>8, <1>9, <1>10, <1>11, <1>12, <1>13, <1>14, <1>15 DEF Next,
    World, Tick

\* The publication of what a tick has read.
Publishes ==
    /\ Sound(pub') /\ pub'.since = agent.since /\ pub'.list = agent.list
    /\ agent.list \in Nat /\ agent.since <= agent.list /\ agent.since <= disk.control
    /\ agent'.list = agent.list

LEMMA Publishing ==
    ASSUME AgentInv, NEW c, pub' = Published(c), agent.since \in Nat, agent.since <= disk.control,
           agent.list \in Nat, agent.since <= agent.list, c.streams \in Nat, agent.since <= c.streams,
           agent'.list = agent.list
    PROVE  Publishes
  BY DEF Published, Snapshot, Sound, Publishes

\* What a step does to the publication and to the list the tick has read.
LEMMA PublicationSteps ==
    ASSUME Inv, [Next]_vars
    PROVE  \/ pub' = pub /\ agent'.list = agent.list
           \/ pub' = None /\ agent'.list \in {agent.list, None}
           \/ pub' = pub /\ agent'.list = disk.control
           \/ Publishes
<1> USE DEF Inv, Resting
<1>0. DOMAIN agent = DOMAIN Resting
  BY DEF AgentInv
<1>1. CASE World
  <2>1. CASE Restart
    BY <2>1 DEF Restart
  <2>2. CASE ObserverStops
    BY <1>0, <2>2 DEF ObserverStops
  <2>3. CASE AdminEdits \/ OthersWrite \/ MusicChanges
    BY <2>3 DEF AdminEdits, OthersWrite, MusicChanges, observer
  <2> QED BY <1>1, <2>1, <2>2, <2>3 DEF World
<1>2. ASSUME Withdraw PROVE pub' = None /\ agent'.list = None
  BY <1>2 DEF Withdraw
<1>3. CASE ReadStreams
  BY <1>0, <1>2, <1>3 DEF ReadStreams, Reads
<1>4. CASE ReadFavorites
  BY <1>0, <1>2, <1>4 DEF ReadFavorites, Reads
<1>5. CASE ReadControls
  BY <1>0, <1>2, <1>5 DEF ReadControls, Reads
<1>6. CASE KeepCollector \/ Closed \/ FinishJob
  BY <1>0, <1>6 DEF KeepCollector, Closed, FinishJob
<1>7. CASE ReplaceCollector
  <2>1. CASE disk.valid
    <3>1. /\ pub' = Published(collector') /\ collector'.streams = disk.control
          /\ agent'.list = agent.list /\ agent.phase = "collect"
      BY <1>0, <1>7, <2>1 DEF ReplaceCollector, NewCollector
    <3> QED BY <3>1, Publishing DEF AgentInv, DiskInv
  <2> QED BY <1>2, <1>7, <2>1 DEF ReplaceCollector
<1>8. CASE \E due \in BOOLEAN : Observe(due)
  <2>1. pub' = Published(collector) /\ agent'.list = agent.list /\ Ready
    BY <1>0, <1>8 DEF Observe, Ready
  <2> QED BY <2>1, Publishing DEF AgentInv
<1>9. CASE Round \/ PollFails \/ Fetch \/ FetchFails \/ Submit \/ LoseRequest \/ Retry \/ Command
  BY <1>9 DEF Round, PollOutputs, PollFavorites, PollFails, Fetch, FetchFails, Submit, LoseRequest,
    Retry, Command, Arrive, Confirmed, observer
<1>10. CASE UNCHANGED vars
  BY <1>10 DEF vars
<1> QED BY <1>1, <1>3, <1>4, <1>5, <1>6, <1>7, <1>8, <1>9, <1>10 DEF Next, Tick

\* A round goes on, ends, or begins with the publication.
LEMMA RoundSteps ==
    ASSUME [Next]_vars
    PROVE  poll' \in {poll, None} \/ (poll' = pub /\ UNCHANGED <<pub, agent>>)
<1>1. CASE Round
  BY <1>1 DEF Round, PollOutputs, PollFavorites, EndRound, Inventory, observer
<1>2. CASE PollFails
  BY <1>2 DEF PollFails, EndRound
<1>3. CASE World \/ Tick \/ (\E due \in BOOLEAN : Observe(due)) \/ FinishJob
  BY <1>3 DEF World, AdminEdits, OthersWrite, MusicChanges, Restart, ObserverStops, Tick,
    ReadStreams, ReadFavorites, ReadControls, Reads, KeepCollector, ReplaceCollector, Closed,
    Observe, FinishJob
<1>4. CASE Fetch \/ FetchFails \/ Submit \/ LoseRequest \/ Retry \/ Command
  BY <1>4 DEF Fetch, FetchFails, Submit, LoseRequest, Retry, Command, Arrive, Confirmed
<1>5. CASE UNCHANGED vars
  BY <1>5 DEF vars
<1> QED BY <1>1, <1>2, <1>3, <1>4, <1>5 DEF Next

\* Every step leaves publications that are sound, and a round whose favorites will be no
\* older than its outputs.
LEMMA RoundNext ==
    ASSUME Inv, [Next]_vars
    PROVE  RoundInv'
<1>1. disk.control \in Nat /\ disk'.control \in Nat /\ disk.control <= disk'.control
  BY DiskNext DEF Inv, DiskInv
<1>2. ASSUME NEW s, Sound(s), NoneOlder(s), agent'.list \in {agent.list, None, disk.control}
      PROVE  NoneOlder(s)'
  BY <1>1, <1>2 DEF NoneOlder, Sound
<1>3. ASSUME Publishes PROVE Sound(pub') /\ pub'.list \in Nat /\ NoneOlder(pub)'
  BY <1>1, <1>3 DEF Publishes, NoneOlder, Sound
<1>4. agent'.list \in {agent.list, None, disk.control}
  BY PublicationSteps DEF Publishes
<1>5. pub' # None => Sound(pub') /\ pub'.list \in Nat /\ NoneOlder(pub)'
  <2>1. CASE pub' = pub /\ pub # None
    <3>1. Sound(pub) /\ pub.list \in Nat /\ NoneOlder(pub)
      BY <2>1 DEF Inv, RoundInv
    <3>2. NoneOlder(pub)'
      BY <1>2, <1>4, <2>1, <3>1 DEF NoneOlder
    <3> QED BY <2>1, <3>1, <3>2
  <2> QED BY <1>3, <2>1, PublicationSteps
<1>6. poll' # None => /\ Sound(poll') /\ NoneOlder(poll)'
                      /\ pub' # None => poll'.since <= pub'.list
  <2>1. CASE poll' = poll /\ poll # None
    <3>1. Sound(poll) /\ NoneOlder(poll) /\ (pub # None => poll.since <= pub.list)
      BY <2>1 DEF Inv, RoundInv
    <3>2. NoneOlder(poll)'
      BY <1>2, <1>4, <2>1, <3>1 DEF NoneOlder
    <3>3. pub' # None => poll.since <= pub'.list
      BY <3>1, PublicationSteps, NoneAssumption DEF Publishes, NoneOlder
    <3> QED BY <2>1, <3>1, <3>2, <3>3
  <2>2. CASE poll' = pub /\ UNCHANGED <<pub, agent>> /\ pub # None
    <3>1. Sound(pub) /\ NoneOlder(pub) /\ pub.since <= pub.list
      BY <2>2, NoneAssumption DEF Inv, RoundInv, Sound
    <3>2. NoneOlder(pub)'
      BY <1>2, <1>4, <2>2, <3>1 DEF NoneOlder
    <3> QED BY <2>2, <3>1, <3>2 DEF NoneOlder
  <2> QED BY <2>1, <2>2, RoundSteps
<1> QED BY <1>5, <1>6 DEF RoundInv

\* Every step leaves sound snapshots at the server, on the page and in its command.
LEMMA PageNext ==
    ASSUME Inv, [Next]_vars
    PROVE  PageInv'
<1> DEFINE WebInv == DOMAIN web = {"status", "code", "snapshot"} /\ (web.status = "ok" => Sound(web.snapshot))
           ShownInv == /\ DOMAIN page = {"shown", "available", "waits", "told"}
                       /\ page.available /\ page.shown.status = "ok" => Sound(page.shown.snapshot)
           EditInv == DOMAIN edit = DOMAIN NoEdit /\ (edit.phase # "none" => Sound(edit.seen))
<1>0. WebInv /\ ShownInv /\ EditInv
  BY DEF Inv, PageInv
<1>1. ASSUME UNCHANGED <<web, page, edit>> PROVE PageInv'
  BY <1>0, <1>1 DEF PageInv
<1>2. ASSUME page' = page \/ page' = [page EXCEPT !.told = TRUE]
      PROVE  ShownInv'
  BY <1>0, <1>2
<1>3. ASSUME NEW code, Errs(code) PROVE WebInv'
  BY <1>0, <1>3 DEF Errs
<1>4. CASE Round
  <2>1. CASE PollOutputs
    <3>1. WebInv'
      BY <1>0, <1>3, <2>1 DEF PollOutputs
    <3> QED BY <1>0, <1>2, <2>1, <3>1 DEF PollOutputs, EndRound, PageInv
  <2>2. CASE PollFavorites
    <3>1. Sound([poll EXCEPT !.list = Favorites])
      BY <2>2, NoneAssumption DEF PollFavorites, Favorites, Inv, RoundInv, Sound
    <3>2. WebInv'
      BY <2>2, <3>1 DEF PollFavorites, Accepts
    <3> QED BY <1>0, <1>2, <2>2, <3>2 DEF PollFavorites, EndRound, PageInv
  <2> QED BY <1>4, <2>1, <2>2 DEF Round
<1>5. CASE PollFails
  <2>1. WebInv'
    BY <1>3, <1>5 DEF PollFails, Unreachable, Invalid
  <2> QED BY <1>0, <1>2, <1>5, <2>1 DEF PollFails, EndRound, observer, PageInv
<1>6. CASE Fetch \/ FetchFails
  <2>1. ShownInv'
    BY <1>0, <1>6 DEF Fetch, FetchFails, Answer
  <2> QED BY <1>0, <1>6, <2>1 DEF Fetch, FetchFails, PageInv
<1>7. CASE Submit
  <2>1. Sound([page.shown.snapshot EXCEPT !.probe = None])
    BY <1>0, <1>7 DEF Submit, CanWrite, Sound
  <2>2. EditInv'
    BY <1>7, <2>1 DEF Submit, NoEdit
  <2> QED BY <1>0, <1>7, <2>2 DEF Submit, PageInv
<1>8. ASSUME edit.phase # "none",
             \/ edit' = NoEdit
             \/ \E phase, done : edit' = [edit EXCEPT !.phase = phase, !.done = done]
             \/ \E phase : edit' = [edit EXCEPT !.phase = phase]
      PROVE  EditInv'
  <2>1. ASSUME DOMAIN edit' = DOMAIN NoEdit, edit'.phase = "none" \/ edit'.seen = edit.seen PROVE EditInv'
    BY <1>0, <1>8, <2>1
  <2>2. DOMAIN edit = {"phase", "seen", "done"} /\ DOMAIN NoEdit = {"phase", "seen", "done"}
    BY <1>0 DEF NoEdit
  <2>3. CASE edit' = NoEdit
    BY <2>1, <2>3 DEF NoEdit
  <2>4. ASSUME NEW phase, NEW done, edit' = [edit EXCEPT !.phase = phase, !.done = done] PROVE EditInv'
    BY <2>1, <2>2, <2>4
  <2>5. ASSUME NEW phase, edit' = [edit EXCEPT !.phase = phase] PROVE EditInv'
    BY <2>1, <2>2, <2>5
  <2> QED BY <1>8, <2>3, <2>4, <2>5
<1>9. CASE LoseRequest \/ Retry \/ Arrive
  <2>1. EditInv'
    BY <1>8, <1>9 DEF LoseRequest, Retry, Arrive, Unknown, Execute, LoseAnswer, Refuse
  <2> QED BY <1>0, <1>9, <2>1 DEF LoseRequest, Retry, Arrive, PageInv
<1>10. CASE Confirmed
  <2>1. EditInv' /\ ShownInv'
    BY <1>0, <1>8, <1>10 DEF Confirmed
  <2> QED BY <1>0, <1>10, <2>1 DEF Confirmed, PageInv
<1>11. CASE World \/ Tick \/ (\E due \in BOOLEAN : Observe(due)) \/ FinishJob
  BY <1>1, <1>11 DEF World, AdminEdits, OthersWrite, MusicChanges, Restart, ObserverStops, Tick,
    ReadStreams, ReadFavorites, ReadControls, Reads, KeepCollector, ReplaceCollector, Closed,
    Observe, FinishJob, browser
<1>12. CASE UNCHANGED vars
  BY <1>1, <1>12 DEF vars
<1> QED BY <1>4, <1>5, <1>6, <1>7, <1>9, <1>10, <1>11, <1>12 DEF Next, Command

LEMMA InvNext == Inv /\ [Next]_vars => Inv'
  BY DiskNext, AgentNext, RoundNext, PageNext DEF Inv

\* What the invariant says of a command is the property.
LEMMA InvGives == Inv => EditsSawTheirTick
  BY DEF Inv, PageInv, EditsSawTheirTick, Sound

\* In every run a command that passes the check of its revisions was decided on lists
\* no older than the tick that read them.
THEOREM AuthorsAreInformed == Spec => []EditsSawTheirTick
  BY InvInit, InvNext, InvGives, PTL DEF Spec

-----------------------------------------------------------------------------
(* Types. *)

Disks == [config : Nat, valid : BOOLEAN, control : Nat]
Daemons == [up : BOOLEAN, music : Nat]
Phases == {"rest", "favorites", "controls", "collect", "closing", "observe", "stopped"}
Readings == Versions \cup {None}
Agents == [phase : Phases, config : Readings, since : Readings, list : Readings, control : Readings]
Collectors == [config : Versions, streams : Versions, probe : Probes]
Seen == [config : Versions, control : Versions, since : Versions, streams : Versions,
         list : Readings, probe : {None}]
Edits == [phase : {"none", "sent", "unknown", "applied"}, seen : Seen \cup {None}, done : BOOLEAN]
Pages == [shown : Views \cup {None}, available : BOOLEAN, waits : Readings, told : BOOLEAN]

WorldTypes == disk \in Disks /\ mpd \in Daemons /\ events \in Versions

\* A command that is under way was counted when it was submitted and writes playback.json
\* once.
Owed == IF edit.phase \in {"sent", "unknown"} /\ ~edit.done THEN 1 ELSE 0
CountInv == disk.config <= events /\ mpd.music <= events /\ disk.control + Owed <= events

\* A tick that goes on has read what it goes on with.
AgentTypes ==
    /\ agent \in Agents /\ job \in {"idle", "busy"}
    /\ collector = None \/ collector \in Collectors
    /\ agent.phase \in {"favorites", "controls", "collect"} => agent.since \in Versions
    /\ agent.phase \in {"controls", "collect"} => agent.list \in Versions
    /\ agent.phase = "collect" => agent.control \in Versions
    /\ Ready => agent.since \in Versions /\ agent.list \in Versions /\ agent.control \in Versions
                /\ collector \in Collectors
RoundTypes ==
    /\ pub \in Snapshots \cup {None}
    /\ web \in Views
    /\ poll \in Snapshots \cup {None}
PageTypes ==
    /\ page \in Pages /\ (page.available => page.shown \in Views)
    /\ edit \in Edits /\ (edit.phase # "none" => edit.seen \in Seen)

Types == WorldTypes /\ CountInv /\ AgentTypes /\ RoundTypes /\ PageTypes

LEMMA TypesInit == Init => Types
<1> SUFFICES ASSUME Init PROVE Types
  OBVIOUS
<1>1. 0 \in Versions /\ None \in Readings
  BY BoundsAssumption DEF Versions, Readings
<1>2. WorldTypes /\ CountInv
  BY <1>1 DEF Init, WorldTypes, CountInv, Disks, Daemons, Owed, NoEdit
<1>3. AgentTypes
  BY <1>1 DEF Init, AgentTypes, Agents, Phases, Resting, Ready
<1>4. RoundTypes
  BY DEF Init, RoundTypes, Views
<1>5. PageTypes
  BY <1>1 DEF Init, PageTypes, Pages, Edits, NoEdit
<1> QED BY <1>2, <1>3, <1>4, <1>5 DEF Types

\* What is read of the files and of MPD is a version.
LEMMA ReadVersions ==
    ASSUME WorldTypes, CountInv
    PROVE  /\ disk.config \in Versions /\ disk.control \in Versions /\ mpd.music \in Versions
           /\ None \in Readings /\ Versions \subseteq Readings
<1>1. /\ disk.config \in Nat /\ disk.control \in Nat /\ mpd.music \in Nat /\ Owed \in 0..1
      /\ events \in 0..MaxEvents
  BY DEF WorldTypes, Disks, Daemons, Owed, Versions
<1> QED BY <1>1, BoundsAssumption DEF CountInv, Versions, Readings

\* How the records of the world change.
LEMMA RecordsChange ==
    /\ \A d \in Disks, v \in BOOLEAN :
         LET e == [d EXCEPT !.config = d.config + 1, !.valid = v]
         IN  e \in Disks /\ e.config = d.config + 1 /\ e.control = d.control
    /\ \A m \in Daemons :
         LET n == [m EXCEPT !.music = m.music + 1]
             u == [m EXCEPT !.up = ~m.up]
         IN  /\ n \in Daemons /\ n.music = m.music + 1
             /\ u \in Daemons /\ u.music = m.music
<1>1. ASSUME NEW d \in Disks, NEW v \in BOOLEAN, NEW n \in Nat
      PROVE  LET e == [d EXCEPT !.config = n, !.valid = v]
             IN  e \in Disks /\ e.config = n /\ e.control = d.control
  BY DEF Disks
<1>2. \A d \in Disks : d.config + 1 \in Nat
  BY DEF Disks
<1>3. ASSUME NEW m \in Daemons, NEW v \in BOOLEAN
      PROVE  LET u == [m EXCEPT !.up = v] IN u \in Daemons /\ u.music = m.music
  BY DEF Daemons
<1>4. ASSUME NEW m \in Daemons, NEW k \in Nat
      PROVE  LET n == [m EXCEPT !.music = k] IN n \in Daemons /\ n.music = k
  BY DEF Daemons
<1>5. \A m \in Daemons : m.music + 1 \in Nat
  BY DEF Daemons
<1>6. \A m \in Daemons : (~m.up) \in BOOLEAN
  OBVIOUS
<1>7. ASSUME NEW d \in Disks, NEW v \in BOOLEAN
      PROVE  LET e == [d EXCEPT !.config = d.config + 1, !.valid = v]
             IN  e \in Disks /\ e.config = d.config + 1 /\ e.control = d.control
  <2> DEFINE n == d.config + 1
  <2>1. n \in Nat
    BY <1>2
  <2> HIDE DEF n
  <2>2. LET e == [d EXCEPT !.config = n, !.valid = v]
        IN  e \in Disks /\ e.config = n /\ e.control = d.control
    BY <1>1, <2>1
  <2> QED BY <2>2 DEF n
<1>8. ASSUME NEW m \in Daemons
      PROVE  LET n == [m EXCEPT !.music = m.music + 1]
                 u == [m EXCEPT !.up = ~m.up]
             IN  /\ n \in Daemons /\ n.music = m.music + 1
                 /\ u \in Daemons /\ u.music = m.music
  <2> DEFINE k == m.music + 1
             v == ~m.up
  <2>1. k \in Nat /\ v \in BOOLEAN
    BY <1>5, <1>6
  <2> HIDE DEF k, v
  <2>2. LET n == [m EXCEPT !.music = k]
            u == [m EXCEPT !.up = v]
        IN  /\ n \in Daemons /\ n.music = k
            /\ u \in Daemons /\ u.music = m.music
    BY <1>3, <1>4, <2>1
  <2> QED BY <2>2 DEF k, v
<1> QED BY <1>7, <1>8

\* Every write and every change at MPD is counted.
LEMMA WorldNext ==
    ASSUME Types, [Next]_vars
    PROVE  WorldTypes' /\ CountInv'
<1> USE BoundsAssumption DEF Types
<1> DEFINE a == disk.config
           b == disk.control
           c == mpd.music
           e == events
           o == Owed
<1>1. /\ a \in Nat /\ b \in Nat /\ c \in Nat /\ e \in Nat /\ e <= MaxEvents /\ o \in 0..1
      /\ a <= e /\ c <= e /\ b + o <= e
  BY DEF WorldTypes, Disks, Daemons, Owed, Versions, CountInv
<1>2. disk \in Disks /\ mpd \in Daemons /\ edit \in Edits
  BY DEF WorldTypes, PageTypes
<1>3. ASSUME disk' \in Disks, mpd' \in Daemons, e' \in Nat, e' <= MaxEvents,
             a' <= e', c' <= e', b' + o' <= e'
      PROVE  WorldTypes' /\ CountInv'
  BY <1>3 DEF WorldTypes, CountInv, Versions
<1>4. UNCHANGED disk => disk' \in Disks /\ a' = a /\ b' = b
  BY <1>2
<1>5. UNCHANGED mpd => mpd' \in Daemons /\ c' = c
  BY <1>2
<1>6. UNCHANGED edit => o' = o
  BY DEF Owed
<1>7. Event => e' \in Nat /\ e' = e + 1 /\ e' <= MaxEvents
  BY <1>1 DEF Event
<1>8. UNCHANGED events => e' = e
  OBVIOUS
<1> HIDE DEF a, b, c, e, o
<1>9. ASSUME UNCHANGED world, o' = o \/ o' = 0, UNCHANGED events \/ Event
      PROVE  WorldTypes' /\ CountInv'
  <2>1. UNCHANGED disk /\ UNCHANGED mpd
    BY <1>9 DEF world
  <2> QED BY <1>1, <1>3, <1>4, <1>5, <1>7, <1>8, <1>9, <2>1
<1>10. CASE AdminEdits
  <2>1. disk' \in Disks /\ a' = a + 1 /\ b' = b
    <3>1. PICK valid \in BOOLEAN : disk' = [disk EXCEPT !.config = disk.config + 1, !.valid = valid]
      BY <1>10 DEF AdminEdits
    <3>2. disk' \in Disks /\ disk'.config = disk.config + 1 /\ disk'.control = disk.control
      BY <1>2, <3>1, RecordsChange
    <3> QED BY <3>2 DEF a, b
  <2>2. UNCHANGED mpd /\ o' = o /\ Event
    BY <1>6, <1>10 DEF AdminEdits, browser
  <2> QED BY <1>1, <1>3, <1>5, <1>7, <2>1, <2>2
<1>11. ASSUME disk' = [disk EXCEPT !.control = @ + 1], UNCHANGED mpd,
              \/ Event /\ o' <= o /\ o' \in 0..1
              \/ UNCHANGED events /\ o = 1 /\ o' = 0
       PROVE  WorldTypes' /\ CountInv'
  <2>1. disk' \in Disks /\ a' = a /\ b' = b + 1
    BY <1>2, <1>11 DEF Disks, a, b
  <2>2. b' + o' <= e' /\ a' <= e' /\ c' <= e' /\ e' \in Nat /\ e' <= MaxEvents
    BY <1>1, <1>5, <1>7, <1>8, <1>11, <2>1
  <2> QED BY <1>3, <1>5, <1>11, <2>1, <2>2
<1>12. CASE OthersWrite
  <2>1. o' = o
    BY <1>6, <1>12 DEF OthersWrite, browser
  <2>2. /\ disk' = [disk EXCEPT !.control = @ + 1] /\ UNCHANGED mpd /\ Event
    BY <1>12 DEF OthersWrite
  <2>3. o' <= o /\ o' \in 0..1
    BY <1>1, <2>1
  <2> QED BY <1>11, <2>2, <2>3
<1>13. CASE MusicChanges
  <2>1. mpd' \in Daemons /\ (c' = c \/ c' = c + 1)
    <3>1. mpd' = [mpd EXCEPT !.music = mpd.music + 1] \/ mpd' = [mpd EXCEPT !.up = ~mpd.up]
      BY <1>13 DEF MusicChanges
    <3>2. mpd' \in Daemons /\ (mpd'.music = mpd.music \/ mpd'.music = mpd.music + 1)
      BY <1>2, <3>1, RecordsChange
    <3> QED BY <3>2 DEF c
  <2>2. UNCHANGED disk /\ o' = o /\ Event
    BY <1>6, <1>13 DEF MusicChanges, browser
  <2> QED BY <1>1, <1>3, <1>4, <1>7, <2>1, <2>2
<1>14. CASE Submit
  <2>1. o = 0 /\ o' = 1
    BY <1>14 DEF Submit, Owed, o
  <2>2. UNCHANGED disk /\ UNCHANGED mpd /\ Event
    BY <1>14 DEF Submit, world
  <2> QED BY <1>1, <1>3, <1>4, <1>5, <1>7, <2>1, <2>2
<1>15. CASE Arrive
  <2>1. edit.phase = "sent" /\ UNCHANGED mpd
    BY <1>15 DEF Arrive
  <2>2. CASE Unknown /\ UNCHANGED events
    <3>1. o' = o
      BY <1>2, <2>1, <2>2 DEF Unknown, Owed, Edits, o
    <3> QED BY <1>9, <2>1, <2>2, <3>1 DEF Unknown, world
  <2>3. CASE Execute
    <3>1. o' = 0
      BY <1>2, <2>3 DEF Execute, Owed, Edits, o
    <3>2. CASE edit.done
      BY <1>9, <2>1, <2>3, <3>1, <3>2 DEF Execute, world
    <3>3. CASE ~edit.done
      <4>1. o = 1
        BY <2>1, <3>3 DEF Owed, o
      <4> QED BY <1>11, <2>1, <2>3, <3>1, <3>3, <4>1 DEF Execute
    <3> QED BY <3>2, <3>3
  <2>4. CASE LoseAnswer
    <3>1. o' = 0
      BY <1>2, <2>4 DEF LoseAnswer, Owed, Edits, o
    <3>2. Event /\ disk' = [disk EXCEPT !.control = @ + 1]
      BY <2>4 DEF LoseAnswer
    <3>3. o' <= o /\ o' \in 0..1
      BY <1>1, <3>1
    <3> QED BY <1>11, <2>1, <3>2, <3>3
  <2>5. CASE Refuse
    <3>1. o' = 0
      BY <2>5 DEF Refuse, Owed, NoEdit, o
    <3> QED BY <1>9, <2>1, <2>5, <3>1 DEF Refuse, world
  <2> QED BY <1>15, <2>2, <2>3, <2>4, <2>5 DEF Arrive
<1>16. CASE LoseRequest
  <2>1. o' = o
    BY <1>2, <1>16 DEF LoseRequest, Unknown, Owed, Edits, o
  <2> QED BY <1>9, <1>16, <2>1 DEF LoseRequest, Unknown, world
<1>17. CASE Retry
  <2>1. o' = o
    BY <1>2, <1>17 DEF Retry, Owed, Edits, o
  <2> QED BY <1>9, <1>17, <2>1 DEF Retry
<1>18. CASE Confirmed
  <2>1. o' = 0
    BY <1>18 DEF Confirmed, Owed, NoEdit, o
  <2> QED BY <1>9, <1>18, <2>1 DEF Confirmed
<1>19. CASE Restart \/ ObserverStops \/ PollFails \/ FetchFails
  BY <1>6, <1>9, <1>19 DEF Restart, ObserverStops, PollFails, FetchFails, browser
<1>20. CASE Tick \/ (\E due \in BOOLEAN : Observe(due)) \/ FinishJob
  BY <1>6, <1>9, <1>20 DEF Tick, ReadStreams, ReadFavorites, ReadControls, Reads, KeepCollector,
    ReplaceCollector, Closed, Observe, FinishJob, browser
<1>21. CASE Round \/ Fetch
  BY <1>6, <1>9, <1>21 DEF Round, PollOutputs, PollFavorites, Fetch
<1>22. CASE UNCHANGED vars
  BY <1>6, <1>9, <1>22 DEF vars, world
<1> QED
  BY <1>10, <1>12, <1>13, <1>14, <1>15, <1>16, <1>17, <1>18, <1>19, <1>20, <1>21, <1>22
     DEF Next, World, Command

\* What a tick that goes on has read lets it go on.
LEMMA AgentTypesNext ==
    ASSUME Types, [Next]_vars
    PROVE  AgentTypes'
<1> USE DEF Types
<1>0. /\ disk.config \in Versions /\ disk.control \in Versions /\ mpd.music \in Versions
      /\ None \in Readings /\ Versions \subseteq Readings
      /\ agent \in Agents /\ job \in {"idle", "busy"}
      /\ collector = None \/ collector \in Collectors
  BY ReadVersions DEF AgentTypes
<1>1. ASSUME UNCHANGED <<agent, collector, job>> PROVE AgentTypes'
  BY <1>1 DEF AgentTypes, Ready
<1>2. ASSUME collector' = None, agent' = Resting \/ (\E p \in {"rest", "closing"} : agent' = [Resting EXCEPT !.phase = p]),
             job' \in {"idle", "busy"}
      PROVE  AgentTypes'
  <2>1. agent' \in Agents /\ agent'.phase \in {"rest", "closing"}
    BY <1>0, <1>2 DEF Resting, Agents, Phases
  <2> QED BY <1>2, <2>1 DEF AgentTypes, Ready
<1>3. ASSUME Withdraw, UNCHANGED job PROVE AgentTypes'
  BY <1>0, <1>2, <1>3 DEF Withdraw
<1>4. CASE Restart
  BY <1>2, <1>4 DEF Restart
<1>5. CASE ObserverStops
  <2>1. agent' \in Agents /\ agent'.phase = "stopped" /\ UNCHANGED <<collector, job>>
    BY <1>0, <1>5 DEF ObserverStops, Agents, Phases
  <2> QED BY <1>0, <2>1 DEF AgentTypes, Ready
<1>6. CASE ReadStreams
  <2>1. CASE agent' = [agent EXCEPT !.phase = "favorites", !.since = disk.control] /\ UNCHANGED <<collector, job>>
    <3>1. agent' \in Agents /\ agent'.phase = "favorites" /\ agent'.since = disk.control
      BY <1>0, <2>1 DEF Agents, Phases
    <3> QED BY <1>0, <2>1, <3>1 DEF AgentTypes, Ready
  <2> QED BY <1>3, <1>6, <2>1 DEF ReadStreams, Reads
<1>7. CASE ReadFavorites
  <2>1. CASE agent' = [agent EXCEPT !.phase = "controls", !.list = disk.control] /\ UNCHANGED <<collector, job>>
    <3>1. /\ agent' \in Agents /\ agent'.phase = "controls" /\ agent'.list = disk.control
          /\ agent'.since = agent.since
      BY <1>0, <2>1 DEF Agents, Phases
    <3> QED BY <1>0, <1>7, <2>1, <3>1 DEF AgentTypes, Ready, ReadFavorites, Reads
  <2> QED BY <1>3, <1>7, <2>1 DEF ReadFavorites, Reads
<1>8. CASE ReadControls
  <2>1. CASE /\ agent' = [agent EXCEPT !.phase = "collect", !.config = disk.config, !.control = disk.control]
             /\ UNCHANGED <<collector, job>>
    <3>1. /\ agent' \in Agents /\ agent'.phase = "collect" /\ agent'.control = disk.control
          /\ agent'.since = agent.since /\ agent'.list = agent.list
      BY <1>0, <2>1 DEF Agents, Phases
    <3> QED BY <1>0, <1>8, <2>1, <3>1 DEF AgentTypes, Ready, ReadControls, Reads
  <2> QED BY <1>3, <1>8, <2>1 DEF ReadControls, Reads
<1>9. ASSUME agent.phase = "collect", collector' \in Collectors, UNCHANGED job,
             NEW p \in {"observe", "closing"}, agent' = [agent EXCEPT !.phase = p]
      PROVE  AgentTypes'
  <2>1. /\ agent' \in Agents /\ agent'.phase = p /\ agent'.since = agent.since
        /\ agent'.list = agent.list /\ agent'.control = agent.control
    BY <1>0, <1>9 DEF Agents, Phases
  <2> QED BY <1>0, <1>9, <2>1 DEF AgentTypes
<1>10. CASE KeepCollector
  <2>1. agent.phase = "collect" /\ agent.since \in Versions /\ collector \in Collectors
    BY <1>0, <1>10 DEF KeepCollector, SameConfiguration, AgentTypes
  <2>2. collector' \in Collectors
    BY <1>10, <2>1 DEF KeepCollector, Collectors
  <2> QED BY <1>9, <1>10, <2>1, <2>2 DEF KeepCollector
<1>11. CASE ReplaceCollector
  <2>1. CASE disk.valid
    <3>1. NewCollector \in Collectors
      BY <1>0 DEF NewCollector, Collectors, Probes, Pending
    <3>2. collector' \in Collectors /\ agent.phase = "collect" /\ UNCHANGED job
      BY <1>11, <2>1, <3>1 DEF ReplaceCollector
    <3>3. \E p \in {"observe", "closing"} : agent' = [agent EXCEPT !.phase = p]
      BY <1>11, <2>1 DEF ReplaceCollector
    <3> QED BY <1>9, <3>2, <3>3
  <2> QED BY <1>3, <1>11, <2>1 DEF ReplaceCollector
<1>12. CASE Closed
  <2>1. /\ agent.phase = "closing" /\ UNCHANGED <<collector, job>>
        /\ agent' = [agent EXCEPT !.phase = IF collector = None THEN "rest" ELSE "observe"]
    BY <1>12 DEF Closed
  <2>2. /\ agent' \in Agents /\ agent'.since = agent.since /\ agent'.list = agent.list
        /\ agent'.control = agent.control
        /\ agent'.phase = IF collector = None THEN "rest" ELSE "observe"
    BY <1>0, <2>1 DEF Agents, Phases
  <2>3. CASE collector = None
    BY <1>0, <2>1, <2>2, <2>3 DEF AgentTypes, Ready
  <2>4. CASE collector # None
    BY <1>0, <2>1, <2>2, <2>4 DEF AgentTypes, Ready
  <2> QED BY <2>3, <2>4
<1>13. CASE \E due \in BOOLEAN : Observe(due)
  <2>1. Ready /\ UNCHANGED collector /\ job' \in {"idle", "busy"} /\ collector # None
        /\ agent' = [agent EXCEPT !.phase = "rest"]
    BY <1>0, <1>13 DEF Observe, Ready, Started
  <2>2. /\ agent' \in Agents /\ agent'.since = agent.since /\ agent'.list = agent.list
        /\ agent'.control = agent.control /\ agent'.phase = "rest"
    BY <1>0, <2>1 DEF Agents, Phases
  <2> QED BY <1>0, <2>1, <2>2 DEF AgentTypes
<1>14. CASE FinishJob
  <2>1. job' = "idle" /\ UNCHANGED agent
    BY <1>14 DEF FinishJob
  <2>2. CASE collector' = collector
    BY <2>1, <2>2 DEF AgentTypes, Ready
  <2>3. CASE collector # None /\ collector' = [collector EXCEPT !.probe = ReadPlayback(@)]
    <3>1. \A v \in Versions : Succeeded(v) \in Probes
      BY DEF Succeeded, Probes
    <3>2. \A p \in Probes : Failed(p) \in Probes
      BY DEF Failed, Probes
    <3>3. collector' \in Collectors
      BY <1>0, <2>3, <3>1, <3>2 DEF Collectors, ReadPlayback
    <3> QED BY <2>1, <2>3, <3>3 DEF AgentTypes, Ready
  <2> QED BY <1>14, <2>2, <2>3 DEF FinishJob
<1>15. CASE AdminEdits \/ OthersWrite \/ MusicChanges \/ Command
  BY <1>1, <1>15 DEF AdminEdits, OthersWrite, MusicChanges, Command, Arrive, Confirmed, observer
<1>16. CASE Round \/ PollFails \/ Fetch \/ FetchFails \/ Submit \/ LoseRequest \/ Retry
  BY <1>1, <1>16 DEF Round, PollOutputs, PollFavorites, PollFails, Fetch, FetchFails, Submit,
    LoseRequest, Retry, observer
<1>17. CASE UNCHANGED vars
  BY <1>1, <1>17 DEF vars
<1> QED
  BY <1>4, <1>5, <1>6, <1>7, <1>8, <1>10, <1>11, <1>12, <1>13, <1>14, <1>15, <1>16, <1>17
     DEF Next, World, Tick

\* Publications, rounds and the poller's view have their types.
LEMMA RoundTypesNext ==
    ASSUME Types, [Next]_vars
    PROVE  RoundTypes'
<1> USE DEF Types
<1>0. pub \in Snapshots \cup {None} /\ web \in Views /\ poll \in Snapshots \cup {None}
  BY DEF RoundTypes
<1>1. ASSUME pub' \in Snapshots \cup {None}, UNCHANGED <<web, poll>> PROVE RoundTypes'
  BY <1>0, <1>1 DEF RoundTypes
<1>2. ASSUME NEW code \in {"http", "unreachable", "invalid"}, Errs(code) PROVE web' \in Views
  <2>1. web.snapshot \in Snapshots \cup {None}
    BY <1>0 DEF Views
  <2>2. web' = [status |-> "unavailable", code |-> code, snapshot |-> web.snapshot]
    BY <1>0, <1>2 DEF Errs, Views
  <2> QED BY <2>1, <2>2 DEF Views
<1>3. ASSUME NEW c \in Collectors, agent.since \in Versions, agent.list \in Versions,
             agent.control \in Versions
      PROVE  Published(c) \in Snapshots
  BY <1>3 DEF Published, Snapshot, Snapshots, Collectors
<1>4. CASE PollOutputs
  <2>1. CASE pub = None
    BY <1>0, <1>2, <1>4, <2>1 DEF PollOutputs, Inventory, EndRound, observer, RoundTypes
  <2>2. CASE pub # None
    BY <1>0, <1>4, <2>2 DEF PollOutputs, Inventory, observer, RoundTypes
  <2> QED BY <2>1, <2>2
<1>5. CASE PollFavorites
  <2>1. poll \in Snapshots /\ Favorites \in Readings
    BY <1>0, <1>5 DEF PollFavorites, Favorites, Snapshots, Readings
  <2>2. [poll EXCEPT !.list = Favorites] \in Snapshots
    BY <2>1 DEF Snapshots, Readings
  <2>3. web' \in Views
    BY <1>5, <2>2 DEF PollFavorites, Accepts, Views
  <2> QED BY <1>0, <1>5, <2>3 DEF PollFavorites, EndRound, observer, RoundTypes
<1>6. CASE PollFails
  <2>1. web' \in Views
    BY <1>2, <1>6 DEF PollFails, Unreachable, Invalid
  <2> QED BY <1>0, <1>6, <2>1 DEF PollFails, EndRound, observer, RoundTypes
<1>7. CASE World
  BY <1>0, <1>1, <1>7 DEF World, AdminEdits, OthersWrite, MusicChanges, Restart, ObserverStops, observer
<1>8. CASE ReadStreams \/ ReadFavorites \/ ReadControls \/ KeepCollector \/ Closed \/ FinishJob
  BY <1>0, <1>1, <1>8 DEF ReadStreams, ReadFavorites, ReadControls, Reads, Withdraw, KeepCollector,
    Closed, FinishJob
<1>9. CASE ReplaceCollector
  <2>1. CASE disk.valid
    <3>1. /\ agent.phase = "collect" /\ UNCHANGED <<web, poll>>
          /\ collector' = NewCollector /\ pub' = Published(collector')
      BY <1>9, <2>1 DEF ReplaceCollector
    <3>2. NewCollector \in Collectors
      BY ReadVersions DEF NewCollector, Collectors, Probes, Pending
    <3>3. pub' \in Snapshots
      BY <1>3, <3>1, <3>2 DEF AgentTypes
    <3> QED BY <1>1, <3>1, <3>3
  <2> QED BY <1>0, <1>1, <1>9, <2>1 DEF ReplaceCollector, Withdraw
<1>10. CASE \E due \in BOOLEAN : Observe(due)
  <2>1. Ready /\ pub' = Published(collector) /\ UNCHANGED <<web, poll>>
    BY <1>10 DEF Observe, Ready
  <2>2. pub' \in Snapshots
    BY <1>3, <2>1 DEF AgentTypes
  <2> QED BY <1>1, <2>1, <2>2
<1>11. CASE Fetch \/ FetchFails \/ Submit \/ LoseRequest \/ Retry \/ Command
  BY <1>0, <1>1, <1>11 DEF Fetch, FetchFails, Submit, LoseRequest, Retry, Command, Arrive, Confirmed, observer
<1>12. CASE UNCHANGED vars
  BY <1>0, <1>1, <1>12 DEF vars
<1> QED
  BY <1>4, <1>5, <1>6, <1>7, <1>8, <1>9, <1>10, <1>11, <1>12 DEF Next, Round, Tick

\* What the page shows and submits has its type.
LEMMA PageTypesNext ==
    ASSUME Types, [Next]_vars
    PROVE  PageTypes'
<1> USE DEF Types
<1> DEFINE ShownTypes == page \in Pages /\ (page.available => page.shown \in Views)
           EditTypes == edit \in Edits /\ (edit.phase # "none" => edit.seen \in Seen)
<1>0. ShownTypes /\ EditTypes /\ web \in Views
  BY DEF PageTypes, RoundTypes
<1>1. ASSUME ShownTypes', EditTypes' PROVE PageTypes'
  BY <1>1 DEF PageTypes
<1>2. UNCHANGED page => ShownTypes'
  BY <1>0
<1>3. UNCHANGED edit => EditTypes'
  BY <1>0
<1>4. EndRound => ShownTypes'
  <2>1. ASSUME page' = [page EXCEPT !.told = TRUE] PROVE ShownTypes'
    BY <1>0, <2>1 DEF Pages
  <2> QED BY <1>2, <2>1 DEF EndRound
<1>5. \A s \in Views : s.status = "ok" => s.snapshot \in Snapshots
  BY DEF Views
<1>6. CASE Fetch
  <2>1. Waits(Answer) \in Readings
    <3>1. page.waits \in Readings /\ None \in Readings
      BY <1>0, ReadVersions DEF Pages
    <3> QED BY <3>1 DEF Waits
  <2>2. page' = [page EXCEPT !.told = FALSE, !.shown = web, !.available = TRUE, !.waits = Waits(Answer)]
    BY <1>6 DEF Fetch, Answer
  <2>3. ShownTypes'
    BY <1>0, <2>1, <2>2 DEF Pages
  <2> QED BY <1>1, <1>3, <1>6, <2>3 DEF Fetch
<1>7. CASE FetchFails
  <2>1. ShownTypes'
    BY <1>0, <1>7 DEF FetchFails, Pages
  <2> QED BY <1>1, <1>3, <1>7, <2>1 DEF FetchFails
<1>8. CASE Submit
  <2>1. page.shown.snapshot \in Snapshots
    BY <1>0, <1>5, <1>8 DEF Submit, CanWrite
  <2>2. [page.shown.snapshot EXCEPT !.probe = None] \in Seen
    BY <2>1 DEF Seen, Snapshots, Readings
  <2>3. EditTypes'
    BY <1>8, <2>2 DEF Submit, Edits
  <2> QED BY <1>1, <1>2, <1>8, <2>3 DEF Submit
<1>9. ASSUME edit.phase # "none", NEW p \in {"sent", "unknown", "applied"}, NEW done \in BOOLEAN,
             edit' = [edit EXCEPT !.phase = p, !.done = done] \/ edit' = [edit EXCEPT !.phase = p]
      PROVE  EditTypes'
  BY <1>0, <1>9 DEF Edits
<1>10. edit' = NoEdit => EditTypes'
  BY DEF NoEdit, Edits
<1>11. CASE Arrive
  <2>1. edit.phase = "sent" /\ UNCHANGED page
    BY <1>11 DEF Arrive
  <2>2. ASSUME Unknown \/ Execute \/ LoseAnswer PROVE EditTypes'
    BY <1>9, <2>1, <2>2 DEF Unknown, Execute, LoseAnswer
  <2>3. EditTypes'
    BY <1>10, <1>11, <2>2 DEF Arrive, Refuse
  <2> QED BY <1>1, <1>2, <2>1, <2>3
<1>12. CASE LoseRequest \/ Retry
  <2>1. EditTypes'
    BY <1>9, <1>12 DEF LoseRequest, Retry, Unknown
  <2> QED BY <1>1, <1>2, <1>12, <2>1 DEF LoseRequest, Retry
<1>13. CASE Confirmed
  <2>1. edit.phase = "applied" /\ edit' = NoEdit
    BY <1>13 DEF Confirmed
  <2>2. edit.seen.control \in Readings
    BY <1>0, <2>1 DEF Seen, Readings
  <2>3. ASSUME page' = [page EXCEPT !.waits = edit.seen.control] PROVE ShownTypes'
    BY <1>0, <2>2, <2>3 DEF Pages
  <2>4. ShownTypes'
    BY <1>2, <1>13, <2>3 DEF Confirmed
  <2> QED BY <1>1, <1>10, <2>1, <2>4
<1>14. CASE Round
  BY <1>1, <1>2, <1>3, <1>4, <1>14 DEF Round, PollOutputs, PollFavorites
<1>15. CASE PollFails
  BY <1>1, <1>3, <1>4, <1>15 DEF PollFails
<1>16. CASE World \/ Tick \/ (\E due \in BOOLEAN : Observe(due)) \/ FinishJob
  BY <1>1, <1>2, <1>3, <1>16 DEF World, AdminEdits, OthersWrite, MusicChanges, Restart, ObserverStops, Tick,
    ReadStreams, ReadFavorites, ReadControls, Reads, KeepCollector, ReplaceCollector, Closed,
    Observe, FinishJob, browser
<1>17. CASE UNCHANGED vars
  BY <1>1, <1>2, <1>3, <1>17 DEF vars
<1> QED
  BY <1>6, <1>7, <1>8, <1>11, <1>12, <1>13, <1>14, <1>15, <1>16, <1>17 DEF Next, Command

\* In every run what is published, polled, shown and submitted has the form its reader
\* expects: a publication names versions there have been, a poller that is well has a
\* snapshot and no error, and a command was decided on revisions that were shown.
THEOREM TypeCorrect == Spec => []TypeOK
<1>1. Types /\ [Next]_vars => Types'
  BY WorldNext, AgentTypesNext, RoundTypesNext, PageTypesNext DEF Types
<1>2. Types => TypeOK
  <2> SUFFICES ASSUME Types PROVE TypeOK
    OBVIOUS
  <2>1. disk \in [config : Versions, valid : BOOLEAN, control : Versions]
    BY ReadVersions DEF Types, WorldTypes, Disks
  <2>2. edit.seen = None \/ edit.seen.control \in Versions
    BY DEF Types, PageTypes, Edits, Seen
  <2>3. edit.phase \in {"none", "sent", "unknown", "applied"}
    BY DEF Types, PageTypes, Edits
  <2>4. page.shown \in Views \cup {None} /\ page.waits \in Versions \cup {None}
    BY DEF Types, PageTypes, Pages, Readings
  <2>5. /\ agent.phase \in {"rest", "favorites", "controls", "collect", "closing", "observe", "stopped"}
        /\ job \in {"idle", "busy"}
        /\ collector = None \/ collector.probe \in Probes
    BY DEF Types, AgentTypes, Agents, Phases, Collectors
  <2> QED BY <2>1, <2>2, <2>3, <2>4, <2>5 DEF Types, RoundTypes, TypeOK
<1> QED BY TypesInit, <1>1, <1>2, PTL DEF Spec

=============================================================================
