-------------------------- MODULE RoomsSyncProofs --------------------------
(***************************************************************************)
(* Proofs about RoomsSync for any number of commands and changes, silent   *)
(* changes and restarts of the server.                                     *)
(***************************************************************************)
EXTENDS RoomsSync, FiniteSetTheorems, SequenceTheorems, TLAPS

\* What of TypeOK the proofs need; revisions are any numbers here.
Pcs == {"new", "sent", "busy", "stored", "published", "bumped", "answered", "failed",
        "broken", "done"}
JobRecords == [pc : Pcs, answer : Snapshots, told : Nat]
Servers == [epoch : Nat, revision : Nat, payload : Nat, holder : Jobs \cup {Nobody}]
Fetches == [phase : {"none", "sent", "answered", "broken"}, at : Nat, answer : Snapshots]

TypeInv ==
    /\ log \in Seq(Jobs \cup {Nobody}) /\ log # <<>>
    /\ server \in Servers /\ server.payload <= Truth
    /\ job \in [Jobs -> JobRecords]
    /\ stream.notes \subseteq Snapshots /\ DOMAIN stream = {"open", "notes"}
    /\ fetch \in Fetches
    /\ updates \in Nat
    /\ DOMAIN view = {"epoch", "revision", "payload", "shown"}
    /\ view.epoch \in Nat /\ view.revision \in Nat /\ view.payload \in Nat

\* How the kinds of jobs are related.
LEMMA Kinds == Nobody \notin Jobs /\ ZoneUpdates \subseteq Jobs /\ Commands \subseteq Jobs
  BY JobsAssumption DEF Jobs, Commands

\* The initial state is well typed.
LEMMA TypeInit == Init => TypeInv
<1> SUFFICES ASSUME Init PROVE TypeInv
  OBVIOUS
<1>1. log \in Seq(Jobs \cup {Nobody}) /\ Len(log) = 1
  BY DEF Init
<1> QED
  BY <1>1 DEF Init, TypeInv, Pcs, JobRecords, Servers, Fetches, Snapshots, NoSnapshot, NewJob,
    Showing, Truth

\* How records of the three kinds keep their type when they are changed.
LEMMA JobTypes ==
    ASSUME NEW r \in JobRecords
    PROVE  /\ \A pc \in Pcs : [r EXCEPT !.pc = pc] \in JobRecords
           /\ \A pc \in Pcs, n \in Nat : [r EXCEPT !.pc = pc, !.told = n] \in JobRecords
           /\ \A pc \in Pcs, s \in Snapshots : [r EXCEPT !.pc = pc, !.answer = s] \in JobRecords
           /\ \A pc \in Pcs : [NewJob EXCEPT !.pc = pc] \in JobRecords
           /\ r.answer \in Snapshots /\ r.told \in Nat /\ r.pc \in Pcs
  BY DEF JobRecords, NewJob, NoSnapshot, Snapshots

LEMMA ServerTypes ==
    ASSUME NEW s \in Servers
    PROVE  /\ s.epoch \in Nat /\ s.revision \in Nat /\ s.payload \in Nat
           /\ [epoch |-> s.epoch, revision |-> s.revision, payload |-> s.payload] \in Snapshots
           /\ \A h \in Jobs \cup {Nobody} : [s EXCEPT !.holder = h] \in Servers
           /\ \A n \in Nat, p \in Nat :
                [s EXCEPT !.revision = n, !.payload = p] \in Servers
           /\ \A n \in Nat : [s EXCEPT !.revision = n] \in Servers
  BY DEF Servers, Snapshots

LEMMA FetchTypes ==
    ASSUME TypeInv, updates' \in Nat, FetchState \/ EndFetch
    PROVE  fetch' \in Fetches
<1>1. [phase |-> "sent", at |-> updates', answer |-> NoSnapshot] \in Fetches
  BY DEF Fetches, NoSnapshot, Snapshots
<1>2. [fetch EXCEPT !.phase = "none", !.answer = NoSnapshot, !.at = 0] \in Fetches
  BY DEF TypeInv, Fetches, NoSnapshot, Snapshots
<1> QED BY <1>1, <1>2 DEF TypeInv, FetchState, EndFetch, NewFetch

\* A snapshot the page takes leaves it with one of the right type.
LEMMA ViewTypes ==
    ASSUME TypeInv, NEW s \in Snapshots
    PROVE  /\ DOMAIN Apply(s) = {"epoch", "revision", "payload", "shown"}
           /\ Apply(s).epoch \in Nat /\ Apply(s).revision \in Nat /\ Apply(s).payload \in Nat
  BY DEF TypeInv, Apply, Showing, Snapshots

\* Publishing keeps or raises the revision and shows the present state.
LEMMA Publishing ==
    ASSUME TypeInv
    PROVE  /\ Truth \in Nat /\ Publish(Truth) \in Servers
           /\ Publish(Truth).payload = Truth /\ Publish(Truth).epoch = server.epoch
           /\ Publish(Truth).revision =
                IF Truth # server.payload THEN server.revision + 1 ELSE server.revision
<1>1. Truth \in Nat /\ RevisionOf(Truth) \in Nat
  BY DEF TypeInv, Servers, RevisionOf, Truth
<1>2. Publish(Truth) \in Servers
  BY <1>1, ServerTypes DEF TypeInv, Publish
<1> QED BY <1>1, <1>2 DEF TypeInv, Publish, RevisionOf, Servers

\* Every step leaves every variable in its type.
LEMMA TypeNext == TypeInv /\ [Next]_vars => TypeInv'
<1> SUFFICES ASSUME TypeInv, [Next]_vars PROVE TypeInv'
  OBVIOUS
<1> USE Kinds DEF TypeInv
<1>1. Truth \in Nat
  BY DEF Truth
<1>2. NoSnapshot \in Snapshots /\ NewJob \in JobRecords
  BY DEF NoSnapshot, Snapshots, NewJob, JobRecords, Pcs
<1>3. Publish(Truth) \in Servers /\ \A h \in Jobs \cup {Nobody} :
        /\ [Publish(Truth) EXCEPT !.holder = h] \in Servers
        /\ [Publish(Truth) EXCEPT !.holder = h].payload = Truth
  BY Publishing, ServerTypes DEF Servers
<1>4. \A h \in Jobs \cup {Nobody} :
        [server EXCEPT !.holder = h] \in Servers /\ [server EXCEPT !.holder = h].payload = server.payload
  BY ServerTypes DEF Servers
<1>5. ASSUME NEW j \in Jobs, ServerStep(j) PROVE TypeInv'
  <2>1. Note(j) \in Snapshots
    BY JobTypes, ServerTypes DEF Note, Snapshots
  <2>2. CASE Start(j)
    <3>1. job' \in [Jobs -> JobRecords]
      BY <2>2, JobTypes DEF Start, Goto, Pcs
    <3> QED BY <2>2, <3>1, <1>4 DEF Start, pageVars, Truth
  <2>3. CASE Store(j)
    <3>1. log' \in Seq(Jobs \cup {Nobody}) /\ Truth' = Truth + 1 /\ log' # <<>>
      BY <2>3 DEF Store, Truth
    <3>2. job' \in [Jobs -> JobRecords]
      BY <2>3, JobTypes DEF Store, Goto, Pcs
    <3>3. server'.payload <= Truth'
      BY <2>3, <3>1, <1>1 DEF Store, Servers
    <3> QED BY <2>3, <3>1, <3>2, <3>3 DEF Store, pageVars
  <2>4. CASE PublishStored(j)
    <3>1. [epoch |-> Publish(Truth).epoch, revision |-> Publish(Truth).revision,
           payload |-> Publish(Truth).payload] \in Snapshots
      BY <1>3, ServerTypes
    <3>2. job' \in [Jobs -> JobRecords]
      BY <2>4, <3>1, JobTypes DEF PublishStored, Pcs
    <3> QED BY <2>4, <3>2, <1>1, <1>3 DEF PublishStored, pageVars, Truth
  <2>5. CASE NothingNew(j)
    <3>1. job' \in [Jobs -> JobRecords]
      BY <2>5, JobTypes DEF NothingNew, Finish, Pcs
    <3> QED BY <2>5, <3>1, <1>1, <1>3 DEF NothingNew, pageVars, Truth
  <2>6. CASE Fail(j)
    <3>1. job' \in [Jobs -> JobRecords]
      BY <2>6, JobTypes DEF Fail, Goto, Pcs
    <3> QED BY <2>6, <3>1, <1>4 DEF Fail, pageVars, Truth
  <2>7. CASE Bump(j)
    <3>1. server.revision + 1 \in Nat /\ server' \in Servers /\ server'.payload = server.payload
      <4>1. server.revision + 1 \in Nat
        BY DEF Servers
      <4>2. server' = [server EXCEPT !.revision = server.revision + 1]
        BY <2>7 DEF Bump
      <4> QED BY <4>1, <4>2 DEF Servers
    <3>2. job' \in [Jobs -> JobRecords]
      BY <2>7, <3>1, JobTypes DEF Bump, Pcs
    <3> QED BY <2>7, <3>1, <3>2 DEF Bump, pageVars, Truth
  <2>8. CASE Broadcast(j)
    <3>1. job' \in [Jobs -> JobRecords]
      <4>1. CASE job' = [job EXCEPT ![j].pc = "answered", ![j].told = 0]
        BY <4>1, JobTypes DEF Pcs
      <4>2. CASE job' = [job EXCEPT ![j] = [NewJob EXCEPT !.pc = "done"]]
        BY <4>2, JobTypes DEF Pcs
      <4> QED BY <2>8, <4>1, <4>2 DEF Broadcast, Finish
    <3>2. stream'.notes \subseteq Snapshots /\ DOMAIN stream' = {"open", "notes"}
      BY <2>8, <2>1 DEF Broadcast
    <3> QED BY <2>8, <3>1, <3>2 DEF Broadcast, Truth
  <2> QED BY <1>5, <2>2, <2>3, <2>4, <2>5, <2>6, <2>7, <2>8 DEF ServerStep
<1>9. ASSUME NEW j \in Jobs, PageStep(j) PROVE TypeInv'
  <2>1. \A pc \in Pcs : /\ [job EXCEPT ![j].pc = pc] \in [Jobs -> JobRecords]
                        /\ [job EXCEPT ![j] = [NewJob EXCEPT !.pc = pc]] \in [Jobs -> JobRecords]
    BY JobTypes, <1>2
  <2>2. "sent" \in Pcs /\ "done" \in Pcs /\ job[j].answer \in Snapshots
    BY JobTypes DEF Pcs
  <2>3. CASE UpdateZone(j)
    <3>1. /\ DOMAIN view' = {"epoch", "revision", "payload", "shown"}
          /\ view'.epoch \in Nat /\ view'.revision \in Nat /\ view'.payload \in Nat
      BY <2>3 DEF UpdateZone
    <3>2. updates' \in Nat
      BY <2>3 DEF UpdateZone
    <3>3. job' \in [Jobs -> JobRecords]
      BY <2>1, <2>2, <2>3 DEF UpdateZone, Goto
    <3> QED BY <2>3, <3>1, <3>2, <3>3 DEF UpdateZone, Truth
  <2>4. CASE SendShared(j)
    BY <2>1, <2>2, <2>4 DEF SendShared, Goto, pageVars, Truth
  <2>5. CASE TakeAnswer(j)
    <3>1. updates' \in Nat
      BY <2>5 DEF TakeAnswer, Settle
    <3> QED BY <2>1, <2>2, <2>5, <3>1, ViewTypes DEF TakeAnswer, Finish, Truth
  <2>6. CASE TakeError(j)
    <3>1. updates' \in Nat
      BY <2>6 DEF TakeError, Settle
    <3> QED BY <2>1, <2>2, <2>6, <3>1, FetchTypes DEF TakeError, Finish, Truth
  <2>7. CASE RequestBreaks(j)
    <3>1. updates' \in Nat
      BY <2>7 DEF RequestBreaks, Settle
    <3> QED BY <2>1, <2>2, <2>7, <3>1 DEF RequestBreaks, Finish, Truth
  <2> QED BY <1>9, <2>3, <2>4, <2>5, <2>6, <2>7 DEF PageStep
<1>10. CASE AnswerFetch
  <2>1. server' \in Servers /\ server'.payload <= Truth
    BY <1>10, Publishing DEF AnswerFetch
  <2>2. fetch' \in Fetches
    BY <1>10, Publishing, ServerTypes DEF AnswerFetch, Fetches
  <2> QED BY <1>10, <2>1, <2>2 DEF AnswerFetch, Truth
<1>11. CASE TakeFetch
  <2>1. fetch.answer \in Snapshots
    BY DEF Fetches
  <2> QED BY <1>11, <2>1, ViewTypes, FetchTypes DEF TakeFetch, Truth
<1>12. CASE FetchFails
  BY <1>12, FetchTypes DEF FetchFails, Truth
<1>13. CASE StreamOpens \/ StreamEnds \/ \E n \in stream.notes : TakeNote(n)
  BY <1>13, FetchTypes DEF StreamOpens, StreamEnds, TakeNote, Truth
<1>14. CASE Poll
  BY <1>14, FetchTypes DEF Poll, Truth
<1>15. CASE SilentChange
  <2>1. log' \in Seq(Jobs \cup {Nobody}) /\ Truth' = Truth + 1 /\ log' # <<>>
    BY <1>15 DEF SilentChange, Truth
  <2>2. server'.payload <= Truth'
    BY <1>15, <2>1, <1>1 DEF SilentChange, Servers
  <2> QED BY <1>15, <2>1, <2>2 DEF SilentChange, pageVars
<1>16. CASE Restart
  <2>1. job' \in [Jobs -> JobRecords]
    BY <1>16, JobTypes DEF Restart, Pcs
  <2>2. server' \in Servers /\ server'.payload <= Truth
    BY <1>16, <1>1 DEF Restart, Servers
  <2>3. fetch' \in Fetches
    BY <1>16 DEF Restart, Fetches
  <2> QED BY <1>16, <2>1, <2>2, <2>3 DEF Restart, Truth
<1>17. CASE UNCHANGED vars
  BY <1>17 DEF vars, Truth
<1> QED
  BY <1>5, <1>9, <1>10, <1>11, <1>12, <1>13, <1>14, <1>15, <1>16, <1>17 DEF Next

-----------------------------------------------------------------------------
(* The order of snapshots. *)

ServerShows == [epoch |-> server.epoch, revision |-> server.revision, payload |-> server.payload]
PageShows == [epoch |-> view.epoch, revision |-> view.revision, payload |-> view.payload]

\* Every snapshot anybody holds, answers that are not sent yet included.
Held == {job[j].answer : j \in Jobs} \cup {fetch.answer, PageShows, ServerShows}

\* No snapshot is ahead of the server it came from.
NoneAhead ==
    \A s \in Held :
        /\ s.epoch <= server.epoch
        /\ s.epoch = server.epoch => s.revision <= server.revision /\ s.payload <= server.payload
        /\ s.epoch = 0 => s.payload = 0

InOrder(a, b) == a.epoch = b.epoch /\ a.revision <= b.revision => a.payload <= b.payload
HeldInOrder == \A a, b \in Held : InOrder(a, b)

\* How the server's own snapshot moves: not at all, to the present state, to the
\* revision of a broadcast, or into the next life of the server.
Republished ==
    /\ server'.epoch = server.epoch /\ server'.payload = Truth
    /\ server'.revision =
         IF Truth # server.payload THEN server.revision + 1 ELSE server.revision
Counted ==
    /\ server'.epoch = server.epoch /\ server'.payload = server.payload
    /\ server'.revision = server.revision + 1
Reborn == server'.epoch = server.epoch + 1 /\ server'.payload = Truth
Moves == ServerShows' = ServerShows \/ Republished \/ Counted \/ Reborn

\* A step hands out nothing but the server's new snapshot.
SnapshotStep == Moves /\ Held' \subseteq Held \cup {ServerShows', NoSnapshot}

\* Whatever is held is a snapshot.
LEMMA HeldTypes == TypeInv => \A s \in Held : s \in Snapshots
<1> SUFFICES ASSUME TypeInv PROVE \A s \in Held : s \in Snapshots
  OBVIOUS
<1>1. \A j \in Jobs : job[j].answer \in Snapshots
  BY JobTypes DEF TypeInv
<1>2. fetch.answer \in Snapshots
  BY DEF TypeInv, Fetches
<1>3. PageShows \in Snapshots
  BY DEF TypeInv, PageShows, Snapshots
<1>4. ServerShows \in Snapshots
  BY ServerTypes DEF TypeInv, ServerShows
<1> QED BY <1>1, <1>2, <1>3, <1>4 DEF Held

\* Such steps keep the snapshots in order.
LEMMA OrderKept ==
    ASSUME TypeInv, TypeInv', server.epoch > 0, NoneAhead, HeldInOrder, SnapshotStep
    PROVE  NoneAhead' /\ HeldInOrder'
<1>1. \A s \in Held : s.epoch \in Nat /\ s.revision \in Nat /\ s.payload \in Nat
  BY HeldTypes DEF Snapshots
<1>2. /\ server.epoch \in Nat /\ server.revision \in Nat /\ server.payload \in Nat
      /\ server'.epoch \in Nat /\ server'.revision \in Nat /\ server'.payload \in Nat
      /\ Truth \in Nat /\ server.payload <= Truth
  BY DEF TypeInv, Servers, Truth
<1>3. ServerShows'.epoch = server'.epoch
      /\ ServerShows'.revision = server'.revision /\ ServerShows'.payload = server'.payload
  BY DEF ServerShows
<1>4. NoSnapshot.epoch = 0 /\ NoSnapshot.revision = 0 /\ NoSnapshot.payload = 0
  BY DEF NoSnapshot
<1>5. ServerShows' = ServerShows => /\ server'.epoch = server.epoch
        /\ server'.revision = server.revision /\ server'.payload = server.payload
  BY DEF ServerShows
<1>6. NoneAhead'
  <2> SUFFICES ASSUME NEW s \in Held'
               PROVE  /\ s.epoch <= server'.epoch
                      /\ s.epoch = server'.epoch =>
                           s.revision <= server'.revision /\ s.payload <= server'.payload
                      /\ s.epoch = 0 => s.payload = 0
    BY DEF NoneAhead
  <2>1. CASE s \in Held
    BY <2>1, <1>1, <1>2, <1>5 DEF NoneAhead, SnapshotStep, Moves, Republished, Counted, Reborn
  <2>2. CASE s = ServerShows'
    BY <2>2, <1>2, <1>3, <1>5 DEF SnapshotStep, Moves, Republished, Counted, Reborn
  <2>3. CASE s = NoSnapshot
    BY <2>3, <1>2, <1>4, <1>5 DEF SnapshotStep, Moves, Republished, Counted, Reborn
  <2> QED BY <2>1, <2>2, <2>3 DEF SnapshotStep
<1>7. HeldInOrder'
  <2> SUFFICES ASSUME NEW a \in Held', NEW b \in Held', a.epoch = b.epoch,
                      a.revision <= b.revision
               PROVE  a.payload <= b.payload
    BY DEF HeldInOrder, InOrder
  <2>1. CASE a \in Held /\ b \in Held
    BY <2>1 DEF HeldInOrder, InOrder
  <2>2. CASE a \in Held /\ b = ServerShows'
    BY <2>2, <1>1, <1>2, <1>3, <1>5
       DEF NoneAhead, SnapshotStep, Moves, Republished, Counted, Reborn
  <2>3. CASE a = ServerShows' /\ b \in Held
    <3>1. CASE ServerShows' = ServerShows
      BY <3>1, <2>3 DEF HeldInOrder, InOrder, Held
    <3>2. CASE Republished /\ Truth # server.payload
      BY <3>2, <2>3, <1>1, <1>2, <1>3 DEF NoneAhead, Republished
    <3>3. CASE Republished /\ Truth = server.payload
      <4>1. ServerShows' = ServerShows
        BY <3>3 DEF Republished, ServerShows
      <4> QED BY <4>1, <3>1
    <3>4. CASE Counted
      BY <3>4, <2>3, <1>1, <1>2, <1>3 DEF NoneAhead, Counted
    <3>5. CASE Reborn
      BY <3>5, <2>3, <1>1, <1>2, <1>3 DEF NoneAhead, Reborn
    <3> QED BY <3>1, <3>2, <3>3, <3>4, <3>5 DEF SnapshotStep, Moves
  <2>4. CASE a = ServerShows' /\ b = ServerShows'
    BY <2>4, <1>2, <1>3
  <2>5. CASE a = NoSnapshot
    <3>1. a.payload = 0 /\ b.payload \in Nat
      BY <2>5, <1>1, <1>2, <1>3, <1>4 DEF SnapshotStep
    <3> QED BY <3>1
  <2>6. CASE b = NoSnapshot
    <3>1. a.epoch = 0 => a.payload = 0
      BY <1>6 DEF NoneAhead
    <3> QED BY <2>6, <3>1, <1>4
  <2> QED BY <2>1, <2>2, <2>3, <2>4, <2>5, <2>6 DEF SnapshotStep
<1> QED BY <1>6, <1>7

\* A page shows what it showed, or the snapshot it applies.
LEMMA Applied ==
    ASSUME TypeInv, NEW s \in Snapshots, view' = Apply(s)
    PROVE  PageShows' \in {PageShows, s}
<1>1. [epoch |-> s.epoch, revision |-> s.revision, payload |-> s.payload] = s
  BY DEF Snapshots
<1> QED BY <1>1 DEF Apply, Showing, PageShows

\* Starting or ending a fetch keeps its answer or forgets it.
LEMMA Fetched ==
    ASSUME TypeInv, FetchState \/ EndFetch
    PROVE  fetch'.answer \in {fetch.answer, NoSnapshot}
<1>1. CASE fetch' = NewFetch
  BY <1>1 DEF NewFetch
<1>2. CASE fetch' = [fetch EXCEPT !.phase = "none", !.answer = NoSnapshot, !.at = 0]
  BY <1>2 DEF TypeInv, Fetches
<1> QED BY <1>1, <1>2 DEF FetchState, EndFetch

\* A job that ends forgets the snapshot it answered with.
LEMMA Finished ==
    ASSUME TypeInv, NEW j \in Jobs, Finish(j)
    PROVE  \A i \in Jobs : job'[i].answer \in {job[i].answer, NoSnapshot}
  BY DEF TypeInv, Finish, NewJob

\* A job that goes on keeps it.
LEMMA Moved ==
    ASSUME TypeInv, NEW j \in Jobs, NEW pc, Goto(j, pc)
    PROVE  \A i \in Jobs : job'[i].answer = job[i].answer
  BY DEF TypeInv, Goto, JobRecords

\* Every action is such a step.
LEMMA SnapshotSteps == TypeInv /\ [Next]_vars => SnapshotStep
<1> SUFFICES ASSUME TypeInv, [Next]_vars PROVE SnapshotStep
  OBVIOUS
<1> DEFINE New == {ServerShows', NoSnapshot}
<1>1. ASSUME Moves,
             \A i \in Jobs : job'[i].answer \in {job[i].answer} \cup New,
             fetch'.answer \in Held \cup New,
             PageShows' \in Held \cup New
      PROVE  SnapshotStep
  BY <1>1 DEF SnapshotStep, Held
<1>2. fetch.answer \in Held /\ PageShows \in Held /\ \A i \in Jobs : job[i].answer \in Held
  BY DEF Held
<1>3. view' = view => PageShows' = PageShows
  BY DEF PageShows
<1>4. server' = server => ServerShows' = ServerShows
  BY DEF ServerShows
<1>5. \A h : server' = [server EXCEPT !.holder = h] => ServerShows' = ServerShows
  BY DEF ServerShows, TypeInv, Servers
<1>6. \A h : server' = [Publish(Truth) EXCEPT !.holder = h] \/ server' = Publish(Truth)
        => Republished
  BY Publishing DEF Republished, Servers
<1>7. ASSUME NEW j \in Jobs, ServerStep(j) PROVE SnapshotStep
  <2>1. CASE Start(j) \/ Fail(j)
    BY <2>1, <1>1, <1>2, <1>3, <1>5, Moved DEF Start, Fail, pageVars, Moves
  <2>2. CASE Store(j)
    BY <2>2, <1>1, <1>2, <1>3, <1>4, Moved DEF Store, pageVars, Moves
  <2>3. CASE PublishStored(j)
    <3>1. Republished
      BY <2>3, <1>6 DEF PublishStored
    <3>2. \A i \in Jobs : job'[i].answer \in {job[i].answer, ServerShows'}
      BY <2>3, Publishing DEF PublishStored, ServerShows, TypeInv, JobRecords, Servers
    <3> QED BY <2>3, <3>1, <3>2, <1>1, <1>2, <1>3 DEF PublishStored, pageVars, Moves
  <2>4. CASE NothingNew(j)
    BY <2>4, <1>1, <1>2, <1>3, <1>6, Finished DEF NothingNew, pageVars, Moves
  <2>5. CASE Bump(j)
    <3>1. Counted
      BY <2>5 DEF Bump, Counted, TypeInv, Servers
    <3>2. \A i \in Jobs : job'[i].answer = job[i].answer
      BY <2>5 DEF Bump, TypeInv, JobRecords
    <3> QED BY <2>5, <3>1, <3>2, <1>1, <1>2, <1>3 DEF Bump, pageVars, Moves
  <2>6. CASE Broadcast(j)
    <3>1. \A i \in Jobs : job'[i].answer \in {job[i].answer, NoSnapshot}
      <4>1. CASE job' = [job EXCEPT ![j].pc = "answered", ![j].told = 0]
        BY <4>1 DEF TypeInv, JobRecords
      <4> QED BY <2>6, <4>1, Finished DEF Broadcast
    <3> QED BY <2>6, <3>1, <1>1, <1>2, <1>3, <1>4 DEF Broadcast, Moves
  <2> QED BY <1>7, <2>1, <2>2, <2>3, <2>4, <2>5, <2>6 DEF ServerStep
<1>8. ASSUME NEW j \in Jobs, PageStep(j) PROVE SnapshotStep
  <2>1. CASE UpdateZone(j)
    <3>1. PageShows' = PageShows
      BY <2>1 DEF UpdateZone, PageShows, TypeInv
    <3> QED BY <2>1, <3>1, <1>1, <1>2, <1>4, Moved DEF UpdateZone, Moves
  <2>2. CASE SendShared(j)
    BY <2>2, <1>1, <1>2, <1>3, <1>4, Moved DEF SendShared, pageVars, Moves
  <2>3. CASE TakeAnswer(j)
    <3>1. job[j].answer \in Snapshots
      BY HeldTypes, <1>2
    <3>2. PageShows' \in Held
      BY <2>3, <3>1, <1>2, Applied DEF TakeAnswer
    <3> QED BY <2>3, <3>2, <1>1, <1>2, <1>4, Finished DEF TakeAnswer, Moves
  <2>4. CASE TakeError(j)
    BY <2>4, <1>1, <1>2, <1>3, <1>4, Finished, Fetched DEF TakeError, Moves
  <2>5. CASE RequestBreaks(j)
    BY <2>5, <1>1, <1>2, <1>3, <1>4, Finished DEF RequestBreaks, Moves
  <2> QED BY <1>8, <2>1, <2>2, <2>3, <2>4, <2>5 DEF PageStep
<1>9. CASE AnswerFetch
  <2>1. ServerShows' = ServerShows \/ Republished
    BY <1>9, <1>4, <1>6 DEF AnswerFetch
  <2>2. fetch'.answer = ServerShows'
    BY <1>9 DEF AnswerFetch, ServerShows, TypeInv, Fetches
  <2> QED BY <1>9, <2>1, <2>2, <1>1, <1>2, <1>3 DEF AnswerFetch, Moves
<1>10. CASE TakeFetch
  <2>1. PageShows' \in Held
    BY <1>10, <1>2, <1>3, HeldTypes, Applied DEF TakeFetch
  <2> QED BY <1>10, <2>1, <1>1, <1>2, <1>4, Fetched DEF TakeFetch, Moves
<1>11. CASE FetchFails \/ Poll \/ StreamOpens \/ \E n \in stream.notes : TakeNote(n)
  BY <1>11, <1>1, <1>2, <1>3, <1>4, Fetched
     DEF FetchFails, Poll, StreamOpens, TakeNote, Moves
<1>12. CASE StreamEnds \/ SilentChange \/ UNCHANGED vars
  BY <1>12, <1>1, <1>2, <1>3, <1>4 DEF StreamEnds, SilentChange, pageVars, vars, Moves
<1>13. CASE Restart
  <2>1. Reborn
    BY <1>13 DEF Restart, Reborn
  <2>2. \A i \in Jobs : job'[i].answer \in {job[i].answer, NoSnapshot}
    BY <1>13 DEF Restart, NewJob
  <2>3. fetch'.answer = fetch.answer
    BY <1>13 DEF Restart, TypeInv, Fetches
  <2> QED BY <1>13, <2>1, <2>2, <2>3, <1>1, <1>2, <1>3 DEF Restart, Moves
<1> QED
  BY <1>7, <1>8, <1>9, <1>10, <1>11, <1>12, <1>13 DEF Next

-----------------------------------------------------------------------------
(* Announcements: the notification a broadcast is about to send, and those     *)
(* under way.                                                                  *)

Announced == {Note(j) : j \in {i \in Jobs : At(i, "bumped")}} \cup stream.notes

Covered(n, s) == s.epoch = n.epoch /\ s.revision >= n.revision => s.payload >= n.payload

\* A job that publishes or announces holds a payload of this server's life.
PublishedHere ==
    \A j \in Jobs : At(j, "published") \/ At(j, "bumped") => job[j].answer.epoch = server.epoch

AnnouncedIsShown ==
    \A n \in Announced :
        /\ n.epoch = server.epoch /\ n.revision <= server.revision /\ n.payload <= server.payload
        /\ \A s \in Held : Covered(n, s)

\* What a broadcast announces of a published snapshot.
Notice(s) == [epoch |-> server.epoch, revision |-> server.revision + 1, payload |-> s.payload]

\* A step announces nothing new, or a published payload with the new revision;
\* with the server's life its announcements end.
AnnouncementStep ==
    \/ Announced' \subseteq Announced /\ server'.epoch = server.epoch
    \/ Announced' = {}
    \/ /\ Counted /\ Held' \subseteq Held \cup {ServerShows'}
       /\ \E s \in Held :
            s.epoch = server.epoch /\ Announced' \subseteq Announced \cup {Notice(s)}

\* Announcements are written like snapshots.
LEMMA AnnouncementTypes == TypeInv => Announced \subseteq Snapshots
<1> SUFFICES ASSUME TypeInv PROVE Announced \subseteq Snapshots
  OBVIOUS
<1>1. ASSUME NEW j \in Jobs PROVE Note(j) \in Snapshots
  <2>1. job[j].told \in Nat /\ job[j].answer.payload \in Nat /\ server.epoch \in Nat
    BY JobTypes, ServerTypes DEF TypeInv, Snapshots
  <2> QED BY <2>1 DEF Note, Snapshots
<1> QED BY <1>1 DEF TypeInv, Announced

\* Such steps keep every announcement shown.
LEMMA AnnouncementsKept ==
    ASSUME TypeInv, TypeInv', server.epoch > 0, NoneAhead, NoneAhead', AnnouncedIsShown,
           SnapshotStep, AnnouncementStep
    PROVE  AnnouncedIsShown'
<1>1. \A s \in Held \cup Announced : s.epoch \in Nat /\ s.revision \in Nat /\ s.payload \in Nat
  BY HeldTypes, AnnouncementTypes DEF Snapshots
<1>2. /\ server.epoch \in Nat /\ server.revision \in Nat /\ server.payload \in Nat
      /\ server'.epoch \in Nat /\ server'.revision \in Nat /\ server'.payload \in Nat
      /\ Truth \in Nat /\ server.payload <= Truth
  BY DEF TypeInv, Servers, Truth
<1>3. /\ ServerShows'.epoch = server'.epoch /\ ServerShows'.revision = server'.revision
      /\ ServerShows'.payload = server'.payload
  BY DEF ServerShows
<1>4. NoSnapshot.epoch = 0
  BY DEF NoSnapshot
<1>5. ServerShows' = ServerShows => /\ server'.epoch = server.epoch
        /\ server'.revision = server.revision /\ server'.payload = server.payload
  BY DEF ServerShows
<1>6. SUFFICES ASSUME NEW n \in Announced'
               PROVE  /\ n.epoch = server'.epoch /\ n.revision <= server'.revision
                      /\ n.payload <= server'.payload
                      /\ \A s \in Held' : Covered(n, s)
  BY DEF AnnouncedIsShown
<1>7. CASE n \in Announced /\ server'.epoch = server.epoch
  <2>1. /\ n.epoch = server'.epoch /\ n.revision <= server'.revision
        /\ n.payload <= server'.payload
    BY <1>1, <1>2, <1>5, <1>7
       DEF AnnouncedIsShown, SnapshotStep, Moves, Republished, Counted, Reborn
  <2>2. Covered(n, ServerShows') /\ Covered(n, NoSnapshot)
    BY <2>1, <1>1, <1>2, <1>3, <1>4, <1>7 DEF Covered, AnnouncedIsShown
  <2>3. \A s \in Held : Covered(n, s)
    BY <1>7 DEF AnnouncedIsShown
  <2> QED BY <2>1, <2>2, <2>3 DEF SnapshotStep
<1>8. CASE Counted /\ Held' \subseteq Held \cup {ServerShows'} /\ \E s \in Held :
               s.epoch = server.epoch /\ n = Notice(s)
  <2>1. PICK s \in Held : s.epoch = server.epoch /\ n = Notice(s)
    BY <1>8
  <2>2. n.epoch = server.epoch /\ n.revision = server.revision + 1 /\ n.payload = s.payload
    BY <2>1 DEF Notice
  <2>3. s.payload <= server.payload
    BY <2>1 DEF NoneAhead
  <2>4. \A t \in Held : Covered(n, t)
    BY <2>2, <1>1, <1>2 DEF Covered, NoneAhead
  <2>5. Covered(n, ServerShows')
    BY <2>2, <2>3, <1>3, <1>8 DEF Covered, Counted
  <2> QED BY <2>2, <2>3, <2>4, <2>5, <1>2, <1>8 DEF Counted
<1> QED BY <1>6, <1>7, <1>8 DEF AnnouncementStep, Counted

\* A record of a job that is not about to announce announces nothing.
LEMMA Unannounced ==
    ASSUME TypeInv, NEW j \in Jobs, stream'.notes \subseteq stream.notes,
           server'.epoch = server.epoch, \A i \in Jobs \ {j} : job'[i] = job[i],
           job'[j].pc # "bumped"
    PROVE  Announced' \subseteq Announced
<1>1. \A i \in Jobs : job'[i].pc = "bumped" =>
        job[i].pc = "bumped" /\ Note(i)' = Note(i)
  BY DEF Note
<1> QED BY <1>1 DEF Announced, At

\* Steps that touch no job and send nothing announce nothing.
LEMMA Quiet ==
    ASSUME TypeInv, stream'.notes \subseteq stream.notes, server'.epoch = server.epoch, job' = job
    PROVE  Announced' \subseteq Announced /\ (PublishedHere => PublishedHere')
  BY DEF Announced, Note, At, PublishedHere

\* A step of one job leaves what the others published here.
LEMMA StillHere ==
    ASSUME PublishedHere, NEW j \in Jobs, server'.epoch = server.epoch,
           \A i \in Jobs \ {j} : job'[i] = job[i],
           job'[j].pc \in {"published", "bumped"} => job'[j].answer.epoch = server.epoch
    PROVE  PublishedHere'
  BY DEF PublishedHere, At

\* Every action is such a step.
LEMMA AnnouncementSteps ==
    TypeInv /\ PublishedHere /\ [Next]_vars => AnnouncementStep /\ PublishedHere'
<1> SUFFICES ASSUME TypeInv, PublishedHere, [Next]_vars PROVE AnnouncementStep /\ PublishedHere'
  OBVIOUS
<1>1. \A j \in Jobs : \A pc : Goto(j, pc) =>
        job'[j].pc = pc /\ \A i \in Jobs \ {j} : job'[i] = job[i]
  BY DEF Goto, TypeInv, JobRecords
<1>2. \A j \in Jobs : Finish(j) => job'[j].pc = "done" /\ \A i \in Jobs \ {j} : job'[i] = job[i]
  BY DEF Finish, TypeInv, NewJob
<1>3. Publish(Truth).epoch = server.epoch
      /\ \A h : [Publish(Truth) EXCEPT !.holder = h].epoch = server.epoch
  BY Publishing DEF Servers
<1>4. \A h : [server EXCEPT !.holder = h].epoch = server.epoch
  BY DEF TypeInv, Servers
<1>5. ASSUME NEW j \in Jobs, ServerStep(j) PROVE AnnouncementStep /\ PublishedHere'
  <2>1. CASE Start(j) \/ Fail(j)
    BY <2>1, <1>1, <1>4, Unannounced, StillHere DEF Start, Fail, pageVars, AnnouncementStep
  <2>2. CASE Store(j)
    BY <2>2, <1>1, Unannounced, StillHere DEF Store, pageVars, AnnouncementStep
  <2>3. CASE PublishStored(j)
    <3>1. /\ job'[j].pc = "published" /\ job'[j].answer.epoch = server.epoch
          /\ \A i \in Jobs \ {j} : job'[i] = job[i]
      BY <2>3, <1>3 DEF PublishStored, TypeInv, JobRecords
    <3> QED BY <2>3, <3>1, <1>3, Unannounced, StillHere DEF PublishStored, pageVars, AnnouncementStep
  <2>4. CASE NothingNew(j)
    BY <2>4, <1>2, <1>3, Unannounced, StillHere DEF NothingNew, pageVars, AnnouncementStep
  <2>5. CASE Bump(j)
    <3>1. Counted
      BY <2>5 DEF Bump, Counted, TypeInv, Servers
    <3>2. /\ job'[j].answer = job[j].answer /\ job'[j].told = server.revision + 1
          /\ \A i \in Jobs \ {j} : job'[i] = job[i]
      BY <2>5 DEF Bump, TypeInv, JobRecords
    <3>3. job[j].answer.epoch = server.epoch
      BY <2>5 DEF Bump, PublishedHere
    <3>4. Note(j)' = Notice(job[j].answer)
      BY <3>1, <3>2 DEF Note, Notice, Counted
    <3>5. \A i \in Jobs \ {j} : Note(i)' = Note(i)
      BY <3>1, <3>2 DEF Note, Counted
    <3>6. Announced' \subseteq Announced \cup {Notice(job[j].answer)}
      BY <2>5, <3>2, <3>4, <3>5 DEF Bump, pageVars, Announced, At
    <3>7. Held' \subseteq Held \cup {ServerShows'}
      BY <2>5, <3>2 DEF Bump, pageVars, Held, PageShows
    <3>8. job[j].answer \in Held
      BY DEF Held
    <3>9. PublishedHere'
      BY <3>1, <3>2, <3>3, StillHere DEF Counted
    <3> QED BY <3>1, <3>3, <3>6, <3>7, <3>8, <3>9 DEF AnnouncementStep
  <2>6. CASE Broadcast(j)
    <3>1. job'[j].pc \in {"answered", "done"} /\ \A i \in Jobs \ {j} : job'[i] = job[i]
      <4>1. CASE job' = [job EXCEPT ![j].pc = "answered", ![j].told = 0]
        BY <4>1 DEF TypeInv, JobRecords
      <4> QED BY <2>6, <4>1, <1>2 DEF Broadcast
    <3>2. stream'.notes \subseteq stream.notes \cup {Note(j)}
      BY <2>6 DEF Broadcast, TypeInv
    <3>3. Note(j) \in Announced
      BY <2>6 DEF Broadcast, Announced
    <3>4. \A i \in Jobs \ {j} : Note(i)' = Note(i)
      BY <2>6, <3>1 DEF Note, Broadcast
    <3>5. Announced' \subseteq Announced
      BY <3>1, <3>2, <3>3, <3>4 DEF Announced, At
    <3> QED BY <2>6, <3>1, <3>5, StillHere DEF Broadcast, AnnouncementStep
  <2> QED BY <1>5, <2>1, <2>2, <2>3, <2>4, <2>5, <2>6 DEF ServerStep
<1>6. ASSUME NEW j \in Jobs, PageStep(j) PROVE AnnouncementStep /\ PublishedHere'
  BY <1>6, <1>1, <1>2, Unannounced, StillHere
     DEF PageStep, UpdateZone, SendShared, TakeAnswer, TakeError, RequestBreaks, pageVars,
         AnnouncementStep
<1>7. CASE AnswerFetch
  BY <1>7, <1>3, Quiet DEF AnswerFetch, AnnouncementStep
<1>8. CASE TakeFetch \/ FetchFails \/ Poll \/ SilentChange \/ UNCHANGED vars
  BY <1>8, Quiet DEF TakeFetch, FetchFails, Poll, SilentChange, pageVars, vars, AnnouncementStep
<1>9. CASE StreamOpens \/ StreamEnds \/ \E n \in stream.notes : TakeNote(n)
  <2>1. stream'.notes \subseteq stream.notes
    BY <1>9 DEF StreamOpens, StreamEnds, TakeNote, TypeInv
  <2> QED BY <1>9, <2>1, Quiet DEF StreamOpens, StreamEnds, TakeNote, AnnouncementStep
<1>10. CASE Restart
  <2>1. \A i \in Jobs : job'[i].pc \notin {"published", "bumped"}
    BY <1>10 DEF Restart, NewJob
  <2> QED BY <1>10, <2>1 DEF Restart, Announced, At, PublishedHere, AnnouncementStep
<1> QED
  BY <1>5, <1>6, <1>7, <1>8, <1>9, <1>10 DEF Next

-----------------------------------------------------------------------------
(* The page's own invariant and the theorems. *)

\* Snapshots applied to the page keep an unanswered value on it.
LEMMA PendingKept ==
    TypeInv /\ PendingValueShows /\ [Next]_vars => PendingValueShows'
<1> SUFFICES ASSUME TypeInv, PendingValueShows, [Next]_vars PROVE PendingValueShows'
  OBVIOUS
<1> USE DEF PendingValueShows
<1>1. ASSUME NEW s \in Snapshots, view' = Apply(s), pending' \in {pending, Nobody}
      PROVE  PendingValueShows'
  BY <1>1 DEF Apply, Showing, Overlaid
<1>2. ASSUME view' = view, pending' \in {pending, Nobody} PROVE PendingValueShows'
  BY <1>2
<1>3. ASSUME NEW j \in Jobs, PageStep(j) PROVE PendingValueShows'
  <2>1. Settle(j) => pending' \in {pending, Nobody}
    BY DEF Settle
  <2>2. CASE UpdateZone(j)
    BY <2>2 DEF UpdateZone, TypeInv
  <2>3. CASE TakeAnswer(j)
    BY <2>1, <2>3, <1>1, JobTypes DEF TakeAnswer, TypeInv
  <2>4. CASE SendShared(j)
    BY <2>4, <1>2 DEF SendShared, pageVars
  <2>5. CASE TakeError(j) \/ RequestBreaks(j)
    BY <2>1, <2>5, <1>2 DEF TakeError, RequestBreaks
  <2> QED BY <1>3, <2>2, <2>3, <2>4, <2>5 DEF PageStep
<1>4. ASSUME NEW j \in Jobs, ServerStep(j) PROVE PendingValueShows'
  BY <1>4 DEF ServerStep, Start, Store, PublishStored, NothingNew, Fail, Bump, Broadcast, pageVars
<1>5. CASE TakeFetch
  <2>1. fetch.answer \in Snapshots
    BY DEF TypeInv, Fetches
  <2> QED BY <1>5, <2>1, <1>1, <1>2 DEF TakeFetch
<1> QED
  BY <1>3, <1>4, <1>5 DEF Next, AnswerFetch, FetchFails, StreamOpens, StreamEnds, TakeNote, Poll,
     SilentChange, Restart, pageVars, vars

\* The inductive invariant.
IInv ==
    /\ TypeInv /\ server.epoch > 0
    /\ NoneAhead /\ HeldInOrder
    /\ PublishedHere /\ AnnouncedIsShown
    /\ PendingValueShows

\* It holds initially.
LEMMA IInvInit == Init => IInv
<1> SUFFICES ASSUME Init PROVE IInv
  OBVIOUS
<1>1. TypeInv
  BY TypeInit
<1>2. Held = {NoSnapshot, [epoch |-> 1, revision |-> 0, payload |-> 1]}
  BY DEF Init, Held, PageShows, ServerShows, Showing, NewJob, NoSnapshot
<1>3. NoneAhead /\ HeldInOrder
  BY <1>2 DEF Init, NoneAhead, HeldInOrder, InOrder, NoSnapshot
<1>4. Announced = {} /\ PublishedHere
  BY DEF Init, Announced, PublishedHere, At, NewJob
<1> QED BY <1>1, <1>3, <1>4 DEF Init, IInv, AnnouncedIsShown, PendingValueShows

\* It is inductive.
LEMMA IInvNext == IInv /\ [Next]_vars => IInv'
<1> SUFFICES ASSUME IInv, [Next]_vars PROVE IInv'
  OBVIOUS
<1>1. TypeInv /\ TypeInv' /\ SnapshotStep /\ AnnouncementStep /\ PublishedHere' /\ PendingValueShows'
  BY TypeNext, SnapshotSteps, AnnouncementSteps, PendingKept DEF IInv
<1>2. NoneAhead' /\ HeldInOrder'
  BY <1>1, OrderKept DEF IInv
<1>3. AnnouncedIsShown'
  BY <1>1, <1>2, AnnouncementsKept DEF IInv
<1>4. server'.epoch > 0
  <2>1. ServerShows' = ServerShows => server'.epoch = server.epoch
    BY DEF ServerShows
  <2> QED BY <1>1, <2>1 DEF IInv, SnapshotStep, Moves, Republished, Counted, Reborn, TypeInv, Servers
<1> QED BY <1>1, <1>2, <1>3, <1>4 DEF IInv

\* What is behind the theorems holds in every reachable state.
THEOREM IInvHolds == Spec => []IInv
  BY IInvInit, IInvNext, PTL DEF Spec

\* The properties speak of some of the snapshots that are held.
LEMMA HandedOutIsHeld == HandedOut \subseteq Held
  BY DEF HandedOut, Held, PageShows, ServerShows

\* Comparing two revisions of one server tells which payload is newer, whichever
\* threads published, bumped, answered and restarted.
THEOREM RevisionsAreAnOrder == Spec => []RevisionsOrderPayloads
<1>1. IInv => RevisionsOrderPayloads
  BY HandedOutIsHeld DEF IInv, HeldInOrder, InOrder, RevisionsOrderPayloads
<1> QED BY <1>1, IInvHolds, PTL

\* The server shows whatever change an event under way announces.
THEOREM AnnouncementsAreTrue == Spec => []AnnouncedIsPublished
<1>1. IInv => AnnouncedIsPublished
  BY HandedOutIsHeld DEF IInv, AnnouncedIsShown, Covered, Announced, AnnouncedIsPublished
<1> QED BY <1>1, IInvHolds, PTL

\* A value the user set shows until the server answers for it.
THEOREM PendingIsShown == Spec => []PendingValueShows
<1>1. IInv => PendingValueShows
  BY DEF IInv
<1> QED BY <1>1, IInvHolds, PTL

\* The page never goes back to an older state of one server.
THEOREM TimeMovesOn == Spec => NeverBackInTime
<1>1. IInv /\ IInv' /\ [Next]_vars =>
        [view'.epoch = view.epoch => view'.payload >= view.payload]_vars
  <2> SUFFICES ASSUME IInv, [Next]_vars, view'.epoch = view.epoch
               PROVE  view'.payload >= view.payload
    BY DEF vars, pageVars
  <2>1. view.payload \in Nat /\ view.epoch \in Nat /\ view.revision \in Nat
    BY DEF IInv, TypeInv
  <2>2. CASE view'.payload = view.payload
    BY <2>1, <2>2
  <2>3. ASSUME NEW s \in Held, view' = Apply(s) PROVE view'.payload >= view.payload
    <3>1. s \in Snapshots /\ PageShows \in Held
      BY HeldTypes DEF IInv, Held
    <3>2. InOrder(PageShows, s)
      BY <3>1 DEF IInv, HeldInOrder
    <3>3. CASE Stale(s)
      BY <2>1, <2>3, <3>3 DEF Apply
    <3>4. CASE ~Stale(s)
      <4>1. view'.epoch = s.epoch /\ view'.payload = s.payload
        BY <2>3, <3>4 DEF Apply, Showing
      <4> QED BY <4>1, <2>1, <3>1, <3>2, <3>4 DEF Stale, InOrder, PageShows, Snapshots
    <3> QED BY <3>3, <3>4
  <2>4. fetch.answer \in Held /\ \A j \in Jobs : job[j].answer \in Held
    BY DEF Held
  <2>5. ASSUME NEW j \in Jobs, PageStep(j) PROVE view'.payload >= view.payload
    <3>1. CASE TakeAnswer(j)
      BY <3>1, <2>3, <2>4 DEF TakeAnswer
    <3>2. CASE UpdateZone(j)
      BY <3>2, <2>2 DEF UpdateZone, IInv, TypeInv
    <3>3. CASE SendShared(j) \/ TakeError(j) \/ RequestBreaks(j)
      BY <3>3, <2>2 DEF SendShared, TakeError, RequestBreaks, pageVars
    <3> QED BY <2>5, <3>1, <3>2, <3>3 DEF PageStep
  <2>6. ASSUME NEW j \in Jobs, ServerStep(j) PROVE view' = view
    BY <2>6 DEF ServerStep, Start, Store, PublishStored, NothingNew, Fail, Bump, Broadcast, pageVars
  <2>7. CASE TakeFetch
    BY <2>7, <2>2, <2>3, <2>4 DEF TakeFetch
  <2> QED
    BY <2>2, <2>5, <2>6, <2>7 DEF Next, AnswerFetch, FetchFails, StreamOpens, StreamEnds, TakeNote,
       Poll, SilentChange, Restart, pageVars, vars
<1> QED BY <1>1, IInvHolds, PTL DEF Spec, NeverBackInTime

-----------------------------------------------------------------------------
(* How many revisions there are. *)

\* Jobs that have changed the state, and jobs that have announced it; jobs that were given up
\* count as both.
Changed == {j \in Jobs : job[j].pc \notin {"new", "sent", "busy"}}
Told == {j \in Jobs : job[j].pc \notin {"new", "sent", "busy", "stored", "published"}}
Unpublished == IF Truth # server.payload THEN 1 ELSE 0

\* Every revision was needed for a changed payload or an announcement.
CountInv == server.revision + Unpublished <= Cardinality(Changed) + Cardinality(Told) + silent

LEMMA Counting ==
    /\ IsFiniteSet(Changed) /\ Cardinality(Changed) \in Nat
    /\ IsFiniteSet(Told) /\ Cardinality(Told) \in Nat
    /\ Begun \in Nat /\ Cardinality(Changed) <= Begun /\ Cardinality(Told) <= Begun
<1> DEFINE B == {j \in Jobs : job[j].pc # "new"}
<1>1. IsFiniteSet(Jobs) /\ B \in SUBSET Jobs
  BY JobsAssumption
<1>2. Changed \in SUBSET B /\ Told \in SUBSET B
  BY DEF Changed, Told
<1>3. Begun = Cardinality(B)
  BY DEF Begun
<1> HIDE DEF B
<1>4. IsFiniteSet(B) /\ Cardinality(B) \in Nat
  BY <1>1, FS_Subset, FS_CardinalityType
<1>5. IsFiniteSet(Changed) /\ Cardinality(Changed) <= Cardinality(B)
  BY <1>2, <1>4, FS_Subset
<1>6. IsFiniteSet(Told) /\ Cardinality(Told) <= Cardinality(B)
  BY <1>2, <1>4, FS_Subset
<1> QED BY <1>3, <1>4, <1>5, <1>6, FS_CardinalityType

\* No job goes back.
LEMMA Forward ==
    ASSUME TypeInv, [Next]_vars
    PROVE  Changed \subseteq Changed' /\ Told \subseteq Told'
<1>1. ASSUME NEW j \in Jobs, \A i \in Jobs \ {j} : job'[i].pc = job[i].pc,
             j \in Changed => job'[j].pc \notin {"new", "sent", "busy"},
             j \in Told => job'[j].pc \notin {"new", "sent", "busy", "stored", "published"}
      PROVE  Changed \subseteq Changed' /\ Told \subseteq Told'
  BY <1>1 DEF Changed, Told
<1>2. ASSUME NEW j \in Jobs, ServerStep(j) \/ PageStep(j)
      PROVE  Changed \subseteq Changed' /\ Told \subseteq Told'
  <2>1. \A i \in Jobs \ {j} : job'[i].pc = job[i].pc
    BY <1>2 DEF ServerStep, Start, Store, PublishStored, NothingNew, Fail, Bump, Broadcast, PageStep,
      UpdateZone, SendShared, TakeAnswer, TakeError, RequestBreaks, Goto, Finish, TypeInv
  <2>2. job \in [Jobs -> JobRecords] /\ job[j] \in JobRecords
    BY DEF TypeInv
  <2>3. CASE Start(j) \/ UpdateZone(j) \/ SendShared(j)
    <3>1. job[j].pc \in {"new", "sent"}
      BY <2>3 DEF Start, UpdateZone, SendShared, At
    <3> QED BY <1>1, <2>1, <3>1 DEF Changed, Told
  <2>4. CASE Store(j) \/ Fail(j) \/ NothingNew(j)
    <3>1. job[j].pc = "busy"
      BY <2>4 DEF Store, Fail, NothingNew, At
    <3> QED BY <1>1, <2>1, <3>1 DEF Changed, Told
  <2>5. CASE PublishStored(j)
    <3>1. job[j].pc = "stored" /\ job'[j].pc = "published"
      BY <2>2, <2>5 DEF PublishStored, At, JobRecords
    <3> QED BY <1>1, <2>1, <3>1 DEF Changed, Told
  <2>6. CASE Bump(j) \/ Broadcast(j)
    <3>1. job'[j].pc \in {"bumped", "answered", "done"}
      BY <2>2, <2>6 DEF Bump, Broadcast, Finish, NewJob, JobRecords
    <3> QED BY <1>1, <2>1, <3>1
  <2>7. CASE TakeAnswer(j) \/ TakeError(j) \/ RequestBreaks(j)
    <3>1. job'[j].pc = "done"
      BY <2>2, <2>7 DEF TakeAnswer, TakeError, RequestBreaks, Finish, NewJob
    <3> QED BY <1>1, <2>1, <3>1
  <2> QED BY <1>2, <2>3, <2>4, <2>5, <2>6, <2>7 DEF ServerStep, PageStep
<1>3. CASE Restart
  <2>1. \A j \in Jobs : job[j].pc \notin {"new", "sent", "busy"} => job'[j].pc \notin {"new", "sent", "busy"}
    BY <1>3 DEF Restart, NewJob
  <2>2. \A j \in Jobs : job[j].pc \notin {"new", "sent", "busy", "stored", "published"} =>
          job'[j].pc \notin {"new", "sent", "busy", "stored", "published"}
    BY <1>3 DEF Restart, NewJob
  <2> QED BY <2>1, <2>2 DEF Changed, Told
<1>4. CASE UNCHANGED job
  BY <1>4 DEF Changed, Told
<1> QED
  BY <1>2, <1>3, <1>4 DEF Next, AnswerFetch, TakeFetch, FetchFails, StreamOpens, StreamEnds, TakeNote,
    Poll, SilentChange, vars

\* The counts grow, and by one with a job that joins.
LEMMA CountsGrow ==
    ASSUME TypeInv, [Next]_vars
    PROVE  /\ Cardinality(Changed) <= Cardinality(Changed') /\ Cardinality(Told) <= Cardinality(Told')
           /\ Cardinality(Changed') \in Nat /\ Cardinality(Told') \in Nat
           /\ \A j \in Changed' \ Changed : Cardinality(Changed) + 1 <= Cardinality(Changed')
           /\ \A j \in Told' \ Told : Cardinality(Told) + 1 <= Cardinality(Told')
<1> DEFINE a == Changed
           b == Changed'
           c == Told
           d == Told'
<1>1. a \in SUBSET b /\ c \in SUBSET d
  BY Forward
<1>2. b \in SUBSET Jobs /\ d \in SUBSET Jobs
  BY DEF Changed, Told
<1>3. IsFiniteSet(Jobs)
  BY JobsAssumption
<1> HIDE DEF a, b, c, d
<1>4. IsFiniteSet(b) /\ IsFiniteSet(d)
  BY <1>2, <1>3, FS_Subset
<1>5. ASSUME NEW S, IsFiniteSet(S), NEW T \in SUBSET S
      PROVE  /\ Cardinality(T) <= Cardinality(S) /\ Cardinality(S) \in Nat
             /\ \A j \in S \ T : Cardinality(T) + 1 <= Cardinality(S)
  <2>1. Cardinality(T) <= Cardinality(S) /\ IsFiniteSet(T) /\ Cardinality(S) \in Nat /\ Cardinality(T) \in Nat
    BY <1>5, FS_Subset, FS_CardinalityType
  <2>2. ASSUME NEW j \in S \ T PROVE Cardinality(T) + 1 <= Cardinality(S)
    <3>1. Cardinality(T) # Cardinality(S)
      BY <1>5, FS_Subset
    <3> QED BY <2>1, <3>1
  <2> QED BY <2>1, <2>2
<1>6. /\ Cardinality(a) <= Cardinality(b) /\ Cardinality(b) \in Nat
      /\ \A j \in b \ a : Cardinality(a) + 1 <= Cardinality(b)
  BY <1>1, <1>4, <1>5
<1>7. /\ Cardinality(c) <= Cardinality(d) /\ Cardinality(d) \in Nat
      /\ \A j \in d \ c : Cardinality(c) + 1 <= Cardinality(d)
  BY <1>1, <1>4, <1>5
<1> QED BY <1>6, <1>7 DEF a, b, c, d

\* A step makes a revision of a changed payload, or of an announcement, or begins a new life.
LEMMA CountNext ==
    ASSUME TypeInv, TypeInv', CountInv, silent \in Nat, [Next]_vars
    PROVE  CountInv'
<1> DEFINE a == Cardinality(Changed)
           b == Cardinality(Told)
           x == Cardinality(Changed')
           y == Cardinality(Told')
           r == server.revision
           q == server'.revision
           s == silent
           z == silent'
           u == Unpublished
           v == Unpublished'
<1>1. /\ a \in Nat /\ b \in Nat /\ x \in Nat /\ y \in Nat /\ a <= x /\ b <= y
      /\ r \in Nat /\ q \in Nat /\ s \in Nat
  BY Counting, CountsGrow DEF TypeInv, Servers
<1>2. r + u <= a + b + s /\ u \in 0..1 /\ v \in 0..1
  BY DEF CountInv, Unpublished
<1>3. ASSUME q + v <= x + y + z PROVE CountInv'
  BY <1>3 DEF CountInv
<1> HIDE DEF a, b, x, y, r, q, s, z, u, v
<1>4. ASSUME z = s, q + v <= r + u PROVE CountInv'
  BY <1>1, <1>2, <1>3, <1>4
<1>5. ASSUME UNCHANGED <<log, server, silent>> PROVE CountInv'
  <2>1. q = r /\ v = u /\ z = s
    BY <1>5 DEF Unpublished, Truth, r, q, u, v, s, z
  <2> QED BY <1>1, <1>2, <1>4, <2>1
<1>6. ASSUME UNCHANGED <<log, silent>>, Republished PROVE CountInv'
  <2>1. v = 0 /\ q = r + u /\ z = s
    BY <1>1, <1>6 DEF Republished, Unpublished, Truth, r, q, u, v, s, z
  <2> QED BY <1>1, <1>2, <1>4, <1>6, <2>1
<1>7. ASSUME NEW j \in Jobs, Store(j) PROVE CountInv'
  <2>1. j \in Changed' \ Changed
    BY <1>7 DEF Store, At, Goto, Changed, TypeInv, JobRecords
  <2>2. a + 1 <= x
    BY <2>1, CountsGrow DEF a, x
  <2>3. q = r /\ z = s
    BY <1>7 DEF Store, r, q, s, z
  <2>4. q + v <= x + y + z
    BY <1>1, <1>2, <2>2, <2>3
  <2> QED BY <1>3, <2>4
<1>8. ASSUME NEW j \in Jobs, Bump(j) PROVE CountInv'
  <2>1. j \in Told' \ Told
    BY <1>8 DEF Bump, At, Told, TypeInv, JobRecords
  <2>2. b + 1 <= y
    BY <2>1, CountsGrow DEF b, y
  <2>3. q = r + 1 /\ z = s /\ v = u
    BY <1>8 DEF Bump, r, q, s, z, u, v, Unpublished, Truth, TypeInv, Servers
  <2>4. q + v <= x + y + z
    BY <1>1, <1>2, <2>2, <2>3
  <2> QED BY <1>3, <2>4
<1>9. CASE SilentChange
  <2>1. q = r /\ z = s + 1
    BY <1>9 DEF SilentChange, r, q, s, z
  <2>2. q + v <= x + y + z
    BY <1>1, <1>2, <2>1
  <2> QED BY <1>3, <2>2
<1>10. CASE Restart
  <2>1. q = 0 /\ v = 0 /\ z = s
    BY <1>10 DEF Restart, Unpublished, Truth, q, v, s, z
  <2>2. q + v <= x + y + z
    BY <1>1, <2>1
  <2> QED BY <1>3, <2>2
<1>11. \A h : Republished <=> /\ server'.epoch = Publish(Truth).epoch
                              /\ server'.payload = Publish(Truth).payload
                              /\ server'.revision = Publish(Truth).revision
  BY Publishing DEF Republished
<1>12. ASSUME NEW j \in Jobs, ServerStep(j) PROVE CountInv'
  <2>1. CASE Start(j) \/ Fail(j)
    <3>1. q = r /\ v = u /\ z = s
      BY <1>12, <2>1 DEF Start, Fail, r, q, s, z, u, v, Unpublished, Truth, TypeInv, Servers
    <3> QED BY <1>1, <1>2, <1>4, <3>1
  <2>2. CASE PublishStored(j) \/ NothingNew(j)
    <3>1. UNCHANGED <<log, silent>> /\ server' = [Publish(Truth) EXCEPT !.holder = Nobody]
      BY <2>2 DEF PublishStored, NothingNew
    <3>2. Republished
      BY <1>11, <3>1, Publishing DEF Servers
    <3> QED BY <1>6, <3>1, <3>2
  <2>3. CASE Broadcast(j)
    BY <1>5, <2>3 DEF Broadcast
  <2> QED BY <1>7, <1>8, <1>12, <2>1, <2>2, <2>3 DEF ServerStep
<1>13. CASE AnswerFetch
  <2>1. UNCHANGED <<log, silent>> /\ (server' = server \/ server' = Publish(Truth))
    BY <1>13 DEF AnswerFetch
  <2> QED BY <1>5, <1>6, <1>11, <2>1
<1>14. ASSUME NEW j \in Jobs, PageStep(j) PROVE CountInv'
  BY <1>5, <1>14 DEF PageStep, UpdateZone, SendShared, TakeAnswer, TakeError, RequestBreaks, pageVars
<1>15. CASE TakeFetch \/ FetchFails \/ StreamOpens \/ StreamEnds \/ Poll \/ (\E n \in stream.notes : TakeNote(n))
            \/ UNCHANGED vars
  BY <1>5, <1>15 DEF TakeFetch, FetchFails, StreamOpens, StreamEnds, Poll, TakeNote, vars
<1> QED BY <1>9, <1>10, <1>12, <1>13, <1>14, <1>15 DEF Next

-----------------------------------------------------------------------------
(* The other types. *)

\* A snapshot that can be applied shows a state there has been.
Shows(s) == s.payload \in 1..Truth
Values == Jobs \cup {Nobody}
Streams == [open : BOOLEAN, notes : SUBSET Snapshots]
Views == [epoch : Nat, revision : Nat, payload : Nat, shown : Values]

RestTypes ==
    /\ server.epoch <= MaxRestarts + 1 /\ server.payload >= 1
    /\ stream \in Streams /\ queued \in BOOLEAN /\ silent \in 0..MaxSilent
    /\ pending \in ZoneUpdates \cup {Nobody} /\ view \in Views
    /\ \A j \in Jobs : job[j].pc \in {"published", "bumped", "answered"} => Shows(job[j].answer)
    /\ fetch.phase = "answered" => Shows(fetch.answer)

LEMMA AppliedTypes ==
    ASSUME TypeInv, RestTypes, NEW s \in Snapshots, Shows(s), pending' \in ZoneUpdates \cup {Nobody}
    PROVE  Apply(s) \in Views
<1>1. log[s.payload] \in Values
  BY ElementOfSeq DEF TypeInv, Shows, Truth, Values
<1>2. pending' \in Values
  BY Kinds DEF Values
<1>3. \A v \in Values : Showing(s, v) \in Views
  BY DEF Showing, Views, Snapshots
<1> QED BY <1>1, <1>2, <1>3 DEF Apply, Overlaid, RestTypes

\* States are only added.
LEMMA TruthGrows ==
    ASSUME TypeInv, TypeInv', [Next]_vars
    PROVE  /\ Truth \in Nat /\ Truth' \in Nat /\ 1 <= Truth /\ Truth <= Truth'
           /\ \A s \in Snapshots : Shows(s) => s.payload \in 1..Truth'
<1>1. Truth \in Nat /\ Truth' \in Nat /\ 1 <= Truth
  BY DEF Truth, TypeInv
<1>2. log' = log \/ (\E v : log' = Append(log, v))
  BY DEF Next, ServerStep, Start, Store, PublishStored, NothingNew, Fail, Bump, Broadcast, PageStep,
    UpdateZone, SendShared, TakeAnswer, TakeError, RequestBreaks, AnswerFetch, TakeFetch, FetchFails,
    StreamOpens, StreamEnds, TakeNote, Poll, SilentChange, Restart, pageVars, vars
<1>3. Truth <= Truth'
  BY <1>2 DEF Truth, TypeInv
<1> QED BY <1>1, <1>3 DEF Shows, Snapshots

\* The snapshot a request is answered with shows a state there has been.
LEMMA Answering ==
    ASSUME TypeInv, RestTypes
    PROVE  /\ \A s : s = Publish(Truth) \/ s = server =>
                /\ s.payload \in 1..Truth /\ s.epoch = server.epoch
                /\ Shows([epoch |-> s.epoch, revision |-> s.revision, payload |-> s.payload])
<1>1. Truth \in Nat /\ 1 <= Truth /\ server.payload \in 1..Truth
  BY DEF Truth, TypeInv, RestTypes, Servers
<1> QED BY <1>1, Publishing DEF Shows

\* A step keeps them.
LEMMA RestNext ==
    ASSUME TypeInv, TypeInv', RestTypes, [Next]_vars
    PROVE  RestTypes'
<1> USE Kinds, TruthGrows
<1> DEFINE
      ServerRest == server.epoch <= MaxRestarts + 1 /\ server.payload >= 1
      FlagRest == stream \in Streams /\ queued \in BOOLEAN /\ silent \in 0..MaxSilent
      ViewRest == pending \in ZoneUpdates \cup {Nobody} /\ view \in Views
      JobRest == \A j \in Jobs :
                    job[j].pc \in {"published", "bumped", "answered"} => job[j].answer.payload \in 1..Truth
      FetchRest == fetch.phase = "answered" => fetch.answer.payload \in 1..Truth
<1>1. RestTypes <=> ServerRest /\ FlagRest /\ ViewRest /\ JobRest /\ FetchRest
  BY DEF RestTypes, Shows
<1>2. RestTypes' <=> ServerRest' /\ FlagRest' /\ ViewRest' /\ JobRest' /\ FetchRest'
  BY DEF RestTypes, Shows
<1>3. job \in [Jobs -> JobRecords] /\ fetch \in Fetches /\ server \in Servers
  BY DEF TypeInv
<1>4. \A j \in Jobs : job[j].answer \in Snapshots
  BY <1>3, JobTypes
<1>5. fetch.answer \in Snapshots /\ \A n \in Nat : n \in 1..Truth => n \in 1..Truth'
  BY <1>3 DEF Fetches
<1>6. UNCHANGED server => ServerRest'
  BY <1>1
<1>7. UNCHANGED <<stream, queued, silent>> => FlagRest'
  BY <1>1
<1>8. UNCHANGED <<pending, view>> => ViewRest'
  BY <1>1
<1>9. ASSUME NEW j \in Jobs, \A i \in Jobs \ {j} : job'[i] = job[i],
             job'[j].pc \in {"published", "bumped", "answered"} => job'[j].answer.payload \in 1..Truth
      PROVE  JobRest'
  <2>1. \A i \in Jobs : /\ job[i].answer.payload \in Nat
                        /\ job[i].pc \in {"published", "bumped", "answered"} => job[i].answer.payload \in 1..Truth
    BY <1>1, <1>4 DEF Snapshots
  <2>2. job'[j].pc \in {"published", "bumped", "answered"} => job'[j].answer.payload \in 1..Truth'
    BY <1>9
  <2>3. \A i \in Jobs \ {j} :
          job'[i].pc \in {"published", "bumped", "answered"} => job'[i].answer.payload \in 1..Truth'
    BY <1>5, <1>9, <2>1
  <2> QED BY <2>2, <2>3
<1>10. UNCHANGED job => JobRest'
  <2>1. \A i \in Jobs : /\ job[i].answer.payload \in Nat
                        /\ job[i].pc \in {"published", "bumped", "answered"} => job[i].answer.payload \in 1..Truth
    BY <1>1, <1>4 DEF Snapshots
  <2> QED BY <1>5, <2>1
<1>11. fetch'.phase = "answered" /\ fetch.phase = "answered" /\ fetch'.answer = fetch.answer => FetchRest'
  BY <1>1, <1>5 DEF Snapshots
<1>12. UNCHANGED fetch => FetchRest'
  BY <1>11
<1>13. FetchState \/ EndFetch => FetchRest'
  <2>1. [phase |-> "sent", at |-> updates', answer |-> NoSnapshot].phase = "sent"
    OBVIOUS
  <2>3. [fetch EXCEPT !.phase = "none", !.answer = NoSnapshot, !.at = 0].phase = "none"
    BY <1>3 DEF Fetches
  <2>4. FetchState \/ EndFetch => UNCHANGED fetch \/ fetch'.phase \in {"sent", "none"}
    BY <2>1, <2>3 DEF FetchState, EndFetch, NewFetch
  <2>2. fetch'.phase \in {"sent", "none"} => FetchRest'
    OBVIOUS
  <2> QED BY <1>12, <2>2, <2>4
<1>14. FetchState \/ EndFetch => queued' \in BOOLEAN
  BY <1>1 DEF FetchState, EndFetch
<1> HIDE DEF JobRest, FetchRest
<1>15. ASSUME NEW j \in Jobs, ServerStep(j) PROVE RestTypes'
  <2>1. \A i \in Jobs \ {j} : job'[i] = job[i]
    BY <1>3, <1>15 DEF ServerStep, Start, Store, PublishStored, NothingNew, Fail, Bump, Broadcast, Goto, Finish
  <2>2. job'[j].pc \in {"published", "bumped", "answered"} => job'[j].answer.payload \in 1..Truth
    <3>1. CASE Start(j) \/ Store(j) \/ NothingNew(j) \/ Fail(j)
      BY <1>3, <3>1 DEF Start, Store, NothingNew, Fail, Goto, Finish, NewJob, JobRecords
    <3>2. CASE PublishStored(j)
      <4>1. job'[j].answer.payload = Publish(Truth).payload
        BY <1>3, <3>2 DEF PublishStored, JobRecords
      <4> QED BY <4>1, Answering
    <3>3. CASE Bump(j) \/ Broadcast(j)
      <4>1. job[j].pc \in {"published", "bumped"}
        BY <3>3 DEF Bump, Broadcast, At
      <4>2. job'[j].answer = job[j].answer \/ job'[j].pc = "done"
        BY <1>3, <3>3 DEF Bump, Broadcast, Finish, NewJob, JobRecords
      <4> QED BY <1>1, <4>1, <4>2 DEF JobRest
    <3> QED BY <1>15, <3>1, <3>2, <3>3 DEF ServerStep
  <2>3. JobRest'
    BY <1>9, <2>1, <2>2
  <2>4. ServerRest'
    <3>1. server'.epoch = server.epoch /\ server'.payload \in {server.payload, Publish(Truth).payload}
      BY <1>3, <1>15, Publishing DEF ServerStep, Start, Store, PublishStored, NothingNew, Fail, Bump, Broadcast, Servers
    <3>2. server.epoch <= MaxRestarts + 1 /\ server.payload \in 1..Truth /\ Publish(Truth).payload \in 1..Truth
      BY <1>1, Answering
    <3> QED BY <3>1, <3>2
  <2>5. stream' \in Streams
    <3>1. stream' = stream \/ stream' = [stream EXCEPT !.notes = @ \cup {Note(j)}]
      BY <1>15 DEF ServerStep, Start, Store, PublishStored, NothingNew, Fail, Bump, Broadcast, pageVars
    <3>2. Note(j) \in Snapshots
      BY <1>3, JobTypes, ServerTypes DEF Note, Snapshots
    <3> QED BY <1>1, <3>1, <3>2 DEF Streams
  <2>6. UNCHANGED <<queued, silent, pending, view, fetch>>
    BY <1>15 DEF ServerStep, Start, Store, PublishStored, NothingNew, Fail, Bump, Broadcast, pageVars
  <2> QED BY <1>1, <1>2, <1>8, <1>12, <2>3, <2>4, <2>5, <2>6
<1>16. ASSUME NEW j \in Jobs, PageStep(j) PROVE RestTypes'
  <2>1. \A i \in Jobs \ {j} : job'[i] = job[i]
    BY <1>3, <1>16 DEF PageStep, UpdateZone, SendShared, TakeAnswer, TakeError, RequestBreaks, Goto, Finish
  <2>2. job'[j].pc \in {"sent", "done"}
    BY <1>3, <1>16 DEF PageStep, UpdateZone, SendShared, TakeAnswer, TakeError, RequestBreaks, Goto, Finish,
      NewJob, JobRecords
  <2>3. JobRest' /\ ServerRest'
    BY <1>6, <1>9, <1>16, <2>1, <2>2 DEF PageStep, UpdateZone, SendShared, TakeAnswer, TakeError, RequestBreaks
  <2>4. FlagRest' /\ FetchRest'
    BY <1>1, <1>7, <1>12, <1>13, <1>14, <1>16
       DEF PageStep, UpdateZone, SendShared, TakeAnswer, TakeError, RequestBreaks, pageVars
  <2>5. pending' \in ZoneUpdates \cup {Nobody}
    BY <1>1, <1>16 DEF PageStep, UpdateZone, SendShared, TakeAnswer, TakeError, RequestBreaks, Settle, pageVars
  <2>6. view' \in Views
    <3>1. CASE TakeAnswer(j)
      <4>1. Shows(job[j].answer) /\ view' = Apply(job[j].answer)
        BY <3>1 DEF TakeAnswer, At, RestTypes
      <4> QED BY <1>4, <2>5, <4>1, AppliedTypes
    <3>2. CASE UpdateZone(j)
      BY <1>1, <3>2 DEF UpdateZone, Views, Values
    <3>3. CASE SendShared(j) \/ TakeError(j) \/ RequestBreaks(j)
      BY <1>1, <3>3 DEF SendShared, TakeError, RequestBreaks, pageVars
    <3> QED BY <1>16, <3>1, <3>2, <3>3 DEF PageStep
  <2> QED BY <1>2, <2>3, <2>4, <2>5, <2>6
<1>17. CASE AnswerFetch
  <2>1. server'.payload \in 1..Truth /\ server'.epoch = server.epoch /\ fetch'.answer.payload = server'.payload
    BY <1>3, <1>17, Answering DEF AnswerFetch, Fetches
  <2>2. ServerRest'
    BY <1>1, <2>1
  <2>3. FetchRest'
    BY <2>1 DEF FetchRest
  <2> QED BY <1>2, <1>7, <1>8, <1>10, <1>17, <2>2, <2>3 DEF AnswerFetch
<1>18. CASE TakeFetch
  <2>1. Shows(fetch.answer) /\ pending' \in ZoneUpdates \cup {Nobody}
    BY <1>18 DEF TakeFetch, RestTypes
  <2>2. view' \in Views
    BY <1>5, <1>18, <2>1, AppliedTypes DEF TakeFetch, RestTypes
  <2>3. FlagRest'
    BY <1>1, <1>14, <1>18 DEF TakeFetch
  <2> QED BY <1>2, <1>6, <1>10, <1>13, <1>18, <2>1, <2>2, <2>3 DEF TakeFetch
<1>19. CASE FetchFails \/ StreamOpens \/ StreamEnds \/ Poll \/ (\E n \in stream.notes : TakeNote(n))
  <2>1. UNCHANGED <<server, job, pending, view, silent>> /\ FetchRest'
    BY <1>12, <1>13, <1>19 DEF FetchFails, StreamOpens, StreamEnds, Poll, TakeNote
  <2>2. queued' \in BOOLEAN
    BY <1>1, <1>14, <1>19 DEF FetchFails, StreamOpens, StreamEnds, Poll, TakeNote
  <2>3. stream' \in Streams
    <3>1. \/ stream' \in {stream, [stream EXCEPT !.open = TRUE], [open |-> FALSE, notes |-> {}]}
          \/ \E n \in stream.notes : stream' = [stream EXCEPT !.notes = @ \ {n}]
      BY <1>19 DEF FetchFails, StreamOpens, StreamEnds, Poll, TakeNote
    <3>2. [stream EXCEPT !.open = TRUE] \in Streams /\ [open |-> FALSE, notes |-> {}] \in Streams
      BY <1>1 DEF Streams
    <3>3. ASSUME NEW n \in stream.notes PROVE [stream EXCEPT !.notes = @ \ {n}] \in Streams
      BY <1>1 DEF Streams
    <3> QED BY <1>1, <3>1, <3>2, <3>3
  <2> QED BY <1>1, <1>2, <1>6, <1>8, <1>10, <2>1, <2>2, <2>3
<1>20. CASE SilentChange
  <2>1. silent' \in 0..MaxSilent
    BY <1>1, <1>20, BoundsAssumption DEF SilentChange
  <2> QED BY <1>1, <1>2, <1>6, <1>8, <1>10, <1>12, <1>20, <2>1 DEF SilentChange, pageVars
<1>21. CASE Restart
  <2>1. ServerRest'
    BY <1>3, <1>21, BoundsAssumption DEF Restart, Servers
  <2>2. FlagRest' /\ ViewRest'
    BY <1>1, <1>21 DEF Restart, Streams
  <2>3. \A j \in Jobs : job'[j].pc = "answered" => job[j].pc = "answered" /\ job'[j] = job[j]
    BY <1>21 DEF Restart, NewJob
  <2>4. \A j \in Jobs : job'[j].pc \notin {"published", "bumped"}
    BY <1>21 DEF Restart, NewJob
  <2>5. JobRest'
    <3>1. \A j \in Jobs : job[j].pc = "answered" => job[j].answer.payload \in 1..Truth
      BY <1>1 DEF JobRest
    <3>2. \A j \in Jobs : job[j].pc = "answered" => job[j].answer.payload \in 1..Truth'
      BY <1>4, <1>5, <3>1 DEF Snapshots
    <3> QED BY <2>3, <2>4, <3>2 DEF JobRest
  <2>6. FetchRest'
    <3>1. fetch'.phase = "answered" => fetch.phase = "answered" /\ fetch'.answer = fetch.answer
      BY <1>3, <1>21 DEF Restart, Fetches
    <3> QED BY <1>11, <3>1 DEF FetchRest
  <2> QED BY <1>2, <2>1, <2>2, <2>5, <2>6
<1>22. CASE UNCHANGED vars
  BY <1>1, <1>2, <1>6, <1>7, <1>8, <1>10, <1>12, <1>22 DEF vars
<1> QED BY <1>15, <1>16, <1>17, <1>18, <1>19, <1>20, <1>21, <1>22 DEF Next

\* Nothing has been counted at the start.
LEMMA RestInit == Init => RestTypes /\ CountInv
<1> SUFFICES ASSUME Init PROVE RestTypes /\ CountInv
  OBVIOUS
<1>1. Changed = {} /\ Told = {}
  BY DEF Init, Changed, Told, NewJob
<1>2. Truth = 1
  BY DEF Init, Truth
<1>3. RestTypes
  <2>1. /\ server.epoch = 1 /\ server.payload = 1 /\ silent = 0 /\ queued = FALSE /\ pending = Nobody
        /\ fetch.phase = "sent" /\ \A j \in Jobs : job[j].pc = "new"
    BY DEF Init, NewJob
  <2>2. stream \in Streams
    BY DEF Init, Streams
  <2>3. view \in Views
    BY DEF Init, Showing, NoSnapshot, Views, Values
  <2>4. server.epoch <= MaxRestarts + 1 /\ server.payload >= 1 /\ silent \in 0..MaxSilent
    BY <2>1, BoundsAssumption
  <2> QED BY <2>1, <2>2, <2>3, <2>4 DEF RestTypes
<1>4. Cardinality(Changed) = 0 /\ Cardinality(Told) = 0
  BY <1>1, FS_EmptySet
<1>5. server.revision = 0 /\ Unpublished = 0 /\ silent = 0
  BY <1>2 DEF Init, Unpublished
<1> QED BY <1>3, <1>4, <1>5 DEF CountInv

\* However often the page fetches, the server counts no more revisions than changes and
\* announcements need, and every variable has its type: a snapshot that is shown names a
\* state there has been, and the restarts stay within their bound.
THEOREM TypeCorrect == Spec => []TypeOK
<1> DEFINE Strong == IInv /\ RestTypes /\ CountInv
<1>1. Init => Strong
  BY IInvInit, RestInit
<1>2. Strong /\ [Next]_vars => Strong'
  <2> SUFFICES ASSUME Strong, [Next]_vars PROVE Strong'
    OBVIOUS
  <2>1. IInv' /\ TypeInv /\ TypeInv'
    BY IInvNext DEF IInv
  <2>2. RestTypes'
    BY <2>1, RestNext
  <2>3. silent \in Nat
    BY BoundsAssumption DEF RestTypes
  <2> QED BY <2>1, <2>2, <2>3, CountNext
<1>3. Strong => TypeOK
  <2> SUFFICES ASSUME Strong PROVE TypeOK
    OBVIOUS
  <2>1. TypeInv /\ server.epoch > 0 /\ server.payload >= 1
    BY DEF IInv, RestTypes
  <2>2. server.revision \in 0..MaxRevision
    <3> DEFINE a == Cardinality(Changed)
               b == Cardinality(Told)
               c == Begun
               r == server.revision
               u == Unpublished
    <3>1. /\ a \in Nat /\ b \in Nat /\ c \in Nat /\ a <= c /\ b <= c /\ r \in Nat /\ u \in 0..1
          /\ silent \in Nat /\ r + u <= a + b + silent
      BY <2>1, Counting, BoundsAssumption DEF TypeInv, Servers, RestTypes, CountInv, Unpublished
    <3>2. MaxRevision = 2 * c + silent
      BY DEF MaxRevision
    <3> HIDE DEF a, b, c, r, u
    <3>3. r <= 2 * c + silent
      BY <3>1
    <3>4. r \in 0..MaxRevision
      BY <3>1, <3>2, <3>3
    <3> QED BY <3>4 DEF r
  <2>3. server \in [epoch : 1..MaxRestarts + 1, revision : 0..MaxRevision, payload : 1..Truth,
                    holder : Jobs \cup {Nobody}]
    <3>1. server.epoch \in 1..MaxRestarts + 1 /\ server.payload \in 1..Truth
      BY <2>1, BoundsAssumption DEF TypeInv, Servers, RestTypes, Truth
    <3>2. server \in Servers
      BY <2>1 DEF TypeInv
    <3> QED BY <2>2, <3>1, <3>2 DEF Servers
  <2>4. job \in [Jobs -> [pc : {"new", "sent", "busy", "stored", "published", "bumped", "answered",
                               "failed", "broken", "done"}, answer : Snapshots, told : Nat]]
    BY <2>1 DEF TypeInv, JobRecords, Pcs
  <2> QED BY <2>1, <2>3, <2>4 DEF TypeInv, TypeOK, RestTypes, Fetches, Streams, Views, Values
<1> QED BY <1>1, <1>2, <1>3, PTL DEF Spec

=============================================================================
