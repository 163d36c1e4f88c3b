---------------------- MODULE PlaybackOperationsProofs ----------------------
(***************************************************************************)
(* Proofs about PlaybackOperations for every number of operations,         *)
(* outputs and keys, every limit, deadline and retention.                  *)
(***************************************************************************)
EXTENDS PlaybackOperations, FiniteSetTheorems, TLAPS

\* The worker is busy exactly with a running row.
Working == worker.pc \notin {"idle", "exited"} => worker.op \in Ids /\ status[worker.op] = "running"

TypeInv == TypeOK /\ Working

\* Every step leaves every variable in its type.
LEMMA TypeInductive == TypeInv /\ [Next]_vars => TypeInv'
<1> SUFFICES ASSUME TypeInv, [Next]_vars PROVE TypeInv'
  OBVIOUS
<1> USE DEF TypeInv, TypeOK, Working, ledger, process, host
<1>1. ASSUME NEW i \in Ids, NEW lane \in Lanes, NEW key \in Keys, NEW cfg \in 0..config,
             NEW ctl \in 0..control, NEW action \in LaneActions(lane),
             Accept(i, lane, key, action, cfg, ctl)
      PROVE  TypeInv'
  <2>1. action \in AllActions
    BY <1>1, ActionsAssumption DEF LaneActions
  <2>2. [lane |-> lane, key |-> key, action |-> action, config |-> cfg,
         control |-> ctl, created |-> clock, order |-> accepted] \in Request
    BY <1>1, <2>1 DEF Request
  <2>3. request' \in [Ids -> Request \cup {NoRequest}]
    BY <1>1, <2>2 DEF Accept
  <2>4. status' \in [Ids -> Statuses]
    BY <1>1 DEF Accept, Statuses, Terminal
  <2>5. ASSUME NEW j \in Ids, status'[j] # "absent" PROVE request'[j] \in Request
    <3>1. CASE j = i
      BY <1>1, <2>2, <3>1 DEF Accept
    <3>2. CASE j # i
      BY <1>1, <2>5, <3>2 DEF Accept, Prunable, Present, Queued
    <3> QED BY <3>1, <3>2
  <2>6. ASSUME NEW j \in Ids, status[j] = "running" PROVE status'[j] = "running"
    BY <1>1, <2>6 DEF Accept, Prunable, Pending, Queued
  <2> QED BY <1>1, <2>3, <2>4, <2>5, <2>6 DEF Accept, Phases
<1>2. ASSUME NEW i \in Ids, Pick(i) PROVE TypeInv'
  BY <1>2 DEF Pick, At, Statuses, Phases, Pcs
<1>3. CASE Attempt
  <2>1. CASE Expire
    BY <2>1 DEF Expire, At, Goto, Report, LoopAgain, Op, AttemptPhase, Statuses, Terminal, Phases, Pcs
  <2>2. CASE Begin
    BY <2>2 DEF Begin, At, Goto, Report, LoopAgain, Op, AttemptPhase, Statuses, Terminal, Phases, Pcs
  <2>3. CASE Busy
    BY <2>3 DEF Busy, At, Goto, Report, LoopAgain, Op, AttemptPhase, Statuses, Terminal, Phases, Pcs
  <2>4. CASE BusyGivesUp
    BY <2>4 DEF BusyGivesUp, At, Goto, Report, LoopAgain, Op, AttemptPhase, Statuses, Terminal, Phases, Pcs
  <2>5. CASE WaitEnds
    BY <2>5 DEF WaitEnds, At, Goto, Report, LoopAgain, Op, AttemptPhase, Statuses, Terminal, Phases, Pcs
  <2>6. CASE Conflict
    BY <2>6 DEF Conflict, At, Goto, Report, LoopAgain, Op, AttemptPhase, Statuses, Terminal, Phases, Pcs
  <2>7. CASE Acquire
    BY <2>7 DEF Acquire, At, Goto, Report, LoopAgain, Op, AttemptPhase, Statuses, Terminal, Phases, Pcs
  <2> QED BY <1>3, <2>1, <2>2, <2>3, <2>4, <2>5, <2>6, <2>7 DEF Attempt
<1>4. CASE Execute
  <2>1. CASE Refuse
    BY <2>1 DEF Refuse, At, Goto, Raise, Op, Pcs
  <2>2. CASE Announce
    <3>1. Action \in AllActions
      BY <2>2 DEF Announce, At, Action, Op, Request
    <3>2. SavingPhase(Action) \in Phases
      BY <3>1 DEF SavingPhase, Phases, AllActions, TransportActions, StationActions, FavoriteActions
    <3> QED BY <2>2, <3>2 DEF Announce, At, Goto, Op, Pcs
  <2>3. CASE Save
    BY <2>3 DEF Save, At, Goto, Raise, Op, Pcs
  <2>4. CASE SaveNothing
    BY <2>4 DEF SaveNothing, At, Goto, Raise, Op, Pcs
  <2>5. CASE SaveFails
    BY <2>5 DEF SaveFails, At, Goto, Raise, Op, Pcs
  <2>6. CASE Checkpoints
    <3>1. \E ph \in Phases, flags \in SUBSET {"intention", "gain", "source"},
             pc \in {"saved", "applying", "leaving"} : Checkpoint(ph, flags, pc)
      BY <2>6 DEF Checkpoints, Phases
    <3>2. PICK ph \in Phases, flags \in SUBSET {"intention", "gain", "source"},
               pc \in {"saved", "applying", "leaving"} : Checkpoint(ph, flags, pc)
      BY <3>1
    <3>3. persisted' \in [Ids -> SUBSET {"intention", "gain", "source"}]
      BY <3>2 DEF Checkpoint
    <3> QED BY <2>6, <3>2, <3>3 DEF Checkpoints, Checkpoint, At, Goto, Op, Pcs
  <2>7. CASE Apply
    BY <2>7 DEF Apply, At, Goto, Raise, Op, Pcs, StreamWrites
  <2>8. CASE ApplyFails
    BY <2>8 DEF ApplyFails, At, Goto, Raise, Op, Pcs, StreamWrites
  <2>9. CASE Leave
    BY <2>9 DEF Leave, At, Goto, Raise, Op, Pcs
  <2> QED BY <1>4, <2>1, <2>2, <2>3, <2>4, <2>5, <2>6, <2>7, <2>8, <2>9 DEF Execute
<1>5. CASE Conclude
  <2>1. CASE Complete
    BY <2>1 DEF Complete, At, Goto, Report, LoopAgain, Op, Statuses, Terminal, Phases, Pcs
  <2>2. CASE RecordFailure
    BY <2>2 DEF RecordFailure, At, Goto, Report, LoopAgain, Op, Statuses, Terminal, Phases, Pcs
  <2>3. CASE NoticeStop
    BY <2>3 DEF NoticeStop, At, Goto, Report, LoopAgain, Op, Statuses, Terminal, Phases, Pcs
  <2> QED BY <1>5, <2>1, <2>2, <2>3 DEF Conclude
<1>6. CASE Lifetime
  <2>1. CASE Close
    BY <2>1 DEF Close
  <2>2. CASE Exit
    BY <2>2 DEF Exit
  <2>3. CASE Crash
    BY <2>3 DEF Crash, Freed, Pcs
  <2>4. CASE Restart
    <3>1. status' \in [Ids -> Statuses] /\ \A i \in Ids : status'[i] = "absent" => status[i] = "absent"
      BY <2>4 DEF Restart, Statuses, Terminal
    <3>2. applied' \in [Ids -> {"yes", "no", "unknown"}]
      BY <2>4 DEF Restart
    <3>3. worker' \in [pc : Pcs, op : Ids \cup {NoOp}] /\ worker'.pc = "idle"
      BY <2>4 DEF Restart, Pcs
    <3>4. \A i \in Ids : status[i] = "absent" => status'[i] = "absent"
      BY <2>4 DEF Restart
    <3> QED BY <2>4, <3>1, <3>2, <3>3, <3>4 DEF Restart
  <2>5. CASE WorkerDies
    BY <2>5 DEF WorkerDies, Freed, Pcs
  <2> QED BY <1>6, <2>1, <2>2, <2>3, <2>4, <2>5 DEF Lifetime
<1>7. CASE Host
  BY <1>7 DEF Host, OtherAcquires, OtherReleases, AdminEdits, Tick
<1>8. CASE UNCHANGED vars
  BY <1>8 DEF vars
<1> QED BY <1>1, <1>2, <1>3, <1>4, <1>5, <1>6, <1>7, <1>8 DEF Next, Submit, Worker

\* Type correctness of the operation ledger and its worker.
THEOREM TypeCorrect == Spec => []TypeOK
<1>1. Init => TypeInv
  <2> SUFFICES ASSUME Init PROVE TypeInv
    OBVIOUS
  <2>1. worker \in [pc : Pcs, op : Ids \cup {NoOp}] /\ worker.pc = "idle"
    BY DEF Init, Pcs
  <2>2. persisted \in [Ids -> SUBSET {"intention", "gain", "source"}]
    BY DEF Init
  <2> QED BY <2>1, <2>2 DEF Init, TypeInv, TypeOK, Working, Statuses, Phases
<1>2. TypeInv => TypeOK
  BY DEF TypeInv
<1> QED BY <1>1, <1>2, TypeInductive, PTL DEF Spec

-----------------------------------------------------------------------------
(* What the ledger claims. *)

\* Where the worker is, against the lock, the revisions and the history.
WorkerInv ==
    worker.pc \notin {"idle", "exited"} =>
        /\ worker.pc \in {"checked", "saving", "saved", "applying", "leaving"} => lock = "worker"
        /\ worker.pc \in {"picked", "attempt", "waiting", "checked", "saving"} =>
             worker.op \notin committed
        /\ worker.pc \in {"checked", "saving"} => request[worker.op].control = control
        /\ worker.pc \in {"saved", "leaving", "returned"} =>
             worker.op \in committed \/ request[worker.op].action \in FavoriteActions
        /\ worker.pc = "applying" =>
             worker.op \in committed /\ phase[worker.op] = "intention_persisted"
        /\ worker.pc = "raised" /\ worker.op \in committed => phase[worker.op] \in AmbiguousPhases

\* What a row says, against the history.
RowInv ==
    \A i \in Ids :
        /\ status[i] \in {"absent", "queued", "running"} => applied[i] = "no"
        /\ i \in committed => status[i] \notin {"absent", "queued"} /\ request[i].control < control

IInv == TypeInv /\ WorkerInv /\ RowInv /\ LedgerTellsTheTruth /\ OneCommitPerRevision

LEMMA IInvInductive == IInv /\ [Next]_vars => IInv'
<1> SUFFICES ASSUME IInv, [Next]_vars PROVE IInv'
  OBVIOUS
<1>0. TypeInv /\ TypeInv'
  BY TypeInductive DEF IInv
<1>00. \A i \in Ids : status[i] # "absent" => request[i].control \in Nat
  BY DEF IInv, TypeInv, TypeOK, Request
<1> USE <1>0 DEF IInv, WorkerInv, RowInv, LedgerTellsTheTruth, OneCommitPerRevision, ledger, process, host
<1> USE DEF TypeInv, TypeOK, Working
<1>1. ASSUME NEW i \in Ids, NEW lane \in Lanes, NEW key \in Keys, NEW cfg \in 0..config,
             NEW ctl \in 0..control, NEW action \in LaneActions(lane),
             Accept(i, lane, key, action, cfg, ctl)
      PROVE  IInv'
  <2>1. \A j \in Ids \ {i} : request'[j] = request[j]
    BY <1>1 DEF Accept
  <2>2. \A j \in Ids \ {i} :
          \/ status'[j] = status[j]
          \/ status'[j] = "pruned" /\ status[j] \notin {"absent", "queued", "running"}
          \/ status'[j] = "superseded" /\ status[j] = "queued"
    BY <1>1 DEF Accept, Prunable, Present, Pending, Queued
  <2>3. status[i] = "absent" /\ status'[i] = "queued" /\ i \notin committed
    BY <1>1 DEF Accept
  <2>4. UNCHANGED <<persisted, applied, worker, lock, control, committed>>
    BY <1>1 DEF Accept
  <2>5. \A j \in Ids \ {i} : phase'[j] = phase[j]
    BY <1>1 DEF Accept
  <2>6. WorkerInv'
    BY <2>1, <2>3, <2>4, <2>5
  <2>7. RowInv' /\ OneCommitPerRevision'
    BY <2>1, <2>2, <2>3, <2>4
  <2>8. LedgerTellsTheTruth'
    BY <2>1, <2>2, <2>3, <2>4 DEF Terminal
  <2> QED BY <2>6, <2>7, <2>8
<1>2. ASSUME NEW i \in Ids, Pick(i) PROVE IInv'
  BY <1>2 DEF Pick, At, Terminal
<1>3. CASE Attempt
  <2>1. CASE Expire
    BY <2>1 DEF Expire, At, Goto, Op, Report, LoopAgain, Terminal
  <2>2. CASE Begin
    BY <2>2 DEF Begin, At, Goto, Op
  <2>3. CASE Busy
    BY <2>3 DEF Busy, At, Goto, Op
  <2>4. CASE BusyGivesUp
    BY <2>4 DEF BusyGivesUp, At, Goto, Op
  <2>5. CASE WaitEnds
    BY <2>5 DEF WaitEnds, At, Goto, Op
  <2>6. CASE Conflict
    BY <2>6 DEF Conflict, At, Goto, Op
  <2>7. CASE Acquire
    BY <2>7 DEF Acquire, At, Goto, Op, Current
  <2> QED BY <1>3, <2>1, <2>2, <2>3, <2>4, <2>5, <2>6, <2>7 DEF Attempt
<1>4. CASE Execute
  <2>1. CASE Refuse
    BY <2>1 DEF Refuse, At, Goto, Op, Raise
  <2>2. CASE Announce
    BY <2>2 DEF Announce, At, Goto, Op
  <2>3. CASE Save
    <3> DEFINE op == worker.op
    <3>1. op \in Ids /\ status[op] = "running" /\ op \notin committed /\ request[op].control = control
      BY <2>3 DEF Save, At
    <3>2. committed' = committed \cup {op} /\ control' = control + 1 /\ lock = "worker"
      BY <2>3 DEF Save, Op, At
    <3>3. worker'.pc = "saved" /\ worker'.op = op
      BY <2>3 DEF Save, Goto
    <3>4. UNCHANGED <<request, status, phase, persisted, applied, lock>>
      BY <2>3 DEF Save
    <3>5. RowInv'
      BY <1>00, <3>1, <3>2, <3>4
    <3>6. OneCommitPerRevision'
      BY <1>00, <3>1, <3>2, <3>4
    <3>7. LedgerTellsTheTruth'
      BY <3>1, <3>2, <3>4 DEF Terminal
    <3>8. WorkerInv'
      BY <3>1, <3>2, <3>3, <3>4
    <3> QED BY <3>5, <3>6, <3>7, <3>8
  <2>4. CASE SaveNothing
    BY <2>4 DEF SaveNothing, At, Goto, Op, Action
  <2>5. CASE SaveFails
    BY <2>5 DEF SaveFails, At, Goto, Op, Raise
  <2>6. CASE Checkpoints
    BY <2>6 DEF Checkpoints, At, Goto, Op, Action, Checkpoint
  <2>7. CASE Apply
    BY <1>00, <2>7 DEF Apply, At, Goto, Op, StreamWrites
  <2>8. CASE ApplyFails
    BY <1>00, <2>8 DEF ApplyFails, At, Goto, Op, Raise, StreamWrites, AmbiguousPhases
  <2>9. CASE Leave
    BY <2>9 DEF Leave, At, Goto, Op, Action
  <2> QED BY <1>4, <2>1, <2>2, <2>3, <2>4, <2>5, <2>6, <2>7, <2>8, <2>9 DEF Execute
<1>5. CASE Conclude
  <2>1. CASE Complete
    BY <2>1 DEF Complete, At, Goto, Op, Report, LoopAgain, Terminal
  <2>2. CASE RecordFailure
    BY <2>2 DEF RecordFailure, At, Goto, Op, Report, LoopAgain, Terminal
  <2>3. CASE NoticeStop
    BY <2>3 DEF NoticeStop, At, Goto, Op
  <2> QED BY <1>5, <2>1, <2>2, <2>3 DEF Conclude
<1>6. CASE Lifetime
  <2>1. CASE Close
    BY <2>1 DEF Close, Freed
  <2>2. CASE Exit
    BY <2>2 DEF Exit, Freed
  <2>3. CASE Crash
    BY <2>3 DEF Crash, Freed
  <2>4. CASE Restart
    BY <2>4 DEF Restart, Freed, Terminal
  <2>5. CASE WorkerDies
    BY <2>5 DEF WorkerDies, Freed
  <2> QED BY <1>6, <2>1, <2>2, <2>3, <2>4, <2>5 DEF Lifetime
<1>7. CASE Host
  <2>1. CASE OtherAcquires
    BY <2>1 DEF OtherAcquires
  <2>2. CASE OtherReleases
    BY <1>00, <2>2 DEF OtherReleases
  <2>3. CASE AdminEdits
    BY <2>3 DEF AdminEdits
  <2>4. CASE Tick
    BY <2>4 DEF Tick
  <2> QED BY <1>7, <2>1, <2>2, <2>3, <2>4 DEF Host
<1>8. CASE UNCHANGED vars
  BY <1>8 DEF vars
<1> QED BY <1>1, <1>2, <1>3, <1>4, <1>5, <1>6, <1>7, <1>8 DEF Next, Submit, Worker

-----------------------------------------------------------------------------
(* How rows move. *)

\* A step other than a submission leaves the requests alone, and moves a row
\* only from queued to running and from running to an outcome.
LEMMA RowSteps ==
    ASSUME TypeInv, Worker \/ Lifetime \/ Host \/ UNCHANGED vars
    PROVE  /\ UNCHANGED <<request, accepted>>
           /\ clock' \in Nat /\ clock <= clock'
           /\ \A i \in Ids :
                \/ status'[i] = status[i] /\ applied'[i] = applied[i]
                \/ status[i] = "queued" /\ status'[i] = "running" /\ applied'[i] = applied[i]
                \/ status[i] = "running" /\ status'[i] \in Terminal \ {"superseded"}
<1> USE DEF TypeInv, TypeOK, Working, ledger, process, host
<1>1. ASSUME NEW i \in Ids, Pick(i) PROVE UNCHANGED <<request, accepted, clock, applied>>
                /\ status[i] = "queued" /\ status' = [status EXCEPT ![i] = "running"]
  BY <1>1 DEF Pick
<1>2. CASE Attempt
  BY <1>2 DEF Attempt, Expire, Begin, Busy, BusyGivesUp, WaitEnds, Conflict, Acquire, At, Op,
     Report, Terminal
<1>3. CASE Execute
  BY <1>3 DEF Execute, Refuse, Announce, Save, SaveNothing, SaveFails, Checkpoints, Apply,
     ApplyFails, Leave
<1>4. CASE Conclude
  BY <1>4 DEF Conclude, Complete, RecordFailure, NoticeStop, At, Op, Report, Terminal
<1>5. CASE Lifetime
  BY <1>5 DEF Lifetime, Close, Exit, Crash, Restart, WorkerDies, Terminal
<1>6. CASE Host
  BY <1>6 DEF Host, OtherAcquires, OtherReleases, AdminEdits, Tick
<1>7. CASE UNCHANGED vars
  BY <1>7 DEF vars
<1> QED BY <1>1, <1>2, <1>3, <1>4, <1>5, <1>6, <1>7 DEF Worker

\* A submission adds one row, the newest, and may only supersede queued rows of
\* its lane and prune rows that are old enough.
LEMMA AcceptRows ==
    ASSUME TypeInv, Submit
    PROVE  \E i \in Ids :
             /\ status[i] = "absent" /\ status'[i] = "queued"
             /\ request'[i].order = accepted /\ request'[i].created = clock
             /\ accepted' = accepted + 1 /\ clock' = clock
             /\ applied' = applied
             /\ \A j \in Ids \ {i} :
                  /\ request'[j] = request[j]
                  /\ \/ /\ status'[j] = status[j]
                        /\ status[j] = "queued" => request[j].lane # request'[i].lane
                     \/ /\ status[j] = "queued" /\ status'[j] = "superseded"
                        /\ request[j].lane = request'[i].lane
                     \/ /\ status[j] \in Terminal /\ status'[j] = "pruned"
                        /\ request[j].created + Retention < clock
             /\ \A j \in Present :
                  request[j].lane # request'[i].lane \/ request[j].key # request'[i].key
<1> USE DEF TypeInv, TypeOK
<1>1. PICK i \in Ids, lane \in Lanes, key \in Keys, cfg \in 0..config, ctl \in 0..control :
           \E action \in LaneActions(lane) : Accept(i, lane, key, action, cfg, ctl)
  BY DEF Submit
<1>2. PICK action \in LaneActions(lane) : Accept(i, lane, key, action, cfg, ctl)
  BY <1>1
<1>3. /\ status[i] = "absent" /\ status'[i] = "queued"
      /\ request'[i].order = accepted /\ request'[i].created = clock
      /\ request'[i].lane = lane /\ request'[i].key = key
      /\ accepted' = accepted + 1 /\ clock' = clock
      /\ applied' = applied
  BY <1>2 DEF Accept
<1>4. \A j \in Ids \ {i} :
        /\ request'[j] = request[j]
        /\ \/ /\ status'[j] = status[j]
              /\ status[j] = "queued" => request[j].lane # lane
           \/ /\ status[j] = "queued" /\ status'[j] = "superseded"
              /\ request[j].lane = lane
           \/ /\ status[j] \in Terminal /\ status'[j] = "pruned"
              /\ request[j].created + Retention < clock
  <2> TAKE j \in Ids \ {i}
  <2>1. request'[j] = request[j]
    BY <1>2 DEF Accept
  <2>2. CASE j \in Prunable
    <3>1. status[j] \in Terminal /\ request[j].created + Retention < clock
      BY <2>2 DEF Prunable, Present, Pending, Statuses
    <3>2. j \notin Queued(lane)
      BY <2>2 DEF Prunable, Pending, Queued
    <3>3. status'[j] = "pruned"
      BY <1>2, <2>2, <3>2 DEF Accept
    <3> QED BY <2>1, <3>1, <3>3
  <2>3. CASE j \notin Prunable /\ j \in Queued(lane)
    BY <1>2, <2>1, <2>3 DEF Accept, Queued
  <2>4. CASE j \notin Prunable /\ j \notin Queued(lane)
    BY <1>2, <2>1, <2>4 DEF Accept, Queued
  <2> QED BY <2>2, <2>3, <2>4
<1>5. \A j \in Present : request[j].lane # lane \/ request[j].key # key
  BY <1>2 DEF Accept
<1> QED BY <1>3, <1>4, <1>5

\* In every lane the newest accepted row is the only one that can be queued.
LaneInv ==
    /\ \A i \in Ids : status[i] # "absent" => request[i].order < accepted
    /\ \A i, j \in Ids :
         status[i] = "queued" /\ status[j] # "absent" /\ request[j].lane = request[i].lane
         => request[j].order <= request[i].order

\* A key of the ledger belongs to one row; a forgotten row is old.
KeyInv ==
    /\ \A i, j \in Present :
         request[i].lane = request[j].lane /\ request[i].key = request[j].key => i = j
    /\ \A i \in Ids : status[i] = "pruned" => request[i].created + Retention < clock
    /\ KeyIdentifiesOneOperation

LEMMA LaneAndKeyInductive ==
    TypeInv /\ LaneInv /\ KeyInv /\ [Next]_vars => LaneInv' /\ KeyInv'
<1> SUFFICES ASSUME TypeInv, LaneInv, KeyInv, [Next]_vars PROVE LaneInv' /\ KeyInv'
  OBVIOUS
<1>0. /\ \A i \in Ids : status[i] # "absent" =>
            request[i].order \in Nat /\ request[i].created \in Nat
      /\ clock \in Nat /\ accepted \in Nat /\ Retention \in Nat
  BY LimitsAssumption DEF TypeInv, TypeOK, Request
<1> USE DEF LaneInv, KeyInv, KeyIdentifiesOneOperation, Present
<1>1. CASE Submit
  <2>1. PICK i \in Ids :
             /\ status[i] = "absent" /\ status'[i] = "queued"
             /\ request'[i].order = accepted /\ request'[i].created = clock
             /\ accepted' = accepted + 1 /\ clock' = clock
             /\ \A j \in Ids \ {i} :
                  /\ request'[j] = request[j]
                  /\ \/ /\ status'[j] = status[j]
                        /\ status[j] = "queued" => request[j].lane # request'[i].lane
                     \/ /\ status[j] = "queued" /\ status'[j] = "superseded"
                        /\ request[j].lane = request'[i].lane
                     \/ /\ status[j] \in Terminal /\ status'[j] = "pruned"
                        /\ request[j].created + Retention < clock
             /\ \A j \in Present :
                  request[j].lane # request'[i].lane \/ request[j].key # request'[i].key
    BY <1>1, AcceptRows
  <2>2. \A j \in Ids \ {i} : (status'[j] = "absent" <=> status[j] = "absent")
                            /\ (status'[j] = "queued" => status[j] = "queued")
                            /\ (status'[j] \notin {"absent", "pruned"} =>
                                 status[j] \notin {"absent", "pruned"})
    BY <2>1 DEF Terminal
  <2>3. LaneInv'
    BY <1>0, <2>1, <2>2
  <2>4. (\A j \in Ids : status[j] = "pruned" => request[j].created + Retention < clock)'
    BY <1>0, <2>1
  <2>5. (\A j, k \in Present :
           request[j].lane = request[k].lane /\ request[j].key = request[k].key => j = k)'
    BY <2>1, <2>2
  <2>6. ASSUME NEW j \in Ids, NEW k \in Ids, j # k, status'[j] # "absent", status'[k] # "absent",
               request'[j].lane = request'[k].lane, request'[j].key = request'[k].key,
               request'[j].order < request'[k].order
        PROVE  request'[j].created + Retention < request'[k].created
    <3>1. CASE j = i
      BY <1>0, <2>1, <2>2, <2>6, <3>1
    <3>2. CASE k = i
      <4>1. status[j] # "absent" /\ j \notin Present
        BY <2>1, <2>2, <2>6, <3>2
      <4> QED BY <1>0, <2>1, <2>6, <3>2, <4>1
    <3>3. CASE j # i /\ k # i
      BY <2>1, <2>2, <2>6, <3>3
    <3> QED BY <3>1, <3>2, <3>3
  <2> QED BY <2>3, <2>4, <2>5, <2>6
<1>2. CASE Worker \/ Lifetime \/ Host \/ UNCHANGED vars
  <2>1. /\ UNCHANGED <<request, accepted>>
        /\ clock' \in Nat /\ clock <= clock'
        /\ \A i \in Ids :
             \/ status'[i] = status[i]
             \/ status[i] = "queued" /\ status'[i] = "running"
             \/ status[i] = "running" /\ status'[i] \in Terminal \ {"superseded"}
    BY <1>2, RowSteps
  <2>2. \A i \in Ids : /\ status'[i] = "queued" => status[i] = "queued"
                       /\ status'[i] = "pruned" <=> status[i] = "pruned"
                       /\ status'[i] = "absent" <=> status[i] = "absent"
    BY <2>1 DEF Terminal
  <2>3. LaneInv'
    BY <2>1, <2>2
  <2>4. KeyInv'
    BY <1>0, <2>1, <2>2
  <2> QED BY <2>3, <2>4
<1> QED BY <1>1, <1>2 DEF Next

-----------------------------------------------------------------------------
(* The theorems. *)

LEMMA InitInvariants == Init => IInv /\ LaneInv /\ KeyInv
<1> SUFFICES ASSUME Init PROVE IInv /\ LaneInv /\ KeyInv
  OBVIOUS
<1>1. worker \in [pc : Pcs, op : Ids \cup {NoOp}] /\ worker.pc = "idle"
  BY DEF Init, Pcs
<1>2. persisted \in [Ids -> SUBSET {"intention", "gain", "source"}]
  BY DEF Init
<1>3. TypeInv
  BY <1>1, <1>2 DEF Init, TypeInv, TypeOK, Working, Statuses, Phases
<1>4. WorkerInv /\ RowInv /\ OneCommitPerRevision
  BY <1>1 DEF Init, WorkerInv, RowInv, OneCommitPerRevision
<1>5. LedgerTellsTheTruth
  BY DEF Init, LedgerTellsTheTruth, Terminal
<1>6. LaneInv /\ KeyInv
  BY DEF Init, LaneInv, KeyInv, Present, KeyIdentifiesOneOperation
<1> QED BY <1>3, <1>4, <1>5, <1>6 DEF IInv

\* The invariants hold in every reachable state.
THEOREM InvariantsHold == Spec => [](IInv /\ LaneInv /\ KeyInv)
<1>1. IInv /\ LaneInv /\ KeyInv /\ [Next]_vars => (IInv /\ LaneInv /\ KeyInv)'
  BY IInvInductive, LaneAndKeyInductive DEF IInv
<1> QED BY <1>1, InitInvariants, PTL DEF Spec

\* Optimistic concurrency: no two commands ever write over one control revision.
THEOREM CommitsAreSerialized == Spec => []OneCommitPerRevision
<1>1. IInv => OneCommitPerRevision
  BY DEF IInv
<1> QED BY <1>1, InvariantsHold, PTL

\* What the ledger tells a client about a command is true of the host.
THEOREM LedgerIsTruthful == Spec => []LedgerTellsTheTruth
<1>1. IInv => LedgerTellsTheTruth
  BY DEF IInv
<1> QED BY <1>1, InvariantsHold, PTL

\* Within the retention time a key makes one operation only.
THEOREM RetriesAreSafe == Spec => []KeyIdentifiesOneOperation
<1>1. KeyInv => KeyIdentifiesOneOperation
  BY DEF KeyInv
<1> QED BY <1>1, InvariantsHold, PTL

-----------------------------------------------------------------------------
(* The limits of the ledger. *)

LimitInv == IsFiniteSet(Present) /\ WithinLimits

\* Room is counted and taken in one transaction; nothing else adds a row.
LEMMA LimitNext == TypeInv /\ LimitInv /\ [Next]_vars => LimitInv'
<1> SUFFICES ASSUME TypeInv, LimitInv, [Next]_vars PROVE LimitInv'
  OBVIOUS
<1>1. IsFiniteSet(Present) /\ IsFiniteSet(Pending) /\ IsFiniteSet(Present \ Prunable)
  <2>1. Pending \subseteq Present /\ Present \ Prunable \subseteq Present
    BY DEF Pending, Present
  <2> QED BY <2>1, FS_Subset DEF LimitInv
<1>2. /\ Cardinality(Present) \in Nat /\ Cardinality(Pending) \in Nat
      /\ Cardinality(Present \ Prunable) \in Nat
  BY <1>1, FS_CardinalityType
<1>3. CASE Submit
  <2>1. PICK i \in Ids, lane \in Lanes, key \in Keys, cfg \in 0..config, ctl \in 0..control :
             \E action \in LaneActions(lane) : Accept(i, lane, key, action, cfg, ctl)
    BY <1>3 DEF Submit
  <2>2. /\ HasRoom
        /\ status' = [j \in Ids |-> CASE j = i -> "queued"
                                      [] j # i /\ j \in Prunable -> "pruned"
                                      [] j # i /\ j \in Queued(lane) -> "superseded"
                                      [] OTHER -> status[j]]
    BY <2>1 DEF Accept
  <2>3. \A j \in Ids \ {i} : \/ j \in Prunable /\ status'[j] = "pruned"
                             \/ j \notin Prunable /\ j \in Queued(lane) /\ status'[j] = "superseded"
                             \/ j \notin Prunable /\ status'[j] = status[j]
    <3> TAKE j \in Ids \ {i}
    <3>1. CASE j \in Prunable
      <4>1. j \notin Queued(lane)
        BY <3>1 DEF Prunable, Pending, Queued
      <4> QED BY <2>2, <3>1, <4>1
    <3>2. CASE j \notin Prunable /\ j \in Queued(lane)
      BY <2>2, <3>2
    <3>3. CASE j \notin Prunable /\ j \notin Queued(lane)
      BY <2>2, <3>3
    <3> QED BY <3>1, <3>2, <3>3
  <2>4. Present' \subseteq (Present \ Prunable) \cup {i} /\ Pending' \subseteq Pending \cup {i}
    BY <2>3 DEF Present, Pending, Queued
  <2> DEFINE room == (Present \ Prunable) \cup {i}
             work == Pending \cup {i}
  <2>5. /\ IsFiniteSet(room) /\ Cardinality(room) <= Cardinality(Present \ Prunable) + 1
        /\ IsFiniteSet(work) /\ Cardinality(work) <= Cardinality(Pending) + 1
    <3>1. /\ IsFiniteSet(room)
          /\ Cardinality(room) = IF i \in Present \ Prunable THEN Cardinality(Present \ Prunable)
                                 ELSE Cardinality(Present \ Prunable) + 1
      BY <1>1, FS_AddElement
    <3>2. /\ IsFiniteSet(work)
          /\ Cardinality(work) = IF i \in Pending THEN Cardinality(Pending)
                                 ELSE Cardinality(Pending) + 1
      BY <1>1, FS_AddElement
    <3> HIDE DEF room, work
    <3> QED BY <1>2, <3>1, <3>2
  <2> HIDE DEF room, work
  <2>6. Present' \subseteq room /\ Pending' \subseteq work
    BY <2>4 DEF room, work
  <2>7. /\ IsFiniteSet(Present') /\ Cardinality(Present') <= Cardinality(room)
        /\ IsFiniteSet(Pending') /\ Cardinality(Pending') <= Cardinality(work)
    BY <2>5, <2>6, FS_Subset
  <2>8. /\ Cardinality(Present') \in Nat /\ Cardinality(Pending') \in Nat
        /\ Cardinality(room) \in Nat /\ Cardinality(work) \in Nat
    BY <2>5, <2>7, FS_CardinalityType
  <2>9. Cardinality(Present') <= LedgerLimit /\ Cardinality(Pending') <= Capacity
    BY <1>2, <2>2, <2>5, <2>7, <2>8, LimitsAssumption DEF HasRoom
  <2> QED BY <2>7, <2>9 DEF LimitInv, WithinLimits
<1>4. CASE Worker \/ Lifetime \/ Host \/ UNCHANGED vars
  <2>1. \A i \in Ids : \/ status'[i] = status[i]
                       \/ status[i] = "queued" /\ status'[i] = "running"
                       \/ status[i] = "running" /\ status'[i] \in Terminal
    BY <1>4, RowSteps
  <2>2. Present' = Present /\ Pending' \subseteq Pending
    BY <2>1 DEF Present, Pending, Terminal
  <2>3. IsFiniteSet(Pending') /\ Cardinality(Pending') <= Cardinality(Pending)
    BY <1>1, <2>2, FS_Subset
  <2>4. Cardinality(Pending') \in Nat
    BY <2>3, FS_CardinalityType
  <2> QED BY <1>2, <2>2, <2>3, <2>4, LimitsAssumption DEF LimitInv, WithinLimits
<1> QED BY <1>3, <1>4 DEF Next

\* In every run the ledger has no more rows, and no more that are not finished, than allowed.
THEOREM LimitsHold == Spec => []WithinLimits
<1>1. Init => LimitInv
  <2> SUFFICES ASSUME Init PROVE LimitInv
    OBVIOUS
  <2>1. Present = {} /\ Pending = {}
    BY DEF Init, Present, Pending
  <2> QED BY <2>1, FS_EmptySet, LimitsAssumption DEF LimitInv, WithinLimits
<1>2. IInv => TypeInv
  BY DEF IInv
<1>3. LimitInv => WithinLimits
  BY DEF LimitInv
<1> QED BY <1>1, <1>2, <1>3, LimitNext, InvariantsHold, PTL DEF Spec

\* A row of a lane starts only if none was accepted after it.
THEOREM NewestTargetRuns == Spec => NewerTargetWins
<1>1. TypeInv /\ LaneInv /\ [Next]_vars =>
        [\A i, j \in Ids :
           /\ status[i] = "queued" /\ status'[i] = "running"
           /\ status[j] # "absent" /\ request[j].lane = request[i].lane
           => request[j].order <= request[i].order]_vars
  BY DEF LaneInv
<1> QED BY <1>1, InvariantsHold, PTL DEF Spec, NewerTargetWins, IInv

\* A command that started is never started again, and its outcome never changes.
THEOREM NothingIsReplayed == Spec => OutcomesAreFinal
<1>1. TypeInv /\ [Next]_vars =>
        [\A i \in Ids :
           /\ status[i] = "running" => status'[i] \in {"running"} \cup (Terminal \ {"superseded"})
           /\ status[i] \in Terminal =>
                \/ status'[i] = status[i] /\ applied'[i] = applied[i]
                \/ status'[i] = "pruned"
           /\ status[i] = "pruned" => status'[i] = "pruned"]_vars
  <2> SUFFICES ASSUME TypeInv, [Next]_vars, NEW i \in Ids
               PROVE  /\ status[i] = "running" =>
                           status'[i] \in {"running"} \cup (Terminal \ {"superseded"})
                      /\ status[i] \in Terminal =>
                           \/ status'[i] = status[i] /\ applied'[i] = applied[i]
                           \/ status'[i] = "pruned"
                      /\ status[i] = "pruned" => status'[i] = "pruned"
    OBVIOUS
  <2>1. CASE Submit
    BY <2>1, AcceptRows DEF Terminal, TypeInv, TypeOK
  <2>2. CASE Worker \/ Lifetime \/ Host \/ UNCHANGED vars
    BY <2>2, RowSteps DEF Terminal
  <2> QED BY <2>1, <2>2 DEF Next
<1> QED BY <1>1, InvariantsHold, PTL DEF Spec, OutcomesAreFinal, IInv

\* A command's write replaces exactly the state that its author had seen.
THEOREM NoLostUpdate == Spec => WritesWhatWasSeen
<1>1. IInv /\ [Next]_vars =>
        [\A i \in Ids : i \in committed' \ committed =>
           status[i] = "running" /\ request[i].control = control /\ lock = "worker"]_vars
  <2> SUFFICES ASSUME IInv, [Next]_vars, NEW i \in Ids, i \in committed' \ committed
               PROVE  status[i] = "running" /\ request[i].control = control /\ lock = "worker"
    OBVIOUS
  <2>1. Save
    <3>1. CASE Submit
      BY <3>1 DEF Submit, Accept
    <3>2. ASSUME NEW j \in Ids, Pick(j) PROVE FALSE
      BY <3>2 DEF Pick
    <3>3. CASE Attempt
      BY <3>3 DEF Attempt, Expire, Begin, Busy, BusyGivesUp, WaitEnds, Conflict, Acquire
    <3>4. CASE Execute
      BY <3>4 DEF Execute, Refuse, Announce, SaveNothing, SaveFails, Checkpoints, Apply,
         ApplyFails, Leave
    <3>5. CASE Conclude
      BY <3>5 DEF Conclude, Complete, RecordFailure, NoticeStop
    <3>6. CASE Lifetime
      BY <3>6 DEF Lifetime, Close, Exit, Crash, Restart, WorkerDies
    <3>7. CASE Host
      BY <3>7 DEF Host, OtherAcquires, OtherReleases, AdminEdits, Tick
    <3>8. CASE UNCHANGED vars
      BY <3>8 DEF vars
    <3> QED BY <3>1, <3>2, <3>3, <3>4, <3>5, <3>6, <3>7, <3>8 DEF Next, Worker
  <2>2. i = worker.op /\ worker.pc = "saving"
    BY <2>1 DEF Save, At, Op
  <2> QED BY <2>2 DEF IInv, TypeInv, Working, WorkerInv
<1> QED BY <1>1, InvariantsHold, PTL DEF Spec, WritesWhatWasSeen

-----------------------------------------------------------------------------
(* Refinement. *)

\* Every step of the ledger and its worker is a step of the abstract lifecycle
\* of a command, or changes nothing that the lifecycle shows.
LEMMA StepSimulation == IInv /\ [Next]_vars => [Lifecycle!Next]_(Lifecycle!vars)
<1> SUFFICES ASSUME IInv, [Next]_vars PROVE [Lifecycle!Next]_(Lifecycle!vars)
  OBVIOUS
<1> USE DEF IInv, TypeInv, TypeOK, Working, ledger, process, host
<1>1. ASSUME NEW i \in Ids, NEW lane \in Lanes, NEW key \in Keys, NEW cfg \in 0..config,
             NEW ctl \in 0..control, NEW action \in LaneActions(lane),
             Accept(i, lane, key, action, cfg, ctl)
      PROVE  Lifecycle!Next
  <2>1. Queued(lane) \in SUBSET Ids /\ \A j \in Queued(lane) : status[j] = "queued"
    BY DEF Queued
  <2>2. Prunable \in SUBSET Ids /\ \A j \in Prunable : status[j] \in Lifecycle!Outcomes
    BY DEF Prunable, Present, Pending, Statuses, Terminal, Lifecycle!Outcomes
  <2> HIDE DEF IInv, TypeInv, TypeOK, Working
  <2>3. /\ status[i] = "absent"
        /\ status' = [j \in Ids |-> CASE j = i -> "queued"
                                     [] j # i /\ j \in Prunable -> "pruned"
                                     [] j # i /\ j \in Queued(lane) -> "superseded"
                                     [] OTHER -> status[j]]
        /\ UNCHANGED <<applied, committed>>
    BY <1>1 DEF Accept
  <2>4. Lifecycle!Accept(i, Queued(lane), Prunable)
    BY <2>1, <2>2, <2>3 DEF Lifecycle!Accept
  <2> QED BY <2>1, <2>2, <2>4 DEF Lifecycle!Next
<1>2. ASSUME NEW i \in Ids, Pick(i) PROVE Lifecycle!Next
  <2>1. Lifecycle!Start(i)
    BY <1>2 DEF Pick, Lifecycle!Start
  <2> QED BY <2>1 DEF Lifecycle!Next
<1>3. CASE Attempt
  <2>1. CASE Expire
    <3>1. Op \in Ids /\ status[Op] = "running" /\ applied[Op] = "no" /\ Op \notin committed
      BY <2>1 DEF Expire, At, Op, RowInv, WorkerInv
    <3>2. Lifecycle!Conclude(Op, "expired", "no")
      BY <2>1, <3>1 DEF Expire, Report, Lifecycle!Conclude
    <3> QED BY <3>1, <3>2 DEF Lifecycle!Next
  <2>2. CASE Begin \/ Busy \/ BusyGivesUp \/ WaitEnds \/ Conflict \/ Acquire
    BY <2>2 DEF Begin, Busy, BusyGivesUp, WaitEnds, Conflict, Acquire, Lifecycle!vars
  <2> QED BY <1>3, <2>1, <2>2 DEF Attempt
<1>4. CASE Execute
  <2>1. CASE Save
    <3>1. Op \in Ids /\ status[Op] = "running" /\ Op \notin committed
      BY <2>1 DEF Save, At, Op, WorkerInv
    <3>2. Lifecycle!TakeEffect(Op)
      BY <2>1, <3>1 DEF Save, Lifecycle!TakeEffect
    <3> QED BY <3>1, <3>2 DEF Lifecycle!Next
  <2>2. CASE Refuse \/ Announce \/ SaveNothing \/ SaveFails \/ Checkpoints \/ Apply
             \/ ApplyFails \/ Leave
    BY <2>2 DEF Refuse, Announce, SaveNothing, SaveFails, Checkpoints, Apply, ApplyFails, Leave,
       Lifecycle!vars
  <2> QED BY <1>4, <2>1, <2>2 DEF Execute
<1>5. CASE Conclude
  <2>1. CASE Complete
    <3>1. Op \in Ids /\ status[Op] = "running"
      BY <2>1 DEF Complete, At, Op
    <3>2. Lifecycle!Conclude(Op, "applied", "yes")
      BY <2>1, <3>1 DEF Complete, Report, Lifecycle!Conclude
    <3> QED BY <3>1, <3>2 DEF Lifecycle!Next
  <2>2. CASE RecordFailure
    <3> DEFINE says == IF phase[Op] \in AmbiguousPhases THEN "unknown" ELSE "no"
    <3>1. /\ Op \in Ids /\ status[Op] = "running"
          /\ Op \in committed => phase[Op] \in AmbiguousPhases
      BY <2>2 DEF RecordFailure, At, Op, WorkerInv
    <3>2. Lifecycle!Conclude(Op, "failed", says)
      BY <2>2, <3>1 DEF RecordFailure, Report, Lifecycle!Conclude
    <3>3. says \in {"yes", "no", "unknown"}
      OBVIOUS
    <3> HIDE DEF says
    <3> QED BY <3>1, <3>2, <3>3 DEF Lifecycle!Next
  <2>3. CASE NoticeStop
    BY <2>3 DEF NoticeStop, Lifecycle!vars
  <2> QED BY <1>5, <2>1, <2>2, <2>3 DEF Conclude
<1>6. CASE Lifetime
  <2>1. CASE Restart
    <3>1. Lifecycle!Interrupt
      BY <2>1 DEF Restart, Lifecycle!Interrupt
    <3> QED BY <3>1 DEF Lifecycle!Next
  <2>2. CASE Close \/ Exit \/ Crash \/ WorkerDies
    BY <2>2 DEF Close, Exit, Crash, WorkerDies, Lifecycle!vars
  <2> QED BY <1>6, <2>1, <2>2 DEF Lifetime
<1>7. CASE Host \/ UNCHANGED vars
  BY <1>7 DEF Host, OtherAcquires, OtherReleases, AdminEdits, Tick, vars, Lifecycle!vars
<1> QED BY <1>1, <1>2, <1>3, <1>4, <1>5, <1>6, <1>7 DEF Next, Submit, Worker

\* The ledger, worker, lock, crashes and restarts implement the abstract promise.
THEOREM LedgerImplementsLifecycle == Spec => ImplementsLifecycle
<1>1. Init => Lifecycle!Init
  BY DEF Init, Lifecycle!Init
<1> QED BY <1>1, StepSimulation, InvariantsHold, PTL DEF Spec, ImplementsLifecycle, Lifecycle!Spec
=============================================================================
