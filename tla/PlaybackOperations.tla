------------------------- MODULE PlaybackOperations -------------------------
(***************************************************************************)
(* The durable ledger of manual playback commands and the single worker    *)
(* that executes them (OperationManager, lib/playbackoperations.py),       *)
(* together with the part of MPDBackend it calls: the host-wide mutation   *)
(* lock, the two revisions a command names, and the order in which a       *)
(* command saves playback.json, reports progress and drives MPD.           *)
(*                                                                         *)
(* A row of the ledger is spread over the functions request, status,       *)
(* phase, persisted and applied, indexed by the operation's identity.      *)
(* They are SQLite rows: they survive a crash, everything of the process   *)
(* does not.  Rejected submissions change nothing (the transaction rolls   *)
(* back), so they are not steps; a repeated request with a key the ledger  *)
(* holds returns the stored row and is not a step either.                  *)
(***************************************************************************)
EXTENDS Naturals, FiniteSets

CONSTANTS
    Ids,            \* operation identities (uuid4, never reused)
    Outputs,        \* configured outputs; each is a lane of its own
    FavoritesLane,  \* the lane shared by all favorites edits
    Keys,           \* idempotency keys
    Actions,        \* the actions this agent accepts
    Capacity,       \* queued + running rows allowed
    LedgerLimit,    \* rows allowed
    Deadline,       \* execution-start deadline after acceptance
    Retention,      \* age after which a terminal row may be pruned
    MaxTime,        \* bound: the clock stops here
    MaxControl,     \* bound: background writes of playback.json
    MaxConfig,      \* bound: administrator edits of config.json
    NoOp, NoRequest \* "no operation", "no request yet"

Lanes == Outputs \cup {FavoritesLane}

TransportActions == {"play", "pause", "stop"}
StationActions   == {"set_tunein_station", "select_favorite"}
FavoriteActions  == {"add_favorite", "remove_favorite", "move_favorite"}
AllActions == TransportActions \cup {"set_gain"} \cup StationActions \cup FavoriteActions

ASSUME LanesAssumption  == FavoritesLane \notin Outputs
ASSUME ActionsAssumption == Actions \subseteq AllActions
ASSUME LimitsAssumption ==
    /\ Capacity \in Nat \ {0} /\ LedgerLimit \in Nat \ {0}
    /\ Deadline \in Nat \ {0} /\ Retention \in Nat
    /\ MaxTime \in Nat /\ MaxControl \in Nat /\ MaxConfig \in Nat
ASSUME NoneAssumption == NoOp \notin Ids

Terminal == {"applied", "failed", "expired", "superseded", "outcome_unknown"}

\* "absent": not yet used; "pruned": deleted from the ledger after Retention.
Statuses == {"absent", "queued", "running", "pruned"} \cup Terminal

Phases == {"none", "accepted", "executing", "waiting_for_backend",
           "favorites_saving", "intention_saving", "gain_applying", "source_saving",
           "source_persisted", "intention_persisted", "gain_saved", "gain_live",
           "complete"}

VARIABLES
    request,    \* the submitted fields of a row, and when it was accepted
    status,     \* the row's status
    phase,      \* the last progress checkpoint of the row
    persisted,  \* which requested_*_persisted flags of the row are true
    applied,    \* the row's claim: "yes", "no", or "unknown" (null)
    worker,     \* the worker thread: pc and the operation it executes
    up,         \* the agent process runs
    stopping,   \* close() was called
    failed,     \* the worker thread died on an unexpected exception
    lock,       \* holder of mpd_control.lock
    control,    \* control revision: number of writes of playback.json
    config,     \* configuration revision: number of edits of config.json
    clock,
    accepted,   \* history: number of accepted commands
    committed   \* history: commands whose own state write reached playback.json

ledger  == <<request, status, phase, persisted, applied>>
process == <<worker, up, stopping, failed>>
host    == <<lock, control, config>>
vars    == <<ledger, process, host, clock, accepted, committed>>

-----------------------------------------------------------------------------
(* The ledger. *)

Present == {i \in Ids : status[i] \notin {"absent", "pruned"}}
Pending == {i \in Ids : status[i] \in {"queued", "running"}}

QueuedIgnored(lane) == {}   \* mutant of Queued: nothing is superseded
Queued(lane) == {i \in Ids : status[i] = "queued" /\ request[i].lane = lane}

PrunableAtAnyAge == Present \ Pending   \* mutant of Prunable: age not tested
\* DELETE ... WHERE created < now - RETENTION AND status NOT IN (queued, running)
Prunable == {i \in Present \ Pending : request[i].created + Retention < clock}

\* Room is counted after the pruning of the same transaction.
HasRoomOffByOne ==                       \* mutant of HasRoom: "> limit" for ">= limit"
    Cardinality(Present \ Prunable) <= LedgerLimit /\ Cardinality(Pending) <= Capacity
HasRoom ==
    Cardinality(Present \ Prunable) < LedgerLimit /\ Cardinality(Pending) < Capacity

LaneActions(lane) ==
    Actions \cap (IF lane = FavoritesLane THEN FavoriteActions ELSE AllActions \ FavoriteActions)

CurrentIgnoresControl(cfg, ctl) == cfg = config   \* mutant of Current
\* _check_revisions: the command names both files as they are now.
Current(cfg, ctl) == cfg = config /\ ctl = control

OverdueNever(i) == FALSE   \* mutant of Overdue: retries while busy have no deadline
Overdue(i) == clock >= request[i].created + Deadline

Init ==
    /\ request   = [i \in Ids |-> NoRequest]
    /\ status    = [i \in Ids |-> "absent"]
    /\ phase     = [i \in Ids |-> "none"]
    /\ persisted = [i \in Ids |-> {}]
    /\ applied   = [i \in Ids |-> "no"]
    /\ worker    = [pc |-> "idle", op |-> NoOp]
    /\ up = TRUE /\ stopping = FALSE /\ failed = FALSE
    /\ lock = "free" /\ control = 0 /\ config = 0
    /\ clock = 0 /\ accepted = 0 /\ committed = {}

-----------------------------------------------------------------------------
(* Submission: one transaction under the manager's lock. *)

\* An accepted command: an unknown key, room in the ledger once old rows are
\* pruned, revisions that are current; it supersedes its lane's queued rows.
\* The deadline must fit below MaxTime so that the bounded clock can reach it.
Accept(i, lane, key, action, cfg, ctl) ==
    /\ up /\ ~stopping /\ ~failed
    /\ status[i] = "absent"
    /\ clock + Deadline <= MaxTime
    /\ \A j \in Present : request[j].lane # lane \/ request[j].key # key
    /\ HasRoom
    /\ Current(cfg, ctl)
    /\ request' = [request EXCEPT ![i] =
         [lane |-> lane, key |-> key, action |-> action, config |-> cfg,
          control |-> ctl, created |-> clock, order |-> accepted]]
    /\ status' = [j \in Ids |-> CASE j = i -> "queued"
                                  [] j # i /\ j \in Prunable -> "pruned"
                                  [] j # i /\ j \in Queued(lane) -> "superseded"
                                  [] OTHER -> status[j]]
    /\ phase' = [phase EXCEPT ![i] = "accepted"]
    /\ accepted' = accepted + 1
    /\ UNCHANGED <<persisted, applied, process, host, clock, committed>>

Submit ==
    \E i \in Ids, lane \in Lanes, key \in Keys, cfg \in 0..config, ctl \in 0..control :
        \E action \in LaneActions(lane) : Accept(i, lane, key, action, cfg, ctl)

-----------------------------------------------------------------------------
(* The worker: run_once and the backend calls it makes. *)

Op == worker.op
Action == request[Op].action
At(pc) == up /\ worker.pc = pc
Goto(pc) == worker' = [worker EXCEPT !.pc = pc]

\* The loop test of _run decides whether the worker takes one more row.
LoopAgain == worker' = [pc |-> IF stopping THEN "exited" ELSE "idle", op |-> NoOp]

Report(i, s, ph, app) ==
    /\ status'  = [status  EXCEPT ![i] = s]
    /\ phase'   = [phase   EXCEPT ![i] = ph]
    /\ applied' = [applied EXCEPT ![i] = app]

\* ORDER BY created, id LIMIT 1: the oldest row; identities break ties at random.
Pick(i) ==
    /\ At("idle")
    /\ status[i] = "queued"
    /\ \A j \in Ids : status[j] = "queued" => request[i].created <= request[j].created
    /\ status' = [status EXCEPT ![i] = "running"]
    /\ phase'  = [phase EXCEPT ![i] = "executing"]
    /\ worker' = [pc |-> "picked", op |-> i]
    /\ UNCHANGED <<request, persisted, applied, up, stopping, failed, host, clock,
                   accepted, committed>>

Expire ==
    /\ At("picked") /\ Overdue(Op)
    /\ Report(Op, "expired", phase[Op], applied[Op])
    /\ LoopAgain
    /\ UNCHANGED <<request, persisted, up, stopping, failed, host, clock, accepted, committed>>

Begin ==
    /\ At("picked") /\ ~Overdue(Op)
    /\ Goto("attempt")
    /\ UNCHANGED <<ledger, up, stopping, failed, host, clock, accepted, committed>>

\* Every attempt at a favorites edit reports its phase before it takes the lock.
AttemptPhase == IF Action \in FavoriteActions THEN "favorites_saving" ELSE phase[Op]

\* BackendBusy with time left: report, wait, and try again.
Busy ==
    /\ At("attempt") /\ lock # "free"
    /\ ~stopping /\ ~Overdue(Op)
    /\ phase' = [phase EXCEPT ![Op] = "waiting_for_backend"]
    /\ Goto("waiting")
    /\ UNCHANGED <<request, status, persisted, applied, up, stopping, failed, host, clock,
                   accepted, committed>>

BusyGivesUp ==
    /\ At("attempt") /\ lock # "free"
    /\ stopping \/ Overdue(Op)
    /\ phase' = [phase EXCEPT ![Op] = AttemptPhase]
    /\ Goto("raised")
    /\ UNCHANGED <<request, status, persisted, applied, up, stopping, failed, host, clock,
                   accepted, committed>>

WaitEnds ==
    /\ At("waiting")
    /\ Goto(IF stopping \/ Overdue(Op) THEN "raised" ELSE "attempt")
    /\ UNCHANGED <<ledger, up, stopping, failed, host, clock, accepted, committed>>

\* Inside the mutation lock, _check_revisions sees other revisions than named.
Conflict ==
    /\ At("attempt") /\ lock = "free"
    /\ ~Current(request[Op].config, request[Op].control)
    /\ phase' = [phase EXCEPT ![Op] = AttemptPhase]
    /\ Goto("raised")
    /\ UNCHANGED <<request, status, persisted, applied, up, stopping, failed, host, clock,
                   accepted, committed>>

Acquire ==
    /\ At("attempt") /\ lock = "free"
    /\ Current(request[Op].config, request[Op].control)
    /\ lock' = "worker"
    /\ phase' = [phase EXCEPT ![Op] = AttemptPhase]
    /\ Goto("checked")
    /\ UNCHANGED <<request, status, persisted, applied, up, stopping, failed, control, config,
                   clock, accepted, committed>>

\* An exception leaves the with-block: the lock is released before the
\* failure is recorded.
Raise ==
    /\ lock' = "free"
    /\ Goto("raised")

\* No station, unavailable station, unmanaged queue, unknown or full favorites,
\* unreadable files: refused before anything is changed.
Refuse ==
    /\ At("checked")
    /\ Raise
    /\ UNCHANGED <<ledger, up, stopping, failed, control, config, clock, accepted, committed>>

SavingPhaseIsAction(action) == action   \* mutant of SavingPhase
SavingPhase(action) ==
    CASE action \in TransportActions -> "intention_saving"
      [] action = "set_gain"         -> "gain_applying"
      [] action \in StationActions   -> "source_saving"
      [] action \in FavoriteActions  -> "favorites_saving"

Announce ==
    /\ At("checked")
    /\ phase' = [phase EXCEPT ![Op] = SavingPhase(Action)]
    /\ Goto("saving")
    /\ UNCHANGED <<request, status, persisted, applied, up, stopping, failed, host, clock,
                   accepted, committed>>

\* The command's own atomic replacement of playback.json.
Save ==
    /\ At("saving")
    /\ control' = control + 1
    /\ committed' = committed \cup {Op}
    /\ Goto("saved")
    /\ UNCHANGED <<ledger, up, stopping, failed, lock, config, clock, accepted>>

\* A favorites edit that changes nothing is not written ("updated is not state").
SaveNothing ==
    /\ At("saving") /\ Action \in FavoriteActions
    /\ Goto("saved")
    /\ UNCHANGED <<ledger, up, stopping, failed, host, clock, accepted, committed>>

SaveFails ==
    /\ At("saving")
    /\ Raise
    /\ UNCHANGED <<ledger, up, stopping, failed, control, config, clock, accepted, committed>>

\* The progress reports that follow the save, one ledger transaction each: the
\* phase, the flag it sets, and where the worker goes on from there.  The phase
\* gain_live stands for gain_deferred too, which an output that does not play gets.
Checkpoint(ph, flags, pc) ==
    /\ phase' = [phase EXCEPT ![Op] = ph]
    /\ persisted' = [persisted EXCEPT ![Op] = @ \cup flags]
    /\ Goto(pc)

Checkpoints ==
    /\ At("saved") /\ Action \notin FavoriteActions
    /\ CASE phase[Op] = "intention_saving" -> Checkpoint("intention_persisted", {"intention"}, "applying")
         [] phase[Op] = "source_saving"    -> Checkpoint("source_persisted", {"source"}, "saved")
         [] phase[Op] = "source_persisted" -> Checkpoint("intention_persisted", {"intention"}, "applying")
         [] phase[Op] = "gain_applying"    -> Checkpoint("gain_saved", {"gain"}, "saved")
         [] OTHER                          -> Checkpoint("gain_live", {}, "leaving")
    /\ UNCHANGED <<request, status, applied, up, stopping, failed, host, clock, accepted, committed>>

\* Starting a stream may itself save a resolved URL or a managed song id.
StreamWrites ==
    \/ UNCHANGED control
    \/ Action \in StationActions \cup {"play"} /\ control' = control + 1

Apply ==
    /\ At("applying")
    /\ StreamWrites
    /\ Goto("leaving")
    /\ UNCHANGED <<ledger, up, stopping, failed, lock, config, clock, accepted, committed>>

ApplyFails ==
    /\ At("applying")
    /\ StreamWrites
    /\ Raise
    /\ UNCHANGED <<ledger, up, stopping, failed, config, clock, accepted, committed>>

Leave ==
    /\ \/ At("leaving")
       \/ At("saved") /\ Action \in FavoriteActions
    /\ lock' = "free"
    /\ Goto("returned")
    /\ UNCHANGED <<ledger, up, stopping, failed, control, config, clock, accepted, committed>>

Complete ==
    /\ At("returned")
    /\ Report(Op, "applied", "complete", "yes")
    /\ LoopAgain
    /\ UNCHANGED <<request, persisted, up, stopping, failed, host, clock, accepted, committed>>

AmbiguousGainOnly == {"gain_applying"}   \* mutant of AmbiguousPhases
\* Phases after which a failure leaves the outcome unknown.
AmbiguousPhases == {"gain_applying", "source_persisted", "intention_persisted"}

RecordFailure ==
    /\ At("raised")
    /\ Report(Op, "failed", phase[Op], IF phase[Op] \in AmbiguousPhases THEN "unknown" ELSE "no")
    /\ LoopAgain
    /\ UNCHANGED <<request, persisted, up, stopping, failed, host, clock, accepted, committed>>

Freed == IF lock = "worker" THEN "free" ELSE lock

\* An exception run_once does not expect, for instance a ledger write that fails.
WorkerDies ==
    /\ up /\ worker.pc # "exited"
    /\ failed' = TRUE
    /\ worker' = [pc |-> "exited", op |-> NoOp]
    /\ lock' = Freed
    /\ UNCHANGED <<ledger, up, stopping, control, config, clock, accepted, committed>>

\* An idle worker wakes up, finds stop set and leaves its loop.
NoticeStop ==
    /\ At("idle") /\ stopping
    /\ worker' = [worker EXCEPT !.pc = "exited"]
    /\ UNCHANGED <<ledger, up, stopping, failed, host, clock, accepted, committed>>

-----------------------------------------------------------------------------
(* The process and the host. *)

Close ==
    /\ up /\ ~stopping
    /\ stopping' = TRUE
    /\ UNCHANGED <<ledger, worker, up, failed, host, clock, accepted, committed>>

\* close() joins the worker; the process ends.
Exit ==
    /\ up /\ stopping /\ worker.pc = "exited"
    /\ up' = FALSE /\ stopping' = FALSE /\ failed' = FALSE
    /\ UNCHANGED <<ledger, worker, host, clock, accepted, committed>>

\* The kernel releases the lock of a killed process.
Crash ==
    /\ up
    /\ up' = FALSE /\ stopping' = FALSE /\ failed' = FALSE
    /\ worker' = [pc |-> "exited", op |-> NoOp]
    /\ lock' = Freed
    /\ UNCHANGED <<ledger, control, config, clock, accepted, committed>>

\* Mutant of Restart: interrupted commands are queued again.
RestartRequeues ==
    /\ ~up
    /\ up' = TRUE
    /\ worker' = [pc |-> "idle", op |-> NoOp]
    /\ status' = [i \in Ids |-> IF status[i] = "running" THEN "queued" ELSE status[i]]
    /\ UNCHANGED <<request, phase, persisted, applied, stopping, failed, host, clock, accepted,
                   committed>>

\* _initialize marks what was running; flags that are not true become null,
\* which "outcome_unknown" stands for here.  Queued rows stay queued.
Restart ==
    /\ ~up
    /\ up' = TRUE
    /\ worker' = [pc |-> "idle", op |-> NoOp]
    /\ status'  = [i \in Ids |-> IF status[i] = "running" THEN "outcome_unknown" ELSE status[i]]
    /\ applied' = [i \in Ids |-> IF status[i] = "running" THEN "unknown" ELSE applied[i]]
    /\ UNCHANGED <<request, phase, persisted, stopping, failed, host, clock, accepted, committed>>

\* The supervisor and the command line hold the same lock, and may replace
\* playback.json before they release it.
OtherAcquires ==
    /\ lock = "free"
    /\ lock' = "other"
    /\ UNCHANGED <<ledger, process, control, config, clock, accepted, committed>>

OtherReleases ==
    /\ lock = "other"
    /\ lock' = "free"
    /\ \/ UNCHANGED control
       \/ control < MaxControl /\ control' = control + 1
    /\ UNCHANGED <<ledger, process, config, clock, accepted, committed>>

\* The administrator edits config.json without any lock.
AdminEdits ==
    /\ config < MaxConfig
    /\ config' = config + 1
    /\ UNCHANGED <<ledger, process, lock, control, clock, accepted, committed>>

Tick ==
    /\ clock < MaxTime
    /\ clock' = clock + 1
    /\ UNCHANGED <<ledger, process, host, accepted, committed>>

-----------------------------------------------------------------------------
Attempt  == Expire \/ Begin \/ Busy \/ BusyGivesUp \/ WaitEnds \/ Conflict \/ Acquire
Execute  == Refuse \/ Announce \/ Save \/ SaveNothing \/ SaveFails \/ Checkpoints
                   \/ Apply \/ ApplyFails \/ Leave
Conclude == Complete \/ RecordFailure \/ NoticeStop
Worker   == (\E i \in Ids : Pick(i)) \/ Attempt \/ Execute \/ Conclude
Lifetime == Close \/ Exit \/ Crash \/ Restart \/ WorkerDies
Host     == OtherAcquires \/ OtherReleases \/ AdminEdits \/ Tick

Next == Submit \/ Worker \/ Lifetime \/ Host

Spec == Init /\ [][Next]_vars

\* The thread keeps running, a holder of the lock gives it back (its I/O is
\* bounded), time passes, and an agent that is closed ends.  Nothing is assumed
\* of clients, crashes, restarts, or who gets the lock.
Fairness ==
    WF_vars(Worker) /\ WF_vars(OtherReleases) /\ WF_vars(Tick) /\ WF_vars(Exit)

FairSpec == Spec /\ Fairness

-----------------------------------------------------------------------------
(* Properties. *)

Request == [lane : Lanes, key : Keys, action : AllActions, config : Nat, control : Nat,
            created : Nat, order : Nat]

Pcs == {"idle", "picked", "attempt", "waiting", "checked", "saving", "saved", "applying",
        "leaving", "returned", "raised", "exited"}

\* Every variable has its type; an accepted row has its request.
TypeOK ==
    /\ request \in [Ids -> Request \cup {NoRequest}]
    /\ status \in [Ids -> Statuses]
    /\ phase \in [Ids -> Phases]
    /\ persisted \in [Ids -> SUBSET {"intention", "gain", "source"}]
    /\ applied \in [Ids -> {"yes", "no", "unknown"}]
    /\ worker \in [pc : Pcs, op : Ids \cup {NoOp}]
    /\ up \in BOOLEAN /\ stopping \in BOOLEAN /\ failed \in BOOLEAN
    /\ lock \in {"free", "worker", "other"}
    /\ control \in Nat /\ config \in Nat /\ clock \in Nat /\ accepted \in Nat
    /\ committed \in SUBSET Ids
    /\ \A i \in Ids : status[i] # "absent" => request[i] \in Request

\* Optimistic concurrency: of all commands that named the same control
\* revision, whatever their lanes, keys, retries after pruning, crashes and
\* restarts, at most one ever writes playback.json.
OneCommitPerRevision ==
    \A i, j \in committed : request[i].control = request[j].control => i = j

\* What the ledger tells a client is true of the host: an applied command (but
\* for a favorites edit that changed nothing) was written; a command reported
\* as not applied, expired or superseded was never written; a persistence flag
\* is only true of a written command.
LedgerTellsTheTruth ==
    \A i \in Ids :
        /\ status[i] = "applied" => i \in committed \/ request[i].action \in FavoriteActions
        /\ status[i] \in Terminal /\ applied[i] = "no" => i \notin committed
        /\ status[i] \in {"expired", "superseded"} => applied[i] = "no"
        /\ status[i] = "outcome_unknown" => applied[i] = "unknown"
        /\ persisted[i] # {} => i \in committed

\* Retrying a lost response with the same key never makes a second operation
\* while the first one's key must be remembered.
KeyIdentifiesOneOperation ==
    \A i, j \in Ids :
        /\ i # j /\ status[i] # "absent" /\ status[j] # "absent"
        /\ request[i].lane = request[j].lane /\ request[i].key = request[j].key
        /\ request[i].order < request[j].order
        => request[i].created + Retention < request[j].created

\* The ledger never outgrows its limits, counting what survives restarts.
WithinLimits == Cardinality(Present) <= LedgerLimit /\ Cardinality(Pending) <= Capacity

\* "A newer accepted target must never let an older queued target run
\* afterwards": a row starts only if no newer row of its lane was accepted.
NewerTargetWins ==
    [][\A i, j \in Ids :
         /\ status[i] = "queued" /\ status'[i] = "running"
         /\ status[j] # "absent" /\ request[j].lane = request[i].lane
         => request[j].order <= request[i].order]_vars

\* Nothing is replayed: a row that started never starts again, and an outcome
\* once recorded never changes, through crashes and restarts, until the row is
\* pruned.
OutcomesAreFinal ==
    [][\A i \in Ids :
         /\ status[i] = "running" => status'[i] \in {"running"} \cup (Terminal \ {"superseded"})
         /\ status[i] \in Terminal =>
              \/ status'[i] = status[i] /\ applied'[i] = applied[i]
              \/ status'[i] = "pruned"
         /\ status[i] = "pruned" => status'[i] = "pruned"]_vars

\* No lost update: a command writes only over the very state its author saw.
WritesWhatWasSeen ==
    [][\A i \in Ids : i \in committed' \ committed =>
         status[i] = "running" /\ request[i].control = control /\ lock = "worker"]_vars

\* The ledger, worker, lock and crashes implement the promise made to a client
\* about each command: the abstract lifecycle, with the history of saved
\* commands as its effects.
Lifecycle == INSTANCE OperationLifecycle WITH
    state <- status, claim <- applied, effect <- committed

ImplementsLifecycle == Lifecycle!Spec

\* Every accepted command gets an outcome, however long the lock stays contended
\* and whatever happened before, once the agent stays up with a live worker.
EveryCommandEnds ==
    <>[](up /\ ~failed) => \A i \in Ids : status[i] \in {"queued", "running"} ~> i \notin Pending
=============================================================================
