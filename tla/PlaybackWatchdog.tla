-------------------------- MODULE PlaybackWatchdog --------------------------
(***************************************************************************)
(* The playback supervisor's loop (mpdsupervisor.py): it lists the         *)
(* outputs, reconciles each one unless it is backing off, and lets the     *)
(* stall watchdog (lib/playbackwatchdog.py) probe, restart and escalate.   *)
(*                                                                         *)
(* Time is counted in iterations of the loop.  What the code keeps as a    *)
(* time is kept here as the time left until it or the time since it, and   *)
(* no further than anybody asks, so that behaviours need not end.          *)
(***************************************************************************)
EXTENDS Naturals, Sequences, FiniteSets

CONSTANTS
    Outputs,
    ProbeInterval, Threshold, UnresponsiveProbes, RestartLimit, RestartWindow,
    RestartGrace, EscalationWindow,   \* WatchdogConfig
    MaxDelay,    \* longest delay between attempts to reconcile an output
    MaxFaults,   \* bound: players that hang, freeze or die, and losses of the audio path
    MaxFailures, \* bound: restarts and escalations that fail
    MaxCommands, \* bound: commands of users
    Never        \* the time of what has not happened

ASSUME OutputsAssumption == IsFiniteSet(Outputs) /\ Outputs # {}
ASSUME ConfigAssumption ==
    /\ {ProbeInterval, Threshold, UnresponsiveProbes, RestartLimit, RestartWindow,
        RestartGrace, EscalationWindow, MaxDelay} \subseteq Nat \ {0}
    /\ {MaxFaults, MaxFailures, MaxCommands} \subseteq Nat /\ Never \notin Nat

VARIABLES
    player,     \* what each output's MPD does
    moved,      \* it played since it was probed last
    intention,  \* the saved intention
    audio,      \* the shared audio path is ready
    loop,       \* where the supervisor's iteration is, and the outputs it still has to visit
    listed,     \* the intentions as list_outputs returned them
    backoff,    \* failures: the time until the next attempt, and the delay after it
    tracking,   \* _tracking
    escalated,  \* time since _last_escalation
    count,      \* how much of each bound is used
    life,       \* history: time since a probe showed an output alive, or it was not to play
    attempts    \* history: ages of the restart attempts since an escalation worked

world == <<player, moved, intention, audio, count>>
vars == <<world, loop, listed, backoff, tracking, escalated, life, attempts>>

Broken == {"hung", "frozen", "down"}

Least(a, b) == IF a < b THEN a ELSE b
Later(n) == IF n = 0 THEN 0 ELSE n - 1
Older(age, cap) == IF age = Never THEN Never ELSE Least(age + 1, cap)
Ages(s, cap) == [i \in 1..Len(s) |-> Older(s[i], cap)]

NewTracking ==
    [probeIn |-> 0, actionIn |-> 0, failures |-> 0, firstFailure |-> Never, baseline |-> Never,
     stalled |-> FALSE, limited |-> FALSE, restarts |-> <<>>]

Init ==
    /\ player = [o \in Outputs |-> "stopped"]
    /\ moved = [o \in Outputs |-> FALSE]
    /\ intention = [o \in Outputs |-> "play"]
    /\ audio = TRUE
    /\ count = [faults |-> 0, failures |-> 0, commands |-> 0]
    /\ loop = [phase |-> "sleep", todo |-> {}]
    /\ listed = intention
    /\ backoff = [o \in Outputs |-> [left |-> 0, delay |-> 1]]
    /\ tracking = [o \in Outputs |-> NewTracking]
    /\ escalated = EscalationWindow
    /\ life = [o \in Outputs |-> 0]
    /\ attempts = [o \in Outputs |-> <<>>]

--------------------------------------------------------------------------
\* The world around the supervisor.

Use(bound, max) == count[bound] < max /\ count' = [count EXCEPT ![bound] = @ + 1]
Fault == Use("faults", MaxFaults)
Failure == Use("failures", MaxFailures)

\* MPD stops answering, plays without progress, or dies.
Break(o) ==
    /\ player[o] = "playing" /\ Fault
    /\ \E p \in Broken : player' = [player EXCEPT ![o] = p]
    /\ UNCHANGED <<moved, intention, audio, loop, listed, backoff, tracking, escalated,
                   life, attempts>>

\* The USB card leaves the bus, and returns.
AudioLost ==
    /\ audio /\ Fault /\ audio' = FALSE
    /\ UNCHANGED <<player, moved, intention, loop, listed, backoff, tracking, escalated,
                   life, attempts>>
AudioBack ==
    /\ ~audio /\ audio' = TRUE
    /\ UNCHANGED <<player, moved, intention, count, loop, listed, backoff, tracking,
                   escalated, life, attempts>>

\* A command: the agent saves the intention, and drives MPD if it answers.
Answers(o) == player[o] \notin {"hung", "down"}
Stop(o) ==
    /\ intention[o] = "play" /\ intention' = [intention EXCEPT ![o] = "stop"]
    /\ player' = [player EXCEPT ![o] = IF Answers(o) THEN "stopped" ELSE @]
    /\ UNCHANGED moved
Play(o) ==
    /\ intention[o] = "stop" /\ intention' = [intention EXCEPT ![o] = "play"]
    /\ player' = [player EXCEPT ![o] = IF Answers(o) /\ audio THEN "playing" ELSE @]
    /\ moved' = [moved EXCEPT ![o] = @ \/ player'[o] # player[o]]
Command(o) ==
    /\ Stop(o) \/ Play(o)
    /\ Use("commands", MaxCommands)
    /\ UNCHANGED <<audio, loop, listed, backoff, tracking, escalated, life, attempts>>

\* The runbook: somebody restarts the output's service.
RestartByHand(o) ==
    /\ player[o] \in Broken
    /\ player' = [player EXCEPT ![o] = "stopped"]
    /\ UNCHANGED <<moved, intention, audio, count, loop, listed, backoff, tracking, escalated,
                   life, attempts>>

--------------------------------------------------------------------------
\* One iteration of the supervisor.

\* Outputs are visited in the order of the configuration, whichever that is.
Turn(o, phase) == loop.phase = phase /\ o = CHOOSE p \in loop.todo : TRUE
Visited(o, next) ==
    IF loop.todo = {o}
    THEN [phase |-> next, todo |-> IF next = "watch" THEN Outputs ELSE {}]
    ELSE [loop EXCEPT !.todo = @ \ {o}]

\* A frozen player looks right to reconcile, a hung one times out, and nothing
\* is started while the audio path is not ready.
Reconciles(o) == player[o] # "hung" /\ (intention[o] = "play" => audio)
Reconciled(o) ==
    CASE intention[o] = "stop" -> "stopped"
      [] player[o] = "frozen"  -> "frozen"
      [] OTHER                 -> "playing"

Failed(b) == [left |-> b.delay, delay |-> Least(2 * b.delay, MaxDelay)]
NoFailure == [left |-> 0, delay |-> 1]

\* systemctl start and backend.reconcile, unless the output is backing off.
Reconcile(o) ==
    /\ Turn(o, "reconcile")
    /\ loop' = Visited(o, "watch")
    /\ \/ backoff[o].left > 0 /\ UNCHANGED <<player, moved, backoff>>
       \/ /\ backoff[o].left = 0 /\ Reconciles(o)
          /\ player' = [player EXCEPT ![o] = Reconciled(o)]
          /\ moved' = [moved EXCEPT ![o] = @ \/ player'[o] # player[o]]
          /\ backoff' = [backoff EXCEPT ![o] = NoFailure]
       \/ /\ backoff[o].left = 0 /\ ~Reconciles(o)
          /\ player' = [player EXCEPT ![o] = IF @ = "down" THEN "stopped" ELSE @]
          /\ backoff' = [backoff EXCEPT ![o] = Failed(@)]
          /\ UNCHANGED moved
    /\ UNCHANGED <<intention, audio, count, listed, tracking, escalated, life,
                   attempts>>

ResetKeepsFailures(t) ==   \* mutant of Reset: the failed probes stay
    [t EXCEPT !.baseline = Never, !.stalled = FALSE]
\* _reset: detection starts over, the restart window survives.
Reset(t) ==
    [t EXCEPT !.failures = 0, !.firstFailure = Never, !.baseline = Never, !.stalled = FALSE]

MissedOnce(t) ==           \* mutant of Missed: failures do not add up
    LET since == IF t.firstFailure = Never THEN 0 ELSE t.firstFailure IN
    [t EXCEPT !.failures = 1, !.firstFailure = since, !.baseline = Never,
              !.stalled = 1 >= UnresponsiveProbes /\ since >= Threshold]
\* _evaluate: enough failed probes over the threshold, or play without progress.
Missed(t) ==
    LET n == Least(t.failures + 1, UnresponsiveProbes)
        since == IF t.firstFailure = Never THEN 0 ELSE t.firstFailure IN
    [t EXCEPT !.failures = n, !.firstFailure = since, !.baseline = Never,
              !.stalled = n >= UnresponsiveProbes /\ since >= Threshold]
Answered(t, p, progress) ==
    LET u == [t EXCEPT !.failures = 0, !.firstFailure = Never] IN
    IF p = "stopped" THEN [u EXCEPT !.baseline = Never]
    ELSE IF t.baseline = Never \/ progress THEN [u EXCEPT !.baseline = 0]
    ELSE [u EXCEPT !.stalled = t.baseline >= Threshold]
Evaluated(t, p, progress) ==
    IF p \in {"hung", "down"} THEN Missed(t) ELSE Answered(t, p, progress)

Due(o) == ~tracking[o].stalled /\ tracking[o].probeIn = 0
\* What tick knows of an output before it decides to act.
Observed(o) ==
    IF Due(o)
    THEN Evaluated([tracking[o] EXCEPT !.probeIn = ProbeInterval], player[o], moved[o])
    ELSE tracking[o]
ShowsLife(o) == Due(o) /\ (player[o] = "stopped" \/ (player[o] \in {"playing", "frozen"} /\ moved[o]))

Restarted(outputs) == [o \in Outputs |-> IF o \in outputs THEN "stopped" ELSE player[o]]

\* The output is not to play: nothing is probed and a latched stall is dropped.
Ignore(o) ==
    /\ Turn(o, "watch") /\ listed[o] # "play"
    /\ tracking' = [tracking EXCEPT ![o] = Reset(@)]
    /\ life' = [life EXCEPT ![o] = 0]
    /\ loop' = Visited(o, "sleep")
    /\ UNCHANGED <<world, listed, backoff, escalated, attempts>>

\* The output is fine, not due, or waits for its next action.
Observe(o) ==
    /\ Turn(o, "watch") /\ listed[o] = "play"
    /\ ~Observed(o).stalled \/ Observed(o).actionIn > 0
    /\ tracking' = [tracking EXCEPT ![o] = Observed(o)]
    /\ moved' = [moved EXCEPT ![o] = @ /\ ~Due(o)]
    /\ life' = [life EXCEPT ![o] = IF ShowsLife(o) THEN 0 ELSE @]
    /\ loop' = Visited(o, "sleep")
    /\ UNCHANGED <<player, intention, audio, count, listed, backoff, escalated, attempts>>

\* The oldest restarts leave the window, one by one, until one is recent enough.
Expired(s, n) ==
    /\ \A i \in 1..n : s[i] > RestartWindow
    /\ n < Len(s) => s[n + 1] <= RestartWindow
InWindow(s) == SubSeq(s, 1 + CHOOSE n \in 0..Len(s) : Expired(s, n), Len(s))

\* _act: what the output is known as when an action is due.
Acting(o) == [Observed(o) EXCEPT !.restarts = InWindow(@)]
MayAct(o) ==
    /\ Turn(o, "watch") /\ listed[o] = "play"
    /\ Observed(o).stalled /\ Observed(o).actionIn = 0
    /\ moved' = [moved EXCEPT ![o] = @ /\ ~Due(o)]
    /\ loop' = Visited(o, "sleep")
ExhaustedLate(o) == Len(Acting(o).restarts) > RestartLimit   \* mutant of Exhausted
Exhausted(o) == Len(Acting(o).restarts) >= RestartLimit

\* _gate: audio is not ready, the action is deferred.
Defer(o) ==
    /\ MayAct(o) /\ ~audio
    /\ ~Exhausted(o) \/ escalated >= EscalationWindow
    /\ tracking' = [tracking EXCEPT ![o] = [Acting(o) EXCEPT !.actionIn = ProbeInterval]]
    /\ UNCHANGED <<player, intention, audio, count, listed, backoff, escalated, life, attempts>>

Attempt(o) == attempts' = [attempts EXCEPT ![o] = Append(@, 0)]

RestartCountedLate(o) ==   \* mutant of RestartFails: only restarts that worked are counted
    /\ MayAct(o) /\ audio /\ ~Exhausted(o) /\ Failure
    /\ tracking' = [tracking EXCEPT ![o] = [Acting(o) EXCEPT !.actionIn = RestartGrace]]
    /\ \E p \in {player[o], "stopped", "down"} : player' = [player EXCEPT ![o] = p]
    /\ Attempt(o)
    /\ UNCHANGED <<intention, audio, listed, backoff, escalated, life>>
\* systemctl restart fails or times out; the service may restart all the same, or stay down.
RestartFails(o) ==
    /\ MayAct(o) /\ audio /\ ~Exhausted(o) /\ Failure
    /\ tracking' = [tracking EXCEPT ![o] =
         [Acting(o) EXCEPT !.actionIn = RestartGrace, !.restarts = Append(@, 0)]]
    /\ \E p \in {player[o], "stopped", "down"} : player' = [player EXCEPT ![o] = p]
    /\ Attempt(o)
    /\ UNCHANGED <<intention, audio, listed, backoff, escalated, life>>

\* The output's service is restarted and reconciled in the next iteration.
Restart(o) ==
    /\ MayAct(o) /\ audio /\ ~Exhausted(o)
    /\ tracking' = [tracking EXCEPT ![o] =
         Reset([Acting(o) EXCEPT !.probeIn = RestartGrace, !.restarts = Append(@, 0)])]
    /\ player' = Restarted({o})
    /\ backoff' = [backoff EXCEPT ![o] = NoFailure]
    /\ Attempt(o)
    /\ life' = [life EXCEPT ![o] = 0]
    /\ UNCHANGED <<intention, audio, count, listed, escalated>>

\* _try_escalation: both limits are exhausted.
Hold(o) ==
    /\ MayAct(o) /\ Exhausted(o) /\ escalated < EscalationWindow
    /\ tracking' = [tracking EXCEPT ![o] = [Acting(o) EXCEPT !.limited = TRUE]]
    /\ UNCHANGED <<player, intention, audio, count, listed, backoff, escalated, life, attempts>>

\* The audio stack or some outputs fail to restart, or are slow to: each output has
\* restarted, stays down, or goes on with a PipeWire that may have left it broken.
HalfEscalated(p) ==
    \A o \in Outputs : \/ p[o] \in {player[o], "stopped", "down"}
                       \/ player[o] = "playing" /\ p[o] \in Broken
EscalationFails(o) ==
    /\ MayAct(o) /\ audio /\ Exhausted(o) /\ escalated >= EscalationWindow /\ Failure
    /\ tracking' = [tracking EXCEPT ![o] = [Acting(o) EXCEPT !.actionIn = RestartGrace]]
    /\ player' \in {p \in [Outputs -> Broken \cup {"playing", "stopped"}] : HalfEscalated(p)}
    /\ escalated' = 0
    /\ UNCHANGED <<intention, audio, listed, backoff, life, attempts>>

\* PipeWire and every output restart, and every restart window starts over.
Escalate(o) ==
    /\ MayAct(o) /\ audio /\ Exhausted(o) /\ escalated >= EscalationWindow
    /\ tracking' = [p \in Outputs |->
         [Reset(IF p = o THEN Observed(o) ELSE tracking[p])
            EXCEPT !.restarts = <<>>, !.limited = FALSE, !.probeIn = RestartGrace]]
    /\ player' = Restarted(Outputs)
    /\ backoff' = [p \in Outputs |-> NoFailure]
    /\ escalated' = 0
    /\ life' = [p \in Outputs |-> 0]
    /\ attempts' = [p \in Outputs |-> <<>>]
    /\ UNCHANGED <<intention, audio, count, listed>>

\* sleep, then list_outputs: one unit of time passes, what plays makes progress.
Sleep ==
    /\ loop.phase = "sleep"
    /\ loop' = [phase |-> "reconcile", todo |-> Outputs]
    /\ listed' = intention
    /\ moved' = [o \in Outputs |-> moved[o] \/ player[o] = "playing"]
    /\ backoff' = [o \in Outputs |-> [backoff[o] EXCEPT !.left = Later(@)]]
    /\ tracking' = [o \in Outputs |->
         [tracking[o] EXCEPT !.probeIn = Later(@), !.actionIn = Later(@),
             !.firstFailure = Older(@, Threshold), !.baseline = Older(@, Threshold),
             !.restarts = Ages(@, RestartWindow + 1)]]
    /\ escalated' = Least(escalated + 1, EscalationWindow)
    /\ life' = [o \in Outputs |-> Least(life[o] + 1, Threshold)]
    /\ attempts' = [o \in Outputs |-> InWindow(Ages(attempts[o], RestartWindow + 1))]
    /\ UNCHANGED <<player, intention, audio, count>>

--------------------------------------------------------------------------
Act(o) ==
    Defer(o) \/ RestartFails(o) \/ Restart(o) \/ Hold(o) \/ EscalationFails(o) \/ Escalate(o)
Supervisor ==
    Sleep \/ \E o \in Outputs : Reconcile(o) \/ Ignore(o) \/ Observe(o) \/ Act(o)
World ==
    AudioLost \/ AudioBack \/ \E o \in Outputs : Break(o) \/ Command(o) \/ RestartByHand(o)
Next == Supervisor \/ World

Spec == Init /\ [][Next]_vars

\* The loop keeps running and a lost USB card returns; nobody helps by hand.
FairSpec == Spec /\ WF_vars(Supervisor) /\ WF_vars(AudioBack)

--------------------------------------------------------------------------
AgeUpTo(cap) == 0..cap \cup {Never}
TypeOK ==
    /\ player \in [Outputs -> Broken \cup {"playing", "stopped"}]
    /\ moved \in [Outputs -> BOOLEAN] /\ audio \in BOOLEAN
    /\ intention \in [Outputs -> {"play", "stop"}] /\ listed \in [Outputs -> {"play", "stop"}]
    /\ loop \in [phase : {"reconcile", "watch", "sleep"}, todo : SUBSET Outputs]
    /\ backoff \in [Outputs -> [left : 0..MaxDelay, delay : 1..MaxDelay]]
    /\ DOMAIN tracking = Outputs
    /\ \A o \in Outputs : LET t == tracking[o] IN
        /\ t.probeIn \in 0..(ProbeInterval + RestartGrace)
        /\ t.actionIn \in 0..(ProbeInterval + RestartGrace)
        /\ t.failures \in 0..UnresponsiveProbes
        /\ t.firstFailure \in AgeUpTo(Threshold) /\ t.baseline \in AgeUpTo(Threshold)
        /\ t.stalled \in BOOLEAN /\ t.limited \in BOOLEAN
        /\ t.restarts \in Seq(0..RestartWindow + 1) /\ Len(t.restarts) <= RestartLimit
    /\ escalated \in 0..EscalationWindow
    /\ count \in [faults : 0..MaxFaults, failures : 0..MaxFailures,
                 commands : 0..MaxCommands]
    /\ life \in [Outputs -> 0..Threshold]

\* "At most 3 times per 30 minutes per output": failed attempts count, and
\* neither a recovery nor a change of the intention gives new attempts.
RestartsAreLimited == \A o \in Outputs : Len(attempts[o]) <= RestartLimit

\* An output is taken for stalled only when no probe showed it alive for the
\* whole threshold, whatever it did in between: paused, restarted, stopped.
StallsAreObserved ==
    [][\A o \in Outputs : tracking'[o].stalled /\ ~tracking[o].stalled => life[o] >= Threshold]_vars

\* Whatever hangs, freezes or dies, however often a restart fails, an output
\* that is to play plays again in the end.
PlaybackReturns ==
    \A o \in Outputs : []<>(intention[o] = "stop" \/ player[o] = "playing")

\* What is restarted is an MPD "that no longer answers or reports play with a frozen
\* elapsed" (mpd-headless-deployment.md): the watchdog never stops the only outputs
\* there are while all of them play.
OnlyStalledRestart ==
    [][(\A o \in Outputs : player[o] = "playing") /\ loop.phase = "watch" /\ Supervisor
        => player' = player]_vars

=============================================================================
