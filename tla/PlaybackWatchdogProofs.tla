------------------------ MODULE PlaybackWatchdogProofs ------------------------
(***************************************************************************)
(* Proofs about PlaybackWatchdog for any outputs, any configuration of the *)
(* watchdog and any number of faults.                                      *)
(***************************************************************************)
EXTENDS PlaybackWatchdog, SequenceTheorems, WellFoundedInduction, TLAPS

Times == Nat \cup {Never}

\* What the watchdog knows of an output, whatever its list of restarts holds.
IsTracking(t) ==
    t \in [probeIn : {t.probeIn}, actionIn : {t.actionIn}, failures : {t.failures},
           firstFailure : Times, baseline : Times, stalled : BOOLEAN, limited : {t.limited},
           restarts : {t.restarts}]

\* No detection reaches further back than the last sign of life.
Since(t, age) ==
    /\ t.firstFailure = Never \/ t.firstFailure <= age
    /\ t.baseline = Never \/ t.baseline <= age

DetectionInv ==
    /\ DOMAIN tracking = Outputs /\ life \in [Outputs -> Nat]
    /\ player \in [Outputs -> Broken \cup {"playing", "stopped"}]
    /\ \A o \in Outputs : IsTracking(tracking[o]) /\ Since(tracking[o], life[o])

Config == Threshold \in Nat /\ UnresponsiveProbes \in Nat /\ Never \notin Nat

LEMMA ConfigFacts == Config
  BY ConfigAssumption DEF Config

\* Changing what detection keeps changes just that.
Detected(t, n, first, base, stall) ==
    [t EXCEPT !.failures = n, !.firstFailure = first, !.baseline = base, !.stalled = stall]

LEMMA Detecting ==
    ASSUME NEW t, IsTracking(t), NEW n, NEW first \in Times, NEW base \in Times, NEW stall \in BOOLEAN,
           NEW u, u = Detected(t, n, first, base, stall)
    PROVE  IsTracking(u) /\ u.firstFailure = first /\ u.baseline = base /\ u.stalled = stall
<1>1. u \in [probeIn : {t.probeIn}, actionIn : {t.actionIn}, failures : {n}, firstFailure : Times,
             baseline : Times, stalled : BOOLEAN, limited : {t.limited}, restarts : {t.restarts}]
  BY DEF IsTracking, Detected
<1>2. u.firstFailure = first /\ u.baseline = base /\ u.stalled = stall
  BY DEF IsTracking, Detected
<1>3. /\ u.probeIn = t.probeIn /\ u.actionIn = t.actionIn /\ u.failures = n
      /\ u.limited = t.limited /\ u.restarts = t.restarts
  BY DEF IsTracking, Detected
<1> QED BY <1>1, <1>2, <1>3 DEF IsTracking

\* A probe that shows no stall.
Alive(t, base) == Detected(t, 0, Never, base, FALSE)

LEMMA ShowingLife ==
    ASSUME NEW t, IsTracking(t), NEW base \in Times
    PROVE  /\ IsTracking(Alive(t, base)) /\ ~Alive(t, base).stalled
           /\ Alive(t, base).firstFailure = Never /\ Alive(t, base).baseline = base
<1> DEFINE no == FALSE
           u == Detected(t, 0, Never, base, no)
<1>1. no \in BOOLEAN /\ ~no /\ Never \in Times
  BY DEF Times
<1>2. Alive(t, base) = u
  BY DEF Alive
<1> HIDE DEF no
<1>3. IsTracking(u) /\ u.firstFailure = Never /\ u.baseline = base /\ u.stalled = no
  BY <1>1, Detecting
<1> HIDE DEF u
<1> QED BY <1>1, <1>2, <1>3

\* What is written is what is read.
LEMMA TrackingFields ==
    ASSUME NEW t, IsTracking(t)
    PROVE  /\ t.firstFailure \in Times /\ t.baseline \in Times /\ t.stalled \in BOOLEAN
           /\ Never \in Times /\ 0 \in Times
  BY DEF IsTracking, Times

\* Only what detection keeps matters: the rest may change.
LEMMA Unrelated ==
    ASSUME NEW t, IsTracking(t)
    PROVE  /\ \A x : IsTracking([t EXCEPT !.probeIn = x])
           /\ \A x : IsTracking([t EXCEPT !.actionIn = x])
           /\ \A x : IsTracking([t EXCEPT !.restarts = x])
           /\ \A x : IsTracking([t EXCEPT !.limited = x])
           /\ \A x, age : Since(t, age) => /\ Since([t EXCEPT !.probeIn = x], age)
                                           /\ Since([t EXCEPT !.actionIn = x], age)
                                           /\ Since([t EXCEPT !.restarts = x], age)
                                           /\ Since([t EXCEPT !.limited = x], age)
           /\ \A x : /\ [t EXCEPT !.probeIn = x].stalled = t.stalled
                     /\ [t EXCEPT !.actionIn = x].stalled = t.stalled
                     /\ [t EXCEPT !.restarts = x].stalled = t.stalled
                     /\ [t EXCEPT !.limited = x].stalled = t.stalled
  BY DEF IsTracking, Since

\* After a reset nothing is detected, however recent the last sign of life.
LEMMA Resetting ==
    ASSUME NEW t, IsTracking(t)
    PROVE  IsTracking(Reset(t)) /\ ~Reset(t).stalled /\ \A age : Since(Reset(t), age)
<1>1. Reset(t) = Alive(t, Never)
  BY DEF Reset, Alive, Detected
<1>2. IsTracking(Reset(t)) /\ ~Reset(t).stalled
      /\ Reset(t).firstFailure = Never /\ Reset(t).baseline = Never
  BY <1>1, ShowingLife, TrackingFields
<1> QED BY <1>2 DEF Since

\* A probe detects a stall only when the last sign of life is the threshold ago, and what it
\* notes is no older than that; an output that shows life is detected from then on.
LEMMA Probing ==
    ASSUME NEW t, IsTracking(t), ~t.stalled, NEW age \in Nat, Since(t, age),
           NEW p \in Broken \cup {"playing", "stopped"}, NEW progress
    PROVE  LET u == Evaluated(t, p, progress)
           IN  /\ IsTracking(u) /\ Since(u, age)
               /\ u.stalled => age >= Threshold
               /\ p = "stopped" \/ (p \in {"playing", "frozen"} /\ progress) =>
                    ~u.stalled /\ Since(u, 0)
<1>0. Config
  BY ConfigFacts
<1>T. /\ t.firstFailure \in Times /\ t.baseline \in Times /\ t.stalled = FALSE
      /\ Never \in Times /\ 0 \in Times
  BY TrackingFields
<1>1. CASE p \in {"hung", "down"}
  <2> DEFINE n == Least(t.failures + 1, UnresponsiveProbes)
             since == IF t.firstFailure = Never THEN 0 ELSE t.firstFailure
             stall == n >= UnresponsiveProbes /\ since >= Threshold
  <2>1. Evaluated(t, p, progress) = Detected(t, n, since, Never, stall)
    BY <1>1 DEF Evaluated, Missed, Detected
  <2>2. since \in Nat /\ since <= age /\ since \in Times
    BY <1>0, <1>T DEF Config, Since, Times
  <2>3. stall \in BOOLEAN /\ (stall => age >= Threshold)
    BY <1>0, <2>2 DEF Config
  <2> HIDE DEF n, since, stall
  <2> DEFINE u == Detected(t, n, since, Never, stall)
  <2>4. IsTracking(u) /\ u.firstFailure = since /\ u.baseline = Never /\ u.stalled = stall
    BY <1>T, <2>2, <2>3, Detecting
  <2> HIDE DEF u
  <2>5. Since(u, age)
    BY <2>2, <2>4 DEF Since
  <2>6. Evaluated(t, p, progress) = u
    BY <2>1 DEF u
  <2> QED BY <1>1, <2>3, <2>4, <2>5, <2>6
<1>2. CASE p \notin {"hung", "down"}
  <2>1. Evaluated(t, p, progress) =
          IF p = "stopped" THEN Alive(t, Never)
          ELSE IF t.baseline = Never \/ progress THEN Alive(t, 0)
          ELSE Detected(t, 0, Never, t.baseline, t.baseline >= Threshold)
    BY <1>2, <1>T DEF Evaluated, Answered, Alive, Detected, IsTracking
  <2>2. CASE p = "stopped"
    <3> DEFINE u == Alive(t, Never)
    <3>1. IsTracking(u) /\ u.firstFailure = Never /\ u.baseline = Never /\ ~u.stalled
      BY <1>T, ShowingLife
    <3>2. Evaluated(t, p, progress) = u
      BY <2>1, <2>2
    <3> HIDE DEF u
    <3> QED BY <3>1, <3>2 DEF Since
  <2>3. CASE p # "stopped" /\ (t.baseline = Never \/ progress)
    <3> DEFINE u == Alive(t, 0)
    <3>1. IsTracking(u) /\ u.firstFailure = Never /\ u.baseline = 0 /\ ~u.stalled
      BY <1>T, ShowingLife
    <3>2. Evaluated(t, p, progress) = u
      BY <2>1, <2>3
    <3> HIDE DEF u
    <3> QED BY <3>1, <3>2 DEF Since
  <2>4. CASE p # "stopped" /\ t.baseline # Never /\ ~progress
    <3> DEFINE stall == t.baseline >= Threshold
               u == Detected(t, 0, Never, t.baseline, stall)
    <3>1. t.baseline \in Nat /\ t.baseline <= age
      BY <1>0, <1>T, <2>4 DEF Since, Times
    <3>2. stall \in BOOLEAN /\ (stall => age >= Threshold)
      BY <1>0, <3>1 DEF Config
    <3>3. Evaluated(t, p, progress) = u
      BY <2>1, <2>4
    <3> HIDE DEF stall
    <3>4. IsTracking(u) /\ u.firstFailure = Never /\ u.baseline = t.baseline /\ u.stalled = stall
      BY <1>T, <3>2, Detecting
    <3> HIDE DEF u
    <3>5. Since(u, age)
      BY <3>1, <3>4 DEF Since
    <3> QED BY <2>4, <3>2, <3>3, <3>4, <3>5
  <2> QED BY <2>2, <2>3, <2>4
<1> QED BY <1>1, <1>2

\* The same of what tick knows of an output before it acts.
LEMMA Observing ==
    ASSUME DetectionInv, NEW o \in Outputs
    PROVE  /\ IsTracking(Observed(o)) /\ Since(Observed(o), life[o])
           /\ Observed(o).stalled /\ ~tracking[o].stalled => life[o] >= Threshold
           /\ ShowsLife(o) => Since(Observed(o), 0) /\ ~Observed(o).stalled
<1>0. IsTracking(tracking[o]) /\ Since(tracking[o], life[o]) /\ life[o] \in Nat
      /\ player[o] \in Broken \cup {"playing", "stopped"}
  BY DEF DetectionInv
<1>1. CASE Due(o)
  <2> DEFINE t == [tracking[o] EXCEPT !.probeIn = ProbeInterval]
  <2>1. IsTracking(t) /\ Since(t, life[o]) /\ ~t.stalled
    BY <1>0, <1>1, Unrelated DEF Due
  <2>2. Observed(o) = Evaluated(t, player[o], moved[o])
    BY <1>1 DEF Observed
  <2> HIDE DEF t
  <2>3. ShowsLife(o) => player[o] = "stopped" \/ (player[o] \in {"playing", "frozen"} /\ moved[o])
    BY DEF ShowsLife
  <2> QED BY <1>0, <2>1, <2>2, <2>3, Probing
<1>2. CASE ~Due(o)
  <2>1. Observed(o) = tracking[o] /\ ~ShowsLife(o)
    BY <1>2 DEF Observed, ShowsLife
  <2> QED BY <1>0, <2>1
<1> QED BY <1>1, <1>2

-----------------------------------------------------------------------------
(* Steps. *)

States == Broken \cup {"playing", "stopped"}

\* Whoever is newly taken for stalled has shown no life for the threshold.
NewlyStalled == \A o \in Outputs : tracking'[o].stalled /\ ~tracking[o].stalled => life[o] >= Threshold

\* A step that learns or forgets something about one output.
LEMMA OneOutput ==
    ASSUME DetectionInv, NEW o \in Outputs, NEW t, IsTracking(t), NEW age \in Nat, Since(t, age),
           t.stalled /\ ~tracking[o].stalled => life[o] >= Threshold,
           tracking' = [tracking EXCEPT ![o] = t], life' = [life EXCEPT ![o] = age],
           player' \in [Outputs -> States]
    PROVE  DetectionInv' /\ NewlyStalled
<1>1. tracking'[o] = t /\ life'[o] = age /\ DOMAIN tracking' = Outputs /\ life' \in [Outputs -> Nat]
  BY DEF DetectionInv
<1>2. \A p \in Outputs \ {o} : tracking'[p] = tracking[p] /\ life'[p] = life[p]
  BY DEF DetectionInv
<1>3. \A p \in Outputs : IsTracking(tracking'[p]) /\ Since(tracking'[p], life'[p])
  BY <1>1, <1>2 DEF DetectionInv
<1>4. DetectionInv'
  BY <1>1, <1>3 DEF DetectionInv, States, IsTracking, Since
<1> QED BY <1>1, <1>2, <1>4 DEF NewlyStalled

\* What a step of the world or of reconciliation does: it learns nothing.
LEMMA Elsewhere ==
    ASSUME DetectionInv, UNCHANGED <<tracking, life>>, player' \in [Outputs -> States]
    PROVE  DetectionInv' /\ NewlyStalled
  BY DEF DetectionInv, NewlyStalled, States, IsTracking, Since

LEMMA PlayerTypes ==
    ASSUME DetectionInv
    PROVE  /\ player \in [Outputs -> States]
           /\ \A o \in Outputs, p \in States : [player EXCEPT ![o] = p] \in [Outputs -> States]
           /\ \A s \in SUBSET Outputs : Restarted(s) \in [Outputs -> States]
  BY DEF DetectionInv, States, Restarted

\* Whatever a failed restart leaves behind, an output does one of the things it can do.
LEMMA FailedRestarts ==
    ASSUME player \in [Outputs -> States], NEW o \in Outputs, RestartFails(o) \/ EscalationFails(o)
    PROVE  player' \in [Outputs -> States]
<1>1. \A p \in {player[o], "stopped", "down"} : p \in States
  BY DEF States, Broken
<1>2. CASE RestartFails(o)
  BY <1>1, <1>2 DEF RestartFails
<1>3. CASE EscalationFails(o)
  BY <1>3 DEF EscalationFails, States
<1> QED BY <1>2, <1>3

\* A step that acts on a stall: what it notes besides does not matter.
LEMMA ActSteps ==
    ASSUME DetectionInv, NEW o \in Outputs, Act(o)
    PROVE  DetectionInv' /\ NewlyStalled
<1> DEFINE t == Observed(o)
           a == Acting(o)
<1>1. /\ IsTracking(t) /\ Since(t, life[o]) /\ (t.stalled /\ ~tracking[o].stalled => life[o] >= Threshold)
      /\ life[o] \in Nat /\ life = [life EXCEPT ![o] = life[o]]
  BY Observing DEF DetectionInv
<1>2. IsTracking(a) /\ Since(a, life[o]) /\ a.stalled = t.stalled
  BY <1>1, Unrelated DEF Acting
<1>3. ASSUME NEW x, IsTracking(x), Since(x, life[o]), x.stalled = t.stalled,
             tracking' = [tracking EXCEPT ![o] = x], life' = life, player' \in [Outputs -> States]
      PROVE  DetectionInv' /\ NewlyStalled
  BY <1>1, <1>3, OneOutput
<1> HIDE DEF a, t
<1>4. CASE Defer(o)
  <2> DEFINE x == [a EXCEPT !.actionIn = ProbeInterval]
  <2>1. tracking' = [tracking EXCEPT ![o] = x] /\ life' = life /\ player' = player
    BY <1>4 DEF Defer, a
  <2>2. IsTracking(x) /\ Since(x, life[o]) /\ x.stalled = t.stalled
    BY <1>2, Unrelated
  <2> HIDE DEF x
  <2> QED BY <1>3, <2>1, <2>2, PlayerTypes
<1>5. CASE RestartFails(o)
  <2> DEFINE b == [a EXCEPT !.actionIn = RestartGrace]
             x == [b EXCEPT !.restarts = Append(@, 0)]
  <2>1. tracking' = [tracking EXCEPT ![o] = x] /\ life' = life
    BY <1>5 DEF RestartFails, a
  <2>2. IsTracking(b) /\ Since(b, life[o]) /\ b.stalled = t.stalled
    BY <1>2, Unrelated
  <2> HIDE DEF b
  <2>3. IsTracking(x) /\ Since(x, life[o]) /\ x.stalled = t.stalled
    BY <2>2, Unrelated
  <2>4. player' \in [Outputs -> States]
    BY <1>5, PlayerTypes, FailedRestarts
  <2> QED BY <1>3, <2>1, <2>3, <2>4
<1>6. CASE Restart(o)
  <2> DEFINE b == [a EXCEPT !.probeIn = RestartGrace]
             c == [b EXCEPT !.restarts = Append(@, 0)]
  <2>1. tracking' = [tracking EXCEPT ![o] = Reset(c)] /\ life' = [life EXCEPT ![o] = 0]
        /\ player' \in [Outputs -> States]
    BY <1>6, PlayerTypes DEF Restart, a
  <2>2. IsTracking(b)
    BY <1>2, Unrelated
  <2> HIDE DEF b
  <2>3. IsTracking(c)
    BY <2>2, Unrelated
  <2> HIDE DEF c
  <2> QED BY <2>1, <2>3, Resetting, OneOutput
<1>7. CASE Hold(o)
  <2> DEFINE x == [a EXCEPT !.limited = TRUE]
  <2>1. tracking' = [tracking EXCEPT ![o] = x] /\ life' = life /\ player' = player
    BY <1>7 DEF Hold, a
  <2>2. IsTracking(x) /\ Since(x, life[o]) /\ x.stalled = t.stalled
    BY <1>2, Unrelated
  <2> HIDE DEF x
  <2> QED BY <1>3, <2>1, <2>2, PlayerTypes
<1>8. CASE EscalationFails(o)
  <2> DEFINE x == [a EXCEPT !.actionIn = RestartGrace]
  <2>1. tracking' = [tracking EXCEPT ![o] = x] /\ life' = life
    BY <1>8 DEF EscalationFails, a
  <2>2. IsTracking(x) /\ Since(x, life[o]) /\ x.stalled = t.stalled
    BY <1>2, Unrelated
  <2>3. player' \in [Outputs -> States]
    BY <1>8, PlayerTypes, FailedRestarts
  <2> HIDE DEF x
  <2> QED BY <1>3, <2>1, <2>2, <2>3
<1>9. CASE Escalate(o)
  <2>1. ASSUME NEW p \in Outputs
        PROVE  IsTracking(tracking'[p]) /\ ~tracking'[p].stalled /\ Since(tracking'[p], 0)
    <3> DEFINE r == Reset(IF p = o THEN t ELSE tracking[p])
               b == [r EXCEPT !.restarts = <<>>]
               c == [b EXCEPT !.limited = FALSE]
    <3>1. tracking'[p] = [c EXCEPT !.probeIn = RestartGrace]
      BY <1>9 DEF Escalate, t
    <3>2. IsTracking(r) /\ ~r.stalled /\ Since(r, 0)
      BY <1>1, Resetting DEF DetectionInv, t
    <3> HIDE DEF r
    <3>3. IsTracking(b) /\ ~b.stalled /\ Since(b, 0)
      BY <3>2, Unrelated
    <3> HIDE DEF b
    <3>4. IsTracking(c) /\ ~c.stalled /\ Since(c, 0)
      BY <3>3, Unrelated
    <3> HIDE DEF c
    <3> DEFINE d == [c EXCEPT !.probeIn = RestartGrace]
    <3>5. IsTracking(d) /\ d.stalled = c.stalled /\ Since(d, 0)
      BY <3>4, Unrelated
    <3>6. tracking'[p] = d
      BY <3>1
    <3> HIDE DEF d
    <3> QED BY <3>4, <3>5, <3>6
  <2>2. DOMAIN tracking' = Outputs /\ life' = [p \in Outputs |-> 0] /\ player' \in [Outputs -> States]
    BY <1>9, PlayerTypes DEF Escalate
  <2>3. DetectionInv'
    BY <2>1, <2>2 DEF DetectionInv, States, IsTracking, Since
  <2> QED BY <2>1, <2>3 DEF NewlyStalled
<1> QED BY <1>4, <1>5, <1>6, <1>7, <1>8, <1>9 DEF Act

\* Time passes for what was detected and for the sign of life alike.
LEMMA SleepSteps ==
    ASSUME DetectionInv, Sleep
    PROVE  DetectionInv' /\ NewlyStalled
<1>0. Config
  BY ConfigFacts
<1>1. ASSUME NEW o \in Outputs
      PROVE  /\ IsTracking(tracking'[o]) /\ Since(tracking'[o], life'[o])
             /\ tracking'[o].stalled = tracking[o].stalled
  <2> DEFINE t == tracking[o]
             first == Older(t.firstFailure, Threshold)
             base == Older(t.baseline, Threshold)
             b == [t EXCEPT !.probeIn = Later(@)]
             c == [b EXCEPT !.actionIn = Later(@)]
             u == [c EXCEPT !.firstFailure = first, !.baseline = base]
  <2>1. IsTracking(t) /\ Since(t, life[o]) /\ life[o] \in Nat
    BY DEF DetectionInv
  <2>2. life'[o] = Least(life[o] + 1, Threshold)
    BY DEF Sleep
  <2>3. /\ first \in Times /\ base \in Times
        /\ first = Never \/ first <= life'[o]
        /\ base = Never \/ base <= life'[o]
    BY <1>0, <2>1, <2>2, TrackingFields DEF Config, Older, Least, Since, Times
  <2>4. /\ tracking'[o] = [u EXCEPT !.restarts = Ages(@, RestartWindow + 1)]
    BY <2>1 DEF Sleep, IsTracking
  <2> HIDE DEF t, first, base
  <2>5. IsTracking(b) /\ b.stalled = t.stalled
    BY <2>1, Unrelated
  <2> HIDE DEF b
  <2>6. IsTracking(c) /\ c.stalled = t.stalled
    BY <2>5, Unrelated
  <2> HIDE DEF c
  <2>7. u = Detected(c, c.failures, first, base, c.stalled)
    BY <2>6 DEF Detected, IsTracking
  <2> HIDE DEF u
  <2>8. IsTracking(u) /\ u.firstFailure = first /\ u.baseline = base /\ u.stalled = t.stalled
    BY <2>3, <2>6, <2>7, Detecting, TrackingFields
  <2>9. Since(u, life'[o])
    BY <2>3, <2>8 DEF Since
  <2> DEFINE v == [u EXCEPT !.restarts = Ages(@, RestartWindow + 1)]
  <2>10. IsTracking(v) /\ v.stalled = u.stalled /\ Since(v, life'[o])
    BY <2>8, <2>9, Unrelated
  <2>11. tracking'[o] = v
    BY <2>4
  <2> HIDE DEF v
  <2> QED BY <2>8, <2>10, <2>11 DEF t
<1>2. DOMAIN tracking' = Outputs /\ player' = player
  BY DEF Sleep
<1>3. life' \in [Outputs -> Nat]
  <2>1. \A o \in Outputs : Least(life[o] + 1, Threshold) \in Nat
    BY <1>0 DEF DetectionInv, Config, Least
  <2>2. life' = [o \in Outputs |-> Least(life[o] + 1, Threshold)]
    BY DEF Sleep
  <2> QED BY <2>1, <2>2
<1>4. DetectionInv'
  BY <1>1, <1>2, <1>3 DEF DetectionInv, IsTracking, Since
<1> QED BY <1>1, <1>4 DEF NewlyStalled

\* Every step: no detection reaches further back than the last sign of life.
LEMMA DetectionNext == DetectionInv /\ [Next]_vars => DetectionInv' /\ NewlyStalled
<1> SUFFICES ASSUME DetectionInv, [Next]_vars PROVE DetectionInv' /\ NewlyStalled
  OBVIOUS
<1>1. CASE AudioLost \/ AudioBack \/ UNCHANGED vars
  BY <1>1, Elsewhere, PlayerTypes DEF AudioLost, AudioBack, vars, world
<1>2. ASSUME NEW o \in Outputs, Break(o) \/ RestartByHand(o) PROVE DetectionInv' /\ NewlyStalled
  <2>1. \E p \in States : player' = [player EXCEPT ![o] = p]
    BY <1>2 DEF Break, RestartByHand, States
  <2> QED BY <1>2, <2>1, Elsewhere, PlayerTypes DEF Break, RestartByHand
<1>3. ASSUME NEW o \in Outputs, Command(o) PROVE DetectionInv' /\ NewlyStalled
  <2>1. player[o] \in States
    BY PlayerTypes
  <2>2. \E p \in States : player' = [player EXCEPT ![o] = p]
    BY <1>3, <2>1 DEF Command, Stop, Play, States
  <2> QED BY <1>3, <2>2, Elsewhere, PlayerTypes DEF Command
<1>4. ASSUME NEW o \in Outputs, Reconcile(o) PROVE DetectionInv' /\ NewlyStalled
  <2>1. player[o] \in States /\ Reconciled(o) \in States
    BY PlayerTypes DEF Reconciled, States, Broken
  <2>2. player' = player \/ \E p \in States : player' = [player EXCEPT ![o] = p]
    BY <1>4, <2>1 DEF Reconcile, States
  <2> QED BY <1>4, <2>2, Elsewhere, PlayerTypes DEF Reconcile
<1>5. ASSUME NEW o \in Outputs, Ignore(o) PROVE DetectionInv' /\ NewlyStalled
  <2>1. /\ tracking' = [tracking EXCEPT ![o] = Reset(tracking[o])]
        /\ life' = [life EXCEPT ![o] = 0] /\ player' = player
    BY <1>5 DEF Ignore, world
  <2>2. IsTracking(tracking[o])
    BY DEF DetectionInv
  <2> QED BY <2>1, <2>2, Resetting, OneOutput, PlayerTypes
<1>6. ASSUME NEW o \in Outputs, Observe(o) PROVE DetectionInv' /\ NewlyStalled
  <2> DEFINE age == IF ShowsLife(o) THEN 0 ELSE life[o]
  <2>1. /\ tracking' = [tracking EXCEPT ![o] = Observed(o)]
        /\ life' = [life EXCEPT ![o] = age] /\ player' = player
    BY <1>6 DEF Observe
  <2>2. age \in Nat /\ Since(Observed(o), age)
    BY Observing DEF DetectionInv
  <2> HIDE DEF age
  <2> QED BY <2>1, <2>2, Observing, OneOutput, PlayerTypes
<1> QED BY <1>1, <1>2, <1>3, <1>4, <1>5, <1>6, ActSteps, SleepSteps DEF Next, Supervisor, World

LEMMA DetectionInit == Init => DetectionInv
<1> SUFFICES ASSUME Init PROVE DetectionInv
  OBVIOUS
<1>1. IsTracking(NewTracking) /\ Since(NewTracking, 0)
  BY DEF IsTracking, NewTracking, Since, Times
<1> QED BY <1>1 DEF Init, DetectionInv

\* In every run an output is taken for stalled only when no probe showed it alive for the
\* whole threshold.
THEOREM StallsObserved == Spec => StallsAreObserved
<1>1. DetectionInv /\ [Next]_vars =>
        [\A o \in Outputs : tracking'[o].stalled /\ ~tracking[o].stalled => life[o] >= Threshold]_vars
  BY DetectionNext DEF NewlyStalled
<1> QED BY <1>1, DetectionInit, DetectionNext, PTL DEF Spec, StallsAreObserved

-----------------------------------------------------------------------------
(* The window of restarts. *)

\* A set of numbers has a smallest one: the induction over lists of restarts.
LEMMA Smallest ==
    ASSUME NEW T, T \subseteq Nat, T # {}
    PROVE  \E x \in T : \A y \in T : x <= y
<1> DEFINE R == OpToRel(<, Nat)
<1>1. \A x, y \in Nat : y < x => <<y, x>> \in R
  BY DEF OpToRel
<1>2. IsWellFoundedOn(R, Nat)
  BY NatLessThanWellFounded
<1> HIDE DEF R
<1>3. PICK x \in T : \A y \in T : ~ (<<y, x>> \in R)
  BY <1>2, WFMin
<1>4. \A y \in T : ~(y < x) /\ y \in Nat /\ x \in Nat
  BY <1>1, <1>3
<1>5. \A y \in T : x <= y
  BY <1>4
<1> QED BY <1>3, <1>5

WindowAges == 0..RestartWindow + 1
Windows == {s \in Seq(WindowAges) : Len(s) <= RestartLimit}

\* Some number of the oldest restarts has expired.
LEMMA ExpiredOnce ==
    ASSUME NEW s \in Seq(WindowAges)
    PROVE  \E n \in 0..Len(s) : Expired(s, n)
<1>0. RestartWindow \in Nat /\ Len(s) \in Nat /\ \A i \in 1..Len(s) : s[i] \in Nat
  BY ConfigAssumption, ElementOfSeq, LenProperties DEF WindowAges
<1> DEFINE T == {n \in 0..Len(s) : n < Len(s) => s[n + 1] <= RestartWindow}
<1>1. T \subseteq Nat /\ Len(s) \in T
  BY <1>0
<1> HIDE DEF T
<1>2. PICK n \in T : \A m \in T : n <= m
  BY <1>1, Smallest
<1> USE DEF T
<1>3. ASSUME NEW i \in 1..n PROVE s[i] > RestartWindow
  <2>1. n \in 0..Len(s) /\ i \in 1..Len(s) /\ i - 1 \in 0..Len(s) /\ i - 1 < n
    BY <1>0
  <2>2. i - 1 \notin T
    <3> HIDE DEF T
    <3>1. ~(n <= i - 1)
      BY <1>0, <2>1
    <3> QED BY <1>2, <3>1
  <2> QED BY <1>0, <2>1, <2>2
<1>4. Expired(s, n) /\ n \in 0..Len(s)
  BY <1>2, <1>3 DEF Expired
<1> QED BY <1>4

\* The window of a list is what is left when its expired restarts are gone.
LEMMA WindowIs ==
    ASSUME NEW s \in Seq(WindowAges), NEW n \in 0..Len(s), Expired(s, n)
    PROVE  InWindow(s) = SubSeq(s, n + 1, Len(s))
<1>0. RestartWindow \in Nat /\ Len(s) \in Nat /\ \A i \in 1..Len(s) : s[i] \in Nat
  BY ConfigAssumption, ElementOfSeq, LenProperties DEF WindowAges
<1>1. ASSUME NEW m \in 0..Len(s), Expired(s, m) PROVE m = n
  <2>1. CASE m < n
    BY <1>0, <1>1, <2>1 DEF Expired
  <2>2. CASE n < m
    BY <1>0, <1>1, <2>2 DEF Expired
  <2> QED BY <1>0, <2>1, <2>2
<1> DEFINE m == CHOOSE k \in 0..Len(s) : Expired(s, k)
<1>2. m \in 0..Len(s) /\ Expired(s, m)
  OBVIOUS
<1>3. m = n
  BY <1>1, <1>2
<1>4. InWindow(s) = SubSeq(s, 1 + m, Len(s))
  BY DEF InWindow
<1> HIDE DEF m
<1> QED BY <1>0, <1>3, <1>4

\* What is left is a list of restarts that begins with a recent one.
LEMMA Windowing ==
    ASSUME NEW s \in Seq(WindowAges)
    PROVE  LET w == InWindow(s)
           IN  w \in Seq(WindowAges) /\ Len(w) <= Len(s) /\ (w # <<>> => w[1] <= RestartWindow)
<1>1. PICK n \in 0..Len(s) : Expired(s, n)
  BY ExpiredOnce
<1>0. Len(s) \in Nat 
  BY LenProperties
<1>2. InWindow(s) = SubSeq(s, n + 1, Len(s))
  BY <1>1, WindowIs
<1>3. /\ SubSeq(s, n + 1, Len(s)) \in Seq(WindowAges)
      /\ Len(SubSeq(s, n + 1, Len(s))) = Len(s) - n
      /\ \A i \in 1..Len(s) - n : SubSeq(s, n + 1, Len(s))[i] = s[n + i]
  BY <1>0, SubSeqProperties
<1> DEFINE w == SubSeq(s, n + 1, Len(s))
<1> HIDE DEF w
<1>4. ASSUME w # <<>> PROVE w[1] <= RestartWindow
  <2>1. Len(w) # 0
    BY <1>3, <1>4, EmptySeq DEF w
  <2> QED BY <1>0, <1>1, <1>3, <2>1 DEF w, Expired
<1> QED BY <1>0, <1>2, <1>3, <1>4 DEF w

\* Nothing leaves a window twice.
LEMMA RecentStay ==
    ASSUME NEW w \in Seq(WindowAges), w # <<>> => w[1] <= RestartWindow
    PROVE  InWindow(w) = w
<1>0. Len(w) \in Nat
  BY LenProperties
<1>1. Expired(w, 0)
  BY <1>0, EmptySeq DEF Expired
<1>2. InWindow(w) = SubSeq(w, 1, Len(w))
  BY <1>0, <1>1, WindowIs
<1> QED BY <1>2, SubSeqFull

\* What has left the window does not come back with time.
LEMMA WindowOfOlder ==
    ASSUME NEW s \in Seq(WindowAges)
    PROVE  LET old(r) == Ages(r, RestartWindow + 1)
           IN  /\ old(s) \in Seq(WindowAges) /\ Len(old(s)) = Len(s)
               /\ InWindow(old(InWindow(s))) = InWindow(old(s))
<1> DEFINE W == RestartWindow
           a == Ages(s, W + 1)
<1>0. W \in Nat /\ Len(s) \in Nat /\ (\A i \in 1..Len(s) : s[i] \in Nat /\ s[i] <= W + 1 /\ s[i] # Never)
  BY ConfigAssumption, ElementOfSeq, LenProperties DEF WindowAges
<1>1. /\ a \in Seq(WindowAges) /\ Len(a) = Len(s)
      /\ \A i \in 1..Len(s) : a[i] = Least(s[i] + 1, W + 1) /\ a[i] \in Nat
  <2>1. \A i \in 1..Len(s) : Older(s[i], W + 1) = Least(s[i] + 1, W + 1) /\ Older(s[i], W + 1) \in WindowAges
    BY <1>0 DEF Older, Least, WindowAges
  <2>2. a = [i \in 1..Len(s) |-> Older(s[i], W + 1)]
    BY DEF Ages
  <2> HIDE DEF a
  <2>3. a \in Seq(WindowAges) /\ Len(a) = Len(s)
    BY <1>0, <2>1, <2>2, IsASeq, LenProperties
  <2> QED BY <2>1, <2>2, <2>3 DEF WindowAges
<1> HIDE DEF W, a
<1>2. PICK n \in 0..Len(s) : Expired(s, n)
  BY ExpiredOnce
<1>3. PICK m \in 0..Len(s) : Expired(a, m)
  BY <1>1, ExpiredOnce
<1> DEFINE w == SubSeq(s, n + 1, Len(s))
<1>4. /\ w \in Seq(WindowAges) /\ Len(w) = Len(s) - n
      /\ \A i \in 1..Len(s) - n : w[i] = s[n + i]
  BY <1>0, SubSeqProperties
<1>5. InWindow(s) = w
  BY <1>2, WindowIs
<1> HIDE DEF w
<1> DEFINE b == Ages(w, W + 1)
<1>6. /\ b \in Seq(WindowAges) /\ Len(b) = Len(s) - n
      /\ \A i \in 1..Len(s) - n : b[i] = a[n + i]
  <2>1. \A i \in 1..Len(w) : Older(w[i], W + 1) = a[n + i] /\ a[n + i] \in WindowAges
    BY <1>0, <1>1, <1>4, ElementOfSeq DEF Older
  <2>2. b = [i \in 1..Len(w) |-> Older(w[i], W + 1)] /\ Len(w) \in Nat
    BY <1>4, LenProperties DEF Ages
  <2> HIDE DEF b
  <2>3. \A i \in 1..Len(w) : Older(w[i], W + 1) \in WindowAges
    BY <2>1
  <2>4. b \in Seq(WindowAges) /\ Len(b) = Len(w)
    BY <2>2, <2>3, IsASeq, LenProperties
  <2> QED BY <1>4, <2>1, <2>2, <2>4
<1> HIDE DEF b
<1>7. m >= n
  <2> SUFFICES ASSUME m < n PROVE FALSE
    BY <1>2, <1>3
  <2>0. m + 1 \in 1..n /\ m + 1 \in 1..Len(s) /\ m < Len(s)
    BY <1>0, <1>2, <1>3
  <2>1. a[m + 1] <= W
    BY <1>1, <1>3, <2>0 DEF Expired, W
  <2>2. s[m + 1] > W
    BY <1>2, <2>0 DEF Expired, W
  <2>3. a[m + 1] = Least(s[m + 1] + 1, W + 1)
    BY <1>1, <2>0
  <2> QED BY <1>0, <2>0, <2>1, <2>2, <2>3 DEF Least
<1>8. Expired(b, m - n) /\ m - n \in 0..Len(b)
  <2>0. n \in Nat /\ m \in Nat /\ n <= m /\ m <= Len(s)
    BY <1>0, <1>2, <1>3, <1>7
  <2>1. ASSUME NEW i \in 1..m - n PROVE b[i] > RestartWindow
    <3>1. n + i \in 1..m /\ i \in 1..Len(s) - n
      BY <1>0, <2>0
    <3>2. b[i] = a[n + i] /\ a[n + i] > RestartWindow
      BY <1>3, <1>6, <3>1 DEF Expired
    <3> QED BY <3>2
  <2>2. ASSUME m - n < Len(b) PROVE b[m - n + 1] <= RestartWindow
    <3>1. m < Len(s) /\ m - n + 1 \in 1..Len(s) - n /\ n + (m - n + 1) = m + 1
      BY <1>0, <1>6, <2>0, <2>2
    <3>2. b[m - n + 1] = a[m + 1] /\ a[m + 1] <= RestartWindow
      BY <1>1, <1>3, <1>6, <3>1 DEF Expired
    <3> QED BY <3>2
  <2> QED BY <1>0, <1>6, <2>0, <2>1, <2>2 DEF Expired
<1>9. InWindow(b) = SubSeq(b, m - n + 1, Len(b)) /\ InWindow(a) = SubSeq(a, m + 1, Len(a))
  BY <1>1, <1>3, <1>6, <1>8, WindowIs
<1>10. SubSeq(b, m - n + 1, Len(b)) = SubSeq(a, m + 1, Len(a))
  <2>1. /\ SubSeq(b, m - n + 1, Len(b)) \in Seq(WindowAges)
        /\ Len(SubSeq(b, m - n + 1, Len(b))) = Len(s) - m
        /\ \A i \in 1..Len(s) - m : SubSeq(b, m - n + 1, Len(b))[i] = b[m - n + i]
    BY <1>0, <1>2, <1>3, <1>6, <1>7, SubSeqProperties
  <2>2. /\ SubSeq(a, m + 1, Len(a)) \in Seq(WindowAges)
        /\ Len(SubSeq(a, m + 1, Len(a))) = Len(s) - m
        /\ \A i \in 1..Len(s) - m : SubSeq(a, m + 1, Len(a))[i] = a[m + i]
    BY <1>0, <1>1, <1>3, SubSeqProperties
  <2>3. ASSUME NEW i \in 1..Len(s) - m PROVE b[m - n + i] = a[m + i]
    <3>1. m - n + i \in 1..Len(s) - n /\ n + (m - n + i) = m + i
      BY <1>0, <1>2, <1>3, <1>7
    <3> QED BY <1>6, <3>1
  <2> QED BY <2>1, <2>2, <2>3, SeqEqual
<1> QED BY <1>1, <1>5, <1>9, <1>10 DEF W, a, b

-----------------------------------------------------------------------------
(* Types and the limit of restarts. *)

Waits == 0..(ProbeInterval + RestartGrace)
Tracking ==
    [probeIn : Waits, actionIn : Waits, failures : 0..UnresponsiveProbes,
     firstFailure : AgeUpTo(Threshold), baseline : AgeUpTo(Threshold),
     stalled : BOOLEAN, limited : BOOLEAN, restarts : Windows]

\* The attempts that count are those of the watchdog's own window.
WindowInv ==
    /\ tracking \in [Outputs -> Tracking]
    /\ attempts = [o \in Outputs |-> InWindow(tracking[o].restarts)]

OtherTypes ==
    /\ player \in [Outputs -> States]
    /\ moved \in [Outputs -> BOOLEAN] /\ audio \in BOOLEAN
    /\ intention \in [Outputs -> {"play", "stop"}] /\ listed \in [Outputs -> {"play", "stop"}]
    /\ loop \in [phase : {"reconcile", "watch", "sleep"}, todo : SUBSET Outputs]
    /\ backoff \in [Outputs -> [left : 0..MaxDelay, delay : 1..MaxDelay]]
    /\ escalated \in 0..EscalationWindow
    /\ count \in [faults : 0..MaxFaults, failures : 0..MaxFailures, commands : 0..MaxCommands]
    /\ life \in [Outputs -> 0..Threshold]

\* What tick and _act write one by one.
LEMMA TypedUpdates ==
    ASSUME NEW t \in Tracking
    PROVE  /\ \A x \in Waits : /\ [t EXCEPT !.probeIn = x] \in Tracking
                               /\ [t EXCEPT !.actionIn = x] \in Tracking
           /\ \A x \in BOOLEAN : [t EXCEPT !.limited = x] \in Tracking
           /\ \A x \in Windows : [t EXCEPT !.restarts = x] \in Tracking
           /\ \A x : /\ [t EXCEPT !.probeIn = x].restarts = t.restarts
                     /\ [t EXCEPT !.actionIn = x].restarts = t.restarts
                     /\ [t EXCEPT !.limited = x].restarts = t.restarts
                     /\ [t EXCEPT !.restarts = x].restarts = x
  BY DEF Tracking

\* What detection writes.
LEMMA TypedDetection ==
    ASSUME NEW t \in Tracking, NEW n \in 0..UnresponsiveProbes,
           NEW first \in AgeUpTo(Threshold), NEW base \in AgeUpTo(Threshold), NEW stall \in BOOLEAN
    PROVE  LET u == Detected(t, n, first, base, stall)
           IN  u \in Tracking /\ u.restarts = t.restarts
  BY DEF Tracking, Detected

LEMMA ConfigTypes ==
    /\ ProbeInterval \in Nat \ {0} /\ Threshold \in Nat \ {0} /\ UnresponsiveProbes \in Nat \ {0}
    /\ RestartLimit \in Nat \ {0} /\ RestartWindow \in Nat \ {0} /\ RestartGrace \in Nat \ {0}
    /\ EscalationWindow \in Nat \ {0} /\ MaxDelay \in Nat \ {0}
    /\ MaxFaults \in Nat /\ MaxFailures \in Nat /\ MaxCommands \in Nat /\ Never \notin Nat
    /\ 0 \in AgeUpTo(Threshold) /\ Never \in AgeUpTo(Threshold)
    /\ ProbeInterval \in Waits /\ RestartGrace \in Waits /\ 0 \in Waits
  BY ConfigAssumption DEF AgeUpTo, Waits

\* A list of restarts within the limit stays so, whatever leaves it.
LEMMA WindowsShrink ==
    ASSUME NEW r \in Windows
    PROVE  /\ InWindow(r) \in Windows /\ InWindow(InWindow(r)) = InWindow(r)
           /\ Len(InWindow(r)) < RestartLimit =>
                LET w == Append(InWindow(r), 0) IN w \in Windows /\ InWindow(w) = w
<1> DEFINE w == InWindow(r)
           a == Append(w, 0)
<1>0. RestartLimit \in Nat /\ RestartWindow \in Nat /\ r \in Seq(WindowAges) /\ Len(r) <= RestartLimit
      /\ Len(r) \in Nat /\ 0 \in WindowAges
  BY ConfigTypes, LenProperties DEF Windows, WindowAges
<1>1. w \in Seq(WindowAges) /\ Len(w) <= Len(r) /\ (w # <<>> => w[1] <= RestartWindow)
  BY <1>0, Windowing
<1>2. InWindow(w) = w
  BY <1>1, RecentStay
<1>3. Len(w) \in Nat
  BY <1>1, LenProperties
<1> HIDE DEF w
<1>4. a \in Seq(WindowAges) /\ Len(a) = Len(w) + 1 /\ a[Len(w) + 1] = 0
      /\ \A i \in 1..Len(w) : a[i] = w[i]
  BY <1>0, <1>1, AppendProperties
<1> HIDE DEF a
<1>5. a[1] <= RestartWindow
  <2>1. CASE w = <<>>
    BY <1>0, <1>4, <2>1, EmptySeq
  <2>2. CASE w # <<>>
    BY <1>1, <1>3, <1>4, <2>2, EmptySeq
  <2> QED BY <2>1, <2>2
<1>6. InWindow(a) = a
  BY <1>4, <1>5, RecentStay
<1> QED BY <1>0, <1>1, <1>2, <1>3, <1>4, <1>6 DEF w, a, Windows

\* A probe is recorded with its types, and leaves the restarts alone.
LEMMA TypedProbe ==
    ASSUME NEW t \in Tracking, NEW p, NEW progress
    PROVE  Evaluated(t, p, progress) \in Tracking /\ Evaluated(t, p, progress).restarts = t.restarts
<1>0. /\ t.failures \in 0..UnresponsiveProbes /\ t.firstFailure \in AgeUpTo(Threshold)
      /\ t.baseline \in AgeUpTo(Threshold) /\ t.stalled \in BOOLEAN
      /\ t = Detected(t, t.failures, t.firstFailure, t.baseline, t.stalled)
  BY DEF Tracking, Detected
<1>1. CASE p \in {"hung", "down"}
  <2> DEFINE n == Least(t.failures + 1, UnresponsiveProbes)
             since == IF t.firstFailure = Never THEN 0 ELSE t.firstFailure
             stall == n >= UnresponsiveProbes /\ since >= Threshold
  <2>1. Evaluated(t, p, progress) = Detected(t, n, since, Never, stall)
    BY <1>1 DEF Evaluated, Missed, Detected
  <2>2. n \in 0..UnresponsiveProbes /\ since \in AgeUpTo(Threshold) /\ stall \in BOOLEAN
    BY <1>0, ConfigTypes DEF Least
  <2> HIDE DEF n, since, stall
  <2> QED BY <2>1, <2>2, TypedDetection, ConfigTypes
<1>2. CASE p \notin {"hung", "down"}
  <2> DEFINE kept == IF p # "stopped" /\ ~(t.baseline = Never \/ progress)
                     THEN t.baseline >= Threshold ELSE t.stalled
             base == IF p = "stopped" THEN Never
                     ELSE IF t.baseline = Never \/ progress THEN 0 ELSE t.baseline
  <2>1. Evaluated(t, p, progress) = Detected(t, 0, Never, base, kept)
    BY <1>0, <1>2 DEF Evaluated, Answered, Detected, Tracking
  <2>2. 0 \in 0..UnresponsiveProbes /\ base \in AgeUpTo(Threshold)
    BY <1>0, ConfigTypes
  <2>3. kept \in BOOLEAN
    <3>1. (t.baseline >= Threshold) \in BOOLEAN
      OBVIOUS
    <3> QED BY <1>0, <3>1
  <2> HIDE DEF base, kept
  <2> QED BY <2>1, <2>2, <2>3, TypedDetection, ConfigTypes
<1> QED BY <1>1, <1>2

LEMMA TypedReset ==
    ASSUME NEW t \in Tracking
    PROVE  Reset(t) \in Tracking /\ Reset(t).restarts = t.restarts
<1> DEFINE no == FALSE
<1>1. Reset(t) = Detected(t, 0, Never, Never, no)
  BY DEF Reset, Detected
<1>2. no \in BOOLEAN /\ 0 \in 0..UnresponsiveProbes
  BY ConfigTypes
<1> HIDE DEF no
<1> QED BY <1>1, <1>2, TypedDetection, ConfigTypes

\* What tick knows of an output, and what it is known as when an action is due.
LEMMA TypedTick ==
    ASSUME WindowInv, NEW o \in Outputs
    PROVE  /\ Observed(o) \in Tracking /\ Observed(o).restarts = tracking[o].restarts
           /\ Acting(o) \in Tracking /\ Acting(o).restarts = InWindow(tracking[o].restarts)
           /\ tracking[o] \in Tracking /\ tracking[o].restarts \in Windows
<1>0. tracking[o] \in Tracking /\ tracking[o].restarts \in Windows
  BY DEF WindowInv, Tracking
<1>1. Observed(o) \in Tracking /\ Observed(o).restarts = tracking[o].restarts
  <2> DEFINE t == [tracking[o] EXCEPT !.probeIn = ProbeInterval]
  <2>1. t \in Tracking /\ t.restarts = tracking[o].restarts
    BY <1>0, TypedUpdates, ConfigTypes
  <2>2. Observed(o) = IF Due(o) THEN Evaluated(t, player[o], moved[o]) ELSE tracking[o]
    BY DEF Observed
  <2> HIDE DEF t
  <2> QED BY <1>0, <2>1, <2>2, TypedProbe
<1>2. Acting(o) = [Observed(o) EXCEPT !.restarts = InWindow(Observed(o).restarts)]
  BY DEF Acting
<1> HIDE DEF Acting, Observed
<1>3. InWindow(Observed(o).restarts) \in Windows
  BY <1>0, <1>1, WindowsShrink
<1> QED BY <1>0, <1>1, <1>2, <1>3, TypedUpdates

\* A step that changes one output's list of restarts counts the attempts as the list does.
LEMMA OneWindow ==
    ASSUME WindowInv, NEW o \in Outputs, NEW t \in Tracking, NEW w, w = InWindow(t.restarts),
           tracking' = [tracking EXCEPT ![o] = t], attempts' = [attempts EXCEPT ![o] = w]
    PROVE  WindowInv'
<1>1. tracking' \in [Outputs -> Tracking]
  BY DEF WindowInv
<1>2. \A p \in Outputs : attempts'[p] = InWindow(tracking'[p].restarts)
  BY DEF WindowInv
<1>3. attempts' = [p \in Outputs |-> attempts'[p]]
  BY DEF WindowInv
<1>4. attempts' = [p \in Outputs |-> InWindow(tracking'[p].restarts)]
  BY <1>2, <1>3
<1> QED BY <1>1, <1>4 DEF WindowInv

\* A step that leaves the window of the output as it is.
LEMMA SameWindow ==
    ASSUME WindowInv, NEW o \in Outputs, NEW t \in Tracking,
           InWindow(t.restarts) = InWindow(tracking[o].restarts),
           tracking' = [tracking EXCEPT ![o] = t], attempts' = attempts
    PROVE  WindowInv'
<1>1. attempts' = [attempts EXCEPT ![o] = InWindow(t.restarts)]
  BY DEF WindowInv
<1> QED BY <1>1, OneWindow

LEMMA WindowAct ==
    ASSUME WindowInv, NEW o \in Outputs, Act(o)
    PROVE  WindowInv'
<1> DEFINE a == Acting(o)
           r == tracking[o].restarts
<1>1. /\ a \in Tracking /\ a.restarts = InWindow(r) /\ r \in Windows
      /\ InWindow(a.restarts) = InWindow(r) /\ attempts[o] = InWindow(r)
      /\ attempts \in [Outputs -> {attempts[p] : p \in Outputs}]
  BY TypedTick, WindowsShrink DEF WindowInv
<1>2. ASSUME NEW x \in Tracking, x.restarts = a.restarts, tracking' = [tracking EXCEPT ![o] = x],
             attempts' = attempts
      PROVE  WindowInv'
  BY <1>1, <1>2, SameWindow
<1>3. ASSUME NEW x \in Tracking, x.restarts = Append(a.restarts, 0), ~Exhausted(o),
             tracking' = [tracking EXCEPT ![o] = x], Attempt(o)
      PROVE  WindowInv'
  <2>1. InWindow(x.restarts) = x.restarts
    BY <1>1, <1>3, WindowsShrink, ConfigTypes, LenProperties DEF Exhausted, Windows
  <2>2. attempts' = [attempts EXCEPT ![o] = InWindow(x.restarts)]
    BY <1>1, <1>3, <2>1 DEF Attempt
  <2> QED BY <1>3, <2>2, OneWindow
<1>4. ~Exhausted(o) => Append(a.restarts, 0) \in Windows
  BY <1>1, WindowsShrink, ConfigTypes, LenProperties DEF Exhausted, Windows
<1> HIDE DEF a
<1>5. CASE Defer(o)
  BY <1>1, <1>2, <1>5, TypedUpdates, ConfigTypes DEF Defer, a
<1>6. CASE RestartFails(o)
  <2> DEFINE b == [a EXCEPT !.actionIn = RestartGrace]
             x == [b EXCEPT !.restarts = Append(@, 0)]
  <2>1. b \in Tracking /\ b.restarts = a.restarts
    BY <1>1, TypedUpdates, ConfigTypes
  <2>2. tracking' = [tracking EXCEPT ![o] = x] /\ ~Exhausted(o) /\ Attempt(o)
    BY <1>6 DEF RestartFails, a
  <2> HIDE DEF b
  <2>3. x = [b EXCEPT !.restarts = Append(a.restarts, 0)]
    BY <2>1
  <2> HIDE DEF x
  <2>4. x \in Tracking /\ x.restarts = Append(a.restarts, 0)
    BY <1>4, <2>1, <2>2, <2>3, TypedUpdates
  <2> QED BY <1>3, <2>2, <2>4
<1>7. CASE Restart(o)
  <2> DEFINE b == [a EXCEPT !.probeIn = RestartGrace]
             c == [b EXCEPT !.restarts = Append(@, 0)]
  <2>1. b \in Tracking /\ b.restarts = a.restarts
    BY <1>1, TypedUpdates, ConfigTypes
  <2>2. tracking' = [tracking EXCEPT ![o] = Reset(c)] /\ ~Exhausted(o) /\ Attempt(o)
    BY <1>7 DEF Restart, a
  <2> HIDE DEF b
  <2>3. c = [b EXCEPT !.restarts = Append(a.restarts, 0)]
    BY <2>1
  <2> HIDE DEF c
  <2>4. c \in Tracking /\ c.restarts = Append(a.restarts, 0)
    BY <1>4, <2>1, <2>2, <2>3, TypedUpdates
  <2>5. Reset(c) \in Tracking /\ Reset(c).restarts = Append(a.restarts, 0)
    BY <2>4, TypedReset
  <2> QED BY <1>3, <2>2, <2>5
<1>8. CASE Hold(o)
  BY <1>1, <1>2, <1>8, TypedUpdates DEF Hold, a
<1>9. CASE EscalationFails(o)
  BY <1>1, <1>2, <1>9, TypedUpdates, ConfigTypes DEF EscalationFails, a
<1>10. CASE Escalate(o)
  <2>0. <<>> \in Windows /\ InWindow(<<>>) = <<>>
    <3> DEFINE none == <<>>
    <3>1. none \in Seq(WindowAges) /\ Len(none) = 0 /\ (none # <<>> => none[1] <= RestartWindow)
      BY EmptySeq
    <3> HIDE DEF none
    <3>2. InWindow(none) = none
      BY <3>1, RecentStay
    <3>3. none \in Windows
      BY <3>1, ConfigTypes DEF Windows
    <3> QED BY <3>2, <3>3 DEF none
  <2>1. ASSUME NEW p \in Outputs
        PROVE  tracking'[p] \in Tracking /\ tracking'[p].restarts = <<>>
    <3> DEFINE q == IF p = o THEN Observed(o) ELSE tracking[p]
               b == [Reset(q) EXCEPT !.restarts = <<>>]
               c == [b EXCEPT !.limited = FALSE]
               d == [c EXCEPT !.probeIn = RestartGrace]
    <3>1. tracking'[p] = d
      BY <1>10 DEF Escalate
    <3>2. q \in Tracking
      BY TypedTick
    <3> HIDE DEF q
    <3>3. Reset(q) \in Tracking
      BY <3>2, TypedReset
    <3>4. b \in Tracking /\ b.restarts = <<>>
      BY <2>0, <3>3, TypedUpdates
    <3> HIDE DEF b
    <3>5. c \in Tracking /\ c.restarts = <<>>
      BY <3>4, TypedUpdates
    <3> HIDE DEF c
    <3>6. d \in Tracking /\ d.restarts = <<>>
      BY <3>5, TypedUpdates, ConfigTypes
    <3> HIDE DEF d
    <3> QED BY <3>1, <3>6
  <2>2. DOMAIN tracking' = Outputs /\ tracking' = [p \in Outputs |-> tracking'[p]]
    BY <1>10 DEF Escalate
  <2>3. tracking' \in [Outputs -> Tracking]
    BY <2>1, <2>2
  <2>4. attempts' = [p \in Outputs |-> <<>>]
    BY <1>10 DEF Escalate
  <2>5. \A p \in Outputs : InWindow(tracking'[p].restarts) = <<>>
    BY <2>0, <2>1
  <2>6. attempts' = [p \in Outputs |-> InWindow(tracking'[p].restarts)]
    BY <2>4, <2>5
  <2> QED BY <2>3, <2>6 DEF WindowInv
<1> QED BY <1>5, <1>6, <1>7, <1>8, <1>9, <1>10 DEF Act

\* Time passes for the watchdog's list and for the attempts that count, of which some have
\* left the window already.
LEMMA WindowSleep ==
    ASSUME WindowInv, Sleep
    PROVE  WindowInv'
<1>1. ASSUME NEW o \in Outputs
      PROVE  /\ tracking'[o] \in Tracking
             /\ tracking'[o].restarts = Ages(tracking[o].restarts, RestartWindow + 1)
  <2> DEFINE t == tracking[o]
             first == Older(t.firstFailure, Threshold)
             base == Older(t.baseline, Threshold)
             b == [t EXCEPT !.probeIn = Later(@)]
             c == [b EXCEPT !.actionIn = Later(@)]
             u == [c EXCEPT !.firstFailure = first, !.baseline = base]
             w == Ages(t.restarts, RestartWindow + 1)
  <2>1. t \in Tracking /\ t.restarts \in Windows /\ t.probeIn \in Waits /\ t.actionIn \in Waits
        /\ t.firstFailure \in AgeUpTo(Threshold) /\ t.baseline \in AgeUpTo(Threshold)
    BY DEF WindowInv, Tracking
  <2>2. /\ first \in AgeUpTo(Threshold) /\ base \in AgeUpTo(Threshold)
        /\ Later(t.probeIn) \in Waits /\ Later(t.actionIn) \in Waits
    BY <2>1, ConfigTypes DEF Older, Least, Later, AgeUpTo, Waits
  <2>3. w \in Windows
    BY <2>1, WindowOfOlder DEF Windows
  <2>4. tracking'[o] = [u EXCEPT !.restarts = Ages(@, RestartWindow + 1)]
    BY <2>1 DEF Sleep, Tracking
  <2> HIDE DEF t, first, base, w
  <2>5. b \in Tracking /\ b.restarts = t.restarts /\ b.actionIn = t.actionIn
    BY <2>1, <2>2, TypedUpdates DEF Tracking
  <2> HIDE DEF b
  <2>6. c \in Tracking /\ c.restarts = t.restarts
    BY <2>2, <2>5, TypedUpdates
  <2> HIDE DEF c
  <2>7. u = Detected(c, c.failures, first, base, c.stalled) /\ c.failures \in 0..UnresponsiveProbes
        /\ c.stalled \in BOOLEAN
    BY <2>6 DEF Detected, Tracking
  <2> HIDE DEF u
  <2>8. u \in Tracking /\ u.restarts = t.restarts
    BY <2>2, <2>6, <2>7, TypedDetection
  <2>9. tracking'[o] = [u EXCEPT !.restarts = w]
    BY <2>4, <2>8 DEF w
  <2> QED BY <2>3, <2>8, <2>9, TypedUpdates DEF w, t
<1>2. DOMAIN tracking' = Outputs /\ tracking' = [p \in Outputs |-> tracking'[p]]
  BY DEF Sleep
<1>3. tracking' \in [Outputs -> Tracking]
  BY <1>1, <1>2
<1>4. ASSUME NEW o \in Outputs
      PROVE  InWindow(Ages(attempts[o], RestartWindow + 1)) = InWindow(tracking'[o].restarts)
  <2>1. tracking[o].restarts \in Seq(WindowAges) /\ attempts[o] = InWindow(tracking[o].restarts)
    BY DEF WindowInv, Tracking, Windows
  <2> QED BY <1>1, <2>1, WindowOfOlder
<1>5. attempts' = [o \in Outputs |-> InWindow(Ages(attempts[o], RestartWindow + 1))]
  BY DEF Sleep
<1>6. attempts' = [o \in Outputs |-> InWindow(tracking'[o].restarts)]
  BY <1>4, <1>5
<1> QED BY <1>3, <1>6 DEF WindowInv

\* Nobody else touches detection.
LEMMA WindowNext == WindowInv /\ [Next]_vars => WindowInv'
<1> SUFFICES ASSUME WindowInv, [Next]_vars PROVE WindowInv'
  OBVIOUS
<1>1. ASSUME UNCHANGED <<tracking, attempts>> PROVE WindowInv'
  BY <1>1 DEF WindowInv
<1>2. CASE AudioLost \/ AudioBack \/ UNCHANGED vars
  BY <1>1, <1>2 DEF AudioLost, AudioBack, vars
<1>3. ASSUME NEW o \in Outputs, Break(o) \/ Command(o) \/ RestartByHand(o) \/ Reconcile(o)
      PROVE  WindowInv'
  BY <1>1, <1>3 DEF Break, Command, RestartByHand, Reconcile
<1>4. ASSUME NEW o \in Outputs, Ignore(o) PROVE WindowInv'
  <2>1. tracking' = [tracking EXCEPT ![o] = Reset(tracking[o])] /\ attempts' = attempts
    BY <1>4 DEF Ignore
  <2>2. Reset(tracking[o]) \in Tracking /\ Reset(tracking[o]).restarts = tracking[o].restarts
    BY TypedTick, TypedReset
  <2> QED BY <2>1, <2>2, SameWindow
<1>5. ASSUME NEW o \in Outputs, Observe(o) PROVE WindowInv'
  <2>1. tracking' = [tracking EXCEPT ![o] = Observed(o)] /\ attempts' = attempts
    BY <1>5 DEF Observe
  <2> QED BY <2>1, TypedTick, SameWindow
<1> QED BY <1>2, <1>3, <1>4, <1>5, WindowAct, WindowSleep DEF Next, Supervisor, World

LEMMA WindowInit == Init => WindowInv
<1> SUFFICES ASSUME Init PROVE WindowInv
  OBVIOUS
<1> DEFINE none == <<>>
<1>1. none \in Seq(WindowAges) /\ Len(none) = 0 /\ (none # <<>> => none[1] <= RestartWindow)
  BY EmptySeq
<1>2. NewTracking = [probeIn |-> 0, actionIn |-> 0, failures |-> 0, firstFailure |-> Never,
                     baseline |-> Never, stalled |-> FALSE, limited |-> FALSE, restarts |-> none]
  BY DEF NewTracking
<1>3. tracking = [o \in Outputs |-> NewTracking] /\ attempts = [o \in Outputs |-> none]
  BY DEF Init
<1> HIDE DEF none
<1>4. InWindow(none) = none
  BY <1>1, RecentStay
<1>5. none \in Windows
  BY <1>1, ConfigTypes DEF Windows
<1>6. NewTracking \in Tracking /\ NewTracking.restarts = none
  BY <1>2, <1>5, ConfigTypes DEF Tracking
<1> QED BY <1>3, <1>4, <1>6 DEF WindowInv

\* In every run the attempts to restart an output within the window keep to the limit, those
\* that failed included.
THEOREM RestartsLimited == Spec => []RestartsAreLimited
<1>1. WindowInv => RestartsAreLimited
  <2> SUFFICES ASSUME WindowInv, NEW o \in Outputs PROVE Len(attempts[o]) <= RestartLimit
    BY DEF RestartsAreLimited
  <2>1. attempts[o] = InWindow(tracking[o].restarts) /\ InWindow(tracking[o].restarts) \in Windows
    BY TypedTick, WindowsShrink DEF WindowInv
  <2> QED BY <2>1 DEF Windows
<1> QED BY <1>1, WindowInit, WindowNext, PTL DEF Spec

\* The turn of an output ends like this.
LEMMA TypedVisit ==
    ASSUME OtherTypes, NEW o, NEW next \in {"watch", "sleep"}
    PROVE  Visited(o, next) \in [phase : {"reconcile", "watch", "sleep"}, todo : SUBSET Outputs]
  BY DEF Visited, OtherTypes

LEMMA TypedUse ==
    ASSUME OtherTypes
    PROVE  Fault \/ Failure \/ Use("commands", MaxCommands) =>
             count' \in [faults : 0..MaxFaults, failures : 0..MaxFailures, commands : 0..MaxCommands]
  BY ConfigTypes DEF OtherTypes, Fault, Failure, Use

LEMMA TypedBackoff ==
    ASSUME NEW b \in [left : 0..MaxDelay, delay : 1..MaxDelay]
    PROVE  /\ Failed(b) \in [left : 0..MaxDelay, delay : 1..MaxDelay]
           /\ NoFailure \in [left : 0..MaxDelay, delay : 1..MaxDelay]
  BY ConfigTypes DEF Failed, NoFailure, Least

LEMMA OtherTypesNext == OtherTypes /\ [Next]_vars => OtherTypes'
<1> SUFFICES ASSUME OtherTypes, [Next]_vars PROVE OtherTypes'
  OBVIOUS
<1>0. \A s \in SUBSET Outputs : Restarted(s) \in [Outputs -> States]
  BY DEF Restarted, OtherTypes, States
<1>1. CASE AudioLost \/ AudioBack \/ UNCHANGED vars
  BY <1>1, TypedUse DEF AudioLost, AudioBack, vars, world, OtherTypes
<1>2. ASSUME NEW o \in Outputs, Break(o) \/ RestartByHand(o) PROVE OtherTypes'
  BY <1>2, TypedUse DEF Break, RestartByHand, OtherTypes, States
<1>3. ASSUME NEW o \in Outputs, Command(o) PROVE OtherTypes'
  <2>1. Stop(o) \/ Play(o) =>
          /\ player' \in [Outputs -> States] /\ moved' \in [Outputs -> BOOLEAN]
          /\ intention' \in [Outputs -> {"play", "stop"}]
    <3>1. CASE Stop(o)
      BY <3>1 DEF Stop, OtherTypes, States
    <3>2. CASE Play(o)
      <4>1. moved[o] \in BOOLEAN /\ (moved[o] \/ player'[o] # player[o]) \in BOOLEAN
        BY DEF OtherTypes
      <4> QED BY <3>2, <4>1 DEF Play, OtherTypes, States
    <3> QED BY <3>1, <3>2
  <2> QED BY <1>3, <2>1, TypedUse DEF Command, OtherTypes
<1>4. ASSUME NEW o \in Outputs, Reconcile(o) PROVE OtherTypes'
  <2>1. loop' \in [phase : {"reconcile", "watch", "sleep"}, todo : SUBSET Outputs]
    BY <1>4, TypedVisit DEF Reconcile
  <2>2. player[o] \in States /\ Reconciled(o) \in States /\ "stopped" \in States
        /\ backoff[o] \in [left : 0..MaxDelay, delay : 1..MaxDelay]
    BY DEF Reconciled, States, Broken, OtherTypes
  <2>3. player' \in [Outputs -> States]
    BY <1>4, <2>2 DEF Reconcile, OtherTypes
  <2>4. backoff' \in [Outputs -> [left : 0..MaxDelay, delay : 1..MaxDelay]]
    <3>1. /\ Failed(backoff[o]) \in [left : 0..MaxDelay, delay : 1..MaxDelay]
          /\ NoFailure \in [left : 0..MaxDelay, delay : 1..MaxDelay]
      BY <2>2, TypedBackoff
    <3>2. \/ backoff' = backoff \/ backoff' = [backoff EXCEPT ![o] = NoFailure]
          \/ backoff' = [backoff EXCEPT ![o] = Failed(backoff[o])]
      BY <1>4 DEF Reconcile
    <3> QED BY <3>1, <3>2 DEF OtherTypes
  <2>5. moved' \in [Outputs -> BOOLEAN]
    <3>1. moved[o] \in BOOLEAN /\ (moved[o] \/ player'[o] # player[o]) \in BOOLEAN
      BY DEF OtherTypes
    <3> QED BY <1>4, <3>1 DEF Reconcile, OtherTypes
  <2> QED BY <1>4, <2>1, <2>3, <2>4, <2>5 DEF Reconcile, OtherTypes
<1>5. ASSUME NEW o \in Outputs, Ignore(o) PROVE OtherTypes'
  BY <1>5, TypedVisit, ConfigTypes DEF Ignore, OtherTypes, world
<1>6. ASSUME NEW o \in Outputs PROVE /\ (moved[o] /\ ~Due(o)) \in BOOLEAN
                                     /\ [moved EXCEPT ![o] = @ /\ ~Due(o)] \in [Outputs -> BOOLEAN]
  BY DEF OtherTypes
<1>7. ASSUME NEW o \in Outputs, Observe(o) PROVE OtherTypes'
  <2>1. life' \in [Outputs -> 0..Threshold]
    BY <1>7, ConfigTypes DEF Observe, OtherTypes
  <2>2. loop' \in [phase : {"reconcile", "watch", "sleep"}, todo : SUBSET Outputs]
    BY <1>7, TypedVisit DEF Observe
  <2> QED BY <1>6, <1>7, <2>1, <2>2 DEF Observe, OtherTypes
<1>8. ASSUME NEW o \in Outputs, Act(o) PROVE OtherTypes'
  <2>1. MayAct(o) => /\ loop' \in [phase : {"reconcile", "watch", "sleep"}, todo : SUBSET Outputs]
                     /\ moved' \in [Outputs -> BOOLEAN]
    BY <1>6, TypedVisit DEF MayAct
  <2>2. \A p \in Outputs : [life EXCEPT ![p] = 0] \in [Outputs -> 0..Threshold]
    BY ConfigTypes DEF OtherTypes
  <2>3. CASE Defer(o) \/ Hold(o)
    BY <2>1, <2>3 DEF Defer, Hold, OtherTypes
  <2>4. CASE RestartFails(o)
    <3>1. player' \in [Outputs -> States]
      BY <2>4, FailedRestarts DEF OtherTypes
    <3> QED BY <2>1, <2>4, <3>1, TypedUse DEF RestartFails, OtherTypes
  <2>5. CASE Restart(o)
    BY <1>0, <2>1, <2>2, <2>5, TypedBackoff DEF Restart, OtherTypes
  <2>6. CASE EscalationFails(o)
    <3>1. player' \in [Outputs -> States]
      BY <2>6, FailedRestarts DEF OtherTypes
    <3> QED BY <2>1, <2>6, <3>1, TypedUse, ConfigTypes DEF EscalationFails, OtherTypes
  <2>7. CASE Escalate(o)
    <3>1. NoFailure \in [left : 0..MaxDelay, delay : 1..MaxDelay]
      BY ConfigTypes DEF NoFailure
    <3>2. [p \in Outputs |-> 0] \in [Outputs -> 0..Threshold] /\ 0 \in 0..EscalationWindow
      BY ConfigTypes
    <3> QED BY <1>0, <2>1, <2>7, <3>1, <3>2 DEF Escalate, OtherTypes
  <2> QED BY <1>8, <2>3, <2>4, <2>5, <2>6, <2>7 DEF Act
<1>9. CASE Sleep
  <2>1. moved' \in [Outputs -> BOOLEAN]
    <3>1. \A p \in Outputs : (moved[p] \/ player[p] = "playing") \in BOOLEAN
      OBVIOUS
    <3> QED BY <1>9, <3>1 DEF Sleep
  <2>2. backoff' \in [Outputs -> [left : 0..MaxDelay, delay : 1..MaxDelay]]
    <3>1. \A b \in [left : 0..MaxDelay, delay : 1..MaxDelay] :
            [b EXCEPT !.left = Later(@)] \in [left : 0..MaxDelay, delay : 1..MaxDelay]
      BY ConfigTypes DEF Later
    <3> QED BY <1>9, <3>1 DEF Sleep, OtherTypes
  <2>3. life' \in [Outputs -> 0..Threshold]
    <3>1. \A n \in 0..Threshold : Least(n + 1, Threshold) \in 0..Threshold
      BY ConfigTypes DEF Least
    <3> QED BY <1>9, <3>1 DEF Sleep, OtherTypes
  <2>4. escalated' \in 0..EscalationWindow
    <3>1. \A n \in 0..EscalationWindow : Least(n + 1, EscalationWindow) \in 0..EscalationWindow
      BY ConfigTypes DEF Least
    <3> QED BY <1>9, <3>1 DEF Sleep, OtherTypes
  <2> QED BY <1>9, <2>1, <2>2, <2>3, <2>4 DEF Sleep, OtherTypes
<1> QED BY <1>1, <1>2, <1>3, <1>4, <1>5, <1>7, <1>8, <1>9 DEF Next, Supervisor, World

LEMMA OtherTypesInit == Init => OtherTypes
  BY ConfigTypes DEF Init, OtherTypes, States, Broken

\* Every variable has its type, and no output's list of restarts exceeds the limit.
THEOREM TypeCorrect == Spec => []TypeOK
<1>1. WindowInv /\ OtherTypes => TypeOK
  BY DEF WindowInv, OtherTypes, TypeOK, States, Tracking, Windows, WindowAges, Waits
<1> QED BY <1>1, WindowInit, WindowNext, OtherTypesInit, OtherTypesNext, PTL DEF Spec

=============================================================================
