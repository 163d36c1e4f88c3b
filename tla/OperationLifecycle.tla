------------------------- MODULE OperationLifecycle -------------------------
(***************************************************************************)
(* What the agent promises about one manual playback command, without the  *)
(* ledger, worker, lock, revisions and crashes that keep the promise: a    *)
(* command is accepted, waits, runs at most once, takes effect at most     *)
(* once and only while it runs, and gets one final outcome, which claims   *)
(* "not applied" only of a command that had no effect.                     *)
(***************************************************************************)
CONSTANT Ids

VARIABLES
    state,   \* life of each command
    claim,   \* what its outcome says: "yes", "no" or "unknown"
    effect   \* the commands that changed the player's saved state

vars == <<state, claim, effect>>

Outcomes == {"applied", "failed", "expired", "superseded", "outcome_unknown"}

Init ==
    /\ state  = [i \in Ids |-> "absent"]
    /\ claim  = [i \in Ids |-> "no"]
    /\ effect = {}

\* Accepting a command gives up waiting ones (they never run) and forgets
\* commands that have had their outcome.
Accept(i, replaced, forgotten) ==
    /\ state[i] = "absent"
    /\ \A j \in replaced  : state[j] = "queued"
    /\ \A j \in forgotten : state[j] \in Outcomes
    /\ state' = [j \in Ids |-> CASE j = i -> "queued"
                                 [] j # i /\ j \in forgotten -> "pruned"
                                 [] j # i /\ j \in replaced -> "superseded"
                                 [] OTHER -> state[j]]
    /\ UNCHANGED <<claim, effect>>

Start(i) ==
    /\ state[i] = "queued"
    /\ state' = [state EXCEPT ![i] = "running"]
    /\ UNCHANGED <<claim, effect>>

TakeEffect(i) ==
    /\ state[i] = "running" /\ i \notin effect
    /\ effect' = effect \cup {i}
    /\ UNCHANGED <<state, claim>>

\* The outcome of a command that ran: one that took effect is never said to
\* have expired or not to have been applied.
Conclude(i, outcome, says) ==
    /\ state[i] = "running"
    /\ outcome \in {"applied", "failed", "expired"}
    /\ outcome = "applied" <=> says = "yes"
    /\ i \in effect => says # "no"
    /\ outcome = "expired" => says = "no"
    /\ state' = [state EXCEPT ![i] = outcome]
    /\ claim' = [claim EXCEPT ![i] = says]
    /\ UNCHANGED effect

\* After an interruption nothing is claimed of the commands that ran.
Interrupt ==
    /\ state' = [i \in Ids |-> IF state[i] = "running" THEN "outcome_unknown" ELSE state[i]]
    /\ claim' = [i \in Ids |-> IF state[i] = "running" THEN "unknown" ELSE claim[i]]
    /\ UNCHANGED effect

Next ==
    \/ \E i \in Ids, replaced, forgotten \in SUBSET Ids : Accept(i, replaced, forgotten)
    \/ \E i \in Ids : Start(i) \/ TakeEffect(i)
    \/ \E i \in Ids, outcome \in {"applied", "failed", "expired"}, says \in {"yes", "no", "unknown"} :
         Conclude(i, outcome, says)
    \/ Interrupt

Spec == Init /\ [][Next]_vars
=============================================================================
