---------------------------- MODULE AdaptiveSpec ----------------------------
(***************************************************************************)
(* Adaptive speculation: the controller that moves an EAGLE worker between   *)
(* pre-built tiers of speculative_num_steps by the accepted drafts it sees    *)
(* (speculative/adaptive_spec_params.py, adaptive_runtime_state.py and the    *)
(* hooks of eagle_worker.py), with what depends on the tier elsewhere: the    *)
(* scheduler's memory check and the rows of req_to_token, which are sized     *)
(* once, before the first tier is chosen.                                    *)
(*                                                                         *)
(* Accept lengths are in quarters of a draft, so that averages and           *)
(* thresholds are integers.  With ema_alpha < 1 the moving average may be     *)
(* anywhere between its old value and the batch average.                     *)
(***************************************************************************)
EXTENDS Integers, Sequences, FiniteSets, FiniteSetsExt, Collections

CONSTANTS
  Reqs,        \* requests of the running batch
  Tiers,       \* candidate_steps, ascending
  Initials,    \* values of --speculative-num-steps
  ContextLen,  \* context_len of the model
  Warmup,      \* warmup_batches
  Interval,    \* update_interval
  DownHyst,    \* down_hysteresis, in quarters
  UpHyst       \* up_hysteresis, in quarters

ASSUME AdaptiveAssumption ==
  /\ Len(Tiers) >= 2 /\ Tiers \in Seq(Nat \ {0})
  /\ \A i \in 1 .. Len(Tiers) - 1 : Tiers[i] < Tiers[i + 1]
  /\ IsFiniteSet(Reqs)
  /\ Initials \subseteq Nat \ {0} /\ ContextLen \in Nat /\ ContextLen > 7
  /\ Warmup \in Nat /\ Interval \in Nat \ {0}
  /\ DownHyst \in Int /\ UpHyst \in Int

VARIABLES
  sharp,     \* ema_alpha = 1: the last batch decides
  idx,       \* current_steps = Tiers[idx]
  ema,       \* ema_accept_len
  count,     \* _batch_count
  states,    \* tiers with a SpecRuntimeState
  worker,    \* [steps, tokens, draft, runner, target, extend]: the worker's
             \* configuration and the tier its backends and graphs are built for
  args,      \* [steps, tokens]: server_args, read by the scheduler
  row_len,   \* width of req_to_token
  seq,       \* seq[r]: tokens of r with KV, 0 when r is not there
  secured,   \* tokens per request that check_decode_mem found room for
  acc,       \* acc[r]: drafts accepted in the last verify, of acc_of
  acc_of,    \* speculative_num_steps of that verify
  phase

adaptiveVars == <<sharp, idx, ema, count, states, worker, args, row_len, seq, secured, acc, acc_of, phase>>

MaxSteps == Tiers[Len(Tiers)]
Running == {r \in Reqs : seq[r] > 0}

-----------------------------------------------------------------------------
(* AdaptiveSpeculativeParams.                                              *)

Distance(s, n) == IF s < n THEN n - s ELSE s - n

\* The tier nearest to the configured steps, the larger of two.
Snap(n) == CHOOSE i \in DOMAIN Tiers :
             \A j \in DOMAIN Tiers :
               \/ Distance(Tiers[i], n) < Distance(Tiers[j], n)
               \/ Distance(Tiers[i], n) = Distance(Tiers[j], n) /\ i >= j

DropThreshold(i) == 4 * Tiers[i] - 2 + DownHyst
RiseThreshold(i) == 4 * Tiers[i] - 2 + UpHyst

\* The two loops of _recompute_params.
Dropped(i, e) == Min({j \in 1 .. i : \A k \in j .. i - 1 : e <= DropThreshold(k)})

\* Mutant of Raised: the threshold of the tier above.
RaisedNext(i, e) == Max({j \in i .. Len(Tiers) : \A k \in i .. j - 1 : e > RiseThreshold(k + 1)})

Raised(i, e) == Max({j \in i .. Len(Tiers) : \A k \in i .. j - 1 : e > RiseThreshold(k)})

Recomputed(i, e) == Raised(Dropped(i, e), e)

\* The average of the batch and the new moving average.
BatchAvg == (4 * Total(acc, Running)) \div Cardinality(Running)
Smoothed(avg) == IF sharp THEN {avg} ELSE Min({ema, avg}) .. Max({ema, avg})

\* _batch_count, folded after the warmup: only its distance modulo the interval counts.
Counted == IF count >= Warmup + Interval THEN Warmup + 1 ELSE count + 1
Due(n) == n > Warmup /\ (n - Warmup) % Interval = 0

-----------------------------------------------------------------------------
(* Startup.                                                                *)

Resources(n) == [steps |-> n, tokens |-> n + 1, draft |-> n, runner |-> n, target |-> n, extend |-> n]

\* EAGLEWorker.__init__ and _init_pools, with --speculative-num-steps n.
AdaptiveInit ==
  \E n \in Initials :
    /\ sharp \in BOOLEAN
    /\ worker = Resources(n)
    /\ args = [steps |-> n, tokens |-> n + 1]
    /\ row_len = ContextLen + 4 + (n + 1)
    /\ states = {n}
    /\ idx = Snap(n) /\ ema = 4 * (Tiers[Snap(n)] - 1) /\ count = 0
    /\ seq = [r \in Reqs |-> 0] /\ acc = [r \in Reqs |-> 0] /\ acc_of = 0
    /\ secured = 0
    /\ phase = "build"

\* Mutant of Restored: the draft runner keeps the backend of the built tier.
RestoredPart(n) == [worker EXCEPT !.runner = n]

\* The worker after _override_worker_state: everything is put back.
Restored(n) == worker

\* init_states: build_adaptive_runtime_state for each tier that is not registered.
BuildState(n) ==
  /\ phase = "build" /\ n \notin states
  /\ \A i \in DOMAIN Tiers : Tiers[i] < n => Tiers[i] \in states
  /\ states' = states \cup {n}
  /\ worker' = Restored(n)
  /\ UNCHANGED <<idx, ema, count, args, row_len, seq, secured, acc, acc_of, phase>>

\* apply_runtime_state.
Applied(n) ==
  IF worker.steps = n THEN UNCHANGED <<worker, args>>
  ELSE worker' = Resources(n) /\ args' = [steps |-> n, tokens |-> n + 1]

\* The end of init_states.
ActivateFirst ==
  /\ phase = "build" /\ Range(Tiers) \subseteq states
  /\ Applied(Tiers[idx])
  /\ phase' = "idle"
  /\ UNCHANGED <<idx, ema, count, states, row_len, seq, secured, acc, acc_of>>

-----------------------------------------------------------------------------
(* Requests and rounds.                                                    *)

\* A prefilled request: prompts are shorter than max_req_input_len.
Arrive(r) ==
  /\ phase = "idle" /\ seq[r] = 0
  /\ \E p \in 1 .. ContextLen - 7 : seq' = [seq EXCEPT ![r] = p]
  /\ UNCHANGED <<idx, ema, count, states, worker, args, row_len, secured, acc, acc_of, phase>>

\* KV of a request with max_new_tokens outputs, at most max_req_len - len(input) - 1.
SeqLimit == ContextLen - 3

\* check_decode_mem: new_tokens_required_next_decode reads server_args.
CheckDecodeMem ==
  /\ phase = "idle" /\ Running # {}
  /\ secured' = Max({args.steps, args.tokens})
  /\ phase' = "verify"
  /\ UNCHANGED <<idx, ema, count, states, worker, args, row_len, seq, acc, acc_of>>

\* draft, verify and draft extend: the target's token follows the accepted
\* drafts; at the length limit the rest is cut.
Verify ==
  /\ phase = "verify"
  /\ \E a \in [Running -> 0 .. worker.steps] :
       LET kept == [r \in Running |-> Min({a[r], SeqLimit - seq[r] - 1})]
       IN  /\ acc' = [r \in Reqs |-> IF r \in Running THEN kept[r] ELSE 0]
           /\ seq' = [r \in Reqs |-> IF r \in Running THEN seq[r] + kept[r] + 1 ELSE 0]
  /\ acc_of' = worker.steps
  /\ phase' = "complete"
  /\ UNCHANGED <<idx, ema, count, states, worker, args, row_len, secured>>

\* on_verify_complete; requests at their limit, or with a stop token, leave after it.
OnVerifyComplete ==
  /\ phase = "complete"
  /\ \E e \in Smoothed(BatchAvg) :
       /\ ema' = e
       /\ count' = Counted
       /\ idx' = IF Due(Counted) THEN Recomputed(idx, e) ELSE idx
       /\ IF idx' = idx THEN UNCHANGED <<worker, args>> ELSE Applied(Tiers[idx'])
  /\ \E stop \in SUBSET Running :
       seq' = [r \in Reqs |-> IF r \in stop \/ seq[r] >= SeqLimit THEN 0 ELSE seq[r]]
  /\ phase' = "idle"
  /\ UNCHANGED <<states, row_len, secured, acc, acc_of>>

Round == CheckDecodeMem \/ Verify \/ OnVerifyComplete
Traffic == \E r \in Reqs : Arrive(r)

Step ==
  \/ \E n \in Range(Tiers) : BuildState(n)
  \/ ActivateFirst \/ Traffic \/ Round

AdaptiveNext == Step /\ UNCHANGED sharp

AdaptiveSystem == AdaptiveInit /\ [][AdaptiveNext]_adaptiveVars

-----------------------------------------------------------------------------
(* Properties.                                                             *)

AdaptiveTypeOK ==
  /\ idx \in DOMAIN Tiers /\ ema \in 0 .. 4 * MaxSteps /\ count \in 0 .. Warmup + Interval
  /\ states \subseteq Initials \cup Range(Tiers)
  /\ \E n \in states : args.steps = n
  /\ seq \in [Reqs -> 0 .. ContextLen] /\ acc \in [Reqs -> 0 .. MaxSteps]
  /\ phase \in {"build", "idle", "verify", "complete"}

\* verify writes speculative_num_draft_tokens entries behind seq_lens into the
\* request's own row, whose width was fixed with the initial tier.
RowFits ==
  phase = "verify" => \A r \in Running : seq[r] + worker.tokens <= row_len

\* A decision stands until there is new evidence: recomputing with the same
\* average would not move the tier again.
DecisionStands == phase = "idle" /\ Due(count) => Recomputed(idx, ema) = idx

\* Every round runs with one tier: the controller's decision, the worker's shapes,
\* all backends and graphs and the scheduler's memory check agree, whatever was
\* built, restored or switched before, and what the tier writes fits the rows.
StagesAgree ==
  /\ AdaptiveTypeOK
  /\ DecisionStands
  /\ RowFits
  /\ phase \in {"verify", "complete"} =>
       /\ worker = Resources(Tiers[idx])
       /\ secured >= worker.tokens

AllAccepted == acc_of > 0 /\ \A r \in Reqs : acc[r] = acc_of
NoneAccepted == acc_of > 0 /\ \A r \in Reqs : acc[r] = 0

\* "If drafts are consistently accepted, try more steps", "if drafts are
\* consistently rejected early, reduce steps": once every batch has all its
\* drafts accepted the highest tier is reached, once none the lowest.
Adapts ==
  /\ sharp /\ <>[]AllAccepted => <>(worker.steps = MaxSteps)
  /\ sharp /\ <>[]NoneAccepted => <>(worker.steps = Tiers[1])
=============================================================================
