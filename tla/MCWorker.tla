------------------------------ MODULE MCWorker ------------------------------
(* One server: tiers move under the normal loop, futures exist in the overlap  *)
(* loop only, so one of the two parts runs and the other stays as it starts.   *)
EXTENDS AdaptiveSpec, FutureMap

VARIABLE overlap \* enable_overlap

all == <<overlap, adaptiveVars, vars>>

DefaultTiers == <<1, 3, 7>>
Down == -1

WorkerInit ==
  /\ overlap \in BOOLEAN
  /\ AdaptiveInit /\ (overlap => sharp /\ args.steps = 1)
  /\ Init

Tiered(A) == ~overlap /\ A /\ UNCHANGED <<overlap, sharp, vars>>

WorkerNext ==
  \/ Tiered(Step)
  \/ overlap /\ Next /\ UNCHANGED <<overlap, adaptiveVars>>

\* The server starts, serves its batch and requests keep coming; no property of
\* FutureMap needs fairness.
WorkerSpec ==
  /\ WorkerInit /\ [][WorkerNext]_all
  /\ WF_all(Tiered(Round)) /\ WF_all(Tiered(ActivateFirst)) /\ WF_all(Tiered(Traffic))
  /\ \A n \in Range(Tiers) : WF_all(Tiered(BuildState(n)))
=============================================================================
