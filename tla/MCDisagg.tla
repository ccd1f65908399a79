------------------------------ MODULE MCDisagg ------------------------------
EXTENDS Disagg

Scenario(load, long, pages, aborts, faults) ==
  [load |-> load, long |-> long, pages |-> pages, aborts |-> aborts, faults |-> faults]

\* One request with everything that can go wrong; two that share the slot and the
\* page of each server, with timeouts, with an abort, and with a failing engine; and
\* a chunked prompt, beside another and with a failing engine.
MCScenarios ==
  {Scenario({1}, {}, 1, {1}, FaultKinds),
   Scenario({1, 2}, {}, 1, {}, {"timeout"}),
   Scenario({1, 2}, {}, 1, {1}, {}),
   Scenario({1, 2}, {}, 1, {}, {"session"}),
   Scenario({1, 2}, {1}, 2, {}, {}),
   Scenario({1}, {1}, 2, {}, {"session"})}
=============================================================================
