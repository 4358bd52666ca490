--------------------------- MODULE MCOrchestrator ---------------------------
(***************************************************************************)
(* Orchestrator for TLC: what arrives from outside in each of the runs.    *)
(***************************************************************************)
EXTENDS Orchestrator

Arrivals(deliver, decide, sweep, step, cancel) ==
    [deliver |-> deliver, decide |-> decide, sweep |-> sweep, step |-> step,
     cancel |-> cancel]

\* All the gates of one run, with a rejection or a non-decision on the way.
OneRun == {Arrivals(1, 5, 2, 0, 0)}

\* Every pair of arrivals that can meet while a run is under way, and a cancellation
\* that meets each of them.
Pairs == {Arrivals(1, 2, 0, 0, 0), Arrivals(1, 1, 1, 0, 0), Arrivals(1, 0, 1, 1, 0),
          Arrivals(2, 0, 0, 1, 0),
          Arrivals(1, 1, 0, 0, 1), Arrivals(1, 0, 1, 0, 1), Arrivals(1, 0, 0, 1, 1),
          Arrivals(2, 0, 0, 0, 1)}

\* Two requests that decide gates, and nothing else.
TwoRequests == {Arrivals(1, 2, 0, 0, 0)}

=============================================================================
