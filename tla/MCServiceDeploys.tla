-------------------------- MODULE MCServiceDeploys ---------------------------
EXTENDS ServiceDeploys, FiniteSets, TLC

Symmetry == Permutations(Runs)

\* To keep the liveness run small, a webhook deploys between the pass's turns
\* only, before anything has failed, and nobody asks for a failed commit.
HookCalls(u) == callers[u] = NoCaller /\ callers'[u] # NoCaller
InTurn ==
  /\ Cardinality({u \in Callers : callers'[u] # NoCaller}) <= 1
  /\ \A u \in Callers \ {Pass} : HookCalls(u) =>
       faults = 0 /\ callers'[u].at = "submit" /\ ~callers'[u].requested
SpecInTurn == Init /\ [][Next /\ InTurn]_vars /\ Fairness

=============================================================================
