-------------------------- MODULE MCRunnerLifecycle ---------------------------
EXTENDS RunnerLifecycle, TLC

\* The goroutines but for the pass's, and the services, are alike.
Symmetry == Permutations(Workers \ {Pass}) \union Permutations(Ids)

=============================================================================
