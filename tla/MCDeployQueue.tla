---------------------------- MODULE MCDeployQueue ----------------------------
EXTENDS DeployQueue, TLC

\* Goroutines and submitters are interchangeable; so are environments.
Symmetry == Permutations(Submitters) \union Permutations(Loops)

=============================================================================
