---------------------------- MODULE MCMixedStage -----------------------------
EXTENDS MixedStage, TLC

Symmetry == Permutations(Grants)

=============================================================================
