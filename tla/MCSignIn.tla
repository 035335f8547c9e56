------------------------------- MODULE MCSignIn -------------------------------
EXTENDS SignIn, TLC

Good(p) == [by |-> p, answers |-> TRUE, ours |-> TRUE, bare |-> TRUE, named |-> TRUE]
\* Throwaways of two people, and one that carries rights.
SomeThrowaways ==
  [t1 |-> Good("eva"), t2 |-> Good("jan"), t3 |-> [Good("eva") EXCEPT !.bare = FALSE]]
Same == Permutations(Calls)
=============================================================================
