----------------------------- MODULE MCRightsLoop -----------------------------
EXTENDS RightsLoop

GroupTag(id, slug) == [tag |-> "gn", id |-> id, slug |-> slug]
ProjectTag(id, project, kind) == [tag |-> "gm", id |-> id, project |-> project, kind |-> kind]

\* A group with a Mate, the same in another order beside a tag of no registry,
\* and with a second Mate.
OneMate == <<GroupTag("1", "acme"), ProjectTag("1", "nova", "mate")>>
Reordered == <<ProjectTag("1", "nova", "mate"), [tag |-> "other"], GroupTag("1", "acme")>>
TwoMates == OneMate \o <<ProjectTag("1", "vega", "mate")>>
SomeLists == {OneMate, Reordered, TwoMates}
TwoLists == {Reordered, TwoMates}

\* A registry is read back from the tags it is written as, in whatever order
\* they come, and however odd the list was it was read from (Tags).
SomeTags ==
  {GroupTag("1", "acme"), GroupTag("2", "acme"), GroupTag("1", "beta"), [tag |-> "release", id |-> "1"],
   ProjectTag("1", "nova", "mate"), ProjectTag("1", "nova", "production"), ProjectTag("1", "prod", "production"),
   [tag |-> "leaving", user |-> "u"], [tag |-> "other"]}
Orders(S) == {s \in [1..Cardinality(S) -> S] : IsInjective(s)}
ReadBack ==
  \A n \in 0..3 : \A list \in [1..n -> SomeTags] :
    LET registry == Parse(list, {"acme", "beta"})
    IN \A order \in Orders(TagsOf(registry)) : Parse(order, {"acme", "beta"}) = registry
ASSUME TagsAssumption == ReadBack
=============================================================================
