----------------------------- MODULE MCRecipeDelta -----------------------------
EXTENDS RecipeDelta, TLC

Env(name, tier, project, form, names) ==
  [name |-> name, tier |-> tier, project |-> project, gate |-> "", deploy |-> "",
   sources |-> [form |-> form, names |-> names]]
Declared(h, git, setup, priority) ==
  [hostname |-> h, git |-> git, setup |-> setup, priority |-> priority, shape |-> 1, secret |-> FALSE]

Test == Env("test", "stage", "p1", "list", <<"main">>)
Mixed == Env("mixed", "stage", "p2", "list", <<"main", "next">>)
Prod == Env("prod", "production", "p3", "scalar", <<"release">>)

App == Declared("app", "acme/app", "app", 1)
Db == Declared("db", "", "", 10)
Mail == Declared("mail", "public", "mail", 1)
Api == Declared("api", "acme/api", "api", 5)

Stages == [version |-> 1, environments |-> <<Test, Mixed>>]
WithProduction == [version |-> 1, environments |-> <<Test, Prod>>]
\* A stage cannot follow releases: the whole file is refused.
BadFile == [version |-> 1, environments |-> <<Test, [Prod EXCEPT !.tier = "stage"]>>]

Both(stage, production) == [stage |-> stage, production |-> production]
Old == [file |-> Stages, recipe |-> Both(<<App, Db>>, <<App>>)]
\* The stage gains an API, ...
New == [file |-> Stages, recipe |-> Both(<<App, Api, Db>>, <<App>>)]
\* ... and a mail catcher, and loses its database; production is declared.
Newer == [file |-> WithProduction, recipe |-> Both(<<App, Api, Mail>>, <<App>>)]
Broken == [file |-> BadFile, recipe |-> Both(<<App, Db>>, <<>>)]
SomeMains == {Old, New, Newer, Broken}

HasCode(names) == [h \in names |-> [hostname |-> h, shape |-> 1, starts |-> "app"]]
SomeServices == [p1 |-> HasCode({"app", "db"}), p2 |-> HasCode({"app", "db"}), p3 |-> HasCode({"app"})]
SomeHeads == {<<"acme/app", "main">>, <<"acme/api", "main">>, <<"acme/app", "env/mixed">>,
              <<"acme/api", "env/mixed">>}

Same == Permutations(Passes)

\* Main moves only when the broker has taken what it held before: what it sees
\* first it only reports, and the change is a later one.
SpecSeen == Init /\ [][Next /\ (main' # main => seen["stage"] # Unseen)]_vars

\* Reference definitions, over every recipe of up to three services.
Small == UNION {[1..n -> {Declared(h, g, "x", q) : h \in {"a", "b", "c"}, g \in {"", "acme/a"}, q \in 0..1}] :
                 n \in 1..3}
OrderIsRight ==
  \A r \in Small : WellFormed(r) =>
    LET o == Order(r)
        at(s) == CHOOSE i \in DOMAIN r : r[i] = s
    IN /\ {o[i] : i \in DOMAIN o} = {r[i] : i \in DOMAIN r} /\ Len(o) = Len(r)
       /\ \A i, j \in DOMAIN o : i < j =>
            \/ o[i].priority > o[j].priority
            \/ o[i].priority = o[j].priority /\ at(o[i]) < at(o[j])
ASSUME OrderAssumption == OrderIsRight
=============================================================================
