------------------------------- MODULE RecipeDelta -----------------------------
(***************************************************************************)
(* Recipe deltas (internal/pipeline/recipes.go): when main of a group's    *)
(* repository changes a tier's import.yaml, a pass imports what the change *)
(* added into every environment of the tier, before it deploys there.      *)
(*                                                                         *)
(* A pass is the deploy loop's (Pipeline.Pass) or a webhook's              *)
(* (reconcileRecipes); webhooks have goroutines of their own, so several   *)
(* passes go through one group at a time.  Gitea is read several times in  *)
(* a pass and main may move in between; only what the broker remembers of  *)
(* a tier is under a lock.  The sha of a file is its content.              *)
(***************************************************************************)
EXTENDS EnvironmentFiles

CONSTANTS Mains,      \* what main may hold: [file, recipe]
          FirstMain,
          Projects,   \* the environments' projects
          AtFirst,    \* per project: the services it starts with
          Passes,     \* goroutines that reconcile
          HeadOf,     \* <<repository, branch>> pairs that have a head
          Released,   \* the hostnames the newest approved release lists
          MaxMoves,   \* bound: times main moves
          MaxEvents   \* bound: failures and restarts

\* environments.yaml is a list, and names projects there are.
ASSUME FilesAssumption ==
  /\ MaxMoves \in Nat /\ MaxEvents \in Nat
  /\ FirstMain \in Mains /\ AtFirst = [p \in Projects |-> AtFirst[p]]
  /\ \A p \in Projects : \A h \in DOMAIN AtFirst[p] : AtFirst[p][h].starts \in {"app", "empty", "built"}
  /\ \A m \in Mains :
       LET doc == m.file.environments
       IN doc \in Seq(Range(doc)) /\ \A i \in DOMAIN doc : doc[i].project \in Projects

VARIABLES main,      \* main of the group repository
          present,   \* per project: its services by hostname
          seen,      \* per tier: the content the broker last took, or Unseen
          pass,      \* the passes
          moved,     \* history: tiers whose recipe changed since the start
          moves, events

outside == <<main, present, moved, moves>>
vars == <<main, present, seen, pass, moved, moves, events>>

Unseen == <<>>
NoPass == [at |-> "idle", file |-> NoFile, recipes |-> <<>>, reading |-> {}, tiers |-> {},
           tier |-> "", sha |-> Unseen, envs |-> {}, missing |-> {},
           changed |-> {}, met |-> {}, targets |-> {}, calm |-> TRUE, steady |-> TRUE]

TypeOK ==
  /\ main \in Mains
  /\ \A p \in Projects : \A h \in DOMAIN present[p] : present[p][h].starts \in {"app", "empty", "built"}
  /\ DOMAIN seen = Tiers
  /\ \A t \in Tiers : seen[t] = Unseen \/ \E m \in Mains : seen[t] = m.recipe[t]
  /\ moved \subseteq Tiers /\ moves \in 0..MaxMoves /\ events \in 0..MaxEvents

Init ==
  /\ main = FirstMain /\ present = AtFirst
  /\ seen = [t \in Tiers |-> Unseen]
  /\ pass = [w \in Passes |-> NoPass]
  /\ moved = {} /\ moves = 0 /\ events = 0

Event == events < MaxEvents /\ events' = events + 1

\* Somebody else's step disturbs a pass.
Disturbed(w) == [v \in Passes |-> IF v = w \/ pass[v].at = "idle" THEN pass[v]
                                  ELSE [pass[v] EXCEPT !.calm = FALSE]]
Step(w, to) == pass' = [Disturbed(w) EXCEPT ![w] = to]

-----------------------------------------------------------------------------
(* The plan (Pipeline.Plan): the file, then each tier it needs.            *)

ReadFile(w) ==
  /\ pass[w].at = "idle"
  /\ LET file == Parse(main.file)
         tiers == {file.environments[i].tier : i \in DOMAIN file.environments}
     IN Step(w, IF file.ok /\ tiers # {}
                THEN [NoPass EXCEPT !.at = "plan", !.file = file, !.reading = tiers,
                                    !.calm = \A v \in Passes : pass[v].at = "idle"]
                ELSE NoPass)
  /\ UNCHANGED <<outside, seen, events>>

\* A tier that cannot be read is left out.
ReadRecipe(w, t) ==
  /\ pass[w].at = "plan" /\ t \in pass[w].reading
  /\ LET left == pass[w].reading \ {t}
         good == WellFormed(main.recipe[t])
     IN Step(w, [pass[w] EXCEPT
                   !.reading = left,
                   !.recipes = IF good THEN (t :> main.recipe[t]) @@ @ ELSE @,
                   !.tiers = IF good THEN @ \union {t} ELSE @,
                   !.at = IF left = {} THEN "tiers" ELSE "plan"])
  /\ UNCHANGED <<outside, seen, events>>

-----------------------------------------------------------------------------
(* The tiers of the plan, in any order (recipes).                          *)

ReadSha(w, t) ==
  /\ pass[w].at = "tiers" /\ t \in pass[w].tiers
  /\ Step(w, [pass[w] EXCEPT !.at = "take", !.tier = t, !.tiers = @ \ {t},
                             !.sha = main.recipe[t]])
  /\ UNCHANGED <<outside, seen, events>>

\* One environment after the other, then the next tier.
Current(p) == p.file.environments[Min(p.envs)]
Left(p) == p.envs \ {Min(p.envs)}
NextTier(p) == [p EXCEPT !.at = "tiers", !.tier = "", !.sha = Unseen,
                         !.envs = {}, !.missing = {}]
Advance(p) ==
  IF Left(p) = {} THEN NextTier(p)
  ELSE [p EXCEPT !.envs = Left(p), !.missing = {}, !.at = "services"]

Taken(w) ==
  LET p == pass[w] IN
  /\ p.at = "take"
  /\ seen' = [seen EXCEPT ![p.tier] = p.sha]
  /\ UNCHANGED <<outside, events>>

Reconcile(p) == [p EXCEPT !.envs = OfTier(p.file, p.tier),
                          !.changed = @ \union {p.tier}, !.at = "services"]

\* Mutant: a tier nobody has taken yet is a changed one.
TakeUnreported(w) ==
  LET p == pass[w]
      known == [p EXCEPT !.met = IF seen[p.tier] = Unseen THEN @ ELSE @ \union {p.tier}]
  IN Taken(w) /\ Step(w, IF seen[p.tier] = p.sha THEN NextTier(known) ELSE Reconcile(known))

\* The broker takes the recipe as seen, whatever comes of it.  The first time
\* in its life it only reports.
Take(w) ==
  LET p == pass[w]
      known == [p EXCEPT !.met = IF seen[p.tier] = Unseen THEN @ ELSE @ \union {p.tier}]
  IN Taken(w) /\ Step(w, IF seen[p.tier] \in {Unseen, p.sha} THEN NextTier(known) ELSE Reconcile(known))

\* What the tier declares and the project lacks.  Services it has beyond that,
\* or with another declaration than when the tier was last taken, are
\* reported and left alone.
Missing(recipe, services) ==
  {s \in Range(Order(recipe)) : s.hostname \notin DOMAIN services}

ReadServices(w) ==
  /\ pass[w].at = "services"
  /\ LET p == pass[w]
         missing == Missing(p.recipes[p.tier], present[Current(p).project])
     IN Step(w, IF missing = {} THEN Advance(p)
                ELSE [p EXCEPT !.missing = missing, !.at = "import"])
  /\ UNCHANGED <<outside, seen, events>>

\* The services of a project, and those created beside them.
Beside(services, new) ==
  [h \in DOMAIN services \union {s.hostname : s \in new} |->
     IF h \in DOMAIN services THEN services[h] ELSE Service(new, h)]

\* Mutant: an environment that was imported into is the last.
ImportFirst(w) ==
  LET p == pass[w]
      project == Current(p).project
      new == StartWithoutCode(p.missing).services
      clash == \E s \in new : s.hostname \in DOMAIN present[project]
  IN /\ p.at = "import"
     /\ Step(w, NextTier(p))
     /\ present' = IF clash THEN present
                   ELSE [present EXCEPT ![project] = Beside(@, new)]
     /\ UNCHANGED <<main, seen, moved, moves, events>>

\* One document for what is missing; Zerops refuses it whole when a service
\* of it exists by now.
Import(w) ==
  LET p == pass[w]
      project == Current(p).project
      new == StartWithoutCode(p.missing).services
      clash == \E s \in new : s.hostname \in DOMAIN present[project]
  IN /\ p.at = "import"
     /\ Step(w, Advance(p))
     /\ present' = IF clash THEN present
                   ELSE [present EXCEPT ![project] = Beside(@, new)]
     /\ UNCHANGED <<main, seen, moved, moves, events>>

\* A read or an import that fails is a problem of the pass: it goes on with the
\* next environment, or the next tier.
ReadFails(w) ==
  /\ pass[w].at \in {"services", "import"} /\ Event
  /\ Step(w, [Advance(pass[w]) EXCEPT !.calm = FALSE, !.steady = FALSE])
  /\ UNCHANGED <<outside, seen>>

ShaFails(w, t) ==
  /\ pass[w].at = "tiers" /\ t \in pass[w].tiers /\ Event
  /\ Step(w, [pass[w] EXCEPT !.tiers = @ \ {t}, !.calm = FALSE, !.steady = FALSE])
  /\ UNCHANGED <<outside, seen>>

-----------------------------------------------------------------------------
(* The deploys of the same pass.                                           *)

\* Resolver.Resolve: the tier's runtimes, those that have the environment's
\* branch or that the release lists.
Resolve(p, e) ==
  {s \in IF e.tier \in DOMAIN p.recipes THEN Runtimes(p.recipes[e.tier]) ELSE {} :
     IF e.release THEN s.hostname \in Released ELSE <<s.git, Branch(e)>> \in HeadOf}

\* The tiers are done.
ToDeploys(w) ==
  /\ pass[w].at = "tiers" /\ pass[w].tiers = {}
  /\ Step(w, [pass[w] EXCEPT !.at = "deploy", !.envs = DOMAIN pass[w].file.environments])
  /\ UNCHANGED <<outside, seen, events>>

\* catchUp submits what is behind: services the project does not have as well.
CatchUp(w) ==
  LET p == pass[w]
      e == Current(p)
      behind == {s \in Resolve(p, e) :
                   s.hostname \in DOMAIN present[e.project]
                     => present[e.project][s.hostname].starts = "empty"}
  IN /\ p.at = "deploy" /\ p.envs # {}
     /\ Step(w, [p EXCEPT !.envs = Left(p),
                          !.targets = @ \union {[environment |-> e, service |-> s.hostname] : s \in behind}])
     /\ UNCHANGED <<outside, seen, events>>

Done(w) ==
  /\ pass[w].at = "deploy" /\ pass[w].envs = {}
  /\ Step(w, NoPass)
  /\ UNCHANGED <<outside, seen, events>>

-----------------------------------------------------------------------------
(* Outside.                                                                *)

MoveMain ==
  /\ moves < MaxMoves /\ moves' = moves + 1
  /\ main' \in Mains \ {main}
  /\ moved' = moved \union {t \in Tiers : main'.recipe[t] # main.recipe[t]}
  /\ pass' = [w \in Passes |-> [pass[w] EXCEPT !.calm = pass[w].at = "idle",
                                               !.steady = pass[w].at = "idle"]]
  /\ UNCHANGED <<present, seen, events>>

\* The broker forgets, and cuts its passes off.
Restart ==
  /\ Event
  /\ seen' = [t \in Tiers |-> Unseen]
  /\ pass' = [w \in Passes |-> NoPass]
  /\ moved' = {}
  /\ UNCHANGED <<main, present, moves>>

Next ==
  \/ \E w \in Passes :
       \/ ReadFile(w) \/ Take(w) \/ ReadServices(w) \/ Import(w) \/ ReadFails(w)
       \/ ToDeploys(w) \/ CatchUp(w) \/ Done(w)
       \/ \E t \in Tiers : ReadRecipe(w, t) \/ ReadSha(w, t) \/ ShaFails(w, t)
  \/ MoveMain \/ Restart

Spec == Init /\ [][Next]_vars

-----------------------------------------------------------------------------
(* Properties.                                                             *)

\* A pass imports nothing into a tier whose recipe main did not change since
\* the broker started: a restart, which forgets what was imported, creates no
\* service (the first and seen of recipes, under one lock).
NothingBeforeAChange ==
  \A w \in Passes : pass[w].at = "import" => pass[w].tier \in moved

\* A pass that neither a failure nor somebody else disturbed deploys, in the
\* tiers it found changed, only to services that exist: everything the tier
\* declares is imported before the first deploy (importDelta, Pass).
ImportedFirst ==
  \A w \in Passes :
    pass[w].calm =>
      \A t \in pass[w].targets :
        t.environment.tier \in pass[w].changed => t.service \in DOMAIN present[t.environment.project]

Lacks(p, e) ==
  e.tier \in DOMAIN p.recipes /\ ~(Hostnames(p.recipes[e.tier]) \subseteq DOMAIN present[e.project])

\* "When `main` changes a tier's `import.yaml`, the next pass imports into
\* every environment built from that tier what is missing" (docs/group-repo.md):
\* a pass that is not the first since a start, in which nothing failed and main
\* did not move, leaves no environment without a service of its tier.
NextPassImports ==
  events = 0 =>
    \A w \in Passes :
      pass[w].at = "deploy" /\ pass[w].steady /\ (\A v \in Passes \ {w} : pass[v].at = "idle") =>
        \A i \in DOMAIN pass[w].file.environments :
          LET e == pass[w].file.environments[i] IN e.tier \in pass[w].met => ~Lacks(pass[w], e)
=============================================================================
