--------------------------- MODULE RunnerLifecycle ---------------------------
(***************************************************************************)
(* How a group comes to have one Actions runner that runs, and loses it    *)
(* (internal/pipeline/runner.go): the pass, queued jobs, the watcher of a  *)
(* build and the replacement of a tainted runner, each a goroutine of its  *)
(* own, import, replace and delete the group's one runner service from     *)
(* reads that may be old when they act on them.                            *)
(*                                                                         *)
(* Every call to Zerops or Gitea is a step of its own; what the code does  *)
(* after a call, its locks and its memory of the group included, is a part *)
(* of that step, except that the decision on the list of services is a     *)
(* step after it: a pass may replace other groups' runners in between.     *)
(* One group is modelled, whose runner shares its hostname with no other's *)
(* and has an import document.  The platform's clock is three facts: a     *)
(* service is older than the bound of a build, the wait before a rebuild   *)
(* is over, the hold of a sweep is over.                                   *)
(***************************************************************************)
EXTENDS Naturals

CONSTANTS Ids,        \* bound: services known at once
          NoId,       \* no service
          Workers,    \* goroutines
          Pass,       \* the one of them that is the pass's loop
          StopAfter,  \* runnerStopAfter
          MaxPushes,  \* bound: pushes that have not lifted a stop yet
          MaxFaults   \* bound: failed calls and builds, slow builds, taints, restarts

ASSUME RunnersAssumption ==
  /\ NoId \notin Ids
  /\ Pass \in Workers
  /\ StopAfter \in Nat \ {0}
  /\ MaxPushes \in Nat
  /\ MaxFaults \in Nat

VARIABLES status,     \* per service of the hostname: has it run
          deleting,   \* services whose deletion is on its way
          build,      \* per service: its one build
          old,        \* services older than runnerBuildBound
          failures,   \* builds of the hostname that failed since one finished
          cooled,     \* the wait since the newest build began is over
          regs,       \* registrations of the org: the service they are of
          registered, \* the group is in the registry
          waiting,    \* a job is queued in Gitea
          asked,      \* history: pushes that have not lifted a stop
          workers,    \* the goroutines
          importing,  \* who holds runnerImport[hostname]
          replacing,  \* who holds replacing[hostname]
          stopped,    \* runnerStopped[hostname]
          lifted,     \* lifted[hostname] is after the newest failure
          held,       \* sweepHeld[slug], and its wait is not over
          watched,    \* the service whose build is watched, or NoId
          alarm,      \* a watched build ended without finishing
          faults      \* how many faults have happened

platformVars == <<status, deleting, build, old, failures, cooled>>
giteaVars == <<regs, waiting, asked>>
lockVars == <<importing, replacing>>
memoryVars == <<stopped, lifted, held>>
watchVars == <<watched, alarm>>
worldVars == <<platformVars, giteaVars, registered>>
vars == <<worldVars, workers, lockVars, memoryVars, watchVars, faults>>

\* READY_TO_DEPLOY has never run; ACTIVE, STARTING, STOPPING, STOPPED have.
Statuses == {"none", "ready", "ran"}
\* A build that finished is deployed, or its deployment has failed ("stuck").
Builds == {"none", "moving", "failed", "finished", "stuck"}
\* What a goroutine works for: the pass, for a group it found in the registry
\* or not, a queued job, which a person's push started or not, a build that
\* ended without finishing, a tainted runner.
Kinds == {"pass", "left", "job", "push", "watch", "taint"}
\* The call or the decision a goroutine is at.
Phases == {"idle", "taint", "registry", "services", "look", "queued", "builds",
           "delete", "await", "relist", "sweep", "import"}
\* What the list of services showed: none, one that has never run, one that
\* has, one that is in between.
Looks == {"none", "never", "ran", "between"}
\* A goroutine: the service it is about, what the list showed of it, and
\* whether the registry it read has the group.
Goroutine == [at : Phases, kind : Kinds, id : Ids \union {NoId}, saw : Looks,
              known : BOOLEAN]
Idle == [at |-> "idle", kind |-> "pass", id |-> NoId, saw |-> "none", known |-> FALSE]

\* Every variable is of its type, and one goroutine at most is in an import of
\* the group's runner, one at most in a replacement (runnerImport, replacing).
TypeOK ==
  /\ status \in [Ids -> Statuses]
  /\ deleting \subseteq Ids
  /\ build \in [Ids -> Builds]
  /\ old \subseteq Ids
  /\ failures \in Nat
  /\ regs \subseteq Ids
  /\ asked \in 0..MaxPushes
  /\ workers \in [Workers -> Goroutine]
  /\ importing \subseteq Workers /\ \A u, v \in importing : u = v
  /\ replacing \subseteq Workers /\ \A u, v \in replacing : u = v
  /\ watched \in Ids \union {NoId}
  /\ faults \in 0..MaxFaults
  /\ cooled \in BOOLEAN /\ registered \in BOOLEAN /\ waiting \in BOOLEAN
  /\ stopped \in BOOLEAN /\ lifted \in BOOLEAN /\ held \in BOOLEAN
  /\ alarm \in BOOLEAN

-----------------------------------------------------------------------------
Init ==
  /\ status = [i \in Ids |-> "none"]
  /\ deleting = {}
  /\ build = [i \in Ids |-> "none"]
  /\ old = {}
  /\ failures = 0
  /\ cooled = TRUE
  /\ regs = {}
  /\ registered = TRUE
  /\ waiting = FALSE
  /\ asked = 0
  /\ workers = [u \in Workers |-> Idle]
  /\ importing = {} /\ replacing = {}
  /\ stopped = FALSE /\ lifted = FALSE /\ held = FALSE
  /\ watched = NoId /\ alarm = FALSE
  /\ faults = 0

Fault == faults < MaxFaults /\ faults' = faults + 1

\* What the list of the project's services shows of the hostname.
Listed == {i \in Ids : status[i] # "none"}
Moving == \E i \in Ids : build[i] = "moving"

Begin(u, at, kind, id) ==
  /\ workers[u].at = "idle"
  /\ workers' = [workers EXCEPT ![u] =
       [at |-> at, kind |-> kind, id |-> id, saw |-> "none", known |-> registered]]
At(u, at) == workers[u].at = at
\* What the list showed is used at once.
Goto(u, at) ==
  /\ workers' = [workers EXCEPT ![u].at = at, ![u].saw = "none"]
  /\ UNCHANGED lockVars
\* The goroutine returns, and its deferred calls release what it holds.
End(u) ==
  /\ workers' = [workers EXCEPT ![u] = Idle]
  /\ importing' = importing \ {u}
  /\ replacing' = replacing \ {u}

-----------------------------------------------------------------------------
(* Who looks at the runner.                                                *)

\* Pipeline.Pass has read the registry.
PassBegins ==
  /\ Begin(Pass, "services", IF registered THEN "pass" ELSE "left", NoId)
  /\ UNCHANGED <<worldVars, lockVars, memoryVars, watchVars, faults>>

\* A job queues, and its delivery will be handled.
JobQueues(u, kind) ==
  /\ u # Pass
  /\ kind = "push" => asked < MaxPushes
  /\ Begin(u, "registry", kind, NoId)
  /\ waiting' = TRUE
  /\ asked' = IF kind = "push" THEN asked + 1 ELSE asked
  /\ UNCHANGED <<platformVars, regs, registered, lockVars, memoryVars, watchVars, faults>>

\* A job queues whose delivery is lost.
JobUnheard ==
  /\ ~waiting
  /\ Fault
  /\ waiting' = TRUE
  /\ UNCHANGED <<platformVars, regs, asked, registered, workers, lockVars, memoryVars,
                 watchVars>>

\* watchRunnerBuild: the build it follows ended without finishing.
BuildWatched(u) ==
  /\ u # Pass
  /\ alarm /\ alarm' = FALSE
  /\ Begin(u, "registry", "watch", NoId)
  /\ UNCHANGED <<worldVars, lockVars, memoryVars, watched, faults>>

\* runnerTrust: a grant found that the runner has run unreviewed code.
Tainted(u, i) ==
  /\ u # Pass
  /\ status[i] = "ran"
  /\ Fault
  /\ Begin(u, "taint", "taint", i)
  /\ UNCHANGED <<worldVars, lockVars, memoryVars, watchVars>>

\* replaceRunner, up to its lock.
Replace(u) ==
  /\ At(u, "taint")
  /\ IF replacing # {} THEN End(u)
     ELSE /\ workers' = [workers EXCEPT ![u].at = "registry"]
          /\ replacing' = {u}
          /\ UNCHANGED importing
  /\ UNCHANGED <<worldVars, memoryVars, watchVars, faults>>

\* The registry is read; only EnsureRunner asks whether the group is in it.
ReadRegistry(u) ==
  /\ At(u, "registry")
  /\ IF workers[u].kind \in {"job", "push"} /\ ~registered THEN End(u)
     ELSE LET next == IF workers[u].kind = "taint" THEN "delete" ELSE "services"
          IN /\ workers' = [workers EXCEPT ![u].at = next, ![u].known = registered]
             /\ UNCHANGED lockVars
  /\ UNCHANGED <<worldVars, memoryVars, watchVars, faults>>

-----------------------------------------------------------------------------
(* What there is, and what is to be done about it.                         *)

Look(i) ==
  CASE i \in deleting         -> "between"
    [] status[i] = "ready"    -> "never"
    [] OTHER                  -> status[i]

\* The services of the project are listed.
ListServices(u) ==
  /\ At(u, "services")
  /\ \/ \E i \in Listed :
          workers' = [workers EXCEPT ![u].at = "look", ![u].id = i, ![u].saw = Look(i)]
     \/ Listed = {} /\ workers' = [workers EXCEPT ![u].at = "look"]
  /\ UNCHANGED <<worldVars, lockVars, memoryVars, watchVars, faults>>

StopHolds(u) == stopped /\ workers[u].kind # "push"

\* Mutant: a departed group's runner goes only once it has run.
LookDepartedRan(u) ==
  /\ At(u, "look") /\ workers[u].kind = "left"
  /\ IF workers[u].saw # "ran" THEN End(u) ELSE Goto(u, "delete")
  /\ UNCHANGED <<worldVars, memoryVars, watchVars, faults>>

\* The group is not in the registry the pass read: its runner goes.
LookDeparted(u) ==
  /\ At(u, "look") /\ workers[u].kind = "left"
  /\ IF workers[u].saw = "none" THEN End(u) ELSE Goto(u, "delete")
  /\ UNCHANGED <<worldVars, memoryVars, watchVars, faults>>

\* mendRunner: a runner that runs lifts a stop; one that has never run may be
\* broken, which its builds tell.
LookMends(u) ==
  /\ At(u, "look") /\ workers[u].kind # "left" /\ workers[u].saw # "none"
  /\ stopped' = (stopped /\ workers[u].saw # "ran")
  /\ IF workers[u].saw = "never" /\ ~StopHolds(u) THEN Goto(u, "builds") ELSE End(u)
  /\ UNCHANGED <<worldVars, lifted, held, watchVars, faults>>

\* Mutant: the pass leaves a missing runner to the next delivery.
LookMissingUnowed(u) ==
  /\ At(u, "look") /\ workers[u].kind # "left" /\ workers[u].saw = "none"
  /\ IF workers[u].kind = "pass" \/ importing \union replacing # {} \/ StopHolds(u)
     THEN End(u) ELSE Goto(u, "builds")
  /\ UNCHANGED <<worldVars, memoryVars, watchVars, faults>>

\* There is none: reviewRunner, or the pass's owedRunner, which asks Gitea
\* first whether a job waits.
LookMissing(u) ==
  /\ At(u, "look") /\ workers[u].kind # "left" /\ workers[u].saw = "none"
  /\ IF \/ importing \union replacing # {} \/ StopHolds(u)
        \/ workers[u].kind = "pass" /\ held
     THEN End(u)
     ELSE Goto(u, IF workers[u].kind = "pass" THEN "queued" ELSE "builds")
  /\ UNCHANGED <<worldVars, memoryVars, watchVars, faults>>

\* QueuedOrgRuns.
ReadQueued(u) ==
  /\ At(u, "queued")
  /\ IF waiting THEN Goto(u, "builds") ELSE End(u)
  /\ UNCHANGED <<worldVars, memoryVars, watchVars, faults>>

\* brokenRunner, of a service listed as READY_TO_DEPLOY.
Broken(i) == build[i] = "failed" \/ (build[i] # "moving" /\ i \in old)

\* A push that meets the stop lifts it.
Lifts(u) == failures >= StopAfter /\ ~lifted /\ workers[u].kind = "push"

\* Mutant: no number of failed builds stops the rebuilds.
MayRebuildForEver(u) == ~Moving /\ (failures <= 1 \/ cooled)

\* mayRebuild: none is building, the stop is not reached or is lifted, and the
\* wait since the newest of several failures is over.
MayRebuild(u) ==
  /\ ~Moving
  /\ failures < StopAfter \/ lifted \/ Lifts(u)
  /\ failures <= 1 \/ cooled

\* What mayRebuild remembers of a stop and of a push that lifts it.
Remember(u) ==
  IF Moving \/ failures < StopAfter \/ lifted THEN UNCHANGED <<stopped, lifted>>
  ELSE stopped' = ~Lifts(u) /\ lifted' = Lifts(u)

\* importRunner up to its lock.
Import(u) ==
  IF held \/ importing # {} THEN End(u)
  ELSE /\ workers' = [workers EXCEPT ![u].at = "relist"]
       /\ importing' = {u}
       /\ UNCHANGED replacing

\* repairRunner up to its lock.
Repair(u) ==
  IF replacing # {} THEN End(u)
  ELSE /\ workers' = [workers EXCEPT ![u].at = "delete"]
       /\ replacing' = {u}
       /\ UNCHANGED importing

\* There is no runner, or one that is broken.
NeedsBuild(u) == workers[u].id \in Ids => Broken(workers[u].id)

\* The builds of the hostname are read: none is needed, or none may start now.
BuildsLeave(u) ==
  /\ At(u, "builds") /\ ~(NeedsBuild(u) /\ MayRebuild(u))
  /\ IF NeedsBuild(u) THEN Remember(u) ELSE UNCHANGED <<stopped, lifted>>
  /\ End(u)
  /\ UNCHANGED <<worldVars, held, watchVars, faults>>

\* Mutant: one older than the bound of a build is replaced whatever it does.
BuildsAllowOld(u) ==
  /\ At(u, "builds")
  /\ workers[u].id \in old \/ (NeedsBuild(u) /\ MayRebuild(u))
  /\ IF workers[u].id = NoId THEN Import(u) ELSE Repair(u)
  /\ Remember(u)
  /\ UNCHANGED <<worldVars, held, watchVars, faults>>

\* A missing runner may be imported, a broken one replaced.
BuildsAllow(u) ==
  /\ At(u, "builds") /\ NeedsBuild(u) /\ MayRebuild(u)
  /\ IF workers[u].id = NoId THEN Import(u) ELSE Repair(u)
  /\ Remember(u)
  /\ UNCHANGED <<worldVars, held, watchVars, faults>>

-----------------------------------------------------------------------------
(* Deleting.                                                               *)

\* DeleteService: the platform answers a process, or that there is no such
\* service any more.
Delete(u) ==
  /\ At(u, "delete")
  /\ LET i == workers[u].id
     IN \/ status[i] = "none" /\ End(u) /\ UNCHANGED deleting
        \/ status[i] # "none" /\ Goto(u, "await") /\ deleting' = deleting \union {i}
  /\ UNCHANGED <<status, build, old, failures, cooled, giteaVars, registered, memoryVars,
                 watchVars, faults>>

\* AwaitProcess: a replacement goes on only when the service is gone.
Await(u) ==
  /\ At(u, "await")
  /\ LET i == workers[u].id
     IN /\ i \notin deleting
        /\ IF workers[u].kind # "left" /\ status[i] = "none" THEN Import(u) ELSE End(u)
  /\ UNCHANGED <<worldVars, memoryVars, watchVars, faults>>

\* The watcher of a build hears that it ended without finishing.
Alarm(i) ==
  /\ alarm' = (alarm \/ watched = i)
  /\ watched' = IF watched = i THEN NoId ELSE watched

\* The platform's side: a deletion ends; a build it cuts short is canceled.
DeletionEnds(i) ==
  /\ i \in deleting
  /\ deleting' = deleting \ {i}
  /\ status' = [status EXCEPT ![i] = "none"]
  /\ build' = [build EXCEPT ![i] = "none"]
  /\ old' = old \ {i}
  /\ \/ build[i] = "moving" /\ failures' = failures + 1 /\ Alarm(i)
     \/ build[i] # "moving" /\ UNCHANGED <<failures, watchVars>>
  /\ UNCHANGED <<cooled, giteaVars, registered, workers, lockVars, memoryVars, faults>>

DeletionFails(i) ==
  /\ i \in deleting
  /\ Fault
  /\ deleting' = deleting \ {i}
  /\ UNCHANGED <<status, build, old, failures, cooled, giteaVars, registered, workers,
                 lockVars, memoryVars, watchVars>>

-----------------------------------------------------------------------------
(* Importing: importRunner under its lock.                                 *)

\* Mutant: the import trusts the list its caller read.
RelistTrusted(u) ==
  /\ At(u, "relist")
  /\ Goto(u, "sweep")
  /\ UNCHANGED <<worldVars, memoryVars, watchVars, faults>>

\* The services again: one imported since the caller looked is left alone.
Relist(u) ==
  /\ At(u, "relist")
  /\ IF Listed # {} THEN End(u) ELSE Goto(u, "sweep")
  /\ UNCHANGED <<worldVars, memoryVars, watchVars, faults>>

\* Mutant: only a tainted runner's replacement sweeps.
SweepTainted(u) ==
  /\ At(u, "sweep")
  /\ regs' = IF workers[u].kind = "taint" THEN {} ELSE regs
  /\ held' = FALSE
  /\ Goto(u, "import")
  /\ UNCHANGED <<platformVars, waiting, asked, registered, stopped, lifted, watchVars,
                 faults>>

\* sweepRunners: every registration of the org goes.
Sweep(u) ==
  /\ At(u, "sweep")
  /\ regs' = {}
  /\ held' = FALSE
  /\ Goto(u, "import")
  /\ UNCHANGED <<platformVars, waiting, asked, registered, stopped, lifted, watchVars,
                 faults>>

\* A list or a deletion fails, or registrations are left after the last round:
\* the import is held back, unless the goroutine's own context ended.
SweepFails(u) ==
  /\ At(u, "sweep")
  /\ Fault
  /\ regs' \in SUBSET regs
  /\ held' \in {held, TRUE}
  /\ End(u)
  /\ UNCHANGED <<platformVars, waiting, asked, registered, stopped, lifted, watchVars>>

\* A new service takes an id that nothing refers to any more; its build begins.
Made(i) ==
  /\ status[i] = "none" /\ i \notin regs
  /\ \A u \in Workers : workers[u].id # i
  /\ status' = [status EXCEPT ![i] = "ready"]
  /\ build' = [build EXCEPT ![i] = "moving"]
  /\ cooled' = FALSE
  /\ lifted' = FALSE
  /\ asked' = IF failures >= StopAfter /\ asked > 0 THEN asked - 1 ELSE asked
  /\ UNCHANGED <<deleting, old, failures, regs, waiting>>

\* The registration token and ImportServices; the new service's build is watched.
ImportServices(u) ==
  /\ At(u, "import")
  /\ \E i \in Ids : Made(i) /\ watched' = i
  /\ End(u)
  /\ UNCHANGED <<registered, stopped, held, alarm, faults>>

\* The answer is lost: the service may have been made, and nobody watches it.
ImportFails(u) ==
  /\ At(u, "import")
  /\ Fault
  /\ \/ \E i \in Ids : Made(i)
     \/ UNCHANGED <<platformVars, giteaVars, lifted>>
  /\ End(u)
  /\ UNCHANGED <<registered, stopped, held, watchVars>>

\* Any other call fails, or its answer is lost: the goroutine gives up.
CallFails(u) ==
  /\ workers[u].at \in {"registry", "services", "queued", "builds", "delete", "await",
                        "relist"}
  /\ Fault
  /\ End(u)
  /\ UNCHANGED <<worldVars, memoryVars, watchVars>>

-----------------------------------------------------------------------------
(* The platform, Gitea, time and restarts.                                 *)

\* A build finishes; what it made is deployed next, unless that fails.
BuildFinishes(i) ==
  /\ build[i] = "moving"
  /\ \/ build' = [build EXCEPT ![i] = "finished"] /\ UNCHANGED faults
     \/ build' = [build EXCEPT ![i] = "stuck"] /\ Fault
  /\ failures' = 0
  /\ watched' = IF watched = i THEN NoId ELSE watched
  /\ UNCHANGED <<status, deleting, old, cooled, giteaVars, registered, workers, lockVars,
                 memoryVars, alarm>>

BuildFails(i) ==
  /\ build[i] = "moving"
  /\ Fault
  /\ build' = [build EXCEPT ![i] = "failed"]
  /\ failures' = failures + 1
  /\ Alarm(i)
  /\ UNCHANGED <<status, deleting, old, cooled, giteaVars, registered, workers, lockVars,
                 memoryVars>>

\* The version is deployed: the runner starts and registers.
Deployed(i) ==
  /\ build[i] = "finished" /\ status[i] = "ready"
  /\ status' = [status EXCEPT ![i] = "ran"]
  /\ regs' = regs \union {i}
  /\ UNCHANGED <<deleting, build, old, failures, cooled, waiting, asked, registered,
                 workers, lockVars, memoryVars, watchVars, faults>>

\* A runner with a registration takes the jobs that wait.
JobTaken(i) ==
  /\ waiting /\ status[i] = "ran" /\ i \in regs \ deleting
  /\ waiting' = FALSE
  /\ UNCHANGED <<platformVars, regs, asked, registered, workers, lockVars, memoryVars,
                 watchVars, faults>>

\* A service that has not run gets older than runnerBuildBound; its build is no
\* longer followed.
GetsOld(i) ==
  /\ status[i] = "ready" /\ i \notin old
  /\ old' = old \union {i}
  /\ watched' = IF watched = i THEN NoId ELSE watched
  /\ UNCHANGED <<status, deleting, build, failures, cooled, giteaVars, registered, workers,
                 lockVars, memoryVars, alarm>>

Ages(i) ==
  /\ GetsOld(i) /\ build[i] \notin {"moving", "finished"}
  /\ UNCHANGED faults

\* A build, or the deployment after it, outlasts runnerBuildBound.
Outlasts(i) ==
  /\ GetsOld(i) /\ build[i] \in {"moving", "finished"}
  /\ Fault

\* A wait is over: before a rebuild, which has one after its second failure
\* only, or before the next sweep.
WaitEnds ==
  /\ \/ failures > 1 /\ ~cooled /\ cooled' = TRUE /\ UNCHANGED held
     \/ held /\ held' = FALSE /\ UNCHANGED cooled
  /\ UNCHANGED <<status, deleting, build, old, failures, giteaVars, registered, workers,
                 lockVars, stopped, lifted, watchVars, faults>>

\* The group leaves the registry.
Leaves ==
  /\ registered
  /\ registered' = FALSE
  /\ UNCHANGED <<platformVars, giteaVars, workers, lockVars, memoryVars, watchVars, faults>>

\* The broker restarts: its goroutines and all it remembers are gone.
Restart ==
  /\ Fault
  /\ workers' = [u \in Workers |-> Idle]
  /\ importing' = {} /\ replacing' = {}
  /\ stopped' = FALSE /\ lifted' = FALSE /\ held' = FALSE
  /\ watched' = NoId /\ alarm' = FALSE
  /\ UNCHANGED worldVars

-----------------------------------------------------------------------------
\* What a goroutine at work does next.
WorkerNext(u) ==
  \/ Replace(u) \/ ReadRegistry(u) \/ ListServices(u)
  \/ LookDeparted(u) \/ LookMends(u) \/ LookMissing(u)
  \/ ReadQueued(u) \/ BuildsLeave(u) \/ BuildsAllow(u)
  \/ Delete(u) \/ Await(u)
  \/ Relist(u) \/ Sweep(u) \/ ImportServices(u)

\* What the platform and the runner on it do by themselves.
PlatformNext(i) ==
  DeletionEnds(i) \/ BuildFinishes(i) \/ Deployed(i) \/ JobTaken(i) \/ Ages(i)

Next ==
  \/ PassBegins
  \/ \E u \in Workers :
       \/ WorkerNext(u) \/ BuildWatched(u)
       \/ \E kind \in {"job", "push"} : JobQueues(u, kind)
       \/ \E i \in Ids : Tainted(u, i)
       \/ SweepFails(u) \/ ImportFails(u) \/ CallFails(u)
  \/ \E i \in Ids : PlatformNext(i) \/ Outlasts(i) \/ BuildFails(i) \/ DeletionFails(i)
  \/ JobUnheard \/ WaitEnds \/ Leaves \/ Restart

Spec == Init /\ [][Next]_vars

\* The pass is started again and again, a goroutine at work goes on, the
\* platform ends what it began, and time passes.
Fairness ==
  /\ WF_vars(PassBegins)
  /\ \A u \in Workers : WF_vars(WorkerNext(u))
  /\ \A i \in Ids : WF_vars(PlatformNext(i))
  /\ WF_vars(WaitEnds)

FairSpec == Spec /\ Fairness

-----------------------------------------------------------------------------
(***************************************************************************)
(* Properties.                                                             *)
(***************************************************************************)

\* A group never has two runner services, whoever imports at once and however
\* old the list they decided from (importRunner's lock and second list).
OneRunner == \A i, j \in Listed : i = j

\* A sweep takes no registration from a runner that runs (a pass whose list was
\* read before a delivery's goroutine imported the runner, and it registered).
SweepSparesRunning ==
  [][\A i \in regs : status[i] = "ran" => i \in regs']_vars

\* A runner is made only once no registration of an earlier one is left, which
\* could fetch its jobs, whatever was restarted in between (sweepRunners keeps
\* no memory of a taint).
FreshAlone ==
  [][(\E i \in Ids : status[i] = "none" /\ status'[i] # "none") => regs' = {}]_vars

\* After StopAfter failed builds in a row each further runner of a registered
\* group has a push of its own, whatever passes, dispatched jobs, watchers and
\* restarts come in between (mayRebuild: "only a person's push lifts a stop, for
\* one more build").
StopKept ==
  [][(\E i \in Ids : status[i] = "none" /\ status'[i] # "none")
       => failures < StopAfter \/ asked > 0 \/ ~registered]_vars

\* brokenRunner: "a slow build is never cut short".  Unless the runner is tainted
\* or its group has left, by the time a goroutine deletes it its build does not
\* move, and has failed or the service is older than runnerBuildBound: however
\* slow the build was, and however long ago the list and the builds were read
\* (brokenRunner and mayRebuild each leave a build that moves alone).
Condemned(u, i) ==
  /\ At(u, "delete") /\ workers[u].kind \notin {"taint", "left"}
  /\ At(u, "await")' /\ i \in deleting' \ deleting
SlowIsLeft ==
  [][\A u \in Workers, i \in Ids : Condemned(u, i) =>
       build[i] # "moving" /\ (build[i] # "failed" => i \in old)]_vars

\* The same of a build that has finished late: not what the code does, which
\* takes a runner that is only then deployed for one that never will be.
FinishedIsLeft ==
  [][\A u \in Workers, i \in Ids : Condemned(u, i) => build[i] # "finished"]_vars

\* A runner is imported only for a group that was in the registry its importer
\* read (docs/group-repo.md: "A group removed from the registry loses its
\* runner service"; EnsureRunner refuses an org that is not registered).
OnlyRegistered == \A u \in Workers : At(u, "import") => workers[u].known

\* A job that waits is taken, or the group has left, or its builds keep failing.
JobServed == waiting ~> ~waiting \/ ~registered \/ failures >= StopAfter

\* A departed group's runner is gone in the end, and stays away.
DepartedGone == <>[]~registered => <>[](Listed = {})

=============================================================================
