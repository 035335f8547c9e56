# A verification project for the gitea-mate broker

TLA+ modules that model the broker of this repository (`cmd/broker`, `internal/`) and the job it
works with (`actions/deploy/deploy.sh`), TLC configurations that check them on small instances, and
proofs of the most important theorems for every instance.

- [Reading the project](#reading-the-project)
- [The system: an inventory](#the-system-an-inventory)
- [What makes it hard](#what-makes-it-hard)
- [The modules and the code](#the-modules-and-the-code)
- [The runs](#the-runs)
- [Fairness](#fairness)
- [What is proved](#what-is-proved)
- [Where the code and its documents disagree](#where-the-code-and-its-documents-disagree)
- [What is not modelled](#what-is-not-modelled)
- [The plan](#the-plan)

## Reading the project

`PROJECT.json` lists the components, the runs, a mutant for every property (an operator named
"Mutant: ..." in a module, that replaces a mapped definition the way a plausible bug would, and that
the property catches), the lines of the code behind every definition, the hazards and the theorems.

    tlc -config MCServiceDeploysSettles.cfg MCServiceDeploys   # one run
    tlapm DeployQueueProofs.tla                                # one module of proofs

## The system: an inventory

The broker is one Go process. It has no database: what it must remember is in the registry tags of a
Zerops project, in the group repositories' `main`, in the commit statuses it writes in Gitea, and in
the name of each app version. Everything else is lost at a restart, on purpose.

| Part | State it keeps | Operations | Talks to |
| --- | --- | --- | --- |
| Deploy queue (`deploy/queue.go`) | `pending`, `running` per environment | `Submit`, `loop` | pipeline, dispatcher |
| Dispatcher (`deploy/dispatcher.go`, `job.go`) | none; the newest commit status is its memory | `Run`, `one`, `MarkLive`, `fail` | Gitea statuses and workflow dispatches, Zerops service |
| Catch-up pass (`pipeline/catchup.go`) | a timer, a one-place kick | `Pass`, `catchUp`, `Loop.Run` | resolver, queue, runner lifecycle, recipes |
| Grant (`pipeline/grant.go`, `deploy/grant.go`, `deploy/records.go`) | `Records`: the newest 2000 grants | `Grant`, `handOver`, `Result` | a job (HTTP), Gitea, Zerops |
| The job (`actions/deploy/deploy.sh`) | which environment it deployed last | ask, push, report, ask again | broker, Zerops |
| Resolver (`deploy/resolve.go`, `merge.go`, `release.go`) | none; pushes `env/{name}` | `Resolve`, `Head`/`merge`, `Releases` | Gitea, git |
| Webhooks (`server/hooks.go`, `pipeline/hooks.go`) | none; one goroutine per delivery | `Push`, `Create`, `PullRequest`, `workflow_job` | queue, statuses, runner pool |
| Runner pool (`server/hooks.go`) | a quiet timer per group | `wake`, `sleepAfterQuietSpell`, `sleep`, `stop` | Zerops service start and stop |
| Runner lifecycle (`pipeline/runner.go`) | imports, sweeps, replacements and stops in hand | `reconcileRunners`, `EnsureRunner`, `importRunner`, `sweepRunners`, `replaceRunner` | Zerops imports, Gitea registrations |
| Recipe deltas (`pipeline/recipes.go`) | the recipe last seen per tier | `recipes`, `importDelta`, `report` | Zerops imports |
| Rights mirror (`mirror/plan.go`, `mirror.go`) | first sightings of deleted projects | `Gather`, `Compute`, `apply` | Zerops, Gitea |
| Rights loop (`mirror/loop.go`) | last seen registry, a chase, a one-place nudge | `Run`, `RunNow`, `watch`, `settle` | mirror, HTTP routes |
| Mate access (`mirror/access.go`) | none; token generations in Gitea, one held in a container | `deliverMateAccess`, `writeVar`, `planBotTokens` | Gitea tokens, Zerops variables |
| OIDC provider (`oidc/`) | requests, codes and accesses, used once | authorize, complete, token, userinfo | Gitea, the Mate app |
| Throwaway proof (`throwaway/`) | none | six steps that prove a person | Zerops |
| Site admin (`siteadmin/`) | one pair of credentials | `Admin`, `Refused` | Zerops variables |
| Person tokens (`server/person.go`) | none | `handlePersonToken`, `ensurePerson` | rights loop, Gitea |
| Attachments, registry, roles, environment files, clients, configuration | none | pure functions, proxies and I/O | |

How a deploy happens. A webhook or the pass **resolves** what an environment should run, and
**submits** a job to the environment's queue. The queue's goroutine runs the **dispatcher**, which
reads the service and the commit's newest status and starts the repository's own workflow, writing
"dispatched" on the commit. That workflow's **job** asks the broker for a **grant**: the broker
resolves again, compares, reads the service and the status, writes "deploying" and hands over the
deploy token. The job pushes to Zerops, which builds, and **reports**; the broker believes a success
only if the service runs the commit, and writes the verdict on the commit. The pass later marks
commits live that run and starts again what is behind. A release differs in what is resolved: the
newest tag of the group repository that the `create` webhook's handler judged worthy.

## What makes it hard

Nothing is under one lock. Each webhook, each HTTP request, the pass and each queue have goroutines
of their own; each decision is read over several HTTP calls and acted on by another; the jobs and the
builds are processes elsewhere. Jobs die without a report, reports get lost, webhooks are delivered
late, twice or never, statuses are overwritten by late writers, and the broker may be restarted
between any two calls. `PROJECT.json` lists these hazards line by line ("hazards"), each with the
properties that catch it or, where the code does go wrong, the configuration that shows how.

What must hold:

- *Queue*: one dispatch of an environment at a time, nothing left waiting with nobody to take it,
  newest wins, and a person's explicit ask is not lost when its job is superseded.
- *Deploying a service*: "live" is written only of a commit that ran; a superseded commit is not
  started again; a service on the wanted commit is left alone; whatever fails, the service ends up
  on the wanted commit or the commit says that its job failed.
- *Mixed stages*: racing rebuilds never move `env/{name}` backwards; a stage follows its sources.
- *Releases*: production runs only what was approved; a refused tag stays refused; production ends
  on the newest approved release.
- *Runners*: a queued job finds a runner awake; none is stopped or deleted under a job; one import
  per group; a failing build is not retried without bound.
- *Recipes*: a restart creates no service; what a tier declares is imported before it is deployed to.
- *Rights*: one undisturbed pass makes Gitea what the roles say, and leaves nothing to do; a misread
  retires no Mate; no pass takes away more than the cap; a held token is never revoked; a new Mate is
  served; a nudge and a changed registry are a pass soon, and a chase ends.
- *Sign-in*: a request of Gitea yields one sign-in, none of somebody who left long ago; a first token
  is of a person who is in their teams.

## The modules and the code

### `DeployWorker`: what a queue promises

One worker per environment and a mailbox of one place: `Ask` puts a job in the mailbox or, when the
worker is free, in its hand; a job that replaces another one inherits its ask; `Begin` starts the job
in hand, `End` takes the mailbox's or rests (`Turn` is both, for a model in which nothing looks at
what is at work). Both models below that need a queue use this one.

### `DeployQueue`: `internal/deploy/queue.go`

`pending` and `running` are the code's maps, `loops` the live goroutines of `Queue.loop`, `asking`
what a submitter has resolved and not yet submitted. `Resolve` and `Submit` are two steps because
`Pipeline.Deploy` resolves over several calls before it takes the queue's lock; `Submit` and `Take`
are the two critical sections. Nothing in the model says that an environment has one goroutine: a
slot is started by `Submit` exactly when the code does `go q.loop`. `owed`, `newest` and `ran` are
history. `OneWorkerAndMailbox` states that this implements `DeployWorker`, with the goroutine's job as the
worker's hand and `pending` as the mailbox.

### `ServiceDeploys`: one service from ask to live

| Code | Model |
| --- | --- |
| `Loop.Run`/`Pass`/`catchUp` | `CatchUp`, `ReadLive`, `ReadMark`, `WriteMark`, `Submit` of the caller `Pass` |
| `Pipeline.Deploy` from a webhook | `Deploy`, `Submit` of the other callers |
| `Queue` | `hand`, `busy`, `mailbox` (`INSTANCE DeployWorker`) |
| `Dispatcher.one` | `DispatchBegin`, `DispatchReadService`, `DispatchReadHistory`, `DispatchStart`, `DispatchWrite`, `DispatchEnd`, and its error paths |
| `deploy.sh` and `handleDeployGrant` | `runs[r]`: "asking" → "granting" → "ruling" → "handover" → "answer" → "held" → "building" → a verdict |
| `Grant`, `handOver` | `GrantResolve`, `GrantReadService`, `GrantReadStatus`, `GrantHandOver` (`GrantTainted`, `GrantFails`) |
| `Result` | `ReportFailure`, `ReportSuccess`, `WriteVerdict` (`ReportLost`) |
| an app version as Zerops reports it | `named` (the version whose build started last, and whether it runs), `builds` |
| commit statuses | `status[c]`: the newest one, its kind and whether it is younger than the patience |
| restart of the broker | `Restart`: callers, queue, dispatcher, grants and requests in flight are gone |

Each call to Gitea or Zerops that reads or writes the model's state is a step of its own; calls about
anything else (registry, gate, runner, token) are refusals of the step they guard. Commits are
numbers, and the wanted commit only grows: the code compares commits for equality alone, and an order
is what lets properties speak of an older one. The description of a status is reduced to what the
code's matching of it tells apart ("failed: …" of a job, any other failure, dispatched, deploying,
live).

### `MixedStage`: `internal/deploy/merge.go`

The branch, the working copy of each goroutine that rebuilds it (`Merge` fetches and merges, `Push`
pushes with a lease on what was fetched), and what `catchUp` and `Grant` do with the resulting
commit. A merge is told from another merge of the same heads by when it was made, as git does. The
queue, the dispatcher and the build in between are one step here: `ServiceDeploys` has them.

### `ReleaseVerdicts`: `pipeline/hooks.go` `Create`, `deploy/release.go`, `resolve.go` `production`

`verdict[t]` is the last status written for tag `t`; `Judged` and `Approved` read it as the code does.
The server starts a goroutine per delivery, so any number of deliveries are handled at once. They differ
only in what they are about to do, and are counted by it: `judging[t][v]` goroutines found tag `t`
unjudged and are about to write `v`, `asking` ones have written an approval and are about to deploy.
`HookJudged` is the read of the verdict and of the roles, `HookWrites` the status, `HookDeploys` the
deploy; between them anything may happen. Who may release is left open: a role may change at any
time, so two deliveries of one tag may come to two verdicts. `PassBegins`, `PassReadsTag`,
`PassAnswers` read the tags one by one as `Releases` does. One job per commit stands for what
`ServiceDeploys` does between a dispatch and a report.

### `RunnerLifecycle`: `internal/pipeline/runner.go`

One group and its runner service, which the pass, queued jobs, the watcher of a build and the
replacement of a tainted runner make, replace and delete, each from a goroutine of its own:

| Code | Model |
| --- | --- |
| who looks: `reconcileRunners` in a pass, `EnsureRunner`, `watchRunnerBuild`, `replaceRunner` | a goroutine's `kind`: "pass" (or "left", for a group that is no longer registered), "job" and "push", "watch", "taint" |
| the calls they make, in order | a goroutine's `at`: "registry", "services", "queued", "builds", "delete", "await", "relist", "sweep", "import" |
| `mendRunner`, `owedRunner`, `reviewRunner` | `LookMends`, `LookMissing`, `ReadQueued`, `BuildsLeave`, `BuildsAllow` |
| `brokenRunner`, `mayRebuild`, `nextRepair` | `Broken`, `MayRebuild` and `Remember`, `WaitEnds` |
| `runnerImport[hostname]`, `replacing[hostname]` | `importing`, `replacing`: the goroutines that hold them |
| `runnerStopped`, `lifted`, `sweepHeld` | `stopped`, `lifted`, `held` |
| `importRunner`, `sweepRunners` | `Import`, `Relist`, `Sweep` or `SweepFails`, `ImportServices` or `ImportFails` |
| services and their builds as Zerops reports them, registrations and queued runs in Gitea | `status`, `deleting`, `build`, `old`, `failures`, `cooled`; `regs`, `waiting` |

A call is a step, and the decision taken on a list of services is a step after it: a pass lists once
and may replace the runners of other groups before it comes to this one. A sweep of an org's
registrations is one step, which may fail with some of them deleted. The clock is three facts, each
of which may become true at any time it can: a service is older than `runnerBuildBound`, the wait
before a rebuild is over, the hold of a sweep is over. `asked` is history: the pushes that have not
paid for a rebuild yet.

### `MateAccess`: `internal/mirror/access.go`, `planBotTokens` of `mirror/plan.go`

One Mate: the generations of its bot's token in Gitea, and the three variables of its container.

| Code | Model |
| --- | --- |
| `gatherMates`, `planMateAccess` | `ReadMate` (`NeedsMint`) |
| `planBotTokens`, the order of a plan | `Plan` (`Superseded`) |
| `deliverMateAccess` | the phases "deliver" to "rollback": `ReadVariables`, `WritePlain`, `Mint`, the three ways of `writeVar`, `Rollback` |
| `writeVar`, `replaceVar` for `GITEA_TOKEN` | `UpdateToken`; `CreateToken` and, for a duplicate, `ReadAgain`; `DeleteCased` and `Remake` |
| a 4xx, any other error | `GiveUp`; `WritePlainLost`, `MintLost`, `TokenWriteLost`, after which a write may still land (`Lands`) |
| `DeleteBotTokens` | `DeleteGeneration`, `DeleteFails` |
| the container's other writers, its end | `Edited`, `Recreated`, `Refusing` |

A variable is reduced to what the code compares: absent, under its own name or another case, with the
right value or not; of `GITEA_TOKEN`, which generation it ends in. `Keys` and `Values` are these. The
clock is one fact per generation, that it is past the grace. A value that is read and the write that
depends on it are two steps, and so are a mint and its write. `once` and `left` are history.

### `RunnerPool`: `runnerPool` of `internal/server/hooks.go`

A group's runner service as Zerops has it (`status`), its jobs as Gitea has them (`job`), and the
goroutines that a job's two deliveries and a fired timer start (`queued`, `completed`, `sleeper`).

| Code | Model |
| --- | --- |
| `timers[org]`, each `time.Timer` | `armed`, `timer` |
| `dispatchHook`, `handle` | `Queue`, `RunJob`, `EndJob` |
| `wake` | `CancelSleep`, then `WakeRead` or `WakeReadFails`, `StartService`, `StartFails`, `ImportRunner` |
| `sleepAfterQuietSpell` | `SleepAfterQuietSpell`; `Fire` and `Forget`, which deletes the entry whichever timer it holds by then |
| `sleep` | `SleepRead`, `StopService`, `SleepFails` |
| `stop` | `Restart` |

The lock is around the map and not around the calls, so a wake and a sleep interleave call by call.
Importing a runner is `RunnerLifecycle`'s; here it is a service that comes to be.

### `EnvironmentFiles` and `RecipeDelta`: `internal/environments`, `pipeline/recipes.go`

`EnvironmentFiles` has the two files as operators: `Parse` and `Build` of environments.yaml, with what
makes either refused; `WellFormed`, `Order`, `Runtimes` and `StartWithoutCode` of a tier's import.yaml.

| Code | Model |
| --- | --- |
| `Pipeline.Plan` | `ReadFile`, `ReadRecipe` per tier |
| `recipes`: the recipe's sha, what is taken as seen under the lock | `ReadSha`, `ShaFails`; `Take` (`Reconcile`), `seen` |
| `importDelta` per environment | `ReadServices` (`Missing`), `Import`; `ReadFails` |
| the deploys of the same pass (`catchUp`, `Resolver.Resolve`) | `ToDeploys`, `CatchUp`, `Done` |
| a push to main, a restart | `MoveMain`, `Restart` |

The passes are the loop's and the webhooks' (`reconcileRecipes`), any number beside each other. A
pass's `calm`, `steady` and `met`, and `moved`, are history. What is gone through in order is a set of
places and its least one (`Current`, `Left`); what an import creates in one document, or a pass submits
in one job, is a set. Zerops refuses an import of a service that
exists, the whole document with it: that is how the code uses the API, and the model's assumption.

### `Roles`, `Registry` and `RightsMirror`: `internal/roles`, `internal/registry`, `internal/mirror`

`Roles` is the role function (`Effective`, `TeamsFor`, `Claims`, `MateState`, `CanCreate`,
`SiteAdmin`); `Registry` the two passes of `Parse`, `TagsOf` and `Fingerprint`. `RightsMirror` is a pass:

| Code | Model |
| --- | --- |
| `ReadOrg` | `StartPass` (the member list), `ReadProjects` (`OverridesOn`), `ReadRegistry` |
| `excludeDeleted`, `notFoundSince` | `Excluded`, `Sighted`, `seen` ("no", "just", "ago": `DeadAfter` ago) |
| `planner.plan` and what it calls | `Compute`: `Structure`, `RecipeMerges`, `BotShapes`, `Memberships`, `SiteAdmins`, `GroupWriters`, `Departures`, `Deliveries`, `AppTokens`, `Retirements`; `Order` |
| `ErrCapped`, the groups held back | `Takes`, `WithinCap`, `Plan` |
| `apply`, one call after the other | `Due`, then `Make`, `Merge`, `CreateBot`, `ShapeBot`, `SetSiteAdmin`, `SetMembership`, `SetWriter`, `Deactivate`, `DeleteTokens`, `Deliver`, `Retire`; `Refused`, `CallFails` |
| a read that fails or comes back short, a restart | `Unreadable`, `Restart` |

Beside a pass people join, leave, change role and sign in, groups are registered and taken out, projects
are deleted or misread, a site admin edits a team, a rule or a repository, and Mates propose recipes and
push to their proposals (`World`). An account is on, "off" (switched off) or "prohibited" (retired).
The memory of `clean` and `pass.before` is history.

### `RightsLoop`: `internal/mirror/loop.go`

The goroutine of `Run` and a caller of `RunNow` (`at`), the lock they pass under (`passMu`), the nudge's
one-place channel and timer, the ticker and the watch (`clockVars`), and what `settle` keeps
(`lastVars`).

| Code | Model |
| --- | --- |
| the cases of `Run`'s select | `TakeNudge`, `TakeTimer`, `TakeTick`, `TakeWatch`; `FirstPass` before them |
| `watch` | `Watch` (`Chases`), `WatchFails` |
| `Nudge`, `RunNow` | `Nudge`; `CallRunNow`, then `Lock`, `Read`, `PassSucceeds` or `PassFails` |
| `settle` | `Settle`: under the lock for `RunNow`, after it for `Run` (`SettleRun`) |

Time is counted in units (`Tick`), and no unit passes while `Run` could take something; a pass may
take any number of them. The registry is compared by `Registry`'s fingerprints.

### `SignIn`: `internal/throwaway`, `internal/oidc`, `server/person.go`

| Code | Model |
| --- | --- |
| `Checker.Check`, its six steps | `Check` (`Reason`, in the order of the steps), `Members`, `MembersFail` |
| `handleAuthorize`, `handleComplete`, `handleToken` | `Authorize`; `Complete`, `TakeRequest`, `Rights`; `Exchange`, `TakeCode`, `Issue` |
| the store's one map and its `sweep` | `request`, `code`, `access`, `AgeStore` (`Swept`) |
| `handlePersonToken`, `ensurePerson` | `AskToken`, `GetAccount`, `CreateAccount`, `Lock`, `Hurry`, `Mint` |
| the rights loop's passes beside it | `LoopPass`, `EndPass`: whoever had an account when the pass read Gitea is placed |

A code and an access token are named after the call that made them. `left`, `codes` and `issued` are
history. A call takes less than a unit of time, and a unit is at most each lifetime.

### MC modules

`MCDeployQueue`, `MCServiceDeploys`, `MCMixedStage`, `MCReleaseVerdicts`, `MCRunnerLifecycle`,
`MCRightsMirror`, `MCRightsLoop`, `MCRecipeDelta` and `MCSignIn` extend these with the symmetry sets and
the data their runs use; `MateAccess` and `RunnerPool` are run as they are. Symmetry is used in runs
without liveness properties only. Three of them also check the pure parts against what a reader would
say of them, as assumptions that TLC evaluates on every run:

- `MCRightsMirror`, `RolesWiden`: a higher role, in the organisation or on a project, takes no team, no
  claim and no right on a Mate away, over every pair of rows and of overrides;
- `MCRightsLoop`, `ReadBack`: a registry is read back from the tags it is written as, in any order,
  over every list of up to three of nine tags, contradictory ones included;
- `MCRecipeDelta`, `OrderIsRight`: the order of a recipe is a stable sort by priority, over every recipe
  of up to three services.

## The runs

| Run | Asks | Instance |
| --- | --- | --- |
| `queue` | one dispatch at a time, nothing stranded, asks kept and carried out, newest wins, implements `DeployWorker` | 1 environment, 1 service, 2 commits, 3 submitters, 2 goroutine slots |
| `service_settles` | "live" only of what ran; superseded stays down; live stays; and it settles, with one failure anywhere | 2 commits, 1 job with up to 2 grants, the pass and a webhook between its turns, 1 fault, jobs may outlast the patience |
| `mixed_stage` | racing rebuilds; a stage whose first source contains the others is deployed | 2 sources with 2 heads, the pass and one grant |
| `releases` | production runs what was approved and ends on the newest approved release; a refused tag nobody is about to approve stays refused | 2 tags, 2 commits, as many handlers as deliveries, 1 fault |
| `runner` | one runner per group, none swept that runs, no build cut short however slow, failed builds stop until a push; a waiting job is served, a departed group's runner goes | 2 services, the pass and one more goroutine, 1 push, a stop after 2 failures, 2 faults |
| `access` | a held token is never revoked, one just left lives for the grace, refused writes pile nothing up; the Mate ends up served, with one generation | 3 faults, at most 8 generations |
| `mirror` | one undisturbed pass makes Gitea what the roles say and leaves nothing to do; no scope loses more than the cap; only deleted Mates' bots are retired, with their tokens | 2 people and an access token's row, 1 group, a Mate and production, a cap of 2, 2 events |
| `loop` | a nudge is a pass soon, a changed registry is found, a chase ends | 2 registries, 1 waiting Mate, 3 events |
| `recipes` | a restart imports nothing; a pass nobody disturbed deploys only to services that exist | 3 projects of 2 tiers, 2 passes, 4 states of main and 2 moves, 1 event |
| `signin` | one code and one id_token per request; nothing of somebody who left stays; a first sign-in is placed | 2 people, 3 throwaways, 3 calls, 1 request, 2 events |
| `failed_is_final`, `pool_stops_job` | expected violations, see [Where the code and its documents disagree](#where-the-code-and-its-documents-disagree) | 1 commit and 1 job; 2 jobs, a quiet spell of 2 |

An event of `mirror`, `loop`, `recipes` and `signin` is a failure, a restart or a change outside. No run
lists a type invariant: `TypeOK` is a theorem of the deploy path's, the runners' and `MateAccess`'s
modules; for the other five, TLC finds it true with `INVARIANT TypeOK` in the same configurations.

Why these bounds are enough to be interesting:

- Two commits are an older and a newer one. Statuses are per commit and the code compares for
  equality, so a third one adds another pair of the same two roles.
- Two jobs make every race between two grants, two builds, or a grant and a report. A third job
  would need a third actor in one of the code's comparisons, all of which are between one job's
  commit and one shared value.
- One fault anywhere reaches every error path from every reachable state of the fault-free model. Two
  faults in a row are not covered; the error paths leave no state of their own behind.
- In `service_settles` a webhook deploys only between a pass's turns, before any fault and without a
  person's ask (`SpecInTurn`); with the two interleaved call by call the state space is too large for a
  run that checks liveness. That `LiveHasRun`, `SupersededStaysDown` and `LiveStays` hold however they
  interleave is what the theorems say.
- In `queue`, two slots are one more than the code should ever use, so a second goroutine would
  be seen; the theorems lift this run to any number of everything.
- In `mixed_stage`, `MaxTime` = 7 tells every commit apart that is known at once: each of the two
  goroutines has at most a head, a lease and a job, the branch, the service and one waiting job have
  one each, and a merge leaves its own out.
- `releases` has two tags that list two commits, so that the newest approved release is told from an
  older one, or one commit, where a refused and an approved tag could be taken for each other, or
  something unreadable. Each tag's webhook is one delivery, and the fault may be a repeated one: two
  handlers then judge one tag while another judges the other. The theorems lift its safety to any
  number of tags, commits and deliveries.
- `runner` has two services of the group: the one there is, and the one that replaces it or, if
  something were wrong, stands next to it. Two goroutines race for every lock, a stop after two failures
  is the first after which a rebuild also waits, and two faults are a failed build and a restart,
  two failed builds, a taint and a lost answer, or a slow build and one of these. The theorems lift
  its safety to any number of each.
- `access` starts from a new Mate, one of an earlier broker, with the right scopes or not, or one of
  another Gitea. Three faults are the most that act on each other here: a mint whose write is lost, the
  next one's too, and then a deletion that fails or a container that changes. The eight generations
  are never all used (`Minted` has always one left).
- `mirror` has two people, each of which may be an owner, a member who reads, or neither any more, and a
  row of an access token, which is no person. Either scope can be over a cap of 2, the group while what
  belongs to no group is within it and the other way round. Two events are one that changes something and
  one that disturbs the pass that sees it. The theorems lift the three properties about losses to any
  number of everything.
- `loop`'s five durations are all different, so that one cannot be taken for another, and small. Three
  events are a nudge during a pass that a second caller overtakes, or a change, a failure and the next
  change. Two tag lists are a change and a change back.
- `recipes` has a tier with two environments, so that one may be imported and the next not, and a
  production that a later file declares. The two moves of main may be a change and its reversal.
- `signin`'s three calls are a completion and two exchanges of its code, or two completions and an
  exchange, or a first token next to another. A code lives twice as long as an access token, as it does
  in the broker.
- `pool_stops_job` needs two jobs to have one's completion meet the other.

Every property has a mutant (a mutated definition of the code) that the same run catches, so none of
the passing runs holds for want of behaviour.

## Fairness

Only what the code or its surroundings schedule is fair, and weakly so:

- a goroutine with a call to make makes it (every client call has a timeout, so a call returns or
  fails: a failure is a fault, and faults are bounded);
- the pass is on a ticker (`Loop.Run`), so `CatchUp(Pass)` and `PassBegins` are fair; **webhooks are
  not**, they may never come;
- the queue's goroutine runs;
- the platform ends a build one way or the other, Gitea starts a queued job and a job ends or dies;
- time passes: a pending status gets older than the patience (`Age`), a wait ends (`WaitEnds`);
- Zerops ends a deletion, deploys what it built, and a registered runner takes a job that waits
  (`PlatformNext`); the deliveries that tell the broker of a queued job may never come.

A source is never made to move, nor a person to ask, and no fault has to happen.

`service_settles` has one job at a time. With two at once it would need jobs within the patience:
builds slower than twenty minutes let the broker give a job up and start another one while the first
is still building, and each can find the other's build at its report, for ever. A run that a push
starts by itself (the second disjunct of `SourceMoves`) need not come.

In `runner` a build, or the deployment after it, that outlasts the twenty minutes of `runnerBuildBound`
is a fault (`Outlasts`) and need not happen; that a service whose build has ended gets old is fair
(`Ages`). A waiting job is served although builds may be slow.

In `access` a pass's steps, the grace and the end of a pending write are fair. That a container
accepts writes is not: `MateServed` and `OneGeneration` are about one that does not refuse them for
ever. The run assumes that a write lands, if it does, before its generation is past the grace of ten
minutes, and that no pass's plan is delayed that long after it read what is held (`SlowWrites =
FALSE`); `HeldIsLive` needs it, see the same table.

`mirror`, `loop`, `recipes` and `signin` check safety only, and need no fairness: what must happen soon
is stated with counters of time (`owed`, `late`, `calm`) or of a pass that is over. `RightsMirror`
assumes that the platform answers projectNotFound for a project that is there for less than `DeadAfter`,
and not again before a pass saw the project back (`Misread`): two such answers `DeadAfter` apart are
what a deletion looks like. In `RunnerPool` and `SignIn` a call to another system takes less than one unit
of time, and in `RunnerPool` a runner that is up and free takes a queued job before the next.

## What is proved

Eight modules hold proofs, with no assumption but what the constants are (`MaxCommitAssumption`,
`DeploysAssumption`, `MixedAssumption`, `ReleaseAssumption`, `RunnersAssumption`, `AccessAssumption`,
`MirrorAssumption`, `RegistryAssumption`, `LoopAssumption`, `FingerprintAssumption`, `FilesAssumption`
and `SignInAssumption`) and the hypotheses named below.

**`DeployQueueProofs`**, for any number of environments, services, commits, submitters and
goroutines. The invariants the run checks are not inductive: `AskKept` fails after `Take` unless a
waiting job is known to have targets (`Take` drops one without) and the goroutine is the
environment's only one; `LastSubmittedRuns` says nothing while a queue is busy. `QueueInv` adds
`JobsHaveTargets` (every job deploys something, and a pending entry without targets is the empty one)
and `NewestPlace` (the job submitted last is in the mailbox, else in the goroutine's hand, else it ran
last). One lemma per action shows that it is preserved. From it:

- `QueueTypes`, `NeverTwoDispatches`, `NoSubmissionStranded`, `AskSurvives`, `LastSubmittedIsLastRun`:
  the run's invariants;
- `QueueImplementsWorker`: every step of the queue is a step of `DeployWorker` or a stutter under the
  refinement mapping. `OneDispatch` is what makes the mapping a function (`HandDetermined`).

This is what allows `ServiceDeploys` and `ReleaseVerdicts` to use `DeployWorker` as their queue.

**`ServiceDeploysProofs`**, for any number of commits, runs, callers, grants and faults, slow jobs or
not:

- `DeployTypes`: `TypeOK`, strengthened by `AtWork` (while the dispatcher works, the queue has its job
  in hand: a request meanwhile goes to the mailbox), without which the commit a dispatcher's step
  writes a status on has no type;
- `LiveOnlyOfWhatRan`: `LiveHasRun`. It is not inductive, for whoever writes "live" decided to several
  calls earlier. `Sound` adds what each of the three writers saw: a caller that marks (`CallersSaw`),
  the dispatcher (`DispatcherSaw`) and a report with its verdict (`VerdictsSaw`) read their commit from
  the service; that a commit it ran stays one it ran; and why its word is good (`ActiveHasRun`: the
  active version has run, because `NamedBuilds`: a name on its way is the commit of its own build);
- `SupersededNeverStarts`, `LiveIsLeftAlone`: `SupersededStaysDown` and `LiveStays`, step by step from
  the types: only `GrantResolve` puts a commit on its way, and only the wanted one; a run that then
  finds its commit live ends in `GrantReadService`, so nobody comes to `Push`.

**`PipelineProofs`**. Of `MixedStage`, for any number of sources, heads, goroutines and jobs:

- `MixedTypes` and `StageNeverGoesBack`: `StageTypeOK` and `BranchNeverBack`. A push compares the branch
  with what was cloned and nothing else, so the invariant says what a clone promises until the push
  (`LeaseOlder`): the merge is of heads the sources have had, none older than those of its lease.

Of `RecipeDelta`, for any number of tiers' environments, passes, moves of main and failures, and
whatever the files say, as long as they name projects there are and these start with services of the
three kinds (`FilesAssumption`):

- `RestartImportsNothing`: `NothingBeforeAChange`. Whether to import is decided by comparing two shas
  that were read at other times, so `DeltaInv` says what they are worth: of a tier that main has not
  changed since the start, the broker remembers nothing or what main holds (`SeenIsMain`), so does a
  pass that is about to take it (`ShaIsMain`), and whoever imports is at a tier that has changed
  (`OnlyMoved`).
- `RecipeDeltaTypes`: `TypeOK`, by way of `HeldOnce` (the sha a pass is about to take is of something
  main held).
- `ImportsComeFirst`: `ImportedFirst`. The deploys come long after the imports, and one follows the
  recipe's runtimes while the other follows what a project lacks. `FirstInv` says what an undisturbed
  pass knows at each step: each environment of a tier it took as changed has all that the recipe
  declares, or is still to be gone through (`Imported`), and what it is about to import is what the
  project lacks at this moment (`Fresh`), so Zerops does not refuse it. Nothing in it depends on the
  order of a recipe, which is `OrderIsRight`'s.

**`ReleaseVerdictsProofs`**, for any number of tags, commits, deliveries handled at once and faults:

- `ReleaseTypes`: `TypeOK`, strengthened by `SeenReleased` (the tags a pass has read as approved list
  a commit), without which the job a pass submits has no type;
- `ProductionRunsReleases`: `RunsApproved`. What a tag lists does not change, and neither does that it
  was once approved (`TagsStay`), so what was once released stays so; a job deploys only what is
  released when it asks, whoever started it, and what reads as approved now was approved once
  (`ApprovedOnce`);
- `RefusedStaysRefused`: `RefusalStands`, however many deliveries of a tag are under way and whatever
  verdicts they come to. Once a tag is refused and no goroutine that found it unjudged is about to
  approve it, every later delivery finds a verdict (`Judged`) and none gets that far. Without the
  exception it is not what the code does: `MCReleaseVerdictsRefused.cfg` has the counterexample.

**`RunnerLifecycleProofs`**, for any number of goroutines, services, pushes and faults:

- `RunnerTypes`: `TypeOK`, strengthened by `HasId` (a goroutine that deletes or waits for a deletion
  knows a service);
- `NeverTwoRunners`: `OneRunner`. It rests on the import's lock *and* its second list, so the
  invariant (`ImportInv`) carries both from one to the import: whoever is past "relist" holds the lock
  (`Locked`), and until it imports there is no service of the hostname, since only the holder can
  make one (`Alone`), and, from the sweep on, no registration either (`Swept`);
- `RunningNeverSwept`, `FreshHasNoElders`: `SweepSparesRunning` and `FreshAlone`, from `Alone` and
  `Swept`;
- `SlowIsNeverBroken`: `SlowIsLeft`, however slow builds and deployments are. The decision is made at
  "builds" and the deletion comes later, so `BrokenInv` says that a service found broken stays so: a
  build that has ended does not move again, one that failed has failed, and a service that is old
  stays old.
- `StopIsKept`: `StopKept`. `mayRebuild` lets a build through and the import comes many calls later, so
  `StopInv` says what became of that word (`Sound`): whoever goes on to import was told so and it still
  holds, for no other build can end meanwhile (`Clear`), or a runner stands in its way and the second
  list will end it (`Elsewhere`); and a push that is still to be used up is counted, however many
  goroutines are about to ask for it (`Counted`).

**`MateAccessProofs`**, for any number of generations and faults; all but the last if no write lands
after the grace (`~SlowWrites`, the theorems' own hypothesis):

- `AccessTypes` and `HeldNeverRevoked`: `TypeOK` and `HeldIsLive`. A pass deletes what it decided on
  several calls earlier, while the container changes under it, so `AccessInv` says of each phase what
  was known and still holds: what a pass will delete is not held, not on its way and not the newest
  (`Doomed`); no generation newer than one whose write may still land is past the grace
  (`PendingNew`), so what lands between the read and the plan is not taken for superseded (`SawHeld`);
  what a delivery writes is the newest generation (`WritesNewest`, `CasedNewest`), and what it may
  have to roll back is nowhere yet (`Unheld`).
- `LeftStaysForGrace`: `LeftForGrace`. A pass reads which generations are past the grace, plans, and
  deletes later, so `LeftInv` says, on top of `AccessInv`, that the newest generation is never deleted
  (`TopKept`), that what the container has left is older than what is there or on its way
  (`LeftOlder`), also when the pass read it (`LeftRead`), and that what is doomed among it has its
  successor past the grace (`LeftDoomed`).
- `GenerationsBounded`: `NoPile`, without the hypothesis. What is live says too little: a pass may be
  about to mint, and a write that timed out may land much later and make the next pass mint again.
  `PileInv` bounds the sum: the generations that are live, the writes that may still land and the one a
  pass is about to mint (`Weight`) are two and two for each fault (`Bound`). To know that a calm pass
  mints nothing more it carries what each phase knows of the container (`Knows`).

The same module proves `RightsLoop`, for any registries, numbers of Mates and of events, and any lengths
of the intervals. The assumptions are that the lengths are positive and that no registry has the
fingerprint of none, which is the empty string in the code:

- `LoopTyped`: `LoopTypeOK`, in parts, with where `Run` and `RunNow` can be and `OnePass` (whoever
  reads or applies holds the lock);
- `NudgedPassComes`: `NudgeSoon`, from `NudgeOnItsWay`: the time since the nudge and what is left of its
  timer are a `NudgeDelay`, until `Run` is on its way to the lock;
- `ChangedRegistryComes`: `RegistrySoon`. The count alone says nothing of the pass that a change finds
  under way, which will bring the registry of before. `WatchComes` says that such a pass starts no
  count, or one the watch still comes in time for, and `Heard` that what the loop compares with is what
  the last pass that succeeded has read;
- `ChaseIsOver`: `ChaseEnds`. A chase is renewed by whoever brings news, so `ChaseRunsOut` separates a
  loop that knows all there is (`Informed`), whose chase and calm are within an interval and a chase,
  from one that does not, which is informed within an interval.

**`RightsMirrorProofs`**, for any number of people, projects, groups, changes and failures. The
assumptions are that there are finitely many people, that no person has a bot's login and nobody the
broker's, that two projects' bots have two logins, that "none" is no group's slug, that one may have no
own roles, and that a registered group has a slug, which no other has (`Register`), and projects of the
constants' (`RegistryAssumption`, which TLC evaluates over the run's tag lists):

- `OnlyDeletedRetired` and `RetiredBotsHoldNothing`: `RetiredIsDeleted` and `RetiredHoldsNothing`. A
  retirement is planned several calls after the project was last looked for, and performed later
  still: `RetireInv` adds that a project misread now was not seen missing `DeadAfter` ago
  (`MisreadIsRecent`), that what a pass takes for deleted is (`DeadIsGone`) and that the retirements of a
  plan are of such projects' bots (`RetiresDead`).
- `NoScopeLosesMoreThanCap`: `LossesWithinCap`. The cap counts the actions of a plan, and the property
  what people lose, so `CapInv` bounds the two together: what a scope has lost since the plan was made
  and what the plan has still to take from it are within the cap. It rests on every action taking from
  the scope it is counted for (`Scoped`) and on all these sets being finite (`Sized`).
- `MirrorTyped`: `TypeOK`, with what an action of each kind names (`Typed`).
- `UndisturbedPassSettles` and `UndisturbedPassMirrors`: `OnePassSettles` and `MirrorsRoles`. Both are
  about a pass that is over, so `Undisturbed` says what each phase of a pass that nothing disturbs has:
  what it read is what is true now, and what is left of its plan contains all that a pass would plan that
  read everything at this moment (`PlanNow`). `PlanIsWhatIsWanted` says why each action is in a plan,
  kind by kind (`Wanted`). Then every action, once performed, is wanted no longer and makes no other
  wanted (`WantedLess`, a lemma for each kind): that no two rules undo each other rests on what the rest
  of the plan is for (`Fits`), on slugs and bots' logins being one group's and one project's, and on the
  order (an account goes off before its tokens go, else their deletion would be planned again). At the
  end nothing is wanted, which is `OnePassSettles`, and a group of which nothing is wanted has in
  Gitea what the roles give (`NothingWantedMirrors`). A call that Gitea refuses or that fails, an event,
  a restart and a plan of which the cap held something back disturb the pass.

**`SignInProofs`**, for any number of people, throwaways, requests and calls, and any lives. The
assumptions are that the lives and bounds are naturals, that a throwaway is somebody's, and that the
names for nobody and for the loop are no call's or request's:

- `SignInTypes`: `TypeOK`, with the parts it leaves open: who owns a code or an access token
  (`OwnerTypes`) and what a call knows at each step (`CallTypes`);
- `OneSignInEach`: `OneSignIn`. The store takes a request or a code under its lock and the call goes on
  without it, so the invariant counts what is under way: a request is on, or one call has taken it, or
  it has its code (`RequestOnce`), and the same of a code and its id_token (`CodeOnce`);
- `GoneIsForgotten`: `NotLongGone`, from `Seen`: whoever a call knows was a member less than a unit of
  time ago, and whoever exchanges a code was when the code was made. It rests on a unit of time not
  passing while a call waits for another system;
- `PlacedBeforeToken`: `PlacedFirst`. A pass may have read Gitea before the account was made, so
  `Placing` follows the account from its creation, by way of a pass that starts after it, to the token.

Model-checked only: all liveness (`Served`, `SettlesAgain`, `ContainedFollows`, `ReleaseCatchesUp`,
`JobServed`, `DepartedGone`, `MateServed`, `OneGeneration`), which is out of the prover's reach, and that
the order of a recipe is a stable sort (`OrderIsRight`), as the prover does not expand the sorting of the
community modules.

## Where the code and its documents disagree

Two are runs that expect a violation, with an entry under "findings":

- `failed_is_final`: a service read that fails makes `Dispatcher.one` write a refusal over the job's
  own failure before the history is read, and the next pass starts the failed commit again.
- `pool_stops_job`: the completion of any job arms the quiet timer and only a queued delivery cancels
  it, so the runner is stopped under a job that was queued before and still runs
  (`internal/config/config.go`: a runner "stays up after its last job finished").

More are kept as configurations whose property TLC finds violated:

| Configuration (module) | Property | What happens |
| --- | --- | --- |
| `MCServiceDeploysOneJob.cfg` (`MCServiceDeploys`) | `OneJobPerCommit` | two jobs of one commit both read the statuses before either "deploying" is written; both are granted (`docs/broker-api.md`, "One job per commit") |
| `MCDeployQueueOrder.cfg` (`MCDeployQueue`) | `NeverOlderAfterNewer` | a job resolved earlier is submitted later, and replaces the newer one; its grant is refused, and the pass starts the newer one again |
| `MCReleaseVerdictsAsk.cfg` (`MCReleaseVerdicts`) | `AskKept` | a restart between the written approval and the ask: a redelivery finds the tag judged, and a commit that failed before is not started again. Without any fault (`MaxFaults = 0`): a pass that listed the tags before submits the older release and replaces the person's ask that waits, so the next pass's job, which is nobody's ask, leaves the failed commit alone |
| `MCReleaseVerdictsRefused.cfg` (`MCReleaseVerdicts`; `tlc -continue` finds both) | `RefusedForEver`, `UnparseableRefused` | two deliveries handled at once may both judge a tag, and the second one's approval then stands over the first one's refusal (`RefusalStands`, which holds, says how far that goes); a tag whose message does not parse is approved on its pusher alone (`docs/group-repo.md` says it is refused), though it never deploys |
| `MCRunnerLifecycleSlow.cfg` (`MCRunnerLifecycle`) | `FinishedIsLeft` | a build slower than twenty minutes that has just finished and is not deployed yet is read as one that never will be, and its runner is deleted (`brokenRunner`: "a slow build is never cut short") |
| `MCMateAccessSlow.cfg` (`MateAccess`) | `HeldIsLive` | a write whose answer was lost lands more than the grace later, after the generation it writes was superseded and revoked; the next pass mints anew |
| `MCServiceDeploysOlder.cfg` (`MCServiceDeploys`) | `NotStuckOnOlder` | a grant of the older commit that pushes late makes the newer commit's report a final failure, while the older one ends up running |
| `MCMixedStageFollows.cfg` (`MCMixedStage`) | `StageFollows` | a stage whose sources must really be merged is never deployed: each `Resolve` makes a new merge commit, and the grant compares it with the one the job was started for |
| `MCReleaseVerdictsJudged.cfg` (`MCReleaseVerdicts`) | `TagJudged` | a lost `create` delivery leaves its tag without a verdict for ever: no pass looks for one |
| `MCRunnerLifecycleDeparted.cfg` (`MCRunnerLifecycle`) | `OnlyRegistered` | the replacement of a tainted runner, and of one whose watched build failed, does not ask whether the group is still registered, and gives one that left a fresh runner; the next pass deletes it (`DepartedGone` holds) |
| `MCRunnerPoolStranded.cfg` (`RunnerPool`) | `QueuedWakes` | `wake` reads the runner ACTIVE between `sleep`'s own read and its stop: the queued job waits for a runner that sleeps, and nothing looks at it again |
| `MCRecipeDeltaNext.cfg` (`MCRecipeDelta`) | `NextPassImports` | a pass reads the recipe before main changes and the sha after: the change is taken as seen and never imported (`docs/group-repo.md`: "the next pass imports into every environment built from that tier what is missing") |
| `MCRightsMirrorDeparted.cfg` (`MCRightsMirror`) | `DepartedHoldNothing` | an account is switched off, the deletion of its tokens fails, and no later pass plans for an account that is off (`plan.go`: "switched off and their tokens deleted") |
| `MCRightsMirrorMerge.cfg` (`MCRightsMirror`) | `OnlyAdditionsLand` | a recipe request's files are read, the Mate pushes to it, and the merge, which names no commit, lands the change (`plan.go`: "merged as it is when it only adds files") |

What reading the code for the models showed besides, without a run:

- `registry.go:266`: a fingerprint is "the same for any order" of the tags only when they do not
  contradict each other; of two tags that register one slug, or give a project two groups, the first
  wins. `ReadBack` therefore starts from parsed registries.
- `registry.go:258`: two groups whose ids sanitise alike get one runner hostname; `runner.go` then
  leaves both alone.
- `plan.go:699`: somebody who left and comes back keeps an account that is off; nothing switches it on.
- `mirror.go:359`: people's own roles come with the projects that are listed, so on a project that Zerops
  does not list everybody has their organisation's role, for that pass.
- `hooks.go:283`: a timer that fired deletes its organisation's entry, which may be a newer timer's by
  then; that one can no longer be cancelled.
- `recipes.go:44`: an import that fails is not tried again while the broker lives, as its recipe is
  taken as seen before; the deploys to the missing services are refused.
- `person.go:178`: of two first calls at once both find no account and the second one's creation is
  refused: the person asks again.

## What is not modelled

Components with status `not_modelled` in `PROJECT.json` give their reason there:

- *Site admin credentials* (`siteadmin/`): one pair of values behind a lock, which a refused call
  replaces by a newer pair. In the models a rotation is a call to Gitea that fails once.
- *Attachments*, the *HTTP clients* of Zerops and Gitea, the *configuration* and the routes: stateless
  I/O. Their calls are the environment steps of the models.
- *Gitea's deployment* (files, container scripts) and the *test doubles*: no program state of the
  broker's.

Left out inside the modelled parts:

- *Deploying*: the gate (`GateMet`) is one refusal and `MayRelease` an open choice; several services of
  one environment share nothing but the queue, which has them; `reportMerge`'s status is read by
  nothing; `Records`' limit of 2000 (`records.go:68`; a run's `known` covers a grant that is forgotten
  at a restart, and one pushed out by 2000 newer ones is forgotten the same way); the order in which
  Gitea lists statuses is the order they were written in, also for a release's verdicts, of which the
  code takes the last one listed (`release.go:156`, `:172`), although `job.go:145` does not rely on that
  order for a deploy's; `ParseReleaseMessage` and `CompareSemver` are a tag's list of commits and the
  order of tags; a release tag is pushed once, never deleted and made again; a grant (`JobAsks`) and the
  handler's deploy (`HookDeploys`) read all releases in one step, only the pass reads tag by tag.
- *A job's bookkeeping* (`ServiceDeploys`): a push that reports failure while the build of its own
  version goes on (`deploy.sh:120`; `PushFails` is of a build that ended or never began); a job whose
  report a restart lost and that asks once more (`Restart` forgets it); a workflow that started although
  the dispatch's answer was lost (`DispatchR` is a refusal without a run); two builds of one run at once
  (`Push` keeps one per run). No property turns on the difference.
- *Runners*: a hostname that two groups share, and a broker without an import document, for both of
  which `runner.go` does nothing; the rounds of one sweep; an import whose answer was lost and that lands
  later than at once; the failing read of a run in `byPerson`, which then counts as nobody's push.
- *Recipes*: what is only reported (services beyond the declaration, changed declarations); YAML; a read
  of one tier's file that fails and succeeds later (only a malformed file is modelled); the sha of an
  empty recipe, which is `Unseen`'s value and which no file of the run has.
- *Rights*: the body of a file or rule, which is there as it should be or is not; of a Mate in
  `MateAccess`, the shape and team of its bot (`EnsureBot` is one call that may fail) and a generation
  without a creation time, which blocks deletions; in `RightsMirror` the generations themselves. The
  syntax of a registry tag. `Gather`'s many reads of Gitea are one step, and so are the watch's read of
  the registry and its comparison under `lastMu` (`Watch`). In `RightsMirror` the deletion of a bot's
  superseded tokens, which the cap counts, is left out (it is `MateAccess`'s); a plan goes by kinds of
  action, where the code goes per login and group; a member list that is empty, which the code refuses
  as unreadable, another error than projectNotFound, which forgets a sighting, and a call that landed
  but reported failure do not occur; the rule for `v*` tags asks for the repository only, where
  Gitea also wants the release team.
- *Sign-in*: signatures, the derivation of keys, userinfo (a read), CORS, and the wording of refusals; time
  that passes within a call to another system (`Tick`); an account that was created although the call
  reported failure, which a retry finds, and whose token then waits for no pass (`PlacedFirst` is about
  the call that created it); a pass that the cap held back, which places fewer people than it read
  and is covered by `Hurry` only.

## The plan

1. (done) The deploy path: `DeployWorker`, `DeployQueue`, `ServiceDeploys`, `MixedStage`,
   `ReleaseVerdicts`, with the proofs of their safety.
2. (done) Runners: `RunnerLifecycle`, with its proofs, and `RunnerPool`.
3. (done) Rights: `MateAccess`, `RightsMirror` over `Roles` and `Registry`, and `RightsLoop`, all with
   proofs.
4. (done) `EnvironmentFiles`, `RecipeDelta` and `SignIn`, with proofs.
5. Left: `SiteAdmin` and the limit of `Records`; `RunnerPool` composed with
   `RunnerLifecycle`, once the disagreements of the pool are settled.
