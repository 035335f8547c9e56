----------------------------- MODULE DeployQueue -----------------------------
(***************************************************************************)
(* The broker's deploy queue (internal/deploy/queue.go): one queue per     *)
(* environment, newest wins.                                               *)
(*                                                                         *)
(* Whoever wants a deploy (the goroutine of a webhook, the catch-up pass)  *)
(* first resolves what the environment should run, and only then takes the *)
(* queue's lock: Resolve and Submit are two steps, and other goroutines    *)
(* run between them.  One goroutine per environment performs the jobs.     *)
(*                                                                         *)
(* A commit is a number: the head of a service's source only moves to      *)
(* larger ones, so a smaller commit is an older one.                       *)
(***************************************************************************)
EXTENDS Naturals

CONSTANTS Envs,         \* environments, each the key of a queue (Job.Key)
          Services,     \* runtime services of an environment
          MaxCommit,    \* bound: commits a source has
          Submitters,   \* goroutines that resolve and submit
          Loops         \* slots for the goroutines running Queue.loop

ASSUME MaxCommitAssumption == MaxCommit \in Nat \ {0}

VARIABLES head,      \* what Resolver.Resolve answers for each service
          asking,    \* per submitter: the job it resolved and has not submitted
          pending,   \* Queue.pending
          running,   \* Queue.running
          loops,     \* the live goroutines of Queue.loop
          owed,      \* history: a person's ask no job has carried out yet
          newest,    \* history: the targets submitted last
          ran        \* history: the targets performed last

queueVars == <<pending, running, loops>>
historyVars == <<owed, newest, ran>>
vars == <<head, asking, pending, running, loops, owed, newest, ran>>

Commits == 1..MaxCommit

\* 0 in a job's targets: the job has no target for that service.
Targets == [Services -> 0..MaxCommit]
Job == [targets : Targets, requested : BOOLEAN]
NoJob == [targets |-> [s \in Services |-> 0], requested |-> FALSE]
NoTargets == [s \in Services |-> 0]

\* A goroutine of Queue.loop: "ready" holds a job it has not begun, "run" is
\* inside q.run(ctx, job), "idle" is a slot no goroutine uses.
Idle == [at |-> "idle"]
LiveLoop == [at : {"ready", "run"}, env : Envs, job : Job]
Request == [env : Envs, job : Job]
NoRequest == [none |-> TRUE]

IsLive(l) == loops[l] # Idle
LoopsOf(e) == {l \in Loops : IsLive(l) /\ loops[l].env = e}

TypeOK ==
  /\ head \in [Envs -> [Services -> Commits]]
  /\ asking \in [Submitters -> Request \union {NoRequest}]
  /\ pending \in [Envs -> Job]
  /\ running \in [Envs -> BOOLEAN]
  /\ loops \in [Loops -> LiveLoop \union {Idle}]
  /\ owed \in [Envs -> BOOLEAN]
  /\ newest \in [Envs -> Targets]
  /\ ran \in [Envs -> Targets]

-----------------------------------------------------------------------------

Init ==
  /\ head = [e \in Envs |-> [s \in Services |-> 1]]
  /\ asking = [u \in Submitters |-> NoRequest]
  /\ pending = [e \in Envs |-> NoJob]
  /\ running = [e \in Envs |-> FALSE]
  /\ loops = [l \in Loops |-> Idle]
  /\ owed = [e \in Envs |-> FALSE]
  /\ newest = [e \in Envs |-> NoTargets]
  /\ ran = [e \in Envs |-> NoTargets]

\* A push, a merge or a release tag moves what a service should run.
Advance(e, s) ==
  /\ head[e][s] < MaxCommit
  /\ head' = [head EXCEPT ![e][s] = @ + 1]
  /\ UNCHANGED <<asking, queueVars, historyVars>>

\* A webhook or the pass resolves an environment: the whole tier, the one
\* service a push names, or the services the pass found behind.  The job is a
\* copy of what was wanted at that moment.
Resolve(u, e, wanted, requested) ==
  /\ asking[u] = NoRequest
  /\ asking' = [asking EXCEPT ![u] =
       [env |-> e,
        job |-> [targets |-> [s \in Services |-> IF s \in wanted THEN head[e][s] ELSE 0],
                 requested |-> requested]]]
  /\ UNCHANGED <<head, queueVars, historyVars>>

\* Mutant: a superseded job's ask is dropped with it.
MergeForgetsAsk(job, waiting) == job

\* What Submit keeps of a job that was waiting: its targets are dropped, a
\* person's ask it carried is not.
Merge(job, waiting) ==
  [job EXCEPT !.requested = job.requested \/ waiting.requested]

HasTargets(job) == job.targets # NoTargets

\* Mutant: Submit does not look whether a goroutine is at work.
SubmitAlwaysStarts(u) ==
  /\ asking[u] # NoRequest
  /\ LET e == asking[u].env
         job == Merge(asking[u].job, pending[e])
     IN /\ running' = [running EXCEPT ![e] = TRUE]
        /\ \E l \in Loops :
             /\ ~IsLive(l)
             /\ loops' = [loops EXCEPT ![l] = [at |-> "ready", env |-> e, job |-> job]]
        /\ owed' = [owed EXCEPT ![e] = @ \/ asking[u].job.requested]
        /\ newest' = [newest EXCEPT ![e] = job.targets]
  /\ asking' = [asking EXCEPT ![u] = NoRequest]
  /\ UNCHANGED <<head, pending, ran>>

\* Mutant: the job that waits is kept, and the newer one dropped.
SubmitKeepsOldest(u) ==
  /\ asking[u] # NoRequest
  /\ LET e == asking[u].env
         job == asking[u].job
         kept == IF HasTargets(pending[e]) THEN Merge(pending[e], job) ELSE job
     IN /\ IF running[e]
           THEN /\ pending' = [pending EXCEPT ![e] = kept]
                /\ UNCHANGED <<running, loops>>
           ELSE /\ running' = [running EXCEPT ![e] = TRUE]
                /\ \E l \in Loops :
                     /\ ~IsLive(l)
                     /\ loops' = [loops EXCEPT ![l] =
                                    [at |-> "ready", env |-> e, job |-> kept]]
                /\ UNCHANGED pending
        /\ owed' = [owed EXCEPT ![e] = @ \/ job.requested]
        /\ newest' = [newest EXCEPT ![e] = job.targets]
  /\ asking' = [asking EXCEPT ![u] = NoRequest]
  /\ UNCHANGED <<head, ran>>

\* Queue.Submit: one critical section.  With a goroutine at work on the
\* environment the job waits for it, otherwise one is started.
Submit(u) ==
  /\ asking[u] # NoRequest
  /\ LET e == asking[u].env
         job == Merge(asking[u].job, pending[e])
     IN /\ IF running[e]
           THEN /\ pending' = [pending EXCEPT ![e] = job]
                /\ UNCHANGED <<running, loops>>
           ELSE /\ running' = [running EXCEPT ![e] = TRUE]
                /\ \E l \in Loops :
                     /\ ~IsLive(l)
                     /\ loops' = [loops EXCEPT ![l] =
                                    [at |-> "ready", env |-> e, job |-> job]]
                /\ UNCHANGED pending
        /\ owed' = [owed EXCEPT ![e] = @ \/ asking[u].job.requested]
        /\ newest' = [newest EXCEPT ![e] = job.targets]
  /\ asking' = [asking EXCEPT ![u] = NoRequest]
  /\ UNCHANGED <<head, ran>>

\* The goroutine calls run for the job it holds (Dispatcher.Run).
Run(l) ==
  /\ loops[l].at = "ready"
  /\ loops' = [loops EXCEPT ![l].at = "run"]
  /\ ran' = [ran EXCEPT ![loops[l].env] = loops[l].job.targets]
  /\ owed' = [owed EXCEPT ![loops[l].env] = @ /\ ~loops[l].job.requested]
  /\ UNCHANGED <<head, asking, pending, running, newest>>

\* Mutant: the goroutine ends without looking at what waits.
TakeNothing(l) ==
  /\ loops[l].at = "run"
  /\ running' = [running EXCEPT ![loops[l].env] = FALSE]
  /\ loops' = [loops EXCEPT ![l] = Idle]
  /\ UNCHANGED <<head, asking, pending, historyVars>>

\* run returned: under the lock, the goroutine takes what waits or ends.
Take(l) ==
  /\ loops[l].at = "run"
  /\ LET e == loops[l].env
     IN IF HasTargets(pending[e])
        THEN /\ loops' = [loops EXCEPT ![l] =
                            [at |-> "ready", env |-> e, job |-> pending[e]]]
             /\ pending' = [pending EXCEPT ![e] = NoJob]
             /\ UNCHANGED running
        ELSE /\ running' = [running EXCEPT ![e] = FALSE]
             /\ loops' = [loops EXCEPT ![l] = Idle]
             /\ UNCHANGED pending
  /\ UNCHANGED <<head, asking, historyVars>>

Next ==
  \/ \E e \in Envs, s \in Services : Advance(e, s)
  \/ \E u \in Submitters, e \in Envs, wanted \in (SUBSET Services) \ {{}}, r \in BOOLEAN :
       Resolve(u, e, wanted, r)
  \/ \E u \in Submitters : Submit(u)
  \/ \E l \in Loops : Run(l)
  \/ \E l \in Loops : Take(l)

\* A goroutine that is not waiting for anything is scheduled: the loop's
\* steps, and run returns (every call it makes has a timeout).
Fairness == \A l \in Loops : WF_vars(Run(l)) /\ WF_vars(Take(l))

Spec == Init /\ [][Next]_vars
FairSpec == Spec /\ Fairness

-----------------------------------------------------------------------------
(***************************************************************************)
(* Properties.                                                             *)
(***************************************************************************)

\* Two dispatches of one environment never run at once: no environment has
\* two goroutines, whoever submits while one of them is about to end.
OneDispatch ==
  \A l, m \in Loops :
    (IsLive(l) /\ IsLive(m) /\ loops[l].env = loops[m].env) => l = m

\* The queue's books match its goroutines: an environment marked running has
\* one to take what waits, and nothing waits on an environment that is not
\* (no submission is stranded by a goroutine that was ending).
NothingStranded ==
  \A e \in Envs :
    /\ running[e] <=> LoopsOf(e) # {}
    /\ HasTargets(pending[e]) => running[e]

\* A person's ask survives being superseded: until a job that carries it is
\* performed, it is in the waiting job or in the goroutine's hand.
AskKept ==
  \A e \in Envs : owed[e] =>
    \/ pending[e].requested
    \/ \E l \in LoopsOf(e) : loops[l].at = "ready" /\ loops[l].job.requested

\* Newest wins: once an environment's queue is empty, the job performed last
\* is the one submitted last.
LastSubmittedRuns ==
  \A e \in Envs : ~running[e] => ran[e] = newest[e]

\* Nothing waits for ever: a waiting job is taken, an ask is carried out.
Served ==
  \A e \in Envs :
    /\ HasTargets(pending[e]) ~> ~HasTargets(pending[e])
    /\ owed[e] ~> ~owed[e]

\* The queue implements one worker and a mailbox of one place for each
\* environment (DeployWorker): the worker's job is the goroutine's.
HandOf(e) ==
  IF LoopsOf(e) = {} THEN NoJob ELSE loops[CHOOSE l \in LoopsOf(e) : TRUE].job
BusyOf(e) == \E l \in LoopsOf(e) : loops[l].at = "run"

Worker == INSTANCE DeployWorker
  WITH hand <- [e \in Envs |-> HandOf(e)],
       busy <- [e \in Envs |-> BusyOf(e)],
       mailbox <- pending

OneWorkerAndMailbox == Worker!WorkerSpec

\* queue.go: "starting a job for the older commit after the newer one is
\* exactly the wrong outcome".  No job starts a service on an older commit
\* than the job performed before it.
NeverOlderAfterNewer ==
  [][\A e \in Envs, s \in Services :
       (ran'[e][s] # 0 /\ ran[e][s] # 0) => ran'[e][s] >= ran[e][s]]_ran

=============================================================================
