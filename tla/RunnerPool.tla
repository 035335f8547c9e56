------------------------------- MODULE RunnerPool ------------------------------
(***************************************************************************)
(* A group's runner service wakes when a job queues and sleeps after a     *)
(* quiet spell (runnerPool, internal/server/hooks.go).  Every delivery and *)
(* every timer that fires has a goroutine of its own; what the pool        *)
(* remembers is one timer of the organisation, under a lock, and the calls *)
(* to Zerops are outside it.  Importing the runner is RunnerLifecycle's:   *)
(* here it is a service that comes to be.                                  *)
(*                                                                         *)
(* A timer is named after the job whose completion armed it.               *)
(***************************************************************************)
EXTENDS Integers, FiniteSets

CONSTANTS Jobs,
          NoTimer,
          Quiet,      \* the quiet spell, in units of time
          MaxEvents   \* bound: failed calls and builds, restarts

VARIABLES status,     \* the platform's: the runner service
          job,        \* Gitea's: where a job is
          queued,     \* the goroutine of a job's queued delivery
          completed,  \* the goroutine of its completed delivery
          armed,      \* timers[org]
          timer,      \* per timer: the time it has left, or Off
          sleeper,    \* the goroutine of a timer that fired
          ran,        \* history: how long a job has been running
          events

serverVars == <<queued, completed, armed, timer, sleeper>>
vars == <<status, job, serverVars, ran, events>>

Off == 0 - 1
Statuses == {"none", "ready", "starting", "active", "stopping", "stopped"}

TypeOK ==
  /\ status \in Statuses
  /\ job \in [Jobs -> {"none", "queued", "running", "ended"}]
  /\ queued \in [Jobs -> {"none", "cancel", "read", "start", "import", "done"}]
  /\ completed \in [Jobs -> {"none", "arm", "done"}]
  /\ armed \in Jobs \union {NoTimer}
  /\ timer \in [Jobs -> Off..Quiet]
  /\ sleeper \in [Jobs -> {"none", "forget", "read", "stop", "done"}]
  /\ ran \in [Jobs -> 0..Quiet] /\ events \in 0..MaxEvents

Init ==
  /\ status \in {"none", "stopped"}
  /\ job = [j \in Jobs |-> "none"]
  /\ queued = [j \in Jobs |-> "none"] /\ completed = [j \in Jobs |-> "none"]
  /\ armed = NoTimer /\ timer = [j \in Jobs |-> Off]
  /\ sleeper = [j \in Jobs |-> "none"]
  /\ ran = [j \in Jobs |-> 0] /\ events = 0

Event == events < MaxEvents /\ events' = events + 1
Wakes(j, from, to) == queued[j] = from /\ queued' = [queued EXCEPT ![j] = to]
Sleeps(j, from, to) == sleeper[j] = from /\ sleeper' = [sleeper EXCEPT ![j] = to]
\* timer.Stop: one that fired is not stopped by it.
Stopped(t) == IF t = NoTimer THEN timer ELSE [timer EXCEPT ![t] = Off]

-----------------------------------------------------------------------------
(* Gitea: jobs and their deliveries (handleGiteaHook, dispatchHook, handle). *)

Queue(j) ==
  /\ job[j] = "none"
  /\ job' = [job EXCEPT ![j] = "queued"] /\ queued' = [queued EXCEPT ![j] = "cancel"]
  /\ UNCHANGED <<status, completed, armed, timer, sleeper, ran, events>>

RunJob(j) ==
  /\ job[j] = "queued" /\ status = "active"
  /\ job' = [job EXCEPT ![j] = "running"]
  /\ UNCHANGED <<status, serverVars, ran, events>>

EndJob(j) ==
  /\ job[j] = "running" /\ status = "active"
  /\ job' = [job EXCEPT ![j] = "ended"] /\ completed' = [completed EXCEPT ![j] = "arm"]
  /\ UNCHANGED <<status, queued, armed, timer, sleeper, ran, events>>

-----------------------------------------------------------------------------
(* wake                                                                    *)

CancelSleep(j) ==
  /\ Wakes(j, "cancel", "read")
  /\ timer' = Stopped(armed) /\ armed' = NoTimer
  /\ UNCHANGED <<status, job, completed, sleeper, ran, events>>

\* One that has never run is the importer's to make or to replace; one that is
\* up or coming up needs nothing.
WakeRead(j) ==
  /\ Wakes(j, "read", CASE status \in {"none", "ready"} -> "import"
                        [] status \in {"active", "starting"} -> "done"
                        [] OTHER -> "start")
  /\ UNCHANGED <<status, job, completed, armed, timer, sleeper, ran, events>>

\* A service that could not be read looks like none.
WakeReadFails(j) ==
  /\ Wakes(j, "read", "import") /\ Event
  /\ UNCHANGED <<status, job, completed, armed, timer, sleeper, ran>>

\* The importer imports when there is none or a broken one.
ImportRunner(j) ==
  /\ Wakes(j, "import", "done")
  /\ status' = IF status \in {"none", "ready"} THEN "starting" ELSE status
  /\ UNCHANGED <<job, completed, armed, timer, sleeper, ran, events>>

StartService(j) ==
  /\ Wakes(j, "start", "done")
  /\ status' = IF status \in {"stopped", "stopping"} THEN "starting" ELSE status
  /\ UNCHANGED <<job, completed, armed, timer, sleeper, ran, events>>

StartFails(j) ==
  /\ queued[j] \in {"start", "import"} /\ Event
  /\ queued' = [queued EXCEPT ![j] = "done"]
  /\ UNCHANGED <<status, job, completed, armed, timer, sleeper, ran>>

-----------------------------------------------------------------------------
(* sleepAfterQuietSpell and sleep                                          *)

SleepAfterQuietSpell(j) ==
  /\ completed[j] = "arm" /\ completed' = [completed EXCEPT ![j] = "done"]
  /\ timer' = [Stopped(armed) EXCEPT ![j] = Quiet] /\ armed' = j
  /\ UNCHANGED <<status, job, queued, sleeper, ran, events>>

Fire(j) ==
  /\ timer[j] = 0 /\ timer' = [timer EXCEPT ![j] = Off]
  /\ Sleeps(j, "none", "forget")
  /\ UNCHANGED <<status, job, queued, completed, armed, ran, events>>

\* The organisation's entry goes, whichever timer it holds by now.
Forget(j) ==
  /\ Sleeps(j, "forget", "read") /\ armed' = NoTimer
  /\ UNCHANGED <<status, job, queued, completed, timer, ran, events>>

SleepRead(j) ==
  /\ Sleeps(j, "read", IF status \in {"none", "stopped", "stopping"} THEN "done" ELSE "stop")
  /\ UNCHANGED <<status, job, queued, completed, armed, timer, ran, events>>

StopService(j) ==
  /\ Sleeps(j, "stop", "done")
  /\ status' = IF status \in {"active", "starting"} THEN "stopping" ELSE status
  /\ UNCHANGED <<job, queued, completed, armed, timer, ran, events>>

SleepFails(j) ==
  /\ sleeper[j] \in {"read", "stop"} /\ Event
  /\ sleeper' = [sleeper EXCEPT ![j] = "done"]
  /\ UNCHANGED <<status, job, queued, completed, armed, timer, ran>>

-----------------------------------------------------------------------------

Settles ==
  /\ \/ status = "starting" /\ status' = "active" /\ UNCHANGED events
     \/ status = "stopping" /\ status' = "stopped" /\ UNCHANGED events
     \/ status = "starting" /\ status' = "ready" /\ Event
  /\ UNCHANGED <<job, serverVars, ran>>

\* Calls are short beside the quiet spell, and a runner that is up and free takes
\* a queued job within a second.
Tick ==
  /\ status = "active" /\ (\E j \in Jobs : job[j] = "queued") => \E j \in Jobs : job[j] = "running"
  /\ \A j \in Jobs : /\ timer[j] # 0 /\ sleeper[j] \in {"none", "done"}
                     /\ queued[j] \in {"none", "done"} /\ completed[j] \in {"none", "done"}
  /\ timer' = [j \in Jobs |-> IF timer[j] = Off THEN Off ELSE timer[j] - 1]
  /\ ran' = [j \in Jobs |-> IF job[j] = "running" /\ ran[j] < Quiet THEN ran[j] + 1 ELSE ran[j]]
  /\ UNCHANGED <<status, job, queued, completed, armed, sleeper, events>>

\* The broker stops and starts: every timer and goroutine is gone (stop).
Restart ==
  /\ Event
  /\ queued' = [j \in Jobs |-> IF queued[j] = "none" THEN "none" ELSE "done"]
  /\ completed' = [j \in Jobs |-> IF completed[j] = "none" THEN "none" ELSE "done"]
  /\ sleeper' = [j \in Jobs |-> IF sleeper[j] = "none" THEN "none" ELSE "done"]
  /\ armed' = NoTimer /\ timer' = [j \in Jobs |-> Off]
  /\ UNCHANGED <<status, job, ran>>

Next ==
  \/ \E j \in Jobs :
       \/ Queue(j) \/ RunJob(j) \/ EndJob(j)
       \/ CancelSleep(j) \/ WakeRead(j) \/ WakeReadFails(j)
       \/ ImportRunner(j) \/ StartService(j) \/ StartFails(j)
       \/ SleepAfterQuietSpell(j) \/ Fire(j) \/ Forget(j)
       \/ SleepRead(j) \/ StopService(j) \/ SleepFails(j)
  \/ Settles \/ Tick \/ Restart

Spec == Init /\ [][Next]_vars

-----------------------------------------------------------------------------
(* Properties.                                                             *)

\* "RunnerQuietPeriod is how long a group's runner stays up after its last job
\* finished" (internal/config/config.go): the pool does not stop a runner under
\* a job that has been running for a while (sleepAfterQuietSpell, sleep).
StaysUp == [][status' = "stopping" => \A j \in Jobs : job[j] = "running" => ran[j] = 0]_status

\* A job that queues wakes its group's runner (wake): once every delivery and
\* timer is dealt with and no call failed, no job waits for a runner that sleeps.
\* It does not hold: wake finds the runner up and leaves it to a sleep that has
\* read it already, and nothing looks at the job again.
QueuedWakes ==
  events = 0 /\ status = "stopped"
    /\ (\A j \in Jobs : /\ queued[j] \in {"none", "done"} /\ completed[j] \in {"none", "done"}
                        /\ sleeper[j] \in {"none", "done"} /\ timer[j] = Off)
  => \A j \in Jobs : job[j] # "queued"
=============================================================================
