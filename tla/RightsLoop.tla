------------------------------- MODULE RightsLoop ------------------------------
(***************************************************************************)
(* The rights loop (internal/mirror/loop.go): what starts a pass of the    *)
(* rights mirror, and what it remembers of one.  The goroutine of Run      *)
(* waits for its ticker, for a nudge, for the nudge's timer and for the    *)
(* watch; RunNow passes on the caller's goroutine, next to it, under the   *)
(* same lock.  What a pass does is RightsMirror's; here it reads the       *)
(* registry and leaves some Mates waiting, or fails.                       *)
(*                                                                         *)
(* Time is counted in units.  Nothing that Run could do at once waits for  *)
(* a unit to pass; a pass and a read of the watch take any time.           *)
(***************************************************************************)
EXTENDS Registry, FiniteSets

CONSTANTS TagLists, Slugs,    \* what the registry may be
          MaxMates,           \* bound: Mates whose container is not ready
          NudgeDelay, WatchInterval, ChaseInterval, Interval, ChaseFor,
          MaxEvents           \* bound: nudges, calls of RunNow, changes at Zerops,
                              \* failed passes and reads

ASSUME LoopAssumption ==
  /\ MaxMates \in Nat /\ MaxEvents \in Nat
  /\ \A d \in {NudgeDelay, WatchInterval, ChaseInterval, Interval, ChaseFor} : d \in Nat \ {0}

Callers == {"run", "now"}
Off == 0 - 1
Unknown == "unknown"    \* no registry seen yet: no fingerprint is like it

VARIABLES tags,      \* the registry, as the Gitea project carries it
          stuck,     \* how many Mates a pass would leave waiting now
          at,        \* where Run and a caller of RunNow are
          result,    \* what each one's pass read and left
          passMu,    \* who holds the lock, or "free"
          nudges,    \* the channel of nudges: full or not
          timer,     \* the nudge's timer: units left, 0 fired, Off
          ticker,    \* units to the next tick, and whether one waits
          watcher,   \* the same for the watch
          lastSeen, lastActed, lastWaiting,
          lastAge,   \* units since lastAt, as far as they matter
          chase,     \* units left to chaseUntil
          owed, late, calm, latest, trusted,   \* history
          events

clockVars == <<nudges, timer, ticker, watcher>>
lastVars == <<lastSeen, lastActed, lastWaiting, lastAge, chase>>
historyVars == <<owed, late, calm, latest, trusted>>
loopVars == <<tags, stuck, at, result, passMu, clockVars, lastVars, historyVars, events>>

FingerprintOf == [list \in TagLists |-> Fingerprint(list, Slugs)]
\* It is a hash in the code, and never the empty string lastSeen starts with.
ASSUME FingerprintAssumption == \A list \in TagLists : FingerprintOf[list] # {Unknown}
Now == FingerprintOf[tags]

\* Two fingerprints, or one and no registry seen yet.
Differs(known, registry) == known = {Unknown} \/ known # registry

Nothing == [registry |-> {Unknown}, waiting |-> 0, failed |-> FALSE]
AtMost(n, most) == IF n > most THEN most ELSE n

LoopTypeOK ==
  /\ tags \in TagLists /\ stuck \in 0..MaxMates
  /\ at.run \in {"start", "select", "watch", "lock", "read", "apply", "settle"}
  /\ at.now \in {"none", "lock", "read", "apply"}
  /\ passMu \in Callers \union {"free"}
  /\ nudges \in BOOLEAN /\ timer \in {Off} \union 0..NudgeDelay
  /\ ticker \in [left : 1..Interval, due : BOOLEAN]
  /\ watcher \in [left : 1..WatchInterval, due : BOOLEAN]
  /\ lastWaiting \in 0..MaxMates /\ lastAge \in 0..ChaseInterval /\ chase \in 0..ChaseFor
  /\ owed \in {Off} \union 0..NudgeDelay + 1 /\ late \in 0..WatchInterval + 1
  /\ calm \in 0..Interval + ChaseFor
  /\ trusted \in BOOLEAN /\ events \in 0..MaxEvents

LoopInit ==
  /\ tags \in TagLists /\ stuck = 0
  /\ at = [c \in Callers |-> IF c = "run" THEN "start" ELSE "none"] /\ result = [c \in Callers |-> Nothing]
  /\ passMu = "free" /\ nudges = FALSE /\ timer = Off
  /\ ticker = [left |-> Interval, due |-> FALSE]
  /\ watcher = [left |-> WatchInterval, due |-> FALSE]
  /\ lastSeen = {Unknown} /\ lastActed = {Unknown} /\ lastWaiting = 0
  /\ lastAge = 0 /\ chase = 0
  /\ owed = Off /\ late = 0 /\ calm = 0 /\ latest = Nothing /\ trusted = FALSE
  /\ events = 0

Event == events < MaxEvents /\ events' = events + 1 /\ calm' = 0
Goes(c, from, to) == at[c] = from /\ at' = [at EXCEPT ![c] = to]

-----------------------------------------------------------------------------
(* Run's select.                                                           *)

\* A nudge never blocks: the channel holds one.
Nudge ==
  /\ Event /\ nudges' = TRUE
  /\ owed' = 0
  /\ UNCHANGED <<tags, stuck, at, result, passMu, timer, ticker, watcher, lastVars,
                 late, latest, trusted>>

\* Mutant: a timer that fired is drained and not armed again.
TakeNudgeUnlessFired ==
  /\ at.run = "select" /\ nudges
  /\ nudges' = FALSE
  /\ timer' = IF timer = 0 THEN Off ELSE NudgeDelay
  /\ UNCHANGED <<tags, stuck, at, result, passMu, ticker, watcher, lastVars, historyVars, events>>

\* A burst of nudges is one pass, NudgeDelay after the last: the timer is
\* stopped, drained and armed again.
TakeNudge ==
  /\ at.run = "select" /\ nudges
  /\ nudges' = FALSE
  /\ timer' = NudgeDelay
  /\ UNCHANGED <<tags, stuck, at, result, passMu, ticker, watcher, lastVars, historyVars, events>>

TakeTimer ==
  /\ Goes("run", "select", "lock") /\ timer = 0
  /\ timer' = Off
  /\ UNCHANGED <<tags, stuck, result, passMu, nudges, ticker, watcher, lastVars, historyVars, events>>

TakeTick ==
  /\ Goes("run", "select", "lock") /\ ticker.due
  /\ ticker' = [ticker EXCEPT !.due = FALSE]
  /\ UNCHANGED <<tags, stuck, result, passMu, nudges, timer, watcher, lastVars, historyVars, events>>

TakeWatch ==
  /\ Goes("run", "select", "watch") /\ watcher.due
  /\ watcher' = [watcher EXCEPT !.due = FALSE]
  /\ UNCHANGED <<tags, stuck, result, passMu, nudges, timer, ticker, lastVars, historyVars, events>>

\* Run passes at once when it starts.
FirstPass ==
  /\ Goes("run", "start", "lock")
  /\ UNCHANGED <<tags, stuck, result, passMu, clockVars, lastVars, historyVars, events>>

\* A Mate still waits, the chase is on and the last pass is old enough.
Chases == lastWaiting > 0 /\ chase > 0 /\ lastAge >= ChaseInterval

\* Loop.watch: a registry other than the one last seen is a pass and a chase,
\* and taken as seen; else the chase says.
Watch ==
  /\ Goes("run", "watch", IF Differs(lastSeen, Now) \/ Chases THEN "lock" ELSE "select")
  /\ lastSeen' = Now
  /\ chase' = IF Differs(lastSeen, Now) THEN ChaseFor ELSE chase
  /\ UNCHANGED <<tags, stuck, result, passMu, clockVars, lastActed, lastWaiting, lastAge,
                 historyVars, events>>

\* A registry the watch cannot read is no reason for a pass.
WatchFails ==
  /\ Event /\ Goes("run", "watch", "select")
  /\ trusted' = FALSE /\ late' = 0
  /\ UNCHANGED <<tags, stuck, result, passMu, clockVars, lastVars, owed, latest>>

-----------------------------------------------------------------------------
(* A pass, whoever runs it.                                                *)

\* RunNow: a route waits for the lock and for the pass.
CallRunNow ==
  /\ Event /\ Goes("now", "none", "lock")
  /\ UNCHANGED <<tags, stuck, result, passMu, clockVars, lastVars, owed, late, latest, trusted>>

Lock(c) ==
  /\ Goes(c, "lock", "read") /\ passMu = "free"
  /\ passMu' = c
  /\ owed' = Off
  /\ UNCHANGED <<tags, stuck, result, clockVars, lastVars, late, calm, latest, trusted, events>>

Read(c) ==
  /\ Goes(c, "read", "apply")
  /\ result' = [result EXCEPT ![c] = [Nothing EXCEPT !.registry = Now]]
  /\ UNCHANGED <<tags, stuck, passMu, clockVars, lastVars, historyVars, events>>

\* Mutant: the registry is looked at again when the pass is over.
SettleSeesNow(r) ==
  /\ lastAge' = 0
  /\ IF r.failed THEN UNCHANGED <<lastSeen, lastActed, lastWaiting, chase>>
     ELSE /\ chase' = IF Differs(lastActed, r.registry) \/ r.waiting > lastWaiting THEN ChaseFor ELSE chase
          /\ lastSeen' = Now /\ lastActed' = r.registry
          /\ lastWaiting' = r.waiting

\* Mutant: as many Mates waiting as before start a chase again.
SettleChasesOn(r) ==
  /\ lastAge' = 0
  /\ IF r.failed THEN UNCHANGED <<lastSeen, lastActed, lastWaiting, chase>>
     ELSE /\ chase' = IF Differs(lastActed, r.registry) \/ r.waiting >= lastWaiting THEN ChaseFor ELSE chase
          /\ lastSeen' = r.registry /\ lastActed' = r.registry
          /\ lastWaiting' = r.waiting

\* Loop.settle.
Settle(r) ==
  /\ lastAge' = 0
  /\ IF r.failed THEN UNCHANGED <<lastSeen, lastActed, lastWaiting, chase>>
     ELSE /\ chase' = IF Differs(lastActed, r.registry) \/ r.waiting > lastWaiting THEN ChaseFor ELSE chase
          /\ lastSeen' = r.registry /\ lastActed' = r.registry
          /\ lastWaiting' = r.waiting

\* A pass is over; RunNow settles before it unlocks, Run's pass afterwards.
\* A pass that failed may have read the registry and told nobody.
Finish(c, r) ==
  /\ passMu' = "free"
  /\ latest' = IF r.failed THEN latest ELSE r
  /\ late' = IF r.failed THEN 0 ELSE late
  /\ IF c = "now"
     THEN /\ Settle(r) /\ at' = [at EXCEPT !.now = "none"]
          /\ trusted' = (~r.failed /\ at.run # "settle")
          /\ result' = [result EXCEPT ![c] = Nothing]
     ELSE /\ at' = [at EXCEPT !.run = "settle"] /\ result' = [result EXCEPT ![c] = r]
          /\ trusted' = FALSE /\ UNCHANGED lastVars
  /\ UNCHANGED <<tags, stuck, clockVars, owed>>

PassSucceeds(c) ==
  /\ at[c] = "apply" /\ Finish(c, [result[c] EXCEPT !.waiting = stuck])
  /\ UNCHANGED <<calm, events>>

PassFails(c) ==
  /\ at[c] \in {"read", "apply"} /\ Event
  /\ Finish(c, [Nothing EXCEPT !.failed = TRUE])

\* Trusted again when this pass is still the last one and did not fail.
SettleRun ==
  /\ Goes("run", "settle", "select")
  /\ Settle(result["run"])
  /\ result' = [result EXCEPT !["run"] = Nothing]
  /\ trusted' = (~result["run"].failed /\ latest = result["run"] /\ passMu = "free")
  /\ UNCHANGED <<tags, stuck, passMu, clockVars, owed, late, calm, latest, events>>

-----------------------------------------------------------------------------
(* Time, and the organisation.                                             *)

Ready == nudges \/ timer = 0 \/ ticker.due \/ watcher.due
Counts(t, every) == IF t.left = 1 THEN [left |-> every, due |-> TRUE] ELSE [t EXCEPT !.left = @ - 1]

Tick ==
  /\ at.run \notin {"start", "settle"} /\ ~(at.run = "select" /\ Ready)
  /\ timer' = IF timer > 0 THEN timer - 1 ELSE timer
  /\ ticker' = Counts(ticker, Interval) /\ watcher' = Counts(watcher, WatchInterval)
  /\ lastAge' = AtMost(lastAge + 1, ChaseInterval)
  /\ chase' = IF chase > 0 THEN chase - 1 ELSE 0
  /\ IF at.run # "select" THEN UNCHANGED <<owed, late, calm>>
     ELSE /\ calm' = AtMost(calm + 1, Interval + ChaseFor)
          /\ owed' = IF owed = Off THEN Off ELSE AtMost(owed + 1, NudgeDelay + 1)
          /\ late' = IF trusted /\ Differs(latest.registry, Now) THEN AtMost(late + 1, WatchInterval + 1) ELSE 0
  /\ UNCHANGED <<tags, stuck, at, result, passMu, nudges, lastSeen, lastActed, lastWaiting,
                 latest, trusted, events>>

Retag(list) ==
  /\ Event /\ list # tags
  /\ tags' = list /\ late' = 0
  /\ UNCHANGED <<stuck, at, result, passMu, clockVars, lastVars, owed, latest, trusted>>

\* Containers become ready, or new Mates have none that is.
MatesChange(n) ==
  /\ Event /\ n # stuck
  /\ stuck' = n
  /\ UNCHANGED <<tags, at, result, passMu, clockVars, lastVars, owed, late, latest, trusted>>

PassStep(c) == Lock(c) \/ Read(c) \/ PassSucceeds(c)
RunStep ==
  \/ TakeNudge \/ TakeTimer \/ TakeTick \/ TakeWatch \/ FirstPass \/ Watch \/ SettleRun
  \/ PassStep("run")

LoopNext ==
  \/ RunStep \/ PassStep("now") \/ Tick \/ Nudge \/ WatchFails \/ CallRunNow
  \/ \E c \in Callers : PassFails(c)
  \/ \E list \in TagLists : Retag(list)
  \/ \E n \in 0..MaxMates : MatesChange(n)

LoopSpec == LoopInit /\ [][LoopNext]_loopVars

-----------------------------------------------------------------------------
(* Properties.                                                             *)

\* A pass starts at most NudgeDelay after the last of a burst of nudges, as far
\* as Run was not busy with another (Nudge, Run).
NudgeSoon == owed <= NudgeDelay

\* Once a pass has succeeded and told so in order, the watch finds every later
\* change of the registry within WatchInterval, whatever a pass that was under
\* way at the change had read (watch, settle).  A pass or a watch that fails,
\* and two passes that settle out of order, leave a change to the interval.
RegistrySoon == trusted => late <= WatchInterval

\* A chase ends: once nothing changes or fails, it is over ChaseFor after the
\* first pass of the interval, so that a Mate whose container never gets ready
\* does not keep the loop passing every ChaseInterval for ever (settle, "more
\* Mates waiting than it left").
ChaseEnds == calm = Interval + ChaseFor => chase = 0

=============================================================================
