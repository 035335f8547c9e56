------------------------------ MODULE MateAccess ------------------------------
(***************************************************************************)
(* One Mate's Gitea access (internal/mirror/access.go, planBotTokens in    *)
(* plan.go): the rights loop mints generations of its bot's token, writes  *)
(* the newest into the Mate's container next to two plain variables, and   *)
(* deletes the generations that were replaced.                             *)
(*                                                                         *)
(* Passes never overlap (passMu), and only a pass changes the bot's tokens,*)
(* so what a pass lists of them is what there is; the container is changed *)
(* by others too.  A pass is one step per call.  A write whose answer is   *)
(* lost may have happened, may never happen, or may still happen later.    *)
(* The clock is one fact per generation: it is older than the grace.       *)
(***************************************************************************)
EXTENDS Naturals, FiniteSets

CONSTANTS MaxGen,     \* bound: generations
          MaxFaults,  \* bound: lost answers, restarts, upgrades, edits, new containers
          SlowWrites  \* whether a write may land when its generation is past the grace

ASSUME AccessAssumption ==
  /\ MaxGen \in Nat \ {0}
  /\ MaxFaults \in Nat
  /\ SlowWrites \in BOOLEAN

Gens == 1..MaxGen
Plains == {"url", "broker"}   \* GITEA_URL, MATE_BROKER_URL

VARIABLES live,      \* generations of the bot's token that Gitea knows
          aged,      \* those past the grace
          covers,    \* those whose scopes cover BotScopes
          token,     \* the generation GITEA_TOKEN holds, 0 for none of the bot's
          key,       \* GITEA_TOKEN's key in the container
          plain,     \* the plain variables
          pending,   \* writes of GITEA_TOKEN that may still land
          refusing,  \* the platform refuses writes to the container
          gone,      \* which part of what the pass read of the container is gone
          pass,      \* the pass
          once,      \* history: the generations the container has held since it
                     \* last lost its token or went back to an older one
          left,      \* history: those of them that a newer one took the place of
          faults     \* how many faults have happened

giteaVars == <<live, aged, covers>>
containerVars == <<token, key, plain, pending, gone, once, left>>
vars == <<giteaVars, containerVars, refusing, pass, faults>>

\* A variable is not there, or only under another case, or under its own name.
Keys == {"absent", "cased", "own"}
\* A plain variable has another value or none; or the right one, under a name.
Values == {"wrong", "cased", "right"}
Phases == {"idle", "plan", "deliver", "url", "broker", "move", "mint", "write",
           "again", "remake", "rollback", "delete"}

\* A pass: whether it delivers and mints, the generation and the key it read in
\* the container, the generation it writes, the ones it will delete.
PassState == [at : Phases, deliver : BOOLEAN, mint : BOOLEAN, saw : 0..MaxGen,
              have : Keys, value : 0..MaxGen, todo : SUBSET Gens]
Idle == [at |-> "idle", deliver |-> FALSE, mint |-> FALSE, saw |-> 0,
         have |-> "absent", value |-> 0, todo |-> {}]

TypeOK ==
  /\ live \subseteq Gens /\ aged \subseteq live /\ covers \subseteq live
  /\ token \in 0..MaxGen
  /\ key \in Keys
  /\ plain \in [Plains -> Values]
  /\ pending \subseteq [gen : Gens, how : {"create", "update"}]
  /\ refusing \in BOOLEAN
  /\ gone \in {"nothing", "token", "service"}
  /\ pass \in PassState /\ pass.todo \subseteq live
  /\ once \subseteq Gens /\ left \subseteq Gens
  /\ faults \in 0..MaxFaults

-----------------------------------------------------------------------------
\* A new Mate, or one an earlier broker served, with fewer scopes or for
\* another Gitea.
Init ==
  /\ \/ live = {} /\ token = 0 /\ key = "absent"
     \/ live = {1} /\ token = 1 /\ key \in {"cased", "own"}
     \/ live = {} /\ token = 0 /\ key = "own"
  /\ aged = {}
  /\ covers \in {{}, live}
  /\ plain \in {[v \in Plains |-> "wrong"], [v \in Plains |-> "right"],
                [v \in Plains |-> IF v = "url" THEN "right" ELSE "cased"]}
  /\ pending = {}
  /\ refusing = FALSE /\ gone = "nothing"
  /\ pass = Idle
  /\ once = {token} \ {0} /\ left = {}
  /\ faults = 0

Fault == faults < MaxFaults /\ faults' = faults + 1

At(at) == pass.at = at
Goto(at) == pass' = [pass EXCEPT !.at = at]
\* deliverMateAccess returns; the plan goes on.
Delivered == Goto("delete")

\* The container holds generation g (0: another token) under its own name.
Hold(g) ==
  /\ token' = g /\ key' = "own"
  /\ once' = (IF token <= g THEN once ELSE {}) \union ({g} \ {0})
  /\ left' = IF token <= g THEN (left \union {token}) \ {0, g} ELSE {}
\* The variable is deleted: no update of it can land any more.
Drop ==
  /\ token' = 0 /\ key' = "absent"
  /\ once' = {} /\ left' = {}
  /\ pending' = {w \in pending : w.how = "create"}

-----------------------------------------------------------------------------
(* Planning.                                                               *)

\* The newest generation (newestGeneration).
Newest(g) == g \in live /\ \A h \in live : h <= g

\* Mutant: any live generation in the container will do.
NeedsMintUnlessLive == token \notin live \/ plain["url"] = "wrong"

\* planMateAccess: the container holds none, or the token of another Gitea, or
\* one that is not the newest, or one that lacks a scope.
NeedsMint == plain["url"] = "wrong" \/ ~Newest(token) \/ token \notin covers

\* The bot's tokens are listed, and the container's variables read.
ReadMate ==
  /\ At("idle")
  /\ pass' = [pass EXCEPT
       !.at = "plan", !.saw = token, !.mint = NeedsMint,
       !.deliver = NeedsMint \/ key = "cased" \/ \E v \in Plains : plain[v] # "right"]
  /\ gone' = "nothing"
  /\ UNCHANGED <<giteaVars, token, key, plain, pending, once, left, refusing, faults>>

\* The generation after g is past the grace.
SuccessorAged(g) == \E r \in aged : r > g /\ \A h \in live : h > g => h >= r

\* Mutant: the generation the container holds goes as the others do.
SupersededHeld(held) == {g \in live : ~Newest(g) /\ SuccessorAged(g)}

\* Mutant: the successor's age counts, written or not.
SupersededBySuccessor(held) ==
  {g \in live \ {held} : ~Newest(g) /\ SuccessorAged(g)}

\* planBotTokens: all but the newest and the held generation go, the older ones
\* once the held one is past the grace, the newer ones once their successor is.
Superseded(held) ==
  {g \in live \ {held} :
     /\ ~Newest(g)
     /\ IF g < held /\ held \in live THEN held \in aged ELSE SuccessorAged(g)}

\* Compute: the plan delivers first and deletes last.
Plan ==
  /\ At("plan")
  /\ pass' = [pass EXCEPT !.at = IF pass.deliver THEN "deliver" ELSE "delete",
                          !.todo = Superseded(pass.saw)]
  /\ UNCHANGED <<giteaVars, containerVars, refusing, faults>>

-----------------------------------------------------------------------------
(* A delivery: deliverMateAccess.                                          *)

\* A write to the container is refused, or to the token's variable.
Refused == refusing \/ gone = "service"
TokenRefused == refusing \/ gone # "nothing"

\* EnsureBot, and the container's variables again.
ReadVariables ==
  /\ At("deliver")
  /\ IF gone = "service" THEN Delivered
     ELSE pass' = [pass EXCEPT !.at = "url", !.have = key, !.saw = token]
  /\ gone' = IF gone = "token" THEN "nothing" ELSE gone
  /\ UNCHANGED <<giteaVars, token, key, plain, pending, once, left, refusing, faults>>

\* What follows the plain variables.
AfterPlain(v) ==
  CASE v = "url"                               -> "broker"
    [] v = "broker" /\ pass.mint               -> "mint"
    [] v = "broker" /\ ~pass.mint /\ pass.have = "cased" -> "move"
    [] OTHER                                   -> "delete"

\* writeVar of a plain variable: left alone, or made right, or refused, which
\* ends the delivery; a replacement may get no further than its deletion.
WritePlain(v) ==
  /\ At(v)
  /\ \/ plain[v] = "right" /\ Goto(AfterPlain(v)) /\ UNCHANGED plain
     \/ plain[v] # "right" /\ ~Refused /\ Goto(AfterPlain(v))
        /\ plain' = [plain EXCEPT ![v] = "right"]
     \/ plain[v] # "right" /\ Refused /\ Delivered /\ UNCHANGED plain
     \/ plain[v] = "cased" /\ ~Refused /\ Delivered /\ plain' = [plain EXCEPT ![v] = "wrong"]
  /\ UNCHANGED <<giteaVars, token, key, pending, gone, once, left, refusing, faults>>

\* The answer to it is lost.
WritePlainLost(v) ==
  /\ At(v) /\ plain[v] # "right" /\ gone # "service"
  /\ Fault
  /\ \E value \in {plain[v], "wrong", "right"} : plain' = [plain EXCEPT ![v] = value]
  /\ Delivered
  /\ UNCHANGED <<giteaVars, token, key, pending, gone, once, left, refusing>>

\* ListTokens and MintToken: the generation after the newest.
Minted(g) ==
  /\ \A h \in live : h < g
  /\ g = 1 \/ g - 1 \in live
  /\ live' = live \union {g} /\ covers' = covers \union {g}
  /\ UNCHANGED aged

Mint ==
  /\ At("mint")
  /\ \E g \in Gens : Minted(g) /\ pass' = [pass EXCEPT !.at = "write", !.value = g]
  /\ UNCHANGED <<containerVars, refusing, faults>>

\* Its answer is lost, and so is the token's value.
MintLost ==
  /\ At("mint")
  /\ Fault
  /\ \E g \in Gens : Minted(g)
  /\ Delivered
  /\ UNCHANGED <<containerVars, refusing>>

\* Mutant: a refused write leaves its generation.
GiveUpMinted == Delivered

\* A definite refusal (4xx) of the token's write.
GiveUp == IF pass.mint THEN Goto("rollback") ELSE Delivered

\* writeVar of GITEA_TOKEN: an update by id of the variable that was read.
UpdateToken ==
  /\ At("write") /\ pass.have = "own"
  /\ IF TokenRefused
     THEN GiveUp /\ UNCHANGED <<token, key, once, left>>
     ELSE Hold(pass.value) /\ Delivered
  /\ UNCHANGED <<giteaVars, plain, pending, gone, refusing, faults>>

\* There was none, so it is created; a duplicate is read again.
CreateToken ==
  /\ At("write") /\ pass.have = "absent"
  /\ IF Refused
     THEN GiveUp /\ UNCHANGED <<token, key, once, left>>
     ELSE IF key # "absent"
     THEN Goto("again") /\ UNCHANGED <<token, key, once, left>>
     ELSE Hold(pass.value) /\ Delivered
  /\ UNCHANGED <<giteaVars, plain, pending, gone, refusing, faults>>

\* The second read: the duplicate is there, or gone again.
ReadAgain ==
  /\ At("again")
  /\ IF gone = "service" \/ key = "absent"
     THEN GiveUp /\ UNCHANGED gone
     ELSE /\ pass' = [pass EXCEPT !.at = "write", !.have = key]
          /\ gone' = "nothing"
  /\ UNCHANGED <<giteaVars, token, key, plain, pending, once, left, refusing, faults>>

\* It fails: the refusal of the duplicate is what the delivery returns.
ReadAgainFails ==
  /\ At("again")
  /\ Fault
  /\ GiveUp
  /\ UNCHANGED <<giteaVars, containerVars, refusing>>

\* replaceVar, first half: a token under another case is deleted.
Replaces == At("move") \/ (At("write") /\ pass.have = "cased")
DeleteCased ==
  /\ Replaces
  /\ IF TokenRefused
     THEN GiveUp /\ UNCHANGED <<token, key, once, left, pending>>
     ELSE /\ Drop
          /\ pass' = [pass EXCEPT !.at = "remake",
                                  !.value = IF pass.mint THEN pass.value ELSE pass.saw]
  /\ UNCHANGED <<giteaVars, plain, gone, refusing, faults>>

\* Second half: it is created anew, or refused: the deletion is a process that
\* nobody awaits, and the key may still be taken.
Remake ==
  /\ At("remake")
  /\ \/ GiveUp /\ UNCHANGED <<token, key, once, left>>
     \/ ~Refused /\ key = "absent" /\ Hold(pass.value) /\ Delivered
  /\ UNCHANGED <<giteaVars, plain, pending, gone, refusing, faults>>

\* The answer to a write of the token is lost: it has happened, or it may later.
TokenWriteLost ==
  /\ pass.at \in {"move", "write", "remake"} /\ gone # "service"
  /\ Fault
  /\ \/ UNCHANGED <<token, key, once, left, pending>>
     \/ Replaces /\ gone = "nothing" /\ Drop
     \/ /\ ~Replaces /\ pass.value # 0
        /\ LET update == At("write") /\ pass.have = "own"
           IN /\ update => gone = "nothing"
              /\ pending' = pending \union
                   {[gen |-> pass.value, how |-> IF update THEN "update" ELSE "create"]}
        /\ UNCHANGED <<token, key, once, left>>
  /\ Delivered
  /\ UNCHANGED <<giteaVars, plain, gone, refusing>>

\* DeleteToken of the generation nobody holds.
Rollback ==
  /\ At("rollback")
  /\ live' = live \ {pass.value}
  /\ aged' = aged \ {pass.value} /\ covers' = covers \ {pass.value}
  /\ Delivered
  /\ UNCHANGED <<containerVars, refusing, faults>>

-----------------------------------------------------------------------------
(* The rest of a pass.                                                     *)

\* DeleteBotTokens, one call per generation of the plan.
DeleteGeneration(g) ==
  /\ At("delete") /\ g \in pass.todo
  /\ live' = live \ {g} /\ aged' = aged \ {g} /\ covers' = covers \ {g}
  /\ pass' = [pass EXCEPT !.todo = pass.todo \ {g}]
  /\ UNCHANGED <<containerVars, refusing, faults>>

\* A deletion fails: the others are tried all the same.
DeleteFails(g) ==
  /\ At("delete") /\ g \in pass.todo
  /\ Fault
  /\ pass' = [pass EXCEPT !.todo = pass.todo \ {g}]
  /\ UNCHANGED <<giteaVars, containerVars, refusing>>

PassEnds ==
  /\ At("delete") /\ pass.todo = {}
  /\ pass' = Idle
  /\ UNCHANGED <<giteaVars, containerVars, refusing, faults>>

\* Another call fails, the cap holds the group's plan back, or a rollback fails.
CallFails ==
  /\ pass.at \in {"plan", "deliver", "mint", "rollback"}
  /\ Fault
  /\ IF At("plan") THEN pass' = Idle ELSE Delivered
  /\ UNCHANGED <<giteaVars, containerVars, refusing>>

-----------------------------------------------------------------------------
(* The container, time, and restarts.                                      *)

\* A write whose answer was lost lands: a creation if there is none yet, an
\* update if its variable is still the one that was read.
Lands(w) ==
  /\ w \in pending
  /\ pending' = pending \ {w}
  /\ IF (w.how = "create") = (key = "absent")
     THEN Hold(w.gen)
     ELSE UNCHANGED <<token, key, once, left>>
  /\ UNCHANGED <<giteaVars, plain, gone, refusing, pass, faults>>

NeverLands(w) ==
  /\ w \in pending
  /\ pending' = pending \ {w}
  /\ UNCHANGED <<giteaVars, token, key, plain, gone, once, left, refusing, pass, faults>>

\* A generation gets past the grace, the older ones before it.
Ages(g) ==
  /\ g \in live \ aged /\ \A h \in live : h < g => h \in aged
  /\ \/ SlowWrites
     \/ /\ \A w \in pending : w.gen > g
        /\ At("plan") => pass.saw = token
  /\ aged' = aged \union {g}
  /\ UNCHANGED <<live, covers, containerVars, refusing, pass, faults>>

\* The platform starts or stops refusing writes to the container.
Refusing ==
  /\ refusing' = ~refusing
  /\ UNCHANGED <<giteaVars, containerVars, pass, faults>>

\* Somebody gives the token another value, makes one under some case, or deletes
\* it (as a deletion does whose answer was lost and that lands late).
Edited ==
  /\ Fault
  /\ token' = 0 /\ once' = {} /\ left' = {}
  /\ \/ key # "absent" /\ UNCHANGED <<key, pending, gone>>
     \/ key = "absent" /\ key' \in {"cased", "own"} /\ UNCHANGED <<pending, gone>>
     \/ /\ key # "absent" /\ key' = "absent"
        /\ pending' = {w \in pending : w.how = "create"}
        /\ gone' = IF gone = "service" THEN gone ELSE "token"
  /\ UNCHANGED <<giteaVars, plain, refusing, pass>>

\* The container is made anew, and holds nothing.
Recreated ==
  /\ Fault
  /\ token' = 0 /\ key' = "absent" /\ once' = {} /\ left' = {} /\ pending' = {}
  /\ plain' = [v \in Plains |-> "wrong"]
  /\ gone' = "service"
  /\ UNCHANGED <<giteaVars, refusing, pass>>

\* The broker restarts; it may be a new one that gives its bots a new scope.
Restart ==
  /\ Fault
  /\ pass' = Idle
  /\ covers' \in {covers, {}}
  /\ UNCHANGED <<live, aged, containerVars, refusing>>

-----------------------------------------------------------------------------
PassNext ==
  \/ ReadMate \/ Plan \/ ReadVariables
  \/ \E v \in Plains : WritePlain(v)
  \/ Mint \/ UpdateToken \/ CreateToken \/ ReadAgain \/ DeleteCased \/ Remake
  \/ Rollback
  \/ \E g \in Gens : DeleteGeneration(g)
  \/ PassEnds

Next ==
  \/ PassNext
  \/ \E v \in Plains : WritePlainLost(v)
  \/ MintLost \/ TokenWriteLost \/ ReadAgainFails \/ CallFails
  \/ \E g \in Gens : DeleteFails(g) \/ Ages(g)
  \/ \E w \in pending : Lands(w) \/ NeverLands(w)
  \/ Refusing \/ Edited \/ Recreated \/ Restart

Spec == Init /\ [][Next]_vars

\* The loop passes again and again, and time passes.
Fairness ==
  /\ WF_vars(PassNext)
  /\ \A g \in Gens : WF_vars(Ages(g))
  /\ WF_vars(\E w \in pending : Lands(w) \/ NeverLands(w))

FairSpec == Spec /\ Fairness

-----------------------------------------------------------------------------
(***************************************************************************)
(* Properties.                                                             *)
(***************************************************************************)

\* The container never holds a generation that was deleted, whatever was lost,
\* cut short or written late: the bot's token in it works (planBotTokens never
\* revokes the held one, and a rollback none that may be held).
HeldIsLive == token = 0 \/ token \in live

\* A generation the container held before a newer one goes only when one that
\* was written after it is past the grace: what was minted and never written
\* starts no clock (planBotTokens).
LeftForGrace ==
  [][\A g \in left : g \in live /\ g \notin live'
       => \E h \in aged \intersect once : h > g]_vars

\* However often a container refuses its token, generations do not pile up:
\* each fault leaves at most two more than one and its replacement (a lost answer
\* to a write that lands late is two generations).
NoPile == Cardinality(live) <= 2 + 2 * faults

\* The Mate's container holds what it should.
Served ==
  /\ Newest(token) /\ token \in covers /\ key = "own"
  /\ \A v \in Plains : plain[v] = "right"

\* If the container's writes are not refused for ever, the Mate is served.
MateServed == <>[]~refusing => <>[]Served

\* And its bot keeps one generation in the end.
OneGeneration == <>[]~refusing => <>[](live = {token})

=============================================================================
