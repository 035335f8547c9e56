--------------------------------- MODULE SignIn --------------------------------
(***************************************************************************)
(* Signing in: the throwaway that proves a person                          *)
(* (internal/throwaway/throwaway.go), Gitea's OIDC sign-in on top of it    *)
(* (internal/oidc/provider.go and store.go) and the app's own way to a     *)
(* token (internal/server/person.go).  Each call is a goroutine of its     *)
(* own; the store of requests, codes and access tokens is one map under a  *)
(* lock, and lost at a restart.                                            *)
(*                                                                         *)
(* A code and an access token are named after the call that made them.     *)
(* Time is counted in units; a call takes less than one.                   *)
(***************************************************************************)
EXTENDS Integers, FiniteSets

CONSTANTS People, Rids, Calls,
          Throwaway,   \* the tokens that callers hold, by their names:
                       \* [by, answers, ours, bare, named]
          RequestTTL, CodeTTL, AccessTTL, Window,
          Retries,     \* length of the member list's retry ladder
          MaxEvents    \* bound: people leaving, failed calls, restarts

Bearers == DOMAIN Throwaway

NoOne == "none"

ASSUME SignInAssumption ==
  /\ \A n \in {RequestTTL, CodeTTL, AccessTTL, Window, Retries, MaxEvents} : n \in Nat
  /\ \A b \in Bearers : Throwaway[b].by \in People
  /\ NoOne \notin Rids \union Calls /\ "loop" \notin Calls

VARIABLES member,     \* the active members of the organisation
          left,       \* history: units since somebody left, as far as they matter
          age,        \* units since a throwaway was minted
          request,    \* units a request has left, or Off
          code,       \* units a code has left, or Off
          access,     \* units an access token has left, or Off
          call,       \* the calls
          account,    \* people with a Gitea account
          placed,     \* people in the teams the role function says
          pass,       \* the rights loop's pass: running, by whom, and the
                      \* accounts it read
          codes,      \* history: how many codes a request yielded
          issued,     \* history: how many id_tokens a request yielded
          events

storeVars == <<request, code, access>>
orgVars == <<member, left, age>>
giteaVars == <<account, placed, pass>>
historyVars == <<codes, issued>>
vars == <<orgVars, storeVars, call, giteaVars, historyVars, events>>

Off == 0 - 1
Long == CodeTTL + AccessTTL + 1
Idle == [at |-> "idle", rid |-> NoOne, bearer |-> NoOne, by |-> NoOne, from |-> NoOne,
         tries |-> 0, created |-> FALSE, hurried |-> FALSE]
NoPass == [by |-> NoOne, read |-> {}]

\* A call is under way: it was made and has not answered.
UnderWay(c) == call[c].at \notin {"idle", "answered", "refused", "failed"}

TypeOK ==
  /\ member \subseteq People /\ left \in [People -> 0..Long]
  /\ age \in [Bearers -> 0..Window + 1]
  /\ request \in [Rids -> {Off} \union 0..RequestTTL]
  /\ code \in [Calls -> {Off} \union 0..CodeTTL]
  /\ access \in [Calls -> {Off} \union 0..AccessTTL]
  /\ \A c \in Calls : call[c].tries \in 0..Retries
  /\ placed \subseteq account /\ account \subseteq People
  /\ pass.read \subseteq account /\ pass.by \in Calls \union {NoOne, "loop"}
  /\ events \in 0..MaxEvents

Init ==
  /\ member = People /\ left = [p \in People |-> 0]
  /\ age = [b \in Bearers |-> 0]
  /\ request = [r \in Rids |-> Off]
  /\ code = [c \in Calls |-> Off] /\ access = [c \in Calls |-> Off]
  /\ call = [c \in Calls |-> Idle]
  /\ account = {} /\ placed = {} /\ pass = NoPass
  /\ codes = [r \in Rids |-> 0] /\ issued = [r \in Rids |-> 0]
  /\ events = 0

Event == events < MaxEvents /\ events' = events + 1
Goes(c, from, to) == call[c].at = from /\ call' = [call EXCEPT ![c].at = to]
Answers(c, answer) == call' = [call EXCEPT ![c] = [Idle EXCEPT !.at = answer]]

-----------------------------------------------------------------------------
(* The check of a throwaway (Checker.Check), which two routes make.        *)

\* Why a throwaway is refused before the member list is read, in the order of
\* the check; at its window's end it is still good.
Reason(b) ==
  LET t == Throwaway[b]
  IN IF ~t.answers THEN "token_dead"
     ELSE IF ~t.ours THEN "wrong_org"
     ELSE IF ~t.bare THEN "has_rights"
     ELSE IF ~t.named THEN "wrong_name"
     ELSE IF age[b] > Window THEN "stale" ELSE "none"

Complete(c, rid, b) ==
  /\ call[c].at = "idle"
  /\ call' = [call EXCEPT ![c] = [Idle EXCEPT !.at = "check", !.rid = rid, !.bearer = b]]
  /\ UNCHANGED <<orgVars, storeVars, giteaVars, historyVars, events>>

AskToken(c, b) ==
  /\ call[c].at = "idle"
  /\ call' = [call EXCEPT ![c] = [Idle EXCEPT !.at = "check", !.bearer = b]]
  /\ UNCHANGED <<orgVars, storeVars, giteaVars, historyVars, events>>

\* Steps one to five.
Check(c) ==
  /\ call[c].at = "check"
  /\ IF Reason(call[c].bearer) = "none" THEN call' = [call EXCEPT ![c].at = "members"]
     ELSE Answers(c, "refused")
  /\ UNCHANGED <<orgVars, storeVars, giteaVars, historyVars, events>>

\* Step six: the throwaway's creator is an active member.  What follows reads
\* their rights from this same list.
Members(c) ==
  /\ call[c].at = "members"
  /\ IF Throwaway[call[c].bearer].by \in member
     THEN call' = [call EXCEPT ![c].by = Throwaway[call[c].bearer].by,
                               ![c].at = IF call[c].rid = NoOne THEN "rights" ELSE "take"]
     ELSE Answers(c, "refused")
  /\ UNCHANGED <<orgVars, storeVars, giteaVars, historyVars, events>>

\* The list is read again while Zerops answers 400 or 5xx, as far as the ladder goes.
MembersFail(c) ==
  /\ call[c].at = "members" /\ Event
  /\ IF call[c].tries < Retries THEN call' = [call EXCEPT ![c].tries = @ + 1]
     ELSE Answers(c, "failed")
  /\ UNCHANGED <<orgVars, storeVars, giteaVars, historyVars>>

-----------------------------------------------------------------------------
(* Gitea's sign-in (Provider).                                             *)

\* handleAuthorize keeps a request under a fresh rid.
Authorize(rid) ==
  /\ request[rid] = Off /\ codes[rid] = 0
  /\ \A c \in Calls : call[c].rid # rid
  /\ request' = [request EXCEPT ![rid] = RequestTTL]
  /\ UNCHANGED <<orgVars, code, access, call, giteaVars, historyVars, events>>

\* handleComplete takes the request: a second completion finds nothing.
TakeRequest(c) ==
  /\ call[c].at = "take"
  /\ IF request[call[c].rid] # Off
     THEN /\ request' = [request EXCEPT ![call[c].rid] = Off]
          /\ call' = [call EXCEPT ![c].at = "rights"]
     ELSE Answers(c, "refused") /\ UNCHANGED request
  /\ UNCHANGED <<orgVars, code, access, giteaVars, historyVars, events>>

\* The rights come from the member list of the check: the caller is active in
\* it.  A completion then issues its code, the app's call looks for the account.
Rights(c) ==
  /\ call[c].at = "rights"
  /\ IF call[c].rid = NoOne
     THEN call' = [call EXCEPT ![c].at = "get"] /\ UNCHANGED <<code, codes>>
     ELSE /\ call' = [call EXCEPT ![c].at = "answered"]
          /\ code' = [code EXCEPT ![c] = CodeTTL]
          /\ codes' = [codes EXCEPT ![call[c].rid] = @ + 1]
  /\ UNCHANGED <<orgVars, request, access, giteaVars, issued, events>>

\* Gitea exchanges the code of a completion, perhaps twice.
Exchange(c, from) ==
  /\ call[c].at = "idle" /\ call[from].at = "answered" /\ call[from].rid # NoOne
  /\ call' = [call EXCEPT ![c] = [Idle EXCEPT !.at = "exchange", !.from = from]]
  /\ UNCHANGED <<orgVars, storeVars, giteaVars, historyVars, events>>

\* Mutant: a code is spent when it is swept.
TakeCodeTwice(c) ==
  LET from == call[c].from
  IN /\ call[c].at = "exchange"
     /\ IF code[from] # Off
        THEN call' = [call EXCEPT ![c].at = "sign", ![c].by = call[from].by, ![c].rid = call[from].rid]
        ELSE Answers(c, "refused")
     /\ UNCHANGED <<orgVars, storeVars, giteaVars, historyVars, events>>

\* handleToken takes the code: a second exchange finds nothing.
TakeCode(c) ==
  LET from == call[c].from
  IN /\ call[c].at = "exchange"
     /\ IF code[from] # Off
        THEN /\ code' = [code EXCEPT ![from] = Off]
             /\ call' = [call EXCEPT ![c].at = "sign", ![c].by = call[from].by, ![c].rid = call[from].rid]
        ELSE Answers(c, "refused") /\ UNCHANGED code
     /\ UNCHANGED <<orgVars, request, access, giteaVars, historyVars, events>>

\* The id_token is signed and the access token kept; the rights loop is nudged.
Issue(c) ==
  /\ Goes(c, "sign", "answered")
  /\ access' = [access EXCEPT ![c] = AccessTTL]
  /\ issued' = [issued EXCEPT ![call[c].rid] = @ + 1]
  /\ UNCHANGED <<orgVars, request, code, giteaVars, codes, events>>

-----------------------------------------------------------------------------
(* The app's token (handlePersonToken) and the rights loop's passes.       *)

\* ensurePerson looks first ...
GetAccount(c) ==
  /\ call[c].at = "get"
  /\ call' = [call EXCEPT ![c].at = IF call[c].by \in account THEN "mint" ELSE "create"]
  /\ UNCHANGED <<orgVars, storeVars, giteaVars, historyVars, events>>

\* ... and creates; Gitea refuses a login it already has.
CreateAccount(c) ==
  /\ call[c].at = "create"
  /\ IF call[c].by \in account THEN Answers(c, "refused") /\ UNCHANGED account
     ELSE /\ account' = account \union {call[c].by}
          /\ call' = [call EXCEPT ![c].at = "lock", ![c].created = TRUE]
  /\ UNCHANGED <<orgVars, storeVars, placed, pass, historyVars, events>>

\* Mutant: the pass that is under way will do.
LockJoins(c) ==
  /\ call[c].at = "lock"
  /\ IF pass.by # NoOne THEN UNCHANGED pass /\ call' = [call EXCEPT ![c].at = "joined"]
     ELSE pass' = [by |-> c, read |-> account] /\ call' = [call EXCEPT ![c].at = "pass"]
  /\ UNCHANGED <<orgVars, storeVars, account, placed, historyVars, events>>

\* RunNow waits for a pass that is under way and makes its own.
Lock(c) ==
  /\ Goes(c, "lock", "pass") /\ pass.by = NoOne
  /\ pass' = [by |-> c, read |-> account]
  /\ UNCHANGED <<orgVars, storeVars, account, placed, historyVars, events>>

LoopPass ==
  /\ pass.by = NoOne
  /\ pass' = [by |-> "loop", read |-> account]
  /\ UNCHANGED <<orgVars, storeVars, call, account, placed, historyVars, events>>

\* A pass places whoever had an account when it read Gitea.
EndPass ==
  /\ pass.by # NoOne
  /\ placed' = placed \union pass.read
  /\ pass' = NoPass
  /\ call' = [c \in Calls |-> IF call[c].at = "joined" \/ (c = pass.by /\ call[c].at = "pass")
                              THEN [call[c] EXCEPT !.at = "mint"] ELSE call[c]]
  /\ UNCHANGED <<orgVars, storeVars, account, historyVars, events>>

\* The call's pass fails, or passTimeout is over when the call has the lock at
\* last (the wait for the lock itself does not end early): it goes on without.
Hurry(c) ==
  /\ call[c].at = "pass" \/ (call[c].at = "lock" /\ pass.by = NoOne)
  /\ Event
  /\ call' = [call EXCEPT ![c].at = "mint", ![c].hurried = TRUE]
  /\ pass' = IF pass.by = c THEN NoPass ELSE pass
  /\ UNCHANGED <<orgVars, storeVars, account, placed, historyVars>>

Mint(c) ==
  /\ Goes(c, "mint", "answered")
  /\ UNCHANGED <<orgVars, storeVars, giteaVars, historyVars, events>>

-----------------------------------------------------------------------------
(* Failures, time, and the organisation.                                   *)

\* Zerops or Gitea does not answer, or the caller is gone: a request or a code
\* that was taken stays taken.
CallFails(c) ==
  /\ call[c].at \in {"check", "rights", "sign", "get", "create", "mint"} /\ Event
  /\ Answers(c, "failed")
  /\ UNCHANGED <<orgVars, storeVars, giteaVars, historyVars>>

\* What is expired is gone; at its very end an entry is still good.
Swept(n) == IF n = Off \/ n = 0 THEN Off ELSE n - 1

\* Mutant: codes are not swept.
AgeStoreButCodes ==
  /\ request' = [r \in Rids |-> Swept(request[r])]
  /\ access' = [c \in Calls |-> Swept(access[c])]
  /\ code' = code

\* Every access to the store first drops what is expired (sweep).
AgeStore ==
  /\ request' = [r \in Rids |-> Swept(request[r])]
  /\ code' = [c \in Calls |-> Swept(code[c])]
  /\ access' = [c \in Calls |-> Swept(access[c])]

Tick ==
  /\ \A c \in Calls : ~UnderWay(c)
  /\ AgeStore
  /\ age' = [b \in Bearers |-> IF age[b] > Window THEN age[b] ELSE age[b] + 1]
  /\ left' = [p \in People |-> IF p \in member \/ left[p] = Long THEN left[p] ELSE left[p] + 1]
  /\ UNCHANGED <<member, call, giteaVars, historyVars, events>>

Leave(p) ==
  /\ Event /\ p \in member
  /\ member' = member \ {p} /\ left' = [left EXCEPT ![p] = 0]
  /\ UNCHANGED <<age, storeVars, call, giteaVars, historyVars>>

\* The broker restarts: the store is empty and calls are cut off.
Restart ==
  /\ Event
  /\ request' = [r \in Rids |-> Off]
  /\ code' = [c \in Calls |-> Off] /\ access' = [c \in Calls |-> Off]
  /\ call' = [c \in Calls |-> IF UnderWay(c) THEN [Idle EXCEPT !.at = "failed"] ELSE call[c]]
  /\ pass' = NoPass
  /\ UNCHANGED <<orgVars, account, placed, historyVars>>

Next ==
  \/ \E c \in Calls :
       \/ \E b \in Bearers : AskToken(c, b) \/ \E rid \in Rids : Complete(c, rid, b)
       \/ \E from \in Calls : Exchange(c, from)
       \/ Check(c) \/ Members(c) \/ MembersFail(c) \/ TakeRequest(c) \/ Rights(c)
       \/ TakeCode(c) \/ Issue(c) \/ GetAccount(c) \/ CreateAccount(c) \/ Lock(c)
       \/ Hurry(c) \/ Mint(c) \/ CallFails(c)
  \/ \E rid \in Rids : Authorize(rid)
  \/ LoopPass \/ EndPass \/ Tick \/ Restart
  \/ \E p \in People : Leave(p)

Spec == Init /\ [][Next]_vars

-----------------------------------------------------------------------------
(* Properties.                                                             *)

\* One request of Gitea yields at most one code and one id_token, however many
\* completions and exchanges run beside each other (takeRequest, takeCode).
OneSignIn == \A r \in Rids : codes[r] <= 1 /\ issued[r] <= 1

\* Nobody who left more than CodeTTL ago has a code to exchange, and Gitea
\* learns nothing from the broker about somebody who left more than AccessTTL
\* before that (Check, sweep): the whole staleness of a sign-in.
NotLongGone ==
  \A c \in Calls :
    /\ code[c] # Off => left[call[c].by] <= CodeTTL - code[c] \/ call[c].by \in member
    /\ access[c] # Off => left[call[c].by] <= CodeTTL + AccessTTL - access[c] \/ call[c].by \in member

\* The call that made the account answers with a token only when a pass that
\* read the account is over, so that the person is in their teams by the app's
\* first read; unless the pass failed or took too long (handlePersonToken,
\* RunNow).
PlacedFirst ==
  \A c \in Calls :
    call[c].at \in {"mint", "answered"} /\ call[c].created /\ ~call[c].hurried
      => call[c].by \in placed

=============================================================================
