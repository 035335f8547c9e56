------------------------------ MODULE SignInProofs -----------------------------
(***************************************************************************)
(* One code and one id_token of a request, nothing left of somebody who    *)
(* left longer ago than a code and an access token live, and a first       *)
(* sign-in that is placed, for any number of people, requests and calls,   *)
(* and any lengths of life.                                                *)
(***************************************************************************)
EXTENDS SignIn, TLAPS

USE SignInAssumption DEF SignInAssumption

-----------------------------------------------------------------------------
(* The inductive invariant, in the parts that the three properties need.   *)

\* What a call has read: past the member list, whose token it carries.
Known == {"take", "rights", "get", "create", "lock", "pass", "mint"}
Phases == {"idle", "check", "members", "exchange", "sign", "answered", "refused", "failed"} \union Known

CallState ==
  [at : Phases, rid : Rids \union {NoOne}, bearer : Bearers \union {NoOne},
   by : People \union {NoOne}, from : Calls \union {NoOne},
   tries : 0..Retries, created : BOOLEAN, hurried : BOOLEAN]

OrgTypes ==
  /\ member \subseteq People /\ left \in [People -> 0..Long]
  /\ age \in [Bearers -> 0..Window + 1]

StoreTypes ==
  /\ request \in [Rids -> {Off} \union 0..RequestTTL]
  /\ code \in [Calls -> {Off} \union 0..CodeTTL]
  /\ access \in [Calls -> {Off} \union 0..AccessTTL]

CallTypes ==
  /\ call \in [Calls -> CallState]
  /\ \A c \in Calls :
       /\ call[c].at \in {"check", "members"} => call[c].bearer \in Bearers
       /\ call[c].at = "exchange" => call[c].from \in Calls
       /\ call[c].at \in Known \union {"sign"} => call[c].by \in People
       /\ call[c].at \in {"take", "sign"} => call[c].rid \in Rids

\* Codes and access tokens are those of calls that have answered.
OwnerTypes ==
  \A c \in Calls : code[c] # Off \/ access[c] # Off
    => call[c].at = "answered" /\ call[c].by \in People /\ call[c].rid \in Rids

GiteaTypes ==
  /\ placed \subseteq account /\ account \subseteq People
  /\ pass \in [by : Calls \union {NoOne, "loop"}, read : SUBSET account]

OtherTypes ==
  /\ codes \in [Rids -> Nat] /\ issued \in [Rids -> Nat]
  /\ events \in 0..MaxEvents

Types == OrgTypes /\ StoreTypes /\ CallTypes /\ OwnerTypes /\ GiteaTypes /\ OtherTypes

\* A request is on, or one call has taken it, or it has yielded its code ...
RequestOnce ==
  /\ \A r \in Rids : codes[r] <= 1 /\ (request[r] # Off => codes[r] = 0)
  /\ \A c \in Calls : call[c].at = "rights" /\ call[c].rid # NoOne
       => /\ codes[call[c].rid] = 0 /\ request[call[c].rid] = Off
          /\ \A d \in Calls : call[d].at = "rights" /\ call[d].rid = call[c].rid => d = c

\* ... and that code is on, or one exchange has taken it, or it has yielded its id_token.
CodeOnce ==
  /\ \A r \in Rids : issued[r] <= codes[r]
  /\ \A c \in Calls : code[c] # Off
       => /\ codes[call[c].rid] = 1 /\ issued[call[c].rid] = 0
          /\ \A d \in Calls : /\ code[d] # Off /\ call[d].rid = call[c].rid => d = c
                              /\ call[d].at = "sign" => call[d].rid # call[c].rid
  /\ \A c \in Calls : call[c].at = "sign"
       => /\ codes[call[c].rid] = 1 /\ issued[call[c].rid] = 0
          /\ \A d \in Calls : call[d].at = "sign" /\ call[d].rid = call[c].rid => d = c

\* Somebody is a member, or left no more than n units ago.
GoneFor(p, n) == p \in member \/ left[p] <= n

\* Whoever a call knows was in the list less than a unit ago, and the code that is
\* being exchanged was good.
Seen ==
  /\ \A c \in Calls : /\ call[c].at \in Known => GoneFor(call[c].by, 0)
                      /\ call[c].at = "sign" => GoneFor(call[c].by, CodeTTL)

\* A call that made an account has its person read by the pass that it waits for.
Placing ==
  \A c \in Calls :
    /\ call[c].at = "pass" => pass.by = c
    /\ call[c].created => call[c].at \in {"lock", "pass", "mint", "answered"}
    /\ call[c].created /\ call[c].at \in {"lock", "pass"} => call[c].by \in account
    /\ call[c].created /\ call[c].at = "pass" => call[c].by \in pass.read
    /\ call[c].created /\ ~call[c].hurried /\ call[c].at \in {"mint", "answered"} => call[c].by \in placed

-----------------------------------------------------------------------------
(* Types.                                                                  *)

\* The steps of one call.
CallNext(c) ==
  \/ \E b \in Bearers : AskToken(c, b) \/ \E rid \in Rids : Complete(c, rid, b)
  \/ \E from \in Calls : Exchange(c, from)
  \/ Check(c) \/ Members(c) \/ MembersFail(c) \/ TakeRequest(c) \/ Rights(c)
  \/ TakeCode(c) \/ Issue(c) \/ GetAccount(c) \/ CreateAccount(c) \/ Lock(c)
  \/ Hurry(c) \/ Mint(c) \/ CallFails(c)

LEMMA IdleTypes == Idle \in CallState
PROOF
  BY DEF Idle, CallState, Phases, Known

\* Only calls that have not answered move.
LEMMA AnswerTypes ==
  ASSUME CallTypes, NEW c \in Calls, NEW a \in {"answered", "refused", "failed"}, Answers(c, a)
  PROVE  CallTypes' /\ \A d \in Calls \ {c} : call'[d] = call[d]
PROOF
  BY IdleTypes DEF CallTypes, Answers, CallState, Phases, Known

LEMMA OneMoves ==
  ASSUME CallTypes, NEW c \in Calls, CallNext(c)
  PROVE  \A d \in Calls \ {c} : call'[d] = call[d]
PROOF
  BY AnswerTypes
     DEF CallNext, AskToken, Complete, Exchange, Check, Members, MembersFail, TakeRequest, Rights,
         TakeCode, Issue, GetAccount, CreateAccount, Lock, Hurry, Mint, CallFails, Goes, CallTypes,
         Answers

LEMMA BeginTypes ==
  ASSUME Types, NEW c \in Calls,
         NEW w \in CallState, call' = [call EXCEPT ![c] = w],
         w.at \in {"check", "members"} => w.bearer \in Bearers,
         w.at = "exchange" => w.from \in Calls,
         w.at \in Known \union {"sign"} => w.by \in People,
         w.at \in {"take", "sign"} => w.rid \in Rids
  PROVE  CallTypes'
PROOF
  BY DEF Types, CallTypes

LEMMA CallStepTypes ==
  ASSUME Types, NEW c \in Calls, CallNext(c)
  PROVE  CallTypes'
PROOF
<1>. USE IdleTypes DEF Types
<1>1. CASE \E b \in Bearers : AskToken(c, b)
  <2>1. PICK b \in Bearers : AskToken(c, b)
    BY <1>1
  <2>. DEFINE w == [Idle EXCEPT !.at = "check", !.bearer = b]
  <2>2. w \in CallState /\ w.at = "check" /\ w.bearer = b /\ call' = [call EXCEPT ![c] = w]
    BY <2>1 DEF AskToken, CallState, Phases, Known, Idle
  <2>. HIDE DEF w
  <2>. QED
    BY <2>2, BeginTypes DEF Known
<1>2. CASE \E b \in Bearers, rid \in Rids : Complete(c, rid, b)
  <2>1. PICK b \in Bearers, rid \in Rids : Complete(c, rid, b)
    BY <1>2
  <2>. DEFINE w == [Idle EXCEPT !.at = "check", !.rid = rid, !.bearer = b]
  <2>2. w \in CallState /\ w.at = "check" /\ w.bearer = b /\ call' = [call EXCEPT ![c] = w]
    BY <2>1 DEF Complete, CallState, Phases, Known, Idle
  <2>. HIDE DEF w
  <2>. QED
    BY <2>2, BeginTypes DEF Known
<1>3. CASE \E from \in Calls : Exchange(c, from)
  <2>1. PICK from \in Calls : Exchange(c, from)
    BY <1>3
  <2>. DEFINE w == [Idle EXCEPT !.at = "exchange", !.from = from]
  <2>2. w \in CallState /\ w.at = "exchange" /\ w.from = from /\ call' = [call EXCEPT ![c] = w]
    BY <2>1 DEF Exchange, CallState, Phases, Known, Idle
  <2>. HIDE DEF w
  <2>. QED
    BY <2>2, BeginTypes DEF Known
<1>4. CASE Answers(c, "refused") \/ Answers(c, "failed")
  BY <1>4, AnswerTypes
<1>5. CASE Check(c) /\ ~Answers(c, "refused")
  BY <1>5 DEF Check, CallTypes, CallState, Phases, Known
<1>6. CASE Members(c) /\ ~Answers(c, "refused")
  BY <1>6 DEF Members, CallTypes, CallState, Phases, Known
<1>7. CASE MembersFail(c) /\ ~Answers(c, "failed")
  BY <1>7 DEF MembersFail, CallTypes, CallState, Phases, Known
<1>8. CASE TakeRequest(c) /\ ~Answers(c, "refused")
  BY <1>8 DEF TakeRequest, CallTypes, CallState, Phases, Known
<1>9. CASE Rights(c)
  BY <1>9 DEF Rights, CallTypes, CallState, Phases, Known
<1>10. CASE TakeCode(c) /\ ~Answers(c, "refused")
  <2>. DEFINE from == call[c].from
              w == [call[c] EXCEPT !.at = "sign", !.by = call[from].by, !.rid = call[from].rid]
  <2>1. from \in Calls /\ code[from] # Off /\ call' = [call EXCEPT ![c] = w]
    BY <1>10 DEF TakeCode, CallTypes
  <2>2. call[from].by \in People /\ call[from].rid \in Rids
    BY <2>1 DEF OwnerTypes
  <2>3. w \in CallState /\ w.at = "sign" /\ w.by \in People /\ w.rid \in Rids
    BY <2>2 DEF CallTypes, CallState, Phases
  <2>. HIDE DEF w
  <2>. QED
    BY <2>1, <2>3, BeginTypes DEF Known
<1>11. CASE Issue(c) \/ Lock(c) \/ Mint(c)
  BY <1>11 DEF Issue, Lock, Mint, Goes, CallTypes, CallState, Phases, Known
<1>12. CASE GetAccount(c)
  BY <1>12 DEF GetAccount, CallTypes, CallState, Phases, Known
<1>13. CASE CreateAccount(c) /\ ~Answers(c, "refused")
  BY <1>13 DEF CreateAccount, CallTypes, CallState, Phases, Known
<1>14. CASE Hurry(c)
  <2>. DEFINE w == [call[c] EXCEPT !.at = "mint", !.hurried = TRUE]
  <2>1. call' = [call EXCEPT ![c] = w] /\ call[c].at \in Known
    BY <1>14 DEF Hurry, CallTypes, Known
  <2>2. w \in CallState /\ w.at = "mint" /\ w.by \in People
    BY <2>1 DEF CallTypes, CallState, Phases, Known
  <2>. HIDE DEF w
  <2>. QED
    BY <2>1, <2>2, BeginTypes
<1>. QED
  BY <1>1, <1>2, <1>3, <1>4, <1>5, <1>6, <1>7, <1>8, <1>9, <1>10, <1>11, <1>12, <1>13, <1>14
     DEF CallNext, CallFails

\* A code is of a call that is about to answer, an access token too; who has
\* answered does not move.
LEMMA CallStepOwners ==
  ASSUME Types, NEW c \in Calls, CallNext(c)
  PROVE  OwnerTypes'
PROOF
<1>. USE DEF Types, storeVars
<1>1. \A d \in Calls \ {c} : call'[d] = call[d]
  BY OneMoves
<1>2. call[c].at # "answered"
  BY DEF CallNext, AskToken, Complete, Exchange, Check, Members, MembersFail, TakeRequest, Rights,
         TakeCode, Issue, GetAccount, CreateAccount, Lock, Hurry, Mint, CallFails, Goes
<1>3. code[c] = Off /\ access[c] = Off
  BY <1>2 DEF OwnerTypes
<1>4. CASE Rights(c)
  BY <1>1, <1>3, <1>4 DEF Rights, CallTypes, CallState, Known, OwnerTypes, StoreTypes, Off
<1>5. CASE Issue(c)
  BY <1>1, <1>3, <1>5 DEF Issue, Goes, CallTypes, CallState, OwnerTypes, StoreTypes, Off
<1>6. CASE TakeCode(c)
  BY <1>1, <1>3, <1>6 DEF TakeCode, CallTypes, OwnerTypes, StoreTypes
<1>7. CASE UNCHANGED <<code, access>>
  BY <1>1, <1>3, <1>7 DEF OwnerTypes
<1>. QED
  BY <1>4, <1>5, <1>6, <1>7
     DEF CallNext, AskToken, Complete, Exchange, Check, Members, MembersFail, TakeRequest,
         GetAccount, CreateAccount, Lock, Hurry, Mint, CallFails

\* What a call's step leaves alone.
LEMMA CallStepLeaves ==
  ASSUME NEW c \in Calls, CallNext(c)
  PROVE  /\ UNCHANGED orgVars
         /\ TakeRequest(c) \/ Rights(c) \/ TakeCode(c) \/ Issue(c) \/ UNCHANGED storeVars
         /\ CreateAccount(c) \/ Lock(c) \/ Hurry(c) \/ UNCHANGED giteaVars
         /\ Rights(c) \/ Issue(c) \/ UNCHANGED historyVars
         /\ Event \/ UNCHANGED events
PROOF
<1>. USE DEF orgVars, storeVars, giteaVars, historyVars
<1>1. CASE \/ \E b \in Bearers : AskToken(c, b) \/ \E rid \in Rids : Complete(c, rid, b)
           \/ \E from \in Calls : Exchange(c, from)
  BY <1>1 DEF AskToken, Complete, Exchange
<1>2. CASE Check(c) \/ Members(c) \/ MembersFail(c) \/ CallFails(c)
  BY <1>2 DEF Check, Members, MembersFail, CallFails
<1>3. CASE TakeRequest(c) \/ Rights(c) \/ TakeCode(c) \/ Issue(c)
  BY <1>3 DEF TakeRequest, Rights, TakeCode, Issue
<1>4. CASE GetAccount(c) \/ CreateAccount(c) \/ Lock(c) \/ Hurry(c) \/ Mint(c)
  BY <1>4 DEF GetAccount, CreateAccount, Lock, Hurry, Mint
<1>. QED
  BY <1>1, <1>2, <1>3, <1>4 DEF CallNext

LEMMA NextTypes ==
  ASSUME Types, [Next]_vars
  PROVE  Types'
PROOF
<1>. USE IdleTypes DEF Types, orgVars, storeVars, giteaVars, historyVars
<1>1. ASSUME NEW c \in Calls, CallNext(c) PROVE Types'
  <2>1. OrgTypes' /\ StoreTypes'
    <3>1. CASE TakeRequest(c) \/ Rights(c) \/ TakeCode(c) \/ Issue(c)
      BY <3>1 DEF TakeRequest, Rights, TakeCode, Issue, OrgTypes, StoreTypes, Off
    <3>. QED
      BY <1>1, <3>1, CallStepLeaves DEF OrgTypes, StoreTypes
  <2>2. GiteaTypes'
    <3>1. CASE CreateAccount(c)
      BY <3>1 DEF CreateAccount, CallTypes, Known, GiteaTypes
    <3>2. CASE Lock(c) \/ Hurry(c)
      BY <3>2 DEF Lock, Hurry, NoPass, GiteaTypes
    <3>. QED
      BY <1>1, <3>1, <3>2, CallStepLeaves DEF GiteaTypes
  <2>3. OtherTypes'
    <3>1. CASE Rights(c) \/ Issue(c)
      BY <3>1 DEF Rights, Issue, OtherTypes
    <3>. QED
      BY <1>1, <3>1, CallStepLeaves DEF Event, OtherTypes
  <2>. QED
    BY <1>1, <2>1, <2>2, <2>3, CallStepTypes, CallStepOwners
<1>2. CASE (\E rid \in Rids : Authorize(rid)) \/ LoopPass \/ \E p \in People : Leave(p)
  BY <1>2 DEF Authorize, LoopPass, Leave, Event, CallTypes, OwnerTypes, OrgTypes, StoreTypes,
              GiteaTypes, OtherTypes, Long, Off
<1>3. CASE EndPass
  <2>1. CallTypes'
    BY <1>3 DEF EndPass, CallTypes, CallState, Phases, Known
  <2>2. OwnerTypes'
    BY <1>3 DEF EndPass, CallTypes, OwnerTypes
  <2>. QED
    BY <1>3, <2>1, <2>2 DEF EndPass, NoPass, OrgTypes, StoreTypes, GiteaTypes, OtherTypes
<1>4. CASE Tick
  <2>1. OrgTypes'
    BY <1>4 DEF Tick, OrgTypes, Long
  <2>2. StoreTypes' /\ OwnerTypes'
    BY <1>4 DEF Tick, StoreTypes, OwnerTypes, AgeStore, Swept, Off
  <2>. QED
    BY <1>4, <2>1, <2>2 DEF Tick, CallTypes, GiteaTypes, OtherTypes
<1>5. CASE Restart
  <2>. DEFINE w == [Idle EXCEPT !.at = "failed"]
  <2>1. w \in CallState /\ w.at = "failed"
    BY DEF Idle, CallState, Phases
  <2>2. \A c \in Calls : call'[c] \in {w, call[c]}
    BY <1>5 DEF Restart
  <2>. HIDE DEF w
  <2>3. call' \in [Calls -> CallState]
    BY <1>5, <2>1, <2>2 DEF Restart, CallTypes
  <2>4. CallTypes'
    BY <2>1, <2>2, <2>3 DEF CallTypes, Known
  <2>. QED
    BY <1>5, <2>4 DEF Restart, Event, NoPass, OwnerTypes, OrgTypes, StoreTypes, GiteaTypes, OtherTypes
<1>6. CASE UNCHANGED vars
  BY <1>6 DEF vars, CallTypes, OwnerTypes, OrgTypes, StoreTypes, GiteaTypes, OtherTypes
<1>. QED
  BY <1>1, <1>2, <1>3, <1>4, <1>5, <1>6 DEF Next, CallNext

LEMMA InitTypes == Init => Types
PROOF
  BY IdleTypes
     DEF Init, Types, OrgTypes, StoreTypes, CallTypes, OwnerTypes, GiteaTypes, OtherTypes, Idle,
         Known, NoPass, Off, Long

\* Every reachable state is typed; a code or an access token is of a call that
\* has answered.
THEOREM SignInTypes == Spec => []TypeOK
PROOF
<1>1. Types => TypeOK
  BY DEF Types, TypeOK, OrgTypes, StoreTypes, CallTypes, GiteaTypes, OtherTypes, CallState
<1>. QED
  BY <1>1, InitTypes, NextTypes, PTL DEF Spec

-----------------------------------------------------------------------------
(* One code and one id_token of a request.                                 *)

\* A call that takes no request, makes no code and goes nowhere near an exchange
\* leaves everybody's claims as they are.
LEMMA ClaimsLast ==
  ASSUME Types, RequestOnce, CodeOnce, UNCHANGED historyVars,
         \A r \in Rids : request'[r] # Off => request[r] # Off,
         \A c \in Calls : /\ code'[c] = Off \/ (code[c] # Off /\ call'[c] = call[c])
                          /\ call'[c].at = "rights" => call'[c].rid = NoOne \/ call'[c] = call[c]
                          /\ call'[c].at = "sign" => call'[c] = call[c]
  PROVE  RequestOnce' /\ CodeOnce'
PROOF
<1>. USE DEF historyVars
<1>1. RequestOnce'
  BY DEF RequestOnce, Types, CallTypes, CallState
<1>2. CodeOnce'
  BY DEF CodeOnce, Types, OwnerTypes
<1>. QED
  BY <1>1, <1>2

LEMMA CallStepOnce ==
  ASSUME Types, RequestOnce, CodeOnce, NEW c \in Calls, CallNext(c)
  PROVE  RequestOnce' /\ CodeOnce'
PROOF
<1>. USE DEF storeVars, historyVars
<1>1. /\ \A d \in Calls \ {c} : call'[d] = call[d]
      /\ call' \in [Calls -> CallState] /\ call \in [Calls -> CallState]
      /\ code[c] = Off
  <2>1. call[c].at # "answered"
    BY DEF CallNext, AskToken, Complete, Exchange, Check, Members, MembersFail, TakeRequest,
           Rights, TakeCode, Issue, GetAccount, CreateAccount, Lock, Hurry, Mint, CallFails, Goes
  <2>. QED
    BY <2>1, OneMoves, CallStepTypes DEF Types, CallTypes, OwnerTypes
<1>2. CASE TakeRequest(c) /\ request[call[c].rid] # Off
  <2>1. call[c].rid \in Rids /\ call'[c] = [call[c] EXCEPT !.at = "rights"]
    BY <1>2 DEF TakeRequest, Types, CallTypes
  <2>2. RequestOnce'
    BY <1>1, <1>2, <2>1 DEF RequestOnce, TakeRequest, Types, StoreTypes, CallState
  <2>3. CodeOnce'
    BY <1>1, <1>2, <2>1 DEF CodeOnce, TakeRequest, CallState
  <2>. QED
    BY <2>2, <2>3
<1>3. CASE Rights(c) /\ call[c].rid # NoOne
  <2>. DEFINE r == call[c].rid
  <2>1. r \in Rids /\ call'[c] = [call[c] EXCEPT !.at = "answered"]
    BY <1>1, <1>3 DEF Rights, CallState
  <2>2. codes[r] = 0 /\ codes' = [codes EXCEPT ![r] = 1] /\ issued' = issued /\ request[r] = Off
    BY <1>3, <2>1 DEF RequestOnce, Rights
  <2>3. RequestOnce'
    BY <1>1, <1>3, <2>1, <2>2 DEF RequestOnce, Rights, Types, OtherTypes, CallState
  <2>4. issued[r] = 0
    BY <2>1, <2>2 DEF CodeOnce, Types, OtherTypes
  <2>5. \A d \in Calls : code[d] # Off \/ call[d].at = "sign" => call[d].rid # r
    BY <2>2 DEF CodeOnce
  <2>6. CodeOnce'
    BY <1>1, <1>3, <2>1, <2>2, <2>4, <2>5 DEF CodeOnce, Rights, Types, OtherTypes, StoreTypes, CallState
  <2>. QED
    BY <2>3, <2>6
<1>4. CASE TakeCode(c) /\ code[call[c].from] # Off
  <2>. DEFINE from == call[c].from
              r == call[from].rid
  <2>1. from \in Calls /\ r \in Rids /\ from # c /\ call'[c].at = "sign" /\ call'[c].rid = r
    BY <1>1, <1>4 DEF TakeCode, Types, CallTypes, OwnerTypes, CallState
  <2>2. /\ code' = [code EXCEPT ![from] = Off]
        /\ UNCHANGED <<request, codes, issued>> /\ call[c].at = "exchange"
    BY <1>4 DEF TakeCode
  <2>3. RequestOnce'
    BY <1>1, <2>1, <2>2 DEF RequestOnce
  <2>4. /\ codes[r] = 1 /\ issued[r] = 0
        /\ \A d \in Calls \ {from} : code[d] # Off => call[d].rid # r
        /\ \A d \in Calls : call[d].at = "sign" => call[d].rid # r
    BY <1>4, <2>1 DEF CodeOnce
  <2>5. CodeOnce'
    BY <1>1, <2>1, <2>2, <2>4 DEF CodeOnce, Types, StoreTypes
  <2>. QED
    BY <2>3, <2>5
<1>5. CASE Issue(c)
  <2>. DEFINE r == call[c].rid
  <2>1. r \in Rids /\ call[c].at = "sign" /\ call'[c] = [call[c] EXCEPT !.at = "answered"]
    BY <1>5 DEF Issue, Goes, Types, CallTypes
  <2>2. codes[r] = 1 /\ issued[r] = 0
    BY <2>1 DEF CodeOnce
  <2>6. issued' = [issued EXCEPT ![r] = 1] /\ UNCHANGED <<request, code, codes>>
    BY <1>5, <2>1, <2>2 DEF Issue
  <2>3. RequestOnce'
    BY <1>1, <2>1, <2>2, <2>6 DEF RequestOnce, CallState
  <2>4. CodeOnce'
    BY <1>1, <2>1, <2>2, <2>6 DEF CodeOnce, CallState, Types, OtherTypes
  <2>. QED
    BY <2>3, <2>4
<1>6. CASE \/ TakeRequest(c) /\ request[call[c].rid] = Off
           \/ Rights(c) /\ call[c].rid = NoOne
           \/ TakeCode(c) /\ code[call[c].from] = Off
           \/ /\ UNCHANGED <<storeVars, historyVars>>
              /\ ~TakeRequest(c) /\ ~Rights(c) /\ ~TakeCode(c) /\ ~Issue(c)
  <2>1. call'[c].at # "sign" /\ (call'[c].at = "rights" => call'[c].rid = NoOne)
    <3>1. CASE Answers(c, "refused") \/ Answers(c, "failed")
      BY <1>1, <3>1 DEF Answers, Idle
    <3>2. CASE \/ \E b \in Bearers : AskToken(c, b) \/ \E rid \in Rids : Complete(c, rid, b)
               \/ \E from \in Calls : Exchange(c, from)
      <4>1. CASE \E b \in Bearers : AskToken(c, b)
        BY <1>1, <4>1 DEF AskToken, Idle
      <4>2. CASE \E b \in Bearers, rid \in Rids : Complete(c, rid, b)
        BY <1>1, <4>2 DEF Complete, Idle
      <4>3. CASE \E from \in Calls : Exchange(c, from)
        BY <1>1, <4>3 DEF Exchange, Idle
      <4>. QED
        BY <3>2, <4>1, <4>2, <4>3
    <3>3. CASE (Check(c) \/ Members(c) \/ MembersFail(c))
               /\ ~Answers(c, "refused") /\ ~Answers(c, "failed")
      BY <1>1, <3>3 DEF Check, Members, MembersFail, CallState
    <3>4. CASE \/ GetAccount(c) \/ Lock(c) \/ Hurry(c) \/ Mint(c)
               \/ CreateAccount(c) /\ ~Answers(c, "refused")
      BY <1>1, <3>4 DEF GetAccount, CreateAccount, Lock, Hurry, Mint, Goes, CallState
    <3>5. CASE Rights(c) /\ call[c].rid = NoOne
      BY <1>1, <3>5 DEF Rights, CallState
    <3>. QED
      BY <1>6, <3>1, <3>2, <3>3, <3>4, <3>5 DEF CallNext, TakeRequest, TakeCode, CallFails
  <2>2. UNCHANGED <<storeVars, historyVars>>
    BY <1>6 DEF TakeRequest, Rights, TakeCode
  <2>. QED
    BY <1>1, <2>1, <2>2, ClaimsLast
<1>. QED
  <2>1. CASE TakeRequest(c) \/ Rights(c) \/ TakeCode(c) \/ Issue(c)
    <3>1. CASE TakeRequest(c)
      BY <1>2, <1>6, <3>1
    <3>2. CASE Rights(c)
      BY <1>3, <1>6, <3>2
    <3>3. CASE TakeCode(c)
      BY <1>4, <1>6, <3>3
    <3>. QED
      BY <1>5, <2>1, <3>1, <3>2, <3>3
  <2>2. CASE ~(TakeRequest(c) \/ Rights(c) \/ TakeCode(c) \/ Issue(c))
    <3>1. UNCHANGED <<storeVars, historyVars>>
      BY <2>2, CallStepLeaves
    <3>. QED
      BY <1>6, <2>2, <3>1
  <2>. QED
    BY <2>1, <2>2

LEMMA NextOnce ==
  ASSUME Types, RequestOnce, CodeOnce, [Next]_vars
  PROVE  RequestOnce' /\ CodeOnce'
PROOF
<1>. USE DEF storeVars, historyVars
<1>1. ASSUME NEW c \in Calls, CallNext(c) PROVE RequestOnce' /\ CodeOnce'
  BY <1>1, CallStepOnce
<1>2. ASSUME NEW r \in Rids, Authorize(r) PROVE RequestOnce' /\ CodeOnce'
  BY <1>2 DEF Authorize, RequestOnce, CodeOnce, Types, StoreTypes
<1>3. CASE LoopPass \/ (\E p \in People : Leave(p)) \/ UNCHANGED vars
  BY <1>3, ClaimsLast DEF LoopPass, Leave, vars
<1>4. CASE EndPass
  <2>1. \A c \in Calls : call'[c] = call[c] \/ (call'[c].at = "mint" /\ call[c].at \in {"pass", "joined"})
    BY <1>4 DEF EndPass, Types, CallTypes, CallState
  <2>. QED
    BY <1>4, <2>1, ClaimsLast DEF EndPass, Types, OwnerTypes
<1>5. CASE Tick
  BY <1>5, ClaimsLast DEF Tick, AgeStore, Swept
<1>6. CASE Restart
  BY <1>6, ClaimsLast DEF Restart, Idle
<1>. QED
  BY <1>1, <1>2, <1>3, <1>4, <1>5, <1>6 DEF Next, CallNext

\* One request of Gitea yields one code and one id_token at most, for any number
\* of completions and exchanges beside each other, failures and restarts
\* (takeRequest, takeCode).
THEOREM OneSignInEach == Spec => []OneSignIn
PROOF
<1>1. Init => RequestOnce /\ CodeOnce
  BY DEF Init, RequestOnce, CodeOnce, Idle
<1>2. Types /\ RequestOnce /\ CodeOnce => OneSignIn
  BY DEF Types, OtherTypes, RequestOnce, CodeOnce, OneSignIn
<1>. QED
  BY <1>1, <1>2, InitTypes, NextTypes, NextOnce, PTL DEF Spec

-----------------------------------------------------------------------------
(* Nothing of somebody who left long ago.                                  *)

\* A step that makes no code and no access token, moves nobody but those that it
\* leaves with what they knew, and lets no unit pass.
LEMMA KnowledgeLasts ==
  ASSUME Types, Seen, NotLongGone, UNCHANGED orgVars,
         \A c \in Calls : /\ code'[c] # Off => code'[c] = code[c]
                          /\ access'[c] # Off => access'[c] = access[c]
                          /\ code'[c] # Off \/ access'[c] # Off => call'[c] = call[c]
                          /\ call'[c].at \in Known => GoneFor(call'[c].by, 0)
                          /\ call'[c].at = "sign" => GoneFor(call'[c].by, CodeTTL)
  PROVE  Seen' /\ NotLongGone'
PROOF
  BY DEF orgVars, Seen, NotLongGone, GoneFor

LEMMA CallStepSeen ==
  ASSUME Types, Seen, NotLongGone, NEW c \in Calls, CallNext(c)
  PROVE  Seen' /\ NotLongGone'
PROOF
<1>. USE DEF storeVars, orgVars
<1>1. /\ \A d \in Calls \ {c} : call'[d] = call[d]
      /\ call' \in [Calls -> CallState] /\ call \in [Calls -> CallState]
      /\ code[c] = Off /\ access[c] = Off
      /\ UNCHANGED orgVars
  <2>1. call[c].at # "answered"
    BY DEF CallNext, AskToken, Complete, Exchange, Check, Members, MembersFail, TakeRequest,
           Rights, TakeCode, Issue, GetAccount, CreateAccount, Lock, Hurry, Mint, CallFails, Goes
  <2>. QED
    BY <2>1, OneMoves, CallStepTypes, CallStepLeaves DEF Types, CallTypes, OwnerTypes
<1>2. CASE Rights(c) /\ call[c].rid # NoOne
  <2>1. /\ call'[c] = [call[c] EXCEPT !.at = "answered"]
        /\ code' = [code EXCEPT ![c] = CodeTTL] /\ access' = access
    BY <1>1, <1>2 DEF Rights
  <2>2. GoneFor(call[c].by, 0)
    BY <1>2 DEF Rights, Seen, Known
  <2>3. Seen'
    BY <1>1, <2>1 DEF Seen, GoneFor, CallState, Known
  <2>4. NotLongGone'
    BY <1>1, <2>1, <2>2 DEF NotLongGone, GoneFor, CallState, Types, OrgTypes, StoreTypes
  <2>. QED
    BY <2>3, <2>4
<1>3. CASE Issue(c)
  <2>1. /\ call'[c] = [call[c] EXCEPT !.at = "answered"] /\ call[c].at = "sign"
        /\ access' = [access EXCEPT ![c] = AccessTTL] /\ code' = code
    BY <1>1, <1>3 DEF Issue, Goes
  <2>2. GoneFor(call[c].by, CodeTTL)
    BY <2>1 DEF Seen
  <2>3. Seen'
    BY <1>1, <2>1 DEF Seen, GoneFor, CallState, Known
  <2>4. NotLongGone'
    BY <1>1, <2>1, <2>2 DEF NotLongGone, GoneFor, CallState, Types, OrgTypes, StoreTypes
  <2>. QED
    BY <2>3, <2>4
<1>4. CASE TakeCode(c) /\ code[call[c].from] # Off
  <2>. DEFINE from == call[c].from
  <2>1. from \in Calls /\ call'[c].at = "sign" /\ call'[c].by = call[from].by
        /\ code' = [code EXCEPT ![from] = Off] /\ access' = access
    BY <1>1, <1>4 DEF TakeCode, Types, CallTypes, CallState
  <2>2. GoneFor(call[from].by, CodeTTL)
    BY <1>4, <2>1 DEF NotLongGone, GoneFor, Types, OrgTypes, StoreTypes, OwnerTypes
  <2>3. \A d \in Calls : /\ code'[d] # Off => code'[d] = code[d] /\ d # c
                         /\ access'[d] # Off => access'[d] = access[d] /\ d # c
    BY <1>1, <2>1 DEF Types, StoreTypes
  <2>. QED
    BY <1>1, <2>1, <2>2, <2>3, KnowledgeLasts DEF Seen, Known
<1>5. ASSUME UNCHANGED <<code, access>>,
             /\ call'[c].at \in Known => GoneFor(call'[c].by, 0)
             /\ call'[c].at # "sign"
      PROVE  Seen' /\ NotLongGone'
  BY <1>1, <1>5, KnowledgeLasts DEF Seen
<1>6. CASE Answers(c, "refused") \/ Answers(c, "failed")
  <2>1. call'[c].at \notin Known /\ call'[c].at # "sign"
    BY <1>1, <1>6 DEF Answers, Idle, Known
  <2>2. UNCHANGED <<code, access>>
    <3>1. CASE TakeRequest(c) \/ Rights(c) \/ TakeCode(c) \/ Issue(c)
      BY <1>1, <1>6, <3>1 DEF TakeRequest, Rights, TakeCode, Issue, Goes, Answers, Idle, CallState
    <3>. QED
      BY <3>1, CallStepLeaves
  <2>. QED
    BY <1>5, <2>1, <2>2
<1>7. CASE \/ \E b \in Bearers : AskToken(c, b) \/ \E rid \in Rids : Complete(c, rid, b)
           \/ \E from \in Calls : Exchange(c, from)
  <2>1. CASE \E b \in Bearers : AskToken(c, b)
    BY <1>1, <1>5, <2>1 DEF AskToken, Idle, Known
  <2>2. CASE \E b \in Bearers, rid \in Rids : Complete(c, rid, b)
    BY <1>1, <1>5, <2>2 DEF Complete, Idle, Known
  <2>3. CASE \E from \in Calls : Exchange(c, from)
    BY <1>1, <1>5, <2>3 DEF Exchange, Idle, Known
  <2>. QED
    BY <1>7, <2>1, <2>2, <2>3
<1>8. CASE (Check(c) \/ MembersFail(c)) /\ ~Answers(c, "refused") /\ ~Answers(c, "failed")
  BY <1>1, <1>5, <1>8 DEF Check, MembersFail, CallState, Known
<1>9. CASE Members(c) /\ ~Answers(c, "refused")
  BY <1>1, <1>5, <1>9 DEF Members, GoneFor, CallState, Known
<1>10. CASE \/ GetAccount(c) \/ Lock(c) \/ Hurry(c) \/ Mint(c)
            \/ CreateAccount(c) /\ ~Answers(c, "refused")
            \/ Rights(c) /\ call[c].rid = NoOne
            \/ TakeRequest(c) /\ ~Answers(c, "refused")
  <2>1. GoneFor(call[c].by, 0)
    BY <1>10 DEF GetAccount, CreateAccount, Lock, Hurry, Mint, Goes, Rights, TakeRequest, Seen, Known
  <2>2. call'[c].by = call[c].by /\ call'[c].at # "sign" /\ UNCHANGED <<code, access>>
    BY <1>1, <1>10 DEF GetAccount, CreateAccount, Lock, Hurry, Mint, Goes, Rights, TakeRequest, CallState
  <2>. QED
    BY <1>5, <2>1, <2>2
<1>. QED
  <2>1. CASE \/ CallFails(c) \/ Members(c) \/ TakeRequest(c) \/ CreateAccount(c)
             \/ Check(c) \/ MembersFail(c)
    BY <1>6, <1>8, <1>9, <1>10, <2>1 DEF CallFails
  <2>2. CASE TakeCode(c)
    BY <1>4, <1>6, <2>2 DEF TakeCode
  <2>3. CASE Rights(c)
    BY <1>2, <1>10, <2>3
  <2>. QED
    BY <1>3, <1>7, <1>10, <2>1, <2>2, <2>3 DEF CallNext

LEMMA NextSeen ==
  ASSUME Types, Seen, NotLongGone, [Next]_vars
  PROVE  Seen' /\ NotLongGone'
PROOF
<1>. USE DEF storeVars, orgVars
<1>1. ASSUME NEW c \in Calls, CallNext(c) PROVE Seen' /\ NotLongGone'
  BY <1>1, CallStepSeen
<1>2. CASE (\E r \in Rids : Authorize(r)) \/ LoopPass \/ UNCHANGED vars
  BY <1>2, KnowledgeLasts DEF Authorize, LoopPass, vars, Seen
<1>3. CASE EndPass
  <2>1. \A c \in Calls :
          call'[c] = call[c] \/ (call'[c] = [call[c] EXCEPT !.at = "mint"] /\ call[c].at \in {"pass", "joined"})
    BY <1>3 DEF EndPass
  <2>2. \A c \in Calls : call'[c] # call[c]
          => /\ call'[c].at = "mint" /\ call'[c].by = call[c].by /\ GoneFor(call[c].by, 0)
             /\ code[c] = Off /\ access[c] = Off
    BY <2>1 DEF Types, CallTypes, OwnerTypes, CallState, Phases, Seen, Known
  <2>. QED
    BY <1>3, <2>2, KnowledgeLasts DEF EndPass, Seen, Known
<1>4. CASE Tick
  <2>1. Seen'
    BY <1>4 DEF Tick, Seen, UnderWay, Known
  <2>2. ASSUME NEW p \in People PROVE left'[p] <= left[p] + 1 /\ member' = member
    BY <1>4, <2>2 DEF Tick, Types, OrgTypes
  <2>3. ASSUME NEW c \in Calls
        PROVE  /\ code'[c] # Off => code[c] # Off /\ code'[c] = code[c] - 1
               /\ access'[c] # Off => access[c] # Off /\ access'[c] = access[c] - 1
    BY <1>4, <2>3 DEF Tick, AgeStore, Swept
  <2>4. \A c \in Calls : code[c] # Off \/ access[c] # Off => call[c].by \in People
    BY DEF Types, OwnerTypes
  <2>5. left \in [People -> Int] /\ left' \in [People -> Int]
        /\ code \in [Calls -> Int] /\ access \in [Calls -> Int]
    BY <1>4 DEF Tick, Types, OrgTypes, StoreTypes, Long, Off
  <2>6. call' = call
    BY <1>4 DEF Tick
  <2>7. ASSUME NEW c \in Calls, code'[c] # Off
        PROVE  left'[call[c].by] <= CodeTTL - code'[c] \/ call[c].by \in member
    BY <2>2, <2>3, <2>4, <2>5, <2>7 DEF NotLongGone
  <2>8. ASSUME NEW c \in Calls, access'[c] # Off
        PROVE  left'[call[c].by] <= CodeTTL + AccessTTL - access'[c] \/ call[c].by \in member
    BY <2>2, <2>3, <2>4, <2>5, <2>8 DEF NotLongGone
  <2>9. member' = member
    BY <1>4 DEF Tick
  <2>. QED
    BY <2>1, <2>6, <2>7, <2>8, <2>9 DEF NotLongGone
<1>5. CASE Restart
  <2>1. \A c \in Calls : code'[c] = Off /\ access'[c] = Off
    BY <1>5 DEF Restart
  <2>2. \A c \in Calls : call'[c].at \notin Known /\ call'[c].at # "sign"
    BY <1>5 DEF Restart, UnderWay, Idle, Known
  <2>. QED
    BY <2>1, <2>2 DEF Seen, NotLongGone
<1>6. ASSUME NEW p \in People, Leave(p) PROVE Seen' /\ NotLongGone'
  <2>1. member' = member \ {p} /\ left' = [left EXCEPT ![p] = 0] /\ UNCHANGED <<code, access, call>>
    BY <1>6 DEF Leave
  <2>2. \A q \in People, n \in Nat : GoneFor(q, n) => GoneFor(q, n)'
    BY <2>1 DEF GoneFor, Types, OrgTypes
  <2>3. Seen'
    BY <2>1, <2>2 DEF Seen, Types, CallTypes
  <2>4. ASSUME NEW c \in Calls
        PROVE  /\ code[c] # Off => GoneFor(call[c].by, CodeTTL - code[c]) /\ CodeTTL - code[c] \in Nat
               /\ access[c] # Off => /\ GoneFor(call[c].by, CodeTTL + AccessTTL - access[c])
                                     /\ CodeTTL + AccessTTL - access[c] \in Nat
    BY DEF NotLongGone, GoneFor, Types, StoreTypes
  <2>5. NotLongGone'
    BY <2>1, <2>2, <2>4 DEF NotLongGone, GoneFor, Types, OwnerTypes
  <2>. QED
    BY <2>3, <2>5
<1>. QED
  BY <1>1, <1>2, <1>3, <1>4, <1>5, <1>6 DEF Next, CallNext

\* Of somebody who left more than CodeTTL ago no code is left, and more than
\* AccessTTL before that no access token, whatever calls were under way when they
\* left, for any lengths of life (Check, sweep).
THEOREM GoneIsForgotten == Spec => []NotLongGone
PROOF
<1>1. Init => Seen /\ NotLongGone
  BY DEF Init, Seen, NotLongGone, Idle, Known
<1>. QED
  BY <1>1, InitTypes, NextTypes, NextSeen, PTL DEF Spec

-----------------------------------------------------------------------------
(* A first sign-in is placed.                                              *)

\* What Placing says of one call.
Placed(c) ==
  /\ call[c].at = "pass" => pass.by = c
  /\ call[c].created => call[c].at \in {"lock", "pass", "mint", "answered"}
  /\ call[c].created /\ call[c].at \in {"lock", "pass"} => call[c].by \in account
  /\ call[c].created /\ call[c].at = "pass" => call[c].by \in pass.read
  /\ call[c].created /\ ~call[c].hurried /\ call[c].at \in {"mint", "answered"} => call[c].by \in placed

LEMMA CallStepPlaced ==
  ASSUME Types, Placing, NEW c \in Calls, CallNext(c)
  PROVE  Placing'
PROOF
<1>. USE DEF giteaVars
<1>1. /\ \A d \in Calls \ {c} : call'[d] = call[d]
      /\ call \in [Calls -> CallState] /\ \A d \in Calls : Placed(d)
  BY OneMoves DEF Types, CallTypes, Placing, Placed
<1>2. SUFFICES /\ \A d \in Calls \ {c} : Placed(d)'
               /\ Placed(c)'
  BY DEF Placing, Placed
<1>3. CASE CreateAccount(c) /\ ~Answers(c, "refused")
  BY <1>1, <1>3 DEF CreateAccount, Placed, CallState
<1>4. CASE Lock(c)
  <2>1. call'[c] = [call[c] EXCEPT !.at = "pass"] /\ call[c].at = "lock"
        /\ pass.by = NoOne /\ pass' = [by |-> c, read |-> account] /\ UNCHANGED <<account, placed>>
    BY <1>1, <1>4 DEF Lock, Goes
  <2>2. Placed(c)'
    BY <1>1, <2>1 DEF Placed, CallState
  <2>3. \A d \in Calls \ {c} : Placed(d)'
    BY <1>1, <2>1 DEF Placed
  <2>. QED
    BY <2>2, <2>3
<1>5. CASE Hurry(c)
  <2>1. call'[c] = [call[c] EXCEPT !.at = "mint", !.hurried = TRUE]
        /\ UNCHANGED <<account, placed>> /\ call[c].at \in {"pass", "lock"}
    BY <1>1, <1>5 DEF Hurry
  <2>2. Placed(c)'
    BY <1>1, <2>1 DEF Placed, CallState
  <2>3. \A d \in Calls \ {c} : call[d].at = "pass" => pass' = pass
    BY <1>1, <1>5 DEF Hurry, Placed
  <2>4. \A d \in Calls \ {c} : Placed(d)'
    BY <1>1, <2>1, <2>3 DEF Placed
  <2>. QED
    BY <2>2, <2>4
<1>6. CASE UNCHANGED giteaVars
  <2>1. \A d \in Calls \ {c} : Placed(d)'
    BY <1>1, <1>6 DEF Placed
  <2>2. Placed(c)'
    <3>1. CASE \/ \E b \in Bearers : AskToken(c, b) \/ \E rid \in Rids : Complete(c, rid, b)
               \/ \E from \in Calls : Exchange(c, from)
      <4>1. CASE \E b \in Bearers : AskToken(c, b)
        BY <1>1, <4>1 DEF AskToken, Idle, Placed
      <4>2. CASE \E b \in Bearers, rid \in Rids : Complete(c, rid, b)
        BY <1>1, <4>2 DEF Complete, Idle, Placed
      <4>3. CASE \E from \in Calls : Exchange(c, from)
        BY <1>1, <4>3 DEF Exchange, Idle, Placed
      <4>. QED
        BY <3>1, <4>1, <4>2, <4>3
    <3>2. CASE Answers(c, "refused") \/ Answers(c, "failed")
      BY <1>1, <3>2 DEF Answers, Idle, Placed
    <3>3. CASE (Check(c) \/ Members(c) \/ MembersFail(c))
               /\ ~Answers(c, "refused") /\ ~Answers(c, "failed")
      BY <1>1, <3>3 DEF Check, Members, MembersFail, Placed, CallState
    <3>4. CASE TakeRequest(c) /\ ~Answers(c, "refused")
      BY <1>1, <3>4 DEF TakeRequest, Placed, CallState
    <3>5. CASE Rights(c)
      BY <1>1, <3>5 DEF Rights, Placed, CallState
    <3>6. CASE TakeCode(c) /\ ~Answers(c, "refused")
      BY <1>1, <3>6 DEF TakeCode, Placed, CallState
    <3>7. CASE Issue(c) \/ GetAccount(c)
      BY <1>1, <3>7 DEF Issue, Goes, GetAccount, Placed, CallState
    <3>8. CASE Mint(c)
      BY <1>1, <1>6, <3>8 DEF Mint, Goes, Placed, CallState
    <3>. QED
      BY <1>3, <1>4, <1>5, <3>1, <3>2, <3>3, <3>4, <3>5, <3>6, <3>7, <3>8 DEF CallNext, CallFails
  <2>. QED
    BY <2>1, <2>2
<1>7. CASE CreateAccount(c) /\ Answers(c, "refused")
  <2>1. CASE call[c].by \in account
    BY <1>6, <1>7, <2>1 DEF CreateAccount
  <2>2. CASE call[c].by \notin account
    BY <1>1, <1>3, <1>7, <2>2 DEF CreateAccount, Answers, Idle, CallState
  <2>. QED
    BY <2>1, <2>2
<1>. QED
  BY <1>3, <1>4, <1>5, <1>6, <1>7, CallStepLeaves

LEMMA NextPlaced ==
  ASSUME Types, Placing, [Next]_vars
  PROVE  Placing'
PROOF
<1>. USE DEF giteaVars
<1>1. ASSUME NEW c \in Calls, CallNext(c) PROVE Placing'
  BY <1>1, CallStepPlaced
<1>2. CASE (\E r \in Rids : Authorize(r)) \/ Tick \/ (\E p \in People : Leave(p)) \/ UNCHANGED vars
  BY <1>2 DEF Authorize, Tick, Leave, vars, Placing
<1>3. CASE LoopPass
  <2>1. \A c \in Calls : call[c].at # "pass"
    BY <1>3 DEF LoopPass, Placing
  <2>. QED
    BY <1>3, <2>1 DEF LoopPass, Placing
<1>4. CASE EndPass
  <2>1. \A c \in Calls :
          \/ call'[c] = call[c] /\ ~(c = pass.by /\ call[c].at = "pass")
          \/ call'[c] = [call[c] EXCEPT !.at = "mint"] /\ call[c].at = "pass" /\ c = pass.by
    BY <1>4 DEF EndPass, Types, CallTypes, CallState, Phases, Known
  <2>2. placed' = placed \union pass.read /\ account' = account /\ call \in [Calls -> CallState]
    BY <1>4 DEF EndPass, Types, CallTypes
  <2>3. \A c \in Calls : call[c].at = "pass" => pass.by = c
    BY DEF Placing
  <2>4. ASSUME NEW c \in Calls PROVE Placed(c)'
    <3>1. Placed(c)
      BY DEF Placing, Placed
    <3>2. CASE call'[c] = call[c] /\ ~(c = pass.by /\ call[c].at = "pass")
      BY <2>2, <2>3, <3>1, <3>2 DEF Placed
    <3>3. CASE call'[c] = [call[c] EXCEPT !.at = "mint"] /\ call[c].at = "pass" /\ c = pass.by
      BY <2>2, <3>1, <3>3 DEF Placed, CallState
    <3>. QED
      BY <2>1, <3>2, <3>3
  <2>. QED
    BY <2>4 DEF Placing, Placed
<1>5. CASE Restart
  <2>1. \A c \in Calls : \/ call'[c] = call[c] /\ call[c].at \notin {"pass", "lock"}
                         \/ call'[c].at = "failed" /\ ~call'[c].created
    BY <1>5 DEF Restart, UnderWay, Idle
  <2>2. UNCHANGED <<account, placed>>
    BY <1>5 DEF Restart
  <2>. QED
    BY <2>1, <2>2 DEF Placing
<1>. QED
  BY <1>1, <1>2, <1>3, <1>4, <1>5 DEF Next, CallNext

\* A call that made an account answers with a token only when the person is in
\* their teams, unless its pass failed or took too long, for any number of calls
\* beside each other (handlePersonToken, RunNow).
THEOREM PlacedBeforeToken == Spec => []PlacedFirst
PROOF
<1>1. Init => Placing
  BY DEF Init, Placing, Idle
<1>2. Placing => PlacedFirst
  BY DEF Placing, PlacedFirst
<1>. QED
  BY <1>1, <1>2, InitTypes, NextTypes, NextPlaced, PTL DEF Spec

=============================================================================
