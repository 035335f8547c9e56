--------------------------- MODULE MateAccessProofs ---------------------------
(***************************************************************************)
(* internal/mirror.  A Mate's access, for any number of generations and    *)
(* faults: the container never holds a deleted generation, and one that it *)
(* held before goes only after its successor's grace, both when no write   *)
(* lands after the grace; and generations do not pile up, whenever the     *)
(* writes land.  The rights loop, for any intervals, registries and Mates: *)
(* a nudged pass comes, a changed registry is found, and a chase ends.     *)
(***************************************************************************)
EXTENDS MateAccess, RightsLoop, FiniteSetTheorems, TLAPS

USE AccessAssumption DEF AccessAssumption

-----------------------------------------------------------------------------
(* The inductive invariant: the types, in parts, and what each phase of a   *)
(* pass knows.                                                              *)

TokenTypes == live \subseteq Gens /\ aged \subseteq live /\ covers \subseteq live

ContainerTypes ==
  /\ token \in 0..MaxGen
  /\ key \in Keys
  /\ plain \in [Plains -> Values]
  /\ pending \subseteq [gen : Gens, how : {"create", "update"}]
  /\ gone \in {"nothing", "token", "service"}
  /\ once \subseteq Gens /\ left \subseteq Gens

OtherTypes == pass \in PassState /\ refusing \in BOOLEAN /\ faults \in 0..MaxFaults

Types == TokenTypes /\ ContainerTypes /\ OtherTypes

Writing == {"write", "again", "remake", "rollback"}

\* What the phase says of the pass.
Phased ==
  /\ pass.at \in {"mint", "write", "again", "rollback"} => pass.mint
  /\ pass.at = "move" => ~pass.mint /\ pass.have = "cased"

\* No generation newer than one whose write may still land is past the grace.
PendingNew == \A w \in pending : w.gen \in live /\ \A h \in aged : h <= w.gen

\* What a delivery is about to write is the newest generation, or nothing's.
WritesNewest ==
  pass.at \in Writing => Newest(pass.value) \/ (pass.value = 0 /\ ~pass.mint)

\* What a delivery has minted is nowhere yet.
Unheld ==
  pass.at \in Writing /\ pass.mint =>
    pass.value # token /\ \A w \in pending : w.gen # pass.value

\* A token under another case is moved only if it is the newest.
CasedNewest ==
  ~pass.mint =>
    /\ pass.at \in {"plan", "deliver"} /\ key = "cased" => token = 0 \/ Newest(token)
    /\ pass.at \in {"url", "broker", "move"} /\ pass.have = "cased" =>
         pass.saw = 0 \/ Newest(pass.saw)

\* What a pass read is still held, or a write that landed since took its place.
SawHeld ==
  pass.at = "plan" => token \in {pass.saw, 0} \/ \A h \in aged : h <= token

\* What a pass will delete is not the newest, not held, and will not be.
Doomed ==
  /\ pass.todo \subseteq live
  /\ pass.at \notin {"idle", "plan"} => \A g \in pass.todo :
       /\ g # token
       /\ \A w \in pending : w.gen # g
       /\ pass.at \in Writing => g # pass.value
       /\ pass.at \in {"rollback", "delete"} \/ ~Newest(g)

AccessInv ==
  /\ Types /\ HeldIsLive
  /\ Phased /\ PendingNew /\ WritesNewest /\ Unheld /\ CasedNewest /\ SawHeld /\ Doomed

LEMMA AccessInvTypes == AccessInv => TypeOK
PROOF
  BY DEF AccessInv, Types, TokenTypes, ContainerTypes, OtherTypes, Doomed, TypeOK

-----------------------------------------------------------------------------
(* The initial states.                                                      *)

LEMMA AccessInit == Init => AccessInv
PROOF
<1>. SUFFICES ASSUME Init PROVE AccessInv
  OBVIOUS
<1>1. 1 \in Gens
  BY DEF Gens
<1>2. pass = Idle /\ pending = {} /\ aged = {} /\ left = {} /\ faults = 0
      /\ refusing = FALSE /\ gone = "nothing"
  BY DEF Init
<1>3. token \in 0..MaxGen /\ key \in Keys /\ once \subseteq Gens
      /\ live \subseteq Gens /\ covers \subseteq live /\ HeldIsLive
  BY <1>1 DEF Init, Keys, Gens, HeldIsLive
<1>4. plain \in [Plains -> Values]
  BY DEF Init, Values, Plains
<1>5. pass \in PassState
  BY <1>2 DEF PassState, Idle, Phases, Keys
<1>6. Types
  <2>1. TokenTypes
    BY <1>2, <1>3 DEF TokenTypes
  <2>2. ContainerTypes
    BY <1>2, <1>3, <1>4 DEF ContainerTypes
  <2>3. OtherTypes
    <3>1. faults \in 0..MaxFaults
      BY <1>2
    <3>2. refusing \in BOOLEAN
      BY <1>2
    <3>. QED
      BY <3>1, <3>2, <1>5 DEF OtherTypes
  <2>. QED
    BY <2>1, <2>2, <2>3 DEF Types
<1>7. pass.at = "idle" /\ pass.todo = {}
  BY <1>2 DEF Idle
<1>. QED
  BY <1>2, <1>3, <1>6, <1>7 DEF AccessInv, Phased, PendingNew, WritesNewest, Unheld,
     CasedNewest, SawHeld, Doomed, Writing

-----------------------------------------------------------------------------
(* Steps that change the pass alone.                                        *)

\* Where a step of a pass goes.
LEMMA GotoTypes ==
  ASSUME pass \in PassState, NEW p \in Phases, Goto(p)
  PROVE  pass' \in PassState /\ pass'.at = p /\ pass'.mint = pass.mint /\ pass'.saw = pass.saw
           /\ pass'.have = pass.have /\ pass'.value = pass.value /\ pass'.todo = pass.todo
PROOF
  BY DEF PassState, Goto

\* A pass that goes to its deletions knows that none of them is held.
LEMMA DeliveredKeeps ==
  ASSUME AccessInv, pass.at \notin {"idle", "plan"}, Delivered,
         UNCHANGED <<live, aged, token, key, pending>>, Types'
  PROVE  AccessInv'
PROOF
<1>1. pass'.at = "delete" /\ pass'.todo = pass.todo
  BY GotoTypes DEF AccessInv, Types, OtherTypes, Delivered, Phases
<1>. QED
  BY <1>1 DEF AccessInv, HeldIsLive, Phased, PendingNew, WritesNewest, Unheld, CasedNewest,
     SawHeld, Doomed, Writing

LEMMA ReadMateKeeps == ASSUME AccessInv, ReadMate PROVE AccessInv'
PROOF
<1>. USE DEF AccessInv, ReadMate, At, giteaVars
<1>1. Types'
  BY DEF Types, TokenTypes, ContainerTypes, OtherTypes, PassState, Phases, NeedsMint
<1>2. /\ pass'.at = "plan" /\ pass'.saw = token /\ pass'.mint = NeedsMint
      /\ pass'.todo = pass.todo
  BY DEF Types, OtherTypes, PassState
<1>. QED
  BY <1>1, <1>2 DEF HeldIsLive, Phased, PendingNew, WritesNewest, Unheld, CasedNewest,
     SawHeld, Doomed, Writing, NeedsMint, Newest

LEMMA PlanKeeps == ASSUME AccessInv, Plan PROVE AccessInv'
PROOF
<1>. USE DEF AccessInv, Plan, At, giteaVars, containerVars
<1>1. /\ pass'.at \in {"deliver", "delete"} /\ pass'.todo = Superseded(pass.saw)
      /\ pass'.saw = pass.saw /\ pass'.mint = pass.mint /\ pass'.have = pass.have
      /\ pass'.value = pass.value /\ pass' \in PassState
  <2>1. Superseded(pass.saw) \subseteq Gens
    BY DEF Superseded, Types, TokenTypes
  <2>. QED
    BY <2>1 DEF Types, OtherTypes, PassState, Phases
<1>2. Types'
  BY <1>1 DEF Types, TokenTypes, ContainerTypes, OtherTypes
<1>3. ASSUME NEW g \in live, \A h \in aged : h <= g
      PROVE  g \notin Superseded(pass.saw)
  BY <1>3 DEF Superseded, SuccessorAged, Types, TokenTypes, ContainerTypes, OtherTypes, Gens,
     PassState
<1>4. \A g \in Superseded(pass.saw) : g \in live /\ g # pass.saw /\ ~Newest(g)
  BY DEF Superseded
<1>5. Doomed'
  <2>1. token \notin Superseded(pass.saw)
    BY <1>3, <1>4 DEF HeldIsLive, SawHeld, Types, TokenTypes, Gens
  <2>2. \A w \in pending : w.gen \notin Superseded(pass.saw)
    BY <1>3 DEF PendingNew
  <2>. QED
    BY <1>1, <1>4, <2>1, <2>2 DEF Doomed, Writing, Newest
<1>. QED
  BY <1>1, <1>2, <1>5 DEF HeldIsLive, Phased, PendingNew, WritesNewest, Unheld, CasedNewest,
     SawHeld, Writing, Newest

LEMMA ReadVariablesKeeps == ASSUME AccessInv, ReadVariables PROVE AccessInv'
PROOF
<1>. USE DEF AccessInv, ReadVariables, At, giteaVars
<1>1. CASE gone = "service"
  <2>1. Delivered /\ pass' \in PassState
    BY <1>1, GotoTypes DEF Types, OtherTypes, Delivered, Phases
  <2>2. Types'
    BY <2>1, <1>1 DEF Types, TokenTypes, ContainerTypes, OtherTypes
  <2>. QED
    BY <2>1, <2>2, DeliveredKeeps
<1>2. CASE gone # "service"
  <2>1. /\ pass' \in PassState /\ pass'.at = "url" /\ pass'.have = key /\ pass'.saw = token
        /\ pass'.todo = pass.todo /\ pass'.mint = pass.mint
    BY <1>2 DEF Types, ContainerTypes, OtherTypes, PassState, Phases
  <2>2. Types'
    BY <2>1 DEF Types, TokenTypes, ContainerTypes, OtherTypes
  <2>. QED
    BY <2>1, <2>2 DEF HeldIsLive, Phased, PendingNew, WritesNewest, Unheld, CasedNewest,
       SawHeld, Doomed, Writing, Newest
<1>. QED
  BY <1>1, <1>2

LEMMA WritePlainKeeps ==
  ASSUME AccessInv, NEW v \in Plains, WritePlain(v)
  PROVE  AccessInv'
PROOF
<1>. USE DEF AccessInv, WritePlain, At, giteaVars
<1>1. /\ pass' \in PassState /\ pass'.todo = pass.todo /\ pass'.mint = pass.mint
      /\ pass'.have = pass.have /\ pass'.saw = pass.saw
      /\ pass'.at = "delete" \/ pass'.at = AfterPlain(v)
  BY GotoTypes DEF Types, OtherTypes, Delivered, Phases, AfterPlain
<1>2. /\ pass'.at \in {"broker", "mint", "move", "delete"}
      /\ pass'.at = "mint" => pass.mint
      /\ pass'.at = "move" => ~pass.mint /\ pass.have = "cased"
  BY <1>1 DEF AfterPlain
<1>3. Types'
  BY <1>1 DEF Types, TokenTypes, ContainerTypes, OtherTypes, Values
<1>. QED
  BY <1>1, <1>2, <1>3 DEF HeldIsLive, Phased, PendingNew, WritesNewest, Unheld, CasedNewest,
     SawHeld, Doomed, Writing, Newest, Plains

LEMMA WritePlainLostKeeps ==
  ASSUME AccessInv, NEW v \in Plains, WritePlainLost(v)
  PROVE  AccessInv'
PROOF
<1>. USE DEF AccessInv, WritePlainLost, At, giteaVars
<1>1. pass' \in PassState
  BY GotoTypes DEF Types, OtherTypes, Delivered, Phases
<1>2. ContainerTypes'
  BY DEF Types, ContainerTypes, Values
<1>3. Types'
  BY <1>1, <1>2 DEF Types, TokenTypes, OtherTypes, Fault
<1>4. pass.at \notin {"idle", "plan"}
  BY DEF Plains
<1>. QED
  BY <1>3, <1>4, DeliveredKeeps

\* A refused write: what was minted for it goes next, if anything was.
LEMMA GiveUpKeeps ==
  ASSUME AccessInv, pass.at \in Writing \union {"move"}, GiveUp,
         UNCHANGED <<live, aged, token, key, pending>>, Types'
  PROVE  AccessInv'
PROOF
<1>1. CASE pass.mint
  <2>1. pass'.at = "rollback" /\ pass'.todo = pass.todo /\ pass'.value = pass.value
        /\ pass'.mint = pass.mint /\ pass.at \in Writing
    BY <1>1, GotoTypes DEF GiveUp, AccessInv, Types, OtherTypes, Phases, Phased
  <2>. QED
    BY <1>1, <2>1 DEF AccessInv, HeldIsLive, Phased, PendingNew, WritesNewest, Unheld,
       CasedNewest, SawHeld, Doomed, Writing, Newest
<1>2. CASE ~pass.mint
  BY <1>2, DeliveredKeeps DEF GiveUp, Writing
<1>. QED
  BY <1>1, <1>2

LEMMA GiveUpTypes ==
  ASSUME pass \in PassState, GiveUp
  PROVE  pass' \in PassState
PROOF
  BY GotoTypes DEF GiveUp, Delivered, Phases

LEMMA ReadAgainKeeps == ASSUME AccessInv, ReadAgain PROVE AccessInv'
PROOF
<1>. USE DEF AccessInv, ReadAgain, At, giteaVars
<1>1. CASE gone = "service" \/ key = "absent"
  <2>1. Types'
    BY <1>1, GiveUpTypes DEF Types, TokenTypes, ContainerTypes, OtherTypes
  <2>. QED
    BY <1>1, <2>1, GiveUpKeeps DEF Writing
<1>2. CASE ~(gone = "service" \/ key = "absent")
  <2>1. /\ pass' \in PassState /\ pass'.at = "write" /\ pass'.have = key
        /\ pass'.todo = pass.todo /\ pass'.mint = pass.mint /\ pass'.value = pass.value
    BY <1>2 DEF Types, ContainerTypes, OtherTypes, PassState, Phases
  <2>2. Types'
    BY <1>2, <2>1 DEF Types, TokenTypes, ContainerTypes, OtherTypes
  <2>. QED
    BY <2>1, <2>2 DEF HeldIsLive, Phased, PendingNew, WritesNewest, Unheld, CasedNewest,
       SawHeld, Doomed, Writing, Newest
<1>. QED
  BY <1>1, <1>2

LEMMA ReadAgainFailsKeeps == ASSUME AccessInv, ReadAgainFails PROVE AccessInv'
PROOF
<1>. USE DEF AccessInv, ReadAgainFails, At, giteaVars, containerVars
<1>1. Types'
  BY GiveUpTypes DEF Types, TokenTypes, ContainerTypes, OtherTypes, Fault
<1>. QED
  BY <1>1, GiveUpKeeps DEF Writing

LEMMA DeleteFailsKeeps ==
  ASSUME AccessInv, NEW g \in Gens, DeleteFails(g)
  PROVE  AccessInv'
PROOF
<1>. USE DEF AccessInv, DeleteFails, At, giteaVars, containerVars
<1>1. /\ pass' \in PassState /\ pass'.at = "delete" /\ pass'.todo = pass.todo \ {g}
      /\ pass'.mint = pass.mint
  BY DEF Types, OtherTypes, PassState
<1>2. Types'
  BY <1>1 DEF Types, TokenTypes, ContainerTypes, OtherTypes, Fault
<1>. QED
  BY <1>1, <1>2 DEF HeldIsLive, Phased, PendingNew, WritesNewest, Unheld, CasedNewest,
     SawHeld, Doomed, Writing

\* A pass that is over knows nothing.
LEMMA IdleKeeps ==
  ASSUME AccessInv, pass' = Idle, UNCHANGED <<live, aged, token, key, pending>>, Types'
  PROVE  AccessInv'
PROOF
<1>1. pass'.at = "idle" /\ pass'.todo = {}
  BY DEF Idle
<1>. QED
  BY <1>1 DEF AccessInv, HeldIsLive, Phased, PendingNew, WritesNewest, Unheld, CasedNewest,
     SawHeld, Doomed, Writing

LEMMA IdleTypes == Idle \in PassState
PROOF
  BY DEF Idle, PassState, Phases, Keys

LEMMA PassEndsKeeps == ASSUME AccessInv, PassEnds PROVE AccessInv'
PROOF
<1>. USE DEF AccessInv, PassEnds, giteaVars, containerVars
<1>1. Types'
  BY IdleTypes DEF Types, TokenTypes, ContainerTypes, OtherTypes
<1>. QED
  BY <1>1, IdleKeeps

LEMMA CallFailsKeeps == ASSUME AccessInv, CallFails PROVE AccessInv'
PROOF
<1>. USE DEF AccessInv, CallFails, At, giteaVars, containerVars
<1>1. pass' \in PassState
  BY IdleTypes, GotoTypes DEF Types, OtherTypes, Delivered, Phases
<1>2. Types'
  BY <1>1 DEF Types, TokenTypes, ContainerTypes, OtherTypes, Fault
<1>. QED
  BY <1>2, IdleKeeps, DeliveredKeeps

LEMMA RestartKeeps == ASSUME AccessInv, Restart PROVE AccessInv'
PROOF
<1>. USE DEF AccessInv, Restart, containerVars
<1>1. TokenTypes'
  BY DEF Types, TokenTypes
<1>2. Types'
  BY <1>1, IdleTypes DEF Types, ContainerTypes, OtherTypes, Fault
<1>. QED
  BY <1>2, IdleKeeps

LEMMA RefusingKeeps == ASSUME AccessInv, Refusing PROVE AccessInv'
PROOF
<1>. USE DEF AccessInv, Refusing, giteaVars, containerVars
<1>1. refusing' \in BOOLEAN
  BY Zenon
<1>2. Types'
  BY <1>1 DEF Types, TokenTypes, ContainerTypes, OtherTypes
<1>. QED
  BY <1>2 DEF HeldIsLive, Phased, PendingNew, WritesNewest, Unheld, CasedNewest, SawHeld, Doomed,
     Writing, Newest

-----------------------------------------------------------------------------
(* Steps that change what the container holds.                              *)

\* The types of what it holds.
LEMMA HoldTypes ==
  ASSUME ContainerTypes, NEW g \in 0..MaxGen, Hold(g)
  PROVE  /\ token' = g /\ key' = "own" /\ token' \in 0..MaxGen /\ key' \in Keys
         /\ once' \subseteq Gens /\ left' \subseteq Gens
PROOF
<1>1. token' = g /\ key' = "own" /\ key' \in Keys
  BY DEF Hold, Keys
<1>2. {g} \ {0} \subseteq Gens /\ {token} \ {0} \subseteq Gens
  BY DEF Gens, ContainerTypes
<1>3. once' \subseteq Gens
  BY <1>2 DEF Hold, ContainerTypes
<1>4. left' \subseteq Gens
  BY <1>2 DEF Hold, ContainerTypes
<1>. QED
  BY <1>1, <1>3, <1>4

\* A delivery writes the token it may write, and ends.
LEMMA HoldKeeps ==
  ASSUME AccessInv, pass.at \in {"write", "remake"}, Hold(pass.value), Delivered,
         UNCHANGED <<live, aged, covers, plain, pending, gone, refusing, faults>>
  PROVE  AccessInv'
PROOF
<1>1. pass.value \in 0..MaxGen
  BY DEF AccessInv, Types, OtherTypes, PassState
<1>2. pass' \in PassState /\ pass'.at = "delete" /\ pass'.todo = pass.todo
  BY GotoTypes DEF AccessInv, Types, OtherTypes, Delivered, Phases
<1>3. Types'
  BY <1>1, <1>2, HoldTypes DEF AccessInv, Types, TokenTypes, ContainerTypes, OtherTypes
<1>4. token' = pass.value /\ (pass.value = 0 \/ pass.value \in live)
  BY <1>1, HoldTypes DEF AccessInv, Types, WritesNewest, Writing, Newest
<1>. QED
  BY <1>2, <1>3, <1>4 DEF AccessInv, HeldIsLive, Phased, PendingNew, WritesNewest, Unheld,
     CasedNewest, SawHeld, Doomed, Writing

LEMMA UpdateTokenKeeps == ASSUME AccessInv, UpdateToken PROVE AccessInv'
PROOF
<1>. USE DEF UpdateToken, At, giteaVars
<1>1. CASE TokenRefused
  <2>1. Types'
    BY <1>1, GiveUpTypes DEF AccessInv, Types, TokenTypes, ContainerTypes, OtherTypes
  <2>. QED
    BY <1>1, <2>1, GiveUpKeeps DEF Writing
<1>2. CASE ~TokenRefused
  BY <1>2, HoldKeeps
<1>. QED
  BY <1>1, <1>2

LEMMA CreateTokenKeeps == ASSUME AccessInv, CreateToken PROVE AccessInv'
PROOF
<1>. USE DEF CreateToken, At, giteaVars
<1>1. CASE Refused
  <2>1. Types'
    BY <1>1, GiveUpTypes DEF AccessInv, Types, TokenTypes, ContainerTypes, OtherTypes
  <2>. QED
    BY <1>1, <2>1, GiveUpKeeps DEF Writing
<1>2. CASE ~Refused /\ key # "absent"
  <2>1. /\ pass' \in PassState /\ pass'.at = "again" /\ pass'.todo = pass.todo
        /\ pass'.mint = pass.mint /\ pass'.value = pass.value
    BY <1>2, GotoTypes DEF AccessInv, Types, OtherTypes, Phases
  <2>2. Types'
    BY <1>2, <2>1 DEF AccessInv, Types, TokenTypes, ContainerTypes, OtherTypes
  <2>. QED
    BY <1>2, <2>1, <2>2 DEF AccessInv, HeldIsLive, Phased, PendingNew, WritesNewest, Unheld,
       CasedNewest, SawHeld, Doomed, Writing, Newest
<1>3. CASE ~Refused /\ key = "absent"
  BY <1>3, HoldKeeps
<1>. QED
  BY <1>1, <1>2, <1>3

LEMMA RemakeKeeps == ASSUME AccessInv, Remake PROVE AccessInv'
PROOF
<1>. USE DEF Remake, At, giteaVars
<1>1. CASE GiveUp /\ UNCHANGED <<token, key, once, left>>
  <2>1. Types'
    BY <1>1, GiveUpTypes DEF AccessInv, Types, TokenTypes, ContainerTypes, OtherTypes
  <2>. QED
    BY <1>1, <2>1, GiveUpKeeps DEF Writing
<1>2. CASE Hold(pass.value) /\ Delivered
  BY <1>2, HoldKeeps
<1>. QED
  BY <1>1, <1>2

\* The container loses the bot's token: of what may still land, less is left.
LEMMA LosesToken ==
  ASSUME AccessInv, token' = 0, key' # "cased" \/ token = 0 \/ key' = key \/ key = "absent",
         pending' \subseteq pending, UNCHANGED <<live, aged>>,
         pass' = pass, Types'
  PROVE  AccessInv'
PROOF
<1>1. \A g \in pass.todo : g # 0
  BY DEF AccessInv, Doomed, Types, TokenTypes, Gens
<1>2. Unheld'
  <2>1. pass.at \in Writing /\ pass.mint => pass.value # 0
    BY DEF AccessInv, WritesNewest, Newest, Types, TokenTypes, Gens
  <2>. QED
    BY <2>1 DEF AccessInv, Unheld
<1>. QED
  BY <1>1, <1>2 DEF AccessInv, HeldIsLive, Phased, PendingNew, WritesNewest,
     CasedNewest, SawHeld, Doomed, Writing, Newest

LEMMA EditedKeeps == ASSUME AccessInv, Edited PROVE AccessInv'
PROOF
<1>. USE DEF Edited, giteaVars
<1>1. pending' \subseteq pending
  OBVIOUS
<1>2. ContainerTypes'
  <2>1. token' \in 0..MaxGen /\ key' \in Keys /\ once' \subseteq Gens /\ left' \subseteq Gens
    BY DEF AccessInv, Types, ContainerTypes, Keys
  <2>2. gone' \in {"nothing", "token", "service"}
    BY DEF AccessInv, Types, ContainerTypes
  <2>. QED
    BY <1>1, <2>1, <2>2 DEF AccessInv, Types, ContainerTypes
<1>3. Types'
  BY <1>2 DEF AccessInv, Types, TokenTypes, OtherTypes, Fault
<1>. QED
  BY <1>1, <1>3, LosesToken

LEMMA RecreatedKeeps == ASSUME AccessInv, Recreated PROVE AccessInv'
PROOF
<1>. USE DEF Recreated, giteaVars
<1>1. plain' \in [Plains -> Values]
  BY DEF Values
<1>2. ContainerTypes'
  BY <1>1 DEF ContainerTypes, Keys
<1>3. Types'
  BY <1>2 DEF AccessInv, Types, TokenTypes, OtherTypes, Fault
<1>. QED
  BY <1>3, LosesToken

\* A token under another case is deleted, to be made anew.
LEMMA DropTypes ==
  ASSUME ContainerTypes, Drop, UNCHANGED <<plain, gone>>
  PROVE  ContainerTypes' /\ token' = 0 /\ key' = "absent" /\ pending' \subseteq pending
PROOF
  BY DEF ContainerTypes, Drop, Keys

LEMMA DeleteCasedKeeps == ASSUME AccessInv, DeleteCased PROVE AccessInv'
PROOF
<1>. USE DEF DeleteCased, Replaces, At, giteaVars
<1>1. CASE TokenRefused
  <2>1. Types'
    BY <1>1, GiveUpTypes DEF AccessInv, Types, TokenTypes, ContainerTypes, OtherTypes
  <2>. QED
    BY <1>1, <2>1, GiveUpKeeps DEF Writing
<1>2. CASE ~TokenRefused
  <2>1. /\ pass' \in PassState /\ pass'.at = "remake" /\ pass'.todo = pass.todo
        /\ pass'.mint = pass.mint /\ pass'.saw = pass.saw
        /\ pass'.value = IF pass.mint THEN pass.value ELSE pass.saw
    BY <1>2 DEF AccessInv, Types, OtherTypes, PassState, Phases
  <2>2. ContainerTypes' /\ token' = 0 /\ key' = "absent" /\ pending' \subseteq pending
    BY <1>2, DropTypes DEF AccessInv, Types
  <2>3. Types'
    BY <1>2, <2>1, <2>2 DEF AccessInv, Types, TokenTypes, OtherTypes
  <2>4. IF pass.mint THEN pass.at = "write" /\ Newest(pass.value)
                     ELSE pass.at = "move" /\ (pass.saw = 0 \/ Newest(pass.saw))
    BY DEF AccessInv, Phased, WritesNewest, CasedNewest, Writing
  <2>5. WritesNewest' /\ \A g \in pass.todo : g # 0 /\ g # pass'.value /\ ~Newest(g)
    BY <1>2, <2>1, <2>4 DEF WritesNewest, Newest, AccessInv, Doomed, Types, TokenTypes, Gens
  <2>6. Unheld'
    BY <1>2, <2>1, <2>2, <2>4 DEF Unheld, AccessInv, Types, TokenTypes, Gens, Newest, Writing
  <2>7. Doomed'
    BY <1>2, <2>1, <2>2, <2>5 DEF Doomed, AccessInv, Writing, Newest
  <2>. QED
    BY <1>2, <2>1, <2>2, <2>3, <2>5, <2>6, <2>7 DEF AccessInv, HeldIsLive, Phased, PendingNew,
       CasedNewest, SawHeld
<1>. QED
  BY <1>1, <1>2

LEMMA TokenWriteLostKeeps == ASSUME AccessInv, TokenWriteLost PROVE AccessInv'
PROOF
<1>. USE DEF TokenWriteLost, Replaces, At, giteaVars
<1>1. /\ pass' \in PassState /\ pass'.at = "delete" /\ pass'.todo = pass.todo
      /\ pass'.mint = pass.mint
  BY GotoTypes DEF AccessInv, Types, OtherTypes, Delivered, Phases
<1>2. OtherTypes' /\ TokenTypes'
  BY <1>1 DEF AccessInv, Types, OtherTypes, TokenTypes, Fault
<1>3. CASE UNCHANGED <<token, key, once, left, pending>>
  <2>1. Types'
    BY <1>2, <1>3 DEF AccessInv, Types, ContainerTypes
  <2>. QED
    BY <1>3, <2>1, DeliveredKeeps
<1>4. CASE Drop
  <2>1. ContainerTypes' /\ token' = 0 /\ key' = "absent" /\ pending' \subseteq pending
    BY <1>4, DropTypes DEF AccessInv, Types
  <2>2. \A g \in pass.todo : g # 0
    BY DEF AccessInv, Doomed, Types, TokenTypes, Gens
  <2>. QED
    BY <1>1, <1>2, <2>1, <2>2 DEF AccessInv, Types, HeldIsLive, Phased, PendingNew, WritesNewest,
       Unheld, CasedNewest, SawHeld, Doomed, Writing
<1>5. ASSUME ~Replaces, pass.value # 0, NEW how \in {"create", "update"},
             pending' = pending \union {[gen |-> pass.value, how |-> how]},
             UNCHANGED <<token, key, once, left>>
      PROVE  AccessInv'
  <2>1. Newest(pass.value) /\ pass.value \in Gens
    BY <1>5 DEF AccessInv, WritesNewest, Writing, Newest, Types, TokenTypes
  <2>2. ContainerTypes'
    BY <1>5, <2>1 DEF AccessInv, Types, ContainerTypes
  <2>3. Types'
    BY <1>2, <2>2 DEF Types
  <2>4. PendingNew'
    BY <1>5, <2>1 DEF AccessInv, PendingNew, Newest, Types, TokenTypes
  <2>5. Doomed'
    BY <1>1, <1>5 DEF AccessInv, Doomed, Writing
  <2>. QED
    BY <1>1, <1>5, <2>3, <2>4, <2>5 DEF AccessInv, HeldIsLive, Phased, WritesNewest,
       Unheld, CasedNewest, SawHeld, Writing
<1>. QED
  BY <1>3, <1>4, <1>5

LEMMA LandsKeeps ==
  ASSUME AccessInv, NEW w \in pending, Lands(w)
  PROVE  AccessInv'
PROOF
<1>. USE DEF Lands, giteaVars
<1>1. w.gen \in live /\ w.gen \in Gens /\ w.gen \in 0..MaxGen
  <2>1. w.gen \in live
    BY DEF AccessInv, PendingNew
  <2>2. w.gen \in Gens
    BY <2>1 DEF AccessInv, Types, TokenTypes
  <2>. QED
    BY <2>1, <2>2 DEF Gens
<1>2. CASE Hold(w.gen)
  <2>1. token' = w.gen /\ key' = "own"
    BY <1>1, <1>2, HoldTypes DEF AccessInv, Types
  <2>2. ContainerTypes'
    BY <1>1, <1>2, HoldTypes DEF AccessInv, Types, ContainerTypes
  <2>3. Types'
    BY <2>2 DEF AccessInv, Types, TokenTypes, OtherTypes
  <2>. QED
    BY <1>1, <2>1, <2>3 DEF AccessInv, HeldIsLive, Phased, PendingNew, WritesNewest,
       Unheld, CasedNewest, SawHeld, Doomed, Writing, Newest
<1>3. CASE UNCHANGED <<token, key, once, left>>
  <2>1. Types'
    BY <1>3 DEF AccessInv, Types, TokenTypes, ContainerTypes, OtherTypes
  <2>. QED
    BY <1>3, <2>1 DEF AccessInv, HeldIsLive, Phased, PendingNew, WritesNewest,
       Unheld, CasedNewest, SawHeld, Doomed, Writing, Newest
<1>. QED
  BY <1>2, <1>3

LEMMA NeverLandsKeeps ==
  ASSUME AccessInv, NEW w \in pending, NeverLands(w)
  PROVE  AccessInv'
PROOF
<1>. USE DEF NeverLands, giteaVars
<1>1. Types'
  BY DEF AccessInv, Types, TokenTypes, ContainerTypes, OtherTypes
<1>. QED
  BY <1>1 DEF AccessInv, HeldIsLive, Phased, PendingNew, WritesNewest,
     Unheld, CasedNewest, SawHeld, Doomed, Writing, Newest

-----------------------------------------------------------------------------
(* Steps that change the generations.                                       *)

\* A new generation is nowhere else.
LEMMA MintedKeeps ==
  ASSUME AccessInv, NEW g \in Gens, Minted(g)
  PROVE  TokenTypes' /\ g \notin live /\ live' = live \union {g} /\ aged' = aged
           /\ \A h \in live : h < g
PROOF
  BY DEF AccessInv, Types, TokenTypes, Minted, Gens

LEMMA MintKeeps == ASSUME AccessInv, Mint PROVE AccessInv'
PROOF
<1>. USE DEF Mint, At, containerVars
<1>1. PICK g \in Gens : Minted(g) /\ pass' = [pass EXCEPT !.at = "write", !.value = g]
  OBVIOUS
<1>2. /\ TokenTypes' /\ g \notin live /\ live' = live \union {g} /\ aged' = aged
      /\ \A h \in live : h < g
  BY <1>1, MintedKeeps
<1>3. /\ pass' \in PassState /\ pass'.at = "write" /\ pass'.value = g /\ pass'.todo = pass.todo
      /\ pass'.mint = pass.mint
  <2>1. g \in 0..MaxGen
    BY DEF Gens
  <2>. QED
    BY <1>1, <2>1 DEF AccessInv, Types, OtherTypes, PassState, Phases
<1>4. Types'
  BY <1>2, <1>3 DEF AccessInv, Types, ContainerTypes, OtherTypes
<1>5. \A h \in live' : h <= g
  BY <1>2 DEF AccessInv, Types, TokenTypes, Gens
<1>6. WritesNewest'
  BY <1>2, <1>3, <1>5 DEF WritesNewest, Newest
<1>7. Unheld'
  BY <1>2, <1>3 DEF AccessInv, HeldIsLive, PendingNew, Unheld, Gens
<1>8. Doomed'
  <2>1. \A h \in pass.todo : h \in live /\ h < g /\ h # g
    BY <1>2 DEF AccessInv, Doomed
  <2>2. \A h \in pass.todo : ~(\A k \in live' : k <= h)
    BY <1>2, <2>1 DEF AccessInv, Types, TokenTypes, Gens
  <2>. QED
    BY <1>2, <1>3, <2>1, <2>2 DEF AccessInv, Doomed, Newest, Writing
<1>. QED
  BY <1>2, <1>3, <1>4, <1>6, <1>7, <1>8 DEF AccessInv, HeldIsLive, Phased, PendingNew,
     CasedNewest, SawHeld

LEMMA MintLostKeeps == ASSUME AccessInv, MintLost PROVE AccessInv'
PROOF
<1>. USE DEF MintLost, At, containerVars
<1>1. PICK g \in Gens : Minted(g)
  OBVIOUS
<1>2. TokenTypes' /\ live' = live \union {g} /\ aged' = aged
  BY <1>1, MintedKeeps
<1>3. /\ pass' \in PassState /\ pass'.at = "delete" /\ pass'.todo = pass.todo
      /\ pass'.mint = pass.mint
  BY GotoTypes DEF AccessInv, Types, OtherTypes, Delivered, Phases
<1>4. Types'
  BY <1>2, <1>3 DEF AccessInv, Types, ContainerTypes, OtherTypes, Fault
<1>. QED
  BY <1>2, <1>3, <1>4 DEF AccessInv, HeldIsLive, Phased, PendingNew, WritesNewest, Unheld,
     CasedNewest, SawHeld, Doomed, Writing

LEMMA RollbackKeeps == ASSUME AccessInv, Rollback PROVE AccessInv'
PROOF
<1>. USE DEF Rollback, At, containerVars
<1>1. /\ pass' \in PassState /\ pass'.at = "delete" /\ pass'.todo = pass.todo
      /\ pass'.mint = pass.mint
  BY GotoTypes DEF AccessInv, Types, OtherTypes, Delivered, Phases
<1>2. Types'
  BY <1>1 DEF AccessInv, Types, TokenTypes, ContainerTypes, OtherTypes
<1>3. /\ token # pass.value
      /\ \A w \in pending : w.gen # pass.value
      /\ \A g \in pass.todo : g # pass.value
  BY DEF AccessInv, Phased, Unheld, Doomed, Writing
<1>. QED
  BY <1>1, <1>2, <1>3 DEF AccessInv, HeldIsLive, Phased, PendingNew, WritesNewest, Unheld,
     CasedNewest, SawHeld, Doomed, Writing

LEMMA DeleteGenerationKeeps ==
  ASSUME AccessInv, NEW g \in Gens, DeleteGeneration(g)
  PROVE  AccessInv'
PROOF
<1>. USE DEF DeleteGeneration, At, containerVars
<1>1. /\ pass' \in PassState /\ pass'.at = "delete" /\ pass'.todo = pass.todo \ {g}
      /\ pass'.mint = pass.mint
  BY DEF AccessInv, Types, OtherTypes, PassState
<1>2. Types'
  BY <1>1 DEF AccessInv, Types, TokenTypes, ContainerTypes, OtherTypes
<1>3. token # g /\ \A w \in pending : w.gen # g
  BY DEF AccessInv, Doomed
<1>. QED
  BY <1>1, <1>2, <1>3 DEF AccessInv, HeldIsLive, Phased, PendingNew, WritesNewest, Unheld,
     CasedNewest, SawHeld, Doomed, Writing

\* Time passes: no write lands whose generation is past the grace.
LEMMA AgesKeeps ==
  ASSUME AccessInv, ~SlowWrites, NEW g \in Gens, Ages(g)
  PROVE  AccessInv'
PROOF
<1>. USE DEF Ages, At, containerVars
<1>1. Types'
  BY DEF AccessInv, Types, TokenTypes, ContainerTypes, OtherTypes
<1>2. PendingNew'
  BY DEF AccessInv, PendingNew, Types, TokenTypes, ContainerTypes, Gens
<1>3. SawHeld'
  BY DEF AccessInv, SawHeld
<1>. QED
  BY <1>1, <1>2, <1>3 DEF AccessInv, HeldIsLive, Phased, WritesNewest, Unheld, CasedNewest,
     Doomed, Writing, Newest

-----------------------------------------------------------------------------
(* The theorems.                                                            *)

LEMMA AccessKept == ASSUME AccessInv, ~SlowWrites, [Next]_vars PROVE AccessInv'
PROOF
<1>1. CASE UNCHANGED vars
  <2>1. Types'
    BY <1>1 DEF AccessInv, vars, giteaVars, containerVars, Types, TokenTypes, ContainerTypes,
       OtherTypes
  <2>. QED
    BY <1>1, <2>1 DEF AccessInv, vars, giteaVars, containerVars, HeldIsLive, Phased, PendingNew,
       WritesNewest, Unheld, CasedNewest, SawHeld, Doomed, Writing, Newest
<1>2. CASE PassNext
  BY <1>2, ReadMateKeeps, PlanKeeps, ReadVariablesKeeps, WritePlainKeeps, MintKeeps,
     UpdateTokenKeeps, CreateTokenKeeps, ReadAgainKeeps, DeleteCasedKeeps, RemakeKeeps,
     RollbackKeeps, DeleteGenerationKeeps, PassEndsKeeps DEF PassNext
<1>3. CASE Next /\ ~PassNext
  BY <1>3, WritePlainLostKeeps, MintLostKeeps, TokenWriteLostKeeps, ReadAgainFailsKeeps,
     CallFailsKeeps, DeleteFailsKeeps, AgesKeeps, LandsKeeps, NeverLandsKeeps, RefusingKeeps,
     EditedKeeps, RecreatedKeeps, RestartKeeps DEF Next
<1>. QED
  BY <1>1, <1>2, <1>3

\* Every reachable state is typed, and a pass deletes no generation twice
\* (access.go, plan.go planBotTokens).
THEOREM AccessTypes == ~SlowWrites => (Spec => []TypeOK)
PROOF
<1>. SUFFICES ASSUME ~SlowWrites PROVE Spec => []TypeOK
  OBVIOUS
<1>1. AccessInv /\ [Next]_vars => AccessInv'
  BY AccessKept
<1>. QED
  BY <1>1, AccessInit, AccessInvTypes, PTL DEF Spec

\* Whatever was lost, cut short, edited or written late, the bot's token in the
\* container is one that Gitea knows, if no write lands after the grace of its
\* generation (planBotTokens, deliverMateAccess's rollback).
THEOREM HeldNeverRevoked == ~SlowWrites => (Spec => []HeldIsLive)
PROOF
<1>. SUFFICES ASSUME ~SlowWrites PROVE Spec => []HeldIsLive
  OBVIOUS
<1>1. AccessInv /\ [Next]_vars => AccessInv'
  BY AccessKept
<1>2. AccessInv => HeldIsLive
  BY DEF AccessInv
<1>. QED
  BY <1>1, <1>2, AccessInit, PTL DEF Spec

-----------------------------------------------------------------------------
(* A generation the container held before goes only after one that took its *)
(* place is past the grace.                                                 *)

\* A pass has minted a generation that it has not written yet.
InFlight == pass.at \in Writing /\ pass.mint

\* The generations but for that one.
Kept == IF InFlight THEN live \ {pass.value} ELSE live

\* One of them is the newest, is not to be deleted, and nothing newer was held.
TopKept ==
  \/ Kept = {} /\ once = {} /\ pass.todo = {}
  \/ \E n \in Kept : /\ \A h \in Kept \union once : h <= n
                     /\ n \notin pass.todo

\* What was left was held, before what is held now.
LeftOlder ==
  /\ left \subseteq once
  /\ \A g \in left : g < token
  /\ token # 0 => token \in once

\* What was left is older than what a pass read, or nothing newer is past the grace.
LeftRead ==
  pass.at = "plan" =>
    /\ pass.saw # 0 => pass.saw \in live
    /\ \A g \in left : (g <= pass.saw /\ pass.saw \in once) \/ \A h \in aged : h <= g

\* What a pass will delete of it has such a successor, which stays.
LeftDoomed ==
  pass.at \notin {"idle", "plan"} =>
    \A g \in left \intersect pass.todo : \E h \in (aged \intersect once) \ pass.todo : h > g

LeftInv == TopKept /\ LeftOlder /\ LeftRead /\ LeftDoomed

\* Generations are numbers.
LEMMA Numbers ==
  ASSUME AccessInv
  PROVE  /\ \A g \in live \union aged \union once \union left : g \in Nat /\ g # 0
         /\ token \in Nat /\ pass.saw \in Nat /\ pass.value \in Nat
PROOF
<1>1. live \union aged \union once \union left \subseteq Gens
  BY DEF AccessInv, Types, TokenTypes, ContainerTypes
<1>2. token \in 0..MaxGen /\ pass.saw \in 0..MaxGen /\ pass.value \in 0..MaxGen
  BY DEF AccessInv, Types, ContainerTypes, OtherTypes, PassState
<1>. QED
  BY <1>1, <1>2 DEF Gens

\* What was minted is the newest, and not among what will be deleted.
LEMMA InFlightTop ==
  ASSUME AccessInv, TopKept, InFlight
  PROVE  /\ pass.value \in live /\ \A h \in live : h <= pass.value
         /\ pass.value \notin pass.todo
         /\ \A h \in once : h < pass.value
         /\ \A h \in live \union once : h <= pass.value
PROOF
<1>1. /\ pass.value \in live /\ \A h \in live : h <= pass.value
      /\ pass.value \notin pass.todo
  <2>1. Newest(pass.value)
    BY DEF InFlight, AccessInv, WritesNewest
  <2>2. pass.at \notin {"idle", "plan"}
    BY DEF InFlight, Writing
  <2>. QED
    BY <2>1, <2>2 DEF InFlight, AccessInv, Doomed, Newest
<1>2. ASSUME NEW h \in once PROVE h < pass.value
  <2>1. \A k \in live \union once : k \in Nat
    BY Numbers
  <2>2. PICK n \in Kept : h <= n
    BY <1>2 DEF TopKept
  <2>3. n \in live /\ n # pass.value
    BY <2>2 DEF Kept, InFlight
  <2>4. n <= pass.value /\ n \in Nat /\ h \in Nat /\ pass.value \in Nat
    BY <1>1, <2>1, <2>3
  <2>. QED
    BY <2>2, <2>3, <2>4
<1>3. ASSUME NEW h \in live \union once PROVE h <= pass.value
  <2>1. h \in Nat /\ pass.value \in Nat
    BY Numbers
  <2>2. h \in once => h < pass.value
    BY <1>2
  <2>. QED
    BY <1>1, <2>1, <2>2
<1>. QED
  BY <1>1, <1>2, <1>3

\* A step that changes the pass alone, and reads nothing.
LEMMA LeftStill ==
  ASSUME AccessInv, LeftInv, UNCHANGED <<live, aged, token, once, left>>,
         pass'.todo \subseteq pass.todo, pass'.at # "plan",
         pass'.at \in {"idle", "plan"} \/ pass.at \notin {"idle", "plan"},
         InFlight' => InFlight /\ pass'.value = pass.value
  PROVE  LeftInv'
PROOF
<1>1. TopKept'
  <2>1. CASE InFlight /\ ~InFlight'
    <3>1. Kept' = live /\ pass.value \in Kept'
      BY <2>1, InFlightTop DEF LeftInv, Kept
    <3>2. \A h \in live \union once : h <= pass.value
      BY <2>1, InFlightTop DEF LeftInv
    <3>3. pass.value \notin pass'.todo
      BY <2>1, InFlightTop DEF LeftInv
    <3>. QED
      BY <3>1, <3>2, <3>3 DEF TopKept
  <2>2. CASE ~(InFlight /\ ~InFlight')
    <3>1. Kept' = Kept
      BY <2>2 DEF Kept
    <3>. QED
      BY <3>1 DEF LeftInv, TopKept
  <2>. QED
    BY <2>1, <2>2
<1>2. LeftOlder' /\ LeftRead' /\ LeftDoomed'
  BY DEF LeftInv, LeftOlder, LeftRead, LeftDoomed
<1>. QED
  BY <1>1, <1>2 DEF LeftInv

\* So does a delivery that ends or gives up.
LEMMA EndsLeft ==
  ASSUME AccessInv, LeftInv, UNCHANGED <<live, aged, token, once, left>>,
         Delivered \/ (GiveUp /\ pass.at \in Writing \union {"move"}),
         pass.at \notin {"idle", "plan"}
  PROVE  LeftInv'
PROOF
<1>1. \E p \in {"delete", "rollback"} :
        /\ Goto(p)
        /\ p = "rollback" => pass.mint /\ pass.at \in Writing
  BY DEF Delivered, GiveUp, AccessInv, Phased
<1>2. PICK p \in {"delete", "rollback"} :
        /\ Goto(p)
        /\ p = "rollback" => pass.mint /\ pass.at \in Writing
  BY <1>1
<1>3. p \in Phases
  BY DEF Phases
<1>4. /\ pass'.at = p /\ pass'.todo = pass.todo /\ pass'.value = pass.value
      /\ pass'.mint = pass.mint
  BY <1>2, <1>3, GotoTypes DEF AccessInv, Types, OtherTypes
<1>5. InFlight' => InFlight /\ pass'.value = pass.value
  BY <1>2, <1>4 DEF InFlight, Writing
<1>. QED
  BY <1>4, <1>5, LeftStill

\* The container loses its token: what it held before is forgotten.
LEMMA LosesLeft ==
  ASSUME AccessInv, LeftInv, UNCHANGED <<live, aged>>, token' = 0, once' = {}, left' = {},
         pass'.todo = pass.todo,
         pass'.at = "plan" => pass.at = "plan" /\ pass'.saw = pass.saw,
         InFlight' => InFlight /\ pass'.value = pass.value
  PROVE  LeftInv'
PROOF
<1>1. TopKept'
  <2>1. CASE InFlight /\ ~InFlight'
    <3>1. Kept' = live /\ pass.value \in Kept'
      BY <2>1, InFlightTop DEF LeftInv, Kept
    <3>2. \A h \in Kept' \union once' : h <= pass.value
      BY <2>1, <3>1, InFlightTop DEF LeftInv
    <3>3. pass.value \notin pass'.todo
      BY <2>1, InFlightTop DEF LeftInv
    <3>. QED
      BY <3>1, <3>2, <3>3 DEF TopKept
  <2>2. CASE ~(InFlight /\ ~InFlight')
    <3>1. Kept' = Kept
      BY <2>2 DEF Kept
    <3>. QED
      BY <3>1 DEF LeftInv, TopKept
  <2>. QED
    BY <2>1, <2>2
<1>2. LeftOlder' /\ LeftRead' /\ LeftDoomed'
  BY DEF LeftInv, LeftOlder, LeftRead, LeftDoomed
<1>. QED
  BY <1>1, <1>2 DEF LeftInv

\* Nothing of it changes.
LEMMA SameLeft ==
  ASSUME LeftInv, UNCHANGED <<live, aged, token, once, left, pass>>
  PROVE  LeftInv'
PROOF
  BY DEF LeftInv, TopKept, Kept, InFlight, LeftOlder, LeftRead, LeftDoomed

LEMMA ReadMateLeft == ASSUME AccessInv, LeftInv, ReadMate PROVE LeftInv'
PROOF
<1>. USE DEF ReadMate, At, giteaVars
<1>1. pass'.at = "plan" /\ pass'.saw = token /\ pass'.todo = pass.todo
  BY DEF AccessInv, Types, OtherTypes, PassState
<1>2. ~InFlight /\ ~InFlight'
  BY <1>1 DEF InFlight, Writing
<1>3. TopKept' /\ LeftOlder' /\ LeftDoomed'
  BY <1>1, <1>2 DEF LeftInv, TopKept, Kept, LeftOlder, LeftDoomed
<1>4. LeftRead'
  <2>1. token # 0 => token \in live
    BY DEF AccessInv, HeldIsLive
  <2>2. ASSUME NEW g \in left PROVE g <= token /\ token \in once
    <3>1. g < token /\ g \in Nat /\ token \in Nat
      BY Numbers DEF LeftInv, LeftOlder
    <3>. QED
      BY <3>1 DEF LeftInv, LeftOlder
  <2>. QED
    BY <1>1, <2>1, <2>2 DEF LeftRead
<1>. QED
  BY <1>3, <1>4 DEF LeftInv

\* The plan: of what was left, it lists only what has a successor past the grace.
LEMMA PlanLeft == ASSUME AccessInv, LeftInv, Plan PROVE LeftInv'
PROOF
<1>. USE DEF Plan, At, giteaVars, containerVars
<1>1. pass'.at \in {"deliver", "delete"} /\ pass'.todo = Superseded(pass.saw)
  BY DEF AccessInv, Types, OtherTypes, PassState
<1>2. ~InFlight /\ ~InFlight'
  BY <1>1 DEF InFlight, Writing
<1>3. Kept = live /\ Kept' = live
  BY <1>2 DEF Kept
<1>4. \A g \in Superseded(pass.saw) : g \in live /\ g # pass.saw /\ ~Newest(g)
  BY DEF Superseded
<1>5. TopKept'
  <2>1. CASE live = {} /\ once = {}
    BY <1>1, <1>3, <1>4, <2>1 DEF TopKept
  <2>2. CASE \E n \in live : \A h \in live \union once : h <= n
    <3>1. PICK n \in live : \A h \in live \union once : h <= n
      BY <2>2
    <3>2. n \notin Superseded(pass.saw)
      BY <1>4, <3>1 DEF Newest
    <3>. QED
      BY <1>1, <1>3, <3>1, <3>2 DEF TopKept
  <2>. QED
    BY <1>3, <2>1, <2>2 DEF LeftInv, TopKept
<1>6. ASSUME NEW g \in left, g \in Superseded(pass.saw)
      PROVE  \E h \in (aged \intersect once) \ Superseded(pass.saw) : h > g
  <2>1. g \in Nat /\ pass.saw \in Nat
    BY Numbers
  <2>2. g \in live /\ g # pass.saw
    BY <1>4, <1>6
  <2>3. IF g < pass.saw /\ pass.saw \in live THEN pass.saw \in aged ELSE SuccessorAged(g)
    BY <1>6 DEF Superseded
  <2>4. pass.saw # 0 => pass.saw \in live
    BY DEF LeftInv, LeftRead
  <2>5. CASE g <= pass.saw /\ pass.saw \in once
    <3>1. g < pass.saw /\ pass.saw # 0
      BY <2>1, <2>2, <2>5
    <3>2. pass.saw \in aged \intersect once /\ pass.saw \notin Superseded(pass.saw)
      BY <1>4, <2>3, <2>4, <2>5, <3>1
    <3>. QED
      BY <3>1, <3>2, <2>1
  <2>6. CASE \A h \in aged : h <= g
    <3>1. PICK r \in aged : r > g
      BY <2>3 DEF SuccessorAged
    <3>2. r \in Nat /\ r <= g
      BY <2>6, Numbers
    <3>. QED
      BY <2>1, <3>1, <3>2
  <2>. QED
    BY <2>5, <2>6 DEF LeftInv, LeftRead
<1>7. LeftDoomed'
  BY <1>1, <1>6 DEF LeftDoomed
<1>8. LeftOlder' /\ LeftRead'
  BY <1>1 DEF LeftInv, LeftOlder, LeftRead
<1>. QED
  BY <1>5, <1>7, <1>8 DEF LeftInv

\* The container holds another generation.
LEMMA HoldLeft ==
  ASSUME AccessInv, LeftInv, NEW g \in Nat, Hold(g)
  PROVE  /\ LeftOlder' /\ token' = g
         /\ once' \subseteq once \union ({g} \ {0})
         /\ \A h \in left' : /\ h \in left \/ (h = token /\ h # 0)
                             /\ once \subseteq once'
PROOF
<1>. USE DEF Hold
<1>1. token \in Nat /\ \A h \in left : h \in Nat /\ h < token
  BY Numbers DEF LeftInv, LeftOlder
<1>2. left \subseteq once /\ (token # 0 => token \in once)
  BY DEF LeftInv, LeftOlder
<1>3. CASE token <= g
  <2>1. once' = once \union ({g} \ {0}) /\ left' = (left \union {token}) \ {0, g}
    BY <1>3
  <2>2. ASSUME NEW h \in left' PROVE h < g
    <3>1. h \in left \/ h = token
      BY <2>1
    <3>2. h # g /\ h \in Nat /\ h <= token
      BY <1>1, <2>1, <3>1
    <3>. QED
      BY <1>1, <1>3, <3>2
  <2>. QED
    BY <1>2, <2>1, <2>2 DEF LeftOlder
<1>4. CASE ~(token <= g)
  BY <1>4 DEF LeftOlder
<1>. QED
  BY <1>3, <1>4

\* A delivery writes its generation, and ends.
LEMMA WritesLeft ==
  ASSUME AccessInv, LeftInv, pass.at \in {"write", "remake"}, Hold(pass.value), Delivered,
         UNCHANGED <<live, aged>>
  PROVE  LeftInv'
PROOF
<1>1. pass'.at = "delete" /\ pass'.todo = pass.todo
  BY GotoTypes DEF AccessInv, Types, OtherTypes, Delivered, Phases
<1>2. ~InFlight' /\ Kept' = live
  BY <1>1 DEF InFlight, Writing, Kept
<1>3. pass.value \in Nat
  BY Numbers
<1>4. /\ LeftOlder' /\ token' = pass.value
      /\ once' \subseteq once \union ({pass.value} \ {0})
      /\ \A h \in left' : /\ h \in left \/ (h = token /\ h # 0)
                          /\ once \subseteq once'
  BY <1>3, HoldLeft
<1>5. TopKept'
  <2>1. CASE pass.value = 0
    <3>1. once' \subseteq once /\ ~pass.mint
      BY <1>4, <2>1 DEF AccessInv, WritesNewest, Writing, Newest, Types, TokenTypes, Gens
    <3>2. Kept = live
      BY <3>1 DEF Kept, InFlight
    <3>. QED
      BY <1>1, <1>2, <3>1, <3>2 DEF LeftInv, TopKept
  <2>2. CASE pass.value # 0
    <3>1. /\ pass.value \in live /\ \A h \in live : h <= pass.value
          /\ pass.value \notin pass.todo
      BY <2>2 DEF AccessInv, WritesNewest, Writing, Newest, Doomed
    <3>2. ASSUME NEW h \in once PROVE h <= pass.value
      <4>1. CASE InFlight
        BY <4>1, InFlightTop DEF LeftInv
      <4>2. CASE ~InFlight
        <5>1. PICK n \in live : h <= n
          BY <4>2 DEF LeftInv, TopKept, Kept
        <5>. QED
          BY <1>3, <3>1, <5>1, Numbers
      <4>. QED
        BY <4>1, <4>2
    <3>. QED
      BY <1>1, <1>2, <1>3, <1>4, <3>1, <3>2 DEF TopKept
  <2>. QED
    BY <2>1, <2>2
<1>6. LeftRead'
  BY <1>1 DEF LeftRead
<1>7. LeftDoomed'
  <2>1. \A g \in left' \intersect pass.todo : g \in left /\ once \subseteq once'
    BY <1>4 DEF AccessInv, Doomed
  <2>2. \A g \in left \intersect pass.todo :
          \E h \in (aged \intersect once) \ pass.todo : h > g
    BY DEF LeftInv, LeftDoomed
  <2>. QED
    BY <1>1, <2>1, <2>2 DEF LeftDoomed
<1>. QED
  BY <1>4, <1>5, <1>6, <1>7 DEF LeftInv

\* A write whose answer was lost lands: not what was minted since.
LEMMA LandsLeft ==
  ASSUME AccessInv, LeftInv, NEW w \in pending, Lands(w)
  PROVE  LeftInv'
PROOF
<1>. USE DEF Lands, giteaVars
<1>1. CASE UNCHANGED <<token, key, once, left>>
  BY <1>1, SameLeft
<1>2. CASE Hold(w.gen)
  <2>1. w.gen \in Kept /\ w.gen \in Nat
    <3>1. w.gen \in live
      BY DEF AccessInv, PendingNew
    <3>2. InFlight => w.gen # pass.value
      BY DEF AccessInv, Unheld, InFlight
    <3>. QED
      BY <3>1, <3>2, Numbers DEF Kept
  <2>2. /\ LeftOlder' /\ token' = w.gen
        /\ once' \subseteq once \union ({w.gen} \ {0})
        /\ \A h \in left' : /\ h \in left \/ (h = token /\ h # 0)
                            /\ once \subseteq once'
    BY <1>2, <2>1, HoldLeft
  <2>3. Kept' = Kept
    BY DEF Kept, InFlight
  <2>4. TopKept'
    <3>1. PICK n \in Kept : (\A h \in Kept \union once : h <= n) /\ n \notin pass.todo
      BY <2>1 DEF LeftInv, TopKept
    <3>. QED
      BY <2>1, <2>2, <2>3, <3>1 DEF TopKept
  <2>5. LeftRead'
    <3>1. CASE pass.at = "plan"
      <4>1. ASSUME NEW g \in left'
            PROVE  (g <= pass.saw /\ pass.saw \in once') \/ \A h \in aged : h <= g
        <5>1. once \subseteq once'
          BY <2>2
        <5>2. CASE g \in left
          BY <3>1, <5>1, <5>2 DEF LeftInv, LeftRead
        <5>3. CASE g = token /\ g # 0
          <6>1. token = pass.saw \/ \A h \in aged : h <= token
            BY <3>1, <5>3 DEF AccessInv, SawHeld
          <6>2. token \in once /\ token <= token
            BY <5>3, Numbers DEF LeftInv, LeftOlder
          <6>. QED
            BY <5>1, <5>3, <6>1, <6>2
        <5>. QED
          BY <2>2, <5>2, <5>3
      <4>. QED
        BY <3>1, <4>1 DEF LeftInv, LeftRead
    <3>2. CASE pass.at # "plan"
      BY <3>2 DEF LeftRead
    <3>. QED
      BY <3>1, <3>2
  <2>6. LeftDoomed'
    <3>1. ASSUME pass.at \notin {"idle", "plan"}, NEW g \in left' \intersect pass.todo
          PROVE  \E h \in (aged \intersect once') \ pass.todo : h > g
      <4>1. g \in left /\ once \subseteq once'
        BY <2>2, <3>1 DEF AccessInv, Doomed
      <4>. QED
        BY <3>1, <4>1 DEF LeftInv, LeftDoomed
    <3>. QED
      BY <3>1 DEF LeftDoomed
  <2>. QED
    BY <2>2, <2>4, <2>5, <2>6 DEF LeftInv
<1>. QED
  BY <1>1, <1>2

\* A generation is minted: it is the newest, and no container has held it.
LEMMA MintLeft == ASSUME AccessInv, LeftInv, Mint PROVE LeftInv'
PROOF
<1>. USE DEF Mint, At, containerVars
<1>1. PICK g \in Gens : Minted(g) /\ pass' = [pass EXCEPT !.at = "write", !.value = g]
  OBVIOUS
<1>2. g \notin live /\ live' = live \union {g} /\ aged' = aged
  BY <1>1, MintedKeeps
<1>3. pass'.at = "write" /\ pass'.value = g /\ pass'.todo = pass.todo /\ pass'.mint
  BY <1>1 DEF AccessInv, Types, OtherTypes, PassState, Phased
<1>4. Kept' = live /\ Kept = live
  BY <1>2, <1>3 DEF Kept, InFlight, Writing
<1>. QED
  BY <1>2, <1>3, <1>4 DEF LeftInv, TopKept, LeftOlder, LeftRead, LeftDoomed

LEMMA MintLostLeft == ASSUME AccessInv, LeftInv, MintLost PROVE LeftInv'
PROOF
<1>. USE DEF MintLost, At, containerVars
<1>1. PICK g \in Gens : Minted(g)
  OBVIOUS
<1>2. g \notin live /\ live' = live \union {g} /\ aged' = aged /\ \A h \in live : h < g
  BY <1>1, MintedKeeps
<1>3. pass'.at = "delete" /\ pass'.todo = pass.todo
  BY GotoTypes DEF AccessInv, Types, OtherTypes, Delivered, Phases
<1>4. Kept' = live \union {g} /\ Kept = live
  BY <1>2, <1>3 DEF Kept, InFlight, Writing
<1>5. \A h \in live \union {g} \union once : h <= g
  <2>1. g \in Nat
    BY DEF Gens
  <2>2. \A h \in live : h <= g
    BY <1>2, <2>1, Numbers
  <2>3. ASSUME NEW h \in once PROVE h <= g
    <3>1. PICK n \in live : h <= n
      BY <1>4 DEF LeftInv, TopKept
    <3>. QED
      BY <2>1, <2>2, <3>1, Numbers
  <2>. QED
    BY <2>1, <2>2, <2>3
<1>6. g \notin pass.todo
  BY <1>2 DEF AccessInv, Doomed
<1>7. TopKept'
  BY <1>3, <1>4, <1>5, <1>6 DEF TopKept
<1>. QED
  BY <1>2, <1>3, <1>7 DEF LeftInv, LeftOlder, LeftRead, LeftDoomed

\* What was minted for a refused write goes.
LEMMA RollbackLeft == ASSUME AccessInv, LeftInv, Rollback PROVE LeftInv'
PROOF
<1>. USE DEF Rollback, At, containerVars
<1>1. pass'.at = "delete" /\ pass'.todo = pass.todo
  BY GotoTypes DEF AccessInv, Types, OtherTypes, Delivered, Phases
<1>2. InFlight /\ ~InFlight'
  BY <1>1 DEF InFlight, Writing, AccessInv, Phased
<1>3. Kept' = Kept
  BY <1>2 DEF Kept
<1>4. \A h \in once : h < pass.value /\ h # pass.value
  <2>1. \A h \in once : h < pass.value /\ h \in Nat /\ pass.value \in Nat
    BY <1>2, InFlightTop, Numbers DEF LeftInv
  <2>. QED
    BY <2>1
<1>. QED
  BY <1>1, <1>3, <1>4 DEF LeftInv, TopKept, LeftOlder, LeftRead, LeftDoomed

LEMMA DeleteGenerationLeft ==
  ASSUME AccessInv, LeftInv, NEW g \in Gens, DeleteGeneration(g)
  PROVE  LeftInv'
PROOF
<1>. USE DEF DeleteGeneration, At, containerVars
<1>1. pass'.at = "delete" /\ pass'.todo = pass.todo \ {g}
  BY DEF AccessInv, Types, OtherTypes, PassState
<1>2. Kept' = live \ {g} /\ Kept = live
  BY <1>1 DEF Kept, InFlight, Writing
<1>3. TopKept'
  BY <1>1, <1>2 DEF LeftInv, TopKept
<1>. QED
  BY <1>1, <1>3 DEF LeftInv, LeftOlder, LeftRead, LeftDoomed

\* Time passes: between a read and its plan, not for what a write replaced.
LEMMA AgesLeft ==
  ASSUME AccessInv, LeftInv, ~SlowWrites, NEW g \in Gens, Ages(g)
  PROVE  LeftInv'
PROOF
<1>. USE DEF Ages, At, containerVars
<1>1. TopKept' /\ LeftOlder' /\ LeftDoomed'
  BY DEF LeftInv, TopKept, Kept, InFlight, LeftOlder, LeftDoomed
<1>2. LeftRead'
  <2>1. CASE pass.at = "plan"
    <3>1. pass.saw = token
      BY <2>1
    <3>2. ASSUME NEW h \in left PROVE h <= token /\ token \in once
      <4>1. h < token /\ h \in Nat /\ token \in Nat
        BY Numbers DEF LeftInv, LeftOlder
      <4>. QED
        BY <4>1 DEF LeftInv, LeftOlder
    <3>. QED
      BY <2>1, <3>1, <3>2 DEF LeftInv, LeftRead
  <2>2. CASE pass.at # "plan"
    BY <2>2 DEF LeftRead
  <2>. QED
    BY <2>1, <2>2
<1>. QED
  BY <1>1, <1>2 DEF LeftInv

\* A pass takes a step that tells it nothing of the generations.
LEMMA PassLeft ==
  ASSUME AccessInv, LeftInv,
         \/ ReadVariables
         \/ \E v \in Plains : WritePlain(v) \/ WritePlainLost(v)
         \/ UpdateToken \/ CreateToken \/ ReadAgain \/ ReadAgainFails \/ Remake
         \/ PassEnds \/ CallFails \/ Restart
         \/ \E g \in Gens : DeleteFails(g)
  PROVE  LeftInv'
PROOF
<1>. USE DEF At, giteaVars, containerVars
<1>0. pass \in PassState
  BY DEF AccessInv, Types, OtherTypes
<1>1. CASE ReadVariables
  <2>1. CASE gone = "service"
    BY <1>1, <2>1, EndsLeft DEF ReadVariables
  <2>2. CASE gone # "service"
    <3>1. pass'.at = "url" /\ pass'.todo = pass.todo
      BY <1>0, <1>1, <2>2 DEF ReadVariables, PassState
    <3>2. ~InFlight'
      BY <3>1 DEF InFlight, Writing
    <3>. QED
      BY <1>1, <3>1, <3>2, LeftStill DEF ReadVariables
  <2>. QED
    BY <2>1, <2>2
<1>2. ASSUME NEW v \in Plains, WritePlain(v) PROVE LeftInv'
  <2>1. /\ pass'.at \in {"broker", "mint", "move", "delete"} /\ pass'.todo = pass.todo
        /\ pass.at \notin {"idle", "plan"}
    <3>1. AfterPlain(v) \in {"broker", "mint", "move", "delete"}
      BY DEF AfterPlain
    <3>2. \E p \in {"broker", "mint", "move", "delete"} : Goto(p)
      BY <1>2, <3>1 DEF WritePlain, Delivered
    <3>. QED
      BY <1>0, <1>2, <3>2, GotoTypes DEF WritePlain, Phases, Plains
  <2>2. ~InFlight'
    BY <2>1 DEF InFlight, Writing
  <2>. QED
    BY <1>2, <2>1, <2>2, LeftStill DEF WritePlain
<1>3. ASSUME NEW v \in Plains, WritePlainLost(v) PROVE LeftInv'
  BY <1>3, EndsLeft DEF WritePlainLost, Plains
<1>4. CASE UpdateToken
  <2>1. CASE TokenRefused
    BY <1>4, <2>1, EndsLeft DEF UpdateToken, Writing
  <2>2. CASE ~TokenRefused
    BY <1>4, <2>2, WritesLeft DEF UpdateToken
  <2>. QED
    BY <2>1, <2>2
<1>5. CASE CreateToken
  <2>1. CASE Refused
    BY <1>5, <2>1, EndsLeft DEF CreateToken, Writing
  <2>2. CASE ~Refused /\ key # "absent"
    <3>1. pass'.at = "again" /\ pass'.todo = pass.todo /\ pass'.value = pass.value
          /\ pass'.mint = pass.mint
      BY <1>0, <1>5, <2>2, GotoTypes DEF CreateToken, Phases
    <3>2. InFlight' => InFlight
      BY <1>5, <3>1 DEF InFlight, Writing, CreateToken
    <3>. QED
      BY <1>5, <2>2, <3>1, <3>2, LeftStill DEF CreateToken
  <2>3. CASE ~Refused /\ key = "absent"
    BY <1>5, <2>3, WritesLeft DEF CreateToken
  <2>. QED
    BY <2>1, <2>2, <2>3
<1>6. CASE ReadAgain
  <2>1. CASE gone = "service" \/ key = "absent"
    BY <1>6, <2>1, EndsLeft DEF ReadAgain, Writing
  <2>2. CASE ~(gone = "service" \/ key = "absent")
    <3>1. pass'.at = "write" /\ pass'.todo = pass.todo /\ pass'.value = pass.value
          /\ pass'.mint = pass.mint
      BY <1>0, <1>6, <2>2 DEF ReadAgain, PassState
    <3>2. InFlight' => InFlight
      BY <1>6, <3>1 DEF InFlight, Writing, ReadAgain
    <3>. QED
      BY <1>6, <2>2, <3>1, <3>2, LeftStill DEF ReadAgain
  <2>. QED
    BY <2>1, <2>2
<1>7. CASE ReadAgainFails
  BY <1>7, EndsLeft DEF ReadAgainFails, Writing
<1>8. CASE Remake
  <2>1. CASE GiveUp /\ UNCHANGED <<token, key, once, left>>
    BY <1>8, <2>1, EndsLeft DEF Remake, Writing
  <2>2. CASE Hold(pass.value) /\ Delivered
    BY <1>8, <2>2, WritesLeft DEF Remake
  <2>. QED
    BY <1>8, <2>1, <2>2 DEF Remake
<1>9. CASE pass' = Idle /\ UNCHANGED <<live, aged, token, once, left>>
  BY <1>9, LeftStill DEF Idle, InFlight, Writing
<1>10. CASE CallFails
  BY <1>9, <1>10, EndsLeft DEF CallFails
<1>11. ASSUME NEW g \in Gens, DeleteFails(g) PROVE LeftInv'
  <2>1. pass'.at = "delete" /\ pass'.todo \subseteq pass.todo /\ ~InFlight'
    BY <1>0, <1>11 DEF DeleteFails, PassState, InFlight, Writing
  <2>. QED
    BY <1>11, <2>1, LeftStill DEF DeleteFails
<1>. QED
  BY <1>1, <1>2, <1>3, <1>4, <1>5, <1>6, <1>7, <1>8, <1>9, <1>10, <1>11
     DEF PassEnds, Restart

\* The container loses its token.
LEMMA LossLeft ==
  ASSUME AccessInv, LeftInv, DeleteCased \/ TokenWriteLost \/ Edited \/ Recreated
  PROVE  LeftInv'
PROOF
<1>. USE DEF At, giteaVars
<1>0. pass \in PassState
  BY DEF AccessInv, Types, OtherTypes
<1>1. CASE DeleteCased
  <2>1. CASE TokenRefused
    BY <1>1, <2>1, EndsLeft DEF DeleteCased, Replaces, Writing
  <2>2. CASE ~TokenRefused
    <3>1. /\ pass'.at = "remake" /\ pass'.todo = pass.todo /\ pass'.mint = pass.mint
          /\ pass.mint => pass'.value = pass.value
      BY <1>0, <1>1, <2>2 DEF DeleteCased, PassState
    <3>2. InFlight' => InFlight /\ pass'.value = pass.value
      BY <1>1, <3>1 DEF InFlight, Writing, DeleteCased, Replaces, AccessInv, Phased
    <3>. QED
      BY <1>1, <2>2, <3>1, <3>2, LosesLeft DEF DeleteCased, Drop
  <2>. QED
    BY <2>1, <2>2
<1>2. CASE TokenWriteLost
  <2>1. CASE UNCHANGED <<token, key, once, left>>
    BY <1>2, <2>1, EndsLeft DEF TokenWriteLost
  <2>2. CASE Drop
    <3>1. pass'.at = "delete" /\ pass'.todo = pass.todo /\ ~InFlight'
      BY <1>0, <1>2, GotoTypes DEF TokenWriteLost, Delivered, Phases, InFlight, Writing
    <3>. QED
      BY <1>2, <2>2, <3>1, LosesLeft DEF TokenWriteLost, Drop
  <2>. QED
    BY <1>2, <2>1, <2>2 DEF TokenWriteLost
<1>3. CASE Edited
  BY <1>3, LosesLeft DEF Edited, InFlight
<1>4. CASE Recreated
  BY <1>4, LosesLeft DEF Recreated, InFlight
<1>. QED
  BY <1>1, <1>2, <1>3, <1>4

LEMMA LeftInit == Init => LeftInv
PROOF
<1>. SUFFICES ASSUME Init PROVE LeftInv
  OBVIOUS
<1>1. pass.at = "idle" /\ pass.todo = {} /\ ~InFlight /\ Kept = live
  BY DEF Init, Idle, InFlight, Writing, Kept
<1>2. \/ live = {} /\ token = 0 /\ once = {}
      \/ live = {1} /\ token = 1 /\ once = {1}
  BY DEF Init
<1>. QED
  BY <1>1, <1>2 DEF Init, LeftInv, TopKept, LeftOlder, LeftRead, LeftDoomed

LEMMA LeftKept ==
  ASSUME AccessInv, LeftInv, ~SlowWrites, [Next]_vars
  PROVE  LeftInv'
PROOF
<1>1. CASE UNCHANGED vars
  BY <1>1, SameLeft DEF vars, giteaVars, containerVars
<1>2. CASE PassNext
  BY <1>2, ReadMateLeft, PlanLeft, PassLeft, MintLeft, LossLeft, RollbackLeft,
     DeleteGenerationLeft DEF PassNext
<1>3. CASE Refusing \/ \E w \in pending : NeverLands(w)
  BY <1>3, SameLeft DEF Refusing, NeverLands, giteaVars, containerVars
<1>4. CASE Next /\ ~PassNext
  BY <1>3, <1>4, PassLeft, MintLostLeft, LossLeft, AgesLeft, LandsLeft DEF Next
<1>. QED
  BY <1>1, <1>2, <1>4

\* Of what a container held before, a step takes only what has such a successor.
LEMMA GoesAfterGrace ==
  ASSUME AccessInv, LeftInv, [Next]_vars, NEW g \in left, g \in live, g \notin live'
  PROVE  \E h \in aged \intersect once : h > g
PROOF
<1>1. CASE Rollback
  <2>1. g = pass.value /\ InFlight
    BY <1>1 DEF Rollback, InFlight, Writing, At, AccessInv, Phased
  <2>2. g \in once /\ g \in Nat
    BY Numbers DEF LeftInv, LeftOlder
  <2>. QED
    BY <2>1, <2>2, InFlightTop DEF LeftInv
<1>2. ASSUME NEW k \in Gens, DeleteGeneration(k) PROVE \E h \in aged \intersect once : h > g
  <2>1. g \in pass.todo /\ pass.at = "delete"
    BY <1>2 DEF DeleteGeneration, At
  <2>. QED
    BY <2>1 DEF LeftInv, LeftDoomed
<1>3. CASE Mint \/ MintLost
  BY <1>3 DEF Mint, MintLost, Minted
<1>4. CASE UNCHANGED vars
  BY <1>4 DEF vars, giteaVars
<1>5. CASE PassNext
  BY <1>1, <1>2, <1>3, <1>5 DEF PassNext, ReadMate, Plan, ReadVariables, WritePlain, UpdateToken,
     CreateToken, ReadAgain, DeleteCased, Remake, PassEnds, giteaVars
<1>6. CASE Next /\ ~PassNext
  BY <1>3, <1>6 DEF Next, WritePlainLost, TokenWriteLost, ReadAgainFails, CallFails, DeleteFails,
     Ages, Lands, NeverLands, Refusing, Edited, Recreated, Restart, giteaVars
<1>. QED
  BY <1>4, <1>5, <1>6

\* A generation the container held before a newer one goes only when one that
\* was written after it is past the grace, if no write lands after that of its
\* generation (planBotTokens).
THEOREM LeftStaysForGrace == ~SlowWrites => (Spec => LeftForGrace)
PROOF
<1>. SUFFICES ASSUME ~SlowWrites PROVE Spec => LeftForGrace
  OBVIOUS
<1>1. AccessInv /\ [Next]_vars => AccessInv'
  BY AccessKept
<1>2. AccessInv /\ LeftInv /\ [Next]_vars => LeftInv'
  BY LeftKept
<1>3. AccessInv /\ LeftInv /\ [Next]_vars =>
        [\A g \in left : g \in live /\ g \notin live'
           => \E h \in aged \intersect once : h > g]_vars
  BY GoesAfterGrace
<1>. QED
  BY <1>1, <1>2, <1>3, AccessInit, LeftInit, PTL DEF Spec, LeftForGrace

-----------------------------------------------------------------------------
(* Generations do not pile up, whenever the writes land.                    *)

\* The types are kept, whenever the writes land.
LEMMA PassTyped ==
  ASSUME Types, [Next]_vars
  PROVE  OtherTypes'
PROOF
<1>0. pass \in PassState /\ \A p \in Phases : Goto(p) => pass' \in PassState
  BY GotoTypes DEF Types, OtherTypes
<1>1. refusing' \in BOOLEAN
  <2>1. refusing \in BOOLEAN
    BY DEF Types, OtherTypes
  <2>2. UNCHANGED refusing \/ Refusing
    BY DEF Next, PassNext, ReadMate, Plan, ReadVariables, WritePlain, Mint, UpdateToken,
       CreateToken, ReadAgain, DeleteCased, Remake, Rollback, DeleteGeneration, PassEnds,
       WritePlainLost, MintLost, TokenWriteLost, ReadAgainFails, CallFails, DeleteFails, Ages,
       Lands, NeverLands, Edited, Recreated, Restart, vars
  <2>3. Refusing => refusing' \in BOOLEAN
    <3>1. (~refusing) \in BOOLEAN
      BY Zenon
    <3>. QED
      BY <3>1 DEF Refusing
  <2>. QED
    BY <2>1, <2>2, <2>3
<1>2. faults' \in 0..MaxFaults
  <2>1. faults \in 0..MaxFaults
    BY DEF Types, OtherTypes
  <2>2. Fault \/ UNCHANGED faults
    BY DEF Next, PassNext, ReadMate, Plan, ReadVariables, WritePlain, Mint, UpdateToken,
       CreateToken, ReadAgain, DeleteCased, Remake, Rollback, DeleteGeneration, PassEnds,
       WritePlainLost, MintLost, TokenWriteLost, ReadAgainFails, CallFails, DeleteFails, Ages,
       Lands, NeverLands, Refusing, Edited, Recreated, Restart, vars
  <2>. QED
    BY <2>1, <2>2 DEF Fault
<1>3. pass' \in PassState
  <2>1. CASE PassEnds \/ CallFails \/ Restart
    BY <1>0, <2>1, IdleTypes DEF PassEnds, CallFails, Restart, Delivered, Phases
  <2>2. CASE ReadMate
    BY <1>0, <2>2 DEF ReadMate, PassState, Phases, NeedsMint, Types, ContainerTypes
  <2>3. CASE Plan
    <3>1. Superseded(pass.saw) \subseteq Gens
      BY DEF Superseded, Types, TokenTypes
    <3>. QED
      BY <1>0, <2>3, <3>1 DEF Plan, PassState, Phases
  <2>4. CASE ReadVariables
    BY <1>0, <2>4 DEF ReadVariables, Delivered, PassState, Phases, Types, ContainerTypes
  <2>5. ASSUME NEW v \in Plains, WritePlain(v) \/ WritePlainLost(v) PROVE pass' \in PassState
    BY <1>0, <2>5 DEF WritePlain, WritePlainLost, Delivered, AfterPlain, Phases
  <2>6. CASE Mint
    <3>1. \A g \in Gens : g \in 0..MaxGen
      BY DEF Gens
    <3>. QED
      BY <1>0, <2>6, <3>1 DEF Mint, PassState, Phases
  <2>7. CASE ReadAgain
    BY <1>0, <2>7, GiveUpTypes DEF ReadAgain, PassState, Phases, Types, ContainerTypes
  <2>8. CASE UpdateToken \/ CreateToken \/ Remake \/ ReadAgainFails
    BY <1>0, <2>8, GiveUpTypes
       DEF UpdateToken, CreateToken, Remake, ReadAgainFails, Delivered, Phases
  <2>9. CASE DeleteCased
    BY <1>0, <2>9, GiveUpTypes DEF DeleteCased, PassState, Phases
  <2>10. CASE Rollback \/ MintLost \/ TokenWriteLost
    BY <1>0, <2>10 DEF Rollback, MintLost, TokenWriteLost, Delivered, Phases
  <2>11. ASSUME NEW g \in Gens, DeleteGeneration(g) \/ DeleteFails(g) PROVE pass' \in PassState
    BY <1>0, <2>11 DEF DeleteGeneration, DeleteFails, PassState
  <2>12. CASE UNCHANGED pass
    BY <1>0, <2>12
  <2>. QED
    BY <2>1, <2>2, <2>3, <2>4, <2>5, <2>6, <2>7, <2>8, <2>9, <2>10, <2>11, <2>12
       DEF Next, PassNext, Ages, Lands, NeverLands, Refusing, Edited, Recreated, vars
<1>. QED
  BY <1>1, <1>2, <1>3 DEF OtherTypes

LEMMA TokensTyped ==
  ASSUME Types, [Next]_vars
  PROVE  TokenTypes'
PROOF
<1>. USE DEF Types, TokenTypes
<1>1. CASE Mint \/ MintLost
  BY <1>1 DEF Mint, MintLost, Minted
<1>2. CASE Rollback \/ Restart \/ \E g \in Gens : DeleteGeneration(g) \/ Ages(g)
  BY <1>2 DEF Rollback, Restart, DeleteGeneration, Ages
<1>3. CASE UNCHANGED giteaVars
  BY <1>3 DEF giteaVars
<1>. QED
  BY <1>1, <1>2, <1>3 DEF Next, PassNext, ReadMate, Plan, ReadVariables, WritePlain, UpdateToken,
     CreateToken, ReadAgain, DeleteCased, Remake, PassEnds, WritePlainLost, TokenWriteLost,
     ReadAgainFails, CallFails, DeleteFails, Lands, NeverLands, Refusing, Edited, Recreated, vars

LEMMA ContainerTyped ==
  ASSUME Types, [Next]_vars
  PROVE  ContainerTypes'
PROOF
<1>0. ContainerTypes /\ pass.value \in 0..MaxGen
  BY DEF Types, OtherTypes, PassState
<1>1. ASSUME NEW g \in 0..MaxGen, Hold(g), UNCHANGED <<plain, gone>>, pending' \subseteq pending
      PROVE  ContainerTypes'
  BY <1>0, <1>1, HoldTypes DEF ContainerTypes
<1>2. CASE Drop /\ UNCHANGED <<plain, gone>>
  BY <1>0, <1>2, DropTypes
<1>3. CASE UNCHANGED <<token, key, once, left>> /\ pending' \subseteq pending
           /\ plain' \in [Plains -> Values] /\ gone' \in {"nothing", "token", "service"}
  BY <1>0, <1>3 DEF ContainerTypes
<1>4. CASE TokenWriteLost
  <2>1. pass.value # 0 => pass.value \in Gens
    BY <1>0 DEF Gens
  <2>2. CASE UNCHANGED <<token, key, once, left>>
    <3>1. pending' \subseteq [gen : Gens, how : {"create", "update"}]
      BY <1>0, <1>4, <2>1 DEF TokenWriteLost, ContainerTypes, Drop
    <3>. QED
      BY <1>0, <1>4, <2>2, <3>1 DEF TokenWriteLost, ContainerTypes
  <2>. QED
    BY <1>2, <1>4, <2>2 DEF TokenWriteLost
<1>5. CASE Edited
  <2>1. token' \in 0..MaxGen /\ key' \in Keys /\ once' \subseteq Gens /\ left' \subseteq Gens
    BY <1>0, <1>5 DEF Edited, ContainerTypes, Keys
  <2>2. gone' \in {"nothing", "token", "service"} /\ pending' \subseteq pending
    BY <1>0, <1>5 DEF Edited, ContainerTypes
  <2>. QED
    BY <1>0, <1>5, <2>1, <2>2 DEF Edited, ContainerTypes
<1>6. CASE Recreated
  <2>1. plain' \in [Plains -> Values]
    BY <1>6 DEF Recreated, Values
  <2>. QED
    BY <1>6, <2>1 DEF Recreated, ContainerTypes, Keys
<1>7. CASE \E w \in pending : Lands(w)
  <2>1. \A w \in pending : w.gen \in 0..MaxGen
    BY <1>0 DEF ContainerTypes, Gens
  <2>. QED
    BY <1>0, <1>1, <1>3, <1>7, <2>1 DEF Lands, ContainerTypes
<1>8. CASE UpdateToken \/ CreateToken \/ Remake \/ DeleteCased
  BY <1>0, <1>1, <1>2, <1>3, <1>8
     DEF UpdateToken, CreateToken, Remake, DeleteCased, ContainerTypes
<1>9. CASE \E v \in Plains : WritePlain(v) \/ WritePlainLost(v)
  <2>1. plain' \in [Plains -> Values]
    BY <1>0, <1>9 DEF WritePlain, WritePlainLost, ContainerTypes, Values
  <2>. QED
    BY <1>0, <1>3, <1>9, <2>1 DEF WritePlain, WritePlainLost, ContainerTypes
<1>. QED
  BY <1>0, <1>3, <1>4, <1>5, <1>6, <1>7, <1>8, <1>9 DEF Next, PassNext, ReadMate, Plan,
     ReadVariables, Mint, ReadAgain, Rollback, DeleteGeneration, PassEnds, MintLost,
     ReadAgainFails, CallFails, DeleteFails, Ages, NeverLands, Refusing, Restart, vars,
     containerVars, ContainerTypes

LEMMA TypesKept == ASSUME Types, [Next]_vars PROVE Types'
PROOF
  BY PassTyped, TokensTyped, ContainerTyped DEF Types

\* The next delivery will mint, and nothing is minted for it yet.
Due ==
  /\ ~InFlight
  /\ \/ NeedsMint \/ key = "cased"
     \/ pass.mint /\ pass.at \in {"plan", "deliver", "url", "broker", "mint"}

\* Once it is written, the next pass mints none.
Minting ==
  InFlight => /\ Newest(pass.value) /\ pass.value \in covers
              /\ plain["url"] = "right" \/ gone = "service"

\* GITEA_URL is there in one case, and right before a generation is minted.
PlainUrl ==
  /\ plain["url"] # "cased"
  /\ pass.at \in {"broker", "mint"} /\ pass.mint =>
       plain["url"] = "right" \/ gone = "service"

\* The token that a delivery read is under the key it read, or gone.
Have ==
  pass.at \in {"url", "broker", "mint", "move", "write"} /\ pass.have # "absent"
    /\ gone = "nothing" => key = pass.have

\* An update that may still land is of the token under its own name.
OwnUpdates == key # "own" => \A w \in pending : w.how = "create"

AbsentNone == key = "absent" => token = 0

Knows == Phased /\ Minting /\ PlainUrl /\ Have /\ OwnUpdates /\ AbsentNone

\* What there is, what may still land, and what is about to be minted: a fault
\* leaves at most two of these.
Weight == Cardinality(live) + Cardinality(pending) + (IF Due THEN 1 ELSE 0)
Bound == IsFiniteSet(pending) /\ Weight <= 2 + 2 * faults

PileInv == Types /\ Knows /\ Bound

LEMMA FewTokens == ASSUME Types PROVE IsFiniteSet(live) /\ Cardinality(live) \in Nat
PROOF
<1>1. IsFiniteSet(Gens)
  BY FS_Interval DEF Gens
<1>2. live \in SUBSET Gens
  BY DEF Types, TokenTypes
<1>3. IsFiniteSet(live)
  BY <1>1, <1>2, FS_Subset
<1>. QED
  BY <1>3, FS_CardinalityType

\* What a finite set weighs with one more, one fewer, or some fewer.
LEMMA Sizes ==
  ASSUME NEW S, NEW T, IsFiniteSet(S)
  PROVE  /\ Cardinality(S) \in Nat
         /\ T \subseteq S => /\ IsFiniteSet(T) /\ Cardinality(T) \in Nat
                            /\ Cardinality(T) <= Cardinality(S)
         /\ \A x : T \subseteq S \union {x} =>
              IsFiniteSet(T) /\ Cardinality(T) \in Nat /\ Cardinality(T) <= Cardinality(S) + 1
         /\ \A x \in S : T = S \ {x} => Cardinality(T) = Cardinality(S) - 1
PROOF
<1>1. Cardinality(S) \in Nat
  BY FS_CardinalityType
<1>2. ASSUME T \subseteq S
      PROVE  IsFiniteSet(T) /\ Cardinality(T) \in Nat /\ Cardinality(T) <= Cardinality(S)
  <2>1. T \in SUBSET S
    BY <1>2
  <2>2. IsFiniteSet(T) /\ Cardinality(T) <= Cardinality(S)
    BY <2>1, FS_Subset
  <2>. QED
    BY <2>2, FS_CardinalityType
<1>3. ASSUME NEW x, T \subseteq S \union {x}
      PROVE  IsFiniteSet(T) /\ Cardinality(T) \in Nat /\ Cardinality(T) <= Cardinality(S) + 1
  <2>1. T \in SUBSET (S \union {x})
    BY <1>3
  <2>2. IsFiniteSet(S \union {x}) /\ Cardinality(S \union {x}) <= Cardinality(S) + 1
    <3>1. /\ IsFiniteSet(S \union {x})
          /\ Cardinality(S \union {x}) = IF x \in S THEN Cardinality(S) ELSE Cardinality(S) + 1
      BY FS_AddElement
    <3>. QED
      BY <1>1, <3>1
  <2>3. IsFiniteSet(T) /\ Cardinality(T) <= Cardinality(S \union {x})
    BY <2>1, <2>2, FS_Subset
  <2>4. Cardinality(T) \in Nat /\ Cardinality(S \union {x}) \in Nat
    BY <2>2, <2>3, FS_CardinalityType
  <2>. QED
    BY <1>1, <2>2, <2>3, <2>4
<1>4. ASSUME NEW x \in S, T = S \ {x} PROVE Cardinality(T) = Cardinality(S) - 1
  BY <1>4, FS_RemoveElement
<1>. QED
  BY <1>1, <1>2, <1>3, <1>4

\* A step without a fault adds nothing, or trades.
LEMMA CalmBound ==
  ASSUME Types, Bound, UNCHANGED faults, live' \subseteq live, pending' \subseteq pending,
         \/ Due' => Due
         \/ \E g \in live : live' = live \ {g}
         \/ \E w \in pending : pending' = pending \ {w}
  PROVE  Bound'
PROOF
<1>1. IsFiniteSet(live) /\ IsFiniteSet(pending) /\ faults \in Nat
  BY FewTokens DEF Bound, Types, OtherTypes
<1>2. /\ Cardinality(live) \in Nat /\ Cardinality(live') \in Nat
      /\ Cardinality(live') <= Cardinality(live)
  BY <1>1, Sizes
<1>3. /\ Cardinality(pending) \in Nat /\ Cardinality(pending') \in Nat
      /\ Cardinality(pending') <= Cardinality(pending) /\ IsFiniteSet(pending')
  BY <1>1, Sizes
<1>4. CASE Due' => Due
  BY <1>1, <1>2, <1>3, <1>4 DEF Bound, Weight
<1>5. CASE \E g \in live : live' = live \ {g}
  <2>1. Cardinality(live') = Cardinality(live) - 1
    BY <1>1, <1>5, Sizes
  <2>. QED
    BY <1>1, <1>2, <1>3, <2>1 DEF Bound, Weight
<1>6. CASE \E w \in pending : pending' = pending \ {w}
  <2>1. Cardinality(pending') = Cardinality(pending) - 1
    BY <1>1, <1>6, Sizes
  <2>. QED
    BY <1>1, <1>2, <1>3, <2>1 DEF Bound, Weight
<1>. QED
  BY <1>4, <1>5, <1>6

\* What was due is minted.
LEMMA MintBound ==
  ASSUME Types, Bound, UNCHANGED <<faults, pending>>, Due, ~Due',
         NEW g, live' = live \union {g}
  PROVE  Bound'
PROOF
<1>1. IsFiniteSet(live) /\ IsFiniteSet(pending) /\ faults \in Nat
  BY FewTokens DEF Bound, Types, OtherTypes
<1>2. /\ Cardinality(live) \in Nat /\ Cardinality(live') \in Nat
      /\ Cardinality(live') <= Cardinality(live) + 1
  <2>1. live' \subseteq live \union {g}
    OBVIOUS
  <2>. QED
    BY <1>1, <2>1, Sizes
<1>3. Cardinality(pending) \in Nat
  BY <1>1, Sizes
<1>. QED
  BY <1>1, <1>2, <1>3 DEF Bound, Weight

\* A fault leaves one more of what there is, or one more write that may land.
LEMMA FaultBound ==
  ASSUME Types, Bound, Fault,
         \/ (\E g : live' \subseteq live \union {g}) /\ pending' \subseteq pending
         \/ live' \subseteq live /\ \E w : pending' \subseteq pending \union {w}
  PROVE  Bound'
PROOF
<1>1. IsFiniteSet(live) /\ IsFiniteSet(pending) /\ faults \in Nat /\ faults' = faults + 1
  BY FewTokens DEF Bound, Types, OtherTypes, Fault
<1>2. Cardinality(live) \in Nat /\ Cardinality(pending) \in Nat
  BY <1>1, Sizes
<1>3. CASE (\E g : live' \subseteq live \union {g}) /\ pending' \subseteq pending
  <2>1. Cardinality(live') \in Nat /\ Cardinality(live') <= Cardinality(live) + 1
    BY <1>1, <1>3, Sizes
  <2>2. /\ IsFiniteSet(pending') /\ Cardinality(pending') \in Nat
        /\ Cardinality(pending') <= Cardinality(pending)
    BY <1>1, <1>3, Sizes
  <2>. QED
    BY <1>1, <1>2, <2>1, <2>2 DEF Bound, Weight
<1>4. CASE live' \subseteq live /\ \E w : pending' \subseteq pending \union {w}
  <2>1. Cardinality(live') \in Nat /\ Cardinality(live') <= Cardinality(live)
    BY <1>1, <1>4, Sizes
  <2>2. /\ IsFiniteSet(pending') /\ Cardinality(pending') \in Nat
        /\ Cardinality(pending') <= Cardinality(pending) + 1
    BY <1>1, <1>4, Sizes
  <2>. QED
    BY <1>1, <1>2, <2>1, <2>2 DEF Bound, Weight
<1>. QED
  BY <1>3, <1>4

\* Outside a delivery, a pass knows nothing.
LEMMA QuietPhase ==
  ASSUME pass'.at \in {"idle", "plan", "deliver", "delete"}, plain'["url"] # "cased",
         OwnUpdates', AbsentNone'
  PROVE  Knows' /\ ~InFlight'
PROOF
  BY DEF Knows, Phased, Minting, PlainUrl, Have, InFlight, Writing

\* A delivery that ends makes nothing due.
LEMMA EndsPile ==
  ASSUME PileInv, Delivered, ~InFlight, UNCHANGED <<live, covers, token, key, plain, pending>>
  PROVE  Knows' /\ (Due' => Due)
PROOF
<1>1. pass'.at = "delete"
  BY GotoTypes DEF PileInv, Types, OtherTypes, Delivered, Phases
<1>2. Knows'
  BY <1>1, QuietPhase DEF PileInv, Knows, PlainUrl, OwnUpdates, AbsentNone
<1>. QED
  BY <1>1, <1>2 DEF Due, NeedsMint, Newest

LEMMA GiveUpPile ==
  ASSUME PileInv, GiveUp, pass.at \in Writing \union {"move"},
         UNCHANGED <<live, covers, token, key, plain, pending, gone>>
  PROVE  Knows' /\ (Due' => Due)
PROOF
<1>1. CASE pass.mint
  <2>1. /\ pass'.at = "rollback" /\ pass'.mint = pass.mint /\ pass'.value = pass.value
        /\ pass'.have = pass.have /\ InFlight /\ InFlight'
    BY <1>1, GotoTypes DEF PileInv, Types, OtherTypes, GiveUp, Phases, InFlight, Writing,
       Knows, Phased
  <2>. QED
    BY <1>1, <2>1 DEF PileInv, Knows, Phased, Minting, PlainUrl, Have, OwnUpdates, AbsentNone,
       Due, Newest
<1>2. CASE ~pass.mint
  BY <1>2, EndsPile DEF GiveUp, InFlight
<1>. QED
  BY <1>1, <1>2

\* The container holds what was minted: nothing is due.
LEMMA HoldPile ==
  ASSUME PileInv, pass.at \in {"write", "remake"}, Hold(pass.value), Delivered,
         pass.mint \/ key = "absent", gone # "service",
         UNCHANGED <<live, covers, plain, pending>>
  PROVE  Knows' /\ (Due' => Due)
PROOF
<1>1. pass'.at = "delete"
  BY GotoTypes DEF PileInv, Types, OtherTypes, Delivered, Phases
<1>2. token' = pass.value /\ key' = "own"
  BY DEF Hold
<1>3. Knows' /\ ~InFlight'
  BY <1>1, <1>2, QuietPhase DEF PileInv, Knows, PlainUrl, OwnUpdates, AbsentNone
<1>4. CASE pass.mint
  <2>1. Newest(pass.value) /\ pass.value \in covers /\ plain["url"] = "right"
    BY <1>4 DEF PileInv, Knows, Minting, InFlight, Writing
  <2>2. ~Due'
    BY <1>1, <1>2, <2>1 DEF Due, NeedsMint, Newest
  <2>. QED
    BY <1>3, <2>2
<1>5. CASE ~pass.mint /\ key = "absent"
  <2>1. token = 0 /\ 0 \notin live
    BY <1>5 DEF PileInv, Knows, AbsentNone, Types, TokenTypes, Gens
  <2>2. Due
    BY <1>5, <2>1 DEF Due, NeedsMint, Newest, InFlight
  <2>. QED
    BY <1>3, <2>2
<1>. QED
  BY <1>4, <1>5

\* A step of a pass that lists, plans or reads.
LEMMA ReadPile ==
  ASSUME PileInv, ReadMate \/ Plan \/ ReadVariables \/ PassEnds
  PROVE  Knows' /\ Bound'
PROOF
<1>. USE DEF At, giteaVars, containerVars
<1>0. pass \in PassState /\ Types /\ Bound
  BY DEF PileInv, Types, OtherTypes
<1>1. CASE ReadMate
  <2>1. pass'.at = "plan" /\ pass'.mint = NeedsMint
    BY <1>0, <1>1 DEF ReadMate, PassState
  <2>2. Knows' /\ ~InFlight' /\ ~InFlight
    BY <1>1, <2>1, QuietPhase
       DEF ReadMate, PileInv, Knows, PlainUrl, OwnUpdates, AbsentNone, InFlight, Writing
  <2>3. Due' => Due
    BY <1>1, <2>1, <2>2 DEF ReadMate, Due, NeedsMint, Newest
  <2>. QED
    BY <1>0, <1>1, <2>2, <2>3, CalmBound DEF ReadMate
<1>2. CASE Plan
  <2>1. pass'.at \in {"deliver", "delete"} /\ pass'.mint = pass.mint
    BY <1>0, <1>2 DEF Plan, PassState
  <2>2. Knows' /\ ~InFlight' /\ ~InFlight
    BY <1>2, <2>1, QuietPhase
       DEF Plan, PileInv, Knows, PlainUrl, OwnUpdates, AbsentNone, InFlight, Writing
  <2>3. Due' => Due
    BY <1>2, <2>1, <2>2 DEF Plan, Due, NeedsMint, Newest
  <2>. QED
    BY <1>0, <1>2, <2>2, <2>3, CalmBound DEF Plan
<1>3. CASE ReadVariables
  <2>1. ~InFlight
    BY <1>3 DEF ReadVariables, InFlight, Writing
  <2>2. CASE gone = "service"
    BY <1>0, <1>3, <2>1, <2>2, EndsPile, CalmBound DEF ReadVariables
  <2>3. CASE gone # "service"
    <3>1. pass'.at = "url" /\ pass'.mint = pass.mint /\ pass'.have = key
      BY <1>0, <1>3, <2>3 DEF ReadVariables, PassState
    <3>2. Knows'
      BY <1>3, <3>1 DEF ReadVariables, PileInv, Knows, Phased, Minting, PlainUrl, Have, OwnUpdates,
         AbsentNone, InFlight, Writing
    <3>3. Due' => Due
      BY <1>3, <2>1, <3>1 DEF ReadVariables, Due, NeedsMint, Newest
    <3>. QED
      BY <1>0, <1>3, <3>2, <3>3, CalmBound DEF ReadVariables
  <2>. QED
    BY <2>2, <2>3
<1>4. CASE PassEnds
  <2>1. pass'.at = "idle" /\ ~pass'.mint /\ ~InFlight
    BY <1>4 DEF PassEnds, Idle, InFlight, Writing
  <2>2. Knows'
    BY <1>4, <2>1, QuietPhase DEF PassEnds, PileInv, Knows, PlainUrl, OwnUpdates, AbsentNone
  <2>3. Due' => Due
    BY <1>4, <2>1 DEF PassEnds, Due, NeedsMint, Newest
  <2>. QED
    BY <1>0, <1>4, <2>2, <2>3, CalmBound DEF PassEnds
<1>. QED
  BY <1>1, <1>2, <1>3, <1>4

\* A plain variable is made right before a generation is minted.
LEMMA PlainPile ==
  ASSUME PileInv, NEW v \in Plains, WritePlain(v)
  PROVE  Knows' /\ Bound'
PROOF
<1>. USE DEF At, giteaVars
<1>0. pass \in PassState /\ Types /\ Bound /\ plain \in [Plains -> Values]
  BY DEF PileInv, Types, OtherTypes, ContainerTypes
<1>1. ~InFlight
  BY DEF WritePlain, InFlight, Writing, Plains
<1>2. CASE Delivered /\ plain'["url"] = plain["url"]
  <2>1. pass'.at = "delete" /\ plain["url"] # "cased"
    BY <1>0, <1>2, GotoTypes DEF Delivered, Phases, PileInv, Knows, PlainUrl
  <2>2. plain'["url"] = plain["url"]
    BY <1>2
  <2>3. Knows' /\ ~InFlight'
    BY <2>1, <2>2, QuietPhase
       DEF WritePlain, PileInv, Knows, PlainUrl, OwnUpdates, AbsentNone
  <2>4. Due' => Due
    BY <1>1, <2>1, <2>2, <2>3 DEF WritePlain, Due, NeedsMint, Newest
  <2>. QED
    BY <1>0, <2>3, <2>4, CalmBound DEF WritePlain
<1>3. CASE Goto(AfterPlain(v)) /\ plain'["url"] \in {plain["url"], "right"}
           /\ (v = "url" => plain'["url"] = "right")
  <2>1. /\ pass'.at = AfterPlain(v) /\ pass'.mint = pass.mint /\ pass'.have = pass.have
    BY <1>0, <1>3, GotoTypes DEF AfterPlain, Phases
  <2>2. ~InFlight' /\ (Due' => Due)
    BY <1>1, <1>3, <2>1 DEF WritePlain, AfterPlain, InFlight, Writing, Due, NeedsMint, Newest, Plains
  <2>3. Knows'
    BY <1>3, <2>1, <2>2 DEF WritePlain, AfterPlain, PileInv, Knows, Phased, Minting, PlainUrl,
       Have, OwnUpdates, AbsentNone, Plains
  <2>. QED
    BY <1>0, <2>2, <2>3, CalmBound DEF WritePlain
<1>4. plain["url"] # "cased"
  BY DEF PileInv, Knows, PlainUrl
<1>5. CASE v = "url"
  <2>1. plain' = [plain EXCEPT !["url"] = "right"] => plain'["url"] = "right"
    BY <1>0 DEF Plains
  <2>. QED
    BY <1>2, <1>3, <1>4, <1>5, <2>1 DEF WritePlain
<1>6. CASE v = "broker"
  <2>1. \A r : plain' = [plain EXCEPT !["broker"] = r] => plain'["url"] = plain["url"]
    BY <1>0 DEF Plains
  <2>. QED
    BY <1>2, <1>3, <1>6, <2>1 DEF WritePlain
<1>. QED
  BY <1>5, <1>6 DEF Plains

LEMMA MintPile == ASSUME PileInv, Mint PROVE Knows' /\ Bound'
PROOF
<1>. USE DEF Mint, At, containerVars
<1>0. pass \in PassState /\ Types /\ Bound
  BY DEF PileInv, Types, OtherTypes
<1>1. PICK g \in Gens : Minted(g) /\ pass' = [pass EXCEPT !.at = "write", !.value = g]
  OBVIOUS
<1>2. /\ live' = live \union {g} /\ covers' = covers \union {g}
      /\ \A h \in live : h < g
  BY <1>1 DEF Minted
<1>3. pass'.at = "write" /\ pass'.value = g /\ pass'.mint /\ pass'.have = pass.have /\ pass.mint
  BY <1>0, <1>1 DEF PassState, PileInv, Knows, Phased
<1>4. \A h \in live' : h <= g
  BY <1>0, <1>2 DEF Types, TokenTypes, Gens
<1>5. Due /\ InFlight' /\ ~Due'
  BY <1>3 DEF Due, InFlight, Writing
<1>6. Knows'
  BY <1>2, <1>3, <1>4 DEF PileInv, Knows, Phased, Minting, PlainUrl, Have, OwnUpdates, AbsentNone,
     Newest
<1>. QED
  BY <1>0, <1>2, <1>5, <1>6, MintBound

\* A write of the token, or the read between two.
LEMMA WritePile ==
  ASSUME PileInv, UpdateToken \/ CreateToken \/ ReadAgain \/ Remake
  PROVE  Knows' /\ Bound'
PROOF
<1>. USE DEF At, giteaVars
<1>0. /\ pass \in PassState /\ Types /\ Bound
      /\ pass.at \in {"write", "again"} => pass.mint
  BY DEF PileInv, Types, OtherTypes, Knows, Phased
<1>1. CASE UpdateToken
  <2>1. Knows' /\ (Due' => Due)
    BY <1>0, <1>1, GiveUpPile, HoldPile DEF UpdateToken, TokenRefused, Writing
  <2>. QED
    BY <1>0, <1>1, <2>1, CalmBound DEF UpdateToken
<1>2. CASE CreateToken
  <2>1. CASE Goto("again") /\ UNCHANGED <<token, key, once, left>>
    <3>1. /\ pass'.at = "again" /\ pass'.mint = pass.mint /\ pass'.value = pass.value
          /\ InFlight /\ InFlight'
      BY <1>0, <1>2, <2>1, GotoTypes DEF Phases, CreateToken, InFlight, Writing
    <3>2. Knows' /\ ~Due'
      BY <1>0, <1>2, <2>1, <3>1 DEF CreateToken, PileInv, Knows, Phased, Minting, PlainUrl, Have,
         OwnUpdates, AbsentNone, Due, Newest
    <3>. QED
      BY <1>0, <1>2, <3>2, CalmBound DEF CreateToken
  <2>2. CASE ~(Goto("again") /\ UNCHANGED <<token, key, once, left>>)
    <3>1. Knows' /\ (Due' => Due)
      BY <1>0, <1>2, <2>2, GiveUpPile, HoldPile DEF CreateToken, Refused, Writing
    <3>. QED
      BY <1>0, <1>2, <3>1, CalmBound DEF CreateToken
  <2>. QED
    BY <2>1, <2>2
<1>3. CASE ReadAgain
  <2>1. CASE gone = "service" \/ key = "absent"
    <3>1. Knows' /\ (Due' => Due)
      BY <1>3, <2>1, GiveUpPile DEF ReadAgain, Writing
    <3>. QED
      BY <1>0, <1>3, <3>1, CalmBound DEF ReadAgain
  <2>2. CASE ~(gone = "service" \/ key = "absent")
    <3>1. /\ pass'.at = "write" /\ pass'.have = key /\ pass'.mint = pass.mint
          /\ pass'.value = pass.value /\ InFlight /\ InFlight'
      BY <1>0, <1>3, <2>2 DEF ReadAgain, PassState, InFlight, Writing
    <3>2. Knows' /\ ~Due'
      BY <1>0, <1>3, <2>2, <3>1 DEF ReadAgain, PileInv, Knows, Phased, Minting, PlainUrl, Have,
         OwnUpdates, AbsentNone, Due, Newest
    <3>. QED
      BY <1>0, <1>3, <3>2, CalmBound DEF ReadAgain
  <2>. QED
    BY <2>1, <2>2
<1>4. CASE Remake
  <2>1. Knows' /\ (Due' => Due)
    BY <1>4, GiveUpPile, HoldPile DEF Remake, Refused, Writing
  <2>. QED
    BY <1>0, <1>4, <2>1, CalmBound DEF Remake
<1>. QED
  BY <1>1, <1>2, <1>3, <1>4

\* A token under another case goes only for one that is due, or minted.
LEMMA CasedPile == ASSUME PileInv, DeleteCased PROVE Knows' /\ Bound'
PROOF
<1>. USE DEF DeleteCased, Replaces, At, giteaVars
<1>0. pass \in PassState /\ Types /\ Bound
  BY DEF PileInv, Types, OtherTypes
<1>1. CASE TokenRefused
  <2>1. Knows' /\ (Due' => Due)
    BY <1>1, GiveUpPile DEF Writing
  <2>. QED
    BY <1>0, <1>1, <2>1, CalmBound
<1>2. CASE ~TokenRefused
  <2>1. /\ pass'.at = "remake" /\ pass'.mint = pass.mint
        /\ pass.mint => pass'.value = pass.value
    BY <1>0, <1>2 DEF PassState
  <2>2. token' = 0 /\ key' = "absent" /\ pending' \subseteq pending
        /\ \A w \in pending' : w.how = "create"
    BY <1>2 DEF Drop
  <2>3. Knows'
    BY <1>2, <2>1, <2>2 DEF PileInv, Knows, Phased, Minting, PlainUrl, Have, OwnUpdates, AbsentNone,
       InFlight, Writing, Newest
  <2>4. Due' => Due
    <3>1. CASE pass.mint
      BY <2>1, <3>1 DEF Due, InFlight, Writing
    <3>2. CASE ~pass.mint
      <4>1. pass.at = "move" /\ pass.have = "cased"
        BY <3>2 DEF PileInv, Knows, Phased
      <4>2. key = "cased"
        BY <1>2, <4>1 DEF TokenRefused, PileInv, Knows, Have
      <4>. QED
        BY <3>2, <4>2 DEF Due, InFlight
    <3>. QED
      BY <3>1, <3>2
  <2>. QED
    BY <1>0, <1>2, <2>2, <2>3, <2>4, CalmBound
<1>. QED
  BY <1>1, <1>2

\* What goes leaves room for what is due.
LEMMA GoesPile ==
  ASSUME PileInv, Rollback \/ \E g \in Gens : DeleteGeneration(g)
  PROVE  Knows' /\ Bound'
PROOF
<1>. USE DEF At, containerVars
<1>0. pass \in PassState /\ Types /\ Bound
  BY DEF PileInv, Types, OtherTypes
<1>1. CASE Rollback
  <2>1. pass'.at = "delete"
    BY <1>0, <1>1, GotoTypes DEF Rollback, Delivered, Phases
  <2>2. Knows'
    BY <1>1, <2>1, QuietPhase DEF Rollback, PileInv, Knows, PlainUrl, OwnUpdates, AbsentNone
  <2>3. pass.value \in live
    BY <1>1 DEF Rollback, PileInv, Knows, Phased, Minting, InFlight, Writing, Newest
  <2>. QED
    BY <1>0, <1>1, <2>2, <2>3, CalmBound DEF Rollback
<1>2. ASSUME NEW g \in Gens, DeleteGeneration(g) PROVE Knows' /\ Bound'
  <2>1. pass'.at = "delete" /\ pass'.mint = pass.mint /\ ~InFlight
    BY <1>0, <1>2 DEF DeleteGeneration, PassState, InFlight, Writing
  <2>2. Knows'
    BY <1>2, <2>1, QuietPhase
       DEF DeleteGeneration, PileInv, Knows, PlainUrl, OwnUpdates, AbsentNone
  <2>3. CASE g \in live
    BY <1>0, <1>2, <2>2, <2>3, CalmBound DEF DeleteGeneration
  <2>4. CASE g \notin live
    <3>1. live' = live /\ covers' = covers
      BY <1>0, <1>2, <2>4 DEF DeleteGeneration, Types, TokenTypes
    <3>2. Due' => Due
      BY <1>2, <2>1, <3>1 DEF DeleteGeneration, Due, NeedsMint, Newest
    <3>. QED
      BY <1>0, <1>2, <2>2, <3>1, <3>2, CalmBound DEF DeleteGeneration
  <2>. QED
    BY <2>3, <2>4
<1>. QED
  BY <1>1, <1>2

\* A fault of a pass, or one that ends it.
LEMMA PassFaultPile ==
  ASSUME PileInv,
         \/ \E v \in Plains : WritePlainLost(v)
         \/ MintLost \/ TokenWriteLost \/ ReadAgainFails \/ CallFails \/ Restart
         \/ \E g \in Gens : DeleteFails(g)
  PROVE  Knows' /\ Bound'
PROOF
<1>. USE DEF At, giteaVars, containerVars
<1>0. pass \in PassState /\ Types /\ Bound /\ plain \in [Plains -> Values]
  BY DEF PileInv, Types, OtherTypes, ContainerTypes
<1>1. ASSUME pass'.at \in {"idle", "delete"}, UNCHANGED <<token, key, plain, pending>> PROVE Knows'
  BY <1>1, QuietPhase DEF PileInv, Knows, PlainUrl, OwnUpdates, AbsentNone
<1>2. Delivered => pass'.at = "delete"
  BY <1>0, GotoTypes DEF Delivered, Phases
<1>3. ASSUME NEW v \in Plains, WritePlainLost(v) PROVE Knows' /\ Bound'
  <2>1. \A r : plain' = [plain EXCEPT ![v] = r] => plain'["url"] \in {plain["url"], r}
    BY <1>0 DEF Plains
  <2>2. plain'["url"] # "cased"
    <3>1. PICK r \in {plain[v], "wrong", "right"} : plain' = [plain EXCEPT ![v] = r]
      BY <1>3 DEF WritePlainLost
    <3>2. v = "url" \/ plain'["url"] = plain["url"]
      BY <1>0, <3>1 DEF Plains
    <3>. QED
      BY <2>1, <3>1, <3>2 DEF PileInv, Knows, PlainUrl
  <2>3. Knows'
    BY <1>2, <1>3, <2>2, QuietPhase DEF WritePlainLost, PileInv, Knows, OwnUpdates, AbsentNone
  <2>. QED
    BY <1>0, <1>3, <2>3, FaultBound DEF WritePlainLost
<1>4. CASE MintLost
  <2>1. \E g : live' \subseteq live \union {g}
    BY <1>4 DEF MintLost, Minted
  <2>. QED
    BY <1>0, <1>1, <1>2, <1>4, <2>1, FaultBound DEF MintLost
<1>5. CASE TokenWriteLost
  <2>1. plain'["url"] # "cased"
    BY <1>5 DEF TokenWriteLost, PileInv, Knows, PlainUrl
  <2>2. OwnUpdates' /\ AbsentNone' /\ \E w : pending' \subseteq pending \union {w}
    <3>1. CASE UNCHANGED <<token, key, once, left, pending>>
      BY <3>1 DEF PileInv, Knows, OwnUpdates, AbsentNone
    <3>2. CASE Drop
      BY <3>2 DEF Drop, OwnUpdates, AbsentNone
    <3>3. CASE ~Replaces /\ UNCHANGED <<token, key, once, left>>
               /\ pass.value # 0
               /\ LET update == At("write") /\ pass.have = "own"
                  IN /\ update => gone = "nothing"
                     /\ pending' = pending \union
                          {[gen |-> pass.value, how |-> IF update THEN "update" ELSE "create"]}
      <4>1. At("write") /\ pass.have = "own" /\ gone = "nothing" => key = "own"
        BY DEF PileInv, Knows, Have
      <4>. QED
        BY <3>3, <4>1 DEF PileInv, Knows, OwnUpdates, AbsentNone
    <3>. QED
      BY <1>5, <3>1, <3>2, <3>3 DEF TokenWriteLost
  <2>3. Knows'
    BY <1>2, <1>5, <2>1, <2>2, QuietPhase DEF TokenWriteLost
  <2>. QED
    BY <1>0, <1>5, <2>2, <2>3, FaultBound DEF TokenWriteLost
<1>6. CASE ReadAgainFails
  <2>1. Knows'
    BY <1>6, GiveUpPile DEF ReadAgainFails, Writing
  <2>. QED
    BY <1>0, <1>6, <2>1, FaultBound DEF ReadAgainFails
<1>7. CASE CallFails
  BY <1>0, <1>1, <1>2, <1>7, FaultBound DEF CallFails, Idle
<1>8. CASE Restart
  BY <1>0, <1>1, <1>8, FaultBound DEF Restart, Idle
<1>9. ASSUME NEW g \in Gens, DeleteFails(g) PROVE Knows' /\ Bound'
  <2>1. pass'.at = "delete"
    BY <1>0, <1>9 DEF DeleteFails, PassState
  <2>. QED
    BY <1>0, <1>1, <1>9, <2>1, FaultBound DEF DeleteFails
<1>. QED
  BY <1>3, <1>4, <1>5, <1>6, <1>7, <1>8, <1>9

\* The container changes under the pass.
LEMMA ContainerPile ==
  ASSUME PileInv,
         \/ Edited \/ Recreated \/ Refusing
         \/ \E w \in pending : Lands(w) \/ NeverLands(w)
         \/ \E g \in Gens : Ages(g)
  PROVE  Knows' /\ Bound'
PROOF
<1>. USE DEF giteaVars, containerVars
<1>0. Types /\ Bound /\ Knows
  BY DEF PileInv
<1>1. ASSUME UNCHANGED <<pass, plain, gone, live, covers>>, OwnUpdates', AbsentNone',
             UNCHANGED key \/ (key' = "own" /\ (key = "own" \/ key = "absent"))
      PROVE  Knows'
  <2>1. Phased' /\ PlainUrl' /\ Minting'
    BY <1>0, <1>1 DEF Knows, Phased, PlainUrl, Minting, InFlight, Newest
  <2>2. Have'
    BY <1>0, <1>1 DEF Knows, Have
  <2>. QED
    BY <1>1, <2>1, <2>2 DEF Knows
<1>2. CASE Refusing \/ \E g \in Gens : Ages(g)
  <2>1. Knows'
    BY <1>0, <1>1, <1>2 DEF Refusing, Ages, Knows, OwnUpdates, AbsentNone
  <2>2. Due' => Due
    BY <1>2 DEF Refusing, Ages, Due, NeedsMint, Newest, InFlight
  <2>. QED
    BY <1>0, <1>2, <2>1, <2>2, CalmBound DEF Refusing, Ages
<1>3. ASSUME NEW w \in pending, Lands(w) \/ NeverLands(w) PROVE Knows' /\ Bound'
  <2>1. CASE UNCHANGED <<token, key>>
    <3>1. Knows'
      BY <1>0, <1>1, <1>3, <2>1 DEF Lands, NeverLands, Knows, OwnUpdates, AbsentNone
    <3>. QED
      BY <1>0, <1>3, <3>1, CalmBound DEF Lands, NeverLands
  <2>2. CASE Hold(w.gen) /\ (w.how = "create") = (key = "absent")
    <3>1. key' = "own" /\ (key = "own" \/ key = "absent")
      BY <1>0, <2>2 DEF Hold, Knows, OwnUpdates
    <3>2. Knows'
      BY <1>1, <1>3, <3>1 DEF Lands, NeverLands, OwnUpdates, AbsentNone
    <3>. QED
      BY <1>0, <1>3, <3>2, CalmBound DEF Lands, NeverLands
  <2>. QED
    BY <1>3, <2>1, <2>2 DEF Lands, NeverLands
<1>4. CASE Edited \/ Recreated
  <2>1. pending' \subseteq pending /\ live' = live /\ covers' = covers /\ pass' = pass /\ token' = 0
    BY <1>4 DEF Edited, Recreated
  <2>2. plain'["url"] \in {plain["url"], "wrong"}
    BY <1>4 DEF Edited, Recreated, Plains
  <2>3. plain'["url"] = plain["url"] \/ gone' = "service"
    BY <1>4 DEF Edited, Recreated
  <2>4. gone = "service" => gone' = "service"
    BY <1>4 DEF Edited, Recreated
  <2>5. Phased' /\ Minting' /\ PlainUrl'
    BY <1>0, <2>1, <2>2, <2>3, <2>4 DEF Knows, Phased, Minting, PlainUrl, InFlight, Newest
  <2>6. Have'
    BY <1>0, <1>4 DEF Edited, Recreated, Knows, Have
  <2>7. OwnUpdates' /\ AbsentNone'
    BY <1>0, <1>4 DEF Edited, Recreated, Knows, OwnUpdates, AbsentNone
  <2>8. Bound'
    BY <1>0, <1>4, <2>1, FaultBound DEF Edited, Recreated
  <2>. QED
    BY <2>5, <2>6, <2>7, <2>8 DEF Knows
<1>. QED
  BY <1>2, <1>3, <1>4

LEMMA PileKept == ASSUME PileInv, [Next]_vars PROVE PileInv'
PROOF
<1>1. Types'
  BY TypesKept DEF PileInv
<1>2. CASE UNCHANGED vars
  BY <1>1, <1>2 DEF vars, giteaVars, containerVars, PileInv, Knows, Phased, Minting, PlainUrl, Have,
     OwnUpdates, AbsentNone, Bound, Weight, Due, NeedsMint, InFlight, Newest
<1>3. CASE PassNext
  BY <1>1, <1>3, ReadPile, PlainPile, MintPile, WritePile, CasedPile, GoesPile
     DEF PassNext, PileInv
<1>4. CASE Next /\ ~PassNext
  BY <1>1, <1>4, PassFaultPile, ContainerPile DEF Next, PileInv
<1>. QED
  BY <1>2, <1>3, <1>4

LEMMA PileInit == Init => PileInv
PROOF
<1>. SUFFICES ASSUME Init PROVE PileInv
  OBVIOUS
<1>1. Types
  BY AccessInit DEF AccessInv
<1>2. pass.at = "idle" /\ ~InFlight
  BY DEF Init, Idle, InFlight, Writing
<1>3. Knows
  BY <1>2 DEF Init, Plains, Knows, Phased, Minting, PlainUrl, Have, OwnUpdates, AbsentNone
<1>4. Bound
  <2>1. live \subseteq {} \union {1} /\ pending = {} /\ faults = 0
    BY DEF Init
  <2>2. IsFiniteSet({}) /\ Cardinality({}) = 0
    BY FS_EmptySet
  <2>3. Cardinality(live) \in Nat /\ Cardinality(live) <= 0 + 1
    BY <2>1, <2>2, Sizes
  <2>. QED
    BY <2>1, <2>2, <2>3 DEF Bound, Weight
<1>. QED
  BY <1>1, <1>3, <1>4 DEF PileInv

\* However often a container refuses its token, and however late its writes land,
\* generations do not pile up (deliverMateAccess rolls back what was refused,
\* planBotTokens lists what was replaced).
THEOREM GenerationsBounded == Spec => []NoPile
PROOF
<1>1. PileInv /\ [Next]_vars => PileInv'
  BY PileKept
<1>2. PileInv => NoPile
  <2>. SUFFICES ASSUME PileInv PROVE NoPile
    OBVIOUS
  <2>1. Cardinality(live) \in Nat /\ Cardinality(pending) \in Nat /\ faults \in Nat
    BY FewTokens, FS_CardinalityType DEF PileInv, Bound, Types, OtherTypes
  <2>. QED
    BY <2>1 DEF PileInv, Bound, Weight, NoPile
<1>. QED
  BY <1>1, <1>2, PileInit, PTL DEF Spec

-----------------------------------------------------------------------------
(* The rights loop: types, and the lock.                                   *)

RunPhases == {"start", "select", "watch", "lock", "read", "apply", "settle"}
Registries == {{Unknown}} \union {FingerprintOf[list] : list \in TagLists}
Results == [registry : Registries, waiting : 0..MaxMates, failed : BOOLEAN]

WorldTypes == tags \in TagLists /\ stuck \in 0..MaxMates /\ events \in 0..MaxEvents

WhereTypes ==
  /\ at \in [Callers -> RunPhases \union {"none"}]
  /\ at["run"] \in RunPhases /\ at["now"] \in {"none", "lock", "read", "apply"}
  /\ result \in [Callers -> Results]

ClockTypes ==
  /\ timer \in {Off} \union 0..NudgeDelay
  /\ ticker \in [left : 1..Interval, due : BOOLEAN]
  /\ watcher \in [left : 1..WatchInterval, due : BOOLEAN]

LastTypes ==
  /\ lastSeen \in Registries /\ lastActed \in Registries /\ lastWaiting \in 0..MaxMates
  /\ lastAge \in 0..ChaseInterval /\ chase \in 0..ChaseFor

HistoryTypes ==
  /\ owed \in {Off} \union 0..NudgeDelay + 1 /\ late \in 0..WatchInterval + 1
  /\ calm \in 0..Interval + ChaseFor /\ latest \in Results

LoopTypes ==
  /\ WorldTypes /\ WhereTypes /\ ClockTypes /\ LastTypes /\ HistoryTypes
  /\ nudges \in BOOLEAN /\ trusted \in BOOLEAN

\* One pass at a time, and who makes it has the lock.
OnePass ==
  /\ passMu \in Callers \union {"free"}
  /\ \A c \in Callers : passMu = c <=> at[c] \in {"read", "apply"}

\* A nudge that waits is taken before a unit passes; then its timer runs, and at
\* its end Run is on its way to a pass.
NudgeOnItsWay ==
  owed # Off =>
    IF nudges THEN owed = 0
    ELSE \/ timer # Off /\ owed + timer <= NudgeDelay
         \/ at["run"] = "lock" /\ owed <= NudgeDelay

\* The registry that a pass has read is no longer what it is.
Stale(c) == result[c].registry # Now

\* The watch comes in time for the change that is counted.
InTime == watcher.due \/ late + watcher.left <= WatchInterval

\* A pass brings a registry or fails; what Run compares the registry with is
\* what the last pass read, or a pass of its own is ahead.
Heard ==
  /\ \A c \in Callers : at[c] = "apply" => result[c].registry # {Unknown} /\ ~result[c].failed
  /\ at["run"] = "settle" => result["run"].failed \/ result["run"].registry # {Unknown}
  /\ trusted => /\ latest.registry # {Unknown}
                /\ lastSeen = latest.registry \/ at["run"] \in {"lock", "read", "apply"}

\* A change is counted from the last one on, and only at the select, where the
\* watch comes in time for it; the pass that a change finds under way makes no
\* difference.
WatchComes ==
  /\ late <= WatchInterval
  /\ at["run"] = "select" /\ trusted /\ latest.registry # Now => InTime
  /\ at["run"] \in {"apply", "settle"} /\ ~result["run"].failed /\ Stale("run") => late = 0
  /\ at["now"] = "apply" /\ Stale("now") =>
       /\ late = 0 \/ (trusted /\ latest.registry # Now /\ at["run"] # "settle")
       /\ at["run"] = "select" => InTime

\* The loop knows all there is, and no pass is about to tell it what was.
Informed ==
  /\ lastSeen = Now /\ lastActed = Now /\ lastWaiting = stuck
  /\ \A c \in Callers : at[c] = "apply" => ~Stale(c)
  /\ at["run"] = "settle" => result["run"].failed \/ (~Stale("run") /\ result["run"].waiting = stuck)

\* A chase that nothing renews is over in time; until the loop is informed, the
\* tick that informs it is at most an interval away.
ChaseRunsOut ==
  /\ Informed => calm + chase <= Interval + ChaseFor
  /\ ~Informed => /\ calm <= Interval
                  /\ at["run"] \in {"select", "watch"} => ticker.due \/ calm + ticker.left <= Interval
  /\ at["run"] = "apply" /\ Stale("run") => calm = 0
  /\ at["run"] = "settle" /\ (result["run"].failed \/ Stale("run") \/ result["run"].waiting # stuck) => calm = 0
  /\ at["run"] = "settle" /\ at["now"] = "apply" /\ Stale("now") => calm = 0

LEMMA Lengths ==
  /\ MaxMates \in Nat /\ MaxEvents \in Nat
  /\ NudgeDelay \in Nat \ {0} /\ WatchInterval \in Nat \ {0} /\ ChaseInterval \in Nat \ {0}
  /\ Interval \in Nat \ {0} /\ ChaseFor \in Nat \ {0}
PROOF
  BY LoopAssumption DEF LoopAssumption

LEMMA NowKnown ==
  ASSUME WorldTypes
  PROVE  Now \in Registries /\ Now # {Unknown}
PROOF
  BY FingerprintAssumption DEF WorldTypes, Now, Registries, FingerprintAssumption

LEMMA NothingTyped ==
  Nothing \in Results /\ [Nothing EXCEPT !.failed = TRUE] \in Results
PROOF
<1>1. {Unknown} \in Registries /\ 0 \in 0..MaxMates
  BY Lengths DEF Registries
<1>. QED
  BY <1>1 DEF Nothing, Results

LEMMA SettleTypes ==
  ASSUME LastTypes, NEW r \in Results, Settle(r)
  PROVE  LastTypes'
PROOF
  BY Lengths DEF Settle, LastTypes, Results

\* The steps of a pass.
LEMMA FinishTypes ==
  ASSUME WhereTypes, LastTypes, HistoryTypes, NEW c \in Callers, NEW r \in Results, Finish(c, r),
         calm' \in 0..Interval + ChaseFor
  PROVE  WhereTypes' /\ LastTypes' /\ HistoryTypes' /\ trusted' \in BOOLEAN
PROOF
<1>b. trusted' \in BOOLEAN
  BY DEF Finish
<1>1. HistoryTypes'
  BY Lengths DEF Finish, HistoryTypes
<1>2. CASE c = "now"
  BY <1>b, <1>1, <1>2, SettleTypes, NothingTyped DEF Finish, WhereTypes, Callers, RunPhases
<1>3. CASE c = "run"
  BY <1>b, <1>1, <1>3 DEF Finish, WhereTypes, Callers, RunPhases, lastVars, LastTypes
<1>. QED
  BY <1>2, <1>3 DEF Callers

LEMMA TickTypes ==
  ASSUME LoopTypes, Tick
  PROVE  LoopTypes'
PROOF
<1>. USE Lengths
<1>1. ClockTypes'
  <2>1. timer' \in {Off} \union 0..NudgeDelay
    BY DEF Tick, LoopTypes, ClockTypes, Off
  <2>2. ticker' \in [left : 1..Interval, due : BOOLEAN] /\ watcher' \in [left : 1..WatchInterval, due : BOOLEAN]
    BY DEF Tick, LoopTypes, ClockTypes, Counts
  <2>. QED
    BY <2>1, <2>2 DEF Tick, LoopTypes, ClockTypes
<1>2. LastTypes'
  BY DEF Tick, LoopTypes, LastTypes, AtMost
<1>3. HistoryTypes'
  <2>1. CASE at["run"] = "select"
    <3>1. calm' \in 0..Interval + ChaseFor
      BY <2>1 DEF Tick, LoopTypes, HistoryTypes, AtMost
    <3>2. owed' \in {Off} \union 0..NudgeDelay + 1
      BY <2>1 DEF Tick, LoopTypes, HistoryTypes, AtMost, Off
    <3>3. late' \in 0..WatchInterval + 1
      BY <2>1 DEF Tick, LoopTypes, HistoryTypes, AtMost
    <3>. QED
      BY <3>1, <3>2, <3>3 DEF Tick, LoopTypes, HistoryTypes
  <2>. QED
    BY <2>1 DEF Tick, LoopTypes, HistoryTypes
<1>. QED
  BY <1>1, <1>2, <1>3 DEF Tick, LoopTypes, WorldTypes, WhereTypes

LEMMA PassTypes ==
  ASSUME LoopTypes, NEW c \in Callers, PassStep(c) \/ PassFails(c)
  PROVE  LoopTypes'
PROOF
<1>. USE DEF LoopTypes, clockVars, lastVars, historyVars
<1>r. result[c] \in Results
  BY DEF WhereTypes
<1>1. CASE Lock(c)
  <2>1. WhereTypes'
    BY <1>1 DEF Lock, Goes, WhereTypes, Callers, RunPhases
  <2>. QED
    BY <1>1, <2>1, Lengths DEF Lock, WorldTypes, ClockTypes, LastTypes, HistoryTypes
<1>2. CASE Read(c)
  <2>1. [Nothing EXCEPT !.registry = Now] \in Results
    BY NowKnown, NothingTyped DEF Results
  <2>2. WhereTypes'
    BY <1>2, <2>1 DEF Read, Goes, WhereTypes, Callers, RunPhases
  <2>. QED
    BY <1>2, <2>2 DEF Read, WorldTypes, ClockTypes, LastTypes, HistoryTypes
<1>3. CASE PassSucceeds(c)
  <2>1. [result[c] EXCEPT !.waiting = stuck] \in Results
    BY <1>r DEF Results, WorldTypes
  <2>2. WhereTypes' /\ LastTypes' /\ HistoryTypes' /\ trusted' \in BOOLEAN
    BY <1>3, <2>1, FinishTypes DEF PassSucceeds, HistoryTypes
  <2>. QED
    BY <1>3, <2>2 DEF PassSucceeds, Finish, WorldTypes, ClockTypes
<1>4. CASE PassFails(c)
  <2>1. calm' \in 0..Interval + ChaseFor /\ events' \in 0..MaxEvents
    BY <1>4, Lengths DEF PassFails, Event, WorldTypes
  <2>2. WhereTypes' /\ LastTypes' /\ HistoryTypes' /\ trusted' \in BOOLEAN
    BY <1>4, <2>1, NothingTyped, FinishTypes DEF PassFails
  <2>. QED
    BY <1>4, <2>1, <2>2 DEF PassFails, Finish, WorldTypes, ClockTypes
<1>. QED
  BY <1>1, <1>2, <1>3, <1>4 DEF PassStep

LEMMA NextLoopTypes ==
  ASSUME LoopTypes, [LoopNext]_loopVars
  PROVE  LoopTypes'
PROOF
<1>. USE DEF clockVars, lastVars, historyVars, LoopTypes
<1>1. CASE \E c \in Callers : PassStep(c) \/ PassFails(c)
  BY <1>1, PassTypes
<1>2. CASE TakeNudge \/ TakeTimer \/ TakeTick \/ TakeWatch \/ FirstPass
  <2>1. WhereTypes'
    BY <1>2 DEF TakeNudge, TakeTimer, TakeTick, TakeWatch, FirstPass, Goes, WhereTypes, Callers, RunPhases
  <2>2. ClockTypes'
    <3>1. CASE TakeNudge \/ TakeTimer \/ FirstPass
      BY <3>1, Lengths DEF TakeNudge, TakeTimer, FirstPass, ClockTypes
    <3>2. CASE TakeTick
      BY <3>2 DEF TakeTick, ClockTypes
    <3>3. CASE TakeWatch
      BY <3>3 DEF TakeWatch, ClockTypes
    <3>. QED
      BY <1>2, <3>1, <3>2, <3>3
  <2>. QED
    BY <1>2, <2>1, <2>2
       DEF TakeNudge, TakeTimer, TakeTick, TakeWatch, FirstPass, WorldTypes, LastTypes, HistoryTypes
<1>3. CASE Watch \/ WatchFails \/ CallRunNow
  <2>1. WhereTypes'
    BY <1>3 DEF Watch, WatchFails, CallRunNow, Goes, WhereTypes, Callers, RunPhases
  <2>2. LastTypes'
    BY <1>3, NowKnown, Lengths DEF Watch, WatchFails, CallRunNow, LastTypes
  <2>3. WorldTypes' /\ HistoryTypes'
    BY <1>3, Lengths DEF Watch, WatchFails, CallRunNow, Event, WorldTypes, HistoryTypes
  <2>. QED
    BY <1>3, <2>1, <2>2, <2>3 DEF Watch, WatchFails, CallRunNow, ClockTypes
<1>4. CASE SettleRun
  <2>1. LastTypes'
    BY <1>4, SettleTypes DEF SettleRun, WhereTypes, Callers
  <2>2. WhereTypes'
    BY <1>4, NothingTyped DEF SettleRun, Goes, WhereTypes, Callers, RunPhases
  <2>. QED
    BY <1>4, <2>1, <2>2 DEF SettleRun, WorldTypes, ClockTypes, HistoryTypes
<1>5. CASE Tick
  BY <1>5, TickTypes
<1>6. CASE Nudge \/ (\E list \in TagLists : Retag(list)) \/ (\E n \in 0..MaxMates : MatesChange(n))
  <2>1. WorldTypes' /\ HistoryTypes'
    BY <1>6, Lengths DEF Nudge, Retag, MatesChange, Event, WorldTypes, HistoryTypes
  <2>. QED
    BY <1>6, <2>1 DEF Nudge, Retag, MatesChange, WhereTypes, ClockTypes, LastTypes
<1>7. CASE UNCHANGED loopVars
  BY <1>7 DEF loopVars, WorldTypes, WhereTypes, ClockTypes, LastTypes, HistoryTypes
<1>. QED
  BY <1>1, <1>2, <1>3, <1>4, <1>5, <1>6, <1>7 DEF LoopNext, RunStep, Callers

LEMMA InitLoopTypes == LoopInit => LoopTypes
PROOF
<1>1. LoopInit => WhereTypes
  BY NothingTyped DEF LoopInit, WhereTypes, Callers, RunPhases
<1>2. LoopInit => WorldTypes
  BY Lengths DEF LoopInit, WorldTypes
<1>4. LoopInit => ClockTypes
  BY Lengths DEF LoopInit, ClockTypes
<1>3. LoopInit => LastTypes
  BY Lengths DEF LoopInit, LastTypes, Registries
<1>5. LoopInit => HistoryTypes
  BY Lengths, NothingTyped DEF LoopInit, HistoryTypes
<1>6. LoopInit => nudges \in BOOLEAN /\ trusted \in BOOLEAN
  BY DEF LoopInit
<1>. QED
  BY <1>1, <1>2, <1>3, <1>4, <1>5, <1>6 DEF LoopTypes

LEMMA NextOnePass ==
  ASSUME LoopTypes, OnePass, [LoopNext]_loopVars
  PROVE  OnePass'
PROOF
<1>. USE DEF clockVars, lastVars, historyVars, OnePass
<1>1. ASSUME NEW c \in Callers, Lock(c) \/ Read(c) PROVE OnePass'
  BY <1>1 DEF Lock, Read, Goes, LoopTypes, WhereTypes, Callers
<1>2. ASSUME NEW c \in Callers, PassSucceeds(c) \/ PassFails(c) PROVE OnePass'
  <2>1. passMu' = "free" /\ passMu = c
        /\ (at' = [at EXCEPT !["now"] = "none"] \/ at' = [at EXCEPT !["run"] = "settle"])
    BY <1>2 DEF PassSucceeds, PassFails, Finish
  <2>2. IF c = "now" THEN at' = [at EXCEPT !["now"] = "none"] ELSE at' = [at EXCEPT !["run"] = "settle"]
    BY <1>2 DEF PassSucceeds, PassFails, Finish
  <2>. QED
    BY <2>1, <2>2 DEF LoopTypes, WhereTypes, Callers
<1>3. CASE TakeTimer \/ TakeTick \/ TakeWatch \/ FirstPass \/ Watch \/ WatchFails \/ CallRunNow \/ SettleRun
  BY <1>3 DEF TakeTimer, TakeTick, TakeWatch, FirstPass, Watch, WatchFails, CallRunNow, SettleRun,
              Goes, LoopTypes, WhereTypes, Callers
<1>4. CASE TakeNudge \/ Tick \/ Nudge \/ (\E list \in TagLists : Retag(list))
           \/ (\E n \in 0..MaxMates : MatesChange(n)) \/ UNCHANGED loopVars
  BY <1>4 DEF TakeNudge, Tick, Nudge, Retag, MatesChange, loopVars
<1>. QED
  BY <1>1, <1>2, <1>3, <1>4 DEF LoopNext, RunStep, PassStep, Callers

\* Every reachable state of the loop is typed.
THEOREM LoopTyped == LoopSpec => []LoopTypeOK
PROOF
<1>1. LoopInit => LoopTypes /\ OnePass
  BY InitLoopTypes DEF LoopInit, OnePass, Callers
<1>2. LoopTypes /\ OnePass /\ [LoopNext]_loopVars => LoopTypes' /\ OnePass'
  BY NextLoopTypes, NextOnePass
<1>3. LoopTypes /\ OnePass => LoopTypeOK
  BY DEF LoopTypes, WorldTypes, WhereTypes, ClockTypes, LastTypes, HistoryTypes, OnePass, LoopTypeOK, RunPhases
<1>. QED
  BY <1>1, <1>2, <1>3, PTL DEF LoopSpec

-----------------------------------------------------------------------------
(* A nudge is a pass soon.                                                 *)

LEMMA NextNudge ==
  ASSUME LoopTypes, NudgeOnItsWay, [LoopNext]_loopVars
  PROVE  NudgeOnItsWay'
PROOF
<1>. USE Lengths DEF LoopTypes, clockVars, lastVars, historyVars
<1>1. CASE Nudge
  BY <1>1 DEF Nudge, NudgeOnItsWay, Off
<1>2. CASE TakeNudge
  BY <1>2 DEF TakeNudge, NudgeOnItsWay, Off
<1>3. CASE TakeTimer
  BY <1>3 DEF TakeTimer, Goes, WhereTypes, Callers, HistoryTypes, NudgeOnItsWay, Off
<1>4. ASSUME NEW c \in Callers, Lock(c) PROVE NudgeOnItsWay'
  BY <1>4 DEF Lock, NudgeOnItsWay
<1>5. CASE Tick
  <2>1. CASE at["run"] = "select"
    <3>1. ~nudges /\ timer # 0
      BY <1>5, <2>1 DEF Tick, Ready
    <3>2. owed # Off => timer > 0 /\ owed + timer <= NudgeDelay /\ owed \in 0..NudgeDelay + 1
      BY <2>1, <3>1 DEF NudgeOnItsWay, ClockTypes, HistoryTypes, Off
    <3>3. owed # Off => owed' = owed + 1 /\ timer' = timer - 1
      <4>1. owed # Off => owed' = AtMost(owed + 1, NudgeDelay + 1) /\ timer' = timer - 1
        BY <1>5, <2>1, <3>2 DEF Tick
      <4>2. owed # Off => timer \in Nat /\ owed \in Nat /\ owed + 1 <= NudgeDelay + 1
        BY <3>2 DEF ClockTypes, Off
      <4>3. owed # Off => AtMost(owed + 1, NudgeDelay + 1) = owed + 1
        BY <4>2 DEF AtMost
      <4>. QED
        BY <4>1, <4>3
    <3>4. owed = Off => owed' = Off
      BY <1>5, <2>1 DEF Tick
    <3>5. nudges' = nudges
      BY <1>5 DEF Tick
    <3>. QED
      BY <3>1, <3>2, <3>3, <3>4, <3>5 DEF NudgeOnItsWay, Off, ClockTypes
  <2>2. CASE at["run"] # "select"
    <3>1. UNCHANGED <<owed, nudges, at>>
      BY <1>5, <2>2 DEF Tick
    <3>2. timer # Off => timer' # Off /\ timer' <= timer /\ timer' \in Int
      BY <1>5 DEF Tick, ClockTypes, Off
    <3>. QED
      BY <3>1, <3>2 DEF NudgeOnItsWay, ClockTypes, HistoryTypes, Off
  <2>. QED
    BY <2>1, <2>2
<1>6. ASSUME UNCHANGED <<owed, nudges, timer>>, at["run"] = "lock" => at'["run"] = "lock"
      PROVE  NudgeOnItsWay'
  BY <1>6 DEF NudgeOnItsWay
<1>7. ASSUME NEW c \in Callers, Read(c) \/ PassSucceeds(c) \/ PassFails(c) PROVE NudgeOnItsWay'
  <2>1. UNCHANGED <<owed, nudges, timer>>
    BY <1>7 DEF Read, PassSucceeds, PassFails, Finish
  <2>2. at["run"] = "lock" => at'["run"] = "lock"
    BY <1>7 DEF Read, Goes, PassSucceeds, PassFails, Finish, WhereTypes, Callers
  <2>. QED
    BY <1>6, <2>1, <2>2
<1>8. CASE TakeTick \/ TakeWatch \/ FirstPass \/ Watch \/ WatchFails \/ CallRunNow \/ SettleRun
  <2>1. UNCHANGED <<owed, nudges, timer>>
    BY <1>8 DEF TakeTick, TakeWatch, FirstPass, Watch, WatchFails, CallRunNow, SettleRun
  <2>2. at["run"] = "lock" => at'["run"] = "lock"
    BY <1>8 DEF TakeTick, TakeWatch, FirstPass, Watch, WatchFails, CallRunNow, SettleRun, Goes,
                WhereTypes, Callers
  <2>. QED
    BY <1>6, <2>1, <2>2
<1>9. CASE (\E list \in TagLists : Retag(list)) \/ (\E n \in 0..MaxMates : MatesChange(n))
           \/ UNCHANGED loopVars
  BY <1>6, <1>9 DEF Retag, MatesChange, loopVars
<1>. QED
  BY <1>1, <1>2, <1>3, <1>4, <1>5, <1>7, <1>8, <1>9 DEF LoopNext, RunStep, PassStep, Callers

\* A pass starts at most NudgeDelay after the last nudge of a burst, as far as Run
\* waits in its select, for any length of the delay and whatever timer, tick or
\* call of RunNow comes in between (Nudge, Run).
THEOREM NudgedPassComes == LoopSpec => []NudgeSoon
PROOF
<1>1. LoopInit => NudgeOnItsWay
  BY DEF LoopInit, NudgeOnItsWay
<1>2. LoopTypes /\ NudgeOnItsWay => NudgeSoon
  BY Lengths DEF LoopTypes, ClockTypes, HistoryTypes, NudgeOnItsWay, NudgeSoon, Off
<1>. QED
  BY <1>1, <1>2, InitLoopTypes, NextLoopTypes, NextNudge, PTL DEF LoopSpec

-----------------------------------------------------------------------------
(* A change of the registry is a pass soon.                                *)

\* What a pass that is over says, and to whom.
LEMMA Finished ==
  ASSUME LoopTypes, OnePass, Heard, NEW c \in Callers, PassSucceeds(c) \/ PassFails(c)
  PROVE  /\ passMu = c /\ at[c] \in {"read", "apply"}
         /\ c = "now" => /\ at'["run"] = at["run"] /\ at'["now"] = "none"
                         /\ result'["run"] = result["run"]
                         /\ at["run"] \notin {"read", "apply"}
         /\ c = "run" => /\ at'["run"] = "settle" /\ at'["now"] = at["now"]
                         /\ result'["now"] = result["now"]
                         /\ trusted' = FALSE /\ UNCHANGED lastVars
                         /\ at["now"] \notin {"read", "apply"}
         /\ UNCHANGED <<tags, stuck, ticker, watcher>>
PROOF
  BY DEF PassSucceeds, PassFails, Finish, LoopTypes, WhereTypes, OnePass, Callers, clockVars

LEMMA Succeeded ==
  ASSUME LoopTypes, OnePass, Heard, NEW c \in Callers, PassSucceeds(c)
  PROVE  /\ at[c] = "apply" /\ result[c].registry # {Unknown}
         /\ latest'.registry = result[c].registry /\ UNCHANGED <<late, calm>>
         /\ c = "run" => /\ result'["run"].registry = result["run"].registry
                         /\ result'["run"].waiting = stuck /\ ~result'["run"].failed
         /\ c = "now" => /\ lastSeen' = result["now"].registry /\ lastActed' = result["now"].registry
                         /\ lastWaiting' = stuck
                         /\ trusted' = (at["run"] # "settle")
                         /\ chase' = IF Differs(lastActed, result["now"].registry) \/ stuck > lastWaiting
                                     THEN ChaseFor ELSE chase
PROOF
<1>. DEFINE r == [result[c] EXCEPT !.waiting = stuck]
<1>1. at[c] = "apply" /\ result[c] \in Results
  BY DEF PassSucceeds, LoopTypes, WhereTypes
<1>2. r.registry = result[c].registry /\ r.waiting = stuck /\ ~r.failed /\ result[c].registry # {Unknown}
  BY <1>1 DEF Heard, Results
<1>3. Finish(c, r) /\ calm' = calm
  BY DEF PassSucceeds
<1>. HIDE DEF r
<1>4. latest' = r /\ late' = late
  BY <1>2, <1>3 DEF Finish
<1>5. CASE c = "run"
  BY <1>1, <1>2, <1>3, <1>4, <1>5 DEF Finish, LoopTypes, WhereTypes, Callers
<1>6. CASE c = "now"
  BY <1>1, <1>2, <1>3, <1>4, <1>6 DEF Finish, Settle
<1>. QED
  BY <1>5, <1>6 DEF Callers

LEMMA Failed ==
  ASSUME LoopTypes, NEW c \in Callers, PassFails(c)
  PROVE  /\ trusted' = FALSE /\ late' = 0 /\ calm' = 0 /\ latest' = latest
         /\ c = "run" => result'["run"].failed
         /\ c = "now" => UNCHANGED <<lastSeen, lastActed, lastWaiting, chase>>
PROOF
<1>. DEFINE r == [Nothing EXCEPT !.failed = TRUE]
<1>1. r.failed = TRUE
  BY DEF Nothing
<1>2. Finish(c, r) /\ calm' = 0
  BY DEF PassFails, Event
<1>. HIDE DEF r
<1>3. CASE c = "run"
  BY <1>1, <1>2, <1>3 DEF Finish, LoopTypes, WhereTypes, Callers
<1>4. CASE c = "now"
  BY <1>1, <1>2, <1>4 DEF Finish, Settle
<1>. QED
  BY <1>3, <1>4 DEF Callers

LEMMA NextHeard ==
  ASSUME LoopTypes, OnePass, Heard, [LoopNext]_loopVars
  PROVE  Heard'
PROOF
<1>. USE DEF clockVars, lastVars, historyVars
<1>n. Now \in Registries /\ Now # {Unknown}
  BY NowKnown DEF LoopTypes
<1>1. ASSUME NEW c \in Callers, Read(c) PROVE Heard'
  <2>1. /\ at' = [at EXCEPT ![c] = "apply"] /\ at[c] = "read"
        /\ result' = [result EXCEPT ![c] = [Nothing EXCEPT !.registry = Now]]
        /\ UNCHANGED <<latest, trusted, lastSeen>>
    BY <1>1 DEF Read, Goes
  <2>2. result'[c].registry = Now /\ ~result'[c].failed
    BY <2>1 DEF Nothing, LoopTypes, WhereTypes
  <2>. QED
    BY <1>n, <2>1, <2>2 DEF Heard, LoopTypes, WhereTypes, Callers
<1>2. ASSUME NEW c \in Callers, PassSucceeds(c) PROVE Heard'
  BY <1>2, Finished, Succeeded DEF Heard, Callers
<1>3. ASSUME NEW c \in Callers, PassFails(c) PROVE Heard'
  BY <1>3, Finished, Failed DEF Heard, Callers
<1>4. CASE SettleRun
  <2>1. /\ at'["run"] = "select" /\ at'["now"] = at["now"] /\ at["run"] = "settle"
        /\ result'["now"] = result["now"]
        /\ trusted' => ~result["run"].failed /\ latest = result["run"]
        /\ UNCHANGED latest
    BY <1>4 DEF SettleRun, Goes, LoopTypes, WhereTypes, Callers
  <2>2. ~result["run"].failed => lastSeen' = result["run"].registry
    BY <1>4 DEF SettleRun, Settle
  <2>. QED
    BY <2>1, <2>2 DEF Heard, Callers
<1>5. CASE Watch
  <2>1. /\ at["run"] = "watch" /\ at'["run"] \in {"lock", "select"} /\ at'["now"] = at["now"]
        /\ at'["run"] = "select" => ~Differs(lastSeen, Now)
        /\ lastSeen' = Now /\ UNCHANGED <<result, latest, trusted>>
    BY <1>5 DEF Watch, Goes, LoopTypes, WhereTypes, Callers
  <2>. QED
    BY <2>1 DEF Heard, Callers, Differs
<1>6. ASSUME NEW c \in Callers, Lock(c) PROVE Heard'
  BY <1>6 DEF Lock, Goes, Heard, LoopTypes, WhereTypes, Callers
<1>7. CASE TakeTimer \/ TakeTick \/ TakeWatch \/ FirstPass
  BY <1>7 DEF TakeTimer, TakeTick, TakeWatch, FirstPass, Goes, Heard, LoopTypes, WhereTypes, Callers
<1>8. CASE WatchFails \/ CallRunNow
  BY <1>8 DEF WatchFails, CallRunNow, Goes, Heard, LoopTypes, WhereTypes, Callers
<1>9. CASE TakeNudge \/ Tick \/ Nudge \/ (\E list \in TagLists : Retag(list))
           \/ (\E n \in 0..MaxMates : MatesChange(n)) \/ UNCHANGED loopVars
  BY <1>9 DEF TakeNudge, Tick, Nudge, Retag, MatesChange, loopVars, Heard
<1>. QED
  BY <1>1, <1>2, <1>3, <1>4, <1>5, <1>6, <1>7, <1>8, <1>9 DEF LoopNext, RunStep, PassStep, Callers

LEMMA CountsDown ==
  ASSUME NEW every \in Nat \ {0}, NEW t \in [left : 1..every, due : BOOLEAN]
  PROVE  /\ Counts(t, every).left \in 1..every
         /\ t.due => Counts(t, every).due
         /\ Counts(t, every).due \/ (Counts(t, every).left = t.left - 1)
PROOF
  BY DEF Counts

LEMMA ZeroInTime ==
  ASSUME LoopTypes, late = 0
  PROVE  InTime /\ late <= WatchInterval
PROOF
  BY Lengths DEF LoopTypes, ClockTypes, InTime

LEMMA TickWatch ==
  ASSUME LoopTypes, Heard, WatchComes, Tick
  PROVE  WatchComes'
PROOF
<1>t. LoopTypes'
  BY TickTypes
<1>n. Now' = Now /\ UNCHANGED <<at, result, latest, trusted, tags>>
  BY DEF Tick, Now
<1>1. CASE at["run"] # "select"
  BY <1>n, <1>1 DEF Tick, WatchComes, Stale
<1>2. CASE at["run"] = "select"
  <2>1. ~watcher.due /\ watcher' = Counts(watcher, WatchInterval)
    BY <1>2 DEF Tick, Ready
  <2>2. late' = IF trusted /\ latest.registry # Now THEN AtMost(late + 1, WatchInterval + 1) ELSE 0
    BY <1>2 DEF Tick, Heard, Differs
  <2>3. CASE trusted /\ latest.registry # Now
    <3>1. late + watcher.left <= WatchInterval
      BY <1>2, <2>1, <2>3 DEF WatchComes, InTime
    <3>2. late \in Nat /\ watcher.left \in Nat /\ watcher.left >= 1 /\ WatchInterval \in Nat
      BY Lengths DEF LoopTypes, ClockTypes, HistoryTypes
    <3>3. late' = late + 1 /\ late' <= WatchInterval
      BY <2>2, <2>3, <3>1, <3>2 DEF AtMost
    <3>4. InTime'
      <4>1. watcher'.due \/ watcher'.left = watcher.left - 1
        BY <2>1, CountsDown, Lengths DEF LoopTypes, ClockTypes
      <4>. QED
        BY <3>1, <3>2, <3>3, <4>1 DEF InTime
    <3>. QED
      BY <1>2, <1>n, <2>3, <3>3, <3>4 DEF WatchComes
  <2>4. CASE ~(trusted /\ latest.registry # Now)
    <3>1. late' = 0
      BY <2>2, <2>4
    <3>2. InTime' /\ late' <= WatchInterval
      <4>1. watcher'.left <= WatchInterval
        BY <1>t DEF LoopTypes, ClockTypes
      <4>. QED
        BY <3>1, <4>1, Lengths, <1>t DEF InTime, LoopTypes, ClockTypes
    <3>. QED
      BY <1>2, <1>n, <3>1, <3>2 DEF WatchComes
  <2>. QED
    BY <2>3, <2>4
<1>. QED
  BY <1>1, <1>2

LEMMA NextWatch ==
  ASSUME LoopTypes, OnePass, Heard, WatchComes, [LoopNext]_loopVars
  PROVE  WatchComes'
PROOF
<1>. USE DEF clockVars, lastVars, historyVars
<1>z. ASSUME late' = 0 PROVE WatchComes'
  <2>1. late' <= WatchInterval /\ InTime'
    <3>1. watcher'.left \in 1..WatchInterval
      BY NextLoopTypes DEF LoopTypes, ClockTypes
    <3>. QED
      BY <1>z, <3>1, Lengths DEF InTime
  <2>. QED
    BY <1>z, <2>1 DEF WatchComes
<1>k. ASSUME UNCHANGED <<tags, late, watcher, trusted, latest>>,
             at'["run"] = "select" => at["run"] = "select",
             at'["run"] \in {"apply", "settle"} /\ ~result'["run"].failed /\ result'["run"].registry # Now
               => at["run"] \in {"apply", "settle"} /\ ~result["run"].failed /\ Stale("run"),
             at'["now"] = "apply" /\ result'["now"].registry # Now => at["now"] = "apply" /\ Stale("now"),
             at'["run"] = "settle" => at["run"] = "settle"
      PROVE  WatchComes'
  BY <1>k DEF WatchComes, Stale, Now, InTime
<1>1. CASE Tick
  BY <1>1, TickWatch
<1>2. CASE WatchFails \/ \E list \in TagLists : Retag(list)
  BY <1>2, <1>z DEF WatchFails, Retag
<1>3. ASSUME NEW c \in Callers, PassFails(c) PROVE WatchComes'
  BY <1>3, <1>z, Failed
<1>4. ASSUME NEW c \in Callers, PassSucceeds(c) PROVE WatchComes'
  <2>1. late' = late /\ Now' = Now /\ UNCHANGED watcher /\ at[c] = "apply"
    BY <1>4, Finished, Succeeded DEF Now
  <2>2. CASE c = "run"
    <3>1. at'["run"] = "settle" /\ at'["now"] # "apply"
      BY <1>4, <2>2, Finished
    <3>2. ~result["run"].failed /\ result'["run"].registry = result["run"].registry
      BY <1>4, <2>1, <2>2, Succeeded DEF Heard
    <3>. QED
      BY <2>1, <2>2, <3>1, <3>2 DEF WatchComes, Stale
  <2>3. CASE c = "now"
    <3>1. /\ at'["run"] = at["run"] /\ at'["now"] = "none" /\ result'["run"] = result["run"]
          /\ at["run"] # "apply" /\ latest'.registry = result["now"].registry
      BY <1>4, <2>3, Finished, Succeeded
    <3>2. InTime => InTime'
      BY <2>1 DEF InTime
    <3>. QED
      BY <2>1, <2>3, <3>1, <3>2 DEF WatchComes, Stale
  <2>. QED
    BY <2>2, <2>3 DEF Callers
<1>5. CASE SettleRun
  <2>1. /\ at["run"] = "settle" /\ at'["run"] = "select" /\ at'["now"] = at["now"]
        /\ result'["now"] = result["now"]
        /\ trusted' => ~result["run"].failed /\ latest = result["run"]
        /\ UNCHANGED <<latest, late, watcher, tags>>
    BY <1>5 DEF SettleRun, Goes, LoopTypes, WhereTypes, Callers
  <2>2. Now' = Now /\ (InTime => InTime')
    BY <2>1 DEF Now, InTime
  <2>3. trusted' /\ latest'.registry # Now' => late = 0
    BY <2>1, <2>2 DEF WatchComes, Stale
  <2>4. at'["now"] = "apply" /\ Stale("now")' => late = 0
    BY <2>1, <2>2 DEF WatchComes, Stale
  <2>. QED
    BY <2>1, <2>2, <2>3, <2>4, ZeroInTime DEF WatchComes
<1>6. CASE Watch
  <2>1. /\ at["run"] = "watch" /\ at'["run"] \in {"lock", "select"} /\ at'["now"] = at["now"]
        /\ at'["run"] = "select" => ~Differs(lastSeen, Now)
        /\ UNCHANGED <<result, latest, trusted, late, watcher, tags>>
    BY <1>6 DEF Watch, Goes, LoopTypes, WhereTypes, Callers
  <2>2. Now' = Now /\ (InTime => InTime')
    BY <2>1 DEF Now, InTime
  <2>3. at'["run"] = "select" /\ trusted => latest.registry = Now
    BY <2>1 DEF Heard, Differs
  <2>4. at'["run"] = "select" /\ at["now"] = "apply" /\ Stale("now") => late = 0
    BY <2>3 DEF WatchComes
  <2>. QED
    BY <2>1, <2>2, <2>3, <2>4, ZeroInTime DEF WatchComes, Stale
<1>7. ASSUME NEW c \in Callers, Read(c) PROVE WatchComes'
  <2>1. /\ at' = [at EXCEPT ![c] = "apply"] /\ at[c] = "read"
        /\ result' = [result EXCEPT ![c] = [Nothing EXCEPT !.registry = Now]]
        /\ UNCHANGED <<tags, late, watcher, trusted, latest>>
    BY <1>7 DEF Read, Goes
  <2>2. result'[c].registry = Now
    BY <2>1 DEF Nothing, LoopTypes, WhereTypes
  <2>. QED
    BY <1>k, <2>1, <2>2 DEF LoopTypes, WhereTypes, Callers, Stale
<1>8. ASSUME NEW c \in Callers, Lock(c) PROVE WatchComes'
  BY <1>8, <1>k DEF Lock, Goes, LoopTypes, WhereTypes, Callers, Stale
<1>9. CASE TakeTimer \/ TakeTick \/ FirstPass \/ CallRunNow
  BY <1>9, <1>k DEF TakeTimer, TakeTick, FirstPass, CallRunNow, Goes, LoopTypes, WhereTypes, Callers, Stale
<1>10. CASE TakeWatch
  BY <1>10 DEF TakeWatch, Goes, LoopTypes, WhereTypes, Callers, WatchComes, Stale, Now
<1>11. CASE TakeNudge \/ Nudge \/ (\E n \in 0..MaxMates : MatesChange(n)) \/ UNCHANGED loopVars
  BY <1>11, <1>k DEF TakeNudge, Nudge, MatesChange, loopVars, Stale
<1>. QED
  BY <1>1, <1>2, <1>3, <1>4, <1>5, <1>6, <1>7, <1>8, <1>9, <1>10, <1>11
     DEF LoopNext, RunStep, PassStep, Callers

\* Once a pass has succeeded and told so in order, a change of the registry waits
\* at most WatchInterval for the watch, whatever pass was under way when it came,
\* for any lengths of the intervals and any lists of tags (watch, settle).
THEOREM ChangedRegistryComes == LoopSpec => []RegistrySoon
PROOF
<1>1. LoopInit => OnePass /\ Heard /\ WatchComes
  BY Lengths DEF LoopInit, OnePass, Heard, WatchComes, Callers
<1>2. WatchComes => RegistrySoon
  BY DEF WatchComes, RegistrySoon
<1>. QED
  BY <1>1, <1>2, InitLoopTypes, NextLoopTypes, NextOnePass, NextHeard, NextWatch, PTL DEF LoopSpec

-----------------------------------------------------------------------------
(* A chase ends.                                                           *)

\* What the loop knows changes with the registry, the Mates and the passes only.
LEMMA InformedSame ==
  ASSUME UNCHANGED <<tags, stuck, at, result, lastSeen, lastActed, lastWaiting>>
  PROVE  Informed' = Informed /\ \A c \in Callers : Stale(c)' = Stale(c)
PROOF
  BY DEF Informed, Stale, Now

LEMMA TickChase ==
  ASSUME LoopTypes, ChaseRunsOut, Tick
  PROVE  ChaseRunsOut'
PROOF
<1>i. Informed' = Informed /\ \A c \in Callers : Stale(c)' = Stale(c)
  BY InformedSame DEF Tick
<1>c. calm \in Nat /\ chase \in Nat /\ ticker.left \in 1..Interval /\ Interval \in Nat /\ ChaseFor \in Nat
      /\ calm <= Interval + ChaseFor
  BY Lengths DEF LoopTypes, LastTypes, HistoryTypes, ClockTypes
<1>h. chase' = IF chase > 0 THEN chase - 1 ELSE 0
  BY DEF Tick
<1>t. /\ ticker'.left \in 1..Interval /\ (ticker.due => ticker'.due)
      /\ ticker'.due \/ ticker'.left = ticker.left - 1
  <2>1. ticker' = Counts(ticker, Interval)
    BY DEF Tick
  <2>. QED
    BY <2>1, CountsDown, Lengths DEF LoopTypes, ClockTypes
<1>1. CASE at["run"] # "select"
  <2>1. UNCHANGED <<calm, at, result, stuck>>
    BY <1>1 DEF Tick
  <2>2. Informed => calm' + chase' <= Interval + ChaseFor
    BY <1>c, <1>h, <2>1 DEF ChaseRunsOut
  <2>3. ~Informed /\ at["run"] = "watch" => ticker'.due \/ calm' + ticker'.left <= Interval
    BY <1>c, <1>t, <2>1 DEF ChaseRunsOut
  <2>. QED
    BY <1>1, <1>i, <2>1, <2>2, <2>3 DEF ChaseRunsOut, Callers
<1>2. CASE at["run"] = "select"
  <2>1. UNCHANGED at /\ ~ticker.due /\ calm' = AtMost(calm + 1, Interval + ChaseFor)
    BY <1>2 DEF Tick, Ready
  <2>2. Informed => calm' + chase' <= Interval + ChaseFor
    <3>1. Informed => calm + chase <= Interval + ChaseFor
      BY DEF ChaseRunsOut
    <3>. QED
      BY <1>c, <1>h, <2>1, <3>1 DEF AtMost
  <2>3. ~Informed => calm' <= Interval /\ (ticker'.due \/ calm' + ticker'.left <= Interval)
    <3>1. ~Informed => calm + ticker.left <= Interval
      BY <1>2, <2>1 DEF ChaseRunsOut
    <3>. QED
      BY <1>c, <1>t, <2>1, <3>1 DEF AtMost
  <2>. QED
    BY <1>2, <1>i, <2>1, <2>2, <2>3 DEF ChaseRunsOut
<1>. QED
  BY <1>1, <1>2

\* A chase renewed within an interval of the calm ends in time.
LEMMA RenewedInTime ==
  ASSUME NEW c \in Nat, NEW r \in 0..ChaseFor, c <= Interval
  PROVE  c + r <= Interval + ChaseFor
PROOF
  BY Lengths

LEMMA NextChase ==
  ASSUME LoopTypes, OnePass, Heard, ChaseRunsOut, [LoopNext]_loopVars
  PROVE  ChaseRunsOut'
PROOF
<1>. USE DEF clockVars, lastVars, historyVars
<1>d. LoopTypes'
  BY NextLoopTypes
<1>c. /\ calm \in Nat /\ chase' \in 0..ChaseFor /\ ticker'.left \in 1..Interval
      /\ Interval \in Nat /\ ChaseFor \in Nat
  BY <1>d, Lengths DEF LoopTypes, LastTypes, HistoryTypes, ClockTypes
<1>n. Now # {Unknown}
  BY NowKnown DEF LoopTypes
<1>z. ASSUME calm' = 0 PROVE ChaseRunsOut'
  <2>1. calm' + chase' <= Interval + ChaseFor /\ calm' <= Interval /\ calm' + ticker'.left <= Interval
    <3>1. calm' \in Nat /\ calm' <= Interval /\ calm' + ticker'.left <= Interval
      BY <1>c, <1>z
    <3>. QED
      BY <1>c, <3>1, RenewedInTime
  <2>. QED
    BY <1>z, <2>1 DEF ChaseRunsOut
<1>k. ASSUME UNCHANGED <<calm, chase>>, Informed' = Informed,
             at'["run"] \in {"select", "watch"} => at["run"] \in {"select", "watch"} /\ ticker' = ticker,
             at'["run"] = "apply" /\ Stale("run")' => at["run"] = "apply" /\ Stale("run"),
             at'["run"] = "settle" => at["run"] = "settle" /\ UNCHANGED <<tags, stuck, result["run"]>>,
             at'["now"] = "apply" /\ Stale("now")' => at["now"] = "apply" /\ Stale("now")
      PROVE  ChaseRunsOut'
  BY <1>k DEF ChaseRunsOut, Stale, Now
<1>1. CASE Tick
  BY <1>1, TickChase
<1>2. CASE WatchFails \/ CallRunNow \/ Nudge \/ (\E list \in TagLists : Retag(list))
           \/ (\E n \in 0..MaxMates : MatesChange(n))
  BY <1>2, <1>z DEF WatchFails, CallRunNow, Nudge, Retag, MatesChange, Event
<1>3. ASSUME NEW c \in Callers, PassFails(c) PROVE ChaseRunsOut'
  BY <1>3, <1>z, Failed
<1>4. CASE PassSucceeds("run")
  <2>1. /\ at["run"] = "apply" /\ at'["run"] = "settle" /\ at'["now"] = at["now"] /\ at["now"] # "apply"
        /\ result'["run"].registry = result["run"].registry /\ result'["run"].waiting = stuck
        /\ ~result'["run"].failed /\ UNCHANGED <<calm, lastVars, tags, stuck>>
    BY <1>4, Finished, Succeeded DEF Callers
  <2>2. Now' = Now /\ Stale("run")' = Stale("run")
    BY <2>1 DEF Stale, Now
  <2>3. Informed' = Informed
    BY <2>1, <2>2 DEF Informed, Callers
  <2>. QED
    BY <2>1, <2>2, <2>3 DEF ChaseRunsOut
<1>5. CASE PassSucceeds("now")
  <2>1. /\ at["now"] = "apply" /\ at'["now"] = "none" /\ at'["run"] = at["run"]
        /\ at["run"] \notin {"read", "apply"}
        /\ result'["run"] = result["run"] /\ UNCHANGED <<calm, tags, stuck, ticker>>
        /\ lastSeen' = result["now"].registry /\ lastActed' = result["now"].registry
        /\ lastWaiting' = stuck
        /\ chase' = IF Differs(lastActed, result["now"].registry) \/ stuck > lastWaiting THEN ChaseFor ELSE chase
    BY <1>5, Finished, Succeeded DEF Callers
  <2>2. Now' = Now /\ Stale("run")' = Stale("run")
    BY <2>1 DEF Stale, Now
  <2>3. CASE Informed
    <3>1. chase' = chase
      BY <1>n, <2>1, <2>3 DEF Informed, Stale, Differs, LoopTypes, WorldTypes, Callers
    <3>2. Informed'
      BY <2>1, <2>2, <2>3 DEF Informed, Stale, Callers
    <3>. QED
      BY <2>1, <2>2, <2>3, <3>1, <3>2 DEF ChaseRunsOut
  <2>4. CASE ~Informed
    <3>1. calm <= Interval
      BY <2>4 DEF ChaseRunsOut
    <3>. QED
      BY <1>c, <2>1, <2>2, <2>4, <3>1 DEF ChaseRunsOut
  <2>. QED
    BY <2>3, <2>4
<1>6. CASE SettleRun
  <2>. DEFINE r == result["run"]
  <2>1. /\ at["run"] = "settle" /\ at'["run"] = "select" /\ at'["now"] = at["now"]
        /\ result'["now"] = result["now"] /\ UNCHANGED <<calm, tags, stuck>>
    BY <1>6 DEF SettleRun, Goes, LoopTypes, WhereTypes, Callers
  <2>2. Now' = Now
    BY <2>1 DEF Now
  <2>3. CASE \/ r.failed \/ Stale("run") \/ r.waiting # stuck
             \/ at["now"] = "apply" /\ Stale("now")
    BY <1>z, <2>1, <2>3 DEF ChaseRunsOut
  <2>4. CASE /\ ~r.failed /\ ~Stale("run") /\ r.waiting = stuck
             /\ ~(at["now"] = "apply" /\ Stale("now"))
    <3>1. /\ lastSeen' = Now /\ lastActed' = Now /\ lastWaiting' = stuck
          /\ chase' = IF Differs(lastActed, Now) \/ stuck > lastWaiting THEN ChaseFor ELSE chase
      BY <1>6, <2>4 DEF SettleRun, Settle, Stale
    <3>2. Informed'
      BY <2>1, <2>2, <2>4, <3>1 DEF Informed, Stale, Callers
    <3>3. calm + chase' <= Interval + ChaseFor
      <4>1. CASE Informed
        <5>1. chase' = chase
          BY <1>n, <3>1, <4>1 DEF Informed, Differs, LoopTypes, WorldTypes
        <5>. QED
          BY <4>1, <5>1 DEF ChaseRunsOut
      <4>2. CASE ~Informed
        <5>1. calm <= Interval
          BY <4>2 DEF ChaseRunsOut
        <5>. QED
          BY <1>c, <5>1, RenewedInTime
      <4>. QED
        BY <4>1, <4>2
    <3>. QED
      BY <2>1, <3>2, <3>3 DEF ChaseRunsOut
  <2>. QED
    BY <2>3, <2>4
<1>7. CASE Watch
  <2>1. /\ at["run"] = "watch" /\ at'["run"] \in {"lock", "select"} /\ at'["now"] = at["now"]
        /\ lastSeen' = Now /\ chase' = (IF Differs(lastSeen, Now) THEN ChaseFor ELSE chase)
        /\ UNCHANGED <<result, calm, ticker, tags, stuck, lastActed, lastWaiting>>
    BY <1>7 DEF Watch, Goes, LoopTypes, WhereTypes, Callers
  <2>2. CASE Informed
    <3>1. chase' = chase /\ lastSeen' = lastSeen
      BY <1>n, <2>1, <2>2 DEF Informed, Differs
    <3>2. Informed'
      BY <2>1, <2>2, <3>1 DEF Informed, Stale, Now, Callers
    <3>. QED
      BY <2>1, <2>2, <3>1, <3>2 DEF ChaseRunsOut
  <2>3. CASE ~Informed
    <3>1. calm <= Interval /\ (ticker.due \/ calm + ticker.left <= Interval)
      BY <2>1, <2>3 DEF ChaseRunsOut
    <3>. QED
      BY <1>c, <2>1, <3>1 DEF ChaseRunsOut
  <2>. QED
    BY <2>2, <2>3
<1>8. ASSUME NEW c \in Callers, Read(c) PROVE ChaseRunsOut'
  <2>1. /\ at' = [at EXCEPT ![c] = "apply"] /\ at[c] = "read"
        /\ result' = [result EXCEPT ![c] = [Nothing EXCEPT !.registry = Now]]
        /\ UNCHANGED <<tags, stuck, calm, chase, ticker, lastSeen, lastActed, lastWaiting>>
    BY <1>8 DEF Read, Goes
  <2>2. result'[c].registry = Now /\ Now' = Now /\ ~Stale(c)'
    BY <2>1 DEF Nothing, LoopTypes, WhereTypes, Stale, Now
  <2>3. \A d \in Callers \ {c} : at'[d] = at[d] /\ result'[d] = result[d] /\ Stale(d)' = Stale(d)
    BY <2>1, <2>2 DEF LoopTypes, WhereTypes, Stale
  <2>4. at'[c] = "apply"
    BY <2>1 DEF LoopTypes, WhereTypes
  <2>5. Informed' = Informed
    BY <2>1, <2>2, <2>3, <2>4 DEF Informed, Callers
  <2>. QED
    BY <1>k, <2>1, <2>2, <2>3, <2>4, <2>5 DEF Callers
<1>9. ASSUME UNCHANGED <<tags, stuck, result, calm, chase, lastSeen, lastActed, lastWaiting>>,
             \A c \in Callers : at'[c] = "apply" <=> at[c] = "apply",
             at'["run"] = "settle" <=> at["run"] = "settle",
             at'["run"] \in {"select", "watch"} => at["run"] \in {"select", "watch"} /\ ticker' = ticker
      PROVE  ChaseRunsOut'
  <2>1. Informed' = Informed /\ \A c \in Callers : Stale(c)' = Stale(c)
    BY <1>9 DEF Informed, Stale, Now
  <2>. QED
    BY <1>9, <1>k, <2>1 DEF Callers
<1>10. CASE TakeTimer \/ TakeTick \/ TakeWatch \/ FirstPass
  BY <1>9, <1>10 DEF TakeTimer, TakeTick, TakeWatch, FirstPass, Goes, LoopTypes, WhereTypes, Callers
<1>11. ASSUME NEW c \in Callers, Lock(c) PROVE ChaseRunsOut'
  BY <1>9, <1>11 DEF Lock, Goes, LoopTypes, WhereTypes, Callers
<1>12. CASE TakeNudge \/ UNCHANGED loopVars
  BY <1>9, <1>12 DEF TakeNudge, loopVars
<1>. QED
  BY <1>1, <1>2, <1>3, <1>4, <1>5, <1>6, <1>7, <1>8, <1>10, <1>11, <1>12
     DEF LoopNext, RunStep, PassStep, Callers

\* A Mate that never gets ready is not chased for ever: when nothing changes or
\* fails, a chase is over ChaseFor after an interval, for any lengths of both and
\* however the passes of Run and of RunNow come between each other (settle).
THEOREM ChaseIsOver == LoopSpec => []ChaseEnds
PROOF
<1>1. LoopInit => OnePass /\ Heard
  BY DEF LoopInit, OnePass, Heard, Callers
<1>2. LoopInit => ChaseRunsOut
  BY Lengths DEF LoopInit, ChaseRunsOut, Callers
<1>3. LoopTypes /\ ChaseRunsOut => ChaseEnds
  BY Lengths DEF LoopTypes, LastTypes, HistoryTypes, ChaseRunsOut, ChaseEnds
<1>. QED
  BY <1>1, <1>2, <1>3, InitLoopTypes, NextLoopTypes, NextOnePass, NextHeard, NextChase, PTL DEF LoopSpec

=============================================================================
