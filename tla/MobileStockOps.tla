-------------------------- MODULE MobileStockOps --------------------------
(***************************************************************************)
(* Stock work scanned on a warehouse phone: queued on the portal, polled,  *)
(* planned and applied by the desktop, and reported back                   *)
(* (src/src/features/mobile, fetchMobileStockOps and resolveMobileStockOps *)
(* in src/electron/main.cjs), over the shop session it changes.            *)
(*                                                                         *)
(* A round is one call of drainOnce.  It belongs to the mount of AppLayout *)
(* that started it and outlives that mount: signing out unmounts the       *)
(* screen, but a round already waiting for the portal goes on.             *)
(***************************************************************************)
EXTENDS ShopSession, SequencesExt, FiniteSetsExt

CONSTANTS
  Scans,        \* what storemen scan: records [id, kind, milli, known]
  Mounts,       \* mounts of AppLayout (two are enough to overlap)
  NoMount,
  BatchSize     \* operations one fetch returns (100 in the code)

ASSUME MobileAssumption ==
  /\ BatchSize \in Nat \ {0} /\ NoMount \notin Mounts
  /\ \A op \in Scans : op.kind \in {"add", "remove", "count"} /\ op.milli \in Nat
  /\ \A op \in Scans : op.known \in BOOLEAN

VARIABLES
  queue,        \* the portal: operations in the order they were queued
  told,         \* the portal: what each operation came to
  mount,        \* the mount on screen
  rounds,       \* the round of each mount
  lastSeen,     \* productsRef of a mount that has left the screen
  applied,      \* history: how often each operation changed the shop (2: more than once)
  unheard       \* history: operations whose resolve was lost

mobileVars == <<queue, told, mount, rounds, lastSeen, applied, unheard>>
vars == <<shopVars, mobileVars>>

Idle == [phase |-> "idle", ops |-> <<>>]

Init ==
  /\ ShopInit
  /\ queue = <<>> /\ told = [op \in Scans |-> "unscanned"]
  /\ mount = NoMount /\ rounds = [m \in Mounts |-> Idle]
  /\ lastSeen = [m \in Mounts |-> Seed]
  /\ applied = [op \in Scans |-> 0] /\ unheard = {}

---------------------------------------------------------------------------
(* planStockOps                                                            *)

(* Math.round(op.quantityMilli / MILLI)                                    *)
Units(op) == (op.milli + 500) \div 1000

(* An unknown part, or a removal of more than is on hand.                  *)
Refused(op, onHand) == ~op.known \/ (op.kind = "remove" /\ Units(op) > onHand)

Delta(op, onHand) ==
  CASE op.kind = "add"    -> Units(op)
    [] op.kind = "remove" -> -Units(op)
    [] op.kind = "count"  -> Units(op) - onHand

(* Mutant of PlanOne: every operation is checked against the quantity the  *)
(* batch started from.                                                     *)
PlanOneUnprojected(plan, op) ==
  IF Refused(op, plan.start) THEN [plan EXCEPT !.rejected = @ \cup {op}]
  ELSE [plan EXCEPT !.changes = Append(@, [op |-> op, delta |-> Delta(op, plan.start)])]

(* Mutant of PlanOne: a refused removal is planned all the same.           *)
PlanOneFallingThrough(plan, op) ==
  [plan EXCEPT
     !.rejected = IF Refused(op, plan.onHand) THEN @ \cup {op} ELSE @,
     !.onHand   = @ + Delta(op, plan.onHand),
     !.changes  = Append(@, [op |-> op, delta |-> Delta(op, plan.onHand)])]

(* Each operation is planned against what the previous one leaves behind.  *)
PlanOne(plan, op) ==
  IF Refused(op, plan.onHand) THEN [plan EXCEPT !.rejected = @ \cup {op}]
  ELSE [plan EXCEPT
          !.onHand  = @ + Delta(op, plan.onHand),
          !.changes = Append(@, [op |-> op, delta |-> Delta(op, plan.onHand)])]

NoPlan(quantity) ==
  [start |-> quantity, onHand |-> quantity, changes |-> <<>>, rejected |-> {}]

Plan(ops, quantity) == FoldLeft(PlanOne, NoPlan(quantity), ops)

(* Mutant of Results: only a change that moved stock is reported.          *)
ResultsOfMoves(plan) ==
  [op \in plan.rejected \cup {c.op : c \in {d \in ToSet(plan.changes) : d.delta # 0}} |->
     IF op \in plan.rejected THEN "rejected" ELSE "applied"]

(* Some change of the plan is not one of nothing.                          *)
Moving(plan) == \E c \in ToSet(plan.changes) : c.delta # 0

(* What the portal is told.                                                *)
Results(plan) ==
  [op \in plan.rejected \cup {c.op : c \in ToSet(plan.changes)} |->
     IF op \in plan.rejected THEN "rejected" ELSE "applied"]

---------------------------------------------------------------------------
(* The portal and the phone                                                *)

(* What a fetch returns: the oldest pending operations, at most BatchSize. *)
Taken(ops, op) ==
  IF told[op] = "pending" /\ Len(ops) < BatchSize THEN Append(ops, op) ELSE ops

Batch == FoldLeft(Taken, <<>>, queue)

(* A phone queues an operation under a number of its own. *)
Scan(op) ==
  /\ told[op] = "unscanned"
  /\ told' = [told EXCEPT ![op] = "pending"]
  /\ queue' = Append(queue, op)
  /\ UNCHANGED <<shopVars, mount, rounds, lastSeen, applied, unheard>>

(* The portal answers a fetch. *)
PortalReads(m) ==
  /\ rounds[m].phase = "asked"
  /\ rounds' = [rounds EXCEPT ![m] = [phase |-> "read", ops |-> Batch]]
  /\ UNCHANGED <<shopVars, queue, told, mount, lastSeen, applied, unheard>>

(* The portal records the results of a resolve. *)
PortalResolves(m) ==
  /\ rounds[m].phase = "resolving"
  /\ told' = [op \in Scans |->
       IF told[op] = "pending" /\ op \in DOMAIN rounds[m].results
       THEN rounds[m].results[op] ELSE told[op]]
  /\ rounds' = [rounds EXCEPT ![m] = Idle]
  /\ UNCHANGED <<shopVars, queue, mount, lastSeen, applied, unheard>>

---------------------------------------------------------------------------
(* drainOnce                                                               *)

(* A tick or a focus event, unless this mount already runs a round.        *)
Ask(m) ==
  /\ m = mount /\ rounds[m].phase = "idle"
  /\ rounds' = [rounds EXCEPT ![m] = [Idle EXCEPT !.phase = "asked"]]
  /\ UNCHANGED <<shopVars, queue, told, mount, lastSeen, applied, unheard>>

(* No signal, no licence, or no answer in eight seconds. *)
FetchFails(m) ==
  /\ rounds[m].phase = "asked"
  /\ rounds' = [rounds EXCEPT ![m] = Idle]
  /\ UNCHANGED <<shopVars, queue, told, mount, lastSeen, applied, unheard>>

(* adjustStock for one change; one of nothing is passed over, and would    *)
(* change nothing.                                                         *)
AdjustOne(shop, change) ==
  [stock |-> AdjustBy(shop.stock, change.delta), ledger |-> shop.ledger + change.delta]

Adjusted(shop, changes) == FoldLeft(AdjustOne, shop, changes)

(* The reply: everything is planned against productsRef, applied through   *)
(* adjustStock and handed to the resolve call in one go.  Signed out,      *)
(* adjustStock finds no product in the seed and main refuses the movement. *)
Answer(m) ==
  LET seen  == IF m = mount THEN stock ELSE lastSeen[m]
      plan  == Plan(rounds[m].ops, seen)
      after == Adjusted([stock |-> stock, ledger |-> ledger], plan.changes)
  IN  /\ rounds[m].phase = "read"
      /\ IF rounds[m].ops = <<>>
         THEN /\ rounds' = [rounds EXCEPT ![m] = Idle]
              /\ UNCHANGED <<shopVars, applied>>
         ELSE /\ rounds' = [rounds EXCEPT ![m] =
                   [phase |-> "resolving", ops |-> rounds[m].ops,
                    results |-> Results(plan)]]
              /\ IF SignedIn
                 THEN /\ stock' = after.stock /\ ledger' = after.ledger
                      /\ dirty' = (dirty \/ (Hydrated /\ Moving(plan)))
                      /\ applied' = [op \in Scans |->
                           IF op \in {c.op : c \in ToSet(plan.changes)}
                           THEN Min({applied[op] + 1, 2}) ELSE applied[op]]
                      /\ UNCHANGED <<session, saved>>
                 ELSE UNCHANGED <<shopVars, applied>>
      /\ stock' <= MaxStock
      /\ UNCHANGED <<queue, told, mount, lastSeen, unheard>>

(* The resolve call fails; drainOnce does not look at its result. *)
ResolveLost(m) ==
  /\ rounds[m].phase = "resolving"
  /\ rounds' = [rounds EXCEPT ![m] = Idle]
  /\ unheard' = unheard \cup ToSet(rounds[m].ops)
  /\ UNCHANGED <<shopVars, queue, told, mount, lastSeen, applied>>

---------------------------------------------------------------------------
(* The session, with its mounts                                            *)

Mount ==
  /\ SignIn
  /\ mount' \in {m \in Mounts : rounds[m].phase = "idle"}
  /\ UNCHANGED <<queue, told, rounds, lastSeen, applied, unheard>>

Unmount ==
  /\ SignOut
  /\ mount' = NoMount
  /\ lastSeen' = [lastSeen EXCEPT ![mount] = IF rounds[mount] = Idle THEN Seed ELSE stock]
  /\ UNCHANGED <<queue, told, rounds, applied, unheard>>

Resolving == {m \in Mounts : rounds[m].phase = "resolving"}

(* Mutant of WindowGone: the screen is taken to be still there. *)
WindowGoneKeepingMount ==
  /\ mount' = mount /\ rounds' = [m \in Mounts |-> Idle]
  /\ lastSeen' = [m \in Mounts |-> Seed]
  /\ unheard' = unheard \cup UNION {ToSet(rounds[m].ops) : m \in Resolving}
  /\ UNCHANGED <<queue, told, applied>>

(* The window goes, and every round with it: a resolve under way is as     *)
(* good as lost.                                                           *)
WindowGone ==
  /\ mount' = NoMount /\ rounds' = [m \in Mounts |-> Idle]
  /\ lastSeen' = [m \in Mounts |-> Seed]
  /\ unheard' = unheard \cup UNION {ToSet(rounds[m].ops) : m \in Resolving}
  /\ UNCHANGED <<queue, told, applied>>

InPlace == (Sales \/ Flush \/ Launch \/ Lock \/ UnlockEnd) /\ UNCHANGED mobileVars
Unlock  == UnlockBegin /\ UNCHANGED mobileVars
Ends    == (Close \/ Reload) /\ WindowGone
PowerCut == Crash /\ WindowGone

---------------------------------------------------------------------------
(* The next-state relation.  Nobody signs out during a round, no reply is  *)
(* handled while an unlock is reloading the state, and what is cut off has *)
(* been flushed.  The program allows all of it: a round that outlives a    *)
(* sign-out reports what it could not apply, or applies what the next      *)
(* sign-in's round applies too, and one handled during an unlock is        *)
(* overwritten by the reload.                                              *)

NoRound == \A m \in Mounts : rounds[m].phase = "idle"

(* Bound: an addition is applied again once, for the stock would grow and  *)
(* grow.                                                                   *)
AdditionsHeard(mounts) ==
  \A m \in mounts : \A op \in ToSet(rounds[m].ops) : op.kind = "add" => op \notin unheard

Poll(m) == Ask(m) \/ PortalReads(m) \/ FetchFails(m) \/ Answer(m) \/ PortalResolves(m)

RetryNext ==
  \/ \E op \in Scans : Scan(op)
  \/ session # "unlocking" /\ \E m \in Mounts : Poll(m)
  \/ \E m \in Mounts : AdditionsHeard({m}) /\ ResolveLost(m)
  \/ InPlace \/ Mount
  \/ AdditionsHeard(Resolving) /\ Ends
  \/ AdditionsHeard(Resolving) /\ ~dirty /\ PowerCut
  \/ ~dirty /\ Unlock
  \/ NoRound /\ ~dirty /\ Unmount

RetrySpec == Init /\ [][RetryNext]_vars

(* The timer chain of useMobileStockOps starts the next round whenever one *)
(* has ended; a reply and a resolve are handled when they come; a portal   *)
(* asked again and again answers in the end.                               *)
Fairness ==
  \A m \in Mounts :
    /\ WF_vars(Ask(m)) /\ WF_vars(Answer(m))
    /\ SF_vars(PortalReads(m)) /\ SF_vars(PortalResolves(m))

FairRetrySpec == RetrySpec /\ Fairness

---------------------------------------------------------------------------
(* Properties                                                              *)

(* Types; a mount is on screen exactly while someone is signed in, and a   *)
(* round in flight holds only operations somebody scanned.                 *)
TypeOK ==
  /\ ShopTypeOK
  /\ SignedIn <=> mount \in Mounts
  /\ \A m \in Mounts : ToSet(rounds[m].ops) \subseteq ToSet(queue)
  /\ ToSet(queue) = {op \in Scans : told[op] # "unscanned"}

(* No operation changes the shop twice, however it was retried (README.md  *)
(* on the phone's operation numbers).                                      *)
AppliedOnce == \A op \in Scans : applied[op] <= 1

(* The only way to be applied again is that the result was lost on its way *)
(* to the portal (drainOnce, resolveMobileStockOps).                       *)
AppliedAgainOnlyUnheard == \A op \in Scans : applied[op] > 1 => op \in unheard

(* The phone is told the truth: "applied" of an operation that changed the *)
(* shop, "rejected" of one that did not, or whose result was once lost.    *)
ToldTruth ==
  \A op \in Scans :
    /\ told[op] = "applied"  => applied[op] > 0
    /\ told[op] = "rejected" => applied[op] = 0 \/ op \in unheard

(* While somebody stays signed in, at the counter or behind the lock       *)
(* screen, every scan is answered in the end, even if fetches and resolves *)
(* fail on the way (the timer chain of useMobileStockOps).                 *)
EveryScanAnswered ==
  \A op \in Scans :
    told[op] = "pending" ~> (told[op] # "pending" \/ ~Hydrated)
============================================================================
