-------------------------- MODULE ShipmentTracking --------------------------
(***************************************************************************)
(* One delivery order sent with the carrier Bosta, and the money the       *)
(* carrier collects: src/src/store/ShippingContext.tsx, the relay in       *)
(* src/services/bosta-webhook-hostinger/index.php, and the carrier as      *)
(* those two see it.                                                       *)
(*                                                                         *)
(* News of the shipment reaches the order twice: the carrier posts each    *)
(* change to the relay, which the desktop polls and acknowledges, and the  *)
(* desktop asks the carrier itself on a timer.  Posts may be lost,         *)
(* repeated or late, any call may fail, and the desktop may lose power.    *)
(***************************************************************************)
EXTENDS Naturals, FiniteSets, Folds

CONSTANTS
  Moves,      \* pairs of carrier codes one of which follows the other
  MaxMoves,   \* bound: changes of the shipment after it is created
  Total,      \* total of the invoice
  CodAmount,  \* what the carrier is to collect
  MaxCrashes  \* bound: power cuts

ASSUME ShipmentAssumption ==
  /\ Moves \subseteq Nat \X Nat /\ MaxMoves \in Nat /\ MaxCrashes \in Nat
  /\ Total \in Nat /\ CodAmount \in 1 .. Total
  /\ \A move \in Moves : move[1] # 45   \* a delivered shipment is at its end

VARIABLES
  carrier,    \* current code of the shipment and when it was reached
  sent,       \* changes the carrier has posted
  received,   \* rows of bosta_webhook_events
  consumed,   \* those with a consumed_at
  order,      \* the delivery order in memory
  disk,       \* the delivery order as last saved
  submit,     \* a createDelivery call is out
  hook,       \* the webhook poll: what it waits for, and the events it read
  track,      \* codes read by a trackDelivery call that is out
  desk,       \* history: receipts the customer paid at the counter
  drawer,     \* cash entries of the invoice
  savedMoney, \* desk and drawer as last flushed
  crashes

vars == <<carrier, sent, received, consumed, order, disk, submit, hook, track,
          desk, drawer, savedMoney, crashes>>

NoCode   == 0
Created  == 10
Event    == [code : Nat, at : Nat]
Idle     == [waits |-> "nothing", events |-> {}]

Status == {"ready", "assigned", "pickup_requested", "picked_up", "in_transit",
           "out_for_delivery", "delivered", "exception", "returned", "cancelled"}

(* Mutant of BostaStatus: a failed attempt counts as a delivery.           *)
BostaStatusOptimistic(code) ==
  IF code \in {45, 47} THEN "delivered" ELSE "in_transit"

(* Mutant of BostaStatus: codes the shop has no word for stay unknown.     *)
BostaStatusUnknown(code) == IF code = Created THEN "pickup_requested" ELSE "unknown"

(* bostaStatus; a code that is not in the table is on its way.             *)
BostaStatus(code) ==
  CASE code = 10                                 -> "pickup_requested"
    [] code = 20                                 -> "assigned"
    [] code \in {21, 23, 25}                     -> "picked_up"
    [] code \in {22, 40, 41}                     -> "out_for_delivery"
    [] code = 45                                 -> "delivered"
    [] code \in {46, 60}                         -> "returned"
    [] code \in {48, 49, 104}                    -> "cancelled"
    [] code \in {47, 100, 101, 102, 103, 105}    -> "exception"
    [] OTHER                                     -> "in_transit"

Final == {"delivered", "returned", "cancelled"}

Init ==
  /\ carrier = [code |-> NoCode, at |-> 0]
  /\ sent = {} /\ received = {} /\ consumed = {}
  /\ order = [status |-> "ready", code |-> NoCode, tracked |-> FALSE, settled |-> 0]
  /\ disk = order /\ submit = FALSE /\ hook = Idle /\ track = {}
  /\ desk = 0 /\ drawer = 0 /\ savedMoney = [desk |-> 0, drawer |-> 0]
  /\ crashes = 0

---------------------------------------------------------------------------
(* The carrier and the relay                                               *)

(* The shipment moves on.  A courier takes longer to be sent than          *)
(* createDelivery takes to answer.                                         *)
CarrierMoves ==
  /\ order.tracked /\ carrier.at <= MaxMoves
  /\ \E move \in Moves :
       /\ move[1] = carrier.code
       /\ carrier' = [code |-> move[2], at |-> carrier.at + 1]
       /\ sent' = sent \cup {carrier'}
  /\ UNCHANGED <<received, consumed, order, disk, submit, hook, track, desk,
                 drawer, savedMoney, crashes>>

(* receive_bosta_event: INSERT IGNORE on a hash of the shipment, the state *)
(* and the time.  Any post may come late, again, or never.                 *)
PostArrives ==
  /\ \E event \in sent : event \notin received /\ received' = received \cup {event}
  /\ UNCHANGED <<carrier, sent, consumed, order, disk, submit, hook, track, desk,
                 drawer, savedMoney, crashes>>

---------------------------------------------------------------------------
(* The desktop                                                             *)

(* submitOrderToBosta up to the await, for an order with no tracking       *)
(* number; the carrier makes the shipment.                                 *)
SubmitAsk ==
  /\ ~order.tracked /\ ~submit /\ carrier.code = NoCode
  /\ submit' = TRUE
  /\ carrier' = [code |-> Created, at |-> 1] /\ sent' = sent \cup {carrier'}
  /\ UNCHANGED <<received, consumed, order, disk, hook, track, desk, drawer,
                 savedMoney, crashes>>

(* ... and after it: the status goes back to the start, the code stays.    *)
SubmitAnswer ==
  /\ submit /\ submit' = FALSE
  /\ order' = [order EXCEPT !.status = "pickup_requested", !.tracked = TRUE]
  /\ UNCHANGED <<carrier, sent, received, consumed, disk, hook, track, desk,
                 drawer, savedMoney, crashes>>

(* An order takes a code that is not the one it has.                       *)
Tracked(o, code) ==
  IF o.code = code THEN o
  ELSE [o EXCEPT !.code = code, !.status = BostaStatus(code)]

(* pollWebhookEvents: list_events answers with what is not consumed.       *)
HookAsk ==
  /\ hook = Idle
  /\ hook' = [waits |-> "list", events |-> received \ consumed]
  /\ UNCHANGED <<carrier, sent, received, consumed, order, disk, submit, track,
                 desk, drawer, savedMoney, crashes>>

(* The order after a batch of events: the latest one is the last to count. *)
Latest(events) == CHOOSE e \in events : \A f \in events : f.at <= e.at

Applied(o, events) ==
  MapThenFoldSet(LAMBDA e, was : Tracked(was, e.code), o, LAMBDA e : e, Latest, events)

(* ... the events are applied in the order of their times ...              *)
HookApply ==
  /\ hook.waits = "list"
  /\ order' = Applied(order, hook.events)
  /\ hook' = IF hook.events = {} THEN Idle ELSE [hook EXCEPT !.waits = "ack"]
  /\ UNCHANGED <<carrier, sent, received, consumed, disk, submit, track, desk,
                 drawer, savedMoney, crashes>>

(* ... and acknowledged (acknowledge_events), whether or not the order has *)
(* been saved.                                                             *)
HookAck ==
  /\ hook.waits = "ack"
  /\ consumed' = consumed \cup hook.events /\ hook' = Idle
  /\ UNCHANGED <<carrier, sent, received, order, disk, submit, track, desk,
                 drawer, savedMoney, crashes>>

(* The list or the acknowledgement is lost on the way.                     *)
HookFails ==
  /\ hook # Idle /\ hook' = Idle
  /\ UNCHANGED <<carrier, sent, received, consumed, order, disk, submit, track,
                 desk, drawer, savedMoney, crashes>>

(* Mutant of MayTrack: a failed attempt is taken for the end.              *)
MayTrackNoExceptions(o) == o.tracked /\ o.status \notin Final \cup {"exception"}

(* syncActiveOrders picks sent orders that are not over.                   *)
MayTrack(o) == o.tracked /\ o.status \notin Final

(* refreshBostaTracking up to the await: the carrier answers.              *)
Ask ==
  /\ track = {} /\ track' = {carrier.code}
  /\ UNCHANGED <<carrier, sent, received, consumed, order, disk, submit, hook,
                 desk, drawer, savedMoney, crashes>>

TrackAsk      == MayTrack(order) /\ Ask   \* the timer
RefreshByHand == order.tracked /\ Ask     \* the button, at any status

(* ... and after it, whatever the webhook brought meanwhile.               *)
TrackAnswer ==
  /\ \E code \in track : order' = Tracked(order, code)
  /\ track' = {}
  /\ UNCHANGED <<carrier, sent, received, consumed, disk, submit, hook, desk,
                 drawer, savedMoney, crashes>>

(* The effect on orders: lsSetBatch after each render.                     *)
SaveOrder ==
  /\ disk # order /\ disk' = order
  /\ UNCHANGED <<carrier, sent, received, consumed, order, submit, hook, track,
                 desk, drawer, savedMoney, crashes>>

---------------------------------------------------------------------------
(* The money                                                               *)

(* Mutant of Due: what was paid at the counter is collected again.         *)
DueInFull == CodAmount

(* The amount settleOrderCod records: no more than the invoice is owed.    *)
Due == LET remaining == Total - drawer
       IN  IF CodAmount < remaining THEN CodAmount ELSE remaining

(* settleOrderCod with recordSalesReceipt. *)
SettleOrderCod ==
  /\ order.status = "delivered" /\ order.settled = 0 /\ Due > 0
  /\ order' = [order EXCEPT !.settled = Due]
  /\ drawer' = drawer + Due
  /\ UNCHANGED <<carrier, sent, received, consumed, disk, submit, hook, track,
                 desk, savedMoney, crashes>>

(* recordSalesReceipt: the customer pays a part at the counter.            *)
PayAtDesk ==
  /\ drawer < Total
  /\ desk' = desk + 1 /\ drawer' = drawer + 1
  /\ UNCHANGED <<carrier, sent, received, consumed, order, disk, submit, hook,
                 track, savedMoney, crashes>>

(* The debounced flush of AppContext. *)
FlushMoney ==
  /\ savedMoney' = [desk |-> desk, drawer |-> drawer] /\ savedMoney' # savedMoney
  /\ UNCHANGED <<carrier, sent, received, consumed, order, disk, submit, hook,
                 track, desk, drawer, crashes>>

(* Power loss and the next sign-in, not while a shipment is being created. *)
Crash ==
  /\ crashes < MaxCrashes /\ ~submit /\ (order.tracked <=> disk.tracked)
  /\ crashes' = crashes + 1
  /\ order' = disk /\ hook' = Idle /\ track' = {}
  /\ desk' = savedMoney.desk /\ drawer' = savedMoney.drawer
  /\ UNCHANGED <<carrier, sent, received, consumed, disk, submit, savedMoney>>

(* An ordinary power cut does not fall between the order and its receipt,  *)
(* which are saved apart.                                                  *)
MoneySaved == order.settled = disk.settled /\ savedMoney = [desk |-> desk, drawer |-> drawer]

Next ==
  \/ CarrierMoves \/ PostArrives \/ SubmitAsk \/ SubmitAnswer
  \/ HookAsk \/ HookApply \/ HookAck \/ HookFails \/ TrackAsk \/ RefreshByHand
  \/ TrackAnswer
  \/ SaveOrder \/ SettleOrderCod \/ PayAtDesk \/ FlushMoney
  \/ MoneySaved /\ Crash

(* The two timers run for ever, and calls do not fail for ever.            *)
Fairness ==
  /\ WF_vars(SubmitAnswer)
  /\ WF_vars(HookAsk) /\ WF_vars(HookApply) /\ SF_vars(HookAck)
  /\ SF_vars(TrackAsk) /\ WF_vars(TrackAnswer)

Spec == Init /\ [][Next]_vars /\ Fairness

---------------------------------------------------------------------------
(* Properties                                                              *)

(* Types; what the relay and the poll hold was posted and received.        *)
TypeOK ==
  /\ carrier \in Event /\ sent \subseteq Event
  /\ consumed \subseteq received /\ received \subseteq sent
  /\ hook.events \subseteq received /\ hook.waits \in {"nothing", "list", "ack"}
  /\ order.status \in Status /\ disk.status \in Status
  /\ order.code \in {NoCode} \cup {event.code : event \in sent}

(* Money is only ever taken over from the carrier for a shipment it really *)
(* delivered, through late and repeated news and power cuts                *)
(* (settleOrderCod, bostaStatus).                                          *)
SettledMeansDelivered ==
  order.settled > 0 => BostaStatus(carrier.code) = "delivered"

(* The drawer holds what the counter and the carrier brought, and never    *)
(* more than the invoice comes to (settleOrderCod, recordSalesReceipt).    *)
CollectedOnce == drawer = desk + order.settled /\ drawer <= Total

(* Whatever is lost, repeated, late or crashed, the order comes to show    *)
(* where the shipment really is ("The regular API polling remains active   *)
(* as a safe fallback", ShippingContext.tsx).                              *)
TrackingCatchesUp == <>[](order.tracked => order.status = BostaStatus(carrier.code))
============================================================================
