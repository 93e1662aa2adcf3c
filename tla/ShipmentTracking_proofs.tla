---------------------- MODULE ShipmentTracking_proofs ----------------------
(***************************************************************************)
(* Proofs about ShipmentTracking, for any carrier that leaves a delivered  *)
(* shipment delivered: however its news is lost, repeated or late, its     *)
(* money is taken over only when it was delivered, and only once.          *)
(***************************************************************************)
EXTENDS ShipmentTracking, FiniteSums

(* The status that opens the till is the status of one code.               *)
LEMMA DeliveredCode ==
  \A code \in Nat : /\ BostaStatus(code) \in Status
                    /\ BostaStatus(code) = "delivered" <=> code = 45
BY DEF BostaStatus, Status

(* The latest of some events is one of them.                               *)
LEMMA LatestOfEvents ==
  ASSUME NEW S, IsFiniteSet(S), S \subseteq Event, S # {}
  PROVE  Latest(S) \in S
<1> DEFINE times == {e.at : e \in S}
<1>1. IsFiniteSet(times)
  <2> DEFINE at == [e \in S |-> e.at]
  <2>1. at \in Surjection(S, times)
    BY DEF Surjection
  <2> HIDE DEF at, times
  <2> QED BY <2>1, FS_Surjection
<1>2. times \subseteq Int /\ times # {}
  BY DEF Event
<1>3. PICK m \in times : \A x \in times : x <= m
  <2> HIDE DEF times
  <2> QED BY <1>1, <1>2, GreatestNumber
<1>4. PICK e \in S : e.at = m
  OBVIOUS
<1>5. \A f \in S : f.at <= e.at
  BY <1>3, <1>4
<1> QED BY <1>5 DEF Latest

(* A batch of events leaves the order where each of them may lead it.      *)
LEMMA AppliedStays ==
  ASSUME NEW S, IsFiniteSet(S), S \subseteq Event, NEW V, NEW o \in V,
         \A e \in S, v \in V : Tracked(v, e.code) \in V
  PROVE  Applied(o, S) \in V
<1> DEFINE c == [s \in SUBSET S |-> Latest(s)]
           t == [e \in S |-> [v \in V |-> Tracked(v, e.code)]]
           Iter(g) == g = [s \in SUBSET S |-> IF s = {} THEN o
                                              ELSE Tracked(g[s \ {Latest(s)}], Latest(s).code)]
<1>1. \A s \in SUBSET S : s # {} => Latest(s) \in s
  <2> SUFFICES ASSUME NEW s \in SUBSET S, s # {} PROVE Latest(s) \in s
    OBVIOUS
  <2>1. IsFiniteSet(s) /\ s \subseteq Event
    BY FS_Subset
  <2> QED BY <2>1, LatestOfEvents
<1>2. \A s \in SUBSET S : s # {} => c[s] \in s
  BY <1>1
<1>3. \A x \in S, v \in V : t[x][v] \in V
  OBVIOUS
<1>4. \E g : Folding(o, c, t, S, g)
  <2> HIDE DEF c, t
  <2> QED BY <1>2, FoldingExists
<1>5. PICK g : Folding(o, c, t, S, g)
  BY <1>4
<1>6. \A s \in SUBSET S : g[s] \in V
  <2> HIDE DEF c, t
  <2> QED BY <1>2, <1>3, <1>5, FoldingStays
<1> DEFINE h == [s \in SUBSET S |-> g[s]]
<1>7. \A s \in SUBSET S : s # {} => g[s] = Tracked(g[s \ {Latest(s)}], Latest(s).code)
  <2> SUFFICES ASSUME NEW s \in SUBSET S, s # {}
               PROVE  g[s] = Tracked(g[s \ {Latest(s)}], Latest(s).code)
    OBVIOUS
  <2>1. Latest(s) \in S /\ g[s \ {Latest(s)}] \in V
    BY <1>1, <1>6
  <2>2. g[s] = t[c[s]][g[s \ {c[s]}]]
    BY <1>5 DEF Folding
  <2>3. c[s] = Latest(s)
    OBVIOUS
  <2> QED BY <2>1, <2>2, <2>3
<1>8. Iter(h)
  <2>1. \A s \in SUBSET S : h[s] = IF s = {} THEN o
                                   ELSE Tracked(h[s \ {Latest(s)}], Latest(s).code)
    BY <1>5, <1>7 DEF Folding
  <2> QED BY <2>1
<1> DEFINE k == CHOOSE iter : Iter(iter)
<1>9. Iter(k)
  BY <1>8
<1>10. Applied(o, S) = k[S]
  BY DEF Applied, MapThenFoldSet
<1>11. \A s \in SUBSET S : IF s = {} THEN k[s] = o
                           ELSE k[s] = Tracked(k[s \ {Latest(s)}], Latest(s).code)
  <2> HIDE DEF k
  <2> QED BY <1>9
<1> HIDE DEF k
<1> DEFINE Good == {s \in SUBSET S : k[s] \in V}
<1>12. ASSUME NEW s \in SUBSET S, \A u \in SUBSET s : u # s => u \in Good
       PROVE  s \in Good
  <2>1. CASE s = {}
    BY <1>11, <2>1
  <2>2. CASE s # {}
    <3>1. Latest(s) \in s
      BY <1>1, <2>2
    <3>2. k[s \ {Latest(s)}] \in V
      BY <1>12, <3>1
    <3>3. k[s] = Tracked(k[s \ {Latest(s)}], Latest(s).code)
      BY <1>11, <2>2
    <3> QED BY <3>1, <3>2, <3>3
  <2> QED BY <2>1, <2>2
<1>13. S \in Good
  <2> HIDE DEF Good
  <2> QED BY <1>12, StrongSubsetInduction
<1> QED BY <1>10, <1>13

---------------------------------------------------------------------------
(* The inductive invariant.  It says of the news still on its way, and of  *)
(* the order in memory and on the disk, that they show a delivery only if  *)
(* the carrier has posted one; a delivery it has posted is where the       *)
(* shipment still is.                                                      *)
Orders == [status : Status, code : Nat, tracked : BOOLEAN, settled : Nat]
Posted == {event.code : event \in sent}
Known  == {NoCode} \cup Posted

(* What an order may show.                                                 *)
Shown == {o \in Orders : /\ o.code \in Known
                         /\ o.status = "delivered" => 45 \in Posted
                         /\ o.settled > 0 => 45 \in Posted}

NewsInv ==
  /\ carrier \in Event /\ sent \subseteq Event /\ IsFiniteSet(sent)
  /\ consumed \subseteq received /\ received \subseteq sent
  /\ hook \in [waits : {"nothing", "list", "ack"}, events : SUBSET received]
  /\ track \subseteq Known /\ carrier.code \in Known
  /\ 45 \in Posted => carrier.code = 45
  /\ ~order.tracked /\ ~submit => sent = {}

OrderInv == order \in Shown /\ disk \in Shown

MoneyInv ==
  /\ desk \in Nat /\ drawer \in Nat
  /\ drawer = desk + order.settled /\ drawer <= Total

ShipInv == NewsInv /\ OrderInv /\ MoneyInv

(* The initial states satisfy the invariant.                               *)
LEMMA ShipInit == Init => ShipInv
<1> SUFFICES ASSUME Init PROVE ShipInv
  OBVIOUS
<1>1. IsFiniteSet({})
  BY FS_EmptySet
<1>2. NewsInv
  BY <1>1 DEF Init, NewsInv, Event, Idle, Known, Posted, NoCode
<1>3. OrderInv
  BY DEF Init, OrderInv, Shown, Orders, Status, Known, NoCode
<1>4. MoneyInv
  BY ShipmentAssumption DEF Init, MoneyInv
<1> QED BY <1>2, <1>3, <1>4 DEF ShipInv

(* News that is posted adds to what an order may show.                     *)
LEMMA MorePosted ==
  ASSUME sent \subseteq sent' PROVE Shown \subseteq Shown' /\ Known \subseteq Known'
BY DEF Shown, Known, Posted, NoCode

(* An order that takes a posted code still shows what was posted.          *)
LEMMA TrackedShown ==
  ASSUME NEW o \in Shown, NEW code \in Known, sent \subseteq Event
  PROVE  /\ Tracked(o, code) \in Shown
         /\ Tracked(o, code).settled = o.settled /\ Tracked(o, code).tracked = o.tracked
<1>1. o \in Orders /\ code \in Nat
  BY DEF Shown, Known, Posted, Event, NoCode
<1>2. BostaStatus(code) \in Status /\ (BostaStatus(code) = "delivered" => code = 45)
  BY <1>1, DeliveredCode
<1>3. code = 45 => 45 \in Posted
  BY DEF Known, NoCode
<1> HIDE DEF Orders, Known
<1> QED BY <1>1, <1>2, <1>3 DEF Tracked, Shown, Orders

---------------------------------------------------------------------------
(* The steps                                                               *)

(* What the carrier posts is where the shipment is.                        *)
LEMMA CarrierSteps ==
  ASSUME ShipInv, CarrierMoves \/ SubmitAsk PROVE ShipInv'
<1> USE DEF ShipInv
<1>1. sent' = sent \cup {carrier'} /\ carrier' \in Event
  BY ShipmentAssumption DEF CarrierMoves, SubmitAsk, NewsInv, Event, Created
<1>2. sent \subseteq sent' /\ sent' \subseteq Event /\ IsFiniteSet(sent')
  <2>1. IsFiniteSet(sent \cup {carrier'})
    BY FS_AddElement DEF NewsInv
  <2> QED BY <1>1, <2>1 DEF NewsInv
<1>3. Shown \subseteq Shown' /\ Known \subseteq Known'
  BY <1>2, MorePosted
<1>4. 45 \notin Posted
  <2>1. CASE CarrierMoves
    BY <2>1, ShipmentAssumption DEF CarrierMoves, NewsInv
  <2>2. CASE SubmitAsk
    BY <2>2 DEF SubmitAsk, NewsInv, Posted
  <2> QED BY <2>1, <2>2
<1>5. carrier'.code \in Known' /\ (45 \in Posted' => carrier'.code = 45)
  BY <1>1, <1>4 DEF Known, Posted
<1>6. /\ UNCHANGED <<received, consumed, hook, track, order, disk, desk, drawer>>
      /\ order.tracked \/ submit'
  BY DEF CarrierMoves, SubmitAsk
<1>7. NewsInv'
  BY <1>1, <1>2, <1>3, <1>5, <1>6 DEF NewsInv
<1>8. OrderInv'
  BY <1>3, <1>6 DEF OrderInv
<1>9. MoneyInv'
  BY <1>6 DEF MoneyInv
<1> QED BY <1>7, <1>8, <1>9

(* What does not touch the order, the carrier and the money.               *)
LEMMA NewsSteps ==
  ASSUME ShipInv,
         PostArrives \/ HookAsk \/ HookAck \/ HookFails \/ TrackAsk \/ RefreshByHand
           \/ FlushMoney \/ UNCHANGED vars
  PROVE  ShipInv'
<1> USE DEF ShipInv
<1>1. UNCHANGED <<carrier, sent, order, disk, submit, desk, drawer>>
  BY DEF PostArrives, HookAsk, HookAck, HookFails, TrackAsk, RefreshByHand, Ask,
         FlushMoney, vars
<1>2. Shown' = Shown /\ Known' = Known /\ Posted' = Posted
  BY <1>1 DEF Shown, Known, Posted
<1>3. /\ consumed' \subseteq received' /\ received' \subseteq sent'
      /\ hook' \in [waits : {"nothing", "list", "ack"}, events : SUBSET received']
      /\ track' \subseteq Known'
  <2> USE <1>1, <1>2 DEF NewsInv
  <2>1. CASE PostArrives
    BY <2>1 DEF PostArrives
  <2>2. CASE HookAsk
    BY <2>2 DEF HookAsk
  <2>3. CASE HookAck
    BY <2>3 DEF HookAck, Idle
  <2>4. CASE HookFails
    BY <2>4 DEF HookFails, Idle
  <2>5. CASE TrackAsk \/ RefreshByHand
    BY <2>5 DEF TrackAsk, RefreshByHand, Ask
  <2>6. CASE FlushMoney
    BY <2>6 DEF FlushMoney
  <2>7. CASE UNCHANGED vars
    BY <2>7 DEF vars
  <2> QED BY <2>1, <2>2, <2>3, <2>4, <2>5, <2>6, <2>7
<1>4. NewsInv'
  <2> HIDE DEF Posted, Known
  <2> QED BY <1>1, <1>2, <1>3 DEF NewsInv
<1>5. OrderInv'
  <2> HIDE DEF Shown
  <2> QED BY <1>1, <1>2 DEF OrderInv
<1>6. MoneyInv'
  BY <1>1 DEF MoneyInv
<1> QED BY <1>4, <1>5, <1>6

(* What changes the order and adds no news.                                *)
LEMMA OrderSteps ==
  ASSUME ShipInv, UNCHANGED <<carrier, sent, received, consumed>>,
         hook' \in [waits : {"nothing", "list", "ack"}, events : SUBSET received],
         track' \subseteq track, order' \in Shown, disk' \in Shown,
         order'.tracked \/ submit' \/ (~order.tracked /\ ~submit), MoneyInv'
  PROVE  ShipInv'
<1> USE DEF ShipInv
<1>1. Shown' = Shown /\ Known' = Known /\ Posted' = Posted
  BY DEF Shown, Known, Posted
<1>2. NewsInv'
  <2> HIDE DEF Posted, Known
  <2> QED BY <1>1 DEF NewsInv
<1>3. OrderInv'
  BY <1>1 DEF OrderInv
<1> QED BY <1>2, <1>3

(* What a call that comes back makes of the order.                         *)
LEMMA Answers ==
  ASSUME ShipInv, SubmitAnswer \/ TrackAnswer PROVE ShipInv'
<1> USE DEF ShipInv
<1>1. CASE SubmitAnswer
  <2>1. order' \in Shown /\ order'.settled = order.settled /\ order'.tracked
    BY <1>1 DEF SubmitAnswer, OrderInv, Shown, Orders, Status
  <2>2. MoneyInv'
    BY <1>1, <2>1 DEF SubmitAnswer, MoneyInv
  <2>3. /\ UNCHANGED <<carrier, sent, received, consumed, hook, track, disk>>
    BY <1>1 DEF SubmitAnswer
  <2> QED BY <2>1, <2>2, <2>3, OrderSteps DEF NewsInv, OrderInv
<1>2. CASE TrackAnswer
  <2>1. PICK code \in track : order' = Tracked(order, code)
    BY <1>2 DEF TrackAnswer
  <2>2. /\ order' \in Shown /\ order'.settled = order.settled
        /\ order'.tracked = order.tracked
    BY <2>1, TrackedShown DEF NewsInv, OrderInv
  <2>3. MoneyInv'
    BY <1>2, <2>2 DEF TrackAnswer, MoneyInv
  <2>4. /\ UNCHANGED <<carrier, sent, received, consumed, hook, submit, disk>>
        /\ track' \subseteq track
    BY <1>2 DEF TrackAnswer
  <2> QED BY <2>2, <2>3, <2>4, OrderSteps DEF NewsInv, OrderInv
<1> QED BY <1>1, <1>2

(* The batch the webhook poll brought.                                     *)
LEMMA AppliesEvents ==
  ASSUME ShipInv, HookApply PROVE ShipInv'
<1> USE DEF ShipInv
<1> DEFINE V == {o \in Shown : o.settled = order.settled /\ o.tracked = order.tracked}
<1>1. hook.events \subseteq sent /\ IsFiniteSet(hook.events) /\ hook.events \subseteq Event
  BY FS_Subset DEF NewsInv
<1>2. \A e \in hook.events, v \in V : Tracked(v, e.code) \in V
  <2> SUFFICES ASSUME NEW e \in hook.events, NEW v \in V PROVE Tracked(v, e.code) \in V
    OBVIOUS
  <2>1. e.code \in Known
    BY <1>1 DEF Known, Posted
  <2>2. v \in Shown /\ sent \subseteq Event
    BY DEF NewsInv
  <2>3. /\ Tracked(v, e.code) \in Shown
        /\ Tracked(v, e.code).settled = v.settled /\ Tracked(v, e.code).tracked = v.tracked
    BY <2>1, <2>2, TrackedShown
  <2> QED BY <2>3
<1>3. order \in V
  BY DEF OrderInv
<1>4. Applied(order, hook.events) \in V
  <2> HIDE DEF V
  <2> QED BY <1>1, <1>2, <1>3, AppliedStays
<1>5. order' \in V
  BY <1>4 DEF HookApply
<1>6. MoneyInv'
  BY <1>5 DEF HookApply, MoneyInv
<1>7. /\ UNCHANGED <<carrier, sent, received, consumed, submit, disk, track>>
      /\ hook' \in [waits : {"nothing", "list", "ack"}, events : SUBSET received]
  BY DEF HookApply, NewsInv, Idle
<1> QED BY <1>5, <1>6, <1>7, OrderSteps DEF NewsInv, OrderInv

(* The till: the carrier brings no more than is still owed.                *)
LEMMA MoneySteps ==
  ASSUME ShipInv, SaveOrder \/ SettleOrderCod \/ PayAtDesk PROVE ShipInv'
<1> USE DEF ShipInv
<1>1. order' \in Shown /\ disk' \in Shown /\ order'.tracked = order.tracked
  <2>1. CASE SaveOrder
    BY <2>1 DEF SaveOrder, OrderInv
  <2>2. CASE SettleOrderCod
    <3>1. Due \in Nat
      BY <2>2, ShipmentAssumption DEF Due, MoneyInv
    <3>2. order' = [order EXCEPT !.settled = Due] /\ order.status = "delivered"
          /\ disk' = disk
      BY <2>2 DEF SettleOrderCod
    <3> QED BY <3>1, <3>2 DEF OrderInv, Shown, Orders
  <2>3. CASE PayAtDesk
    BY <2>3 DEF PayAtDesk, OrderInv
  <2> QED BY <2>1, <2>2, <2>3
<1>2. MoneyInv'
  <2>1. CASE SaveOrder
    BY <2>1 DEF SaveOrder, MoneyInv
  <2>2. CASE SettleOrderCod
    <3>1. Due \in Nat /\ drawer + Due <= Total
      BY <2>2, ShipmentAssumption DEF Due, MoneyInv
    <3>2. order'.settled = Due /\ order.settled = 0 /\ drawer' = drawer + Due /\ desk' = desk
      BY <2>2 DEF SettleOrderCod, OrderInv, Shown, Orders
    <3> QED BY <3>1, <3>2 DEF MoneyInv
  <2>3. CASE PayAtDesk
    BY <2>3, ShipmentAssumption DEF PayAtDesk, MoneyInv, OrderInv, Shown, Orders
  <2> QED BY <2>1, <2>2, <2>3
<1>3. UNCHANGED <<carrier, sent, received, consumed, hook, submit, track>>
  BY DEF SaveOrder, SettleOrderCod, PayAtDesk
<1> QED BY <1>1, <1>2, <1>3, OrderSteps DEF NewsInv

(* After a power cut the order shows what was saved of it.                 *)
LEMMA Crashes ==
  ASSUME ShipInv, MoneySaved, Crash PROVE ShipInv'
<1> USE DEF ShipInv
<1>1. order' \in Shown /\ disk' \in Shown
  BY DEF Crash, OrderInv
<1>2. MoneyInv'
  BY DEF Crash, MoneySaved, MoneyInv
<1>3. /\ UNCHANGED <<carrier, sent, received, consumed, submit>> /\ track' \subseteq track
      /\ hook' \in [waits : {"nothing", "list", "ack"}, events : SUBSET received]
  BY DEF Crash, Idle
<1>4. order'.tracked \/ (~order.tracked /\ ~submit)
  BY DEF Crash
<1> QED BY <1>1, <1>2, <1>3, <1>4, OrderSteps

(* The invariant is inductive.                                             *)
LEMMA ShipNext == ShipInv /\ [Next]_vars => ShipInv'
<1> SUFFICES ASSUME ShipInv, [Next]_vars PROVE ShipInv'
  OBVIOUS
<1>1. CASE CarrierMoves \/ SubmitAsk
  BY <1>1, CarrierSteps
<1>2. CASE PostArrives \/ HookAsk \/ HookAck \/ HookFails \/ TrackAsk \/ RefreshByHand
             \/ FlushMoney \/ UNCHANGED vars
  BY <1>2, NewsSteps
<1>3. CASE SubmitAnswer \/ TrackAnswer
  BY <1>3, Answers
<1>4. CASE HookApply
  BY <1>4, AppliesEvents
<1>5. CASE SaveOrder \/ SettleOrderCod \/ PayAtDesk
  BY <1>5, MoneySteps
<1>6. CASE MoneySaved /\ Crash
  BY <1>6, Crashes
<1> QED BY <1>1, <1>2, <1>3, <1>4, <1>5, <1>6 DEF Next

(* It holds in every state the order, the relay and the carrier reach.      *)
THEOREM ShipmentAlwaysInv == Spec => []ShipInv
BY ShipInit, ShipNext, PTL DEF Spec

---------------------------------------------------------------------------
(* The types, and that the order shows no code that was not posted.        *)
THEOREM ShipmentTypeCorrect == Spec => []TypeOK
<1>1. ShipInv => TypeOK
  BY DEF ShipInv, NewsInv, OrderInv, Shown, Orders, Known, Posted, TypeOK
<1> QED BY <1>1, ShipmentAlwaysInv, PTL

(* The till takes the carrier's money only for a delivered shipment        *)
(* (settleOrderCod), whatever became of its news.                          *)
THEOREM MoneyOnlyForDelivered == Spec => []SettledMeansDelivered
<1>1. ShipInv => SettledMeansDelivered
  BY DeliveredCode DEF ShipInv, NewsInv, OrderInv, Shown, Event, SettledMeansDelivered
<1> QED BY <1>1, ShipmentAlwaysInv, PTL

(* What the counter took is not collected again, and nothing twice.        *)
THEOREM NothingCollectedTwice == Spec => []CollectedOnce
<1>1. ShipInv => CollectedOnce
  BY DEF ShipInv, MoneyInv, CollectedOnce
<1> QED BY <1>1, ShipmentAlwaysInv, PTL
=============================================================================
