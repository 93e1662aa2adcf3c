----------------------- MODULE MobileStockOps_proofs -----------------------
(***************************************************************************)
(* Proofs about ShopSession and MobileStockOps, for every opening stock,   *)
(* every set of scans and every number of screens one after the other:     *)
(* shelf and ledger agree, an operation is applied again only when its     *)
(* result was lost, and the phone is told what its operation did.          *)
(***************************************************************************)
EXTENDS MobileStockOps, FiniteSums

---------------------------------------------------------------------------
(* The shop session by itself.  LedgerExplainsStock speaks of a hydrated   *)
(* renderer only and is not inductive: a sign-in takes the stock from      *)
(* disk.  The strengthening adds that the disk is right whenever no flush  *)
(* is due.                                                                 *)

(* With no flush due, or nobody to flush, the disk holds what the ledger   *)
(* explains (lsSetBatch of products against appendStockMovements).         *)
DiskExplained == (Hydrated /\ dirty) \/ saved = Opening + ledger

ShopInv == ShopTypeOK /\ LedgerExplainsStock /\ DiskExplained

(* A sale of at most what is on the shelf never meets the clamp of         *)
(* adjustStock, so shelf and ledger move by the same amount.               *)
LEMMA SaleUnclamped ==
  ASSUME NEW q \in Nat, NEW n \in Nat, n <= q
  PROVE  AdjustBy(q, -n) = q - n /\ AdjustBy(q, -n) \in Nat
  BY DEF AdjustBy

(* The first launch finds the opening stock on disk and an empty ledger.   *)
LEMMA ShopStarts == ShopInit => ShopInv
<1> SUFFICES ASSUME ShopInit PROVE ShopInv
  OBVIOUS
<1>1. session = "off" /\ stock = 0 /\ saved = Opening /\ ledger = 0 /\ dirty = FALSE
  BY DEF ShopInit, Seed
<1>2. Opening \in Nat
  BY SessionAssumption
<1>3. ShopTypeOK
  <2>1. dirty \in BOOLEAN
    BY <1>1
  <2>2. stock \in Nat /\ saved \in Nat /\ ledger \in Int
    BY <1>1, <1>2
  <2> QED
    BY <1>1, <2>1, <2>2 DEF ShopTypeOK
<1>4. ~Hydrated
  BY <1>1 DEF Hydrated
<1>5. saved = Opening + ledger
  BY <1>1, <1>2
<1> QED
  BY <1>3, <1>4, <1>5 DEF ShopInv, LedgerExplainsStock, DiskExplained

(* Every step of the calm shop keeps the shelf explained, on screen and on *)
(* disk (flush, sign-in, lock, unlock, sign-out, close, reload, crash).    *)
LEMMA ShopNext == ShopInv /\ [CalmNext]_shopVars => ShopInv'
<1> SUFFICES ASSUME ShopInv, [CalmNext]_shopVars PROVE ShopInv'
  OBVIOUS
<1> USE DEF ShopInv, ShopTypeOK, LedgerExplainsStock, DiskExplained, Hydrated
<1>1. CASE Sales
  <2>1. PICK n \in 1 .. MaxSale : Sell(n)
    BY <1>1 DEF Sales
  <2>2. n \in Nat /\ n <= stock /\ session = "ready"
    BY <2>1, SessionAssumption DEF Sell
  <2>3. stock' = stock - n /\ stock' \in Nat
    BY <2>1, <2>2, SaleUnclamped DEF Sell
  <2>4. ledger' = ledger - n /\ dirty' = TRUE /\ session' = session /\ saved' = saved
    BY <2>1 DEF Sell
  <2>5. dirty' \in BOOLEAN
    BY <2>4
  <2>6. ledger' \in Int /\ stock' = Opening + ledger'
    BY <2>2, <2>3, <2>4, SessionAssumption
  <2> QED
    BY <2>2, <2>3, <2>4, <2>5, <2>6
<1>2. CASE Flush
  BY <1>2 DEF Flush
<1>3. CASE Launch
  BY <1>3 DEF Launch, Seed
<1>4. CASE SignIn
  BY <1>4 DEF SignIn
<1>5. CASE Lock
  BY <1>5 DEF Lock
<1>6. CASE UnlockEnd
  BY <1>6 DEF UnlockEnd
<1>7. CASE Close
  BY <1>7 DEF Close, LastFlush, Seed
<1>8. CASE Reload
  BY <1>8 DEF Reload, LastFlush, Seed
<1>9. CASE ~dirty /\ UnlockBegin
  BY <1>9 DEF UnlockBegin
<1>10. CASE ~dirty /\ SignOut
  BY <1>10 DEF SignOut, Seed
<1>11. CASE ~dirty /\ Crash
  BY <1>11 DEF Crash, Seed
<1>12. CASE UNCHANGED shopVars
  BY <1>12 DEF shopVars
<1> QED
  BY <1>1, <1>2, <1>3, <1>4, <1>5, <1>6, <1>7, <1>8, <1>9, <1>10, <1>11, <1>12
  DEF CalmNext

(* What a signed-in shop sees on the product page is the opening stock plus *)
(* what the ledger recorded, through sign-ins, locks, sign-outs, closings, *)
(* reloads and power cuts, as long as a due flush may run before a         *)
(* sign-out, an unlock or a power cut (the debounced flush,                *)
(* flushPendingWritesNow and the beforeunload handler of AppContext).      *)
THEOREM StockAlwaysExplained == ShopSpec => []LedgerExplainsStock
<1>1. ShopInit => ShopInv
  BY ShopStarts
<1>2. ShopInv /\ [CalmNext]_shopVars => ShopInv'
  BY ShopNext
<1>3. ShopInv => LedgerExplainsStock
  BY DEF ShopInv
<1> QED
  BY <1>1, <1>2, <1>3, PTL DEF ShopSpec

---------------------------------------------------------------------------
(* Folds over a batch                                                      *)

(* The shop is adjusted change by change.                                  *)
LEMMA AdjustedIs ==
  ASSUME NEW C, \A c \in C : c.delta \in Int, NEW changes \in Seq(C),
         NEW shop \in [stock : Nat, ledger : Int]
  PROVE  \E f : /\ f[0] = shop /\ Adjusted(shop, changes) = f[Len(changes)]
                /\ \A n \in 0 .. Len(changes) : n # 0 => f[n] = AdjustOne(f[n - 1], changes[n])
<1> DEFINE N == Len(changes)
           V == [stock : Nat, ledger : Int]
           t == [i \in 1 .. N |-> [v \in V |-> AdjustOne(v, changes[i])]]
           Iter(h) == h = [s \in SUBSET (1 .. N) |->
                             IF s = {} THEN shop
                             ELSE AdjustOne(h[s \ {Max(s)}], changes[Max(s)])]
<1>1. N \in Nat /\ DOMAIN changes = 1 .. N /\ \A i \in 1 .. N : changes[i].delta \in Int
  OBVIOUS
<1>2. \A i \in 1 .. N, v \in V : t[i][v] \in V /\ t[i][v] = AdjustOne(v, changes[i])
  BY <1>1 DEF AdjustOne, AdjustBy
<1>3. PICK g : FoldsPlaces(g, N, V, shop, t)
  <2> HIDE DEF N, V, t
  <2>1. shop \in V
    BY DEF V
  <2>2. \A i \in 1 .. N, v \in V : t[i][v] \in V
    BY <1>2
  <2>3. N \in Nat
    BY <1>1
  <2> QED BY <2>1, <2>2, <2>3, PlacesFold
<1> DEFINE h == [s \in SUBSET (1 .. N) |-> g[s]]
<1>4. Iter(h)
  <2>1. \A s \in SUBSET (1 .. N) :
          h[s] = IF s = {} THEN shop ELSE AdjustOne(h[s \ {Max(s)}], changes[Max(s)])
    <3> HIDE DEF N, V, t
    <3> QED BY <1>2, <1>3 DEF FoldsPlaces
  <2> QED BY <2>1
<1> DEFINE k == CHOOSE iter : Iter(iter)
<1>5. Iter(k)
  BY <1>4
<1>6. Adjusted(shop, changes) = k[1 .. N]
  BY <1>1 DEF Adjusted, FoldLeft, MapThenFoldSet
<1>7. \A s \in SUBSET (1 .. N) :
        IF s = {} THEN k[s] = shop
        ELSE k[s] = AdjustOne(k[s \ {Max(s)}], changes[Max(s)])
  <2> HIDE DEF k
  <2> QED BY <1>5
<1> DEFINE f == [n \in 0 .. N |-> k[1 .. n]]
<1>8. \A n \in 0 .. N : n # 0 => f[n] = AdjustOne(f[n - 1], changes[n])
  <2> HIDE DEF k
  <2> SUFFICES ASSUME NEW n \in 0 .. N, n # 0
               PROVE  f[n] = AdjustOne(f[n - 1], changes[n])
    OBVIOUS
  <2>1. /\ Max(1 .. n) = n /\ (1 .. n) \ {n} = 1 .. (n - 1)
        /\ 1 .. n \in SUBSET (1 .. N) /\ 1 .. n # {} /\ n - 1 \in 0 .. N
    <3>1. N \in Nat /\ n \in 1 .. N
      BY <1>1
    <3> HIDE DEF N
    <3> QED BY <3>1, LastPlace
  <2>3. k[1 .. n] = AdjustOne(k[1 .. (n - 1)], changes[n])
    BY <1>7, <2>1
  <2> QED BY <2>1, <2>3
<1>9. f[0] = shop /\ f[N] = k[1 .. N]
  <2> HIDE DEF k
  <2>1. 1 .. 0 = {} /\ 0 \in 0 .. N /\ N \in 0 .. N
    BY <1>1
  <2> QED BY <1>7, <2>1
<1> HIDE DEF f, k
<1> QED BY <1>6, <1>8, <1>9

(* What planStockOps keeps.                                                *)
Change == [op : Scans, delta : Int]
Plans  == [start : Nat, onHand : Nat, changes : Seq(Change), rejected : SUBSET Scans]

(* A scan moves a number of units that is not negative.                    *)
LEMMA UnitsNat == \A op \in Scans : Units(op) \in Nat
BY MobileAssumption DEF Units

(* A scan that is not refused changes the stock by an integer and leaves   *)
(* it not negative.                                                        *)
LEMMA DeltaKeeps ==
  ASSUME NEW op \in Scans, NEW q \in Nat, ~Refused(op, q)
  PROVE  Delta(op, q) \in Int /\ q + Delta(op, q) \in Nat
BY UnitsNat, MobileAssumption DEF Delta, Refused

(* Planning one more scan gives a plan again.                              *)
LEMMA PlanOneIsPlan == \A p \in Plans, op \in Scans : PlanOne(p, op) \in Plans
<1> SUFFICES ASSUME NEW p \in Plans, NEW op \in Scans PROVE PlanOne(p, op) \in Plans
  OBVIOUS
<1>1. CASE Refused(op, p.onHand)
  BY <1>1 DEF PlanOne, Plans
<1>2. CASE ~Refused(op, p.onHand)
  <2>1. Delta(op, p.onHand) \in Int /\ p.onHand + Delta(op, p.onHand) \in Nat
    BY <1>2, DeltaKeeps DEF Plans
  <2>2. [op |-> op, delta |-> Delta(op, p.onHand)] \in Change
    BY <2>1 DEF Change
  <2>3. Append(p.changes, [op |-> op, delta |-> Delta(op, p.onHand)]) \in Seq(Change)
    BY <2>2 DEF Plans
  <2> QED BY <1>2, <2>1, <2>3 DEF PlanOne, Plans
<1> QED BY <1>1, <1>2

(* The plan is made operation by operation ...                             *)
LEMMA PlanIs ==
  ASSUME NEW q \in Nat, NEW ops \in Seq(Scans)
  PROVE  \E f : /\ f[0] = NoPlan(q) /\ Plan(ops, q) = f[Len(ops)]
                /\ \A n \in 0 .. Len(ops) : n # 0 => f[n] = PlanOne(f[n - 1], ops[n])
<1> DEFINE N == Len(ops)
           V == Plans
           t == [i \in 1 .. N |-> [v \in V |-> PlanOne(v, ops[i])]]
           Iter(h) == h = [s \in SUBSET (1 .. N) |->
                             IF s = {} THEN NoPlan(q)
                             ELSE PlanOne(h[s \ {Max(s)}], ops[Max(s)])]
<1>1. N \in Nat /\ DOMAIN ops = 1 .. N /\ \A i \in 1 .. N : ops[i] \in Scans
  OBVIOUS
<1>2. \A i \in 1 .. N, v \in V : t[i][v] \in V /\ t[i][v] = PlanOne(v, ops[i])
  BY <1>1, PlanOneIsPlan
<1>3. PICK g : FoldsPlaces(g, N, V, NoPlan(q), t)
  <2> HIDE DEF N, V, t
  <2>1. NoPlan(q) \in V
    BY DEF NoPlan, Plans, V
  <2>2. \A i \in 1 .. N, v \in V : t[i][v] \in V
    BY <1>2
  <2>3. N \in Nat
    BY <1>1
  <2> QED BY <2>1, <2>2, <2>3, PlacesFold
<1> DEFINE h == [s \in SUBSET (1 .. N) |-> g[s]]
<1>4. Iter(h)
  <2>1. \A s \in SUBSET (1 .. N) :
          h[s] = IF s = {} THEN NoPlan(q) ELSE PlanOne(h[s \ {Max(s)}], ops[Max(s)])
    <3> HIDE DEF N, V, t
    <3> QED BY <1>2, <1>3 DEF FoldsPlaces
  <2> QED BY <2>1
<1> DEFINE k == CHOOSE iter : Iter(iter)
<1>5. Iter(k)
  BY <1>4
<1>6. Plan(ops, q) = k[1 .. N]
  BY <1>1 DEF Plan, FoldLeft, MapThenFoldSet
<1>7. \A s \in SUBSET (1 .. N) :
        IF s = {} THEN k[s] = NoPlan(q)
        ELSE k[s] = PlanOne(k[s \ {Max(s)}], ops[Max(s)])
  <2> HIDE DEF k
  <2> QED BY <1>5
<1> DEFINE f == [n \in 0 .. N |-> k[1 .. n]]
<1>8. \A n \in 0 .. N : n # 0 => f[n] = PlanOne(f[n - 1], ops[n])
  <2> HIDE DEF k
  <2> SUFFICES ASSUME NEW n \in 0 .. N, n # 0
               PROVE  f[n] = PlanOne(f[n - 1], ops[n])
    OBVIOUS
  <2>1. /\ Max(1 .. n) = n /\ (1 .. n) \ {n} = 1 .. (n - 1)
        /\ 1 .. n \in SUBSET (1 .. N) /\ 1 .. n # {} /\ n - 1 \in 0 .. N
    <3>1. N \in Nat /\ n \in 1 .. N
      BY <1>1
    <3> HIDE DEF N
    <3> QED BY <3>1, LastPlace
  <2>3. k[1 .. n] = PlanOne(k[1 .. (n - 1)], ops[n])
    BY <1>7, <2>1
  <2> QED BY <2>1, <2>3
<1>9. f[0] = NoPlan(q) /\ f[N] = k[1 .. N]
  <2> HIDE DEF k
  <2>1. 1 .. 0 = {} /\ 0 \in 0 .. N /\ N \in 0 .. N
    BY <1>1
  <2> QED BY <1>7, <2>1
<1> HIDE DEF f, k
<1> QED BY <1>6, <1>8, <1>9

(* ... and a fetch takes from the queue operation by operation.            *)
LEMMA BatchIs ==
  ASSUME queue \in Seq(Scans)
  PROVE  \E f : /\ f[0] = <<>> /\ Batch = f[Len(queue)]
                /\ \A n \in 0 .. Len(queue) : n # 0 => f[n] = Taken(f[n - 1], queue[n])
<1> DEFINE N == Len(queue)
           V == Seq(Scans)
           t == [i \in 1 .. N |-> [v \in V |-> Taken(v, queue[i])]]
           Iter(h) == h = [s \in SUBSET (1 .. N) |->
                             IF s = {} THEN <<>>
                             ELSE Taken(h[s \ {Max(s)}], queue[Max(s)])]
<1>1. N \in Nat /\ DOMAIN queue = 1 .. N /\ \A i \in 1 .. N : queue[i] \in Scans
  OBVIOUS
<1>2. \A i \in 1 .. N, v \in V : t[i][v] \in V /\ t[i][v] = Taken(v, queue[i])
  BY <1>1 DEF Taken
<1>3. PICK g : FoldsPlaces(g, N, V, <<>>, t)
  <2> HIDE DEF N, V, t
  <2>1. <<>> \in V
    BY DEF V
  <2>2. \A i \in 1 .. N, v \in V : t[i][v] \in V
    BY <1>2
  <2>3. N \in Nat
    BY <1>1
  <2> QED BY <2>1, <2>2, <2>3, PlacesFold
<1> DEFINE h == [s \in SUBSET (1 .. N) |-> g[s]]
<1>4. Iter(h)
  <2>1. \A s \in SUBSET (1 .. N) :
          h[s] = IF s = {} THEN <<>> ELSE Taken(h[s \ {Max(s)}], queue[Max(s)])
    <3> HIDE DEF N, V, t
    <3> QED BY <1>2, <1>3 DEF FoldsPlaces
  <2> QED BY <2>1
<1> DEFINE k == CHOOSE iter : Iter(iter)
<1>5. Iter(k)
  BY <1>4
<1>6. Batch = k[1 .. N]
  BY <1>1 DEF Batch, FoldLeft, MapThenFoldSet
<1>7. \A s \in SUBSET (1 .. N) :
        IF s = {} THEN k[s] = <<>>
        ELSE k[s] = Taken(k[s \ {Max(s)}], queue[Max(s)])
  <2> HIDE DEF k
  <2> QED BY <1>5
<1> DEFINE f == [n \in 0 .. N |-> k[1 .. n]]
<1>8. \A n \in 0 .. N : n # 0 => f[n] = Taken(f[n - 1], queue[n])
  <2> HIDE DEF k
  <2> SUFFICES ASSUME NEW n \in 0 .. N, n # 0
               PROVE  f[n] = Taken(f[n - 1], queue[n])
    OBVIOUS
  <2>1. /\ Max(1 .. n) = n /\ (1 .. n) \ {n} = 1 .. (n - 1)
        /\ 1 .. n \in SUBSET (1 .. N) /\ 1 .. n # {} /\ n - 1 \in 0 .. N
    <3>1. N \in Nat /\ n \in 1 .. N
      BY <1>1
    <3> HIDE DEF N
    <3> QED BY <3>1, LastPlace
  <2>3. k[1 .. n] = Taken(k[1 .. (n - 1)], queue[n])
    BY <1>7, <2>1
  <2> QED BY <2>1, <2>3
<1>9. f[0] = <<>> /\ f[N] = k[1 .. N]
  <2> HIDE DEF k
  <2>1. 1 .. 0 = {} /\ 0 \in 0 .. N /\ N \in 0 .. N
    BY <1>1
  <2> QED BY <1>7, <2>1
<1> HIDE DEF f, k
<1> QED BY <1>6, <1>8, <1>9

---------------------------------------------------------------------------
(* What a plan does to the shop                                            *)

(* Appending an element adds it to the elements of a sequence.             *)
LEMMA SetOfAppend ==
  ASSUME NEW C, NEW s \in Seq(C), NEW x \in C
  PROVE  ToSet(Append(s, x)) = ToSet(s) \cup {x}
<1>1. /\ Len(Append(s, x)) = Len(s) + 1 /\ Append(s, x)[Len(s) + 1] = x
      /\ \A i \in 1 .. Len(s) : Append(s, x)[i] = s[i]
  OBVIOUS
<1>2. DOMAIN Append(s, x) = (1 .. Len(s)) \cup {Len(s) + 1} /\ DOMAIN s = 1 .. Len(s)
  OBVIOUS
<1> QED BY <1>1, <1>2 DEF ToSet

(* One more change is adjusted after the others.                           *)
LEMMA AdjustedAppend ==
  ASSUME NEW changes \in Seq(Change), NEW c \in Change,
         NEW shop \in [stock : Nat, ledger : Int]
  PROVE  Adjusted(shop, Append(changes, c)) = AdjustOne(Adjusted(shop, changes), c)
<1> DEFINE more == Append(changes, c)
           N == Len(changes)
<1>1. \A x \in Change : x.delta \in Int
  BY DEF Change
<1>2. PICK f : /\ f[0] = shop /\ Adjusted(shop, changes) = f[Len(changes)]
               /\ \A n \in 0 .. Len(changes) : n # 0 => f[n] = AdjustOne(f[n - 1], changes[n])
  BY <1>1, AdjustedIs
<1>3. more \in Seq(Change)
  OBVIOUS
<1>4. PICK g : /\ g[0] = shop /\ Adjusted(shop, more) = g[Len(more)]
               /\ \A n \in 0 .. Len(more) : n # 0 => g[n] = AdjustOne(g[n - 1], more[n])
  <2> HIDE DEF more
  <2> QED BY <1>1, <1>3, AdjustedIs
<1>5. /\ N \in Nat /\ Len(more) = N + 1 /\ more[N + 1] = c
      /\ \A n \in 1 .. N : more[n] = changes[n]
  OBVIOUS
<1> HIDE DEF more, N
<1> DEFINE Good == {n \in 0 .. N : f[n] = g[n]}
<1>6. \A n \in 0 .. N : n # N /\ n \in Good => n + 1 \in Good
  <2> SUFFICES ASSUME NEW n \in 0 .. N, n # N, n \in Good PROVE n + 1 \in Good
    OBVIOUS
  <2>1. n + 1 \in 1 .. N /\ n + 1 \in 0 .. N /\ n + 1 \in 0 .. Len(more)
        /\ (n + 1) - 1 = n /\ n + 1 # 0
    BY <1>5
  <2>2. f[n + 1] = AdjustOne(f[n], changes[n + 1])
    BY <1>2, <2>1 DEF N
  <2>3. g[n + 1] = AdjustOne(g[n], more[n + 1])
    BY <1>4, <2>1
  <2> QED BY <1>5, <2>1, <2>2, <2>3
<1>7. 0 \in Good
  BY <1>2, <1>4, <1>5
<1>8. N \in Good
  <2> HIDE DEF Good
  <2>1. N \in 0 .. N
    BY <1>5
  <2> QED BY <1>5, <1>6, <1>7, <2>1, CountUp
<1>9. g[N + 1] = AdjustOne(g[N], c)
  <2>1. N + 1 \in 0 .. Len(more) /\ N + 1 # 0 /\ (N + 1) - 1 = N
    BY <1>5
  <2> QED BY <1>4, <1>5, <2>1
<1>10. Adjusted(shop, more) = AdjustOne(Adjusted(shop, changes), c)
  BY <1>2, <1>4, <1>5, <1>8, <1>9 DEF N
<1> QED BY <1>10 DEF more

(* Applying no changes leaves the shop as it is.                           *)
LEMMA AdjustedNothing ==
  ASSUME NEW shop \in [stock : Nat, ledger : Int] PROVE Adjusted(shop, <<>>) = shop
<1>1. <<>> \in Seq(Change) /\ Len(<<>>) = 0 /\ \A x \in Change : x.delta \in Int
  BY DEF Change
<1>2. \E f : f[0] = shop /\ Adjusted(shop, <<>>) = f[Len(<<>>)]
  BY <1>1, AdjustedIs
<1> QED BY <1>1, <1>2

Distinct(ops) == \A i, j \in 1 .. Len(ops) : ops[i] = ops[j] => i = j
ChangedOps(p) == {c.op : c \in ToSet(p.changes)}
Shop(q, l)    == [stock |-> q, ledger |-> l]

(* What the plan p says of the first n operations: every one of them is    *)
(* refused or becomes a change, no one both, and the changes take shelf    *)
(* and ledger together to what the plan leaves on hand.                    *)
PlansOps(p, ops, n) ==
  /\ p.rejected \cup ChangedOps(p) = {ops[i] : i \in 1 .. n}
  /\ p.rejected \cap ChangedOps(p) = {}

PlansShop(p, q) ==
  /\ p \in Plans
  /\ \A l \in Int : Adjusted(Shop(q, l), p.changes) = Shop(p.onHand, l + (p.onHand - q))
  /\ ~Moving(p) => p.onHand = q

(* Planning one more scan keeps the plan's stock and ledger those of the   *)
(* shop with the plan's changes.                                           *)
LEMMA PlanOneShop ==
  ASSUME NEW q \in Nat, NEW p, PlansShop(p, q), NEW op \in Scans
  PROVE  PlansShop(PlanOne(p, op), q)
<1>1. p \in Plans /\ PlanOne(p, op) \in Plans
  BY PlanOneIsPlan DEF PlansShop
<1>2. CASE Refused(op, p.onHand)
  <2>1. PlanOne(p, op).changes = p.changes /\ PlanOne(p, op).onHand = p.onHand
    BY <1>1, <1>2 DEF PlanOne, Plans
  <2> QED BY <1>1, <2>1 DEF PlansShop, Moving
<1>3. CASE ~Refused(op, p.onHand)
  <2> DEFINE d == Delta(op, p.onHand)
             c == [op |-> op, delta |-> d]
  <2>1. d \in Int /\ p.onHand + d \in Nat /\ p.onHand \in Nat
    BY <1>1, <1>3, DeltaKeeps DEF Plans
  <2>2. c \in Change /\ c.delta = d
    BY <2>1 DEF Change
  <2>3. PlanOne(p, op).changes = Append(p.changes, c) /\ PlanOne(p, op).onHand = p.onHand + d
    BY <1>1, <1>3 DEF PlanOne, Plans
  <2>4. p.changes \in Seq(Change)
    BY <1>1 DEF Plans
  <2> HIDE DEF c, d
  <2>5. ASSUME NEW l \in Int
        PROVE  Adjusted(Shop(q, l), Append(p.changes, c))
                 = Shop(p.onHand + d, l + ((p.onHand + d) - q))
    <3>1. Shop(q, l) \in [stock : Nat, ledger : Int]
      BY DEF Shop
    <3>2. Adjusted(Shop(q, l), Append(p.changes, c)) = AdjustOne(Adjusted(Shop(q, l), p.changes), c)
      BY <2>2, <2>4, <3>1, AdjustedAppend
    <3>3. Adjusted(Shop(q, l), p.changes) = Shop(p.onHand, l + (p.onHand - q))
      BY DEF PlansShop
    <3>4. AdjustOne(Shop(p.onHand, l + (p.onHand - q)), c)
            = Shop(AdjustBy(p.onHand, d), (l + (p.onHand - q)) + d)
      BY <2>2 DEF AdjustOne, Shop
    <3>5. AdjustBy(p.onHand, d) = p.onHand + d
      BY <2>1 DEF AdjustBy
    <3>6. (l + (p.onHand - q)) + d = l + ((p.onHand + d) - q)
      BY <2>1
    <3> QED BY <3>2, <3>3, <3>4, <3>5, <3>6
  <2>6. ToSet(Append(p.changes, c)) = ToSet(p.changes) \cup {c}
    BY <2>2, <2>4, SetOfAppend
  <2>7. ~Moving(PlanOne(p, op)) => p.onHand + d = q
    <3> SUFFICES ASSUME ~Moving(PlanOne(p, op)) PROVE p.onHand + d = q
      OBVIOUS
    <3>1. d = 0 /\ ~Moving(p)
      BY <2>2, <2>3, <2>6 DEF Moving
    <3> QED BY <2>1, <3>1 DEF PlansShop
  <2> QED BY <1>1, <2>3, <2>5, <2>7 DEF PlansShop
<1> QED BY <1>2, <1>3

(* Planning the n-th scan of a round keeps the plan the plan of the scans  *)
(* so far.                                                                 *)
LEMMA PlanOneOps ==
  ASSUME NEW p \in Plans, NEW ops \in Seq(Scans), Distinct(ops), NEW n \in 1 .. Len(ops),
         PlansOps(p, ops, n - 1)
  PROVE  PlansOps(PlanOne(p, ops[n]), ops, n)
<1> DEFINE op == ops[n]
           c  == [op |-> op, delta |-> Delta(op, p.onHand)]
<1>1. op \in Scans /\ 1 .. n = (1 .. (n - 1)) \cup {n}
  OBVIOUS
<1>2. {ops[i] : i \in 1 .. n} = {ops[i] : i \in 1 .. (n - 1)} \cup {op}
  BY <1>1
<1>3. op \notin {ops[i] : i \in 1 .. (n - 1)}
  BY DEF Distinct
<1>4. CASE Refused(op, p.onHand)
  <2>1. PlanOne(p, op).changes = p.changes /\ PlanOne(p, op).rejected = p.rejected \cup {op}
    BY <1>4 DEF PlanOne, Plans
  <2>2. ChangedOps(PlanOne(p, op)) = ChangedOps(p)
    BY <2>1 DEF ChangedOps
  <2> HIDE DEF op
  <2> QED BY <1>2, <1>3, <2>1, <2>2 DEF PlansOps, op
<1>5. CASE ~Refused(op, p.onHand)
  <2>1. /\ PlanOne(p, op).changes = Append(p.changes, c)
        /\ PlanOne(p, op).rejected = p.rejected
    BY <1>5 DEF PlanOne, Plans
  <2>2. Delta(op, p.onHand) \in Int
    BY <1>1, <1>5, DeltaKeeps DEF Plans
  <2>3. c \in Change /\ p.changes \in Seq(Change) /\ c.op = op
    BY <1>1, <2>2 DEF Change, Plans
  <2> HIDE DEF c, op
  <2>4. ToSet(Append(p.changes, c)) = ToSet(p.changes) \cup {c}
    BY <2>3, SetOfAppend
  <2>5. ChangedOps(PlanOne(p, op)) = ChangedOps(p) \cup {op}
    BY <2>1, <2>3, <2>4 DEF ChangedOps
  <2> QED BY <1>2, <1>3, <2>1, <2>5 DEF PlansOps, op
<1> QED BY <1>4, <1>5

(* The whole plan.                                                         *)
LEMMA PlanKeeps ==
  ASSUME NEW q \in Nat, NEW ops \in Seq(Scans), Distinct(ops)
  PROVE  PlansShop(Plan(ops, q), q) /\ PlansOps(Plan(ops, q), ops, Len(ops))
<1> DEFINE N == Len(ops)
<1>1. PICK f : /\ f[0] = NoPlan(q) /\ Plan(ops, q) = f[Len(ops)]
               /\ \A n \in 0 .. Len(ops) : n # 0 => f[n] = PlanOne(f[n - 1], ops[n])
  BY PlanIs
<1> DEFINE Good == {n \in 0 .. N : PlansShop(f[n], q) /\ PlansOps(f[n], ops, n)}
<1>2. N \in Nat
  OBVIOUS
<1>3. 0 \in Good
  <2>1. NoPlan(q) \in Plans /\ NoPlan(q).changes = <<>> /\ NoPlan(q).onHand = q
        /\ NoPlan(q).rejected = {} /\ ToSet(<<>>) = {}
    BY DEF NoPlan, Plans, ToSet
  <2>2. ASSUME NEW l \in Int PROVE Adjusted(Shop(q, l), <<>>) = Shop(q, l + (q - q))
    <3>1. Shop(q, l) \in [stock : Nat, ledger : Int] /\ l + (q - q) = l
      BY DEF Shop
    <3> QED BY <3>1, AdjustedNothing
  <2>3. PlansShop(NoPlan(q), q)
    BY <2>1, <2>2 DEF PlansShop
  <2>4. PlansOps(NoPlan(q), ops, 0)
    <3>1. {ops[i] : i \in 1 .. 0} = {}
      OBVIOUS
    <3> QED BY <2>1, <3>1 DEF PlansOps, ChangedOps
  <2> QED BY <1>1, <1>2, <2>3, <2>4
<1>4. ASSUME NEW n \in 0 .. N, n # N, n \in Good PROVE n + 1 \in Good
  <2>1. n + 1 \in 1 .. N /\ n + 1 \in 0 .. N /\ n + 1 # 0 /\ (n + 1) - 1 = n
        /\ n + 1 \in 1 .. Len(ops) /\ n + 1 \in 0 .. Len(ops) /\ ops[n + 1] \in Scans
    BY <1>2, <1>4
  <2>2. f[n + 1] = PlanOne(f[n], ops[n + 1])
    <3> HIDE DEF Good, N
    <3> QED BY <1>1, <2>1
  <2>3. PlansShop(f[n], q) /\ PlansOps(f[n], ops, n) /\ f[n] \in Plans
    BY <1>4 DEF PlansShop
  <2>4. PlansShop(f[n + 1], q)
    <3> HIDE DEF Good, N
    <3> QED BY <2>1, <2>2, <2>3, PlanOneShop
  <2>5. PlansOps(f[n + 1], ops, n + 1)
    <3> HIDE DEF Good, N
    <3>1. PlansOps(f[n], ops, (n + 1) - 1)
      BY <2>1, <2>3
    <3>2. PlansOps(PlanOne(f[n], ops[n + 1]), ops, n + 1)
      BY <2>1, <2>3, <3>1, PlanOneOps
    <3> QED BY <2>2, <3>2
  <2> QED BY <2>1, <2>4, <2>5
<1>5. N \in Good
  <2>1. N \in 0 .. N
    BY <1>2
  <2>2. \A n \in 0 .. N : n # N /\ n \in Good => n + 1 \in Good
    BY <1>4
  <2> HIDE DEF Good, N
  <2> QED BY <1>2, <1>3, <2>1, <2>2, CountUp
<1> QED BY <1>1, <1>5

(* A fetch returns pending operations of the queue, each of them once.     *)
BatchOf(ops, n) ==
  /\ ops \in Seq(Scans) /\ Distinct(ops)
  /\ \A op \in ToSet(ops) : told[op] = "pending" /\ \E i \in 1 .. n : op = queue[i]

(* Taking the n-th scan of the queue keeps the batch a batch of the first  *)
(* n.                                                                      *)
LEMMA TakenKeeps ==
  ASSUME queue \in Seq(Scans), Distinct(queue), NEW n \in 1 .. Len(queue), NEW ops,
         BatchOf(ops, n - 1)
  PROVE  BatchOf(Taken(ops, queue[n]), n)
<1> DEFINE op == queue[n]
<1>1. ops \in Seq(Scans) /\ op \in Scans
  BY DEF BatchOf
<1>2. op \notin ToSet(ops)
  <2> SUFFICES ASSUME op \in ToSet(ops) PROVE FALSE
    OBVIOUS
  <2>1. PICK i \in 1 .. (n - 1) : op = queue[i]
    BY DEF BatchOf
  <2>2. i \in 1 .. Len(queue) /\ i # n
    OBVIOUS
  <2> QED BY <2>1, <2>2 DEF Distinct
<1>3. \A i \in 1 .. (n - 1) : i \in 1 .. n
  OBVIOUS
<1>4. CASE Taken(ops, op) = ops
  BY <1>3, <1>4 DEF BatchOf
<1>5. CASE Taken(ops, op) # ops
  <2> DEFINE more == Append(ops, op)
  <2>1. Taken(ops, op) = more /\ told[op] = "pending"
    BY <1>5 DEF Taken
  <2>2. more \in Seq(Scans) /\ ToSet(more) = ToSet(ops) \cup {op}
    BY <1>1, SetOfAppend
  <2>3. Distinct(more)
    <3>1. /\ Len(more) = Len(ops) + 1 /\ more[Len(ops) + 1] = op
          /\ \A i \in 1 .. Len(ops) : more[i] = ops[i] /\ ops[i] \in ToSet(ops)
      BY <1>1 DEF ToSet
    <3>2. Len(ops) \in Nat
      BY <1>1
    <3>3. \A i \in 1 .. Len(more) : i \in 1 .. Len(ops) \/ i = Len(ops) + 1
      BY <3>1, <3>2
    <3>4. Distinct(ops)
      BY DEF BatchOf
    <3> HIDE DEF more, op
    <3> QED BY <1>2, <3>1, <3>3, <3>4 DEF Distinct
  <2>4. n \in 1 .. n
    OBVIOUS
  <2> HIDE DEF more
  <2> QED BY <1>3, <2>1, <2>2, <2>3, <2>4 DEF BatchOf
<1> QED BY <1>4, <1>5

(* The batch is made of scans of the queue, each of them once.             *)
LEMMA BatchKeeps ==
  ASSUME queue \in Seq(Scans), Distinct(queue)
  PROVE  BatchOf(Batch, Len(queue))
<1> DEFINE N == Len(queue)
<1>1. PICK f : /\ f[0] = <<>> /\ Batch = f[Len(queue)]
               /\ \A n \in 0 .. Len(queue) : n # 0 => f[n] = Taken(f[n - 1], queue[n])
  BY BatchIs
<1> DEFINE Good == {n \in 0 .. N : BatchOf(f[n], n)}
<1>2. N \in Nat
  OBVIOUS
<1>3. 0 \in Good
  <2>1. <<>> \in Seq(Scans) /\ Len(<<>>) = 0 /\ ToSet(<<>>) = {}
    BY DEF ToSet
  <2>2. Distinct(<<>>)
    BY <2>1 DEF Distinct
  <2>3. BatchOf(<<>>, 0)
    BY <2>1, <2>2 DEF BatchOf
  <2> QED BY <1>1, <1>2, <2>3
<1>4. ASSUME NEW n \in 0 .. N, n # N, n \in Good PROVE n + 1 \in Good
  <2>1. n + 1 \in 1 .. N /\ n + 1 \in 0 .. N /\ n + 1 # 0 /\ (n + 1) - 1 = n
        /\ n + 1 \in 1 .. Len(queue) /\ n + 1 \in 0 .. Len(queue)
    BY <1>2, <1>4
  <2>2. f[n + 1] = Taken(f[n], queue[n + 1])
    <3> HIDE DEF Good, N
    <3> QED BY <1>1, <2>1
  <2>3. BatchOf(f[n], (n + 1) - 1)
    BY <1>4, <2>1
  <2>4. BatchOf(Taken(f[n], queue[n + 1]), n + 1)
    <3> HIDE DEF Good, N
    <3> QED BY <2>1, <2>3, TakenKeeps
  <2> QED BY <2>1, <2>2, <2>4
<1>5. N \in Good
  <2>1. N \in 0 .. N
    BY <1>2
  <2>2. \A n \in 0 .. N : n # N /\ n \in Good => n + 1 \in Good
    BY <1>4
  <2> HIDE DEF Good, N
  <2> QED BY <1>2, <1>3, <2>1, <2>2, CountUp
<1> QED BY <1>1, <1>5

---------------------------------------------------------------------------
(* The inductive invariant of a shop with phones: a round in flight is the *)
(* round of the screen that is up, its operations are pending still, and   *)
(* its results say what they did.                                          *)

Outcome == {"applied", "rejected"}
Rounds  ==
  {Idle, [phase |-> "asked", ops |-> <<>>]}
    \cup [phase : {"read"}, ops : Seq(Scans)]
    \cup [phase : {"resolving"}, ops : Seq(Scans), results : UNION {[S -> Outcome] : S \in SUBSET Scans}]

QueueInv ==
  /\ queue \in Seq(Scans) /\ Distinct(queue)
  /\ told \in [Scans -> {"unscanned", "pending"} \cup Outcome]
  /\ ToSet(queue) = {op \in Scans : told[op] # "unscanned"}

ScreenInv ==
  /\ mount \in Mounts \cup {NoMount} /\ (SignedIn <=> mount \in Mounts)
  /\ rounds \in [Mounts -> Rounds]
  /\ \A m \in Mounts : rounds[m].phase # "idle" => m = mount

(* What a round in flight holds.                                           *)
RoundRight(m) ==
  /\ Distinct(rounds[m].ops)
  /\ \A op \in ToSet(rounds[m].ops) : told[op] = "pending"
  /\ rounds[m].phase = "resolving" =>
       /\ DOMAIN rounds[m].results = ToSet(rounds[m].ops)
       /\ \A op \in ToSet(rounds[m].ops) :
            IF rounds[m].results[op] = "applied" THEN applied[op] > 0
            ELSE applied[op] = 0 \/ op \in unheard

(* The result that says op was applied is on its way.                      *)
OnItsWay(op) ==
  \E m \in Mounts : /\ rounds[m].phase = "resolving" /\ op \in ToSet(rounds[m].ops)
                    /\ rounds[m].results[op] = "applied"

(* What an operation came to.                                              *)
OpRight(op) ==
  /\ told[op] = "unscanned" => applied[op] = 0
  /\ applied[op] > 1 => op \in unheard
  /\ told[op] = "pending" /\ applied[op] > 0 => op \in unheard \/ OnItsWay(op)
  /\ told[op] = "applied" => applied[op] > 0
  /\ told[op] = "rejected" => applied[op] = 0 \/ op \in unheard

TruthInv ==
  /\ applied \in [Scans -> Nat] /\ unheard \subseteq Scans
  /\ \A m \in Mounts : RoundRight(m)
  /\ \A op \in Scans : OpRight(op)

MobileInv == ShopInv /\ QueueInv /\ ScreenInv /\ TruthInv

(* The types of a round that has not begun.                                *)
LEMMA IdleRound ==
  /\ Idle.phase = "idle" /\ Idle.ops = <<>> /\ Distinct(<<>>) /\ ToSet(<<>>) = {}
  /\ Idle \in Rounds
<1>1. Len(<<>>) = 0 /\ ToSet(<<>>) = {}
  BY DEF ToSet
<1> QED BY <1>1 DEF Idle, Distinct, Rounds

(* The types of the fields of a round.                                     *)
LEMMA RoundFields ==
  ASSUME NEW r \in Rounds
  PROVE  /\ r.ops \in Seq(Scans) /\ ToSet(r.ops) \subseteq Scans
         /\ r.phase \in {"idle", "asked", "read", "resolving"}
         /\ r.phase \in {"idle", "asked"} => r.ops = <<>>
         /\ r.phase = "resolving" =>
              \A op \in DOMAIN r.results : r.results[op] \in Outcome
<1>1. r.ops \in Seq(Scans)
  <2>1. <<>> \in Seq(Scans)
    OBVIOUS
  <2>2. CASE r \in {Idle, [phase |-> "asked", ops |-> <<>>]}
    <3>1. r.ops = <<>>
      BY <2>2 DEF Idle
    <3> QED BY <2>1, <3>1
  <2>3. CASE r \notin {Idle, [phase |-> "asked", ops |-> <<>>]}
    BY <2>3 DEF Rounds
  <2> QED BY <2>2, <2>3
<1>2. ToSet(r.ops) \subseteq Scans
  BY <1>1 DEF ToSet
<1>3. r.phase \in {"idle", "asked", "read", "resolving"}
  BY DEF Rounds, Idle
<1>4. r.phase \in {"idle", "asked"} => r.ops = <<>>
  BY DEF Rounds, Idle
<1>5. r.phase = "resolving" => \A op \in DOMAIN r.results : r.results[op] \in Outcome
  BY DEF Rounds, Idle
<1> QED BY <1>1, <1>2, <1>3, <1>4, <1>5

(* An idle round has nothing to be right about.                            *)
LEMMA IdleRight ==
  ASSUME NEW m, rounds[m] = Idle PROVE RoundRight(m)
BY IdleRound DEF RoundRight

(* The initial states satisfy the invariant.                               *)
LEMMA MobileInit == Init => MobileInv
<1> SUFFICES ASSUME Init PROVE MobileInv
  OBVIOUS
<1>1. ShopInv
  BY ShopStarts DEF Init
<1>2. QueueInv
  <2>1. queue = <<>> /\ told = [op \in Scans |-> "unscanned"]
    BY DEF Init
  <2>2. ToSet(queue) = {} /\ Distinct(queue)
    BY <2>1, IdleRound
  <2> QED BY <2>1, <2>2 DEF QueueInv
<1>3. ScreenInv
  <2>1. /\ mount = NoMount /\ session = "off" /\ NoMount \notin Mounts
        /\ rounds = [m \in Mounts |-> Idle]
    BY MobileAssumption DEF Init, ShopInit
  <2> QED BY <2>1, IdleRound DEF ScreenInv, SignedIn
<1>4. TruthInv
  <2>1. /\ applied = [op \in Scans |-> 0] /\ unheard = {}
        /\ told = [op \in Scans |-> "unscanned"] /\ rounds = [m \in Mounts |-> Idle]
    BY DEF Init
  <2>2. \A m \in Mounts : RoundRight(m)
    BY <2>1, IdleRight
  <2>3. \A op \in Scans : OpRight(op)
    BY <2>1 DEF OpRight
  <2> QED BY <2>1, <2>2, <2>3 DEF TruthInv
<1> QED BY <1>1, <1>2, <1>3, <1>4 DEF MobileInv

---------------------------------------------------------------------------
(* The steps                                                               *)

(* A step that leaves the shop and the outcomes alone and moves one round  *)
(* on, which has no result on its way.                                     *)
LEMMA RoundMoves ==
  ASSUME MobileInv, NEW m \in Mounts, NEW r \in Rounds,
         rounds' = [rounds EXCEPT ![m] = r],
         UNCHANGED <<shopVars, queue, told, mount, applied, unheard>>,
         m = mount \/ r.phase = "idle", rounds[m].phase # "resolving", RoundRight(m)'
  PROVE  MobileInv'
<1> USE DEF MobileInv
<1>1. ShopInv'
  BY ShopNext
<1>2. QueueInv'
  BY DEF QueueInv
<1>3. rounds \in [Mounts -> Rounds] /\ rounds'[m] = r
      /\ \A n \in Mounts : n # m => rounds'[n] = rounds[n]
  BY DEF ScreenInv
<1>4. ScreenInv'
  BY <1>3 DEF ScreenInv, SignedIn, shopVars
<1>5. \A n \in Mounts : RoundRight(n)'
  <2> SUFFICES ASSUME NEW n \in Mounts, n # m PROVE RoundRight(n)'
    OBVIOUS
  <2> QED BY <1>3 DEF TruthInv, RoundRight
<1>6. ASSUME NEW op \in Scans PROVE OpRight(op)'
  <2>1. OnItsWay(op) => OnItsWay(op)'
    BY <1>3 DEF OnItsWay
  <2> QED BY <2>1 DEF TruthInv, OpRight
<1>7. TruthInv'
  BY <1>5, <1>6 DEF TruthInv
<1> QED BY <1>1, <1>2, <1>4, <1>7

(* Asking for the scans, their being read at the portal and a request that *)
(* fails keep the invariant.                                               *)
LEMMA FetchSteps ==
  ASSUME MobileInv, NEW m \in Mounts, Ask(m) \/ PortalReads(m) \/ FetchFails(m)
  PROVE  MobileInv'
<1> USE DEF MobileInv
<1>0. rounds \in [Mounts -> Rounds]
  BY DEF ScreenInv
<1>1. CASE Ask(m)
  <2> DEFINE r == [Idle EXCEPT !.phase = "asked"]
  <2>1. r = [phase |-> "asked", ops |-> <<>>] /\ r \in Rounds
    BY DEF Rounds, Idle
  <2>2. /\ rounds' = [rounds EXCEPT ![m] = r] /\ m = mount /\ rounds[m].phase # "resolving"
        /\ UNCHANGED <<shopVars, queue, told, mount, applied, unheard>>
    BY <1>1 DEF Ask
  <2>3. rounds'[m] = r
    BY <1>0, <2>2
  <2>4. RoundRight(m)'
    BY <2>1, <2>3, IdleRound DEF RoundRight
  <2> HIDE DEF r
  <2> QED BY <2>1, <2>2, <2>4, RoundMoves
<1>2. CASE PortalReads(m)
  <2> DEFINE r == [phase |-> "read", ops |-> Batch]
  <2>1. BatchOf(Batch, Len(queue))
    BY BatchKeeps DEF QueueInv
  <2>2. r \in Rounds /\ r.phase = "read" /\ r.ops = Batch
    BY <2>1 DEF Rounds, BatchOf
  <2>3. /\ rounds' = [rounds EXCEPT ![m] = r] /\ m = mount /\ rounds[m].phase # "resolving"
        /\ UNCHANGED <<shopVars, queue, told, mount, applied, unheard>>
    BY <1>2 DEF PortalReads, ScreenInv
  <2>4. rounds'[m] = r
    BY <1>0, <2>3
  <2> HIDE DEF r
  <2>5. RoundRight(m)'
    BY <2>1, <2>2, <2>3, <2>4 DEF RoundRight, BatchOf, Distinct
  <2> QED BY <2>2, <2>3, <2>5, RoundMoves
<1>3. CASE FetchFails(m)
  <2>1. /\ rounds' = [rounds EXCEPT ![m] = Idle] /\ rounds[m].phase # "resolving"
        /\ UNCHANGED <<shopVars, queue, told, mount, applied, unheard>>
    BY <1>3 DEF FetchFails
  <2>2. rounds'[m] = Idle
    BY <1>0, <2>1
  <2>3. RoundRight(m)'
    BY <2>2, IdleRound DEF RoundRight
  <2> QED BY <2>1, <2>3, IdleRound, RoundMoves
<1> QED BY <1>1, <1>2, <1>3

(* A phone queues an operation nobody has seen.                            *)
LEMMA Scanned ==
  ASSUME MobileInv, NEW op \in Scans, Scan(op) PROVE MobileInv'
<1> USE DEF MobileInv
<1>1. /\ told[op] = "unscanned" /\ told' = [told EXCEPT ![op] = "pending"]
      /\ queue' = Append(queue, op)
      /\ UNCHANGED <<shopVars, mount, rounds, applied, unheard>>
  BY DEF Scan
<1>2. ShopInv'
  BY <1>1, ShopNext
<1>3. /\ told' \in [Scans -> {"unscanned", "pending"} \cup Outcome] /\ told'[op] = "pending"
      /\ \A x \in Scans : x # op => told'[x] = told[x]
  BY <1>1 DEF QueueInv
<1>4. QueueInv'
  <2>1. queue' \in Seq(Scans) /\ ToSet(queue') = ToSet(queue) \cup {op}
    BY <1>1, SetOfAppend DEF QueueInv
  <2>2. op \notin ToSet(queue)
    BY <1>1 DEF QueueInv
  <2>3. Distinct(queue')
    <3>1. /\ Len(queue') = Len(queue) + 1 /\ queue'[Len(queue) + 1] = op
          /\ \A i \in 1 .. Len(queue) : queue'[i] = queue[i] /\ queue[i] \in ToSet(queue)
      BY <1>1 DEF QueueInv, ToSet
    <3>2. Len(queue) \in Nat
      BY DEF QueueInv
    <3>3. \A i \in 1 .. Len(queue') : i \in 1 .. Len(queue) \/ i = Len(queue) + 1
      BY <3>1, <3>2
    <3> QED BY <2>2, <3>1, <3>3 DEF QueueInv, Distinct
  <2>4. ToSet(queue') = {x \in Scans : told'[x] # "unscanned"}
    BY <1>1, <1>3, <2>1 DEF QueueInv
  <2> QED BY <1>3, <2>1, <2>3, <2>4 DEF QueueInv
<1>5. ScreenInv'
  BY <1>1 DEF ScreenInv, SignedIn, shopVars
<1>6. ASSUME NEW m \in Mounts PROVE RoundRight(m)'
  <2>1. rounds[m].ops \in Seq(Scans) /\ ToSet(rounds[m].ops) \subseteq Scans
    BY RoundFields DEF ScreenInv
  <2>2. \A x \in ToSet(rounds[m].ops) : told'[x] = "pending"
    BY <1>3, <2>1 DEF TruthInv, RoundRight
  <2> QED BY <1>1, <2>2 DEF TruthInv, RoundRight
<1>7. ASSUME NEW x \in Scans PROVE OpRight(x)'
  <2>1. OnItsWay(x)' <=> OnItsWay(x)
    BY <1>1 DEF OnItsWay
  <2>2. OpRight(x) /\ applied[x] \in Nat /\ OpRight(op)
    BY DEF TruthInv
  <2>3. CASE x = op
    BY <1>1, <1>3, <2>2, <2>3 DEF OpRight
  <2>4. CASE x # op
    BY <1>1, <1>3, <2>1, <2>2, <2>4 DEF OpRight
  <2> QED BY <2>3, <2>4
<1>8. TruthInv'
  BY <1>1, <1>6, <1>7 DEF TruthInv
<1> QED BY <1>2, <1>4, <1>5, <1>8

(* The portal hears what a round came to.                                  *)
LEMMA Resolved ==
  ASSUME MobileInv, NEW m \in Mounts, PortalResolves(m) PROVE MobileInv'
<1> USE DEF MobileInv
<1> DEFINE r == rounds[m]
<1>1. /\ r.phase = "resolving" /\ rounds' = [rounds EXCEPT ![m] = Idle]
      /\ told' = [op \in Scans |-> IF told[op] = "pending" /\ op \in DOMAIN r.results
                                   THEN r.results[op] ELSE told[op]]
      /\ UNCHANGED <<shopVars, queue, mount, applied, unheard>>
  BY DEF PortalResolves
<1>2. /\ m = mount /\ rounds \in [Mounts -> Rounds] /\ r \in Rounds
      /\ \A n \in Mounts : n # m => rounds[n].phase = "idle"
  BY <1>1 DEF ScreenInv
<1>3. DOMAIN r.results = ToSet(r.ops) /\ ToSet(r.ops) \subseteq Scans
      /\ \A op \in ToSet(r.ops) : r.results[op] \in Outcome /\ told[op] = "pending"
  BY <1>1, <1>2, RoundFields DEF TruthInv, RoundRight
<1> HIDE DEF r
<1>4. ASSUME NEW op \in Scans
      PROVE  told'[op] = IF op \in ToSet(r.ops) THEN r.results[op] ELSE told[op]
  BY <1>1, <1>3
<1>5. ShopInv'
  BY <1>1, ShopNext
<1>6. QueueInv'
  <2>1. told \in [Scans -> {"unscanned", "pending"} \cup Outcome]
    BY DEF QueueInv
  <2>2. told' \in [Scans -> {"unscanned", "pending"} \cup Outcome]
    BY <1>1, <1>3, <2>1
  <2>3. \A op \in Scans : told'[op] = "unscanned" <=> told[op] = "unscanned"
    BY <1>3, <1>4 DEF Outcome
  <2> QED BY <1>1, <2>2, <2>3 DEF QueueInv
<1>7. rounds'[m] = Idle /\ \A n \in Mounts : n # m => rounds'[n] = rounds[n]
  BY <1>1, <1>2
<1>8. ScreenInv'
  BY <1>1, <1>2, <1>7, IdleRound DEF ScreenInv, SignedIn, shopVars
<1>9. \A n \in Mounts : rounds'[n].phase = "idle" /\ rounds'[n].ops = <<>>
  <2> SUFFICES ASSUME NEW n \in Mounts
               PROVE  rounds'[n].phase = "idle" /\ rounds'[n].ops = <<>>
    OBVIOUS
  <2>1. CASE n = m
    BY <1>7, <2>1, IdleRound
  <2>2. CASE n # m
    BY <1>2, <1>7, <2>2, RoundFields
  <2> QED BY <2>1, <2>2
<1>10. \A n \in Mounts : RoundRight(n)'
  BY <1>9, IdleRound DEF RoundRight
<1>11. ASSUME NEW op \in Scans PROVE OpRight(op)'
  <2>1. OpRight(op) /\ RoundRight(m)
    BY DEF TruthInv
  <2>2. CASE op \in ToSet(r.ops)
    <3>1. told'[op] = r.results[op] /\ r.results[op] \in Outcome
      BY <1>3, <1>4, <2>2
    <3> QED BY <1>1, <2>1, <2>2, <3>1 DEF OpRight, RoundRight, Outcome, r
  <2>3. CASE op \notin ToSet(r.ops)
    <3>1. told'[op] = told[op]
      BY <1>4, <2>3
    <3>2. ~OnItsWay(op)
      BY <1>2, <2>3 DEF OnItsWay, r
    <3> QED BY <1>1, <2>1, <3>1, <3>2 DEF OpRight
  <2> QED BY <2>2, <2>3
<1>12. TruthInv'
  BY <1>1, <1>10, <1>11 DEF TruthInv
<1> QED BY <1>5, <1>6, <1>8, <1>12

(* Rounds end with nothing told: what they had to say is lost, and the     *)
(* operations whose result was on its way are the unheard ones.            *)
LEMMA RoundsLost ==
  ASSUME MobileInv, ShopInv', UNCHANGED <<queue, told, applied>>,
         mount' \in Mounts \cup {NoMount}, (SignedIn <=> mount \in Mounts)',
         rounds' \in [Mounts -> Rounds],
         \A m \in Mounts : rounds'[m] = Idle \/ (rounds'[m] = rounds[m] /\ m = mount'),
         unheard' \subseteq Scans, unheard \subseteq unheard',
         \A m \in Mounts : rounds'[m] # rounds[m] /\ rounds[m].phase = "resolving"
                            => ToSet(rounds[m].ops) \subseteq unheard'
  PROVE  MobileInv'
<1> USE DEF MobileInv
<1>1. QueueInv'
  BY DEF QueueInv
<1>2. ScreenInv'
  BY IdleRound DEF ScreenInv
<1>3. ASSUME NEW m \in Mounts PROVE RoundRight(m)'
  <2>1. CASE rounds'[m] = Idle
    BY <2>1, IdleRound DEF RoundRight
  <2>2. CASE rounds'[m] = rounds[m]
    <3>1. RoundRight(m)
      BY DEF TruthInv
    <3> QED BY <2>2, <3>1 DEF RoundRight
  <2> QED BY <2>1, <2>2
<1>4. ASSUME NEW op \in Scans PROVE OpRight(op)'
  <2>1. OnItsWay(op) => op \in unheard' \/ OnItsWay(op)'
    <3> SUFFICES ASSUME OnItsWay(op) PROVE op \in unheard' \/ OnItsWay(op)'
      OBVIOUS
    <3>1. PICK m \in Mounts :
            /\ rounds[m].phase = "resolving" /\ op \in ToSet(rounds[m].ops)
            /\ rounds[m].results[op] = "applied"
      BY DEF OnItsWay
    <3>2. CASE rounds'[m] = rounds[m]
      BY <3>1, <3>2 DEF OnItsWay
    <3>3. CASE rounds'[m] # rounds[m]
      BY <3>1, <3>3
    <3> QED BY <3>2, <3>3
  <2>2. OpRight(op)
    BY DEF TruthInv
  <2> QED BY <2>1, <2>2 DEF OpRight
<1>5. TruthInv'
  BY <1>3, <1>4 DEF TruthInv
<1> QED BY <1>1, <1>2, <1>5

(* An answer to the portal that is lost on the way keeps the invariant.    *)
LEMMA LostResolve ==
  ASSUME MobileInv, NEW m \in Mounts, ResolveLost(m) PROVE MobileInv'
<1> USE DEF MobileInv
<1>1. /\ rounds[m].phase = "resolving" /\ rounds' = [rounds EXCEPT ![m] = Idle]
      /\ unheard' = unheard \cup ToSet(rounds[m].ops)
      /\ UNCHANGED <<shopVars, queue, told, mount, applied>>
  BY DEF ResolveLost
<1>2. ShopInv'
  BY <1>1, ShopNext
<1>3. /\ m = mount /\ rounds \in [Mounts -> Rounds]
      /\ \A n \in Mounts : n # m => rounds[n].phase = "idle"
  BY <1>1 DEF ScreenInv
<1>4. rounds' \in [Mounts -> Rounds]
  BY <1>1, <1>3, IdleRound
<1>5. \A n \in Mounts : IF n = m THEN rounds'[n] = Idle ELSE rounds'[n] = rounds[n]
  BY <1>1, <1>3
<1>6. \A n \in Mounts : rounds[n].phase = "idle" => rounds[n] = Idle
  BY <1>3 DEF Rounds
<1>7. \A n \in Mounts : rounds'[n] = Idle
  BY <1>3, <1>5, <1>6
<1>8. ToSet(rounds[m].ops) \subseteq Scans
  BY <1>3, RoundFields
<1>9. unheard' \subseteq Scans /\ unheard \subseteq unheard'
  BY <1>1, <1>8 DEF TruthInv
<1>10. \A n \in Mounts : rounds'[n] # rounds[n] /\ rounds[n].phase = "resolving"
                           => ToSet(rounds[n].ops) \subseteq unheard'
  BY <1>1, <1>5
<1>11. mount' \in Mounts \cup {NoMount} /\ (SignedIn <=> mount \in Mounts)'
  BY <1>1 DEF ScreenInv, SignedIn, shopVars
<1> QED BY <1>1, <1>2, <1>4, <1>7, <1>9, <1>10, <1>11, RoundsLost

(* The window goes with its rounds.                                        *)
LEMMA WindowGoes ==
  ASSUME MobileInv, WindowGone, Close \/ Reload \/ (~dirty /\ Crash) PROVE MobileInv'
<1> USE DEF MobileInv
<1>1. ShopInv'
  BY ShopNext DEF CalmNext
<1>2. /\ mount' = NoMount /\ rounds' = [m \in Mounts |-> Idle]
      /\ unheard' = unheard \cup UNION {ToSet(rounds[m].ops) : m \in Resolving}
      /\ UNCHANGED <<queue, told, applied>>
  BY DEF WindowGone
<1>3. session' \in {"off", "signedOut"}
  BY DEF Close, Reload, Crash
<1>4. mount' \in Mounts \cup {NoMount} /\ (SignedIn <=> mount \in Mounts)'
  BY <1>2, <1>3, MobileAssumption DEF SignedIn
<1>5. rounds' \in [Mounts -> Rounds] /\ \A m \in Mounts : rounds'[m] = Idle
  BY <1>2, IdleRound
<1>6. \A m \in Mounts : ToSet(rounds[m].ops) \subseteq Scans
  BY RoundFields DEF ScreenInv
<1>7. unheard' \subseteq Scans /\ unheard \subseteq unheard'
  BY <1>2, <1>6 DEF TruthInv, Resolving
<1>8. \A m \in Mounts : rounds[m].phase = "resolving" => ToSet(rounds[m].ops) \subseteq unheard'
  BY <1>2 DEF Resolving
<1> QED BY <1>1, <1>2, <1>4, <1>5, <1>7, <1>8, RoundsLost

(* What happens to the shop while the screen stays up, or down.            *)
LEMMA ShopSteps ==
  ASSUME MobileInv, UNCHANGED mobileVars,
         Sales \/ Flush \/ Launch \/ Lock \/ UnlockEnd \/ (~dirty /\ UnlockBegin)
           \/ UNCHANGED shopVars
  PROVE  MobileInv'
<1> USE DEF MobileInv
<1>1. ShopInv'
  BY ShopNext DEF CalmNext
<1>2. UNCHANGED <<queue, told, mount, rounds, applied, unheard>>
  BY DEF mobileVars
<1>3. SignedIn' <=> SignedIn
  BY DEF Sales, Sell, Flush, Launch, Lock, UnlockEnd, UnlockBegin, shopVars, SignedIn
<1>4. QueueInv'
  BY <1>2 DEF QueueInv
<1>5. ScreenInv'
  BY <1>2, <1>3 DEF ScreenInv
<1>6. TruthInv'
  BY <1>2 DEF TruthInv, RoundRight, OpRight, OnItsWay
<1> QED BY <1>1, <1>4, <1>5, <1>6

(* Somebody signs in, or out when no round is in flight.                   *)
LEMMA ScreenSteps ==
  ASSUME MobileInv, Mount \/ (NoRound /\ ~dirty /\ Unmount) PROVE MobileInv'
<1> USE DEF MobileInv
<1>1. ShopInv'
  BY ShopNext DEF CalmNext, Mount, Unmount
<1>2. UNCHANGED <<queue, told, rounds, applied, unheard>>
  BY DEF Mount, Unmount
<1>3. \A m \in Mounts : rounds[m].phase = "idle"
  BY MobileAssumption DEF Mount, SignIn, NoRound, ScreenInv, SignedIn
<1>4. mount' \in Mounts \cup {NoMount} /\ (SignedIn <=> mount \in Mounts)'
  BY MobileAssumption DEF Mount, Unmount, SignIn, SignOut, SignedIn
<1>5. QueueInv'
  BY <1>2 DEF QueueInv
<1>6. ScreenInv'
  BY <1>2, <1>3, <1>4 DEF ScreenInv
<1>7. TruthInv'
  BY <1>2 DEF TruthInv, RoundRight, OpRight, OnItsWay
<1> QED BY <1>1, <1>5, <1>6, <1>7

(* How often an operation counts as applied.                               *)
LEMMA OnceMore == \A n \in Nat : Min({n + 1, 2}) = IF n = 0 THEN 1 ELSE 2
<1> SUFFICES ASSUME NEW n \in Nat PROVE Min({n + 1, 2}) = IF n = 0 THEN 1 ELSE 2
  OBVIOUS
<1>1. CASE n = 0
  <2>1. /\ 1 \in {n + 1, 2} /\ \A y \in {n + 1, 2} : 1 =< y
        /\ \A x \in {n + 1, 2} : (\A y \in {n + 1, 2} : x =< y) => x = 1
    BY <1>1
  <2> QED BY <1>1, <2>1 DEF Min
<1>2. CASE n # 0
  <2>1. /\ 2 \in {n + 1, 2} /\ \A y \in {n + 1, 2} : 2 =< y
        /\ \A x \in {n + 1, 2} : (\A y \in {n + 1, 2} : x =< y) => x = 2
    BY <1>2
  <2> QED BY <1>2, <2>1 DEF Min
<1> QED BY <1>1, <1>2

(* The batch is planned, applied and handed to the resolve call.           *)
LEMMA Answered ==
  ASSUME MobileInv, NEW m \in Mounts, session # "unlocking", Answer(m) PROVE MobileInv'
<1> USE DEF MobileInv
<1> DEFINE ops  == rounds[m].ops
           plan == Plan(ops, stock)
           r    == [phase |-> "resolving", ops |-> ops, results |-> Results(plan)]
<1>1. /\ rounds[m].phase = "read" /\ m = mount /\ SignedIn /\ Hydrated
      /\ rounds \in [Mounts -> Rounds] /\ \A n \in Mounts : n # m => rounds[n].phase = "idle"
  BY DEF Answer, ScreenInv, SignedIn, Hydrated
<1>2. /\ ops \in Seq(Scans) /\ ToSet(ops) \subseteq Scans /\ Distinct(ops)
      /\ \A op \in ToSet(ops) : told[op] = "pending"
  BY <1>1, RoundFields DEF TruthInv, RoundRight
<1>3. UNCHANGED <<queue, told, mount, unheard>>
  BY DEF Answer
<1>4. CASE ops = <<>>
  <2>1. rounds' = [rounds EXCEPT ![m] = Idle] /\ UNCHANGED <<shopVars, applied>>
    BY <1>4 DEF Answer
  <2>2. rounds'[m] = Idle
    BY <1>1, <2>1
  <2>3. RoundRight(m)'
    BY <2>2, IdleRound DEF RoundRight
  <2> QED BY <1>1, <1>3, <2>1, <2>3, IdleRound, RoundMoves
<1>5. CASE ops # <<>>
  <2> HIDE DEF ops
  <2>0. stock \in Nat /\ ledger \in Int
    BY DEF ShopInv, ShopTypeOK
  <2>1. PlansShop(plan, stock) /\ PlansOps(plan, ops, Len(ops))
    BY <1>2, <2>0, PlanKeeps
  <2> DEFINE after == Adjusted([stock |-> stock, ledger |-> ledger], plan.changes)
  <2>2. /\ rounds' = [rounds EXCEPT ![m] = r]
        /\ stock' = after.stock /\ ledger' = after.ledger
        /\ dirty' = (dirty \/ (Hydrated /\ Moving(plan)))
        /\ applied' = [op \in Scans |-> IF op \in ChangedOps(plan)
                                        THEN Min({applied[op] + 1, 2}) ELSE applied[op]]
        /\ UNCHANGED <<session, saved>>
    BY <1>1, <1>5 DEF Answer, ChangedOps, ops
  <2> HIDE DEF plan
  <2>3. /\ plan \in Plans /\ plan.onHand \in Nat
        /\ after = [stock |-> plan.onHand, ledger |-> ledger + (plan.onHand - stock)]
    BY <2>0, <2>1 DEF PlansShop, Plans, Shop
  <2>4. stock' = plan.onHand /\ ledger' = ledger + (plan.onHand - stock)
    BY <2>2, <2>3
  <2>5. ShopInv'
    <3>1. stock = Opening + ledger /\ Opening \in Nat
      BY <1>1, SessionAssumption DEF ShopInv, LedgerExplainsStock
    <3>2. stock' = Opening + ledger' /\ stock' \in Nat /\ ledger' \in Int
      BY <2>0, <2>3, <2>4, <3>1
    <3>3. Hydrated' /\ session' = session /\ saved' = saved
      BY <1>1, <2>2 DEF Hydrated
    <3>4. dirty' \in BOOLEAN
      BY <2>2
    <3>5. ShopTypeOK'
      BY <3>2, <3>3, <3>4 DEF ShopInv, ShopTypeOK
    <3>6. DiskExplained'
      <4>1. CASE Moving(plan)
        BY <1>1, <2>2, <3>3, <4>1 DEF DiskExplained
      <4>2. CASE ~Moving(plan)
        <5>1. stock' = stock /\ ledger' = ledger
          BY <2>0, <2>1, <2>4, <4>2 DEF PlansShop
        <5>2. dirty => dirty'
          BY <2>2
        <5> QED BY <3>3, <5>1, <5>2 DEF ShopInv, DiskExplained
      <4> QED BY <4>1, <4>2
    <3> QED BY <3>2, <3>5, <3>6 DEF ShopInv, LedgerExplainsStock
  <2>6. /\ ChangedOps(plan) \cup plan.rejected = ToSet(ops)
        /\ ChangedOps(plan) \cap plan.rejected = {}
    BY <1>2, <2>1 DEF PlansOps, ToSet
  <2>7. /\ DOMAIN Results(plan) = ToSet(ops)
        /\ \A op \in ToSet(ops) :
             Results(plan)[op] = IF op \in plan.rejected THEN "rejected" ELSE "applied"
    BY <2>6 DEF Results, ChangedOps
  <2>8. /\ r.phase = "resolving" /\ r.ops = ops /\ r.results = Results(plan) /\ r \in Rounds
    <3>1. Results(plan) \in [ToSet(ops) -> Outcome]
      <4>1. Results(plan) = [op \in ToSet(ops) |-> Results(plan)[op]]
        BY <2>6 DEF Results, ChangedOps
      <4> QED BY <2>7, <4>1 DEF Outcome
    <3>2. Results(plan) \in UNION {[S -> Outcome] : S \in SUBSET Scans}
      BY <1>2, <3>1
    <3> QED BY <1>2, <3>2 DEF Rounds
  <2> HIDE DEF r
  <2>9. rounds'[m] = r /\ \A n \in Mounts : n # m => rounds'[n] = rounds[n]
    BY <1>1, <2>2
  <2>10. QueueInv'
    BY <1>3 DEF QueueInv
  <2>11. ScreenInv'
    <3>1. rounds' \in [Mounts -> Rounds]
      BY <1>1, <2>2, <2>8
    <3> QED BY <1>1, <1>3, <2>2, <2>9, <3>1 DEF ScreenInv, SignedIn
  <2>12. ASSUME NEW op \in Scans
         PROVE  /\ applied'[op] = IF op \in ChangedOps(plan)
                                  THEN IF applied[op] = 0 THEN 1 ELSE 2 ELSE applied[op]
                /\ applied[op] \in Nat
    BY <2>2, OnceMore DEF TruthInv
  <2>13. applied' \in [Scans -> Nat]
    <3>1. \A op \in Scans : applied'[op] \in Nat
      BY <2>12
    <3> QED BY <2>2, <3>1
  <2>14. ~ \E op \in Scans : OnItsWay(op)
    BY <1>1 DEF OnItsWay
  <2>15. ASSUME NEW op \in Scans PROVE OpRight(op)'
    <3>1. OpRight(op) /\ ~OnItsWay(op)
      BY <2>14 DEF TruthInv
    <3>2. CASE op \in ChangedOps(plan)
      <4>1. /\ told[op] = "pending" /\ op \in ToSet(ops) /\ Results(plan)[op] = "applied"
        BY <1>2, <2>6, <2>7, <3>2
      <4>2. OnItsWay(op)'
        BY <2>8, <2>9, <4>1 DEF OnItsWay
      <4>3. applied'[op] > 0 /\ (applied'[op] > 1 => op \in unheard)
        BY <2>12, <3>1, <3>2, <4>1 DEF OpRight
      <4> QED BY <1>3, <4>1, <4>2, <4>3 DEF OpRight
    <3>3. CASE op \notin ChangedOps(plan)
      <4>1. applied'[op] = applied[op]
        BY <2>12, <3>3
      <4> QED BY <1>3, <3>1, <4>1 DEF OpRight
    <3> QED BY <3>2, <3>3
  <2>16. RoundRight(m)'
    <3>1. ASSUME NEW op \in ToSet(ops)
          PROVE  IF Results(plan)[op] = "applied" THEN applied'[op] > 0
                 ELSE applied'[op] = 0 \/ op \in unheard
      <4>1. op \in Scans /\ OpRight(op) /\ ~OnItsWay(op) /\ told[op] = "pending"
        BY <1>2, <2>14 DEF TruthInv
      <4>2. CASE op \in ChangedOps(plan)
        BY <2>6, <2>7, <2>12, <4>1, <4>2
      <4>3. CASE op \notin ChangedOps(plan)
        BY <2>6, <2>7, <2>12, <4>1, <4>3 DEF OpRight
      <4> QED BY <4>2, <4>3
    <3> QED BY <1>2, <1>3, <2>7, <2>8, <2>9, <3>1 DEF RoundRight
  <2>17. ASSUME NEW n \in Mounts, n # m PROVE RoundRight(n)'
    <3>1. rounds'[n] = rounds[n] /\ rounds[n].phase = "idle" /\ rounds[n].ops = <<>>
      BY <1>1, <2>9, <2>17, RoundFields
    <3> QED BY <3>1, IdleRound DEF RoundRight
  <2>18. TruthInv'
    BY <1>3, <2>13, <2>15, <2>16, <2>17 DEF TruthInv
  <2> QED BY <2>5, <2>10, <2>11, <2>18
<1> QED BY <1>4, <1>5

(* The invariant is inductive.                                             *)
LEMMA MobileNext == MobileInv /\ [RetryNext]_vars => MobileInv'
<1> SUFFICES ASSUME MobileInv, [RetryNext]_vars PROVE MobileInv'
  OBVIOUS
<1>1. ASSUME NEW op \in Scans, Scan(op) PROVE MobileInv'
  BY <1>1, Scanned
<1>2. ASSUME session # "unlocking", NEW m \in Mounts, Poll(m) PROVE MobileInv'
  BY <1>2, FetchSteps, Answered, Resolved DEF Poll
<1>3. ASSUME NEW m \in Mounts, ResolveLost(m) PROVE MobileInv'
  BY <1>3, LostResolve
<1>4. CASE InPlace
  BY <1>4, ShopSteps DEF InPlace
<1>5. CASE Mount
  BY <1>5, ScreenSteps
<1>6. CASE Ends
  BY <1>6, WindowGoes DEF Ends
<1>7. CASE ~dirty /\ PowerCut
  BY <1>7, WindowGoes DEF PowerCut
<1>8. CASE ~dirty /\ Unlock
  BY <1>8, ShopSteps DEF Unlock
<1>9. CASE NoRound /\ ~dirty /\ Unmount
  BY <1>9, ScreenSteps
<1>10. CASE UNCHANGED vars
  BY <1>10, ShopSteps DEF vars
<1> QED BY <1>1, <1>2, <1>3, <1>4, <1>5, <1>6, <1>7, <1>8, <1>9, <1>10 DEF RetryNext

(* Every state reached by phones that send a scan again until they are     *)
(* answered satisfies the inductive invariant.                             *)
THEOREM MobileAlwaysInv == RetrySpec => []MobileInv
BY MobileInit, MobileNext, PTL DEF RetrySpec

---------------------------------------------------------------------------
(* The types; a mount is on screen exactly while someone is signed in.     *)
THEOREM MobileTypeCorrect == RetrySpec => []TypeOK
<1>1. MobileInv => TypeOK
  <2> SUFFICES ASSUME MobileInv PROVE TypeOK
    OBVIOUS
  <2>1. ASSUME NEW m \in Mounts PROVE ToSet(rounds[m].ops) \subseteq ToSet(queue)
    <3>1. ToSet(rounds[m].ops) \subseteq Scans
      BY RoundFields DEF MobileInv, ScreenInv
    <3> QED BY <3>1 DEF MobileInv, TruthInv, RoundRight, QueueInv
  <2> QED BY <2>1 DEF MobileInv, ShopInv, QueueInv, ScreenInv, TypeOK
<1> QED BY <1>1, MobileAlwaysInv, PTL

(* With the phones' work, too, the ledger explains the shelf (adjustStock, *)
(* planStockOps): what was planned is what is applied.                     *)
THEOREM PhonesKeepStockExplained == RetrySpec => []LedgerExplainsStock
<1>1. MobileInv => LedgerExplainsStock
  BY DEF MobileInv, ShopInv
<1> QED BY <1>1, MobileAlwaysInv, PTL

(* An operation is applied again only if its result was lost (drainOnce).  *)
THEOREM AgainOnlyUnheard == RetrySpec => []AppliedAgainOnlyUnheard
<1>1. MobileInv => AppliedAgainOnlyUnheard
  BY DEF MobileInv, TruthInv, OpRight, AppliedAgainOnlyUnheard
<1> QED BY <1>1, MobileAlwaysInv, PTL

(* The phone is told what its operation did (resultForChange, planStockOps, *)
(* resolveMobileStockOps).                                                  *)
THEOREM PhoneToldTruth == RetrySpec => []ToldTruth
<1>1. MobileInv => ToldTruth
  BY DEF MobileInv, TruthInv, OpRight, ToldTruth
<1> QED BY <1>1, MobileAlwaysInv, PTL
=============================================================================
