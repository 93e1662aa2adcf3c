---------------------- MODULE LedgerStore_proofs ----------------------
(***************************************************************************)
(* What TLAPS proves of the ledger store for every shop, every chunk size  *)
(* and every bound: its types, and that the renderer's cache never goes    *)
(* stale while no document is saved under a pending read; that the rows,   *)
(* the list on screen and the books then agree; and that the chunked rows  *)
(* implement the abstract ledger of StockLedger.                           *)
(***************************************************************************)
EXTENDS LedgerStore, FiniteSums, SequenceTheorems

---------------------------------------------------------------------------
(* Movements taken out of a ledger, and those taken                        *)

(* The folds up to the n-th place, one after the other.                    *)
LEMMA PlacesUp ==
  ASSUME NEW N \in Nat, NEW V, NEW b, NEW t, NEW g, FoldsPlaces(g, N, V, b, t)
  PROVE  /\ g[1 .. 0] = b
         /\ \A n \in 0 .. N : g[1 .. n] \in V
         /\ \A n \in 1 .. N : g[1 .. n] = t[n][g[1 .. (n - 1)]]
<1>1. 1 .. 0 = {} /\ 1 .. 0 \in SUBSET (1 .. N)
  OBVIOUS
<1>2. g[1 .. 0] = b
  BY <1>1 DEF FoldsPlaces
<1>3. \A n \in 0 .. N : g[1 .. n] \in V
  <2> SUFFICES ASSUME NEW n \in 0 .. N PROVE g[1 .. n] \in V
    OBVIOUS
  <2>1. 1 .. n \in SUBSET (1 .. N)
    OBVIOUS
  <2> QED BY <2>1 DEF FoldsPlaces
<1>4. \A n \in 1 .. N : g[1 .. n] = t[n][g[1 .. (n - 1)]]
  <2> SUFFICES ASSUME NEW n \in 1 .. N PROVE g[1 .. n] = t[n][g[1 .. (n - 1)]]
    OBVIOUS
  <2>1. /\ Max(1 .. n) = n /\ (1 .. n) \ {n} = 1 .. (n - 1)
        /\ 1 .. n \in SUBSET (1 .. N) /\ 1 .. n # {}
    BY LastPlace
  <2> QED BY <2>1 DEF FoldsPlaces
<1> QED BY <1>2, <1>3, <1>4

(* What holds of the empty sequence and survives an append holds of all.   *)
LEMMA SeqInduction ==
  ASSUME NEW S, NEW Good, <<>> \in Good,
         \A s \in Seq(S), e \in S : s \in Good => Append(s, e) \in Good
  PROVE  \A s \in Seq(S) : s \in Good
<1> SUFFICES ASSUME NEW s \in Seq(S) PROVE s \in Good
  OBVIOUS
<1> DEFINE pre == [n \in 0 .. Len(s) |-> SubSeq(s, 1, n)]
           Fine == {n \in 0 .. Len(s) : pre[n] \in Good}
<1>1. Len(s) \in Nat
  OBVIOUS
<1>2. 0 \in 0 .. Len(s) /\ pre[0] = <<>>
  <2>1. SubSeq(s, 1, 0) = <<>>
    BY SubSeqEmpty
  <2> QED BY <1>1, <2>1
<1>3. \A n \in 0 .. Len(s) :
        n # Len(s) => /\ pre[n] \in Seq(S) /\ s[n + 1] \in S /\ n + 1 \in 0 .. Len(s)
                      /\ pre[n + 1] = Append(pre[n], s[n + 1])
  <2> SUFFICES ASSUME NEW n \in 0 .. Len(s), n # Len(s)
               PROVE  /\ pre[n] \in Seq(S) /\ s[n + 1] \in S /\ n + 1 \in 0 .. Len(s)
                      /\ pre[n + 1] = Append(pre[n], s[n + 1])
    OBVIOUS
  <2>1. n + 1 \in 1 .. Len(s) /\ 1 \in 1 .. Len(s) /\ n + 1 \in 0 .. Len(s)
    OBVIOUS
  <2>2. SubSeq(s, 1, n + 1) = SubSeq(s, 1, (n + 1) - 1) \o <<s[n + 1]>>
    BY <2>1, SubSeqRecursiveSecond
  <2>3. SubSeq(s, 1, n) \in Seq(S)
    <3>1. \A i \in 1 .. n : s[i] \in S
      BY <2>1
    <3> QED BY <3>1, SubSeqProperties
  <2>4. s[n + 1] \in S /\ (n + 1) - 1 = n
    BY <2>1
  <2>5. Append(SubSeq(s, 1, n), s[n + 1]) = SubSeq(s, 1, n) \o <<s[n + 1]>>
    BY <2>3, <2>4, AppendIsConcat
  <2>6. SubSeq(s, 1, n + 1) = Append(SubSeq(s, 1, n), s[n + 1])
    BY <2>2, <2>4, <2>5
  <2> QED BY <2>1, <2>3, <2>4, <2>6
<1>4. Len(s) \in Fine
  <2> HIDE DEF pre
  <2>1. 0 \in Fine
    BY <1>2
  <2>2. \A n \in 0 .. Len(s) : n # Len(s) /\ n \in Fine => n + 1 \in Fine
    BY <1>3
  <2>3. Len(s) \in 0 .. Len(s)
    BY <1>1
  <2> HIDE DEF Fine
  <2> QED BY <1>1, <2>1, <2>2, <2>3, CountUp
<1>5. SubSeq(s, 1, Len(s)) = s
  BY SubSeqFull
<1> QED BY <1>4, <1>5

---------------------------------------------------------------------------
(* f is the movements of s that are not of the document, place by place.   *)
Leaves(f, s, ref) ==
  /\ f[0] = <<>>
  /\ \A n \in 1 .. Len(s) : f[n] = IF s[n].ref = ref THEN f[n - 1] ELSE Append(f[n - 1], s[n])

(* Without reads the sequence once from its start.                         *)
LEMMA WithoutLeaves ==
  ASSUME NEW S, NEW s \in Seq(S), NEW ref
  PROVE  \E f : Leaves(f, s, ref) /\ Without(s, ref) = f[Len(s)]
<1> DEFINE N == Len(s)
           V == Seq(S)
           Step(v, m) == IF m.ref = ref THEN v ELSE Append(v, m)
           t == [i \in 1 .. N |-> [v \in V |-> Step(v, s[i])]]
           Iter(h) == h = [p \in SUBSET (1 .. N) |->
                             IF p = {} THEN <<>> ELSE Step(h[p \ {Max(p)}], s[Max(p)])]
<1>1. N \in Nat /\ DOMAIN s = 1 .. N /\ \A i \in 1 .. N : s[i] \in S
  OBVIOUS
<1>2. \A i \in 1 .. N, v \in V : t[i][v] \in V /\ t[i][v] = Step(v, s[i])
  BY <1>1
<1>3. PICK g : FoldsPlaces(g, N, V, <<>>, t)
  <2>1. <<>> \in V
    OBVIOUS
  <2>2. \A i \in 1 .. N, v \in V : t[i][v] \in V
    BY <1>2
  <2> HIDE DEF N, V, t
  <2> QED BY <1>1, <2>1, <2>2, PlacesFold
<1> DEFINE h == [p \in SUBSET (1 .. N) |-> g[p]]
<1>4. Iter(h)
  <2>1. \A p \in SUBSET (1 .. N) :
          h[p] = IF p = {} THEN <<>> ELSE Step(h[p \ {Max(p)}], s[Max(p)])
    <3> HIDE DEF N, V, t, Step
    <3> QED BY <1>2, <1>3 DEF FoldsPlaces
  <2> QED BY <2>1
<1> DEFINE k == CHOOSE iter : Iter(iter)
<1>5. Iter(k)
  BY <1>4
<1>6. Without(s, ref) = k[1 .. N]
  BY <1>1 DEF Without, FoldLeft, MapThenFoldSet
<1>7. \A p \in SUBSET (1 .. N) :
        k[p] = IF p = {} THEN <<>> ELSE Step(k[p \ {Max(p)}], s[Max(p)])
  <2> HIDE DEF k, Step
  <2> QED BY <1>5
<1> DEFINE f == [n \in 0 .. N |-> k[1 .. n]]
<1>8. \A n \in 1 .. N : f[n] = Step(f[n - 1], s[n])
  <2> SUFFICES ASSUME NEW n \in 1 .. N PROVE f[n] = Step(f[n - 1], s[n])
    OBVIOUS
  <2>1. /\ Max(1 .. n) = n /\ (1 .. n) \ {n} = 1 .. (n - 1)
        /\ 1 .. n \in SUBSET (1 .. N) /\ 1 .. n # {} /\ n - 1 \in 0 .. N
    <3> HIDE DEF N
    <3> QED BY <1>1, LastPlace
  <2> HIDE DEF k, Step, N
  <2>2. k[1 .. n] = Step(k[1 .. (n - 1)], s[n])
    BY <1>7, <2>1
  <2>3. n \in 0 .. N
    BY <1>1
  <2> QED BY <2>1, <2>2, <2>3
<1>9. f[0] = <<>> /\ f[N] = k[1 .. N]
  <2>1. 1 .. 0 = {} /\ 0 \in 0 .. N /\ N \in 0 .. N
    BY <1>1
  <2> HIDE DEF k, Step, N
  <2> QED BY <1>7, <2>1
<1> HIDE DEF f, k
<1> QED BY <1>6, <1>8, <1>9 DEF Leaves

(* An empty ledger has no document to take out.                            *)
LEMMA WithoutNothing ==
  ASSUME NEW ref PROVE Without(<<>>, ref) = <<>>
<1>1. <<>> \in Seq({})
  OBVIOUS
<1>2. PICK f : Leaves(f, <<>>, ref) /\ Without(<<>>, ref) = f[Len(<<>>)]
  BY <1>1, WithoutLeaves
<1> QED BY <1>2 DEF Leaves

(* One movement more is left in place or out, as its document says.        *)
LEMMA WithoutAppend ==
  ASSUME NEW S, NEW s \in Seq(S), NEW e \in S, NEW ref
  PROVE  Without(Append(s, e), ref)
           = IF e.ref = ref THEN Without(s, ref) ELSE Append(Without(s, ref), e)
<1> DEFINE N == Len(s)
           w == Append(s, e)
<1>2. PICK f : Leaves(f, s, ref) /\ Without(s, ref) = f[N]
  BY WithoutLeaves
<1>3. N \in Nat /\ w \in Seq(S) /\ Len(w) = N + 1 /\ w[N + 1] = e /\ \A n \in 1 .. N : w[n] = s[n]
  BY AppendProperties
<1>4. PICK g : Leaves(g, w, ref) /\ Without(w, ref) = g[Len(w)]
  <2> HIDE DEF w
  <2> QED BY <1>3, WithoutLeaves
<1> HIDE DEF N, w
<1>5. \A n \in 0 .. N : g[n] = f[n]
  <2> DEFINE Same == {n \in 0 .. N : g[n] = f[n]}
  <2>1. 0 \in Same
    BY <1>2, <1>3, <1>4 DEF Leaves
  <2>2. \A n \in 0 .. N : n # N /\ n \in Same => n + 1 \in Same
    <3> SUFFICES ASSUME NEW n \in 0 .. N, n # N, n \in Same PROVE n + 1 \in Same
      OBVIOUS
    <3>1. n + 1 \in 1 .. N /\ n + 1 \in 0 .. N /\ n + 1 \in 1 .. Len(w) /\ (n + 1) - 1 = n
      BY <1>3
    <3>2. n + 1 \in 1 .. Len(s)
      BY <3>1 DEF N
    <3>3. f[n + 1] = IF s[n + 1].ref = ref THEN f[n] ELSE Append(f[n], s[n + 1])
      BY <1>2, <3>1, <3>2 DEF Leaves
    <3>4. g[n + 1] = IF w[n + 1].ref = ref THEN g[n] ELSE Append(g[n], w[n + 1])
      BY <1>4, <3>1 DEF Leaves
    <3> QED BY <1>3, <3>1, <3>3, <3>4
  <2> HIDE DEF Same
  <2>3. \A n \in 0 .. N : n \in Same
    BY <1>3, <2>1, <2>2, CountUp
  <2> QED BY <2>3 DEF Same
<1>6. g[N] = f[N]
  BY <1>3, <1>5
<1>7. g[N + 1] = IF e.ref = ref THEN g[N] ELSE Append(g[N], e)
  <2>1. N + 1 \in 1 .. Len(w) /\ (N + 1) - 1 = N
    BY <1>3
  <2> QED BY <1>3, <1>4, <2>1 DEF Leaves
<1> QED BY <1>2, <1>3, <1>4, <1>6, <1>7 DEF w, N

(* f is the movements of s that are of the document, place by place.       *)
Finds(f, s, ref) ==
  /\ f[0] = <<>>
  /\ \A n \in 1 .. Len(s) : f[n] = IF s[n].ref = ref THEN Append(f[n - 1], s[n]) ELSE f[n - 1]

(* Only reads the sequence once from its start.                            *)
LEMMA OnlyFinds ==
  ASSUME NEW S, NEW s \in Seq(S), NEW ref
  PROVE  \E f : Finds(f, s, ref) /\ Only(s, ref) = f[Len(s)]
<1> DEFINE N == Len(s)
           V == Seq(S)
           Step(v, m) == IF m.ref = ref THEN Append(v, m) ELSE v
           t == [i \in 1 .. N |-> [v \in V |-> Step(v, s[i])]]
           Iter(h) == h = [p \in SUBSET (1 .. N) |->
                             IF p = {} THEN <<>> ELSE Step(h[p \ {Max(p)}], s[Max(p)])]
<1>1. N \in Nat /\ DOMAIN s = 1 .. N /\ \A i \in 1 .. N : s[i] \in S
  OBVIOUS
<1>2. \A i \in 1 .. N, v \in V : t[i][v] \in V /\ t[i][v] = Step(v, s[i])
  BY <1>1
<1>3. PICK g : FoldsPlaces(g, N, V, <<>>, t)
  <2>1. <<>> \in V
    OBVIOUS
  <2>2. \A i \in 1 .. N, v \in V : t[i][v] \in V
    BY <1>2
  <2> HIDE DEF N, V, t
  <2> QED BY <1>1, <2>1, <2>2, PlacesFold
<1> DEFINE h == [p \in SUBSET (1 .. N) |-> g[p]]
<1>4. Iter(h)
  <2>1. \A p \in SUBSET (1 .. N) :
          h[p] = IF p = {} THEN <<>> ELSE Step(h[p \ {Max(p)}], s[Max(p)])
    <3> HIDE DEF N, V, t, Step
    <3> QED BY <1>2, <1>3 DEF FoldsPlaces
  <2> QED BY <2>1
<1> DEFINE k == CHOOSE iter : Iter(iter)
<1>5. Iter(k)
  BY <1>4
<1>6. Only(s, ref) = k[1 .. N]
  BY <1>1 DEF Only, FoldLeft, MapThenFoldSet
<1>7. \A p \in SUBSET (1 .. N) :
        k[p] = IF p = {} THEN <<>> ELSE Step(k[p \ {Max(p)}], s[Max(p)])
  <2> HIDE DEF k, Step
  <2> QED BY <1>5
<1> DEFINE f == [n \in 0 .. N |-> k[1 .. n]]
<1>8. \A n \in 1 .. N : f[n] = Step(f[n - 1], s[n])
  <2> SUFFICES ASSUME NEW n \in 1 .. N PROVE f[n] = Step(f[n - 1], s[n])
    OBVIOUS
  <2>1. /\ Max(1 .. n) = n /\ (1 .. n) \ {n} = 1 .. (n - 1)
        /\ 1 .. n \in SUBSET (1 .. N) /\ 1 .. n # {} /\ n - 1 \in 0 .. N
    <3> HIDE DEF N
    <3> QED BY <1>1, LastPlace
  <2> HIDE DEF k, Step, N
  <2>2. k[1 .. n] = Step(k[1 .. (n - 1)], s[n])
    BY <1>7, <2>1
  <2>3. n \in 0 .. N
    BY <1>1
  <2> QED BY <2>1, <2>2, <2>3
<1>9. f[0] = <<>> /\ f[N] = k[1 .. N]
  <2>1. 1 .. 0 = {} /\ 0 \in 0 .. N /\ N \in 0 .. N
    BY <1>1
  <2> HIDE DEF k, Step, N
  <2> QED BY <1>7, <2>1
<1> HIDE DEF f, k
<1> QED BY <1>6, <1>8, <1>9 DEF Finds

(* An empty ledger has no movement of any document.                        *)
LEMMA OnlyNothing ==
  ASSUME NEW ref PROVE Only(<<>>, ref) = <<>>
<1>1. <<>> \in Seq({})
  OBVIOUS
<1>2. PICK f : Finds(f, <<>>, ref) /\ Only(<<>>, ref) = f[Len(<<>>)]
  BY <1>1, OnlyFinds
<1> QED BY <1>2 DEF Finds

(* One movement more is found or not, as its document says.                *)
LEMMA OnlyAppend ==
  ASSUME NEW S, NEW s \in Seq(S), NEW e \in S, NEW ref
  PROVE  Only(Append(s, e), ref)
           = IF e.ref = ref THEN Append(Only(s, ref), e) ELSE Only(s, ref)
<1> DEFINE N == Len(s)
           w == Append(s, e)
<1>2. PICK f : Finds(f, s, ref) /\ Only(s, ref) = f[N]
  BY OnlyFinds
<1>3. N \in Nat /\ w \in Seq(S) /\ Len(w) = N + 1 /\ w[N + 1] = e /\ \A n \in 1 .. N : w[n] = s[n]
  BY AppendProperties
<1>4. PICK g : Finds(g, w, ref) /\ Only(w, ref) = g[Len(w)]
  <2> HIDE DEF w
  <2> QED BY <1>3, OnlyFinds
<1> HIDE DEF N, w
<1>5. \A n \in 0 .. N : g[n] = f[n]
  <2> DEFINE Same == {n \in 0 .. N : g[n] = f[n]}
  <2>1. 0 \in Same
    BY <1>2, <1>3, <1>4 DEF Finds
  <2>2. \A n \in 0 .. N : n # N /\ n \in Same => n + 1 \in Same
    <3> SUFFICES ASSUME NEW n \in 0 .. N, n # N, n \in Same PROVE n + 1 \in Same
      OBVIOUS
    <3>1. n + 1 \in 1 .. N /\ n + 1 \in 0 .. N /\ n + 1 \in 1 .. Len(w) /\ (n + 1) - 1 = n
      BY <1>3
    <3>2. n + 1 \in 1 .. Len(s)
      BY <3>1 DEF N
    <3>3. f[n + 1] = IF s[n + 1].ref = ref THEN Append(f[n], s[n + 1]) ELSE f[n]
      BY <1>2, <3>1, <3>2 DEF Finds
    <3>4. g[n + 1] = IF w[n + 1].ref = ref THEN Append(g[n], w[n + 1]) ELSE g[n]
      BY <1>4, <3>1 DEF Finds
    <3> QED BY <1>3, <3>1, <3>3, <3>4
  <2> HIDE DEF Same
  <2>3. \A n \in 0 .. N : n \in Same
    BY <1>3, <2>1, <2>2, CountUp
  <2> QED BY <2>3 DEF Same
<1>6. g[N] = f[N]
  BY <1>3, <1>5
<1>7. g[N + 1] = IF e.ref = ref THEN Append(g[N], e) ELSE g[N]
  <2>1. N + 1 \in 1 .. Len(w) /\ (N + 1) - 1 = N
    BY <1>3
  <2> QED BY <1>3, <1>4, <2>1 DEF Finds
<1> QED BY <1>2, <1>3, <1>4, <1>6, <1>7 DEF w, N

(* What lsRemoveWhere keeps and what it takes out add up to the whole, and *)
(* it keeps nothing new.                                                   *)
LEMMA WithoutSeq ==
  ASSUME NEW S, NEW s \in Seq(S), NEW ref
  PROVE  /\ Without(s, ref) \in Seq(S) /\ Only(s, ref) \in Seq(S)
         /\ Len(Without(s, ref)) + Len(Only(s, ref)) = Len(s)
         /\ Only(s, ref) = <<>> => Without(s, ref) = s
         /\ \A i \in 1 .. Len(Without(s, ref)) : \E j \in 1 .. Len(s) : Without(s, ref)[i] = s[j]
<1> DEFINE Right(x) ==
      /\ Without(x, ref) \in Seq(S) /\ Only(x, ref) \in Seq(S)
      /\ Len(Without(x, ref)) + Len(Only(x, ref)) = Len(x)
      /\ Only(x, ref) = <<>> => Without(x, ref) = x
      /\ \A i \in 1 .. Len(Without(x, ref)) : \E j \in 1 .. Len(x) : Without(x, ref)[i] = x[j]
    Good == {x \in Seq(S) : Right(x)}
<1>1. <<>> \in Good
  <2>1. Without(<<>>, ref) = <<>> /\ Only(<<>>, ref) = <<>>
    BY WithoutNothing, OnlyNothing
  <2>2. <<>> \in Seq(S) /\ Len(<<>>) = 0 /\ 0 + 0 = 0 /\ 1 .. 0 = {}
    OBVIOUS
  <2>3. Right(<<>>)
    BY <2>1, <2>2
  <2> QED BY <2>2, <2>3
<1>2. ASSUME NEW x \in Seq(S), NEW e \in S, x \in Good PROVE Append(x, e) \in Good
  <2> DEFINE w == Without(x, ref)
             o == Only(x, ref)
             y == Append(x, e)
  <2>1. /\ Without(y, ref) = IF e.ref = ref THEN w ELSE Append(w, e)
        /\ Only(y, ref) = IF e.ref = ref THEN Append(o, e) ELSE o
    BY WithoutAppend, OnlyAppend
  <2>2. /\ w \in Seq(S) /\ o \in Seq(S) /\ Len(w) + Len(o) = Len(x) /\ (o = <<>> => w = x)
        /\ \A i \in 1 .. Len(w) : \E j \in 1 .. Len(x) : w[i] = x[j]
    BY <1>2
  <2>3. y \in Seq(S) /\ Len(y) = Len(x) + 1 /\ y[Len(x) + 1] = e /\ \A j \in 1 .. Len(x) : y[j] = x[j]
    BY AppendProperties
  <2> HIDE DEF w, o, y
  <2>4. CASE e.ref = ref
    <3>1. Without(y, ref) = w /\ Only(y, ref) = Append(o, e)
      BY <2>1, <2>4
    <3>2. Append(o, e) \in Seq(S) /\ Append(o, e) # <<>> /\ Len(Append(o, e)) = Len(o) + 1
      BY <2>2, AppendProperties
    <3>3. \A i \in 1 .. Len(w) : \E j \in 1 .. Len(y) : w[i] = y[j]
      <4> SUFFICES ASSUME NEW i \in 1 .. Len(w) PROVE \E j \in 1 .. Len(y) : w[i] = y[j]
        OBVIOUS
      <4>1. PICK j \in 1 .. Len(x) : w[i] = x[j]
        BY <2>2
      <4>2. j \in 1 .. Len(y) /\ w[i] = y[j]
        BY <2>3, <4>1
      <4> QED BY <4>2
    <3>4. Len(w) \in Nat /\ Len(o) \in Nat /\ Len(x) \in Nat
      BY <2>2
    <3>6. Len(w) + Len(Append(o, e)) = Len(y)
      <4>1. Len(w) + Len(o) = Len(x) /\ Len(y) = Len(x) + 1
        BY <2>2, <2>3
      <4>3. Len(Append(o, e)) = Len(o) + 1 /\ Len(Append(o, e)) \in Nat /\ Len(y) \in Nat
        BY <2>3, <3>2, <3>4
      <4> QED BY <3>4, <4>1, <4>3
    <3>5. Right(y)
      BY <2>2, <3>1, <3>2, <3>3, <3>6, Zenon
    <3> QED BY <2>3, <3>5 DEF y
  <2>5. CASE e.ref # ref
    <3>1. Without(y, ref) = Append(w, e) /\ Only(y, ref) = o
      BY <2>1, <2>5
    <3>2. /\ Append(w, e) \in Seq(S) /\ Len(Append(w, e)) = Len(w) + 1
          /\ Append(w, e)[Len(w) + 1] = e /\ \A i \in 1 .. Len(w) : Append(w, e)[i] = w[i]
      BY <2>2, AppendProperties
    <3>4. Len(w) \in Nat /\ Len(o) \in Nat /\ Len(x) \in Nat
      BY <2>2
    <3>3. \A i \in 1 .. Len(Append(w, e)) : \E j \in 1 .. Len(y) : Append(w, e)[i] = y[j]
      <4> SUFFICES ASSUME NEW i \in 1 .. Len(Append(w, e))
                   PROVE  \E j \in 1 .. Len(y) : Append(w, e)[i] = y[j]
        OBVIOUS
      <4>1. CASE i = Len(w) + 1
        <5>1. Len(x) + 1 \in 1 .. Len(y) /\ Append(w, e)[i] = y[Len(x) + 1]
          BY <2>3, <3>2, <3>4, <4>1
        <5> QED BY <5>1
      <4>2. CASE i # Len(w) + 1
        <5>0. i \in 1 .. Len(w)
          BY <3>2, <3>4, <4>2
        <5>1. PICK j \in 1 .. Len(x) : w[i] = x[j]
          BY <2>2, <5>0
        <5>2. j \in 1 .. Len(y) /\ Append(w, e)[i] = y[j]
          BY <2>3, <3>2, <3>4, <5>0, <5>1
        <5> QED BY <5>2
      <4> QED BY <4>1, <4>2
    <3>6. o = <<>> => Append(w, e) = y
      BY <2>2 DEF y
    <3>7. Len(Append(w, e)) + Len(o) = Len(y)
      <4>1. Len(w) + Len(o) = Len(x) /\ Len(y) = Len(x) + 1
        BY <2>2, <2>3
      <4>3. Len(Append(w, e)) = Len(w) + 1 /\ Len(Append(w, e)) \in Nat /\ Len(y) \in Nat
        BY <2>3, <3>2, <3>4
      <4> QED BY <3>4, <4>1, <4>3
    <3>5. Right(y)
      BY <2>2, <3>1, <3>2, <3>3, <3>6, <3>7, Zenon
    <3> QED BY <2>3, <3>5 DEF y
  <2> QED BY <2>4, <2>5
<1>3. s \in Good
  <2> HIDE DEF Good
  <2> QED BY <1>1, <1>2, SeqInduction
<1> QED BY <1>3

---------------------------------------------------------------------------
(* Ledgers                                                                 *)

(* The ledgers, and one ledger after another, as the proofs speak of them. *)
Log == Seq(Movement)
Cat(s, t) == s \o t

(* Two ledgers, one after the other, are a ledger.                         *)
LEMMA CatLog ==
  ASSUME NEW s \in Log, NEW t \in Log
  PROVE  /\ Cat(s, t) \in Log /\ Len(Cat(s, t)) = Len(s) + Len(t)
         /\ Cat(s, <<>>) = s /\ Cat(<<>>, t) = t /\ <<>> \in Log /\ Len(s) \in Nat
<1> DEFINE M == Movement
<1>1. s \in Seq(M) /\ t \in Seq(M)
  BY DEF Log
<1> HIDE DEF M
<1>2. /\ s \o t \in Seq(M) /\ Len(s \o t) = Len(s) + Len(t)
      /\ s \o <<>> = s /\ <<>> \o t = t /\ <<>> \in Seq(M) /\ Len(s) \in Nat
  BY <1>1
<1> QED BY <1>2 DEF Cat, Log, M

(* Where the movements of two ledgers stand, one after the other.          *)
LEMMA CatPlaces ==
  ASSUME NEW s \in Log, NEW t \in Log
  PROVE  \A i \in 1 .. Len(s) + Len(t) :
           Cat(s, t)[i] = IF i <= Len(s) THEN s[i] ELSE t[i - Len(s)]
<1> DEFINE M == Movement
<1>1. s \in Seq(M)
  BY DEF Log
<1>2. t \in Seq(M)
  BY DEF Log
<1> HIDE DEF M
<1>3. \A i \in 1 .. Len(s) + Len(t) : (s \o t)[i] = IF i <= Len(s) THEN s[i] ELSE t[i - Len(s)]
  BY <1>1, <1>2, ConcatProperties
<1> QED BY <1>3 DEF Cat

(* Three ledgers joined from either end are the same.                      *)
LEMMA CatCat ==
  ASSUME NEW s \in Log, NEW t \in Log, NEW u \in Log
  PROVE  Cat(Cat(s, t), u) = Cat(s, Cat(t, u))
<1> DEFINE M == Movement
<1>1. s \in Seq(M) /\ t \in Seq(M) /\ u \in Seq(M)
  BY DEF Log
<1> HIDE DEF M
<1>2. (s \o t) \o u = s \o (t \o u)
  BY <1>1, ConcatAssociative
<1> QED BY <1>2 DEF Cat

(* A movement added is a ledger of one movement added.                     *)
LEMMA CatOne ==
  ASSUME NEW s \in Log, NEW e \in Movement
  PROVE  Append(s, e) = Cat(s, <<e>>) /\ <<e>> \in Log /\ Append(s, e) \in Log
<1> DEFINE M == Movement
<1>1. s \in Seq(M) /\ e \in M
  BY DEF Log
<1> HIDE DEF M
<1>2. Append(s, e) = s \o <<e>> /\ <<e>> \in Seq(M) /\ Append(s, e) \in Seq(M)
  BY <1>1, AppendIsConcat
<1> QED BY <1>2 DEF Cat, Log, M

(* What holds of no movement and survives one more holds of every ledger.  *)
LEMMA LogInduction ==
  ASSUME NEW Good, <<>> \in Good,
         \A s \in Log, e \in Movement : s \in Good => Cat(s, <<e>>) \in Good
  PROVE  \A s \in Log : s \in Good
<1> DEFINE M == Movement
<1>1. \A s \in Seq(M), e \in M : s \in Good => Append(s, e) \in Good
  <2> SUFFICES ASSUME NEW s \in Seq(M), NEW e \in M, s \in Good PROVE Append(s, e) \in Good
    OBVIOUS
  <2>1. s \in Log /\ e \in Movement
    BY DEF Log, M
  <2>2. Cat(s, <<e>>) \in Good
    BY <2>1
  <2> QED BY <2>1, <2>2, CatOne
<1> HIDE DEF M
<1>2. \A s \in Seq(M) : s \in Good
  BY <1>1, SeqInduction
<1> QED BY <1>2 DEF Log, M

---------------------------------------------------------------------------
(* Taking out the movements of a document                                  *)

(* The same of ledgers: what is kept is a ledger, and so is what is taken  *)
(* out.                                                                    *)
LEMMA WithoutLog ==
  ASSUME NEW s \in Log, NEW ref
  PROVE  /\ Without(s, ref) \in Log /\ Only(s, ref) \in Log
         /\ Len(Without(s, ref)) + Len(Only(s, ref)) = Len(s)
         /\ Only(s, ref) = <<>> => Without(s, ref) = s
         /\ \A i \in 1 .. Len(Without(s, ref)) : \E j \in 1 .. Len(s) : Without(s, ref)[i] = s[j]
<1> DEFINE M == Movement
<1>1. s \in Seq(M)
  BY DEF Log
<1> HIDE DEF M
<1>2. /\ Without(s, ref) \in Seq(M) /\ Only(s, ref) \in Seq(M)
      /\ Len(Without(s, ref)) + Len(Only(s, ref)) = Len(s)
      /\ Only(s, ref) = <<>> => Without(s, ref) = s
      /\ \A i \in 1 .. Len(Without(s, ref)) : \E j \in 1 .. Len(s) : Without(s, ref)[i] = s[j]
  BY <1>1, WithoutSeq
<1> QED BY <1>2 DEF Log, M

(* One movement more, as a ledger of one.                                  *)
LEMMA WithoutOne ==
  ASSUME NEW s \in Log, NEW e \in Movement, NEW ref
  PROVE  /\ Without(Cat(s, <<e>>), ref)
              = IF e.ref = ref THEN Without(s, ref) ELSE Cat(Without(s, ref), <<e>>)
         /\ Only(Cat(s, <<e>>), ref)
              = IF e.ref = ref THEN Cat(Only(s, ref), <<e>>) ELSE Only(s, ref)
<1> DEFINE M == Movement
           y == Append(s, e)
<1>1. s \in Seq(M)
  BY DEF Log
<1>2. e \in M
  OBVIOUS
<1>0. y = Cat(s, <<e>>)
  BY CatOne
<1>3. /\ Append(Without(s, ref), e) = Cat(Without(s, ref), <<e>>)
      /\ Append(Only(s, ref), e) = Cat(Only(s, ref), <<e>>)
  BY WithoutLog, CatOne
<1> HIDE DEF M
<1>4. Without(Append(s, e), ref) = IF e.ref = ref THEN Without(s, ref) ELSE Append(Without(s, ref), e)
  BY <1>1, <1>2, WithoutAppend
<1>5. Only(Append(s, e), ref) = IF e.ref = ref THEN Append(Only(s, ref), e) ELSE Only(s, ref)
  BY <1>1, <1>2, OnlyAppend
<1> QED BY <1>0, <1>3, <1>4, <1>5

(* Taking a document out of two ledgers in a row takes it out of each.     *)
LEMMA WithoutCat ==
  ASSUME NEW s \in Log, NEW t \in Log, NEW ref
  PROVE  /\ Without(Cat(s, t), ref) = Cat(Without(s, ref), Without(t, ref))
         /\ Only(Cat(s, t), ref) = Cat(Only(s, ref), Only(t, ref))
<1> DEFINE Right(x) == /\ Without(Cat(s, x), ref) = Cat(Without(s, ref), Without(x, ref))
                       /\ Only(Cat(s, x), ref) = Cat(Only(s, ref), Only(x, ref))
           Good == {x \in Log : Right(x)}
<1>1. <<>> \in Good
  <2>1. Cat(s, <<>>) = s /\ <<>> \in Log
    BY CatLog
  <2>2. Without(s, ref) \in Log /\ Only(s, ref) \in Log
    BY WithoutLog
  <2>3. Cat(Without(s, ref), <<>>) = Without(s, ref) /\ Cat(Only(s, ref), <<>>) = Only(s, ref)
    BY <2>2, CatLog
  <2>4. Without(<<>>, ref) = <<>> /\ Only(<<>>, ref) = <<>>
    BY WithoutNothing, OnlyNothing
  <2> QED BY <2>1, <2>3, <2>4
<1>2. ASSUME NEW x \in Log, NEW e \in Movement, x \in Good PROVE Cat(x, <<e>>) \in Good
  <2> DEFINE o == <<e>>
  <2>1. o \in Log /\ Cat(s, x) \in Log /\ Cat(x, o) \in Log
    BY CatOne, CatLog
  <2>2. Cat(s, Cat(x, o)) = Cat(Cat(s, x), o)
    BY <2>1, CatCat
  <2>3. /\ Without(s, ref) \in Log /\ Only(s, ref) \in Log
        /\ Without(x, ref) \in Log /\ Only(x, ref) \in Log
    BY WithoutLog
  <2>4. /\ Without(Cat(x, o), ref) = IF e.ref = ref THEN Without(x, ref) ELSE Cat(Without(x, ref), o)
        /\ Only(Cat(x, o), ref) = IF e.ref = ref THEN Cat(Only(x, ref), o) ELSE Only(x, ref)
    BY WithoutOne
  <2>5. /\ Without(Cat(Cat(s, x), o), ref)
             = IF e.ref = ref THEN Without(Cat(s, x), ref) ELSE Cat(Without(Cat(s, x), ref), o)
        /\ Only(Cat(Cat(s, x), o), ref)
             = IF e.ref = ref THEN Cat(Only(Cat(s, x), ref), o) ELSE Only(Cat(s, x), ref)
    BY <2>1, WithoutOne
  <2>6. /\ Without(Cat(s, x), ref) = Cat(Without(s, ref), Without(x, ref))
        /\ Only(Cat(s, x), ref) = Cat(Only(s, ref), Only(x, ref))
    BY <1>2
  <2> HIDE DEF o
  <2>7. /\ Cat(Cat(Without(s, ref), Without(x, ref)), o) = Cat(Without(s, ref), Cat(Without(x, ref), o))
        /\ Cat(Cat(Only(s, ref), Only(x, ref)), o) = Cat(Only(s, ref), Cat(Only(x, ref), o))
    BY <2>1, <2>3, CatCat
  <2>8. Right(Cat(x, o))
    BY <2>2, <2>4, <2>5, <2>6, <2>7
  <2> QED BY <2>1, <2>8 DEF o
<1>3. t \in Good
  <2> HIDE DEF Good
  <2> QED BY <1>1, <1>2, LogInduction
<1> QED BY <1>3

---------------------------------------------------------------------------
(* Turning a ledger round                                                  *)

(* A ledger turned round is a ledger.                                      *)
LEMMA ReverseLog ==
  ASSUME NEW s \in Log
  PROVE  /\ Reverse(s) \in Log /\ Len(Reverse(s)) = Len(s) /\ (Reverse(s) = <<>> <=> s = <<>>)
         /\ \A i \in 1 .. Len(s) : Reverse(s)[i] = s[Len(s) - i + 1]
<1> DEFINE M == Movement
<1>0. s \in Seq(M)
  BY DEF Log
<1> HIDE DEF M
<1>1. Len(s) \in Nat
  BY <1>0
<1>2. \A i \in 1 .. Len(s) : s[Len(s) - i + 1] \in M
  <2> SUFFICES ASSUME NEW i \in 1 .. Len(s) PROVE s[Len(s) - i + 1] \in M
    OBVIOUS
  <2>1. Len(s) - i + 1 \in 1 .. Len(s)
    BY <1>1
  <2> QED BY <1>0, <2>1
<1>3. Reverse(s) \in [1 .. Len(s) -> M]
  BY <1>2 DEF Reverse
<1>4. Reverse(s) \in Seq(M) /\ Len(Reverse(s)) = Len(s)
  BY <1>1, <1>3
<1>5. \A i \in 1 .. Len(s) : Reverse(s)[i] = s[Len(s) - i + 1]
  BY DEF Reverse
<1>6. Reverse(s) = <<>> <=> s = <<>>
  BY <1>0, <1>4
<1> QED BY <1>4, <1>5, <1>6 DEF Log, M

(* Turned round, the newer part comes first.                               *)
LEMMA ReverseCat ==
  ASSUME NEW s \in Log, NEW t \in Log
  PROVE  Reverse(Cat(s, t)) = Cat(Reverse(t), Reverse(s))
<1> DEFINE m == Len(s)
           n == Len(t)
           p == Reverse(s)
           q == Reverse(t)
           u == Cat(s, t)
           a == Reverse(u)
           b == Cat(q, p)
<1>1. m \in Nat /\ n \in Nat
  BY CatLog
<1>2. u \in Log /\ Len(u) = m + n
  BY CatLog
<1>3. \A i \in 1 .. m + n : u[i] = IF i <= m THEN s[i] ELSE t[i - m]
  BY CatPlaces
<1>4. /\ p \in Log /\ Len(p) = m /\ \A i \in 1 .. m : p[i] = s[m - i + 1]
      /\ q \in Log /\ Len(q) = n /\ \A i \in 1 .. n : q[i] = t[n - i + 1]
  BY ReverseLog
<1> HIDE DEF m, n, p, q, u
<1>5. a \in Log /\ Len(a) = m + n
  BY <1>2, ReverseLog
<1>6. \A i \in 1 .. m + n : a[i] = u[m + n - i + 1]
  <2>1. \A i \in 1 .. Len(u) : Reverse(u)[i] = u[Len(u) - i + 1]
    BY <1>2, ReverseLog
  <2>2. Len(u) = m + n
    BY <1>2
  <2> HIDE DEF a
  <2>3. \A i \in 1 .. m + n : Reverse(u)[i] = u[m + n - i + 1]
    BY <1>1, <2>1, <2>2
  <2> QED BY <2>3 DEF a
<1>7. b \in Log /\ Len(b) = n + m
  <2>1. Len(Cat(q, p)) = Len(q) + Len(p) /\ Cat(q, p) \in Log
    BY <1>4, CatLog
  <2> QED BY <1>4, <2>1
<1>8. \A i \in 1 .. n + m : b[i] = IF i <= n THEN q[i] ELSE p[i - n]
  <2>1. \A i \in 1 .. Len(q) + Len(p) : Cat(q, p)[i] = IF i <= Len(q) THEN q[i] ELSE p[i - Len(q)]
    BY <1>4, CatPlaces
  <2> QED BY <1>4, <2>1
<1> HIDE DEF a, b
<1>9. \A i \in 1 .. m + n : a[i] = b[i]
  <2> SUFFICES ASSUME NEW i \in 1 .. m + n PROVE a[i] = b[i]
    OBVIOUS
  <2> DEFINE j == m + n - i + 1
  <2>1. j \in 1 .. m + n /\ i \in 1 .. n + m
    BY <1>1
  <2>2. a[i] = u[j]
    BY <1>6
  <2>3. u[j] = IF j <= m THEN s[j] ELSE t[j - m]
    BY <1>3, <2>1
  <2>4. b[i] = IF i <= n THEN q[i] ELSE p[i - n]
    BY <1>8, <2>1
  <2>5. CASE i <= n
    <3>1. i \in 1 .. n /\ ~(j <= m) /\ j - m = n - i + 1
      BY <1>1, <2>5
    <3>2. q[i] = t[n - i + 1]
      BY <1>4, <3>1
    <3> HIDE DEF j
    <3> QED BY <2>2, <2>3, <2>4, <2>5, <3>1, <3>2
  <2>6. CASE ~(i <= n)
    <3>1. i - n \in 1 .. m /\ j <= m /\ j = m - (i - n) + 1
      BY <1>1, <2>6
    <3>2. p[i - n] = s[m - (i - n) + 1]
      BY <1>4, <3>1
    <3> HIDE DEF j
    <3> QED BY <2>2, <2>3, <2>4, <2>6, <3>1, <3>2
  <2> QED BY <2>5, <2>6
<1>10. a = b
  <2> DEFINE M == Movement
  <2>1. a \in Seq(M) /\ b \in Seq(M)
    BY <1>5, <1>7 DEF Log
  <2> HIDE DEF M
  <2> QED BY <1>1, <1>5, <1>7, <1>9, <2>1
<1> QED BY <1>10 DEF a, b, p, q, u

(* Taking a document out and turning a ledger round go together.           *)
LEMMA WithoutReverse ==
  ASSUME NEW s \in Log, NEW ref
  PROVE  Without(Reverse(s), ref) = Reverse(Without(s, ref))
<1> DEFINE Right(x) == Without(Reverse(x), ref) = Reverse(Without(x, ref))
           Good == {x \in Log : Right(x)}
<1>0. Reverse(<<>>) = <<>> /\ <<>> \in Log
  BY DEF Reverse, Log
<1>1. <<>> \in Good
  BY <1>0, WithoutNothing
<1>2. ASSUME NEW x \in Log, NEW e \in Movement, x \in Good PROVE Cat(x, <<e>>) \in Good
  <2> DEFINE o == <<e>>
             w == Without(x, ref)
  <2>1. o \in Log /\ Reverse(x) \in Log /\ w \in Log /\ Cat(x, o) \in Log
    BY CatOne, CatLog, ReverseLog, WithoutLog
  <2>2. Reverse(o) = o
    BY DEF Reverse
  <2>3. Without(o, ref) = IF e.ref = ref THEN <<>> ELSE o
    <3>1. Without(Cat(<<>>, o), ref)
            = IF e.ref = ref THEN Without(<<>>, ref) ELSE Cat(Without(<<>>, ref), o)
      BY <1>0, WithoutOne
    <3>2. Cat(<<>>, o) = o
      BY <1>0, <2>1, CatLog
    <3> QED BY <3>1, <3>2, WithoutNothing
  <2>4. Right(x)
    BY <1>2
  <2> HIDE DEF o
  <2>5. Reverse(Cat(x, o)) = Cat(o, Reverse(x))
    BY <2>1, <2>2, ReverseCat
  <2>6. Without(Cat(o, Reverse(x)), ref) = Cat(Without(o, ref), Without(Reverse(x), ref))
    BY <2>1, WithoutCat
  <2>7. Without(Cat(x, o), ref) = Cat(w, Without(o, ref))
    BY <2>1, WithoutCat
  <2>9. Reverse(w) \in Log
    BY <2>1, ReverseLog
  <2>10. Cat(<<>>, Reverse(w)) = Reverse(w) /\ Cat(w, <<>>) = w
    BY <2>1, <2>9, CatLog
  <2>11. Reverse(Cat(w, o)) = Cat(o, Reverse(w))
    BY <2>1, <2>2, ReverseCat
  <2>12. Right(Cat(x, o))
    BY <2>3, <2>4, <2>5, <2>6, <2>7, <2>10, <2>11
  <2> QED BY <2>1, <2>12 DEF o
<1>3. s \in Good
  <2> HIDE DEF Good
  <2> QED BY <1>1, <1>2, LogInduction
<1> QED BY <1>3

---------------------------------------------------------------------------
(* The order of a ledger                                                   *)

(* Strictly by date and number; no number twice.                           *)
Sorted(l) == \A i, j \in 1 .. Len(l) : i < j => Older(l[i], l[j])
Apart(l) == \A i, j \in 1 .. Len(l) : i # j => l[i].id # l[j].id

(* The parts of a movement.                                                *)
LEMMA LogItem ==
  ASSUME NEW l \in Log, NEW i \in 1 .. Len(l)
  PROVE  l[i] \in Movement /\ l[i].id \in Nat /\ l[i].ref \in References /\ l[i].date \in Int
<1> DEFINE M == Movement
<1>1. l \in Seq(M)
  BY DEF Log
<1> HIDE DEF M
<1>2. l[i] \in M
  BY <1>1
<1> QED BY <1>2 DEF M, Movement

(* A ledger sorted by date and number has no movement behind a later one.  *)
LEMMA SortedInOrder ==
  ASSUME NEW l \in Log, NEW late, Sorted(l)
  PROVE  InOrder(l, late)
<1> SUFFICES ASSUME NEW j \in 1 .. Len(l), NEW k \in 1 .. Len(l), j < k, l[k].date < l[j].date
             PROVE  FALSE
  BY DEF InOrder
<1>1. l[j].date \in Int /\ l[k].date \in Int
  BY LogItem
<1>2. l[j].date < l[k].date \/ l[j].date = l[k].date
  BY DEF Sorted, Older
<1> QED BY <1>1, <1>2

(* Knowing of more late movements does no harm.                            *)
LEMMA InOrderMore ==
  ASSUME NEW l, NEW late, NEW more, InOrder(l, late), late \subseteq more
  PROVE  InOrder(l, more)
BY Zenon DEF InOrder

(* No movement is out of order in an empty ledger.                         *)
LEMMA InOrderNothing == \A late : InOrder(<<>>, late)
BY DEF InOrder

(* A ledger follows another in order once those of its movements that are  *)
(* dated before one of the other are known to be late.                     *)
LEMMA InOrderCat ==
  ASSUME NEW l \in Log, NEW t \in Log, NEW late, InOrder(l, late), InOrder(t, late),
         Late(t, l) \subseteq late
  PROVE  InOrder(Cat(l, t), late)
<1> DEFINE c == Cat(l, t)
<1>1. Len(l) \in Nat /\ Len(t) \in Nat /\ Len(c) = Len(l) + Len(t)
  BY CatLog
<1>2. \A i \in 1 .. Len(l) + Len(t) : c[i] = IF i <= Len(l) THEN l[i] ELSE t[i - Len(l)]
  BY CatPlaces
<1>0. DOMAIN l = 1 .. Len(l) /\ DOMAIN t = 1 .. Len(t)
  <2> DEFINE M == Movement
  <2>1. l \in Seq(M) /\ t \in Seq(M)
    BY DEF Log
  <2> HIDE DEF M
  <2> QED BY <2>1
<1> HIDE DEF c
<1> SUFFICES ASSUME NEW i \in 1 .. Len(l) + Len(t), NEW j \in 1 .. Len(l) + Len(t), i < j,
                    c[j].date < c[i].date
             PROVE  c[j].id \in late
  <2>1. \A i, j \in 1 .. Len(c) : i < j /\ c[j].date < c[i].date => c[j].id \in late
    BY <1>1
  <2> QED BY <2>1 DEF InOrder, c
<1>3. CASE j <= Len(l)
  <2>1. i \in 1 .. Len(l) /\ j \in 1 .. Len(l) /\ i <= Len(l)
    BY <1>1, <1>3
  <2>2. c[i] = l[i] /\ c[j] = l[j]
    BY <1>2, <1>3, <2>1
  <2>3. l[j].id \in late
    BY <2>1, <2>2, Zenon DEF InOrder
  <2> QED BY <2>2, <2>3
<1>4. CASE ~(j <= Len(l)) /\ i <= Len(l)
  <2> DEFINE q == j - Len(l)
  <2>1. i \in 1 .. Len(l) /\ q \in 1 .. Len(t)
    BY <1>1, <1>4
  <2>2. c[i] = l[i] /\ c[j] = t[q]
    BY <1>2, <1>4
  <2> HIDE DEF q
  <2>3. t[q].date < l[i].date
    BY <2>2
  <2>4. t[q].id \in Late(t, l)
    BY <1>0, <2>1, <2>3, Zenon DEF Late
  <2> QED BY <2>2, <2>4
<1>5. CASE ~(i <= Len(l))
  <2> DEFINE p == i - Len(l)
             q == j - Len(l)
  <2>1. p \in 1 .. Len(t) /\ q \in 1 .. Len(t) /\ p < q /\ ~(j <= Len(l))
    BY <1>1, <1>5
  <2>2. c[i] = t[p] /\ c[j] = t[q]
    BY <1>2, <1>5, <2>1
  <2> HIDE DEF p, q
  <2>3. t[q].id \in late
    BY <2>1, <2>2, Zenon DEF InOrder
  <2> QED BY <2>2, <2>3
<1> QED BY <1>3, <1>4, <1>5

(* Keeping some of the movements, each in its turn, keeps them in order.   *)
LEMMA PickedInOrder ==
  ASSUME NEW f, \A x \in Log : f[x] \in Log, f[<<>>] = <<>>, NEW late,
         \A x \in Log, e \in Movement :
           f[Cat(x, <<e>>)] = f[x] \/ f[Cat(x, <<e>>)] = Cat(f[x], <<e>>)
  PROVE  \A s \in Log : InOrder(s, late) => InOrder(f[s], late)
<1> DEFINE From(x) == \A i \in 1 .. Len(f[x]) : \E j \in 1 .. Len(x) : f[x][i] = x[j]
           Right(x) == From(x) /\ (InOrder(x, late) => InOrder(f[x], late))
           Good == {x \in Log : Right(x)}
<1>1. <<>> \in Good
  <2>1. <<>> \in Log
    BY DEF Log
  <2>2. From(<<>>)
    OBVIOUS
  <2> QED BY <2>1, <2>2, InOrderNothing
<1>2. ASSUME NEW x \in Log, NEW e \in Movement, x \in Good PROVE Cat(x, <<e>>) \in Good
  <2> DEFINE o == <<e>>
             w == f[x]
             y == Cat(x, o)
             z == f[y]
             n == Len(x)
  <2>1. o \in Log /\ w \in Log /\ y \in Log /\ z \in Log /\ o[1] = e /\ Len(o) = 1
    BY CatOne, CatLog
  <2>2. z = w \/ z = Cat(w, o)
    OBVIOUS
  <2>3. From(x) /\ (InOrder(x, late) => InOrder(w, late))
    BY <1>2
  <2>4. n \in Nat /\ Len(y) = n + 1 /\ Len(w) \in Nat /\ Len(Cat(w, o)) = Len(w) + 1
    BY <2>1, CatLog
  <2>5. \A i \in 1 .. n + 1 : y[i] = IF i <= n THEN x[i] ELSE o[i - n]
    BY <2>1, CatPlaces
  <2>6. \A i \in 1 .. Len(w) + 1 : Cat(w, o)[i] = IF i <= Len(w) THEN w[i] ELSE o[i - Len(w)]
    BY <2>1, CatPlaces
  <2>7. \A i \in 1 .. Len(w) : \E j \in 1 .. n : w[i] = x[j]
    BY <2>3
  <2>10. (\A i \in 1 .. Len(z) : \E j \in 1 .. Len(y) : z[i] = y[j]) => From(y)
    OBVIOUS
  <2>11. Right(y) => y \in Good
    BY <2>1
  <2> HIDE DEF From, Right, Good, o, w, y, z, n
  <2>8. y[n + 1] = e /\ \A i \in 1 .. n : y[i] = x[i]
    <3>1. n + 1 \in 1 .. n + 1 /\ ~(n + 1 <= n) /\ (n + 1) - n = 1
      BY <2>4
    <3>2. y[n + 1] = e
      BY <2>1, <2>5, <3>1
    <3>3. \A i \in 1 .. n : y[i] = x[i]
      BY <2>4, <2>5
    <3> QED BY <3>2, <3>3
  <2>9. \A i \in 1 .. Len(z) : \E j \in 1 .. Len(y) : z[i] = y[j]
    <3> SUFFICES ASSUME NEW i \in 1 .. Len(z) PROVE \E j \in 1 .. Len(y) : z[i] = y[j]
      OBVIOUS
    <3>1. \A k \in 1 .. Len(w) : \E j \in 1 .. Len(y) : w[k] = y[j]
      <4> SUFFICES ASSUME NEW k \in 1 .. Len(w) PROVE \E j \in 1 .. Len(y) : w[k] = y[j]
        OBVIOUS
      <4>1. PICK j \in 1 .. n : w[k] = x[j]
        BY <2>7
      <4>2. j \in 1 .. Len(y) /\ y[j] = x[j]
        BY <2>4, <2>8
      <4> QED BY <4>1, <4>2
    <3>2. CASE z = w
      BY <3>1, <3>2
    <3>3. CASE z = Cat(w, o)
      <4>1. i \in 1 .. Len(w) + 1
        BY <2>4, <3>3
      <4>2. CASE i <= Len(w)
        <5>1. i \in 1 .. Len(w) /\ z[i] = w[i]
          BY <2>4, <2>6, <3>3, <4>1, <4>2
        <5> QED BY <3>1, <5>1
      <4>3. CASE ~(i <= Len(w))
        <5>1. i - Len(w) = 1
          BY <2>4, <4>1, <4>3
        <5>2. z[i] = o[1]
          BY <2>6, <3>3, <4>1, <4>3, <5>1
        <5>3. n + 1 \in 1 .. Len(y)
          BY <2>4
        <5> QED BY <2>1, <2>8, <5>2, <5>3
      <4> QED BY <4>2, <4>3
    <3> QED BY <2>2, <3>2, <3>3
  <2>12. ASSUME InOrder(y, late) PROVE InOrder(z, late)
    <3>1. InOrder(x, late)
      <4> SUFFICES ASSUME NEW j \in 1 .. n, NEW k \in 1 .. n, j < k, x[k].date < x[j].date
                   PROVE  x[k].id \in late
        BY DEF InOrder, n
      <4>1. j \in 1 .. Len(y) /\ k \in 1 .. Len(y)
        BY <2>4
      <4>2. y[j] = x[j] /\ y[k] = x[k]
        BY <2>8
      <4>3. y[k].id \in late
        BY <2>12, <4>1, <4>2, Zenon DEF InOrder
      <4> QED BY <4>2, <4>3
    <3>2. InOrder(w, late)
      BY <2>3, <3>1
    <3>3. InOrder(o, late)
      BY <2>1 DEF InOrder
    <3>4. Late(o, w) \subseteq late
      <4>1. DOMAIN o = 1 .. 1 /\ DOMAIN w = 1 .. Len(w)
        <5> DEFINE M == Movement
        <5>1. o \in Seq(M) /\ w \in Seq(M)
          BY <2>1 DEF Log
        <5> HIDE DEF M
        <5> QED BY <2>1, <5>1
      <4> SUFFICES ASSUME NEW k \in 1 .. Len(w), e.date < w[k].date PROVE e.id \in late
        <5>1. \A i \in 1 .. 1 : i = 1
          OBVIOUS
        <5>2. \A i \in 1 .. 1 : o[i] = e
          BY <2>1, <5>1
        <5> QED BY <4>1, <5>2, Zenon DEF Late
      <4>2. PICK j \in 1 .. n : w[k] = x[j]
        BY <2>7
      <4>3. j \in 1 .. Len(y) /\ n + 1 \in 1 .. Len(y) /\ j < n + 1
        BY <2>4
      <4>4. y[j] = w[k] /\ y[n + 1] = e
        BY <2>8, <4>2
      <4>5. y[n + 1].date < y[j].date
        BY <4>4
      <4>6. y[n + 1].id \in late
        BY <2>12, <4>3, <4>5, Zenon DEF InOrder
      <4> QED BY <4>4, <4>6
    <3>5. InOrder(Cat(w, o), late)
      BY <2>1, <3>2, <3>3, <3>4, InOrderCat
    <3> QED BY <2>2, <3>2, <3>5
  <2>13. Right(y)
    BY <2>9, <2>10, <2>12 DEF Right, z
  <2> QED BY <2>11, <2>13 DEF y, o
<1>3. \A s \in Log : s \in Good
  <2> HIDE DEF Good
  <2> QED BY <1>1, <1>2, LogInduction
<1> QED BY <1>3

(* Taking a document out keeps the others in order, and what is taken out  *)
(* too.                                                                    *)
LEMMA WithoutInOrder ==
  ASSUME NEW s \in Log, NEW ref, NEW late, InOrder(s, late)
  PROVE  InOrder(Without(s, ref), late) /\ InOrder(Only(s, ref), late)
<1> DEFINE L == Log
           f == [x \in L |-> Without(x, ref)]
           g == [x \in L |-> Only(x, ref)]
<1>1. <<>> \in Log
  BY DEF Log
<1>2. \A x \in Log, e \in Movement : Cat(x, <<e>>) \in Log
  BY CatOne, CatLog
<1>3. \A x \in Log : f[x] = Without(x, ref) /\ g[x] = Only(x, ref)
  OBVIOUS
<1> HIDE DEF f, g
<1>4. /\ \A x \in Log : f[x] \in Log /\ g[x] \in Log
      /\ f[<<>>] = <<>> /\ g[<<>>] = <<>>
  BY <1>1, <1>3, WithoutLog, WithoutNothing, OnlyNothing
<1>5. \A x \in Log, e \in Movement :
        /\ f[Cat(x, <<e>>)] = f[x] \/ f[Cat(x, <<e>>)] = Cat(f[x], <<e>>)
        /\ g[Cat(x, <<e>>)] = g[x] \/ g[Cat(x, <<e>>)] = Cat(g[x], <<e>>)
  <2> SUFFICES ASSUME NEW x \in Log, NEW e \in Movement
               PROVE  /\ f[Cat(x, <<e>>)] = f[x] \/ f[Cat(x, <<e>>)] = Cat(f[x], <<e>>)
                      /\ g[Cat(x, <<e>>)] = g[x] \/ g[Cat(x, <<e>>)] = Cat(g[x], <<e>>)
    OBVIOUS
  <2>1. /\ f[Cat(x, <<e>>)] = Without(Cat(x, <<e>>), ref) /\ f[x] = Without(x, ref)
        /\ g[Cat(x, <<e>>)] = Only(Cat(x, <<e>>), ref) /\ g[x] = Only(x, ref)
    BY <1>2, <1>3
  <2> QED BY <2>1, WithoutOne
<1>6. InOrder(f[s], late)
  BY <1>4, <1>5, PickedInOrder
<1>7. InOrder(g[s], late)
  BY <1>4, <1>5, PickedInOrder
<1> QED BY <1>3, <1>6, <1>7

---------------------------------------------------------------------------
(* Sorting                                                                 *)

(* What the migration's sort makes of a ledger that has each number once:  *)
(* the same movements, by date and, on one date, by number.                *)
LEMMA SortedLog ==
  ASSUME NEW l \in Log, Apart(l)
  PROVE  /\ OldestFirstOrder(l) \in Log /\ Len(OldestFirstOrder(l)) = Len(l)
         /\ Sorted(OldestFirstOrder(l))
         /\ ToSet(OldestFirstOrder(l)) = ToSet(l)
<1> DEFINE N == Len(l)
           M == ToSet(l)
           Elder(m) == {n \in M : Older(n, m)}
           rank == [m \in M |-> Cardinality(Elder(m))]
           o == [i \in 1 .. N |-> CHOOSE m \in M : Cardinality(Elder(m)) = i - 1]
<1>0. OldestFirstOrder(l) = o
  BY DEF OldestFirstOrder
<1>1. N \in Nat /\ DOMAIN l = 1 .. N
  <2> DEFINE T == Movement
  <2>1. l \in Seq(T)
    BY DEF Log
  <2> HIDE DEF T
  <2> QED BY <2>1
<1>2. M = {l[i] : i \in 1 .. N}
  BY <1>1 DEF ToSet
<1>3. \A i \in 1 .. N : l[i] \in Movement /\ l[i].id \in Nat /\ l[i].date \in Int
  BY LogItem
<1>4. \A m \in M : m \in Movement /\ m.id \in Nat /\ m.date \in Int
  BY <1>2, <1>3
<1>5. \A m, n \in M : m.id = n.id => m = n
  BY <1>2 DEF Apart
<1>6. IsFiniteSet(M) /\ Cardinality(M) = N
  <2> DEFINE D == 1 .. N
             f == [i \in D |-> l[i]]
  <2>1. IsFiniteSet(D) /\ Cardinality(D) = N
    <3>1. 1 \in Int /\ N \in Int
      BY <1>1
    <3> HIDE DEF N
    <3>2. IsFiniteSet(1 .. N) /\ Cardinality(1 .. N) = IF 1 > N THEN 0 ELSE N - 1 + 1
      BY <3>1, FS_Interval
    <3> QED BY <1>1, <3>2
  <2>2. f \in Bijection(D, M)
    <3>1. \A i, j \in D : l[i] = l[j] => i = j
      BY DEF Apart
    <3>2. f \in [D -> M] /\ \A m \in M : \E i \in D : f[i] = m
      BY <1>2
    <3>3. \A i, j \in D : f[i] = f[j] => i = j
      BY <3>1
    <3> HIDE DEF f, D, M, N
    <3> QED BY <3>2, <3>3 DEF Bijection, Injection, Surjection, IsInjective
  <2>3. ExistsBijection(D, M)
    BY <2>2 DEF ExistsBijection
  <2> HIDE DEF D, M, f, N
  <2> QED BY <2>1, <2>3, FS_Bijection
<1>17. \A m, n \in M : m = n \/ Older(m, n) \/ Older(n, m)
  <2> SUFFICES ASSUME NEW m \in M, NEW n \in M, m # n PROVE Older(m, n) \/ Older(n, m)
    OBVIOUS
  <2>1. m.id # n.id
    BY <1>5
  <2>2. m.id \in Nat /\ n.id \in Nat /\ m.date \in Int /\ n.date \in Int
    BY <1>4
  <2> QED BY <2>1, <2>2 DEF Older
<1>18. \A m, n, x \in M : Older(x, m) /\ Older(m, n) => Older(x, n)
  <2> SUFFICES ASSUME NEW m \in M, NEW n \in M, NEW x \in M, Older(x, m), Older(m, n)
               PROVE  Older(x, n)
    OBVIOUS
  <2>1. /\ m.id \in Nat /\ n.id \in Nat /\ x.id \in Nat
        /\ m.date \in Int /\ n.date \in Int /\ x.date \in Int
    BY <1>4
  <2> QED BY <2>1 DEF Older
<1> HIDE DEF M, N
<1>7. \A m \in M : IsFiniteSet(Elder(m)) /\ Cardinality(Elder(m)) \in 0 .. N - 1
  <2> SUFFICES ASSUME NEW m \in M PROVE IsFiniteSet(Elder(m)) /\ Cardinality(Elder(m)) \in 0 .. N - 1
    OBVIOUS
  <2> DEFINE E == Elder(m)
             R == M \ {m}
  <2>1. IsFiniteSet(R) /\ Cardinality(R) = N - 1
    BY <1>6, FS_RemoveElement
  <2>2. E \in SUBSET R
    <3>1. ~Older(m, m)
      BY <1>4 DEF Older
    <3> QED BY <3>1
  <2> HIDE DEF E, R
  <2>3. IsFiniteSet(E) /\ Cardinality(E) <= N - 1
    <3>1. IsFiniteSet(E) /\ Cardinality(E) <= Cardinality(R)
      BY <2>1, <2>2, FS_Subset
    <3> QED BY <2>1, <3>1
  <2>4. Cardinality(E) \in Nat
    BY <2>3, FS_CardinalityType
  <2> QED BY <1>1, <2>3, <2>4 DEF E
<1>8. \A m, n \in M : Older(m, n) => Cardinality(Elder(m)) < Cardinality(Elder(n))
  <2> SUFFICES ASSUME NEW m \in M, NEW n \in M, Older(m, n)
               PROVE  Cardinality(Elder(m)) < Cardinality(Elder(n))
    OBVIOUS
  <2> DEFINE E == Elder(m)
             F == Elder(n)
             G == E \cup {m}
  <2>1. IsFiniteSet(E) /\ IsFiniteSet(F) /\ Cardinality(E) \in Nat /\ Cardinality(F) \in Nat
    BY <1>1, <1>7
  <2>2. m \notin E
    BY <1>4 DEF Older
  <2>3. G \in SUBSET F
    <3> SUFFICES ASSUME NEW x \in G PROVE x \in F
      OBVIOUS
    <3>1. CASE x = m
      BY <3>1
    <3>2. CASE x \in E
      <4>1. x \in M /\ Older(x, m)
        BY <3>2
      <4>2. Older(x, n)
        BY <1>18, <4>1
      <4> QED BY <4>1, <4>2
    <3> QED BY <3>1, <3>2
  <2> HIDE DEF E, F
  <2>4. IsFiniteSet(G) /\ Cardinality(G) = Cardinality(E) + 1
    BY <2>1, <2>2, FS_AddElement
  <2> HIDE DEF G
  <2>5. Cardinality(G) <= Cardinality(F)
    BY <2>1, <2>3, FS_Subset
  <2>6. Cardinality(E) < Cardinality(F)
    BY <2>1, <2>4, <2>5
  <2> QED BY <2>6 DEF E, F
<1>9. \A m, n \in M : Cardinality(Elder(m)) = Cardinality(Elder(n)) => m = n
  <2> SUFFICES ASSUME NEW m \in M, NEW n \in M, Cardinality(Elder(m)) = Cardinality(Elder(n))
               PROVE  m = n
    OBVIOUS
  <2> DEFINE a == Cardinality(Elder(m))
             b == Cardinality(Elder(n))
  <2>1. a = b
    OBVIOUS
  <2>4. a \in 0 .. N - 1
    BY <1>7
  <2>2. (Older(m, n) => a < b) /\ (Older(n, m) => b < a)
    BY <1>8
  <2> HIDE DEF a, b
  <2>3. ~(a < b) /\ ~(b < a)
    BY <1>1, <2>1, <2>4
  <2> QED BY <1>17, <2>2, <2>3
<1>10. \A r \in 0 .. N - 1 : \E m \in M : Cardinality(Elder(m)) = r
  <2> DEFINE T == 0 .. N - 1
             rk == rank
  <2>1. IsFiniteSet(T) /\ Cardinality(T) = N
    <3>1. 0 \in Int /\ N - 1 \in Int
      BY <1>1
    <3>2. IsFiniteSet(T) /\ Cardinality(T) = IF 0 > N - 1 THEN 0 ELSE (N - 1) - 0 + 1
      BY <3>1, FS_Interval
    <3> QED BY <1>1, <3>2
  <2>2. rk \in [M -> T]
    BY <1>7
  <2>3. \A m, n \in M : rk[m] = rk[n] => m = n
    BY <1>9
  <2>4. \A m \in M : rk[m] = Cardinality(Elder(m))
    OBVIOUS
  <2> HIDE DEF rank, rk, T
  <2>5. rk \in Injection(M, T)
    BY <2>2, <2>3 DEF Injection, IsInjective
  <2>6. rk \in Surjection(M, T)
    <3>1. Cardinality(M) = Cardinality(T)
      BY <1>6, <2>1
    <3> QED BY <2>1, <2>5, <3>1, FS_Injection
  <2>7. \A r \in T : \E m \in M : rk[m] = r
    BY <2>6 DEF Surjection
  <2> QED BY <2>4, <2>7 DEF T
<1>11. \A i \in 1 .. N : o[i] \in M /\ Cardinality(Elder(o[i])) = i - 1
  <2> SUFFICES ASSUME NEW i \in 1 .. N PROVE o[i] \in M /\ Cardinality(Elder(o[i])) = i - 1
    OBVIOUS
  <2> DEFINE P(m) == Cardinality(Elder(m)) = i - 1
  <2>1. i - 1 \in 0 .. N - 1
    BY <1>1
  <2>2. \E m \in M : P(m)
    BY <1>10, <2>1
  <2>3. o[i] = CHOOSE m \in M : P(m)
    OBVIOUS
  <2> HIDE DEF P, o
  <2>4. o[i] \in M /\ P(o[i])
    BY <2>2, <2>3
  <2> QED BY <2>4 DEF P
<1>12. \A i, j \in 1 .. N : i < j => Older(o[i], o[j])
  <2> SUFFICES ASSUME NEW i \in 1 .. N, NEW j \in 1 .. N, i < j PROVE Older(o[i], o[j])
    OBVIOUS
  <2> HIDE DEF o
  <2> DEFINE a == Cardinality(Elder(o[i]))
             b == Cardinality(Elder(o[j]))
  <2>1. o[i] \in M /\ o[j] \in M /\ a = i - 1 /\ b = j - 1
    BY <1>11
  <2>2. Older(o[j], o[i]) => b < a
    BY <1>8, <2>1
  <2>3. o[i] = o[j] => a = b
    OBVIOUS
  <2> HIDE DEF a, b
  <2>4. a # b /\ ~(b < a)
    BY <1>1, <2>1
  <2> QED BY <1>17, <2>1, <2>2, <2>3, <2>4
<1>13. \A m \in M : \E i \in 1 .. N : o[i] = m
  <2> SUFFICES ASSUME NEW m \in M PROVE \E i \in 1 .. N : o[i] = m
    OBVIOUS
  <2> DEFINE r == Cardinality(Elder(m))
  <2>1. r \in 0 .. N - 1
    BY <1>7
  <2>2. r + 1 \in 1 .. N /\ (r + 1) - 1 = r
    BY <1>1, <2>1
  <2> HIDE DEF o
  <2>3. o[r + 1] \in M /\ Cardinality(Elder(o[r + 1])) = r
    BY <1>11, <2>2
  <2>4. o[r + 1] = m
    BY <1>9, <2>3
  <2> QED BY <2>2, <2>4
<1>14. o \in Log /\ Len(o) = N /\ DOMAIN o = 1 .. N
  <2> DEFINE T == Movement
  <2>1. \A i \in 1 .. N : o[i] \in T
    BY <1>4, <1>11
  <2>2. DOMAIN o = 1 .. N /\ o = [i \in 1 .. N |-> o[i]]
    OBVIOUS
  <2> HIDE DEF o, T
  <2>3. o \in [1 .. N -> T]
    BY <2>1, <2>2
  <2>4. o \in Seq(T) /\ Len(o) = N
    BY <1>1, <2>3
  <2> QED BY <2>2, <2>4 DEF Log, T
<1> HIDE DEF o
<1>15. Sorted(o)
  BY <1>12, <1>14 DEF Sorted
<1>16. ToSet(o) = M
  BY <1>11, <1>13, <1>14 DEF ToSet
<1> QED BY <1>0, <1>14, <1>15, <1>16 DEF M, N

(* A sequence of anything. *)
IsSeq(s) == s \in Seq({s[i] : i \in DOMAIN s})

(* An image that carries the order marker. *)
Marked(rows) == Row(rows, OrderKey) = OldestFirst

(* A session is ready only over a marked ledger; only the launch image may *)
(* be unmarked; a reply on its way is what the database will hold.         *)
Readiness ==
  /\ session = "ready" => Marked(Settled)
  /\ ~Marked(Settled) => Len(images) = 1
  /\ fetch # Nil => Marked(Settled) /\ fetch = Settled

(* The strengthening of CacheCoherent that every step preserves. *)
IInv == IsSeq(images) /\ TypeOK /\ Readiness /\ CacheCoherent

---------------------------------------------------------------------------
(* Sequences and overlaid rows                                             *)

(* A sequence over some set is a sequence over its own elements.           *)
LEMMA SeqIsSeq ==
  ASSUME NEW T, NEW t \in Seq(T)
  PROVE  IsSeq(t)
<1> DEFINE R == {t[i] : i \in DOMAIN t}
<1>1. /\ Len(t) \in Nat
      /\ t \in [1 .. Len(t) -> T] /\ DOMAIN t = 1 .. Len(t)
  BY LenProperties
<1>2. t \in [1 .. Len(t) -> R]
  BY <1>1
<1>3. t \in Seq(R)
  BY <1>1, <1>2, SeqDef
<1> QED
  BY <1>3 DEF IsSeq

(* A batch put on its way is the last image.                               *)
LEMMA AppendLast ==
  ASSUME NEW s, IsSeq(s), NEW x
  PROVE  /\ IsSeq(Append(s, x)) /\ Append(s, x) # <<>>
         /\ Len(Append(s, x)) = Len(s) + 1
         /\ Last(Append(s, x)) = x
<1> DEFINE S == {s[i] : i \in DOMAIN s} \cup {x}
<1>1. s \in Seq(S)
  BY DEF IsSeq
<1>2. /\ Append(s, x) \in Seq(S) /\ Len(Append(s, x)) = Len(s) + 1
      /\ Append(s, x)[Len(s) + 1] = x
  BY <1>1
<1>3. IsSeq(Append(s, x))
  BY <1>2, SeqIsSeq
<1> QED
  BY <1>2, <1>3 DEF Last

(* A committed batch leaves the last image where it was.                   *)
LEMMA TailLast ==
  ASSUME NEW s, IsSeq(s), Len(s) > 1
  PROVE  /\ IsSeq(Tail(s)) /\ Tail(s) # <<>>
         /\ Len(Tail(s)) = Len(s) - 1
         /\ Last(Tail(s)) = Last(s)
<1> DEFINE S == {s[i] : i \in DOMAIN s}
<1>1. s \in Seq(S)
  BY DEF IsSeq
<1>2. /\ Tail(s) \in Seq(S) /\ Len(Tail(s)) = Len(s) - 1
      /\ \A i \in 1 .. Len(s) - 1 : Tail(s)[i] = s[i + 1]
  BY <1>1
<1>3. IsSeq(Tail(s))
  BY <1>2, SeqIsSeq
<1> QED
  BY <1>1, <1>2, <1>3 DEF Last

(* A settled disk holds one image, its last.                               *)
LEMMA OneImage ==
  ASSUME NEW x
  PROVE  IsSeq(<<x>>) /\ <<x>> # <<>> /\ Len(<<x>>) = 1 /\ Last(<<x>>) = x
BY DEF IsSeq, Last

(* Written rows (writeRows) add keys and take none away.                   *)
LEMMA OverlayDomain ==
  ASSUME NEW a, NEW b
  PROVE  \A k : k \in DOMAIN (a ++ b) <=> k \in DOMAIN a \/ k \in DOMAIN b
BY DEF ++

(* A key that is written reads as what was written.                        *)
LEMMA OverlayNew ==
  ASSUME NEW a, NEW b, NEW k, k \in DOMAIN a
  PROVE  (a ++ b)[k] = a[k]
BY DEF ++

(* A key that is not written reads as before.                              *)
LEMMA OverlayOld ==
  ASSUME NEW a, NEW b, NEW k, k \notin DOMAIN a, k \in DOMAIN b
  PROVE  (a ++ b)[k] = b[k]
BY DEF ++

(* The order marker is a row of its own. *)
LEMMA OrderKeyApart ==
  /\ OrderKey # MetaKey /\ OrderKey # LegacyKey
  /\ \A i : OrderKey # ChunkKey(i)
BY DEF OrderKey, MetaKey, LegacyKey, ChunkKey

(* Nothing but the migration writes the order marker.                      *)
LEMMA MarkKept ==
  ASSUME NEW rows, NEW batch, Marked(rows), OrderKey \notin DOMAIN batch
  PROVE  Marked(batch ++ rows)
BY OverlayDomain, OverlayOld, NilAssumption DEF Marked, Row

(* The chunk rows of a batch do not touch the order marker.                *)
LEMMA ChunkRowsUnmarked ==
  ASSUME NEW s, NEW first
  PROVE  OrderKey \notin DOMAIN ChunkRows(s, first)
BY OrderKeyApart DEF ChunkRows

(* Nor do the blanked rows of a shrinking ledger.                          *)
LEMMA BlankRowsUnmarked ==
  ASSUME NEW from, NEW upTo
  PROVE  OrderKey \notin DOMAIN BlankRows(from, upTo)
BY OrderKeyApart DEF BlankRows

(* Nor does the row of the manifest or of the legacy array.                *)
LEMMA OneRowUnmarked ==
  ASSUME NEW v
  PROVE  OrderKey \notin DOMAIN OneRow(MetaKey, v) /\ OrderKey \notin DOMAIN OneRow(LegacyKey, v)
BY OrderKeyApart DEF OneRow

(* lsAppendRows sends no order marker.                                     *)
LEMMA AppendBatchUnmarked ==
  ASSUME NEW rows, NEW items
  PROVE  OrderKey \notin DOMAIN AppendBatch(rows, items)
<1> DEFINE meta == rows[MetaKey]
           room == meta.chunks > 0 /\ Len(rows[ChunkKey(meta.chunks - 1)]) < ChunkSize
           first == IF room THEN meta.chunks - 1 ELSE meta.chunks
           tail == IF room THEN rows[ChunkKey(meta.chunks - 1)] \o items ELSE items
           m == ManifestAfter(meta, first, tail, items)
<1>1. OrderKey \notin DOMAIN ChunkRows(tail, first)
  BY ChunkRowsUnmarked
<1>2. OrderKey \notin DOMAIN OneRow(MetaKey, m)
  BY OneRowUnmarked
<1>3. AppendBatch(rows, items) = ChunkRows(tail, first) ++ OneRow(MetaKey, m)
  BY DEF AppendBatch
<1> QED
  BY <1>1, <1>2, <1>3, OverlayDomain

(* lsRemoveRowsWhere sends no order marker.                                *)
LEMMA RemoveBatchUnmarked ==
  ASSUME NEW rows, NEW ref
  PROVE  OrderKey \notin DOMAIN RemoveBatch(rows, ref)
<1> DEFINE meta == rows[MetaKey]
           touched == {ChunkKey(i) : i \in
                         {j \in 0 .. meta.chunks - 1 : Only(rows[ChunkKey(j)], ref) # <<>>}}
           kept == [k \in touched |-> Without(rows[k], ref)]
           m == Manifest(meta.chunks, meta.total - Len(RemovedFrom(rows, ref)))
<1>1. OrderKey \notin DOMAIN kept
  BY OrderKeyApart
<1>2. OrderKey \notin DOMAIN OneRow(MetaKey, m)
  BY OneRowUnmarked
<1>3. RemoveBatch(rows, ref) = kept ++ OneRow(MetaKey, m)
  BY DEF RemoveBatch
<1> QED
  BY <1>1, <1>2, <1>3, OverlayDomain

(* A rewrite of the whole ledger (lsSet) sends no order marker.            *)
LEMMA SetBatchUnmarked ==
  ASSUME NEW rows, NEW value, NEW last, NEW count
  PROVE  OrderKey \notin DOMAIN SetBatch(rows, value, last, count)
<1> DEFINE chunks == ChunksFor(Len(value))
           first == ChunkRows(value, 0) ++ BlankRows(chunks, count)
           second == first ++ OneRow(MetaKey, Manifest(chunks, Len(value)))
           wanted == second ++ OneRow(LegacyKey, Tombstone)
<1>1. OrderKey \notin DOMAIN first
  BY ChunkRowsUnmarked, BlankRowsUnmarked, OverlayDomain
<1>2. OrderKey \notin DOMAIN second
  BY <1>1, OneRowUnmarked, OverlayDomain
<1>3. OrderKey \notin DOMAIN wanted
  BY <1>2, OneRowUnmarked, OverlayDomain
<1> QED
  BY <1>3 DEF SetBatch

(* The migration of the row order is what writes the marker.               *)
LEMMA MigrateBatchMarked ==
  ASSUME NEW rows, NEW count
  PROVE  /\ OrderKey \in DOMAIN MigrateBatch(rows, count)
         /\ MigrateBatch(rows, count)[OrderKey] = OldestFirst
<1> DEFINE existing == Existing(rows)
           sorted == IF existing = Nil THEN <<>> ELSE OldestFirstOrder(existing)
           chunks == ChunksFor(Len(sorted))
           blanks == IF existing = Nil THEN <<>> ELSE BlankRows(chunks, count)
           first == ChunkRows(sorted, 0) ++ blanks
           second == first ++ OneRow(MetaKey, Manifest(chunks, Len(sorted)))
           third == second ++ OneRow(LegacyKey, Tombstone)
           mark == OneRow(OrderKey, OldestFirst)
<1>1. OrderKey \notin DOMAIN blanks
  BY BlankRowsUnmarked, OrderKeyApart DEF OrderKey
<1>2. OrderKey \notin DOMAIN first
  BY <1>1, ChunkRowsUnmarked, OverlayDomain
<1>3. OrderKey \notin DOMAIN second
  BY <1>2, OneRowUnmarked, OverlayDomain
<1>4. OrderKey \notin DOMAIN third
  BY <1>3, OneRowUnmarked, OverlayDomain
<1>5. OrderKey \in DOMAIN mark /\ mark[OrderKey] = OldestFirst
  BY DEF OneRow
<1>6. MigrateBatch(rows, count) = third ++ mark
  BY DEF MigrateBatch
<1> HIDE DEF third, mark
<1> QED
  BY <1>4, <1>5, <1>6, OverlayDomain, OverlayOld

(* Putting one batch in the cache and sending it keeps the two coherent.   *)
Agree(c, rows) == \A k \in DOMAIN c : k \in DOMAIN rows /\ c[k] = rows[k]

(* A cache that agrees with the rows still does after both take a batch.   *)
LEMMA AgreeOver ==
  ASSUME NEW c, NEW rows, NEW batch, Agree(c, rows)
  PROVE  Agree(batch ++ c, batch ++ rows)
<1> SUFFICES ASSUME NEW k \in DOMAIN (batch ++ c)
             PROVE  /\ k \in DOMAIN (batch ++ rows)
                    /\ (batch ++ c)[k] = (batch ++ rows)[k]
  BY DEF Agree
<1>1. CASE k \in DOMAIN batch
  BY <1>1, OverlayDomain, OverlayNew
<1>2. CASE k \notin DOMAIN batch
  <2>1. k \in DOMAIN c /\ k \in DOMAIN rows /\ c[k] = rows[k]
    BY <1>2, OverlayDomain DEF Agree
  <2> QED
    BY <1>2, <2>1, OverlayDomain, OverlayOld
<1> QED
  BY <1>1, <1>2

---------------------------------------------------------------------------
(* The invariant is inductive: one lemma per group of actions              *)

(* The program starts with an empty cache and nobody signed in.            *)
LEMMA InitIInv == Init => IInv
<1> SUFFICES ASSUME Init PROVE IInv
  OBVIOUS
<1>1. PICK l \in StartLedgers :
        /\ images \in {<<rows>> : rows \in IF l = <<>> THEN {<<>>} ELSE StoredAs(l)}
        /\ nextId = Len(l)
  BY DEF Init
<1>2. PICK rows : images = <<rows>>
  BY <1>1
<1>3. IsSeq(images) /\ images # <<>> /\ Len(images) = 1
  BY <1>2, OneImage
<1>4. TypeOK
  <2>1. nextId \in 0 .. MaxMovements
    BY <1>1, BoundsAssumption
  <2>2. Len(images) <= MaxImages
    BY <1>3, BoundsAssumption
  <2> QED
    BY <1>3, <2>1, <2>2 DEF Init, TypeOK
<1>5. Readiness
  BY <1>3 DEF Init, Readiness
<1>6. CacheCoherent
  BY DEF Init, CacheCoherent
<1> QED
  BY <1>3, <1>4, <1>5, <1>6 DEF IInv

(* appendStockMovements sends a batch and caches the same rows.            *)
LEMMA AppendIInv ==
  ASSUME IInv, fetch = Nil, session = "ready", MaySend(1), NEW items, AppendMovements(items),
         UNCHANGED <<session, hydrated, fetch>>, nextId' \in 0 .. MaxMovements
  PROVE  IInv'
<1> DEFINE batch == AppendBatch(View, items)
<1> USE BoundsAssumption
<1>1. CASE CanAppend(View)
  <2>1. /\ cache' = batch ++ cache
        /\ images' = Append(images, batch ++ Settled)
        /\ Len(images) + 1 <= MaxImages
    BY <1>1 DEF AppendMovements, Sent, MaySend
  <2>2. /\ IsSeq(images') /\ images' # <<>> /\ Len(images') = Len(images) + 1
        /\ Settled' = batch ++ Settled
    BY <2>1, AppendLast DEF IInv, Settled
  <2>3. Marked(Settled')
    BY <2>2, MarkKept, AppendBatchUnmarked DEF IInv, Readiness
  <2>4. CacheCoherent'
    BY <2>1, <2>2, AgreeOver DEF IInv, CacheCoherent, Agree
  <2> QED
    BY <2>1, <2>2, <2>3, <2>4 DEF IInv, TypeOK, Readiness
<1>2. CASE ~CanAppend(View)
  BY <1>2 DEF AppendMovements, storeVars, IInv, TypeOK, Readiness, CacheCoherent, Settled
<1> QED
  BY <1>1, <1>2

(* Recording a document appends ...                                        *)
LEMMA RecordIInv ==
  ASSUME IInv, fetch = Nil, NEW ref, NEW n \in 1 .. MaxItems, NEW date, Record(ref, n, date)
  PROVE  IInv'
<1>1. nextId' \in 0 .. MaxMovements
  BY BoundsAssumption DEF Record, IInv, TypeOK
<1> QED BY <1>1, AppendIInv DEF Record

(* ... and so does bringing a deleted one back.                            *)
LEMMA RestoreIInv ==
  ASSUME IInv, fetch = Nil, NEW ref, Restore(ref)
  PROVE  IInv'
<1>1. nextId' \in 0 .. MaxMovements
  BY DEF Restore, IInv, TypeOK
<1> QED BY <1>1, AppendIInv DEF Restore

(* removeStockMovementsByReference keeps the invariant, as appending does. *)
LEMMA EraseIInv ==
  ASSUME IInv, fetch = Nil, NEW ref, Erase(ref)
  PROVE  IInv'
<1> DEFINE batch == RemoveBatch(View, ref)
<1>1. /\ session = "ready" /\ session' = "ready" /\ fetch' = Nil
      /\ hydrated' = hydrated /\ nextId' = nextId
  BY DEF Erase
<1>2. CASE cache' = batch ++ cache /\ images' = Sent(batch)
  <2>1. images' = Append(images, batch ++ Settled) /\ Len(images) + 1 <= MaxImages
    BY <1>2 DEF Erase, Sent, MaySend
  <2>2. /\ IsSeq(images') /\ images' # <<>> /\ Len(images') = Len(images) + 1
        /\ Settled' = batch ++ Settled
    BY <2>1, AppendLast DEF IInv, Settled
  <2>3. Marked(Settled')
    <3>1. OrderKey \notin DOMAIN batch
      BY RemoveBatchUnmarked
    <3> HIDE DEF batch
    <3> QED
      BY <1>1, <2>2, <3>1, MarkKept DEF IInv, Readiness
  <2>4. CacheCoherent'
    BY <1>2, <2>2, AgreeOver DEF IInv, CacheCoherent, Agree
  <2> QED
    BY <1>1, <2>1, <2>2, <2>3, <2>4 DEF IInv, TypeOK, Readiness
<1>3. CASE UNCHANGED <<cache, images>>
  BY <1>1, <1>3 DEF IInv, TypeOK, Readiness, CacheCoherent, Settled
<1> QED
  BY <1>2, <1>3 DEF Erase

(* An edit sends two batches, the second over the first.                   *)
LEMMA ReplaceIInv ==
  ASSUME IInv, fetch = Nil, NEW ref, NEW n \in 1 .. MaxItems, NEW date, Replace(ref, n, date)
  PROVE  IInv'
<1> DEFINE found    == RemovedFrom(View, ref) # <<>>
           removal  == IF found THEN RemoveBatch(View, ref) ELSE <<>>
           addition == AppendBatch(ViewAfter(removal), Recorded(ref, n, date))
           sent     == IF found THEN Sent(removal) ELSE images
<1> USE BoundsAssumption
<1>1. /\ session = "ready" /\ session' = "ready" /\ fetch' = Nil
      /\ hydrated' = hydrated /\ nextId' \in 0 .. MaxMovements
  BY DEF Replace, IInv, TypeOK
<1>2. CASE CanRemove(View)
  <2>1. /\ cache' = addition ++ removal ++ cache
        /\ images' = Append(sent, addition ++ removal ++ Settled)
        /\ Len(images) + 2 <= MaxImages
    BY <1>2 DEF Replace, MaySend
  <2>2. IsSeq(images) /\ Len(images) \in Nat
    BY DEF IInv, IsSeq
  <2>3. IsSeq(sent) /\ Len(sent) \in Nat /\ Len(sent) <= Len(images) + 1
    BY <2>2, AppendLast DEF Sent
  <2>4. OrderKey \notin DOMAIN removal
    <3>1. CASE found
      BY <3>1, RemoveBatchUnmarked
    <3>2. CASE ~found
      BY <3>2
    <3> QED
      BY <3>1, <3>2
  <2>5. OrderKey \notin DOMAIN addition
    BY AppendBatchUnmarked
  <2> HIDE DEF removal, addition, sent
  <2>6. OrderKey \notin DOMAIN (addition ++ removal)
    BY <2>4, <2>5, OverlayDomain
  <2>7. /\ IsSeq(images') /\ images' # <<>> /\ Len(images') <= Len(images) + 2
        /\ Settled' = addition ++ removal ++ Settled
    BY <2>1, <2>2, <2>3, AppendLast DEF Settled
  <2>8. Marked(Settled')
    BY <1>1, <2>7, <2>6, MarkKept DEF IInv, Readiness
  <2>9. CacheCoherent'
    BY <2>1, <2>7, AgreeOver DEF IInv, CacheCoherent, Agree
  <2> QED
    BY <1>1, <2>1, <2>2, <2>7, <2>8, <2>9 DEF IInv, TypeOK, Readiness
<1>3. CASE ~CanRemove(View)
  BY <1>1, <1>3 DEF Replace, storeVars, IInv, TypeOK, Readiness, CacheCoherent, Settled
<1> QED
  BY <1>2, <1>3

(* A sign-in refused over a ledger that cannot be sorted writes nothing.   *)
LEMMA RefusedIInv ==
  ASSUME IInv, LoginRefused
  PROVE  IInv'
<1>1. /\ session' = "signedOut" /\ cache' = Settled /\ images' = images
      /\ UNCHANGED <<fetch, hydrated, nextId>>
  BY DEF LoginRefused, viewVars, docVars
<1>2. CacheCoherent'
  BY <1>1 DEF CacheCoherent, Settled
<1>3. TypeOK' /\ Readiness'
  BY <1>1 DEF IInv, TypeOK, Readiness, Settled
<1> QED BY <1>1, <1>2, <1>3 DEF IInv

(* Signing in replaces the cache; over an unmarked ledger it migrates.     *)
LEMMA LoginIInv ==
  ASSUME IInv, Login
  PROVE  IInv'
<1> DEFINE counted == Counted(Settled)
           batch   == MigrateBatch(Settled, counted)
<1> USE BoundsAssumption
<1>1. /\ session' = "ready" /\ hydrated' = FALSE /\ fetch' = fetch /\ nextId' = nextId
      /\ session \in {"signedOut", "ready"}
  BY DEF Login, docVars
<1>2. CASE Marked(Settled)
  <2>1. /\ cache' = [k \in {key \in DOMAIN Settled : key[1] # "chunk"} |-> Settled[k]]
        /\ images' = images
    BY <1>2 DEF Login, Marked
  <2>2. CacheCoherent'
    BY <2>1 DEF CacheCoherent, Settled
  <2> QED
    BY <1>1, <1>2, <2>1, <2>2 DEF IInv, TypeOK, Readiness, Settled
<1>3. CASE ~Marked(Settled)
  <2>1. cache' = batch ++ Settled /\ images' = Append(images, batch ++ Settled)
    BY <1>3 DEF Login, Marked, Sent
  <2>2. fetch = Nil /\ Len(images) = 1
    BY <1>3 DEF IInv, Readiness
  <2>3. OrderKey \in DOMAIN batch /\ batch[OrderKey] = OldestFirst
    BY MigrateBatchMarked
  <2> HIDE DEF batch
  <2>4. /\ IsSeq(images') /\ images' # <<>> /\ Len(images') = 2
        /\ Settled' = batch ++ Settled
    <3>1. IsSeq(images)
      BY DEF IInv
    <3>2. /\ IsSeq(images') /\ images' # <<>> /\ Len(images') = Len(images) + 1
          /\ Settled' = batch ++ Settled
      BY <2>1, <3>1, AppendLast DEF Settled
    <3> QED
      BY <2>2, <3>2
  <2>5. Marked(Settled')
    BY <2>3, <2>4, OverlayDomain, OverlayNew DEF Marked, Row
  <2>6. CacheCoherent'
    BY <2>1, <2>4 DEF CacheCoherent
  <2> QED
    BY <1>1, <2>2, <2>4, <2>5, <2>6 DEF IInv, TypeOK, Readiness
<1> QED
  BY <1>2, <1>3

(* A hydrate asks for what the database will hold; the reply caches it.    *)
LEMMA HydrateIInv ==
  ASSUME IInv, HydrateRequest \/ HydrateReply
  PROVE  IInv'
<1>1. CASE HydrateRequest
  BY <1>1 DEF HydrateRequest, storeVars, docVars, IInv, TypeOK, Readiness, CacheCoherent, Settled
<1>2. CASE HydrateReply
  <2>1. /\ cache' = fetch ++ cache /\ images' = images /\ fetch' = Nil
        /\ session' = session /\ nextId' = nextId /\ hydrated' = TRUE
    BY <1>2 DEF HydrateReply, docVars
  <2>2. fetch = Settled
    BY <1>2 DEF HydrateReply, IInv, Readiness
  <2>3. CacheCoherent'
    BY <2>1, <2>2, OverlayDomain, OverlayNew, OverlayOld
       DEF IInv, CacheCoherent, Settled
  <2> QED
    BY <2>1, <2>3 DEF IInv, TypeOK, Readiness, Settled
<1> QED
  BY <1>1, <1>2

(* The database commits the oldest batch; what it will hold is unchanged.  *)
LEMMA DeliverIInv ==
  ASSUME IInv, Deliver
  PROVE  IInv'
<1>1. /\ IsSeq(images') /\ images' # <<>> /\ Len(images') = Len(images) - 1
      /\ Settled' = Settled /\ Len(images) > 1
  BY TailLast DEF Deliver, IInv, Settled
<1>2. Len(images) \in Nat
  BY DEF IInv, IsSeq
<1>3. UNCHANGED <<session, cache, fetch, hydrated, nextId>>
  BY DEF Deliver, viewVars, docVars
<1>4. TypeOK'
  BY <1>1, <1>2, <1>3, BoundsAssumption DEF IInv, TypeOK
<1> QED
  BY <1>1, <1>3, <1>4 DEF IInv, Readiness, CacheCoherent

(* Every way a renderer goes away empties the cache.                       *)
LEMMA EndIInv ==
  ASSUME IInv, Launch \/ Logout \/ Crash \/ CloseSignedOut \/ CloseSignedIn \/ Reload
  PROVE  IInv'
<1> USE BoundsAssumption
<1>1. CASE Launch
  <2>1. /\ session' = "signedOut" /\ ForgetRenderer /\ nextId' = nextId
        /\ images' = images
    BY <1>1 DEF Launch, docVars
  <2>2. CacheCoherent'
    BY <2>1 DEF CacheCoherent, ForgetRenderer
  <2> QED
    BY <2>1, <2>2 DEF ForgetRenderer, IInv, TypeOK, Readiness, Settled
<1>2. CASE Logout
  BY <1>2 DEF Logout, storeVars, docVars, IInv, TypeOK, Readiness, CacheCoherent, Settled
<1>3. CASE Crash \/ CloseSignedOut \/ CloseSignedIn
  <2>1. /\ session' = "off" /\ ForgetRenderer /\ nextId' = nextId
        /\ \E rows : images' = <<rows>>
    BY <1>3 DEF Crash, CloseSignedOut, CloseSignedIn, docVars
  <2>2. IsSeq(images') /\ images' # <<>> /\ Len(images') = 1
    BY <2>1, OneImage
  <2>3. TypeOK'
    <3>1. Len(images') <= MaxImages
      BY <2>2
    <3> QED
      BY <2>1, <2>2, <3>1 DEF IInv, TypeOK, ForgetRenderer
  <2>4. Readiness'
    BY <2>1, <2>2 DEF Readiness, ForgetRenderer
  <2>5. CacheCoherent'
    BY <2>1 DEF CacheCoherent, ForgetRenderer
  <2> QED
    BY <2>2, <2>3, <2>4, <2>5 DEF IInv
<1>4. CASE Reload
  <2> DEFINE batch == SetBatch(cache, list, lastArray, lastChunkCount)
  <2>1. /\ session = "ready" /\ session' = "signedOut" /\ ForgetRenderer
        /\ nextId' = nextId /\ Len(images) + 1 <= MaxImages
        /\ images' = Append(images, batch ++ Settled) \/ images' = images
    BY <1>4 DEF Reload, Sent, MaySend, docVars
  <2>2. CacheCoherent'
    BY <2>1 DEF CacheCoherent, ForgetRenderer
  <2>3. CASE images' = images
    BY <2>1, <2>2, <2>3 DEF ForgetRenderer, IInv, TypeOK, Readiness, Settled
  <2>4. CASE images' = Append(images, batch ++ Settled)
    <3>1. /\ IsSeq(images') /\ images' # <<>> /\ Len(images') = Len(images) + 1
          /\ Settled' = batch ++ Settled
      BY <2>4, AppendLast DEF IInv, Settled
    <3>2. Marked(Settled')
      BY <2>1, <3>1, MarkKept, SetBatchUnmarked DEF IInv, Readiness
    <3> QED
      BY <2>1, <2>2, <3>1, <3>2 DEF ForgetRenderer, IInv, TypeOK, Readiness
  <2> QED
    BY <2>1, <2>3, <2>4
<1> QED
  BY <1>1, <1>2, <1>3, <1>4

(* Every step of a running or closing window keeps the invariant.          *)
LEMMA StepIInv == IInv /\ [WindowNext]_vars => IInv'
<1> SUFFICES ASSUME IInv, [WindowNext]_vars PROVE IInv'
  OBVIOUS
<1>1. CASE fetch = Nil /\ Document
  <2>1. CASE \E ref \in References, n \in 1 .. MaxItems, date \in Dates : Record(ref, n, date)
    BY <1>1, <2>1, RecordIInv
  <2>2. CASE \E ref \in References : Erase(ref)
    BY <1>1, <2>2, EraseIInv
  <2>3. CASE \E ref \in References : Restore(ref)
    BY <1>1, <2>3, RestoreIInv
  <2> QED BY <1>1, <2>1, <2>2, <2>3 DEF Document
<1>2. CASE fetch = Nil /\ Edit
  BY <1>2, ReplaceIInv DEF Edit
<1>3. CASE Housekeeping
  BY <1>3, LoginIInv, RefusedIInv, HydrateIInv, DeliverIInv, EndIInv DEF Housekeeping
<1>4. CASE CloseSignedIn \/ Reload
  BY <1>4, EndIInv
<1>5. CASE UNCHANGED vars
  BY <1>5 DEF vars, IInv, TypeOK, Readiness, CacheCoherent, Settled
<1> QED
  BY <1>1, <1>2, <1>3, <1>4, <1>5 DEF WindowNext, SteadyNext

---------------------------------------------------------------------------
(* The theorems                                                            *)

(* In every behaviour of the program, through crashes, closings, screens   *)
(* and late replies, the types hold, a session is ready only over a marked *)
(* ledger, and the renderer's cache is the store with the sent batches.    *)
THEOREM AlwaysIInv == WindowSpec => []IInv
<1>1. Init => IInv
  BY InitIInv
<1>2. IInv /\ [WindowNext]_vars => IInv'
  BY StepIInv
<1> QED
  BY <1>1, <1>2, PTL DEF WindowSpec

(* Whatever the shop, the chunk size and the bounds, the ledger's state    *)
(* keeps its types, and a program that is not running has nothing on its   *)
(* way (TypeOK of the renderer in AppContext.tsx and main.cjs).            *)
THEOREM TypeCorrect == WindowSpec => []TypeOK
<1>1. IInv => TypeOK
  BY DEF IInv
<1> QED
  BY <1>1, AlwaysIInv, PTL

(* readRow never answers from a stale row: through sign-ins, documents,    *)
(* edits, screens, reloads, closings and crashes, a cached row is the row  *)
(* the database will hold once the writes in flight have landed.           *)
THEOREM CacheNeverStale == WindowSpec => []CacheCoherent
<1>1. IInv => CacheCoherent
  BY DEF IInv
<1> QED
  BY <1>1, AlwaysIInv, PTL

---------------------------------------------------------------------------
(* A ledger in chunks                                                      *)

(* A ledger of n movements takes the fewest chunks that can hold them.     *)
LEMMA ChunksEnough ==
  ASSUME NEW n \in Nat
  PROVE  /\ ChunksFor(n) \in Nat
         /\ n <= ChunksFor(n) * ChunkSize
         /\ \A j \in 0 .. ChunksFor(n) - 1 : j * ChunkSize < n
<1> DEFINE d == n + ChunkSize - 1
           k == d \div ChunkSize
<1>1. ChunkSize \in Nat /\ ChunkSize > 0 /\ d \in Nat
  BY ChunkSizeAssumption
<1>2. k \in Int /\ k * ChunkSize <= d /\ d < (k + 1) * ChunkSize
  <2> HIDE DEF d
  <2> QED BY <1>1
<1>3. ChunksFor(n) = k
  BY DEF ChunksFor
<1> HIDE DEF k
<1>4. k \in Nat
  <2> SUFFICES ASSUME k < 0 PROVE FALSE
    BY <1>2
  <2>1. k + 1 <= 0 /\ k + 1 \in Int
    BY <1>2
  <2>2. (k + 1) * ChunkSize <= 0
    BY <1>1, <2>1
  <2> QED BY <1>1, <1>2, <2>2
<1>5. n <= k * ChunkSize
  <2>1. (k + 1) * ChunkSize = k * ChunkSize + ChunkSize
    BY <1>1, <1>4
  <2>2. k * ChunkSize \in Nat
    BY <1>1, <1>4
  <2> QED BY <1>1, <1>2, <2>1, <2>2
<1>6. \A j \in 0 .. k - 1 : j * ChunkSize < n
  <2> SUFFICES ASSUME NEW j \in 0 .. k - 1 PROVE j * ChunkSize < n
    OBVIOUS
  <2>1. (j + 1) * ChunkSize <= k * ChunkSize
    BY <1>1, <1>4
  <2>2. (j + 1) * ChunkSize = j * ChunkSize + ChunkSize
    BY <1>1
  <2>3. j * ChunkSize \in Nat /\ k * ChunkSize \in Nat
    BY <1>1, <1>4
  <2> QED BY <1>1, <1>2, <2>1, <2>2, <2>3
<1> QED BY <1>3, <1>4, <1>5, <1>6

(* The movements the first j chunks of t hold.                             *)
Reach(t, j) == IF j * ChunkSize < Len(t) THEN j * ChunkSize ELSE Len(t)
Pre(t, j) == SubSeq(t, 1, Reach(t, j))

(* The first j chunks and the next one are the first j + 1.                *)
LEMMA PreSlice ==
  ASSUME NEW t \in Log, NEW j \in 0 .. ChunksFor(Len(t)) - 1
  PROVE  /\ Pre(t, j) \in Log /\ Slice(t, j) \in Log
         /\ Pre(t, j + 1) = Cat(Pre(t, j), Slice(t, j))
<1> DEFINE M == Movement
           L == Len(t)
           a == j * ChunkSize
           b == Reach(t, j + 1)
<1>1. t \in Seq(M) /\ L \in Nat
  BY CatLog DEF Log
<1>2. ChunkSize \in Nat /\ ChunkSize > 0 /\ j \in Nat
  BY <1>1, ChunksEnough, ChunkSizeAssumption
<1>3. a < L /\ a \in Nat
  BY <1>1, <1>2, ChunksEnough
<1>4. b \in a .. L
  <2>1. (j + 1) * ChunkSize = a + ChunkSize
    BY <1>2
  <2>2. b = IF (j + 1) * ChunkSize < L THEN (j + 1) * ChunkSize ELSE L
    BY DEF Reach
  <2> HIDE DEF a, L, b
  <2> QED BY <1>1, <1>2, <1>3, <2>1, <2>2
<1>5. Slice(t, j) = SubSeq(t, a + 1, b)
  BY DEF Slice, Reach
<1>6. Pre(t, j + 1) = SubSeq(t, 1, b)
  BY DEF Pre
<1>7. Pre(t, j) = SubSeq(t, 1, a)
  BY <1>3 DEF Pre, Reach
<1> HIDE DEF a, b, L, M
<1>8. SubSeq(t, 1, a) \o SubSeq(t, a + 1, b) = SubSeq(t, 1, b)
  <2>1. 1 \in 1 .. Len(t) + 1 /\ a \in 1 - 1 .. Len(t) /\ b \in a .. Len(t)
    BY <1>1, <1>3, <1>4 DEF L
  <2> QED BY <1>1, <2>1, ConcatAdjacentSubSeq
<1>9. SubSeq(t, 1, a) \in Seq(M)
  <2>1. \A i \in 1 .. a : t[i] \in M
    BY <1>1, <1>3 DEF L
  <2>2. 1 \in Int /\ a \in Int
    BY <1>3
  <2> QED BY <2>1, <2>2, SubSeqProperties
<1>10. SubSeq(t, a + 1, b) \in Seq(M)
  <2>1. \A i \in a + 1 .. b : t[i] \in M
    BY <1>1, <1>3, <1>4 DEF L
  <2>2. a + 1 \in Int /\ b \in Int
    BY <1>1, <1>3, <1>4
  <2> QED BY <2>1, <2>2, SubSeqProperties
<1> QED BY <1>5, <1>6, <1>7, <1>8, <1>9, <1>10 DEF Log, Cat, M

(* No chunk holds nothing, all the chunks hold the ledger.                 *)
LEMMA PreEnds ==
  ASSUME NEW t \in Log
  PROVE  Pre(t, 0) = <<>> /\ Pre(t, ChunksFor(Len(t))) = t
<1> DEFINE M == Movement
           L == Len(t)
           k == ChunksFor(L)
<1>1. t \in Seq(M) /\ L \in Nat
  BY CatLog DEF Log
<1>2. ChunkSize \in Nat /\ 0 * ChunkSize = 0
  BY ChunkSizeAssumption
<1>3. k \in Nat /\ L <= k * ChunkSize
  BY <1>1, ChunksEnough
<1>4. Reach(t, 0) = 0
  <2>1. Reach(t, 0) = IF 0 < L THEN 0 ELSE L
    BY <1>2 DEF Reach
  <2> QED BY <1>1, <2>1
<1>5. Reach(t, k) = L
  <2>1. k * ChunkSize \in Nat
    BY <1>2, <1>3
  <2>2. Reach(t, k) = IF k * ChunkSize < L THEN k * ChunkSize ELSE L
    BY DEF Reach
  <2> HIDE DEF k, L
  <2> QED BY <1>1, <1>3, <2>1, <2>2
<1>6. SubSeq(t, 1, 0) = <<>>
  BY SubSeqEmpty
<1>7. SubSeq(t, 1, Len(t)) = t
  <2> HIDE DEF M
  <2> QED BY <1>1, SubSeqFull
<1> QED BY <1>4, <1>5, <1>6, <1>7 DEF Pre

---------------------------------------------------------------------------
(* F[i] is what the first i of the chunks c hold together.                 *)
LEMMA FlattenJoined ==
  ASSUME NEW n \in Nat, NEW c, c = [i \in 1 .. n |-> c[i]], \A i \in 1 .. n : c[i] \in Log,
         NEW F, F[0] = <<>>, \A i \in 1 .. n : F[i] = Cat(F[i - 1], c[i])
  PROVE  FlattenSeq(c) = F[n]
<1> DEFINE Iter(f) == f = [i \in 1 .. n |-> IF i = 1 THEN c[i] ELSE f[i - 1] \o c[i]]
           h == [i \in 1 .. n |-> F[i]]
           k == CHOOSE f : Iter(f)
<1>0. DOMAIN c = 1 .. n /\ Len(c) = n
  <2>1. DOMAIN c = 1 .. n
    OBVIOUS
  <2> QED BY <2>1
<1>1. CASE n = 0
  <2>1. c = <<>>
    BY <1>0, <1>1
  <2> QED BY <1>0, <1>1, <2>1 DEF FlattenSeq
<1>2. CASE n # 0
  <2>1. \A i \in 1 .. n : h[i] = IF i = 1 THEN c[i] ELSE h[i - 1] \o c[i]
    <3> SUFFICES ASSUME NEW i \in 1 .. n PROVE h[i] = IF i = 1 THEN c[i] ELSE h[i - 1] \o c[i]
      OBVIOUS
    <3>1. F[i] = Cat(F[i - 1], c[i]) /\ c[i] \in Log
      OBVIOUS
    <3>2. CASE i = 1
      <4>1. Cat(<<>>, c[i]) = c[i]
        <5>1. <<>> \in Log
          BY DEF Log
        <5> QED BY <3>1, <5>1, CatLog
      <4> QED BY <3>1, <3>2, <4>1
    <3>3. CASE i # 1
      <4>1. i - 1 \in 1 .. n
        BY <3>3
      <4> QED BY <3>1, <3>3, <4>1 DEF Cat
    <3> QED BY <3>2, <3>3
  <2>2. Iter(h)
    <3>1. h = [i \in 1 .. n |-> h[i]]
      OBVIOUS
    <3> HIDE DEF h
    <3> QED BY <2>1, <3>1
  <2>3. Iter(k)
    <3> HIDE DEF Iter
    <3> QED BY <2>2
  <2>4. FlattenSeq(c) = k[n]
    BY <1>0, <1>2 DEF FlattenSeq
  <2> HIDE DEF k
  <2>5. \A i \in 1 .. n : k[i] = IF i = 1 THEN c[i] ELSE k[i - 1] \o c[i]
    BY <2>3
  <2>6. \A i \in 0 .. n : i # 0 => k[i] = F[i]
    <3> DEFINE Same == {i \in 0 .. n : i # 0 => k[i] = F[i]}
    <3>1. 0 \in Same
      OBVIOUS
    <3>2. \A i \in 0 .. n : i # n /\ i \in Same => i + 1 \in Same
      <4> SUFFICES ASSUME NEW i \in 0 .. n, i # n, i \in Same PROVE i + 1 \in Same
        OBVIOUS
      <4>1. i + 1 \in 1 .. n /\ i + 1 \in 0 .. n /\ (i + 1) - 1 = i
        OBVIOUS
      <4>2. F[i + 1] = Cat(F[i], c[i + 1]) /\ c[i + 1] \in Log
        BY <4>1
      <4>3. CASE i = 0
        <5>1. k[1] = c[1] /\ F[1] = Cat(<<>>, c[1])
          BY <2>5, <4>1, <4>2, <4>3
        <5>2. <<>> \in Log /\ c[1] \in Log
          BY <4>2, <4>3 DEF Log
        <5>3. Cat(<<>>, c[1]) = c[1]
          BY <5>2, CatLog
        <5> QED BY <4>1, <4>3, <5>1, <5>3
      <4>4. CASE i # 0
        <5>1. k[i] = F[i]
          BY <4>4
        <5>2. k[i + 1] = k[i] \o c[i + 1]
          <6>1. \A m \in 1 .. n : m # 1 => k[m] = k[m - 1] \o c[m]
            BY <2>5, Zenon
          <6>2. i + 1 # 1
            BY <4>4
          <6>3. k[i + 1] = k[(i + 1) - 1] \o c[i + 1]
            BY <4>1, <6>1, <6>2, Zenon
          <6> QED BY <4>1, <6>3, Zenon
        <5>3. k[i + 1] = F[i + 1]
          BY <4>2, <5>1, <5>2 DEF Cat
        <5> QED BY <4>1, <5>3
      <4> QED BY <4>3, <4>4
    <3> HIDE DEF Same
    <3>3. \A i \in 0 .. n : i \in Same
      BY <3>1, <3>2, CountUp
    <3> QED BY <3>3 DEF Same
  <2> QED BY <1>2, <2>4, <2>6
<1> QED BY <1>1, <1>2

---------------------------------------------------------------------------
(* Rows that hold a ledger                                                 *)

(* F[i] is what the first i of n chunk rows hold together.                 *)
Joins(F, n, rows) ==
  /\ F[0] = <<>>
  /\ \A i \in 1 .. n : F[i] = Cat(F[i - 1], rows[ChunkKey(i - 1)])

(* The first n chunk rows are there, and hold movements.                   *)
Chunked(rows, n) ==
  \A i \in 1 .. n : ChunkKey(i - 1) \in DOMAIN rows /\ rows[ChunkKey(i - 1)] \in Log

(* The rows hold the ledger l in chunks, and nothing supersedes them.      *)
Holds(rows, l) ==
  /\ ~HasLegacy(rows)
  /\ MetaKey \in DOMAIN rows
  /\ rows[MetaKey].chunks \in Nat
  /\ rows[MetaKey].total = Len(l)
  /\ Chunked(rows, rows[MetaKey].chunks)
  /\ \E F : Joins(F, rows[MetaKey].chunks, rows) /\ F[rows[MetaKey].chunks] = l

(* No two rows of the ledger share a key.                                  *)
LEMMA ChunkKeys ==
  /\ \A i, j : ChunkKey(i) = ChunkKey(j) => i = j
  /\ \A i : ChunkKey(i) # MetaKey /\ ChunkKey(i) # LegacyKey /\ ChunkKey(i) # OrderKey
  /\ \A i : ChunkKey(i)[2] = i
  /\ MetaKey # LegacyKey /\ OrderKey # MetaKey /\ OrderKey # LegacyKey
BY DEF ChunkKey, MetaKey, LegacyKey, OrderKey

(* The chunks read so far are a ledger.                                    *)
LEMMA JoinsLog ==
  ASSUME NEW n \in Nat, NEW rows, Chunked(rows, n), NEW F, Joins(F, n, rows)
  PROVE  \A i \in 0 .. n : F[i] \in Log
<1> DEFINE Good == {i \in 0 .. n : F[i] \in Log}
<1>1. 0 \in Good
  <2>1. <<>> \in Log
    BY DEF Log
  <2>2. F[0] = <<>>
    BY DEF Joins
  <2> QED BY <2>1, <2>2
<1>2. \A i \in 0 .. n : i # n /\ i \in Good => i + 1 \in Good
  <2> SUFFICES ASSUME NEW i \in 0 .. n, i # n, i \in Good PROVE i + 1 \in Good
    OBVIOUS
  <2>1. i + 1 \in 1 .. n /\ i + 1 \in 0 .. n /\ (i + 1) - 1 = i
    OBVIOUS
  <2>2. F[i + 1] = Cat(F[(i + 1) - 1], rows[ChunkKey((i + 1) - 1)])
    BY <2>1, Zenon DEF Joins
  <2>3. rows[ChunkKey((i + 1) - 1)] \in Log
    BY <2>1, Zenon DEF Chunked
  <2>4. F[(i + 1) - 1] \in Log
    BY <2>1
  <2>5. Cat(F[(i + 1) - 1], rows[ChunkKey((i + 1) - 1)]) \in Log
    BY <2>3, <2>4, CatLog, Zenon
  <2>6. F[i + 1] \in Log
    BY <2>2, <2>5, Zenon
  <2> QED BY <2>1, <2>6
<1> HIDE DEF Good
<1>3. \A i \in 0 .. n : i \in Good
  BY <1>1, <1>2, CountUp
<1> QED BY <1>3 DEF Good

(* A ledger is neither a missing row nor the tombstone.                    *)
LEMMA NilNoLog ==
  ASSUME NEW s \in Log
  PROVE  s # Nil /\ s # Tombstone
BY LedgerAssumption DEF Log

(* What a reader of the rows sees.                                         *)
LEMMA HoldsRead ==
  ASSUME NEW rows, NEW l, Holds(rows, l)
  PROVE  /\ l \in Log /\ ReadChunked(rows) = l /\ LsGet(rows) = l
         /\ CanAppend(rows) /\ CanRemove(rows)
<1> DEFINE n == rows[MetaKey].chunks
           c == [i \in 1 .. n |-> Row(rows, ChunkKey(i - 1))]
<1>1. n \in Nat /\ MetaKey \in DOMAIN rows /\ ~HasLegacy(rows) /\ Chunked(rows, n)
      /\ rows[MetaKey].total = Len(l)
  BY DEF Holds
<1>2. PICK F : Joins(F, n, rows) /\ F[n] = l
  BY DEF Holds
<1>3. \A i \in 1 .. n : c[i] = rows[ChunkKey(i - 1)] /\ c[i] \in Log
  BY <1>1 DEF Row, Chunked
<1>4. l \in Log
  <2> HIDE DEF n
  <2>1. \A i \in 0 .. n : F[i] \in Log
    BY <1>1, <1>2, JoinsLog
  <2> QED BY <1>1, <1>2, <2>1
<1>5. FlattenSeq(c) = l
  <2>1. c = [i \in 1 .. n |-> c[i]]
    OBVIOUS
  <2> HIDE DEF n, c
  <2>2. F[0] = <<>> /\ \A i \in 1 .. n : F[i] = Cat(F[i - 1], c[i])
    BY <1>2, <1>3 DEF Joins
  <2>3. \A i \in 1 .. n : c[i] \in Log
    BY <1>3
  <2>4. FlattenSeq(c) = F[n]
    BY <1>1, <2>1, <2>2, <2>3, FlattenJoined
  <2> QED BY <1>2, <2>4
<1>6. \A i \in 1 .. n : c[i] # Nil
  <2> SUFFICES ASSUME NEW i \in 1 .. n PROVE c[i] # Nil
    OBVIOUS
  <2>1. c[i] \in Log
    BY <1>3
  <2> QED BY <2>1, NilNoLog
<1>7. ReadChunked(rows) = l
  <2>1. ReadChunked(rows) = IF \E i \in 1 .. n : c[i] = Nil THEN Nil
                            ELSE IF Len(FlattenSeq(c)) = rows[MetaKey].total
                                 THEN FlattenSeq(c) ELSE Nil
    BY <1>1 DEF ReadChunked
  <2> HIDE DEF n, c
  <2> QED BY <1>1, <1>5, <1>6, <2>1
<1>8. LsGet(rows) = l
  BY <1>1, <1>4, <1>7, NilNoLog DEF LsGet
<1>9. CanAppend(rows)
  <2>1. n > 0 => ChunkKey(n - 1) \in DOMAIN rows
    <3> SUFFICES ASSUME n > 0 PROVE ChunkKey(n - 1) \in DOMAIN rows
      OBVIOUS
    <3>1. n \in 1 .. n
      BY <1>1
    <3> HIDE DEF n
    <3> QED BY <1>1, <3>1 DEF Chunked
  <2> QED BY <1>1, <2>1 DEF CanAppend
<1>10. CanRemove(rows)
  <2>1. \A i \in 0 .. n - 1 : ChunkKey(i) \in DOMAIN rows
    <3> SUFFICES ASSUME NEW i \in 0 .. n - 1 PROVE ChunkKey(i) \in DOMAIN rows
      OBVIOUS
    <3> HIDE DEF n
    <3>1. i + 1 \in 1 .. n /\ (i + 1) - 1 = i
      BY <1>1
    <3>2. ChunkKey((i + 1) - 1) \in DOMAIN rows
      BY <1>1, <3>1, Zenon DEF Chunked
    <3> QED BY <3>1, <3>2
  <2> QED BY <1>1, <2>1 DEF CanRemove
<1> QED BY <1>4, <1>7, <1>8, <1>9, <1>10

(* Chunks of t after the first ones: the rows hold both, one after the     *)
(* other.                                                                  *)
LEMMA HoldsExtended ==
  ASSUME NEW rows, NEW n \in Nat, NEW F, NEW t \in Log,
         ~HasLegacy(rows), MetaKey \in DOMAIN rows, Chunked(rows, n), Joins(F, n, rows),
         rows[MetaKey] = Manifest(n + ChunksFor(Len(t)), Len(F[n]) + Len(t)),
         \A j \in 0 .. ChunksFor(Len(t)) - 1 :
           ChunkKey(n + j) \in DOMAIN rows /\ rows[ChunkKey(n + j)] = Slice(t, j)
  PROVE  Holds(rows, Cat(F[n], t))
<1> DEFINE k == ChunksFor(Len(t))
           G == [i \in 0 .. n + k |-> IF i <= n THEN F[i] ELSE Cat(F[n], Pre(t, i - n))]
<1>1. Len(t) \in Nat /\ k \in Nat
  BY CatLog, ChunksEnough
<1>2. F[n] \in Log
  <2>1. \A i \in 0 .. n : F[i] \in Log
    BY JoinsLog
  <2> QED BY <2>1
<1>3. rows[MetaKey].chunks = n + k /\ rows[MetaKey].total = Len(F[n]) + Len(t)
  BY DEF Manifest
<1>4. Len(Cat(F[n], t)) = Len(F[n]) + Len(t)
  BY <1>2, CatLog
<1>5. \A j \in 0 .. k - 1 : /\ Pre(t, j) \in Log /\ Slice(t, j) \in Log
                           /\ Pre(t, j + 1) = Cat(Pre(t, j), Slice(t, j))
  BY PreSlice
<1>6. Pre(t, 0) = <<>> /\ Pre(t, k) = t
  BY PreEnds
<1>7. \A i \in 1 .. n + k : ~(i <= n) =>
        /\ i - 1 - n \in 0 .. k - 1 /\ ChunkKey(i - 1) \in DOMAIN rows
        /\ rows[ChunkKey(i - 1)] = Slice(t, i - 1 - n)
  <2> SUFFICES ASSUME NEW i \in 1 .. n + k, ~(i <= n)
               PROVE  /\ i - 1 - n \in 0 .. k - 1 /\ ChunkKey(i - 1) \in DOMAIN rows
                      /\ rows[ChunkKey(i - 1)] = Slice(t, i - 1 - n)
    OBVIOUS
  <2> DEFINE j == i - 1 - n
  <2> HIDE DEF k
  <2>1. j \in 0 .. k - 1 /\ n + j = i - 1
    BY <1>1
  <2>2. ChunkKey(n + j) \in DOMAIN rows /\ rows[ChunkKey(n + j)] = Slice(t, j)
    BY <2>1, Zenon DEF k
  <2> HIDE DEF j
  <2>3. ChunkKey(i - 1) \in DOMAIN rows /\ rows[ChunkKey(i - 1)] = Slice(t, j)
    BY <2>1, <2>2
  <2> QED BY <2>1, <2>3 DEF j
<1>8. Chunked(rows, n + k)
  <2> SUFFICES ASSUME NEW i \in 1 .. n + k
               PROVE  ChunkKey(i - 1) \in DOMAIN rows /\ rows[ChunkKey(i - 1)] \in Log
    BY DEF Chunked
  <2> HIDE DEF k
  <2>1. CASE i <= n
    <3>1. i \in 1 .. n
      BY <2>1
    <3> QED BY <3>1, Zenon DEF Chunked
  <2>2. CASE ~(i <= n)
    BY <1>5, <1>7, <2>2
  <2> QED BY <2>1, <2>2
<1>9. Joins(G, n + k, rows)
  <2>1. G[0] = <<>>
    BY <1>1 DEF Joins
  <2>2. ASSUME NEW i \in 1 .. n + k PROVE G[i] = Cat(G[i - 1], rows[ChunkKey(i - 1)])
    <3>0. i \in 0 .. n + k /\ i - 1 \in 0 .. n + k
      BY <1>1
    <3>1. CASE i <= n
      <4>1. i \in 1 .. n /\ i - 1 <= n
        BY <3>1
      <4>2. G[i] = F[i] /\ G[i - 1] = F[i - 1]
        BY <3>0, <3>1, <4>1
      <4>3. F[i] = Cat(F[i - 1], rows[ChunkKey(i - 1)])
        BY <4>1, Zenon DEF Joins
      <4> HIDE DEF G
      <4> QED BY <4>2, <4>3
    <3>2. CASE ~(i <= n)
      <4> DEFINE j == i - 1 - n
                 p == Pre(t, j)
      <4>1. j \in 0 .. k - 1 /\ rows[ChunkKey(i - 1)] = Slice(t, j)
        BY <1>7, <3>2
      <4>3. /\ p \in Log /\ Slice(t, j) \in Log
            /\ Pre(t, j + 1) = Cat(p, Slice(t, j))
        BY <1>5, <4>1
      <4>4. j + 1 = i - n
        OBVIOUS
      <4>5. G[i] = Cat(F[n], Pre(t, j + 1))
        <5>1. G[i] = Cat(F[n], Pre(t, i - n))
          BY <3>0, <3>2
        <5> HIDE DEF G, j
        <5> QED BY <4>4, <5>1
      <4>6. G[i - 1] = Cat(F[n], p)
        <5>1. CASE i - 1 <= n
          <6>1. i - 1 = n /\ j = 0
            BY <3>2, <5>1
          <6>2. G[i - 1] = F[n]
            BY <3>0, <6>1
          <6>3. p = <<>>
            BY <1>6, <6>1
          <6>4. Cat(F[n], <<>>) = F[n]
            BY <1>2, CatLog
          <6> HIDE DEF G, p
          <6> QED BY <6>2, <6>3, <6>4
        <5>2. CASE ~(i - 1 <= n)
          <6>1. G[i - 1] = Cat(F[n], Pre(t, (i - 1) - n))
            BY <3>0, <5>2
          <6> HIDE DEF G
          <6> QED BY <6>1
        <5> QED BY <5>1, <5>2
      <4> HIDE DEF G, j, p
      <4>7. Cat(F[n], Cat(p, Slice(t, j))) = Cat(Cat(F[n], p), Slice(t, j))
        BY <1>2, <4>3, CatCat
      <4> QED BY <4>1, <4>3, <4>5, <4>6, <4>7
    <3> QED BY <3>1, <3>2
  <2> HIDE DEF G
  <2> QED BY <2>1, <2>2 DEF Joins
<1>10. G[n + k] = Cat(F[n], t)
  <2>1. n + k \in 0 .. n + k /\ (n + k) - n = k
    BY <1>1
  <2>2. CASE k = 0
    <3>1. G[n + k] = F[n] /\ t = <<>>
      BY <1>1, <1>6, <2>1, <2>2
    <3>2. Cat(F[n], <<>>) = F[n]
      BY <1>2, CatLog
    <3> QED BY <3>1, <3>2
  <2>3. CASE k # 0
    <3>1. G[n + k] = Cat(F[n], Pre(t, (n + k) - n))
      <4>1. ~(n + k <= n)
        BY <1>1, <2>3
      <4> QED BY <2>1, <4>1
    <3> HIDE DEF G, k
    <3> QED BY <1>6, <2>1, <3>1
  <2> QED BY <2>2, <2>3
<1> HIDE DEF G, k
<1>11. rows[MetaKey].chunks \in Nat
  BY <1>1, <1>3
<1> QED BY <1>3, <1>4, <1>8, <1>9, <1>10, <1>11 DEF Holds

---------------------------------------------------------------------------
(* What a batch does to rows that hold a ledger                            *)

(* Which rows a batch of chunks writes, and what is in them.               *)
LEMMA ChunkRowsAt ==
  ASSUME NEW t \in Log, NEW n \in Nat
  PROVE  /\ \A j \in 0 .. ChunksFor(Len(t)) - 1 :
              /\ ChunkKey(n + j) \in DOMAIN ChunkRows(t, n)
              /\ ChunkRows(t, n)[ChunkKey(n + j)] = Slice(t, j)
         /\ \A i \in 0 .. n - 1 : ChunkKey(i) \notin DOMAIN ChunkRows(t, n)
         /\ MetaKey \notin DOMAIN ChunkRows(t, n) /\ LegacyKey \notin DOMAIN ChunkRows(t, n)
<1> DEFINE k == ChunksFor(Len(t))
           K == {ChunkKey(n + i) : i \in 0 .. k - 1}
           c == [key \in K |-> Slice(t, key[2] - n)]
<1>1. ChunkRows(t, n) = c /\ DOMAIN c = K
  BY DEF ChunkRows
<1>2. k \in Nat
  BY CatLog, ChunksEnough
<1> HIDE DEF k
<1>3. ASSUME NEW j \in 0 .. k - 1 PROVE ChunkKey(n + j) \in K /\ c[ChunkKey(n + j)] = Slice(t, j)
  <2> DEFINE key == ChunkKey(n + j)
  <2>1. key \in K
    OBVIOUS
  <2>2. key[2] = n + j
    BY ChunkKeys
  <2>3. (n + j) - n = j
    OBVIOUS
  <2> HIDE DEF key, K
  <2>4. c[key] = Slice(t, key[2] - n)
    BY <2>1
  <2>5. key[2] - n = j
    BY <2>2, <2>3
  <2>6. c[key] = Slice(t, j)
    BY <2>4, <2>5, Zenon
  <2> QED BY <2>1, <2>6 DEF key, K
<1>4. \A i \in 0 .. n - 1 : ChunkKey(i) \notin K
  <2> SUFFICES ASSUME NEW i \in 0 .. n - 1, NEW j \in 0 .. k - 1, ChunkKey(i) = ChunkKey(n + j)
               PROVE  FALSE
    OBVIOUS
  <2>1. i = n + j
    BY ChunkKeys, Zenon
  <2> QED BY <2>1
<1>5. MetaKey \notin K /\ LegacyKey \notin K
  BY ChunkKeys
<1> HIDE DEF K, c
<1> QED BY <1>1, <1>3, <1>4, <1>5 DEF k

(* A batch of one row writes that row.                                     *)
LEMMA OneRowAt ==
  ASSUME NEW key, NEW value
  PROVE  DOMAIN OneRow(key, value) = {key} /\ OneRow(key, value)[key] = value
BY DEF OneRow

(* A batch that leaves the legacy row alone brings no legacy ledger back.  *)
LEMMA LegacyKept ==
  ASSUME NEW batch, NEW rows, LegacyKey \notin DOMAIN batch, ~HasLegacy(rows)
  PROVE  ~HasLegacy(batch ++ rows)
BY OverlayDomain, OverlayOld DEF HasLegacy, Row

(* The rows appending sends, over rows that hold the chunks before them.   *)
LEMMA ExtendedBy ==
  ASSUME NEW rows, NEW n \in Nat, NEW F, NEW t \in Log, NEW total, NEW batch,
         ~HasLegacy(rows), Chunked(rows, n), Joins(F, n, rows),
         total = Len(F[n]) + Len(t),
         batch = ChunkRows(t, n) ++ OneRow(MetaKey, Manifest(n + ChunksFor(Len(t)), total))
  PROVE  Holds(batch ++ rows, Cat(F[n], t))
<1> DEFINE c == ChunkRows(t, n)
           m == OneRow(MetaKey, Manifest(n + ChunksFor(Len(t)), total))
           new == batch ++ rows
           k == ChunksFor(Len(t))
<1>1. /\ \A j \in 0 .. k - 1 : ChunkKey(n + j) \in DOMAIN c /\ c[ChunkKey(n + j)] = Slice(t, j)
      /\ \A i \in 0 .. n - 1 : ChunkKey(i) \notin DOMAIN c
      /\ MetaKey \notin DOMAIN c /\ LegacyKey \notin DOMAIN c
  BY ChunkRowsAt
<1>2. DOMAIN m = {MetaKey} /\ m[MetaKey] = Manifest(n + k, Len(F[n]) + Len(t))
  BY OneRowAt
<1>3. batch = c ++ m
  OBVIOUS
<1>4. k \in Nat
  BY CatLog, ChunksEnough
<1> HIDE DEF c, m, k
<1>5. LegacyKey \notin DOMAIN batch
  BY <1>1, <1>2, <1>3, OverlayDomain, ChunkKeys
<1>6. ~HasLegacy(new)
  BY <1>5, LegacyKept
<1>7. MetaKey \in DOMAIN new /\ new[MetaKey] = Manifest(n + k, Len(F[n]) + Len(t))
  <2>1. MetaKey \in DOMAIN m
    BY <1>2
  <2>2. MetaKey \in DOMAIN batch /\ batch[MetaKey] = m[MetaKey]
    BY <1>1, <1>3, <2>1, OverlayDomain, OverlayOld
  <2>3. MetaKey \in DOMAIN new /\ new[MetaKey] = batch[MetaKey]
    BY <2>2, OverlayDomain, OverlayNew
  <2> QED BY <1>2, <2>2, <2>3
<1>8. \A j \in 0 .. k - 1 : ChunkKey(n + j) \in DOMAIN new /\ new[ChunkKey(n + j)] = Slice(t, j)
  <2> SUFFICES ASSUME NEW j \in 0 .. k - 1
               PROVE  ChunkKey(n + j) \in DOMAIN new /\ new[ChunkKey(n + j)] = Slice(t, j)
    OBVIOUS
  <2> DEFINE key == ChunkKey(n + j)
  <2>1. key \in DOMAIN c /\ c[key] = Slice(t, j)
    BY <1>1, Zenon
  <2> HIDE DEF key
  <2>2. key \in DOMAIN batch /\ batch[key] = c[key]
    BY <1>3, <2>1, OverlayDomain, OverlayNew
  <2>3. key \in DOMAIN new /\ new[key] = batch[key]
    BY <2>2, OverlayDomain, OverlayNew
  <2>4. key \in DOMAIN new /\ new[key] = Slice(t, j)
    BY <2>1, <2>2, <2>3
  <2> QED BY <2>4, Zenon DEF key
<1>9. \A i \in 1 .. n : ChunkKey(i - 1) \in DOMAIN new /\ new[ChunkKey(i - 1)] = rows[ChunkKey(i - 1)]
  <2> SUFFICES ASSUME NEW i \in 1 .. n
               PROVE  ChunkKey(i - 1) \in DOMAIN new /\ new[ChunkKey(i - 1)] = rows[ChunkKey(i - 1)]
    OBVIOUS
  <2> DEFINE key == ChunkKey(i - 1)
  <2>1. i - 1 \in 0 .. n - 1
    OBVIOUS
  <2>2. key \notin DOMAIN c /\ key # MetaKey
    BY <1>1, <2>1, ChunkKeys
  <2>3. key \in DOMAIN rows
    BY Zenon DEF Chunked
  <2> HIDE DEF key
  <2>4. key \notin DOMAIN batch
    BY <1>2, <1>3, <2>2, OverlayDomain
  <2>5. key \in DOMAIN new /\ new[key] = rows[key]
    BY <2>3, <2>4, OverlayDomain, OverlayOld
  <2> QED BY <2>5, Zenon DEF key
<1> HIDE DEF new
<1>10. Chunked(new, n)
  BY <1>9 DEF Chunked
<1>11. Joins(F, n, new)
  BY <1>9 DEF Joins
<1>12. Holds(new, Cat(F[n], t))
  BY <1>6, <1>7, <1>8, <1>10, <1>11, HoldsExtended DEF k
<1> QED BY <1>12 DEF new

(* lsAppend puts the movements after those the rows hold.                  *)
LEMMA AppendHolds ==
  ASSUME NEW rows, NEW l, Holds(rows, l), NEW t \in Log
  PROVE  Holds(AppendBatch(rows, t) ++ rows, Cat(l, t))
<1> DEFINE meta == rows[MetaKey]
           n == meta.chunks
           last == rows[ChunkKey(n - 1)]
           room == n > 0 /\ Len(last) < ChunkSize
           total == meta.total + Len(t)
           batch == AppendBatch(rows, t)
<1>1. n \in Nat /\ ~HasLegacy(rows) /\ Chunked(rows, n) /\ meta.total = Len(l)
  BY DEF Holds
<1>2. PICK F : Joins(F, n, rows) /\ F[n] = l
  BY DEF Holds
<1>3. \A i \in 0 .. n : F[i] \in Log
  <2> HIDE DEF n
  <2> QED BY <1>1, <1>2, JoinsLog
<1>4. CASE room
  <2> DEFINE u == Cat(last, t)
             p == n - 1
  <2>1. p \in Nat /\ n \in 1 .. n /\ p \in 0 .. n
    BY <1>1, <1>4
  <2>2. last \in Log
    <3> HIDE DEF n
    <3> QED BY <1>1, <2>1, Zenon DEF Chunked
  <2>3. F[p] \in Log
    BY <1>3, <2>1
  <2>4. F[n] = Cat(F[p], last)
    <3> HIDE DEF n
    <3> QED BY <1>2, <2>1, Zenon DEF Joins
  <2>5. u \in Log /\ Len(u) = Len(last) + Len(t) /\ Len(Cat(F[p], last)) = Len(F[p]) + Len(last)
    BY <2>2, <2>3, CatLog
  <2>6. Len(F[p]) \in Nat /\ Len(last) \in Nat /\ Len(t) \in Nat
    BY <2>2, <2>3, CatLog
  <2>7. batch = ChunkRows(u, p) ++ OneRow(MetaKey, Manifest(p + ChunksFor(Len(u)), total))
    <3>1. last \o t = u
      BY DEF Cat
    <3>2. batch = ChunkRows(last \o t, p)
                    ++ OneRow(MetaKey, Manifest(p + ChunksFor(Len(last \o t)), total))
      BY <1>4 DEF AppendBatch, ManifestAfter
    <3> HIDE DEF batch, u, p, total
    <3> QED BY <3>1, <3>2
  <2>8. total = Len(F[p]) + Len(u)
    <3>1. total = Len(F[p]) + Len(last) + Len(t)
      BY <1>1, <1>2, <2>4, <2>5
    <3> DEFINE x == Len(F[p])
               y == Len(last)
               z == Len(t)
    <3>2. total = x + y + z /\ Len(u) = y + z /\ x \in Nat /\ y \in Nat /\ z \in Nat
      BY <2>5, <2>6, <3>1
    <3> HIDE DEF x, y, z, total, last, u, p
    <3>3. total = x + Len(u)
      BY <3>2
    <3> QED BY <3>3 DEF x
  <2>9. Chunked(rows, p)
    <3> SUFFICES ASSUME NEW i \in 1 .. p
                 PROVE  ChunkKey(i - 1) \in DOMAIN rows /\ rows[ChunkKey(i - 1)] \in Log
      BY DEF Chunked
    <3>1. i \in 1 .. n
      BY <1>1
    <3> HIDE DEF n
    <3> QED BY <1>1, <3>1, Zenon DEF Chunked
  <2>10. Joins(F, p, rows)
    <3>0. F[0] = <<>>
      BY <1>2 DEF Joins
    <3>1. \A i \in 1 .. p : F[i] = Cat(F[i - 1], rows[ChunkKey(i - 1)])
      <4> SUFFICES ASSUME NEW i \in 1 .. p PROVE F[i] = Cat(F[i - 1], rows[ChunkKey(i - 1)])
        OBVIOUS
      <4>1. i \in 1 .. n
        BY <1>1
      <4> HIDE DEF n
      <4> QED BY <1>2, <4>1, Zenon DEF Joins
    <3> HIDE DEF p
    <3> QED BY <3>0, <3>1 DEF Joins
  <2>11. Cat(Cat(F[p], last), t) = Cat(F[p], u)
    BY <2>2, <2>3, CatCat
  <2> HIDE DEF u, p, last, total, batch, n, meta
  <2>12. Holds(batch ++ rows, Cat(F[p], u))
    BY <1>1, <2>1, <2>5, <2>7, <2>8, <2>9, <2>10, ExtendedBy
  <2>13. Cat(l, t) = Cat(F[p], u)
    BY <1>2, <2>4, <2>11
  <2> QED BY <2>12, <2>13 DEF batch
<1>5. CASE ~room
  <2>1. batch = ChunkRows(t, n) ++ OneRow(MetaKey, Manifest(n + ChunksFor(Len(t)), total))
    BY <1>5 DEF AppendBatch, ManifestAfter
  <2>2. total = Len(F[n]) + Len(t)
    BY <1>1, <1>2
  <2> HIDE DEF total, batch, n, meta
  <2>3. Holds(batch ++ rows, Cat(F[n], t))
    BY <1>1, <1>2, <2>1, <2>2, ExtendedBy
  <2> QED BY <1>2, <2>3 DEF batch
<1> QED BY <1>4, <1>5

(* The movements a removal finds are those of the whole ledger.            *)
LEMMA RemovedHeld ==
  ASSUME NEW rows, NEW l, Holds(rows, l), NEW ref
  PROVE  RemovedFrom(rows, ref) = Only(l, ref)
<1> DEFINE n == rows[MetaKey].chunks
           c == [i \in 1 .. n |-> Only(rows[ChunkKey(i - 1)], ref)]
<1>1. n \in Nat /\ Chunked(rows, n)
  BY DEF Holds
<1>2. PICK F : Joins(F, n, rows) /\ F[n] = l
  BY DEF Holds
<1> DEFINE G == [i \in 0 .. n |-> Only(F[i], ref)]
<1>3. RemovedFrom(rows, ref) = FlattenSeq(c)
  BY DEF RemovedFrom
<1>4. c = [i \in 1 .. n |-> c[i]] /\ \A i \in 1 .. n : c[i] = Only(rows[ChunkKey(i - 1)], ref)
  OBVIOUS
<1>5. (\A i \in 0 .. n : G[i] = Only(F[i], ref)) /\ 0 \in 0 .. n /\ n \in 0 .. n
  BY <1>1
<1> HIDE DEF n, c, G
<1>6. \A i \in 0 .. n : F[i] \in Log
  BY <1>1, <1>2, JoinsLog
<1>7. \A i \in 1 .. n : c[i] \in Log
  <2> SUFFICES ASSUME NEW i \in 1 .. n PROVE c[i] \in Log
    OBVIOUS
  <2>1. rows[ChunkKey(i - 1)] \in Log
    BY <1>1, Zenon DEF Chunked
  <2>2. Only(rows[ChunkKey(i - 1)], ref) \in Log
    BY <2>1, WithoutLog, Zenon
  <2> QED BY <1>4, <2>2, Zenon
<1>8. G[0] = <<>>
  BY <1>2, <1>5, OnlyNothing DEF Joins
<1>9. \A i \in 1 .. n : G[i] = Cat(G[i - 1], c[i])
  <2> SUFFICES ASSUME NEW i \in 1 .. n PROVE G[i] = Cat(G[i - 1], c[i])
    OBVIOUS
  <2>1. i \in 0 .. n /\ i - 1 \in 0 .. n
    BY <1>1
  <2> DEFINE a == F[i - 1]
             b == rows[ChunkKey(i - 1)]
  <2>2. a \in Log /\ b \in Log
    BY <1>1, <1>6, <2>1, Zenon DEF Chunked
  <2>3. F[i] = Cat(a, b)
    BY <1>2, Zenon DEF Joins
  <2>4. G[i] = Only(F[i], ref) /\ G[i - 1] = Only(a, ref) /\ c[i] = Only(b, ref)
    BY <1>4, <1>5, <2>1, Zenon
  <2> HIDE DEF a, b
  <2>5. Only(Cat(a, b), ref) = Cat(Only(a, ref), Only(b, ref))
    BY <2>2, WithoutCat
  <2> QED BY <2>3, <2>4, <2>5, Zenon
<1>10. FlattenSeq(c) = G[n]
  BY <1>1, <1>4, <1>7, <1>8, <1>9, FlattenJoined
<1> QED BY <1>2, <1>3, <1>5, <1>10

(* lsRemoveWhere takes the document out, chunk by chunk.                   *)
LEMMA RemoveHolds ==
  ASSUME NEW rows, NEW l, Holds(rows, l), NEW ref
  PROVE  Holds(RemoveBatch(rows, ref) ++ rows, Without(l, ref))
<1> DEFINE meta == rows[MetaKey]
           n == meta.chunks
           touched == {ChunkKey(i) : i \in {j \in 0 .. n - 1 : Only(rows[ChunkKey(j)], ref) # <<>>}}
           kept == [k \in touched |-> Without(rows[k], ref)]
           total == meta.total - Len(RemovedFrom(rows, ref))
           m == OneRow(MetaKey, Manifest(n, total))
           batch == RemoveBatch(rows, ref)
           new == batch ++ rows
<1>1. n \in Nat /\ Chunked(rows, n) /\ meta.total = Len(l) /\ ~HasLegacy(rows)
  BY DEF Holds
<1>2. PICK F : Joins(F, n, rows) /\ F[n] = l
  BY DEF Holds
<1>3. l \in Log
  BY HoldsRead
<1>4. batch = kept ++ m
  BY DEF RemoveBatch
<1>5. DOMAIN kept = touched /\ \A k \in touched : kept[k] = Without(rows[k], ref)
  OBVIOUS
<1>6. DOMAIN m = {MetaKey} /\ m[MetaKey] = Manifest(n, total)
  BY OneRowAt
<1>7. total = Len(Without(l, ref))
  <2> DEFINE x == Len(Without(l, ref))
             y == Len(Only(l, ref))
  <2>1. total = Len(l) - y
    BY <1>1, RemovedHeld
  <2>2. Without(l, ref) \in Log /\ Only(l, ref) \in Log /\ x + y = Len(l)
    BY <1>3, WithoutLog
  <2>3. x \in Nat /\ y \in Nat
    BY <2>2, CatLog
  <2> HIDE DEF total, x, y
  <2>4. total = x
    BY <2>1, <2>2, <2>3
  <2> QED BY <2>4 DEF x
<1>8. MetaKey \notin touched /\ LegacyKey \notin touched
  BY ChunkKeys
<1>9. \A i \in 0 .. n - 1 : ChunkKey(i) \in touched <=> Only(rows[ChunkKey(i)], ref) # <<>>
  <2> SUFFICES ASSUME NEW i \in 0 .. n - 1
               PROVE  ChunkKey(i) \in touched <=> Only(rows[ChunkKey(i)], ref) # <<>>
    OBVIOUS
  <2> HIDE DEF n
  <2>1. ASSUME NEW j \in 0 .. n - 1, ChunkKey(i) = ChunkKey(j) PROVE i = j
    BY <2>1, ChunkKeys, Zenon
  <2> QED BY <2>1
<1> HIDE DEF n, touched, kept, m, total, batch
<1>10. ~HasLegacy(new)
  <2>1. LegacyKey \notin DOMAIN batch
    BY <1>4, <1>5, <1>6, <1>8, OverlayDomain, ChunkKeys
  <2> QED BY <1>1, <2>1, LegacyKept
<1>11. MetaKey \in DOMAIN new /\ new[MetaKey] = Manifest(n, total)
  <2>1. MetaKey \in DOMAIN m /\ MetaKey \notin DOMAIN kept
    BY <1>5, <1>6, <1>8
  <2>2. MetaKey \in DOMAIN batch /\ batch[MetaKey] = m[MetaKey]
    BY <1>4, <2>1, OverlayDomain, OverlayOld
  <2>3. MetaKey \in DOMAIN new /\ new[MetaKey] = batch[MetaKey]
    BY <2>2, OverlayDomain, OverlayNew
  <2> QED BY <1>6, <2>2, <2>3
<1>12. \A i \in 1 .. n : /\ ChunkKey(i - 1) \in DOMAIN new
                        /\ rows[ChunkKey(i - 1)] \in Log
                        /\ new[ChunkKey(i - 1)] = Without(rows[ChunkKey(i - 1)], ref)
  <2> SUFFICES ASSUME NEW i \in 1 .. n
               PROVE  /\ ChunkKey(i - 1) \in DOMAIN new
                      /\ rows[ChunkKey(i - 1)] \in Log
                      /\ new[ChunkKey(i - 1)] = Without(rows[ChunkKey(i - 1)], ref)
    OBVIOUS
  <2> DEFINE key == ChunkKey(i - 1)
  <2>1. i - 1 \in 0 .. n - 1
    BY <1>1
  <2>2. key \in DOMAIN rows /\ rows[key] \in Log
    BY <1>1, Zenon DEF Chunked
  <2>3. key \in touched <=> Only(rows[key], ref) # <<>>
    BY <1>9, <2>1, Zenon
  <2>4. key # MetaKey
    BY ChunkKeys
  <2> HIDE DEF key, new
  <2>5. CASE key \in touched
    <3>1. key \in DOMAIN kept /\ kept[key] = Without(rows[key], ref)
      BY <1>5, <2>5
    <3>2. key \in DOMAIN batch /\ batch[key] = kept[key]
      BY <1>4, <3>1, OverlayDomain, OverlayNew
    <3>3. key \in DOMAIN new /\ new[key] = batch[key]
      BY <3>2, OverlayDomain, OverlayNew DEF new
    <3>4. /\ key \in DOMAIN new /\ rows[key] \in Log /\ new[key] = Without(rows[key], ref)
      BY <2>2, <3>1, <3>2, <3>3
    <3> QED BY <3>4, Zenon DEF key
  <2>6. CASE key \notin touched
    <3>1. key \notin DOMAIN batch
      BY <1>4, <1>5, <1>6, <2>4, <2>6, OverlayDomain
    <3>2. key \in DOMAIN new /\ new[key] = rows[key]
      BY <2>2, <3>1, OverlayDomain, OverlayOld DEF new
    <3>3. Without(rows[key], ref) = rows[key]
      BY <2>2, <2>3, <2>6, WithoutLog
    <3>4. /\ key \in DOMAIN new /\ rows[key] \in Log /\ new[key] = Without(rows[key], ref)
      BY <2>2, <3>2, <3>3
    <3> QED BY <3>4, Zenon DEF key
  <2> QED BY <2>5, <2>6
<1> HIDE DEF new
<1>13. Chunked(new, n)
  <2> SUFFICES ASSUME NEW i \in 1 .. n
               PROVE  ChunkKey(i - 1) \in DOMAIN new /\ new[ChunkKey(i - 1)] \in Log
    BY DEF Chunked
  <2> DEFINE c == rows[ChunkKey(i - 1)]
  <2>1. c \in Log /\ ChunkKey(i - 1) \in DOMAIN new /\ new[ChunkKey(i - 1)] = Without(c, ref)
    BY <1>12
  <2> HIDE DEF c
  <2>2. Without(c, ref) \in Log
    BY <2>1, WithoutLog
  <2> QED BY <2>1, <2>2
<1> DEFINE G == [i \in 0 .. n |-> Without(F[i], ref)]
<1>14. (\A i \in 0 .. n : G[i] = Without(F[i], ref)) /\ 0 \in 0 .. n /\ n \in 0 .. n
  BY <1>1
<1>15. \A i \in 0 .. n : F[i] \in Log
  BY <1>1, <1>2, JoinsLog
<1> HIDE DEF G
<1>16. Joins(G, n, new)
  <2>1. G[0] = <<>>
    BY <1>2, <1>14, WithoutNothing DEF Joins
  <2>2. ASSUME NEW i \in 1 .. n PROVE G[i] = Cat(G[i - 1], new[ChunkKey(i - 1)])
    <3>1. i \in 0 .. n /\ i - 1 \in 0 .. n
      BY <1>1
    <3> DEFINE a == F[i - 1]
               b == rows[ChunkKey(i - 1)]
    <3>2. a \in Log /\ b \in Log
      BY <1>12, <1>15, <3>1, Zenon
    <3>3. F[i] = Cat(a, b)
      BY <1>2, Zenon DEF Joins
    <3>4. G[i] = Without(F[i], ref) /\ G[i - 1] = Without(a, ref)
      BY <1>14, <3>1, Zenon
    <3>5. new[ChunkKey(i - 1)] = Without(b, ref)
      BY <1>12, Zenon
    <3> HIDE DEF a, b
    <3>6. Without(Cat(a, b), ref) = Cat(Without(a, ref), Without(b, ref))
      BY <3>2, WithoutCat
    <3> QED BY <3>3, <3>4, <3>5, <3>6, Zenon
  <2> QED BY <2>1, <2>2 DEF Joins
<1>17. G[n] = Without(l, ref)
  BY <1>2, <1>14
<1>18. new[MetaKey].chunks = n /\ new[MetaKey].total = Len(Without(l, ref))
  BY <1>7, <1>11 DEF Manifest
<1>19. Holds(new, Without(l, ref))
  BY <1>1, <1>10, <1>11, <1>13, <1>16, <1>17, <1>18 DEF Holds
<1> QED BY <1>19 DEF new, batch

(* The migration leaves the readable ledger sorted, in chunks.             *)
LEMMA MigrateHolds ==
  ASSUME NEW rows, NEW count, LsGet(rows) \in Log, Apart(LsGet(rows))
  PROVE  Holds(MigrateBatch(rows, count) ++ rows, OldestFirstOrder(LsGet(rows)))
<1> DEFINE existing == Existing(rows)
           sorted == IF existing = Nil THEN <<>> ELSE OldestFirstOrder(existing)
           chunks == ChunksFor(Len(sorted))
           blanks == IF existing = Nil THEN <<>> ELSE BlankRows(chunks, count)
           c == ChunkRows(sorted, 0)
           first == c ++ blanks
           m == OneRow(MetaKey, Manifest(chunks, Len(sorted)))
           second == first ++ m
           tomb == OneRow(LegacyKey, Tombstone)
           third == second ++ tomb
           batch == MigrateBatch(rows, count)
           new == batch ++ rows
           t == OldestFirstOrder(LsGet(rows))
<1>1. batch = third ++ OneRow(OrderKey, OldestFirst)
  BY DEF MigrateBatch
<1>2. t \in Log
  BY SortedLog
<1>3. sorted = t
  <2>1. CASE HasLegacy(rows)
    BY <2>1 DEF HasLegacy, Row, LsGet, Existing
  <2>2. CASE ~HasLegacy(rows) /\ ReadChunked(rows) # Nil
    BY <2>2 DEF LsGet, Existing
  <2>3. CASE ~HasLegacy(rows) /\ ReadChunked(rows) = Nil
    <3>1. LsGet(rows) = <<>> /\ sorted = <<>>
      BY <2>3 DEF LsGet, Existing
    <3>2. Len(OldestFirstOrder(LsGet(rows))) = Len(LsGet(rows))
      BY SortedLog
    <3>3. Len(t) = 0
      BY <3>1, <3>2
    <3>4. t = <<>>
      <4> DEFINE T == Movement
      <4>1. t \in Seq(T)
        BY <1>2 DEF Log
      <4> HIDE DEF T, t
      <4> QED BY <3>3, <4>1
    <3> HIDE DEF t
    <3> QED BY <3>1, <3>4
  <2> QED BY <2>1, <2>2, <2>3
<1>4. MetaKey \notin DOMAIN blanks /\ LegacyKey \notin DOMAIN blanks
  BY ChunkKeys DEF BlankRows, MetaKey, LegacyKey
<1>5. DOMAIN m = {MetaKey} /\ m[MetaKey] = Manifest(chunks, Len(sorted))
  BY OneRowAt
<1>6. DOMAIN tomb = {LegacyKey} /\ tomb[LegacyKey] = Tombstone
  BY OneRowAt
<1> HIDE DEF blanks, m, tomb, batch, t, sorted
<1>7. /\ \A j \in 0 .. ChunksFor(Len(t)) - 1 :
           ChunkKey(0 + j) \in DOMAIN c /\ c[ChunkKey(0 + j)] = Slice(t, j)
      /\ MetaKey \notin DOMAIN c /\ LegacyKey \notin DOMAIN c
  <2>1. 0 \in Nat
    OBVIOUS
  <2> HIDE DEF c
  <2>2. c = ChunkRows(t, 0)
    BY <1>3 DEF c
  <2> QED BY <1>2, <2>1, <2>2, ChunkRowsAt
<1> HIDE DEF c
<1>8. MetaKey \notin DOMAIN first /\ LegacyKey \notin DOMAIN first
  BY <1>4, <1>7, OverlayDomain
<1> HIDE DEF first
<1>9. MetaKey \in DOMAIN second /\ second[MetaKey] = m[MetaKey] /\ LegacyKey \notin DOMAIN second
  BY <1>5, <1>8, OverlayDomain, OverlayOld, ChunkKeys
<1> HIDE DEF second
<1>10. /\ LegacyKey \in DOMAIN third /\ third[LegacyKey] = Tombstone
       /\ MetaKey \in DOMAIN third /\ third[MetaKey] = m[MetaKey]
  BY <1>6, <1>9, OverlayDomain, OverlayOld, OverlayNew
<1> HIDE DEF third
<1>11. \A k \in DOMAIN third : k \in DOMAIN new /\ new[k] = third[k]
  <2> SUFFICES ASSUME NEW k \in DOMAIN third PROVE k \in DOMAIN new /\ new[k] = third[k]
    OBVIOUS
  <2>1. k \in DOMAIN batch /\ batch[k] = third[k]
    BY <1>1, OverlayDomain, OverlayNew
  <2> QED BY <2>1, OverlayDomain, OverlayNew
<1> HIDE DEF new
<1>12. ~HasLegacy(new)
  BY <1>10, <1>11 DEF HasLegacy, Row
<1>13. MetaKey \in DOMAIN new /\ new[MetaKey] = Manifest(ChunksFor(Len(t)), Len(t))
  BY <1>3, <1>5, <1>10, <1>11
<1>14. \A k \in DOMAIN c : k \in DOMAIN new /\ new[k] = c[k]
  <2> SUFFICES ASSUME NEW k \in DOMAIN c PROVE k \in DOMAIN new /\ new[k] = c[k]
    OBVIOUS
  <2>1. k \in DOMAIN first /\ first[k] = c[k]
    BY OverlayDomain, OverlayNew DEF first
  <2>2. k \in DOMAIN second /\ second[k] = first[k]
    BY <2>1, OverlayDomain, OverlayNew DEF second
  <2>3. k \in DOMAIN third /\ third[k] = second[k]
    BY <2>2, OverlayDomain, OverlayNew DEF third
  <2> QED BY <1>11, <2>1, <2>2, <2>3
<1> DEFINE F == [i \in {0} |-> <<>>]
<1>15. F[0] = <<>> /\ 1 .. 0 = {} /\ 0 \in Nat
  OBVIOUS
<1> HIDE DEF F
<1>16. Chunked(new, 0) /\ Joins(F, 0, new)
  BY <1>15 DEF Chunked, Joins
<1>17. new[MetaKey] = Manifest(0 + ChunksFor(Len(t)), Len(F[0]) + Len(t))
  <2>1. ChunksFor(Len(t)) \in Nat /\ Len(t) \in Nat /\ Len(F[0]) = 0
    BY <1>2, <1>15, CatLog, ChunksEnough
  <2>2. 0 + ChunksFor(Len(t)) = ChunksFor(Len(t)) /\ Len(F[0]) + Len(t) = Len(t)
    BY <2>1
  <2> QED BY <1>13, <2>2
<1>18. \A j \in 0 .. ChunksFor(Len(t)) - 1 :
         ChunkKey(0 + j) \in DOMAIN new /\ new[ChunkKey(0 + j)] = Slice(t, j)
  BY <1>7, <1>14, Zenon
<1>19. Holds(new, Cat(F[0], t))
  BY <1>2, <1>12, <1>13, <1>15, <1>16, <1>17, <1>18, HoldsExtended
<1>20. Cat(F[0], t) = t
  BY <1>2, <1>15, CatLog
<1> QED BY <1>19, <1>20 DEF new, batch, t

---------------------------------------------------------------------------
(* Rows the database may keep                                              *)

(* Rows as the database keeps them: a ledger that can be read; no number   *)
(* twice until it is marked, then in chunks and with no movement behind a  *)
(* later one but those known to be late.                                   *)
RowsRight(rows, late) ==
  /\ rows = [k \in DOMAIN rows |-> rows[k]]
  /\ LsGet(rows) \in Log
  /\ ~Marked(rows) => Apart(LsGet(rows))
  /\ Marked(rows) => InOrder(LsGet(rows), late) /\ Holds(rows, LsGet(rows))

(* Rows that are right stay right as more is written late.                 *)
LEMMA RightLater ==
  ASSUME NEW rows, NEW late, NEW more, late \subseteq more, RowsRight(rows, late)
  PROVE  RowsRight(rows, more)
BY InOrderMore DEF RowsRight

(* Rows written over rows are rows.                                        *)
LEMMA OverlayRows ==
  ASSUME NEW a, NEW b
  PROVE  a ++ b = [k \in DOMAIN (a ++ b) |-> (a ++ b)[k]]
BY DEF ++

(* A marked set of rows that holds a ledger in order is right.             *)
LEMMA HeldRight ==
  ASSUME NEW rows, NEW l \in Log, NEW late, Holds(rows, l), InOrder(l, late), Marked(rows),
         rows = [k \in DOMAIN rows |-> rows[k]]
  PROVE  RowsRight(rows, late) /\ LsGet(rows) = l
<1>1. LsGet(rows) = l
  BY HoldsRead
<1> QED BY <1>1 DEF RowsRight

(* appendStockMovements leaves rows that are right and hold the new        *)
(* movements last.                                                         *)
LEMMA AppendRight ==
  ASSUME NEW rows, NEW late, NEW more, late \subseteq more, RowsRight(rows, late), Marked(rows),
         NEW t \in Log, InOrder(t, more), Late(t, LsGet(rows)) \subseteq more
  PROVE  /\ RowsRight(AppendBatch(rows, t) ++ rows, more)
         /\ LsGet(AppendBatch(rows, t) ++ rows) = Cat(LsGet(rows), t)
         /\ Marked(AppendBatch(rows, t) ++ rows)
<1> DEFINE l == LsGet(rows)
           new == AppendBatch(rows, t) ++ rows
<1>1. l \in Log /\ InOrder(l, more) /\ Holds(rows, l) /\ Late(t, l) \subseteq more
  BY InOrderMore DEF RowsRight
<1>2. new = [k \in DOMAIN new |-> new[k]]
  BY OverlayRows
<1>3. Marked(new)
  BY MarkKept, AppendBatchUnmarked
<1> HIDE DEF l
<1>4. Holds(new, Cat(l, t))
  BY <1>1, AppendHolds
<1>5. Cat(l, t) \in Log
  BY <1>1, CatLog
<1>6. InOrder(Cat(l, t), more)
  BY <1>1, InOrderCat
<1> HIDE DEF new
<1>7. RowsRight(new, more) /\ LsGet(new) = Cat(l, t)
  BY <1>2, <1>3, <1>4, <1>5, <1>6, HeldRight
<1> QED BY <1>3, <1>7 DEF new, l

(* removeStockMovementsByReference leaves rows that are right without the  *)
(* document's movements.                                                   *)
LEMMA RemoveRight ==
  ASSUME NEW rows, NEW late, RowsRight(rows, late), Marked(rows), NEW ref
  PROVE  /\ RowsRight(RemoveBatch(rows, ref) ++ rows, late)
         /\ LsGet(RemoveBatch(rows, ref) ++ rows) = Without(LsGet(rows), ref)
         /\ Marked(RemoveBatch(rows, ref) ++ rows)
         /\ RemovedFrom(rows, ref) = Only(LsGet(rows), ref)
<1> DEFINE l == LsGet(rows)
           new == RemoveBatch(rows, ref) ++ rows
           w == Without(l, ref)
<1>1. l \in Log /\ InOrder(l, late) /\ Holds(rows, l)
  BY DEF RowsRight
<1>2. new = [k \in DOMAIN new |-> new[k]]
  BY OverlayRows
<1>3. Marked(new)
  <2> DEFINE b == RemoveBatch(rows, ref)
  <2>1. OrderKey \notin DOMAIN b
    BY RemoveBatchUnmarked
  <2> HIDE DEF b
  <2>2. Marked(b ++ rows)
    BY <2>1, MarkKept
  <2> QED BY <2>2 DEF b
<1> HIDE DEF l
<1>4. Holds(new, w)
  BY <1>1, RemoveHolds
<1>5. w \in Log /\ InOrder(w, late)
  BY <1>1, WithoutLog, WithoutInOrder
<1> HIDE DEF new, w
<1>6. RowsRight(new, late) /\ LsGet(new) = w
  BY <1>2, <1>3, <1>4, <1>5, HeldRight
<1>7. RemovedFrom(rows, ref) = Only(l, ref)
  BY <1>1, RemovedHeld
<1> QED BY <1>3, <1>6, <1>7 DEF new, w, l

(* The migration leaves rows that are right and hold the ledger sorted.    *)
LEMMA MigrateRight ==
  ASSUME NEW rows, NEW late, RowsRight(rows, late), ~Marked(rows), NEW count
  PROVE  /\ RowsRight(MigrateBatch(rows, count) ++ rows, late)
         /\ LsGet(MigrateBatch(rows, count) ++ rows) = OldestFirstOrder(LsGet(rows))
         /\ Marked(MigrateBatch(rows, count) ++ rows)
<1> DEFINE l == LsGet(rows)
           o == OldestFirstOrder(l)
           new == MigrateBatch(rows, count) ++ rows
<1>1. l \in Log /\ Apart(l)
  BY DEF RowsRight
<1>2. new = [k \in DOMAIN new |-> new[k]]
  BY OverlayRows
<1>3. Holds(new, o)
  BY <1>1, MigrateHolds
<1>4. Marked(new)
  <2> DEFINE b == MigrateBatch(rows, count)
  <2>1. OrderKey \in DOMAIN b /\ b[OrderKey] = OldestFirst
    BY MigrateBatchMarked
  <2> HIDE DEF b
  <2>2. Marked(b ++ rows)
    BY <2>1, OverlayDomain, OverlayNew DEF Marked, Row
  <2> QED BY <2>2 DEF b
<1> HIDE DEF l
<1>5. o \in Log /\ Sorted(o)
  BY <1>1, SortedLog
<1> HIDE DEF new, o
<1>6. InOrder(o, late)
  BY <1>5, SortedInOrder
<1>7. RowsRight(new, late) /\ LsGet(new) = o
  BY <1>2, <1>3, <1>4, <1>5, <1>6, HeldRight
<1> QED BY <1>4, <1>7 DEF new, o, l

(* The movements of one document are a ledger of one date.                 *)
LEMMA RecordedLog ==
  ASSUME NEW ref \in References, NEW n \in Nat, NEW date \in Dates, nextId \in Nat
  PROVE  /\ Recorded(ref, n, date) \in Log
         /\ \A late : InOrder(Recorded(ref, n, date), late)
<1> DEFINE r == Recorded(ref, n, date)
           M == Movement
<1>0. date \in Int
  BY LedgerAssumption
<1>1. \A i \in 1 .. n : r[i] = [id |-> nextId + i - 1, ref |-> ref, date |-> date]
  BY DEF Recorded
<1>2. \A i \in 1 .. n : [id |-> nextId + i - 1, ref |-> ref, date |-> date] \in M
  BY <1>0 DEF Movement
<1>3. r = [i \in 1 .. n |-> r[i]]
  BY DEF Recorded
<1>4. r \in [1 .. n -> M] /\ Len(r) = n
  <2> HIDE DEF M
  <2>1. \A i \in 1 .. n : r[i] \in M
    BY <1>1, <1>2
  <2> HIDE DEF r
  <2>2. r \in [1 .. n -> M]
    BY <1>3, <2>1
  <2>3. Len(r) = n
    BY <2>2
  <2> QED BY <2>2, <2>3
<1>5. r \in Log
  <2> HIDE DEF M, r
  <2>1. r \in Seq(M)
    BY <1>4
  <2> QED BY <2>1 DEF Log, M
<1> HIDE DEF r, M
<1>6. \A i \in 1 .. n : r[i].date = date
  <2> SUFFICES ASSUME NEW i \in 1 .. n PROVE r[i].date = date
    OBVIOUS
  <2>1. [id |-> nextId + i - 1, ref |-> ref, date |-> date].date = date
    OBVIOUS
  <2>2. r[i] = [id |-> nextId + i - 1, ref |-> ref, date |-> date]
    BY <1>1, Zenon
  <2> QED BY <2>1, <2>2, Zenon
<1>7. ~(date < date)
  BY <1>0
<1>8. \A j, k \in 1 .. Len(r) : ~(r[k].date < r[j].date)
  <2> SUFFICES ASSUME NEW j \in 1 .. Len(r), NEW k \in 1 .. Len(r) PROVE ~(r[k].date < r[j].date)
    OBVIOUS
  <2>1. r[k].date = date /\ r[j].date = date
    BY <1>4, <1>6
  <2> QED BY <1>7, <2>1
<1>9. \A late : InOrder(r, late)
  BY <1>8, Zenon DEF InOrder
<1> QED BY <1>5, <1>9 DEF r

---------------------------------------------------------------------------
(* What a shop's database holds when this version is first started.        *)
LEMMA StoredRight ==
  ASSUME NEW l \in StartLedgers, NEW rows \in IF l = <<>> THEN {<<>>} ELSE StoredAs(l)
  PROVE  (\A late : RowsRight(rows, late)) /\ ~Marked(rows) /\ LsGet(rows) = l
<1>1. /\ l \in Log
      /\ \A i, j \in 1 .. Len(l) : i # j => l[i].id # l[j].id
  BY LedgerAssumption DEF Log
<1>2. Apart(l)
  BY <1>1 DEF Apart
<1>3. CASE l = <<>>
  <2>1. rows = <<>> /\ DOMAIN <<>> = {}
    BY <1>3
  <2>2. ~HasLegacy(rows) /\ ReadChunked(rows) = Nil /\ ~Marked(rows)
    BY <2>1, NilAssumption DEF HasLegacy, Row, ReadChunked, Marked
  <2>3. LsGet(rows) = <<>>
    BY <2>2 DEF LsGet
  <2>4. rows = [k \in DOMAIN rows |-> rows[k]]
    BY <2>1
  <2> QED BY <1>1, <1>2, <1>3, <2>2, <2>3, <2>4 DEF RowsRight
<1>4. CASE l # <<>> /\ rows = OneRow(LegacyKey, l)
  <2>1. DOMAIN rows = {LegacyKey} /\ rows[LegacyKey] = l
    BY <1>4, OneRowAt
  <2>2. rows = [k \in DOMAIN rows |-> rows[k]]
    BY <1>4 DEF OneRow
  <2>3. HasLegacy(rows)
    BY <1>1, <2>1, NilNoLog DEF HasLegacy, Row
  <2>4. LsGet(rows) = l
    BY <2>1, <2>3 DEF LsGet
  <2>5. ~Marked(rows)
    BY <2>1, ChunkKeys, NilAssumption DEF Marked, Row
  <2> QED BY <1>1, <1>2, <2>2, <2>4, <2>5 DEF RowsRight
<1>5. CASE /\ l # <<>>
           /\ rows = ChunkRows(l, 0) ++ OneRow(MetaKey, Manifest(ChunksFor(Len(l)), Len(l)))
                       ++ OneRow(LegacyKey, Tombstone)
  <2> DEFINE batch == ChunkRows(l, 0) ++ OneRow(MetaKey, Manifest(ChunksFor(Len(l)), Len(l)))
             old == OneRow(LegacyKey, Tombstone)
             F == [i \in {0} |-> <<>>]
  <2>1. F[0] = <<>> /\ 1 .. 0 = {} /\ 0 \in Nat
    OBVIOUS
  <2>2. DOMAIN old = {LegacyKey} /\ old[LegacyKey] = Tombstone
    BY OneRowAt
  <2>3. Len(l) \in Nat /\ ChunksFor(Len(l)) \in Nat
    BY <1>1, CatLog, ChunksEnough
  <2>4. 0 + ChunksFor(Len(l)) = ChunksFor(Len(l)) /\ Len(l) = 0 + Len(l)
    BY <2>3
  <2>5. batch = ChunkRows(l, 0) ++ OneRow(MetaKey, Manifest(0 + ChunksFor(Len(l)), Len(l)))
    BY <2>4
  <2> HIDE DEF F, old
  <2>6. ~HasLegacy(old) /\ Chunked(old, 0) /\ Joins(F, 0, old)
    BY <2>1, <2>2 DEF HasLegacy, Row, Chunked, Joins
  <2>7. Len(l) = Len(F[0]) + Len(l)
    BY <2>1, <2>4
  <2>8. OrderKey \notin DOMAIN batch /\ OrderKey \notin DOMAIN old
    BY <2>2, ChunkRowsUnmarked, OneRowUnmarked, OverlayDomain, ChunkKeys
  <2> HIDE DEF batch
  <2>9. Holds(batch ++ old, Cat(F[0], l))
    BY <1>1, <2>1, <2>5, <2>6, <2>7, ExtendedBy
  <2>10. Cat(F[0], l) = l
    BY <1>1, <2>1, CatLog
  <2>11. rows = batch ++ old
    BY <1>5 DEF batch, old
  <2>12. LsGet(rows) = l
    BY <2>9, <2>10, <2>11, HoldsRead
  <2>13. ~Marked(rows)
    BY <2>8, <2>11, OverlayDomain, NilAssumption DEF Marked, Row
  <2>14. rows = [k \in DOMAIN rows |-> rows[k]]
    BY <2>11, OverlayRows
  <2> QED BY <1>1, <1>2, <2>12, <2>13, <2>14 DEF RowsRight
<1> QED BY <1>3, <1>4, <1>5 DEF StoredAs

---------------------------------------------------------------------------
(* The images of the database                                              *)

(* Every image of the database is right.                                   *)
AllRight(s, late) == IsSeq(s) /\ \A i \in 1 .. Len(s) : RowsRight(s[i], late)

(* The ledgers the images hold. *)
Hist(s) == [i \in 1 .. Len(s) |-> LsGet(s[i])]

(* A batch sent adds one image, and its ledger to those the images hold.   *)
LEMMA AppendAllRight ==
  ASSUME NEW s, NEW late, NEW more, late \subseteq more, AllRight(s, late),
         NEW x, RowsRight(x, more)
  PROVE  /\ AllRight(Append(s, x), more) /\ Hist(Append(s, x)) = Append(Hist(s), LsGet(x))
         /\ Append(s, x) # <<>> /\ Last(Append(s, x)) = x
<1> DEFINE S == {s[i] : i \in DOMAIN s} \cup {x}
           t == Append(s, x)
<1>1. s \in Seq(S)
  BY DEF AllRight, IsSeq
<1>2. Len(s) \in Nat /\ Len(t) = Len(s) + 1 /\ t[Len(s) + 1] = x /\ \A i \in 1 .. Len(s) : t[i] = s[i]
  BY <1>1
<1>3. IsSeq(t) /\ t # <<>> /\ Last(t) = x
  BY AppendLast DEF AllRight
<1> HIDE DEF t, S
<1>4. \A i \in 1 .. Len(t) : RowsRight(t[i], more)
  <2> SUFFICES ASSUME NEW i \in 1 .. Len(t) PROVE RowsRight(t[i], more)
    OBVIOUS
  <2>1. CASE i \in 1 .. Len(s)
    <3>1. RowsRight(s[i], late)
      BY <2>1 DEF AllRight
    <3>2. RowsRight(s[i], more)
      BY <3>1, RightLater
    <3> QED BY <1>2, <2>1, <3>2
  <2>2. CASE i \notin 1 .. Len(s)
    <3>1. i = Len(s) + 1
      BY <1>2, <2>2
    <3> QED BY <1>2, <3>1
  <2> QED BY <2>1, <2>2
<1>5. Hist(t) = Append(Hist(s), LsGet(x))
  <2> DEFINE h == Hist(s)
             A == {h[i] : i \in 1 .. Len(s)} \cup {LsGet(x)}
             e == LsGet(x)
  <2>1. h = [i \in 1 .. Len(s) |-> h[i]] /\ \A i \in 1 .. Len(s) : h[i] = LsGet(s[i])
    BY DEF Hist
  <2> HIDE DEF h, e
  <2>2. \A i \in 1 .. Len(s) : h[i] \in A
    OBVIOUS
  <2>3. e \in A
    BY DEF e
  <2> HIDE DEF A
  <2>4. h \in Seq(A) /\ Len(h) = Len(s)
    BY <1>2, <2>1, <2>2
  <2> DEFINE a == Append(h, e)
  <2>5. /\ a \in Seq(A) /\ Len(a) = Len(s) + 1
        /\ (\A i \in 1 .. Len(s) : a[i] = h[i]) /\ a[Len(s) + 1] = e
    <3>1. h \in Seq(A)
      BY <2>4
    <3>2. /\ a \in Seq(A) /\ Len(a) = Len(h) + 1
          /\ (\A i \in 1 .. Len(h) : a[i] = h[i]) /\ a[Len(h) + 1] = e
      BY <2>3, <3>1, AppendProperties
    <3> HIDE DEF a
    <3> QED BY <2>4, <3>2
  <2> HIDE DEF a
  <2>9. a = [i \in 1 .. Len(s) + 1 |-> a[i]]
    BY <1>2, <2>5
  <2>6. Hist(t) = [i \in 1 .. Len(s) + 1 |-> LsGet(t[i])]
    BY <1>2 DEF Hist
  <2>7. \A i \in 1 .. Len(s) + 1 : LsGet(t[i]) = a[i]
    <3> SUFFICES ASSUME NEW i \in 1 .. Len(s) + 1 PROVE LsGet(t[i]) = a[i]
      OBVIOUS
    <3>1. CASE i = Len(s) + 1
      BY <1>2, <2>5, <3>1 DEF e
    <3>2. CASE i # Len(s) + 1
      <4>1. i \in 1 .. Len(s)
        BY <1>2, <3>2
      <4>2. LsGet(t[i]) = LsGet(s[i]) /\ h[i] = LsGet(s[i]) /\ a[i] = h[i]
        BY <1>2, <2>1, <2>5, <4>1
      <4> QED BY <4>2
    <3> QED BY <3>1, <3>2
  <2>8. Hist(t) = a
    BY <2>6, <2>7, <2>9
  <2> QED BY <2>8 DEF a, h, e
<1> QED BY <1>3, <1>4, <1>5 DEF t, AllRight

(* A batch committed takes the first image away.                           *)
LEMMA TailAllRight ==
  ASSUME NEW s, NEW late, AllRight(s, late), Len(s) > 1
  PROVE  AllRight(Tail(s), late) /\ Tail(s) # <<>> /\ Last(Tail(s)) = Last(s)
<1> DEFINE S == {s[i] : i \in DOMAIN s}
<1>1. s \in Seq(S)
  BY DEF AllRight, IsSeq
<1>2. Len(s) \in Nat /\ Len(Tail(s)) = Len(s) - 1 /\ \A i \in 1 .. Len(s) - 1 : Tail(s)[i] = s[i + 1]
  BY <1>1
<1>3. IsSeq(Tail(s)) /\ Tail(s) # <<>> /\ Last(Tail(s)) = Last(s)
  BY TailLast DEF AllRight
<1>4. \A i \in 1 .. Len(Tail(s)) : RowsRight(Tail(s)[i], late)
  <2> SUFFICES ASSUME NEW i \in 1 .. Len(Tail(s)) PROVE RowsRight(Tail(s)[i], late)
    OBVIOUS
  <2>1. i \in 1 .. Len(s) - 1 /\ i + 1 \in 1 .. Len(s)
    BY <1>2
  <2>2. Tail(s)[i] = s[i + 1]
    BY <1>2, <2>1
  <2> QED BY <2>1, <2>2 DEF AllRight
<1> QED BY <1>3, <1>4 DEF AllRight

(* A database with no batch in flight is one image.                        *)
LEMMA OneAllRight ==
  ASSUME NEW x, NEW late, RowsRight(x, late)
  PROVE  AllRight(<<x>>, late) /\ <<x>> # <<>> /\ Last(<<x>>) = x
<1>1. IsSeq(<<x>>) /\ <<x>> # <<>> /\ Len(<<x>>) = 1 /\ Last(<<x>>) = x /\ <<x>>[1] = x
  BY OneImage
<1>2. \A i \in 1 .. 1 : i = 1
  OBVIOUS
<1> QED BY <1>1, <1>2 DEF AllRight

(* The first image and the last are right like the others.                 *)
LEMMA EndsRight ==
  ASSUME NEW s, NEW late, AllRight(s, late), s # <<>>
  PROVE  RowsRight(Head(s), late) /\ RowsRight(Last(s), late)
<1> DEFINE S == {s[i] : i \in DOMAIN s}
<1>1. s \in Seq(S)
  BY DEF AllRight, IsSeq
<1>2. 1 \in 1 .. Len(s) /\ Len(s) \in 1 .. Len(s) /\ Head(s) = s[1]
  BY <1>1
<1> QED BY <1>2 DEF AllRight, Last

---------------------------------------------------------------------------
(* What each action does to the rows, the list and the books               *)

(* A ledger screen that lists anything lists the whole ledger.             *)
ListRight == list # <<>> => list = Reverse(LsGet(Settled))

(* The books are the ledger a sign-in would open.                          *)
BooksRight == books = AtSignIn(Settled)

(* What a deleted document left is a ledger of its own, with no movement   *)
(* behind a later one but those known to be late.                          *)
SnapshotsRight ==
  /\ snapshots = [ref \in References |-> snapshots[ref]]
  /\ \A ref \in References : snapshots[ref] \in Log /\ InOrder(snapshots[ref], backdated)

(* The rows, and what the program and the books make of them.              *)
Right == AllRight(images, backdated) /\ ListRight /\ BooksRight /\ SnapshotsRight

LedgerInv == IInv /\ Right

(* The renderer reads what the database will hold, and that is right.      *)
LEMMA SettledRight ==
  ASSUME LedgerInv
  PROVE  /\ RowsRight(Settled, backdated) /\ RowsRight(Disk, backdated) /\ nextId \in Nat
         /\ View = Settled /\ LsGet(Settled) \in Log
<1>1. images # <<>> /\ nextId \in Nat
  BY BoundsAssumption DEF LedgerInv, IInv, TypeOK
<1>2. RowsRight(Settled, backdated) /\ RowsRight(Disk, backdated)
  BY <1>1, EndsRight DEF LedgerInv, Right, Settled, Disk
<1>3. View = Settled
  <2> DEFINE r == Settled
  <2>1. r = [k \in DOMAIN r |-> r[k]]
    BY <1>2 DEF RowsRight
  <2>2. \A k \in DOMAIN cache : k \in DOMAIN r /\ cache[k] = r[k]
    BY DEF LedgerInv, IInv, CacheCoherent
  <2> HIDE DEF r
  <2>3. cache ++ r = [k \in DOMAIN r |-> r[k]]
    BY <2>2 DEF ++
  <2>4. cache ++ r = r
    BY <2>1, <2>3
  <2> QED BY <2>4 DEF r, View
<1> QED BY <1>1, <1>2, <1>3 DEF RowsRight

(* A signed-in shop has the ledger of its marked rows on the books.        *)
LEMMA ReadyBooks ==
  ASSUME LedgerInv, session = "ready"
  PROVE  Marked(Settled) /\ books = LsGet(Settled)
BY DEF LedgerInv, IInv, Readiness, Right, BooksRight, AtSignIn, Marked

(* What was kept of the deleted documents stays right as more is written   *)
(* late.                                                                   *)
LEMMA KeptLater ==
  ASSUME SnapshotsRight, backdated \subseteq backdated', UNCHANGED snapshots
  PROVE  SnapshotsRight'
<1>1. \A ref \in References : InOrder(snapshots[ref], backdated')
  BY InOrderMore DEF SnapshotsRight
<1> QED BY <1>1 DEF SnapshotsRight

(* A database as the version before left it is right.                      *)
LEMMA InitLedgerInv == Init => LedgerInv
<1> SUFFICES ASSUME Init PROVE LedgerInv
  OBVIOUS
<1>1. PICK l \in StartLedgers :
        images \in {<<rows>> : rows \in IF l = <<>> THEN {<<>>} ELSE StoredAs(l)}
  BY DEF Init
<1>2. PICK rows \in IF l = <<>> THEN {<<>>} ELSE StoredAs(l) : images = <<rows>>
  BY <1>1
<1>3. RowsRight(rows, backdated)
  BY StoredRight
<1>4. AllRight(images, backdated) /\ Settled = rows
  BY <1>2, <1>3, OneAllRight DEF Settled
<1>5. Disk = Settled
  BY <1>2, <1>4 DEF Disk
<1>6. ListRight
  BY DEF Init, ListRight
<1>7. BooksRight
  BY <1>5 DEF Init, BooksRight
<1>8. SnapshotsRight
  <2>1. snapshots = [ref \in References |-> <<>>]
    BY DEF Init
  <2>2. <<>> \in Log
    BY DEF Log
  <2> QED BY <2>1, <2>2, InOrderNothing DEF SnapshotsRight
<1> QED BY <1>4, <1>6, <1>7, <1>8, InitIInv DEF LedgerInv, Right

(* The list shows the new movements before those it had.                   *)
LEMMA ShownRight ==
  ASSUME NEW l \in Log, NEW t \in Log, NEW shown, shown # <<>> => shown = Reverse(l)
  PROVE  Shown(t, shown) # <<>> => Shown(t, shown) = Reverse(Cat(l, t))
<1>1. Reverse(Cat(l, t)) = Cat(Reverse(t), Reverse(l))
  BY ReverseCat
<1> QED BY <1>1 DEF Shown, Cat

(* The list loses the same movements as the ledger.                        *)
LEMMA ShownWithout ==
  ASSUME NEW l \in Log, NEW ref, NEW shown, shown # <<>> => shown = Reverse(l)
  PROVE  Without(shown, ref) # <<>> => Without(shown, ref) = Reverse(Without(l, ref))
BY WithoutReverse, WithoutNothing

(* appendStockMovements: one ledger more, with the new movements last.     *)
LEMMA AppendDoes ==
  ASSUME LedgerInv, session = "ready", NEW t \in Log, AppendMovements(t),
         WrittenBehind(books, t), InOrder(t, backdated')
  PROVE  /\ AllRight(images', backdated') /\ ListRight' /\ BooksRight'
         /\ backdated \subseteq backdated'
         /\ Hist(images') = Append(Hist(images), Cat(LsGet(Settled), t))
<1> DEFINE l == LsGet(Settled)
           new == AppendBatch(Settled, t) ++ Settled
           more == backdated'
<1>1. RowsRight(Settled, backdated) /\ View = Settled /\ l \in Log
  BY SettledRight
<1>2. Marked(Settled) /\ books = l
  BY ReadyBooks
<1>3. backdated \subseteq more /\ Late(t, l) \subseteq more
  BY <1>2 DEF WrittenBehind
<1>4. CanAppend(View)
  BY <1>1, <1>2, HoldsRead DEF RowsRight
<1>5. images' = Append(images, new) /\ list' = Shown(t, list) /\ books' = books \o t
  BY <1>1, <1>4 DEF AppendMovements, WrittenBehind, Sent
<1>6. InOrder(t, more)
  OBVIOUS
<1> HIDE DEF more
<1>7. RowsRight(new, more) /\ LsGet(new) = Cat(l, t) /\ Marked(new)
  BY <1>1, <1>2, <1>3, <1>6, AppendRight
<1> HIDE DEF new
<1>8. /\ AllRight(images', more) /\ Settled' = new
      /\ Hist(images') = Append(Hist(images), Cat(l, t))
  <2>1. AllRight(images, backdated)
    BY DEF LedgerInv, Right
  <2> QED BY <1>3, <1>5, <1>7, <2>1, AppendAllRight DEF Settled
<1>9. ListRight'
  <2>1. list # <<>> => list = Reverse(l)
    BY DEF LedgerInv, Right, ListRight
  <2> HIDE DEF l
  <2>2. list' # <<>> => list' = Reverse(Cat(l, t))
    BY <1>1, <1>5, <2>1, ShownRight
  <2> QED BY <1>7, <1>8, <2>2 DEF ListRight
<1>10. BooksRight'
  <2> HIDE DEF l
  <2>2. books' = Cat(l, t)
    BY <1>2, <1>5 DEF Cat
  <2> QED BY <1>7, <1>8, <2>2 DEF BooksRight, AtSignIn, Marked
<1> QED BY <1>3, <1>8, <1>9, <1>10 DEF more

(* A document appends its own movements.                                   *)
LEMMA RecordDoes ==
  ASSUME LedgerInv, NEW ref \in References, NEW n \in 1 .. MaxItems, NEW date \in Dates,
         Record(ref, n, date)
  PROVE  /\ Right' /\ nextId' = nextId + n /\ UNCHANGED snapshots
         /\ Hist(images') = Append(Hist(images), Cat(LsGet(Settled), Recorded(ref, n, date)))
<1> DEFINE t == Recorded(ref, n, date)
<1>1. n \in Nat /\ nextId \in Nat
  BY SettledRight, BoundsAssumption
<1>2. t \in Log /\ InOrder(t, backdated')
  BY <1>1, RecordedLog
<1>3. /\ session = "ready" /\ AppendMovements(t) /\ WrittenBehind(books, t)
      /\ nextId' = nextId + n /\ snapshots' = snapshots
  BY DEF Record
<1> HIDE DEF t
<1>4. /\ AllRight(images', backdated') /\ ListRight' /\ BooksRight'
      /\ backdated \subseteq backdated'
      /\ Hist(images') = Append(Hist(images), Cat(LsGet(Settled), t))
  BY <1>2, <1>3, AppendDoes
<1>5. SnapshotsRight'
  BY <1>3, <1>4, KeptLater DEF LedgerInv, Right
<1> QED BY <1>3, <1>4, <1>5 DEF t, Right

(* restoreDeletedInvoice appends what the audit log kept, and forgets it.  *)
LEMMA RestoreDoes ==
  ASSUME LedgerInv, NEW ref \in References, Restore(ref)
  PROVE  /\ Right' /\ nextId' = nextId
         /\ snapshots[ref] # <<>> /\ snapshots' = [snapshots EXCEPT ![ref] = <<>>]
         /\ Only(LsGet(Settled), ref) = <<>>
         /\ Hist(images') = Append(Hist(images), Cat(LsGet(Settled), snapshots[ref]))
<1> DEFINE t == snapshots[ref]
<1>1. SnapshotsRight
  BY DEF LedgerInv, Right
<1>2. /\ session = "ready" /\ AppendMovements(t) /\ WrittenBehind(books, t) /\ t # <<>>
      /\ nextId' = nextId /\ snapshots' = [snapshots EXCEPT ![ref] = <<>>] /\ ~OnFile(ref)
  BY DEF Restore
<1>3. backdated \subseteq backdated'
  BY <1>2 DEF WrittenBehind
<1>4. t \in Log /\ InOrder(t, backdated')
  BY <1>1, <1>3, InOrderMore DEF SnapshotsRight
<1>5. Only(LsGet(Settled), ref) = <<>>
  BY <1>2, ReadyBooks DEF OnFile
<1> HIDE DEF t
<1>6. /\ AllRight(images', backdated') /\ ListRight' /\ BooksRight'
      /\ Hist(images') = Append(Hist(images), Cat(LsGet(Settled), t))
  BY <1>2, <1>4, AppendDoes
<1>7. SnapshotsRight'
  <2>1. <<>> \in Log
    BY DEF Log
  <2>2. \A r \in References : InOrder(snapshots[r], backdated')
    BY <1>1, <1>3, InOrderMore DEF SnapshotsRight
  <2>3. DOMAIN snapshots = References
    BY <1>1 DEF SnapshotsRight
  <2>4. /\ snapshots' = [r \in References |-> snapshots'[r]]
        /\ \A r \in References : snapshots'[r] = IF r = ref THEN <<>> ELSE snapshots[r]
    BY <1>2, <2>3
  <2> QED BY <1>1, <2>1, <2>2, <2>4, InOrderNothing DEF SnapshotsRight
<1> QED BY <1>2, <1>5, <1>6, <1>7 DEF t, Right

(* removeStockMovementsByReference, of a document on file: always a batch, *)
(* and what it takes out is what the audit log keeps.                      *)
LEMMA EraseDoes ==
  ASSUME LedgerInv, NEW ref \in References, Erase(ref)
  PROVE  /\ Right' /\ nextId' = nextId
         /\ Only(LsGet(Settled), ref) # <<>>
         /\ snapshots' = [snapshots EXCEPT ![ref] = Only(LsGet(Settled), ref)]
         /\ Hist(images') = Append(Hist(images), Without(LsGet(Settled), ref))
<1> DEFINE l == LsGet(Settled)
           w == Without(l, ref)
           o == Only(l, ref)
           new == RemoveBatch(Settled, ref) ++ Settled
<1>1. RowsRight(Settled, backdated) /\ View = Settled /\ l \in Log
  BY SettledRight
<1>2. Marked(Settled) /\ books = l
  BY ReadyBooks DEF Erase
<1>3. InOrder(l, backdated)
  BY <1>1, <1>2 DEF RowsRight
<1>4. CanRemove(View)
  BY <1>1, <1>2, HoldsRead DEF RowsRight
<1>5. RowsRight(new, backdated) /\ LsGet(new) = w /\ Marked(new) /\ RemovedFrom(Settled, ref) = o
  BY <1>1, <1>2, RemoveRight
<1>6. o # <<>>
  BY <1>2 DEF Erase, OnFile
<1>7. /\ images' = Append(images, new)
      /\ snapshots' = [snapshots EXCEPT ![ref] = o]
  BY <1>1, <1>4, <1>5, <1>6 DEF Erase, Sent
<1>8. /\ list' = Without(list, ref) /\ nextId' = nextId /\ books' = w
      /\ backdated' = backdated
  BY <1>2 DEF Erase
<1>9. list # <<>> => list = Reverse(l)
  BY DEF LedgerInv, Right, ListRight
<1> HIDE DEF l, o
<1>10. list' # <<>> => list' = Reverse(w)
  BY <1>1, <1>8, <1>9, ShownWithout
<1>11. w \in Log /\ o \in Log /\ InOrder(o, backdated)
  BY <1>1, <1>3, WithoutLog, WithoutInOrder DEF o
<1> HIDE DEF new, w
<1>12. AllRight(images', backdated') /\ Settled' = new /\ Hist(images') = Append(Hist(images), w)
  <2>1. AllRight(images, backdated)
    BY DEF LedgerInv, Right
  <2> QED BY <1>5, <1>7, <1>8, <2>1, AppendAllRight DEF Settled
<1>13. ListRight' /\ BooksRight'
  BY <1>5, <1>8, <1>10, <1>12 DEF ListRight, BooksRight, AtSignIn, Marked
<1>14. SnapshotsRight'
  <2>1. SnapshotsRight
    BY DEF LedgerInv, Right
  <2>2. DOMAIN snapshots = References
    BY <2>1 DEF SnapshotsRight
  <2>3. /\ snapshots' = [r \in References |-> snapshots'[r]]
        /\ \A r \in References : snapshots'[r] = IF r = ref THEN o ELSE snapshots[r]
    BY <1>7, <2>2
  <2> QED BY <1>8, <1>11, <2>1, <2>3 DEF SnapshotsRight
<1> QED BY <1>6, <1>7, <1>8, <1>12, <1>13, <1>14 DEF w, o, l, Right

(* replaceStockMovementsForReference, of a document on file: two ledgers   *)
(* more, without the document and with its new movements last.             *)
LEMMA ReplaceDoes ==
  ASSUME LedgerInv, NEW ref \in References, NEW n \in 1 .. MaxItems, NEW date \in Dates,
         Replace(ref, n, date)
  PROVE  /\ Right' /\ nextId' = nextId + n /\ UNCHANGED snapshots
         /\ Only(LsGet(Settled), ref) # <<>>
         /\ Hist(images') =
              Append(Append(Hist(images), Without(LsGet(Settled), ref)),
                     Cat(Without(LsGet(Settled), ref), Recorded(ref, n, date)))
<1> DEFINE t == Recorded(ref, n, date)
           l == LsGet(Settled)
           w == Without(l, ref)
           mid == RemoveBatch(Settled, ref) ++ Settled
           addition == AppendBatch(mid, t)
           new == addition ++ mid
           more == backdated'
<1>1. /\ RowsRight(Settled, backdated) /\ nextId \in Nat /\ View = Settled /\ l \in Log
      /\ n \in Nat
  BY SettledRight, BoundsAssumption
<1>2. Marked(Settled) /\ books = l
  BY ReadyBooks DEF Replace
<1>3. t \in Log /\ InOrder(t, more)
  BY <1>1, RecordedLog
<1>4. CanRemove(View)
  BY <1>1, <1>2, HoldsRead DEF RowsRight
<1>5. Only(l, ref) # <<>>
  BY <1>2 DEF Replace, OnFile
<1>6. RowsRight(mid, backdated) /\ LsGet(mid) = w /\ Marked(mid) /\ RemovedFrom(View, ref) = Only(l, ref)
  BY <1>1, <1>2, RemoveRight
<1>7. /\ images' = Append(Append(images, mid), new)
      /\ list' = Shown(t, Without(list, ref)) /\ nextId' = nextId + n /\ snapshots' = snapshots
      /\ WrittenBehind(Without(books, ref), t)
  <2> DEFINE removal == RemoveBatch(View, ref)
  <2>1. RemovedFrom(View, ref) # <<>>
    BY <1>5, <1>6
  <2>2. removal ++ Settled = mid /\ ViewAfter(removal) = mid
    BY <1>1 DEF ViewAfter
  <2>3. AppendBatch(ViewAfter(removal), t) = addition
    BY <2>2
  <2>4. addition ++ removal ++ Settled = new
    BY <2>2 DEF ++
  <2>5. /\ images' = Append(Sent(removal), AppendBatch(ViewAfter(removal), t) ++ removal ++ Settled)
        /\ list' = Shown(t, Without(list, ref)) /\ nextId' = nextId + n /\ snapshots' = snapshots
        /\ WrittenBehind(Without(books, ref), t)
    BY <1>4, <2>1 DEF Replace
  <2> QED BY <2>2, <2>3, <2>4, <2>5 DEF Sent
<1>8. books' = w \o t /\ backdated \subseteq more /\ Late(t, w) \subseteq more
  BY <1>2, <1>7 DEF WrittenBehind
<1>9. list # <<>> => list = Reverse(l)
  BY DEF LedgerInv, Right, ListRight
<1>10. w \in Log
  BY <1>1, WithoutLog
<1> HIDE DEF t, l, mid, addition, more
<1>11. Without(list, ref) # <<>> => Without(list, ref) = Reverse(w)
  BY <1>1, <1>9, ShownWithout
<1> HIDE DEF w
<1>12. RowsRight(new, more) /\ LsGet(new) = Cat(w, t) /\ Marked(new)
  <2>1. new = AppendBatch(mid, t) ++ mid
    BY DEF addition
  <2> HIDE DEF new
  <2> QED BY <1>3, <1>6, <1>8, <2>1, AppendRight
<1> HIDE DEF new
<1>13. AllRight(Append(images, mid), backdated) /\ Hist(Append(images, mid)) = Append(Hist(images), w)
  <2>1. AllRight(images, backdated)
    BY DEF LedgerInv, Right
  <2> QED BY <1>6, <2>1, AppendAllRight
<1>14. /\ AllRight(images', more) /\ Settled' = new
       /\ Hist(images') = Append(Append(Hist(images), w), Cat(w, t))
  <2> DEFINE s == Append(images, mid)
  <2>1. images' = Append(s, new) /\ AllRight(s, backdated) /\ Hist(s) = Append(Hist(images), w)
    BY <1>7, <1>13
  <2> HIDE DEF s
  <2>2. /\ AllRight(Append(s, new), more) /\ Last(Append(s, new)) = new
        /\ Hist(Append(s, new)) = Append(Hist(s), LsGet(new))
    BY <1>8, <1>12, <2>1, AppendAllRight
  <2> QED BY <1>12, <2>1, <2>2 DEF Settled
<1>15. ListRight'
  <2> DEFINE x == Without(list, ref)
  <2> HIDE DEF x
  <2>1. x # <<>> => x = Reverse(w)
    BY <1>11 DEF x
  <2>2. Shown(t, x) # <<>> => Shown(t, x) = Reverse(Cat(w, t))
    BY <1>3, <1>10, <2>1, ShownRight
  <2>3. list' # <<>> => list' = Reverse(Cat(w, t))
    BY <1>7, <2>2 DEF x
  <2> QED BY <1>12, <1>14, <2>3 DEF ListRight
<1>16. BooksRight'
  <2>1. books' = Cat(w, t)
    BY <1>8 DEF Cat
  <2> QED BY <1>12, <1>14, <2>1 DEF BooksRight, AtSignIn, Marked
<1>17. SnapshotsRight'
  BY <1>7, <1>8, KeptLater DEF LedgerInv, Right, more
<1> QED BY <1>5, <1>7, <1>14, <1>15, <1>16, <1>17 DEF t, w, l, more, Right

(* What leaves the rows, the books and what was kept alone leaves them     *)
(* right.                                                                  *)
LEMMA UntouchedRight ==
  ASSUME LedgerInv, UNCHANGED <<images, docVars>>, ListRight'
  PROVE  Right'
<1>1. Settled' = Settled
  BY DEF Settled
<1> QED BY <1>1 DEF LedgerInv, Right, BooksRight, SnapshotsRight, docVars

(* finalizeDesktopAuthentication: only the migration changes the images.   *)
LEMMA LoginDoes ==
  ASSUME LedgerInv, Login
  PROVE  /\ Right' /\ UNCHANGED <<nextId, snapshots>>
         /\ \/ images' = images
            \/ /\ Hist(images') = Append(Hist(images), OldestFirstOrder(LsGet(Settled)))
               /\ Apart(LsGet(Settled))
<1> DEFINE l == LsGet(Settled)
           new == MigrateBatch(Settled, Counted(Settled)) ++ Settled
<1>1. RowsRight(Settled, backdated)
  BY SettledRight
<1>2. list' = <<>> /\ UNCHANGED docVars
  BY DEF Login
<1>3. ListRight'
  BY <1>2 DEF ListRight
<1>4. CASE Marked(Settled)
  <2>1. images' = images
    BY <1>4 DEF Login, Marked
  <2>2. Right'
    BY <1>2, <1>3, <2>1, UntouchedRight
  <2> QED BY <1>2, <2>1, <2>2 DEF docVars
<1>5. CASE ~Marked(Settled)
  <2>1. images' = Append(images, new)
    BY <1>5 DEF Login, Marked, Sent
  <2>2. RowsRight(new, backdated) /\ LsGet(new) = OldestFirstOrder(l) /\ Marked(new)
    BY <1>1, <1>5, MigrateRight
  <2>3. books = OldestFirstOrder(l)
    BY <1>5 DEF LedgerInv, Right, BooksRight, AtSignIn, Marked
  <2>4. Apart(l)
    BY <1>1, <1>5 DEF RowsRight
  <2> HIDE DEF new, l
  <2>5. /\ AllRight(images', backdated) /\ Settled' = new
        /\ Hist(images') = Append(Hist(images), OldestFirstOrder(l))
    <3>1. AllRight(images, backdated)
      BY DEF LedgerInv, Right
    <3> QED BY <2>1, <2>2, <3>1, AppendAllRight DEF Settled
  <2>6. BooksRight'
    BY <1>2, <2>2, <2>3, <2>5 DEF BooksRight, AtSignIn, Marked, docVars
  <2>7. SnapshotsRight' /\ AllRight(images', backdated')
    BY <1>2, <2>5 DEF LedgerInv, Right, SnapshotsRight, docVars
  <2> QED BY <1>2, <1>3, <2>4, <2>5, <2>6, <2>7 DEF l, Right, docVars
<1> QED BY <1>4, <1>5

(* A sign-in refused, a renderer started and a sign-out touch no row.      *)
LEMMA SeatDoes ==
  ASSUME LedgerInv, LoginRefused \/ Launch \/ Logout
  PROVE  Right' /\ UNCHANGED <<images, nextId, snapshots>>
<1>1. UNCHANGED <<images, docVars>> /\ (list' = list \/ list' = <<>>)
  BY DEF LoginRefused, Launch, Logout, ForgetRenderer, storeVars, viewVars
<1>2. Settled' = Settled
  BY <1>1 DEF Settled
<1>3. ListRight'
  BY <1>1, <1>2 DEF LedgerInv, Right, ListRight
<1> QED BY <1>1, <1>3, UntouchedRight DEF docVars

(* hydrateStockMovements lists the whole ledger when the reply arrives.    *)
LEMMA HydrateDoes ==
  ASSUME LedgerInv, HydrateRequest \/ HydrateReply
  PROVE  Right' /\ UNCHANGED <<images, nextId, snapshots>>
<1>1. UNCHANGED <<images, docVars>>
  BY DEF HydrateRequest, HydrateReply, storeVars
<1>2. Settled' = Settled
  BY <1>1 DEF Settled
<1>3. ListRight'
  <2>1. CASE HydrateRequest
    BY <1>2, <2>1 DEF HydrateRequest, LedgerInv, Right, ListRight
  <2>2. CASE HydrateReply
    <3> DEFINE r == Settled
    <3>1. fetch = r /\ list' = Reverse(LsGet((fetch ++ cache) ++ Settled))
      BY <2>2 DEF HydrateReply, LedgerInv, IInv, Readiness
    <3>2. r = [k \in DOMAIN r |-> r[k]]
      BY SettledRight DEF RowsRight
    <3>3. \A k \in DOMAIN cache : k \in DOMAIN r /\ cache[k] = r[k]
      BY DEF LedgerInv, IInv, CacheCoherent
    <3> HIDE DEF r
    <3>4. (r ++ cache) ++ r = [k \in DOMAIN r |-> r[k]]
      BY <3>3 DEF ++
    <3>5. (r ++ cache) ++ r = r
      BY <3>2, <3>4
    <3>6. list' = Reverse(LsGet(Settled))
      BY <3>1, <3>5 DEF r
    <3> QED BY <1>2, <3>6 DEF ListRight
  <2> QED BY <2>1, <2>2
<1> QED BY <1>1, <1>3, UntouchedRight DEF docVars

(* The database commits the oldest batch.                                  *)
LEMMA DeliverDoes ==
  ASSUME LedgerInv, Deliver
  PROVE  Right'
<1>1. /\ Len(images) > 1 /\ images' = Tail(images) /\ list' = list
      /\ UNCHANGED docVars
  BY DEF Deliver, viewVars
<1>2. AllRight(images, backdated)
  BY DEF LedgerInv, Right
<1>3. AllRight(images', backdated) /\ Settled' = Settled
  BY <1>1, <1>2, TailAllRight DEF Settled
<1> QED BY <1>1, <1>3 DEF LedgerInv, Right, ListRight, BooksRight, SnapshotsRight, docVars

(* A crash keeps the image on disk, closing signed out the last one.       *)
LEMMA StopDoes ==
  ASSUME LedgerInv, Crash \/ CloseSignedOut
  PROVE  Right'
<1>1. list' = <<>> /\ UNCHANGED <<nextId, snapshots, backdated>>
  BY DEF Crash, CloseSignedOut, ForgetRenderer, docVars
<1>2. RowsRight(Disk, backdated) /\ RowsRight(Settled, backdated)
  BY SettledRight
<1>3. PICK rows : /\ images' = <<rows>> /\ RowsRight(rows, backdated) /\ books' = AtSignIn(rows)
  <2>1. CASE Crash
    BY <1>2, <2>1 DEF Crash
  <2>2. CASE CloseSignedOut
    BY <1>2, <2>2 DEF CloseSignedOut, LedgerInv, Right, BooksRight, docVars
  <2> QED BY <2>1, <2>2
<1>4. AllRight(images', backdated) /\ Settled' = rows
  BY <1>3, OneAllRight DEF Settled
<1>5. ListRight' /\ BooksRight' /\ SnapshotsRight'
  BY <1>1, <1>3, <1>4 DEF LedgerInv, Right, ListRight, BooksRight, SnapshotsRight
<1> QED BY <1>1, <1>4, <1>5 DEF Right

(* Every step of the shop at work keeps the inductive invariant.           *)
LEMMA StepLedgerInv == LedgerInv /\ [SteadyNext]_vars => LedgerInv'
<1> SUFFICES ASSUME LedgerInv, [SteadyNext]_vars PROVE LedgerInv'
  OBVIOUS
<1>0. IInv'
  BY StepIInv DEF LedgerInv, WindowNext
<1>1. Right'
  <2>1. CASE Document
    BY <2>1, RecordDoes, EraseDoes, RestoreDoes DEF Document
  <2>2. CASE Edit
    BY <2>2, ReplaceDoes DEF Edit
  <2>3. CASE Housekeeping
    BY <2>3, LoginDoes, HydrateDoes, DeliverDoes, StopDoes, SeatDoes DEF Housekeeping
  <2>4. CASE UNCHANGED vars
    <3>1. UNCHANGED <<images, docVars>> /\ list' = list
      BY <2>4 DEF vars, docVars
    <3>2. Settled' = Settled
      BY <3>1 DEF Settled
    <3>3. ListRight'
      BY <3>1, <3>2 DEF LedgerInv, Right, ListRight
    <3> QED BY <3>1, <3>3, UntouchedRight
  <2> QED BY <2>1, <2>2, <2>3, <2>4 DEF SteadyNext
<1> QED BY <1>0, <1>1 DEF LedgerInv

(* The inductive invariant of the ledger holds of the shop at work: every  *)
(* image, on disk or in flight, can be read; a marked one is in chunks and *)
(* in the order of writing; the list, the books and what the audit log     *)
(* keeps of deleted documents agree with the rows.                         *)
THEOREM AlwaysLedgerInv == SteadySpec => []LedgerInv
<1>1. Init => LedgerInv
  BY InitLedgerInv
<1>2. LedgerInv /\ [SteadyNext]_vars => LedgerInv'
  BY StepLedgerInv
<1> QED BY <1>1, <1>2, PTL DEF SteadySpec

(* In a ledger marked oldest-first, on disk or in a batch in flight, a     *)
(* movement stands behind one dated later only if a document dated back,   *)
(* edited or restored was written there: the migration sorts by date, and  *)
(* removals, crashes and sign-ins put no movement out of order; whatever   *)
(* the chunk size, the ledgers a shop starts with and the dates given.     *)
THEOREM MarkersHonest == SteadySpec => []MarkerHonest
<1>1. LedgerInv => MarkerHonest
  <2> SUFFICES ASSUME LedgerInv, NEW i \in DOMAIN images, Row(images[i], OrderKey) = OldestFirst
               PROVE  InOrder(LsGet(images[i]), backdated)
    BY DEF MarkerHonest
  <2>1. i \in 1 .. Len(images)
    BY DEF LedgerInv, Right, AllRight, IsSeq
  <2> QED BY <2>1 DEF LedgerInv, Right, AllRight, RowsRight, Marked
<1> QED BY <1>1, AlwaysLedgerInv, PTL

(* A list of movements on screen that shows anything shows the whole       *)
(* ledger, newest first, after every save, edit and deletion.              *)
THEOREM ListsAgree == SteadySpec => []ListAgrees
<1>1. LedgerInv => ListAgrees
  BY SettledRight DEF LedgerInv, Right, ListRight, ListAgrees
<1> QED BY <1>1, AlwaysLedgerInv, PTL

(* A signed-in shop reads from its chunks the movements of the documents on*)
(* file and no others, in the order they were written.                     *)
THEOREM BooksKept == SteadySpec => []LedgerMatchesBooks
<1>1. LedgerInv => LedgerMatchesBooks
  BY SettledRight, ReadyBooks DEF LedgerMatchesBooks
<1> QED BY <1>1, AlwaysLedgerInv, PTL

---------------------------------------------------------------------------
(* The ledgers of the images                                               *)

(* The ledgers the images hold, and the first and the last of them.        *)
LEMMA HistEnds ==
  ASSUME NEW s, NEW n, AllRight(s, n), s # <<>>
  PROVE  /\ Hist(s) \in Seq(Log) /\ Len(Hist(s)) = Len(s) /\ Len(s) \in Nat /\ Len(s) >= 1
         /\ Head(Hist(s)) = LsGet(Head(s)) /\ Last(Hist(s)) = LsGet(Last(s))
         /\ \A i \in 1 .. Len(s) : Hist(s)[i] = LsGet(s[i])
         /\ Hist(s) = [i \in 1 .. Len(s) |-> Hist(s)[i]]
<1> DEFINE S == {s[i] : i \in DOMAIN s}
           h == Hist(s)
<1>1. s \in Seq(S)
  BY DEF AllRight, IsSeq
<1>2. Len(s) \in Nat /\ Len(s) >= 1 /\ Head(s) = s[1]
  BY <1>1
<1>3. h = [i \in 1 .. Len(s) |-> h[i]] /\ \A i \in 1 .. Len(s) : h[i] = LsGet(s[i])
  BY DEF Hist
<1>4. \A i \in 1 .. Len(s) : LsGet(s[i]) \in Log
  BY DEF AllRight, RowsRight
<1> HIDE DEF h
<1>5. h \in Seq(Log) /\ Len(h) = Len(s)
  <2>1. \A i \in 1 .. Len(s) : h[i] \in Log
    BY <1>3, <1>4
  <2>2. h \in [1 .. Len(s) -> Log]
    BY <1>3, <2>1
  <2> QED BY <1>2, <2>2
<1>6. Head(h) = h[1] /\ Last(h) = h[Len(s)]
  BY <1>2, <1>5 DEF Last
<1>7. 1 \in 1 .. Len(s) /\ Len(s) \in 1 .. Len(s)
  BY <1>2
<1>8. Head(h) = LsGet(Head(s)) /\ Last(h) = LsGet(Last(s))
  BY <1>2, <1>3, <1>6, <1>7 DEF Last
<1> QED BY <1>2, <1>3, <1>5, <1>8 DEF h

(* A ledger accepted after the others leaves them in front of it.          *)
LEMMA FrontOfAppend ==
  ASSUME NEW T, NEW h \in Seq(T), NEW x \in T
  PROVE  /\ Len(Append(h, x)) = Len(h) + 1 /\ Last(Append(h, x)) = x
         /\ Front(Append(h, x)) = h
<1> DEFINE a == Append(h, x)
<1>1. /\ a \in Seq(T) /\ Len(a) = Len(h) + 1 /\ Len(h) \in Nat
      /\ (\A i \in 1 .. Len(h) : a[i] = h[i]) /\ a[Len(h) + 1] = x
  BY AppendProperties
<1> HIDE DEF a
<1>2. Front(a) = SubSeq(a, 1, Len(h))
  BY <1>1 DEF Front
<1>3. /\ SubSeq(a, 1, Len(h)) \in Seq(T) /\ Len(SubSeq(a, 1, Len(h))) = Len(h)
      /\ \A i \in 1 .. Len(h) : SubSeq(a, 1, Len(h))[i] = h[i]
  <2>1. \A i \in 1 .. Len(h) : a[i] \in T
    BY <1>1
  <2>2. 1 \in Int /\ Len(h) \in Int
    BY <1>1
  <2>3. /\ SubSeq(a, 1, Len(h)) \in Seq(T)
        /\ Len(SubSeq(a, 1, Len(h))) = IF 1 <= Len(h) THEN Len(h) - 1 + 1 ELSE 0
        /\ \A i \in 1 .. Len(h) - 1 + 1 : SubSeq(a, 1, Len(h))[i] = a[1 + i - 1]
    BY <2>1, <2>2, SubSeqProperties
  <2> DEFINE b == SubSeq(a, 1, Len(h))
  <2> HIDE DEF b
  <2>4. b \in Seq(T) /\ Len(b) = Len(h)
    BY <1>1, <2>3 DEF b
  <2>5. \A i \in 1 .. Len(h) : b[i] = h[i]
    <3> SUFFICES ASSUME NEW i \in 1 .. Len(h) PROVE b[i] = h[i]
      OBVIOUS
    <3>1. i \in 1 .. Len(h) - 1 + 1 /\ 1 + i - 1 = i
      BY <1>1
    <3>2. b[i] = a[1 + i - 1]
      BY <2>3, <3>1, Zenon DEF b
    <3> QED BY <1>1, <3>1, <3>2
  <2> QED BY <2>4, <2>5 DEF b
<1> DEFINE b == SubSeq(a, 1, Len(h))
<1> HIDE DEF b
<1>4. b \in Seq(T) /\ Len(b) = Len(h) /\ \A i \in 1 .. Len(h) : b[i] = h[i]
  BY <1>3 DEF b
<1>5. b = h
  BY <1>4
<1> QED BY <1>1, <1>2, <1>5 DEF a, b, Last

(* With the first image goes the first ledger.                             *)
LEMMA HistTail ==
  ASSUME NEW s, NEW n, AllRight(s, n), Len(s) > 1
  PROVE  Hist(Tail(s)) = SubSeq(Hist(s), 2, Len(s))
<1> DEFINE S == {s[i] : i \in DOMAIN s}
           h == Hist(s)
           u == SubSeq(h, 2, Len(s))
           v == Hist(Tail(s))
<1>1. s \in Seq(S)
  BY DEF AllRight, IsSeq
<1>2. /\ Len(s) \in Nat /\ s # <<>> /\ Len(Tail(s)) = Len(s) - 1
      /\ \A i \in 1 .. Len(s) - 1 : Tail(s)[i] = s[i + 1]
  BY <1>1
<1>3. h \in Seq(Log) /\ Len(h) = Len(s) /\ \A i \in 1 .. Len(s) : h[i] = LsGet(s[i])
  BY <1>2, HistEnds
<1> HIDE DEF h
<1>4. v = [i \in 1 .. Len(s) - 1 |-> v[i]] /\ \A i \in 1 .. Len(s) - 1 : v[i] = LsGet(s[i + 1])
  BY <1>2 DEF Hist
<1>5. /\ u \in Seq(Log) /\ Len(u) = Len(s) - 1
      /\ \A i \in 1 .. Len(s) - 1 : u[i] = LsGet(s[i + 1])
  <2>1. \A i \in 2 .. Len(s) : h[i] \in Log
    BY <1>2, <1>3
  <2>2. 2 \in Int /\ Len(s) \in Int
    BY <1>2
  <2>3. /\ u \in Seq(Log)
        /\ Len(u) = IF 2 <= Len(s) THEN Len(s) - 2 + 1 ELSE 0
        /\ \A i \in 1 .. Len(s) - 2 + 1 : u[i] = h[2 + i - 1]
    BY <2>1, <2>2, SubSeqProperties
  <2> HIDE DEF u
  <2>6. u \in Seq(Log) /\ Len(u) = IF 2 <= Len(s) THEN Len(s) - 2 + 1 ELSE 0
    BY <2>3
  <2>7. Len(s) > 1
    OBVIOUS
  <2> DEFINE x == Len(s)
  <2> HIDE DEF x
  <2>8. x \in Nat /\ x > 1 /\ Len(u) = IF 2 <= x THEN x - 2 + 1 ELSE 0
    BY <1>2, <2>6, <2>7 DEF x
  <2>9. Len(u) = x - 1
    BY <2>8
  <2>4. u \in Seq(Log) /\ Len(u) = Len(s) - 1
    BY <2>6, <2>9 DEF x
  <2>5. \A i \in 1 .. Len(s) - 1 : u[i] = LsGet(s[i + 1])
    <3> SUFFICES ASSUME NEW i \in 1 .. Len(s) - 1 PROVE u[i] = LsGet(s[i + 1])
      OBVIOUS
    <3>1. i \in 1 .. Len(s) - 2 + 1 /\ 2 + i - 1 = i + 1 /\ i + 1 \in 1 .. Len(s)
      BY <1>2
    <3>2. u[i] = h[2 + i - 1]
      BY <2>3, <3>1, Zenon
    <3> QED BY <1>3, <3>1, <3>2
  <2> QED BY <2>4, <2>5
<1> HIDE DEF u, v
<1>6. u = [i \in 1 .. Len(s) - 1 |-> u[i]]
  BY <1>2, <1>5
<1>7. u = v
  BY <1>4, <1>5, <1>6
<1> QED BY <1>7 DEF u, v, h

(* Of the last image alone, and of the first alone.                        *)
LEMMA HistLast ==
  ASSUME NEW s, NEW n, AllRight(s, n), s # <<>>
  PROVE  /\ Hist(<<Last(s)>>) = SubSeq(Hist(s), Len(s), Len(s))
         /\ Hist(<<Head(s)>>) = <<Head(Hist(s))>>
<1> DEFINE h == Hist(s)
           N == Len(s)
           u == SubSeq(h, N, N)
<1>1. /\ h \in Seq(Log) /\ Len(h) = N /\ N \in Nat /\ N >= 1
      /\ Head(h) = LsGet(Head(s)) /\ Last(h) = LsGet(Last(s))
  BY HistEnds
<1>2. \A x : Hist(<<x>>) = <<LsGet(x)>>
  <2> SUFFICES ASSUME NEW x PROVE Hist(<<x>>) = <<LsGet(x)>>
    OBVIOUS
  <2>1. Len(<<x>>) = 1 /\ <<x>>[1] = x
    OBVIOUS
  <2>2. Hist(<<x>>) = [i \in 1 .. 1 |-> LsGet(<<x>>[i])]
    BY <2>1 DEF Hist
  <2>3. \A i \in 1 .. 1 : LsGet(<<x>>[i]) = LsGet(x)
    BY <2>1
  <2> DEFINE y == LsGet(x)
  <2>4. Hist(<<x>>) = [i \in 1 .. 1 |-> y]
    BY <2>2, <2>3
  <2> HIDE DEF y
  <2>5. [i \in 1 .. 1 |-> y] = <<y>>
    OBVIOUS
  <2> QED BY <2>4, <2>5 DEF y
<1> HIDE DEF h, N
<1>3. u = <<h[N]>>
  <2>1. \A i \in N .. N : h[i] \in Log
    BY <1>1
  <2>2. N \in Int
    BY <1>1
  <2>3. /\ u \in Seq(Log) /\ Len(u) = IF N <= N THEN N - N + 1 ELSE 0
        /\ \A i \in 1 .. N - N + 1 : u[i] = h[N + i - 1]
    BY <2>1, <2>2, SubSeqProperties
  <2> HIDE DEF u
  <2>4. N - N + 1 = 1 /\ N + 1 - 1 = N /\ 1 \in 1 .. N - N + 1
    BY <1>1
  <2>5. u[1] = h[N + 1 - 1]
    BY <2>3, <2>4, Zenon
  <2>6. u \in Seq(Log) /\ Len(u) = 1 /\ u[1] = h[N]
    BY <1>1, <2>3, <2>4, <2>5
  <2> QED BY <2>6
<1>4. Last(h) = h[N]
  BY <1>1 DEF Last
<1> QED BY <1>1, <1>2, <1>3, <1>4 DEF h, N

---------------------------------------------------------------------------
(* The rows implement the abstract ledger                                  *)

(* The operators of the abstract ledger are those of the stored one.       *)
LEMMA SameWithout == \A s, ref : Ledger!Without(s, ref) = Without(s, ref)
BY DEF Ledger!Without, Without, Ledger!FoldLeft, FoldLeft, MapThenFoldSet, Ledger!MapThenFoldSet,
       Max, Ledger!Max

(* So is what they find of a document.                                     *)
LEMMA SameOnly == \A s, ref : Ledger!Only(s, ref) = Only(s, ref)
BY DEF Ledger!Only, Only, Ledger!FoldLeft, FoldLeft, MapThenFoldSet, Ledger!MapThenFoldSet,
       Max, Ledger!Max

(* A document records the same movements in both.                          *)
LEMMA SameRecorded ==
  \A ref, n, date : Ledger!Recorded(nextId, ref, n, date) = Recorded(ref, n, date)
BY DEF Ledger!Recorded, Recorded

(* What the abstract ledger has accepted is what the database will hold.   *)
LEMMA SameAccepted ==
  ASSUME LedgerInv
  PROVE  /\ Ledger!Accepted = LsGet(Settled) /\ Ledger!Durable = LsGet(Disk)
         /\ Hist(images) \in Seq(Log) /\ Len(Hist(images)) = Len(images)
         /\ Len(images) \in Nat /\ Len(images) >= 1
<1>1. images # <<>> /\ AllRight(images, backdated)
  BY DEF LedgerInv, IInv, TypeOK, Right
<1>2. /\ Hist(images) \in Seq(Log) /\ Len(Hist(images)) = Len(images)
      /\ Len(images) \in Nat /\ Len(images) >= 1
      /\ Head(Hist(images)) = LsGet(Head(images)) /\ Last(Hist(images)) = LsGet(Last(images))
  BY <1>1, HistEnds
<1>3. Ledger!Accepted = Last(Hist(images)) /\ Ledger!Durable = Head(Hist(images))
  BY DEF Ledger!Accepted, Ledger!Durable, Hist, Last, Ledger!Last
<1> QED BY <1>2, <1>3 DEF Settled, Disk

(* Movements are the same in both.                                         *)
LEMMA MovementsAgree == Ledger!Movement = Movement
BY DEF Ledger!Movement, Movement

(* A database as the version before left it is a ledger to start from.     *)
LEMMA InitRefines == Init => Ledger!Init
<1> SUFFICES ASSUME Init PROVE Ledger!Init
  OBVIOUS
<1>1. LedgerInv
  BY InitLedgerInv
<1>2. nextId \in Nat /\ snapshots = [ref \in References |-> <<>>]
  BY <1>1, SettledRight DEF Init
<1>3. Hist(images) \in Seq(Log) /\ Len(Hist(images)) = Len(images)
  BY <1>1, SameAccepted
<1>4. Len(images) = 1
  <2>1. PICK rows : images = <<rows>>
    BY DEF Init
  <2> QED BY <2>1
<1>5. Log = Seq(Ledger!Movement)
  BY MovementsAgree DEF Log
<1> DEFINE h == Hist(images)
           S == Seq(Log)
<1>6. h \in S /\ Len(h) = 1
  BY <1>3, <1>4
<1>7. S = Seq(Seq(Ledger!Movement))
  BY <1>5
<1>8. h = [i \in 1 .. Len(images) |-> LsGet(images[i])]
  BY DEF Hist
<1> HIDE DEF h, S
<1> QED BY <1>2, <1>6, <1>7, <1>8 DEF Ledger!Init

(* A document accepted is a ledger accepted after the others.              *)
LEMMA RecordRefines ==
  ASSUME LedgerInv, NEW ref \in References, NEW n \in 1 .. MaxItems, NEW date \in Dates,
         Record(ref, n, date)
  PROVE  Ledger!Record(ref, n, date)
<1> DEFINE t == Recorded(ref, n, date)
           l == LsGet(Settled)
<1>1. /\ nextId' = nextId + n /\ snapshots' = snapshots
      /\ Hist(images') = Append(Hist(images), Cat(l, t))
  BY RecordDoes
<1>2. Ledger!Accepted = l /\ Ledger!Recorded(nextId, ref, n, date) = t
  BY SameAccepted, SameRecorded
<1>3. /\ Hist(images) = [i \in 1 .. Len(images) |-> LsGet(images[i])]
      /\ Hist(images') = [i \in 1 .. Len(images') |-> LsGet(images'[i])]
  BY DEF Hist
<1> HIDE DEF t, l
<1> QED BY <1>1, <1>2, <1>3 DEF Ledger!Record, Cat

(* A deletion undone is a ledger accepted with the very movements again.   *)
LEMMA RestoreRefines ==
  ASSUME LedgerInv, NEW ref \in References, Restore(ref)
  PROVE  Ledger!Restore(ref)
<1> DEFINE l == LsGet(Settled)
<1>1. /\ nextId' = nextId /\ snapshots[ref] # <<>>
      /\ snapshots' = [snapshots EXCEPT ![ref] = <<>>] /\ Only(l, ref) = <<>>
      /\ Hist(images') = Append(Hist(images), Cat(l, snapshots[ref]))
  BY RestoreDoes
<1>2. Ledger!Accepted = l /\ Ledger!Only(l, ref) = Only(l, ref)
  BY SameAccepted, SameOnly
<1>3. /\ Hist(images) = [i \in 1 .. Len(images) |-> LsGet(images[i])]
      /\ Hist(images') = [i \in 1 .. Len(images') |-> LsGet(images'[i])]
  BY DEF Hist
<1> HIDE DEF l
<1> QED BY <1>1, <1>2, <1>3 DEF Ledger!Restore, Cat

(* A document deleted is a ledger accepted without it, and its movements   *)
(* kept for undoing that.                                                  *)
LEMMA EraseRefines ==
  ASSUME LedgerInv, NEW ref \in References, Erase(ref)
  PROVE  Ledger!Erase(ref)
<1> DEFINE l == LsGet(Settled)
           w == Without(l, ref)
           o == Only(l, ref)
<1>1. /\ nextId' = nextId /\ o # <<>> /\ snapshots' = [snapshots EXCEPT ![ref] = o]
      /\ Hist(images') = Append(Hist(images), w)
  BY EraseDoes
<1>2. /\ Ledger!Without(Ledger!Accepted, ref) = w
      /\ Ledger!Only(Ledger!Accepted, ref) = o
  BY SameAccepted, SameWithout, SameOnly
<1>3. /\ Hist(images) = [i \in 1 .. Len(images) |-> LsGet(images[i])]
      /\ Hist(images') = [i \in 1 .. Len(images') |-> LsGet(images'[i])]
  BY DEF Hist
<1> HIDE DEF w, o, l
<1> QED BY <1>1, <1>2, <1>3 DEF Ledger!Erase

(* An edit is the removal and the addition, one after the other.           *)
LEMMA ReplaceRefines ==
  ASSUME LedgerInv, NEW ref \in References, NEW n \in 1 .. MaxItems, NEW date \in Dates,
         Replace(ref, n, date)
  PROVE  Ledger!Replace(ref, n, date)
<1> DEFINE t == Recorded(ref, n, date)
           l == LsGet(Settled)
           w == Without(l, ref)
           c == Cat(w, t)
           h == Hist(images)
<1>1. /\ nextId' = nextId + n /\ snapshots' = snapshots /\ Only(l, ref) # <<>>
      /\ Hist(images') = Append(Append(h, w), c)
  BY ReplaceDoes
<1>2. /\ Ledger!Accepted = l /\ Ledger!Recorded(nextId, ref, n, date) = t
      /\ Ledger!Without(Ledger!Accepted, ref) = w
      /\ Ledger!Only(Ledger!Accepted, ref) # <<>>
  BY <1>1, SameAccepted, SameRecorded, SameWithout, SameOnly
<1>3. /\ h = [i \in 1 .. Len(images) |-> LsGet(images[i])]
      /\ Hist(images') = [i \in 1 .. Len(images') |-> LsGet(images'[i])]
  BY DEF Hist
<1>4. w \in Log /\ c \in Log /\ h \in Seq(Log)
  <2>1. l \in Log /\ nextId \in Nat
    BY SettledRight
  <2>2. w \in Log
    BY <2>1, WithoutLog
  <2>3. t \in Log
    <3>1. n \in Nat
      BY BoundsAssumption
    <3> QED BY <2>1, <3>1, RecordedLog
  <2> QED BY <2>2, <2>3, CatLog, SameAccepted
<1>5. w \o t = c
  BY DEF Cat
<1> HIDE DEF w, l, t, c, h
<1>6. Append(Append(h, w), c) = h \o <<w, c>>
  <2> DEFINE T == Log
  <2> HIDE DEF T
  <2>1. w \in T /\ c \in T /\ h \in Seq(T)
    BY <1>4 DEF T
  <2> QED BY <2>1
<1> QED BY <1>1, <1>2, <1>3, <1>5, <1>6 DEF Ledger!Replace

(* The migration of an unmarked ledger only puts it in date order.         *)
LEMMA LoginRefines ==
  ASSUME LedgerInv, Login
  PROVE  Ledger!Sort \/ UNCHANGED Ledger!vars
<1> DEFINE l == LsGet(Settled)
           o == OldestFirstOrder(l)
           h == Hist(images)
           k == Hist(images')
<1>1. /\ nextId' = nextId /\ snapshots' = snapshots
      /\ images' = images \/ (k = Append(h, o) /\ Apart(l))
  BY LoginDoes
<1>2. Ledger!Accepted = l /\ h \in Seq(Log)
  BY SameAccepted
<1>3. /\ h = [i \in 1 .. Len(images) |-> LsGet(images[i])]
      /\ k = [i \in 1 .. Len(images') |-> LsGet(images'[i])]
  BY DEF Hist
<1>4. l \in Log
  BY SettledRight
<1> HIDE DEF l
<1>5. Apart(l) => o \in Log /\ Len(o) = Len(l) /\ Sorted(o) /\ ToSet(o) = ToSet(l)
  BY <1>4, SortedLog
<1> HIDE DEF o, h, k
<1>6. CASE images' = images
  BY <1>1, <1>6 DEF Ledger!vars
<1>7. CASE k = Append(h, o) /\ Apart(l)
  <2>1. Len(k) = Len(h) + 1 /\ Last(k) = o /\ Front(k) = h
    BY <1>2, <1>5, <1>7, FrontOfAppend
  <2>2. Ledger!Accepted' = o
    BY <1>3, <2>1 DEF Ledger!Accepted, Last, Ledger!Last
  <2>3. Ledger!Front(k) = h
    BY <2>1 DEF Ledger!Front, Front
  <2>4. Ledger!ToSet(Ledger!Accepted') = Ledger!ToSet(Ledger!Accepted)
    BY <1>2, <1>5, <1>7, <2>2 DEF Ledger!ToSet, ToSet
  <2>5. \A i \in 1 .. Len(o) - 1 : Ledger!Older(o[i], o[i + 1])
    <3> SUFFICES ASSUME NEW i \in 1 .. Len(o) - 1 PROVE Older(o[i], o[i + 1])
      BY DEF Ledger!Older, Older
    <3>1. Len(o) \in Nat
      BY <1>5, <1>7, CatLog
    <3>2. i \in 1 .. Len(o) /\ i + 1 \in 1 .. Len(o) /\ i < i + 1
      BY <3>1
    <3>3. Sorted(o)
      BY <1>5, <1>7
    <3> QED BY <3>2, <3>3, Zenon DEF Sorted
  <2> QED BY <1>1, <1>3, <2>1, <2>2, <2>3, <2>4, <2>5 DEF Ledger!Sort
<1> QED BY <1>1, <1>6, <1>7

(* A batch committed is one accepted ledger less in flight.                *)
LEMMA DeliverRefines ==
  ASSUME LedgerInv, Deliver
  PROVE  Ledger!Persist
<1> DEFINE h == Hist(images)
           k == Hist(images')
           N == Len(images)
<1>1. N > 1 /\ images' = Tail(images) /\ nextId' = nextId /\ snapshots' = snapshots
  BY DEF Deliver, docVars
<1>2. AllRight(images, backdated)
  BY DEF LedgerInv, Right
<1>3. k = SubSeq(h, 2, N)
  BY <1>1, <1>2, HistTail
<1>4. /\ h = [i \in 1 .. Len(images) |-> LsGet(images[i])]
      /\ k = [i \in 1 .. Len(images') |-> LsGet(images'[i])]
  BY DEF Hist
<1>5. Len(h) = N /\ N \in Nat
  BY SameAccepted
<1> HIDE DEF h, k, N
<1>6. 1 \in 1 .. Len(h) - 1 /\ k = SubSeq(h, 1 + 1, Len(h))
  BY <1>1, <1>3, <1>5
<1> QED BY <1>1, <1>4, <1>6 DEF Ledger!Persist

(* Closing signed out waits for every batch, a crash for none.             *)
LEMMA StopRefines ==
  ASSUME LedgerInv, Crash \/ CloseSignedOut
  PROVE  Ledger!Crash \/ Ledger!Persist \/ UNCHANGED Ledger!vars
<1> DEFINE h == Hist(images)
           k == Hist(images')
           N == Len(images)
<1>1. nextId' = nextId /\ snapshots' = snapshots
  BY DEF Crash, CloseSignedOut, docVars
<1>2. AllRight(images, backdated) /\ images # <<>>
  BY DEF LedgerInv, IInv, TypeOK, Right
<1>3. Hist(<<Settled>>) = SubSeq(h, N, N) /\ Hist(<<Disk>>) = <<Head(h)>>
  BY <1>2, HistLast DEF Settled, Disk
<1>4. /\ h = [i \in 1 .. Len(images) |-> LsGet(images[i])]
      /\ k = [i \in 1 .. Len(images') |-> LsGet(images'[i])]
  BY DEF Hist
<1>5. Len(h) = N /\ N \in Nat /\ N >= 1
  BY SameAccepted
<1>6. CASE Crash
  <2>1. k = <<Head(h)>>
    BY <1>3, <1>6 DEF Crash
  <2>2. Ledger!Durable = Head(h)
    BY <1>4 DEF Ledger!Durable
  <2> HIDE DEF h, k
  <2> QED BY <1>1, <1>4, <2>1, <2>2 DEF Ledger!Crash
<1>7. CASE CloseSignedOut
  <2>1. images' = <<Settled>>
    BY <1>7 DEF CloseSignedOut
  <2>2. k = SubSeq(h, N, N)
    BY <1>3, <2>1
  <2>3. CASE N = 1
    <3>1. images = <<Settled>>
      <4>1. IsSeq(images)
        BY <1>2 DEF AllRight
      <4>2. images \in Seq({images[i] : i \in DOMAIN images})
        BY <4>1 DEF IsSeq
      <4> QED BY <2>3, <4>2 DEF Settled, Last
    <3> QED BY <1>1, <2>1, <3>1 DEF Ledger!vars
  <2>4. CASE N # 1
    <3> HIDE DEF h, k, N
    <3>1. N - 1 \in 1 .. Len(h) - 1 /\ (N - 1) + 1 = N /\ k = SubSeq(h, (N - 1) + 1, Len(h))
      BY <1>5, <2>2, <2>4
    <3> QED BY <1>1, <1>4, <3>1 DEF Ledger!Persist
  <2> QED BY <2>3, <2>4
<1> QED BY <1>6, <1>7

(* Each step of the shop at work is a step of the abstract ledger, or none.*)
LEMMA StepRefines ==
  LedgerInv /\ [SteadyNext]_vars => [Ledger!Next]_(Ledger!vars)
<1> SUFFICES ASSUME LedgerInv, [SteadyNext]_vars PROVE Ledger!Next \/ UNCHANGED Ledger!vars
  OBVIOUS
<1>1. CASE Document
  <2>1. CASE \E ref \in References, n \in 1 .. MaxItems, date \in Dates : Record(ref, n, date)
    BY <2>1, RecordRefines DEF Ledger!Next
  <2>2. CASE \E ref \in References : Erase(ref) \/ Restore(ref)
    BY <2>2, EraseRefines, RestoreRefines DEF Ledger!Next
  <2> QED BY <1>1, <2>1, <2>2 DEF Document
<1>2. CASE Edit
  BY <1>2, ReplaceRefines DEF Edit, Ledger!Next
<1>3. CASE Login
  BY <1>3, LoginRefines DEF Ledger!Next
<1>4. CASE Deliver
  BY <1>4, DeliverRefines DEF Ledger!Next
<1>5. CASE Crash \/ CloseSignedOut
  BY <1>5, StopRefines DEF Ledger!Next
<1>6. CASE LoginRefused \/ Launch \/ Logout \/ HydrateRequest \/ HydrateReply
  <2>1. UNCHANGED <<images, nextId, snapshots>>
    BY <1>6, SeatDoes, HydrateDoes
  <2> QED BY <2>1 DEF Ledger!vars
<1>7. CASE UNCHANGED vars
  BY <1>7 DEF vars, Ledger!vars
<1> QED BY <1>1, <1>2, <1>3, <1>4, <1>5, <1>6, <1>7 DEF SteadyNext, Housekeeping

(* The chunked rows implement the abstract ledger: every step of the shop  *)
(* at work is a step of StockLedger or leaves its ledgers as they are.     *)
THEOREM StoreImplementsLedger == SteadySpec => ImplementsLedger
<1>1. Init => Ledger!Init
  BY InitRefines
<1>2. LedgerInv /\ [SteadyNext]_vars => [Ledger!Next]_(Ledger!vars)
  BY StepRefines
<1> QED BY <1>1, <1>2, AlwaysLedgerInv, PTL DEF SteadySpec, ImplementsLedger, Ledger!Spec
=============================================================================
