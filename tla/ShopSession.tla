---------------------------- MODULE ShopSession ----------------------------
(***************************************************************************)
(* Who holds the shop's stock, and when it is safe: the React state of the *)
(* renderer, the rows in SQLite and the stock ledger, through sign-ins,    *)
(* locks, sign-outs, closings, reloads and crashes                         *)
(* (src/src/store/AppContext.tsx).                                         *)
(*                                                                         *)
(* The stock of one part stands for every collection the two-second        *)
(* debounced flush writes.  The ledger is written by its own helpers at    *)
(* once; here it is the sum of the part's movements.  Writes are sent in   *)
(* order through one channel, which LedgerStore models; here they land.    *)
(***************************************************************************)
EXTENDS Integers

CONSTANTS
  Opening,      \* units on the shelf at the start
  MaxSale,      \* bound: units sold at once
  MaxStock      \* bound: units the shelf may come to hold

ASSUME SessionAssumption ==
  /\ Opening \in Nat /\ MaxSale \in Nat /\ MaxStock \in Nat
  /\ Opening <= MaxStock

VARIABLES
  session,      \* "off", "signedOut", "ready", "locked" or "unlocking"
  stock,        \* products[i].quantity in React state
  saved,        \* the same on disk
  ledger,       \* sum of the part's stock movements
  dirty         \* a debounced flush is due

shopVars == <<session, stock, saved, ledger, dirty>>

(* The empty seed the renderer shows when nobody is signed in.             *)
Seed == 0

(* auth.isAuthenticated; AppLayout is on screen.                           *)
SignedIn == session \in {"ready", "locked", "unlocking"}

(* auth.isAuthenticated && desktopStorageHydrated                          *)
Hydrated == session \in {"ready", "locked"}

ShopInit ==
  /\ session = "off" /\ stock = Seed
  /\ saved = Opening /\ ledger = 0 /\ dirty = FALSE

---------------------------------------------------------------------------
(* Changes                                                                 *)

(* adjustStock: Math.max(0, p.quantity + delta)                            *)
AdjustBy(q, delta) == IF q + delta > 0 THEN q + delta ELSE 0

(* A sale deducts what the screen allowed and records the movement.        *)
Sell(n) ==
  /\ session = "ready" /\ n <= stock
  /\ stock' = AdjustBy(stock, -n)
  /\ ledger' = ledger - n
  /\ dirty' = TRUE
  /\ UNCHANGED <<session, saved>>

(* The debounced flush: two seconds after the last change.                 *)
Flush ==
  /\ Hydrated /\ dirty
  /\ saved' = stock
  /\ dirty' = FALSE
  /\ UNCHANGED <<session, stock, ledger>>

---------------------------------------------------------------------------
(* Sessions                                                                *)

Launch ==
  /\ session = "off"
  /\ session' = "signedOut"
  /\ stock' = Seed /\ dirty' = FALSE
  /\ UNCHANGED <<saved, ledger>>

(* finalizeDesktopAuthentication: the whole state is loaded from disk,     *)
(* which makes the flush effect run again.                                 *)
SignIn ==
  /\ session = "signedOut"
  /\ session' = "ready"
  /\ stock' = saved /\ dirty' = TRUE
  /\ UNCHANGED <<saved, ledger>>

Lock ==
  /\ session = "ready"
  /\ session' = "locked"
  /\ UNCHANGED <<stock, saved, ledger, dirty>>

(* Unlocking runs finalizeDesktopAuthentication too: storage counts as not *)
(* hydrated, which cancels a flush that is due ...                         *)
UnlockBegin ==
  /\ session = "locked"
  /\ session' = "unlocking"
  /\ dirty' = FALSE
  /\ UNCHANGED <<stock, saved, ledger>>

(* ... and the state is loaded from disk over what the renderer held.      *)
UnlockEnd ==
  /\ session = "unlocking"
  /\ session' = "ready"
  /\ stock' = saved /\ dirty' = TRUE
  /\ UNCHANGED <<saved, ledger>>

(* logout: the state is replaced by the seed; a flush that is due never    *)
(* runs.                                                                   *)
SignOut ==
  /\ session = "ready"
  /\ session' = "signedOut"
  /\ stock' = Seed /\ dirty' = FALSE
  /\ UNCHANGED <<saved, ledger>>

(* Mutant of LastFlush: a closing window does not flush.                   *)
LastFlushSkipped == saved' = saved

(* flushPendingWritesNow and the beforeunload handler write only a         *)
(* hydrated, signed-in state.                                              *)
LastFlush == saved' = IF Hydrated THEN stock ELSE saved

(* A closing window waits for flushPendingWritesNow.                       *)
Close ==
  /\ session # "off"
  /\ session' = "off"
  /\ LastFlush
  /\ stock' = Seed /\ dirty' = FALSE
  /\ UNCHANGED ledger

(* A page reload flushes in the beforeunload handler, if anything is due.  *)
Reload ==
  /\ session # "off"
  /\ session' = "signedOut"
  /\ IF dirty THEN LastFlush ELSE UNCHANGED saved
  /\ stock' = Seed /\ dirty' = FALSE
  /\ UNCHANGED ledger

(* Power cut or killed process. *)
Crash ==
  /\ session # "off"
  /\ session' = "off"
  /\ stock' = Seed /\ dirty' = FALSE
  /\ UNCHANGED <<saved, ledger>>

---------------------------------------------------------------------------
(* Next-state relations.  The calm shop lets a due flush run before it     *)
(* signs out, unlocks or loses power; the hasty one does not wait to sign   *)
(* out.                                                                    *)

Sales == \E n \in 1 .. MaxSale : Sell(n)

CalmNext ==
  \/ Sales \/ Flush
  \/ Launch \/ SignIn \/ Lock \/ UnlockEnd \/ Close \/ Reload
  \/ ~dirty /\ (UnlockBegin \/ SignOut \/ Crash)

ShopSpec       == ShopInit /\ [][CalmNext]_shopVars
SigningOutSpec == ShopInit /\ [][CalmNext \/ SignOut]_shopVars

---------------------------------------------------------------------------
(* Properties                                                              *)

ShopTypeOK ==
  /\ session \in {"off", "signedOut", "ready", "locked", "unlocking"}
  /\ stock \in Nat /\ saved \in Nat /\ ledger \in Int /\ dirty \in BOOLEAN

(* What the ledger explains is what the product page shows, whoever signed *)
(* in, locked, reloaded or closed in between (the ledger is written at     *)
(* once, the products two seconds later).                                  *)
LedgerExplainsStock == Hydrated => stock = Opening + ledger
============================================================================
