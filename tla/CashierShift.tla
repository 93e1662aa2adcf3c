---------------------------- MODULE CashierShift ----------------------------
(***************************************************************************)
(* Cashier shifts: src/src/store/AppContext.tsx opens and closes a shift   *)
(* and stamps every cash entry with the open shift of whoever is signed    *)
(* in; computeShiftSummary in src/src/store/_pure.ts works out from the    *)
(* invoices and entries what the drawer must hold when it is counted.      *)
(*                                                                         *)
(* One computer, which cashiers share by signing in and out; the screen is *)
(* rendered between two clicks.  Money comes in units, and each entry      *)
(* moves one.  An invoice stands for its returns as well: the reference of *)
(* a return's entry leads to the invoice.  An invoice made without a shift *)
(* falls in no later shift's time, so it belongs to none.                  *)
(***************************************************************************)
EXTENDS Integers, FiniteSets, Functions

CONSTANTS
  Cashiers, Owners,
  SignedOut,
  Sales,         \* sales invoices ever made
  Floats,        \* cash a shift may open with
  MaxShifts,     \* bound: shifts ever opened
  MaxEntries     \* bound: cash entries ever made

ASSUME ShiftAssumption ==
  /\ Owners \subseteq Cashiers /\ SignedOut \notin Cashiers /\ "manual" \notin Sales
  /\ Floats \subseteq Nat /\ MaxShifts \in Nat /\ MaxEntries \in Nat

VARIABLES
  cashier,       \* currentUser
  shifts,        \* by number; what is not opened yet has status "none"
  invoices,      \* each sale's shiftId and what has become of it
  cashEntries,
  snapshots,     \* the audit log's copies of deleted invoices
  entered,       \* cash entries made so far
  till,          \* history: cash put in and taken out by a shift's cashier
  atClose        \* history: the till when the shift was closed

shiftVars == <<cashier, shifts, invoices, cashEntries, snapshots, entered, till, atClose>>

NoShift   == 0
Shifts    == 1 .. MaxShifts
NotOpened == [status |-> "none", cashierId |-> SignedOut, openingCash |-> 0, expectedCash |-> 0]
NotMade   == [status |-> "none", shiftId |-> NoShift]
Manual    == "manual"
NoSnapshot == [status |-> "none", entries |-> {}]

Entries   == [number : 0 .. MaxEntries, shiftId : Shifts \cup {NoShift},
              reference : Sales \cup {Manual}, amount : {-1, 1}, cash : BOOLEAN]

ShiftInit ==
  /\ cashier = SignedOut /\ shifts = [s \in Shifts |-> NotOpened]
  /\ invoices = [i \in Sales |-> NotMade] /\ cashEntries = {} /\ entered = 0
  /\ snapshots = [i \in Sales |-> NoSnapshot]
  /\ till = [s \in Shifts |-> 0] /\ atClose = [s \in Shifts |-> 0]

---------------------------------------------------------------------------
(* computeShiftSummary                                                     *)

shiftInvoices(s) == {i \in Sales : invoices[i].status = "sold" /\ invoices[i].shiftId = s}

(* An entry without a shift counts for the shift of its invoice.           *)
shiftEntries(s) ==
  {e \in cashEntries : IF e.shiftId # NoShift THEN e.shiftId = s
                       ELSE e.reference \in shiftInvoices(s)}

(* Mutant of isPhysicalCash: a card payment counts as cash.                *)
isPhysicalCashAny(e) == TRUE

isPhysicalCash(e) == e.cash

ExpectedCash(s) ==
  shifts[s].openingCash
    + SumFunction([e \in {x \in shiftEntries(s) : isPhysicalCash(x)} |-> e.amount])

---------------------------------------------------------------------------

OpenOf(u) == {s \in Shifts : shifts[s].status = "open" /\ shifts[s].cashierId = u}

(* The open shift of the cashier, or none.                                 *)
ActiveShift == IF OpenOf(cashier) = {} THEN NoShift ELSE CHOOSE s \in OpenOf(cashier) : TRUE

(* attachCashEntryToActiveShift                                            *)
Enter(reference, amount, cash) ==
  /\ entered < MaxEntries /\ entered' = entered + 1
  /\ cashEntries' = cashEntries \cup
       {[number |-> entered, shiftId |-> ActiveShift, reference |-> reference,
         amount |-> amount, cash |-> cash]}
  /\ till' = IF cash /\ ActiveShift # NoShift
             THEN [till EXCEPT ![ActiveShift] = @ + amount] ELSE till

SignInAs(u) ==
  /\ u # cashier /\ cashier' = u
  /\ UNCHANGED <<shifts, invoices, cashEntries, snapshots, entered, till, atClose>>

OpenShift(openingCash) ==
  /\ cashier # SignedOut /\ OpenOf(cashier) = {}
  /\ \E s \in Shifts :
       /\ shifts[s] = NotOpened /\ \A r \in 1 .. s - 1 : shifts[r] # NotOpened
       /\ shifts' = [shifts EXCEPT ![s] =
            [status |-> "open", cashierId |-> cashier, openingCash |-> openingCash,
             expectedCash |-> openingCash]]
       /\ till' = [till EXCEPT ![s] = openingCash]
  /\ UNCHANGED <<cashier, invoices, cashEntries, snapshots, entered, atClose>>

(* closeShift: by the shift's cashier or by the owner.                     *)
CloseShift(s) ==
  /\ shifts[s].status = "open" /\ cashier \in Owners \cup {shifts[s].cashierId}
  /\ shifts' = [shifts EXCEPT ![s].status = "closed", ![s].expectedCash = ExpectedCash(s)]
  /\ atClose' = [atClose EXCEPT ![s] = till[s]]
  /\ UNCHANGED <<cashier, invoices, cashEntries, snapshots, entered, till>>

(* addSalesInvoice, paid in cash, by card, or on account.                  *)
SellOnShift(i, paid, cash) ==
  /\ cashier # SignedOut /\ invoices[i] = NotMade
  /\ invoices' = [invoices EXCEPT ![i] = [status |-> "sold", shiftId |-> ActiveShift]]
  /\ IF paid THEN Enter(i, 1, cash) ELSE UNCHANGED <<cashEntries, entered, till>>
  /\ UNCHANGED <<cashier, shifts, snapshots, atClose>>

(* recordSalesReceipt; an edit that collects more; a return or an edit     *)
(* that hands cash back.                                                   *)
MoveCash(i, amount, cash) ==
  /\ cashier # SignedOut /\ invoices[i].status = "sold" /\ (amount < 0 => cash)
  /\ Enter(i, amount, cash)
  /\ UNCHANGED <<cashier, shifts, invoices, snapshots, atClose>>

(* cancelSalesInvoice, what was paid handed back in cash or kept as credit.*)
CancelSale(i, refund) ==
  /\ cashier # SignedOut /\ invoices[i].status = "sold"
  /\ invoices' = [invoices EXCEPT ![i].status = "cancelled"]
  /\ IF refund THEN Enter(i, -1, TRUE) ELSE UNCHANGED <<cashEntries, entered, till>>
  /\ UNCHANGED <<cashier, shifts, snapshots, atClose>>

EntriesOf(i) == {e \in cashEntries : e.reference = i}

(* The cash that some entries brought a shift.                             *)
Brought(entries, s) == SumFunction([e \in {x \in entries : x.cash /\ x.shiftId = s} |-> e.amount])

(* deleteSalesInvoice: its entries go, and the cash with them.             *)
DeleteSale(i) ==
  /\ cashier # SignedOut /\ invoices[i].status \in {"sold", "cancelled"}
  /\ invoices' = [invoices EXCEPT ![i].status = "deleted"]
  /\ snapshots' = [snapshots EXCEPT ![i] =
       [status |-> invoices[i].status, entries |-> EntriesOf(i)]]
  /\ cashEntries' = cashEntries \ EntriesOf(i)
  /\ till' = [s \in Shifts |-> till[s] - Brought(EntriesOf(i), s)]
  /\ UNCHANGED <<cashier, shifts, entered, atClose>>

(* restoreDeletedInvoice *)
RestoreSale(i) ==
  /\ cashier # SignedOut /\ invoices[i].status = "deleted"
  /\ invoices' = [invoices EXCEPT ![i].status = snapshots[i].status]
  /\ snapshots' = [snapshots EXCEPT ![i] = NoSnapshot]
  /\ cashEntries' = cashEntries \cup snapshots[i].entries
  /\ till' = [s \in Shifts |-> till[s] + Brought(snapshots[i].entries, s)]
  /\ UNCHANGED <<cashier, shifts, entered, atClose>>

(* addCashEntry from the cashbox: an expense or a float, of no invoice.    *)
EnterManually(amount) ==
  /\ cashier # SignedOut /\ Enter(Manual, amount, TRUE)
  /\ UNCHANGED <<cashier, shifts, invoices, snapshots, atClose>>

(* Whoever moves cash of a shift's invoice has a shift open as well.       *)
OwnShift(i) == invoices[i].shiftId # NoShift => ActiveShift # NoShift

ShiftNext ==
  \/ \E u \in Cashiers \cup {SignedOut} : SignInAs(u)
  \/ \E openingCash \in Floats : OpenShift(openingCash)
  \/ \E s \in Shifts : CloseShift(s)
  \/ \E i \in Sales, paid, cash \in BOOLEAN : SellOnShift(i, paid, cash)
  \/ \E i \in Sales, amount \in {-1, 1}, cash \in BOOLEAN : OwnShift(i) /\ MoveCash(i, amount, cash)
  \/ \E i \in Sales, refund \in BOOLEAN : OwnShift(i) /\ CancelSale(i, refund)
  \/ \E i \in Sales : DeleteSale(i) \/ RestoreSale(i)
  \/ \E amount \in {-1, 1} : EnterManually(amount)

ShiftSpec == ShiftInit /\ [][ShiftNext]_shiftVars

---------------------------------------------------------------------------
(* Properties                                                              *)

ShiftTypeOK ==
  /\ cashier \in Cashiers \cup {SignedOut} /\ entered \in 0 .. MaxEntries
  /\ shifts \in [Shifts -> [status : {"none", "open", "closed"}, cashierId : Cashiers \cup {SignedOut},
                            openingCash : Nat, expectedCash : Int]]
  /\ invoices \in [Sales -> [status : {"none", "sold", "cancelled", "deleted"},
                             shiftId : Shifts \cup {NoShift}]]
  /\ cashEntries \subseteq Entries
  /\ \A i \in Sales : snapshots[i].entries \subseteq Entries
  /\ till \in [Shifts -> Int] /\ atClose \in [Shifts -> Int]

(* What the program expects in the drawer of an open shift is what its     *)
(* cashier took and handed out, whoever else worked at the computer in     *)
(* between and whatever became of the invoices; and the report of a closed *)
(* shift keeps what the drawer held then (_pure.ts: "without mixing the    *)
(* shifts of other cashiers").                                             *)
ExpectedIsInDrawer ==
  \A s \in Shifts :
    /\ shifts[s].status = "open" => ExpectedCash(s) = till[s]
    /\ shifts[s].status = "closed" => shifts[s].expectedCash = atClose[s]
=============================================================================
