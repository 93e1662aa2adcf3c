----------------------------- MODULE ShopBackup -----------------------------
(***************************************************************************)
(* Backups and their restoring around ShopSession: the export of a file,   *)
(* the backup to a folder by hand, at start-up and on closing, the         *)
(* automatic one inside the program, and importBackup with the reload      *)
(* that follows it (src/src/store/AppContext.tsx,                          *)
(* src/src/pages/SettingsPage.tsx).                                        *)
(*                                                                         *)
(* The ledger on disk is read and written through its own helpers; the     *)
(* list of movements in memory is empty until a screen hydrates it, and    *)
(* the flushes of a closing or reloading window write that list over the   *)
(* ledger.  As in ShopSession both are the sums of one part's movements:   *)
(* there are only sales, so a sum of zero is an empty list.                *)
(***************************************************************************)
EXTENDS Integers

CONSTANTS
  InStock,      \* units on the shelf at the start
  MaxSale,      \* bound: units sold at once
  NoFile        \* no backup of a kind was made yet

VARIABLES
  session, stock, saved, ledger, dirty,   \* as in ShopSession
  list,         \* stockMovements in React state
  files,        \* the last backup of every kind
  reloading     \* a restore has succeeded and the page reloads in 900 ms

ASSUME BackupAssumption == InStock \in Nat /\ MaxSale \in Nat

Shop == INSTANCE ShopSession WITH Opening <- InStock, MaxStock <- InStock

backupVars == <<session, stock, saved, ledger, dirty, list, files, reloading>>

Kinds == {"export", "folder", "internal"}
File  == [stock : Nat, ledger : Int, sealed : BOOLEAN]

BackupInit ==
  /\ Shop!ShopInit
  /\ list = 0 /\ reloading = FALSE
  /\ files = [k \in Kinds |-> NoFile]

---------------------------------------------------------------------------
(* The shop at work                                                        *)

(* appendStockMovements leaves an empty list empty.                        *)
Listed(n) == IF list = 0 THEN 0 ELSE list - n

Trade(n) ==
  /\ ~reloading /\ Shop!Sell(n)
  /\ list' = Listed(n)
  /\ UNCHANGED <<files, reloading>>

(* hydrateStockMovements, for a screen that shows movements.               *)
Hydrate ==
  /\ session = "ready" /\ ~reloading
  /\ list' = ledger
  /\ UNCHANGED <<session, stock, saved, ledger, dirty, files, reloading>>

(* The debounced flush, which leaves the ledger out.                       *)
DebouncedFlush == ~reloading /\ Shop!Flush /\ UNCHANGED <<list, files, reloading>>

Lock == ~reloading /\ Shop!Lock /\ UNCHANGED <<list, files, reloading>>

(* loadStoredStateFromDesktop, clearDesktopRendererState and a new page    *)
(* leave no movements in memory.                                           *)
FreshList == list' = 0 /\ reloading' = FALSE /\ UNCHANGED files

Launch  == Shop!Launch /\ FreshList
SignIn  == Shop!SignIn /\ FreshList
Unlock  == Shop!UnlockEnd /\ FreshList
SignOut == ~reloading /\ Shop!SignOut /\ FreshList
Crash   == Shop!Crash /\ FreshList

UnlockBegin == Shop!UnlockBegin /\ UNCHANGED <<list, files, reloading>>

---------------------------------------------------------------------------
(* Making backups                                                          *)

(* Mutant of BackupData: the movements in memory are exported.             *)
BackupDataFromMemory(movements, sealed) ==
  [stock |-> stock, ledger |-> list, sealed |-> sealed]

(* buildBackupData: the state of the last render, the ledger from storage. *)
BackupData(movements, sealed) ==
  [stock |-> stock, ledger |-> movements, sealed |-> sealed]

Store(kind, file) == files' = [files EXCEPT ![kind] = file]

(* exportBackup, with a passphrase or without; it is logged.               *)
ExportBackup(sealed) ==
  /\ session = "ready" /\ ~reloading
  /\ Store("export", BackupData(ledger, sealed))
  /\ dirty' = TRUE
  /\ UNCHANGED <<session, stock, saved, ledger, list, reloading>>

(* backupToPath, by hand or at start-up; its date is a setting.            *)
BackupToPath ==
  /\ session = "ready" /\ ~reloading
  /\ Store("folder", BackupData(ledger, FALSE))
  /\ dirty' = TRUE
  /\ UNCHANGED <<session, stock, saved, ledger, list, reloading>>

(* checkAndBackup: a copy of the live state, movements in memory included. *)
InternalBackup ==
  /\ Shop!SignedIn /\ ~reloading
  /\ Store("internal", BackupData(list, FALSE))
  /\ dirty' = Shop!Hydrated
  /\ UNCHANGED <<session, stock, saved, ledger, list, reloading>>

(* onRunCloseBackup: flushPendingWritesNow, then backupToPath if the owner *)
(* wants it; the window closes whether or not the flush came through.      *)
Close(backup) ==
  /\ session # "off"
  /\ Shop!LastFlush
  /\ ledger' = (IF Shop!Hydrated THEN list ELSE ledger)
  /\ IF backup /\ Shop!SignedIn THEN Store("folder", BackupData(ledger', FALSE))
                                ELSE UNCHANGED files
  /\ session' = "off" /\ stock' = Shop!Seed /\ list' = 0
  /\ dirty' = FALSE /\ reloading' = FALSE

(* handleBeforeUnload                                                      *)
Reload ==
  /\ session # "off"
  /\ IF dirty /\ Shop!Hydrated THEN saved' = stock /\ ledger' = list
                               ELSE UNCHANGED <<saved, ledger>>
  /\ session' = "signedOut" /\ stock' = Shop!Seed /\ list' = 0
  /\ dirty' = FALSE /\ reloading' = FALSE
  /\ UNCHANGED files

---------------------------------------------------------------------------
(* Restoring                                                               *)

(* Only envelopes of version 1 and 2 are opened; one with a passphrase is  *)
(* of version 3.                                                           *)
Opens(kind) == files[kind] # NoFile /\ ~files[kind].sealed

(* importBackup: the state in memory is replaced, with no movements, and   *)
(* the file written to disk.  A key that the main process refuses leaves   *)
(* the others written and the page as it is; else it reloads.              *)
ImportBackup(kind, refused) ==
  /\ session = "ready" /\ ~reloading /\ Opens(kind)
  /\ stock' = files[kind].stock /\ list' = 0
  /\ saved' = files[kind].stock /\ ledger' = files[kind].ledger
  /\ dirty' = TRUE
  /\ reloading' = ~refused
  /\ UNCHANGED <<session, files>>

---------------------------------------------------------------------------
(* Next-state relations.  On the ordinary day, as in ShopSession, a due    *)
(* flush runs before a sign-out, an unlock or a power cut; and what writes *)
(* the list in memory finds the whole ledger in it: a closing or reloading *)
(* window, and the automatic backup.  So no restore runs to its end unless *)
(* the file is older than the first sale.                                  *)

Whole == list = ledger
OlderThanSales(kind) == files[kind] # NoFile => files[kind].ledger = 0

BackupNext ==
  \/ \E n \in 1 .. MaxSale : Trade(n)
  \/ Launch \/ SignIn \/ Hydrate \/ DebouncedFlush \/ Lock \/ Unlock
  \/ ~dirty /\ (UnlockBegin \/ SignOut \/ Crash)
  \/ \E sealed \in BOOLEAN : ExportBackup(sealed)
  \/ BackupToPath
  \/ Whole /\ InternalBackup
  \/ \E backup \in BOOLEAN : (Shop!Hydrated => Whole) /\ Close(backup)
  \/ (Shop!Hydrated /\ dirty => Whole) /\ Reload
  \/ \E kind \in Kinds, refused \in BOOLEAN :
       (refused \/ OlderThanSales(kind)) /\ ImportBackup(kind, refused)

BackupSpec == BackupInit /\ [][BackupNext]_backupVars

(* A file of any age is restored to the end.                               *)
RestoringNext == BackupNext \/ Reload \/ \E kind \in Kinds : ImportBackup(kind, FALSE)

RestoringSpec == BackupInit /\ [][RestoringNext]_backupVars

---------------------------------------------------------------------------
(* Properties                                                              *)

BackupTypeOK ==
  /\ Shop!ShopTypeOK /\ list \in Int /\ reloading \in BOOLEAN
  /\ files \in [Kinds -> File \cup {NoFile}]

(* Whatever was sold, flushed, restored, locked, reloaded or closed before *)
(* it was made, the movements of a backup explain its own stock: it is not *)
(* "a file that looks complete and restores a shop whose inventory no      *)
(* longer reconciles with its own invoices" (AppContext.tsx:3289).         *)
BackupsReconcile ==
  \A kind \in Kinds :
    files[kind] # NoFile => files[kind].stock = InStock + files[kind].ledger

(* "a reload reads the restored data" (system-probe.test.tsx:489): the     *)
(* reload after a restore leaves on disk what the restore has written.     *)
RestoreSticks ==
  [][reloading /\ session' = "signedOut" => UNCHANGED <<saved, ledger>>]_backupVars
=============================================================================
