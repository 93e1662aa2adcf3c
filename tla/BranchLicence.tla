---------------------------- MODULE BranchLicence ----------------------------
(***************************************************************************)
(* Branches that are paid for: src/electron/main.cjs keeps the activation  *)
(* codes and creates a branch for each; the renderer's                     *)
(* src/src/store/AutoPartsProContext.tsx keeps its own list of branches,   *)
(* adds the new one to it when the answer arrives, and writes the whole    *)
(* list back 1.2 seconds after any change of it.  Main refuses a list with *)
(* a branch it does not know.                                              *)
(*                                                                         *)
(* A branch is named by the code that paid for it.  The program is         *)
(* licensed and its owner signed in throughout.                            *)
(***************************************************************************)
EXTENDS Integers, FiniteSets

CONSTANTS
  Founding,     \* the main branch and those older than the licences
  Codes,        \* activation codes the vendor has issued for this machine
  Strangers,    \* branches of another shop's backup
  NoBranch

ASSUME LicenceAssumption ==
  /\ IsFiniteSet(Founding) /\ IsFiniteSet(Codes) /\ Founding # {} /\ NoBranch \notin Codes
  /\ Founding \cap Codes = {} /\ Strangers \cap (Founding \cup Codes) = {}

VARIABLES
  storedBranches,   \* the row autoparts_inventory_v1::branches
  activations,      \* __branch_license_activations: codes entered
  consumed,         \* those with a branch
  branchList,       \* branches, the renderer's state
  listUnsaved,      \* it differs from _lastFlushedRef
  cachedBranches,   \* the row in the renderer's cache
  created,          \* the branch the answer on its way tells of, or NoBranch
  backup            \* the branches of a backup file

licenceVars == <<storedBranches, activations, consumed, branchList, listUnsaved,
                 cachedBranches, created, backup>>

KnownBranches == Founding \cup Codes

LicenceInit ==
  /\ storedBranches = Founding /\ branchList = Founding /\ cachedBranches = Founding
  /\ activations = {} /\ consumed = {} /\ listUnsaved = FALSE /\ created = NoBranch
  /\ backup = Founding

---------------------------------------------------------------------------
(* getBranchLicenseStatusInternal.  The main branch and the grandfathered  *)
(* slots are the founding branches.                                        *)

BranchLimit == Cardinality(Founding) + Cardinality(activations)

SlotAvailable == activations # consumed /\ Cardinality(storedBranches) < BranchLimit

(* validateBranchStorageValue *)
Acceptable(list) ==
  list # {} /\ Cardinality(list) <= BranchLimit /\ list \subseteq storedBranches

(* storage:set-batch: a list that is refused leaves the old one.           *)
Written(list) == storedBranches' = IF Acceptable(list) THEN list ELSE storedBranches

---------------------------------------------------------------------------

(* activateBranchSlot *)
ActivateSlot(code) ==
  /\ code \notin activations /\ ~SlotAvailable
  /\ activations' = activations \cup {code}
  /\ UNCHANGED <<storedBranches, consumed, branchList, listUnsaved, cachedBranches,
                 created, backup>>

(* addBranch until main has answered: createLicensedBranch.                *)
CreateLicensedBranch(code) ==
  /\ created = NoBranch /\ SlotAvailable /\ code \in activations \ consumed
  /\ storedBranches' = storedBranches \cup {code} /\ consumed' = consumed \cup {code}
  /\ created' = code
  /\ UNCHANGED <<activations, branchList, listUnsaved, cachedBranches, backup>>

(* Mutant of WithCreated: the answer is shown and the list not extended.   *)
WithCreatedForgotten == branchList

WithCreated == branchList \cup {created}

(* addBranch from the answer on.                                           *)
BranchAnswered ==
  /\ created # NoBranch
  /\ branchList' = WithCreated /\ listUnsaved' = TRUE /\ created' = NoBranch
  /\ UNCHANGED <<storedBranches, activations, consumed, cachedBranches, backup>>

(* updateBranch: a name, an address, active or not.                        *)
UpdateBranch ==
  /\ listUnsaved' = TRUE
  /\ UNCHANGED <<storedBranches, activations, consumed, branchList, cachedBranches,
                 created, backup>>

(* The debounced flush: the list is not tried again when it is refused.    *)
FlushBranchList ==
  /\ listUnsaved /\ listUnsaved' = FALSE
  /\ cachedBranches' = branchList /\ Written(branchList)
  /\ UNCHANGED <<activations, consumed, branchList, created, backup>>

(* buildBackupData reads the cached row.                                   *)
ExportBranches ==
  /\ backup' = cachedBranches
  /\ UNCHANGED <<storedBranches, activations, consumed, branchList, listUnsaved,
                 cachedBranches, created>>

(* importBackup of that file or of another shop's: when the row is refused *)
(* the restore is reported as failed and the screens keep their list.      *)
ImportBranches(file) ==
  /\ cachedBranches' = file /\ Written(file) /\ listUnsaved' = TRUE
  /\ branchList' = IF Acceptable(file) THEN file ELSE branchList
  /\ UNCHANGED <<activations, consumed, created, backup>>

(* The window reloads or the program is started again, after its flush or  *)
(* after a power cut: the list is read from the store.                     *)
ReloadBranches ==
  /\ branchList' = storedBranches /\ cachedBranches' = storedBranches
  /\ listUnsaved' = FALSE /\ created' = NoBranch
  /\ UNCHANGED <<storedBranches, activations, consumed, backup>>

(* No edit of the list is waiting for its flush when a branch is created,  *)
(* and none is made before the answer.                                     *)
NoEditPending == ~listUnsaved
NoAnswerPending == created = NoBranch

(* A file with all the paid branches is restored, or one that is refused.  *)
KeepsBranches(file) == created = NoBranch /\ (consumed \subseteq file \/ ~Acceptable(file))

LicenceNext ==
  \/ \E code \in Codes : ActivateSlot(code)
  \/ \E code \in Codes : NoEditPending /\ CreateLicensedBranch(code)
  \/ BranchAnswered
  \/ NoAnswerPending /\ UpdateBranch
  \/ FlushBranchList \/ ExportBranches \/ ReloadBranches
  \/ \E file \in {backup, Founding \cup Strangers} : KeepsBranches(file) /\ ImportBranches(file)

LicenceSpec == LicenceInit /\ [][LicenceNext]_licenceVars

---------------------------------------------------------------------------
(* Properties                                                              *)

LicenceTypeOK ==
  /\ {storedBranches, branchList} \subseteq SUBSET KnownBranches
  /\ {cachedBranches, backup} \subseteq SUBSET (KnownBranches \cup Strangers)
  /\ consumed \subseteq activations /\ activations \subseteq Codes
  /\ listUnsaved \in BOOLEAN /\ created \in Codes \cup {NoBranch}

(* Every code that was used up still has its branch, and there is no other *)
(* branch beside those the shop was founded with: no flush of a list read  *)
(* before the branch was created, no restart and no restored file takes a  *)
(* paid branch away, and none adds one (main.cjs: "importing or editing    *)
(* app data cannot manufacture extra paid slots").                         *)
PaidBranchesStand ==
  /\ consumed \subseteq storedBranches
  /\ storedBranches \subseteq Founding \cup consumed
=============================================================================
