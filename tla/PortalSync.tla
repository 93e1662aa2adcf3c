----------------------------- MODULE PortalSync -----------------------------
(***************************************************************************)
(* What the shop publishes: src/electron/main.cjs sends a snapshot of the  *)
(* shop to the portal, which the owner's phone shows, wakes the phone when *)
(* the snapshot tells of something new, and keeps a sealed archive of the  *)
(* whole store at the portal.  Both jobs run on timers beside the shop's   *)
(* own work and may fail at any await.                                     *)
(*                                                                         *)
(* The rows are known by their revision, which every save renews.  The     *)
(* portal stores an upload before the request times out, or never.  The    *)
(* hash of an archive covers the moment of its capture, so no two are      *)
(* equal and no upload is spared.                                          *)
(***************************************************************************)
EXTENDS Integers

CONSTANTS
  Alerts,         \* what there can be to tell: low stock, unpaid invoices
  Calm,           \* nothing to tell
  Passphrases,    \* of the archive
  Unset,
  MaxRevision     \* bound: saves

ASSUME PortalAssumption == Calm \notin Alerts /\ Unset \notin Passphrases /\ MaxRevision \in Nat

VARIABLES
  shopRows,         \* the stored products, customers and invoices
  sync,             \* commerceSyncInFlight and what that call holds
  portal,           \* the snapshot the portal shows
  syncedRevision,   \* the revision last synced, 0 at first
  lastNotified,     \* MOBILE_NOTIFY_STATE: the signature, and its quiet period
  phone,            \* history: the snapshot the phone was last woken for
  passphrase,       \* __cloud_archive_passphrase
  archiving,        \* cloudArchiveInFlight and what that call holds
  archive,          \* the envelope the portal keeps
  archived          \* __cloud_archive_hash is there

portalVars == <<shopRows, sync, portal, syncedRevision, lastNotified, phone,
                passphrase, archiving, archive, archived>>
mirrorVars  == <<sync, portal, syncedRevision, lastNotified, phone>>
archiveVars == <<passphrase, archiving, archive, archived>>

Contents   == [revision : Nat, alert : Alerts \cup {Calm}]
Secrets    == Passphrases \cup {Unset}
Empty      == [revision |-> 0, alert |-> Calm]
NoSync     == [stage |-> "none", snapshot |-> Empty]
NoEnvelope == [revision |-> 0, seal |-> Unset]
NoUpload   == [stage |-> "none", envelope |-> NoEnvelope]

PortalInit ==
  /\ shopRows = [revision |-> 1, alert |-> Calm]
  /\ sync = NoSync /\ portal = Empty /\ syncedRevision = 0
  /\ lastNotified = [alert |-> Calm, quiet |-> FALSE] /\ phone = Empty
  /\ passphrase = Unset /\ archiving = NoUpload /\ archive = NoEnvelope /\ archived = FALSE

---------------------------------------------------------------------------

(* A flush of the renderer, or a restore.                                  *)
SaveRows(alert) ==
  /\ shopRows.revision < MaxRevision
  /\ shopRows' = [revision |-> shopRows.revision + 1, alert |-> alert]
  /\ UNCHANGED <<mirrorVars, archiveVars>>

(* syncCommerceOnline: revision and snapshot are read at once.  It is      *)
(* forced after a launch and a day after the last time.                    *)
SyncCommerce(force) ==
  /\ sync.stage = "none" /\ (force \/ syncedRevision # shopRows.revision)
  /\ sync' = [stage |-> "sent", snapshot |-> shopRows]
  /\ UNCHANGED <<shopRows, portal, syncedRevision, lastNotified, phone, archiveVars>>

PortalStores ==
  /\ sync.stage = "sent"
  /\ sync' = [sync EXCEPT !.stage = "stored"] /\ portal' = sync.snapshot
  /\ UNCHANGED <<shopRows, syncedRevision, lastNotified, phone, archiveVars>>

(* shouldNotify *)
ShouldNotify(alert) ==
  alert # Calm /\ ~(lastNotified.alert = alert /\ lastNotified.quiet)

(* Mutant of SyncedAs: the revision is read when the portal has answered.  *)
SyncedAsOfNow == shopRows.revision

(* The revision that is on record once the portal has the snapshot.        *)
SyncedAs == sync.snapshot.revision

(* The portal's answer; maybeNotifyMobileDevices goes on from it.          *)
SyncAnswered ==
  /\ sync.stage = "stored"
  /\ syncedRevision' = SyncedAs
  /\ sync' = IF ShouldNotify(sync.snapshot.alert) THEN [sync EXCEPT !.stage = "telling"]
             ELSE NoSync
  /\ UNCHANGED <<shopRows, portal, lastNotified, phone, archiveVars>>

(* An error, no answer within thirty seconds, or no connection at all.     *)
SyncFails ==
  /\ sync.stage \in {"sent", "stored"}
  /\ sync' = NoSync
  /\ UNCHANGED <<shopRows, portal, syncedRevision, lastNotified, phone, archiveVars>>

(* Mutant of MayTell: the phone is woken while the upload is under way.    *)
MayTellEarly == sync.stage \in {"sent", "telling"} /\ sync.snapshot.alert # Calm

MayTell == sync.stage = "telling"

(* notifyMobileDevices reaches the phone; only an answer is remembered.    *)
PhoneWoken(answered) ==
  /\ MayTell
  /\ phone' = sync.snapshot
  /\ lastNotified' = IF answered THEN [alert |-> sync.snapshot.alert, quiet |-> TRUE]
                     ELSE lastNotified
  /\ sync' = NoSync
  /\ UNCHANGED <<shopRows, portal, syncedRevision, archiveVars>>

NoticeFails ==
  /\ sync.stage = "telling"
  /\ sync' = NoSync
  /\ UNCHANGED <<shopRows, portal, syncedRevision, lastNotified, phone, archiveVars>>

(* Six hours after the last notice.                                        *)
QuietPeriodEnds ==
  /\ lastNotified.quiet /\ lastNotified' = [lastNotified EXCEPT !.quiet = FALSE]
  /\ UNCHANGED <<shopRows, sync, portal, syncedRevision, phone, archiveVars>>

---------------------------------------------------------------------------
(* The archive                                                             *)

(* syncCloudArchive, up to the upload.                                     *)
ArchiveStarts ==
  /\ archiving.stage = "none" /\ passphrase # Unset
  /\ archiving' = [stage |-> "sent",
                   envelope |-> [revision |-> shopRows.revision, seal |-> passphrase]]
  /\ UNCHANGED <<shopRows, mirrorVars, passphrase, archive, archived>>

ArchiveStored ==
  /\ archiving.stage = "sent"
  /\ archiving' = [archiving EXCEPT !.stage = "stored"] /\ archive' = archiving.envelope
  /\ UNCHANGED <<shopRows, mirrorVars, passphrase, archived>>

ArchiveAnswered ==
  /\ archiving.stage = "stored"
  /\ archiving' = NoUpload /\ archived' = TRUE
  /\ UNCHANGED <<shopRows, mirrorVars, passphrase, archive>>

ArchiveFails ==
  /\ archiving.stage \in {"sent", "stored"}
  /\ archiving' = NoUpload
  /\ UNCHANGED <<shopRows, mirrorVars, passphrase, archive, archived>>

(* Mutant of StillArchived: the old envelope still counts as archived.     *)
StillArchivedAsBefore == archived

(* storageRemove of the hash.                                              *)
StillArchived == FALSE

(* cloud-archive:set-passphrase, up to the upload it asks for; that upload *)
(* is refused while another one runs.                                      *)
SetPassphrase(p) ==
  /\ passphrase' = p /\ archived' = StillArchived
  /\ UNCHANGED <<shopRows, mirrorVars, archiving, archive>>

(* The program ends and is started again.                                  *)
RestartSync ==
  /\ sync' = NoSync /\ archiving' = NoUpload
  /\ UNCHANGED <<shopRows, portal, syncedRevision, lastNotified, phone,
                 passphrase, archive, archived>>

(* The passphrase changes while no upload is under way.                    *)
NoArchiveUnderWay == archiving = NoUpload

PortalNext ==
  \/ \E alert \in Alerts \cup {Calm} : SaveRows(alert)
  \/ \E force \in BOOLEAN : SyncCommerce(force)
  \/ PortalStores \/ SyncAnswered \/ SyncFails
  \/ \E answered \in BOOLEAN : PhoneWoken(answered)
  \/ NoticeFails \/ QuietPeriodEnds
  \/ ArchiveStarts \/ ArchiveStored \/ ArchiveAnswered \/ ArchiveFails
  \/ \E p \in Passphrases : NoArchiveUnderWay /\ SetPassphrase(p)
  \/ RestartSync

PortalSpec == PortalInit /\ [][PortalNext]_portalVars

---------------------------------------------------------------------------
(* Properties                                                              *)

PortalTypeOK ==
  /\ shopRows \in Contents /\ portal \in Contents /\ phone \in Contents
  /\ sync \in [stage : {"none", "sent", "stored", "telling"}, snapshot : Contents]
  /\ syncedRevision \in Nat
  /\ lastNotified \in [alert : Alerts \cup {Calm}, quiet : BOOLEAN]
  /\ passphrase \in Secrets /\ archived \in BOOLEAN
  /\ archive \in [revision : Nat, seal : Secrets]
  /\ archiving \in [stage : {"none", "sent", "stored"}, envelope : [revision : Nat, seal : Secrets]]

(* When the program has on record that this revision of the shop is        *)
(* published, so that the timer spares the upload, the portal does show    *)
(* it, whatever the shop saved and whatever failed during the uploads      *)
(* (syncCommerceOnline, commerceSourceRevision).                           *)
PortalMatchesRecord == syncedRevision = shopRows.revision => portal = shopRows

(* The phone is never woken for something the owner's app cannot show yet  *)
(* (main.cjs: "Only after the phones can actually see the new numbers").   *)
PhoneNeverAhead == phone.revision <= portal.revision

(* An archive on record opens with the passphrase on record                *)
(* (cloud-archive:set-passphrase: "rather than leaving an entry the owner  *)
(* can no longer open").                                                   *)
ArchiveOpens == archived => archive.seal = passphrase
=============================================================================
