--------------------------- MODULE SoftwareUpdate ---------------------------
(***************************************************************************)
(* Updating the program: src/electron/main.cjs asks the portal for a newer *)
(* release on a timer and on demand, downloads it with electron-updater    *)
(* and installs it.  One record, _updateState, is written by the checks,   *)
(* by the download's events and by the user's clicks, in whatever order    *)
(* they come.                                                              *)
(*                                                                         *)
(* Releases are numbered in the order of publication.  electron-updater    *)
(* runs one transfer at a time: a second call joins the first, and the     *)
(* token of the second call cancels nothing.                               *)
(***************************************************************************)
EXTENDS Integers

CONSTANTS
  Releases,     \* 1 .. the last release
  Severity      \* of each release: "normal", "important", "critical" or "emergency"

ASSUME UpdateAssumption ==
  /\ Releases \subseteq Nat \ {0}
  /\ Severity \in [Releases -> {"normal", "important", "critical", "emergency"}]

VARIABLES
  phase, release,   \* _updateState; release is 0 for null
  checks,           \* the timer's and the user's check on their way
  transfer,         \* what electron-updater is doing
  token,            \* _updateCancellationToken
  quitHandler,      \* electron-updater has added its own handler for quitting
  prefs,            \* __update_preferences
  skipped,          \* __update_skipped_releases
  published,        \* the portal's newest release
  installed,        \* the release that runs, 0 at first
  verified          \* history: the release whose artifact came down last

updateVars == <<phase, release, checks, transfer, token, quitHandler, prefs, skipped,
                published, installed, verified>>

Phases  == {"idle", "checking", "available", "downloading", "downloaded", "installing", "error"}
Reasons == {"scheduled", "manual"}
NoCheck == [stage |-> "none", autoDownload |-> FALSE, offered |-> 0]
NoTransfer == [stage |-> "none", of |-> 0, joined |-> FALSE]

UpdateInit ==
  /\ phase = "idle" /\ release = 0 /\ token = "none" /\ transfer = NoTransfer
  /\ checks = [r \in Reasons |-> NoCheck]
  /\ prefs = [autoCheck |-> TRUE, autoDownload |-> TRUE, autoInstallOnQuit |-> FALSE]
  /\ quitHandler = FALSE /\ skipped = {} /\ published = 0 /\ installed = 0 /\ verified = 0

---------------------------------------------------------------------------
(* update-policy.cjs                                                       *)

canSkipUpdate(r) == r # 0 /\ Severity[r] = "normal"

shouldAutoDownloadUpdate(r, autoDownload) == Severity[r] # "normal" \/ autoDownload

(* Mutant of shouldBlockForUpdate: the gate comes down with the offer.    *)
shouldBlockOnOffer ==
  /\ release # 0 /\ Severity[release] \in {"critical", "emergency"}
  /\ phase # "idle"

shouldBlockForUpdate ==
  /\ release # 0 /\ Severity[release] \in {"critical", "emergency"}
  /\ phase \in {"downloaded", "installing"}

---------------------------------------------------------------------------
(* Checks                                                                  *)

(* checkForUpdateOnline, until the portal is asked.                        *)
AskForUpdate(reason) ==
  /\ checks[reason] = NoCheck /\ phase # "checking" /\ phase # "installing"
  /\ prefs.autoCheck \/ reason = "manual"
  /\ checks' = [checks EXCEPT ![reason] =
       [stage |-> "asked", autoDownload |-> prefs.autoDownload, offered |-> 0]]
  /\ phase' = "checking"
  /\ UNCHANGED <<release, transfer, token, quitHandler, prefs, skipped, published, installed,
                 verified>>

(* The portal offers its newest release to an older program.               *)
PortalOffers(reason) ==
  /\ checks[reason].stage = "asked"
  /\ checks' = [checks EXCEPT ![reason].stage = "answered",
                              ![reason].offered = IF published > installed THEN published ELSE 0]
  /\ UNCHANGED <<phase, release, transfer, token, quitHandler, prefs, skipped, published, installed,
                 verified>>

(* downloadUpdate up to its first await: a transfer starts, or this call   *)
(* will join the one that runs.                                            *)
Download(r) ==
  /\ phase' = "downloading" /\ release' = r /\ UNCHANGED quitHandler
  /\ \/ transfer = NoTransfer
        /\ transfer' = [stage |-> "resolving", of |-> r, joined |-> FALSE] /\ token' = token
     \/ transfer.stage = "resolving"
        /\ transfer' = [transfer EXCEPT !.joined = TRUE] /\ token' = token
     \/ transfer.stage = "running"
        /\ transfer' = transfer /\ token' = "joined"

Announce(r) ==
  /\ phase' = "available" /\ release' = r
  /\ UNCHANGED <<transfer, token, quitHandler>>

(* Mutant of PassedOver: the list of skipped releases is not read again.   *)
PassedOverNever(r) == FALSE

(* The skip list is read when the answer is there.                         *)
PassedOver(r) == canSkipUpdate(r) /\ r \in skipped

(* checkForUpdateOnline, from the portal's answer on.                      *)
CheckAnswered(reason) ==
  LET check == checks[reason]
  IN  /\ check.stage = "answered"
      /\ checks' = [checks EXCEPT ![reason] = NoCheck]
      /\ \/ /\ check.offered = 0
            /\ phase' = "idle" /\ release' = 0 /\ UNCHANGED <<transfer, token, quitHandler>>
         \/ /\ check.offered # 0 /\ PassedOver(check.offered)
            /\ phase' = "idle" /\ UNCHANGED <<release, transfer, token, quitHandler>>
         \/ /\ check.offered # 0 /\ ~PassedOver(check.offered)
            /\ IF shouldAutoDownloadUpdate(check.offered, check.autoDownload)
               THEN Download(check.offered) ELSE Announce(check.offered)
      /\ UNCHANGED <<prefs, skipped, published, installed, verified>>

(* The request fails on the way, or the portal answers with an error.      *)
CheckFails(reason) ==
  /\ checks[reason].stage = "asked"
  /\ checks' = [checks EXCEPT ![reason] = NoCheck]
  /\ phase' \in {"idle", IF release # 0 THEN "available" ELSE "idle"}
  /\ UNCHANGED <<release, transfer, token, quitHandler, prefs, skipped, published, installed,
                 verified>>

---------------------------------------------------------------------------
(* The download                                                            *)

(* updates:download *)
DownloadNow ==
  /\ release # 0 /\ phase \notin {"downloading", "downloaded"}
  /\ Download(release)
  /\ UNCHANGED <<checks, prefs, skipped, published, installed, verified>>

(* autoUpdater.checkForUpdates has resolved the feed: the transfer gets    *)
(* its token.                                                              *)
FeedResolved ==
  /\ transfer.stage = "resolving"
  /\ transfer' = [transfer EXCEPT !.stage = "running"]
  /\ token' = IF transfer.joined THEN "joined" ELSE "own"
  /\ UNCHANGED <<phase, release, checks, quitHandler, prefs, skipped, published, installed, verified>>

(* update-downloaded *)
Downloaded ==
  /\ transfer.stage = "running"
  /\ transfer' = NoTransfer /\ token' = "none"
  /\ phase' = "downloaded" /\ verified' = transfer.of
  /\ quitHandler' = (quitHandler \/ prefs.autoInstallOnQuit)
  /\ UNCHANGED <<release, checks, prefs, skipped, published, installed>>

DownloadFails ==
  /\ transfer # NoTransfer
  /\ transfer' = NoTransfer /\ token' = "none" /\ phase' = "error"
  /\ UNCHANGED <<release, checks, quitHandler, prefs, skipped, published, installed, verified>>

(* cancelDownload: the button shows while the phase says so.               *)
CancelDownload ==
  /\ phase = "downloading"
  /\ phase' = "available" /\ token' = "none"
  /\ transfer' = IF token = "own" THEN NoTransfer ELSE transfer
  /\ UNCHANGED <<release, checks, quitHandler, prefs, skipped, published, installed, verified>>

(* updates:skip-release *)
SkipRelease ==
  /\ canSkipUpdate(release) /\ phase \notin {"downloading", "downloaded", "installing"}
  /\ skipped' = skipped \cup {release}
  /\ phase' = "idle" /\ release' = 0
  /\ UNCHANGED <<checks, transfer, token, quitHandler, prefs, published, installed, verified>>

SetPreferences ==
  /\ prefs' \in [autoCheck : BOOLEAN, autoDownload : BOOLEAN, autoInstallOnQuit : BOOLEAN]
  /\ prefs' # prefs
  /\ UNCHANGED <<phase, release, checks, transfer, token, quitHandler, skipped, published, installed,
                 verified>>

---------------------------------------------------------------------------

(* installUpdate *)
InstallUpdate ==
  /\ phase = "downloaded" /\ phase' = "installing"
  /\ UNCHANGED <<release, checks, transfer, token, quitHandler, prefs, skipped, published, installed,
                 verified>>

InstalledAtQuit ==
  \/ phase = "installing"
  \/ phase = "downloaded" /\ prefs.autoInstallOnQuit
  \/ quitHandler /\ prefs.autoInstallOnQuit

(* The program quits and is started again.  The last artifact is installed *)
(* by quitAndInstall, by before-quit if the user wants that, and by the    *)
(* handler electron-updater added when an artifact had come down for a     *)
(* user who wanted that, whatever the phase has become since.              *)
QuitAndStart ==
  /\ installed' = IF verified # 0 /\ InstalledAtQuit THEN verified ELSE installed
  /\ quitHandler' = FALSE
  /\ phase' = "idle" /\ release' = 0 /\ transfer' = NoTransfer /\ token' = "none"
  /\ checks' = [r \in Reasons |-> NoCheck]
  /\ verified' = 0
  /\ UNCHANGED <<prefs, skipped, published>>

Publish ==
  /\ published + 1 \in Releases /\ published' = published + 1
  /\ UNCHANGED <<phase, release, checks, transfer, token, quitHandler, prefs, skipped, installed,
                 verified>>

(* A download is cancelled once it has a token of its own.                 *)
CancelReaches == token = "own"

(* No newer release is found while one is downloaded.                      *)
SameRelease(reason) ==
  transfer # NoTransfer => checks[reason].offered \in {0, transfer.of}

(* A release is skipped while none is being downloaded, and none has been. *)
NoneUnderWay == transfer = NoTransfer /\ verified = 0

CommonNext ==
  \/ DownloadNow \/ FeedResolved \/ Downloaded \/ DownloadFails
  \/ SetPreferences \/ InstallUpdate \/ QuitAndStart \/ Publish
  \/ \E reason \in Reasons : AskForUpdate(reason) \/ PortalOffers(reason) \/ CheckFails(reason)

UpdateNext ==
  \/ CommonNext
  \/ CancelReaches /\ CancelDownload
  \/ NoneUnderWay /\ SkipRelease
  \/ \E reason \in Reasons : SameRelease(reason) /\ CheckAnswered(reason)

UpdateSpec == UpdateInit /\ [][UpdateNext]_updateVars

---------------------------------------------------------------------------
(* Properties                                                              *)

UpdateTypeOK ==
  /\ phase \in Phases /\ release \in Releases \cup {0}
  /\ checks \in [Reasons -> [stage : {"none", "asked", "answered"}, autoDownload : BOOLEAN,
                             offered : Releases \cup {0}]]
  /\ transfer \in [stage : {"none", "resolving", "running"}, of : Releases \cup {0},
                   joined : BOOLEAN]
  /\ token \in {"none", "own", "joined"} /\ quitHandler \in BOOLEAN
  /\ skipped \subseteq Releases
  /\ prefs \in [autoCheck : BOOLEAN, autoDownload : BOOLEAN, autoInstallOnQuit : BOOLEAN]
  /\ {published, installed, verified} \subseteq Releases \cup {0}

(* A normal release the user has skipped never comes back: no check that   *)
(* was on its way offers it, no transfer brings it down, and quitting does *)
(* not install it.                                                         *)
SkippedStaysAway ==
  /\ release \notin skipped /\ installed \notin skipped
  /\ transfer.of \notin skipped
  /\ phase = "downloaded" => verified \notin skipped

(* The gate that shuts the shop until a critical release is installed only *)
(* comes down when the artifact of that very release has been verified     *)
(* (update-policy.cjs: "The blocking gate is activated only after          *)
(* electron-updater has downloaded and verified the artifact").            *)
GateOnlyAfterVerified == shouldBlockForUpdate => verified = release
=============================================================================
