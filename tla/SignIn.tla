------------------------------- MODULE SignIn -------------------------------
(***************************************************************************)
(* Signing in to the shop: src/electron/main.cjs with mfa.cjs and          *)
(* rate-limit.cjs.  A password opens a session or a challenge for a second *)
(* factor; wrong passwords lock the account for longer and longer; an      *)
(* account is recovered with a one-time code.                              *)
(*                                                                         *)
(* There is one window, which waits for every answer, so a handler is one  *)
(* step.  Time counts the thirty-second periods of the authenticator.  A   *)
(* challenge that has run out is dropped as the clock passes it, although  *)
(* the code drops it when it is next looked up.  Secrets and sheets of     *)
(* recovery codes are numbered in the order of issue.  A password is right *)
(* or wrong, the second factor is licensed, and nobody waits the day after *)
(* which a lock's level is forgotten.                                      *)
(***************************************************************************)
EXTENDS Integers, FiniteSets, Sequences

CONSTANTS
  Users, Owner,
  None,
  MaxAttempts,       \* wrong entries until a lock
  LoginSteps,        \* length of an account's first, second, ... lock
  CodeLock,          \* length of a lock of the second factor
  RecoveryLock,      \* length of a lock of the recovery screen
  ChallengeTTL,
  Forgetful,         \* bound: the users who mistype
  SheetSize,         \* recovery codes on a sheet
  MaxClock,          \* bound: periods that pass
  MaxIssued          \* bound: secrets and sheets ever issued

ASSUME SignInAssumption ==
  /\ Owner \in Users /\ Forgetful \subseteq Users /\ None \notin Users /\ MaxAttempts \in Nat \ {0}
  /\ LoginSteps \in Seq(Nat \ {0}) /\ Len(LoginSteps) > 0
  /\ {CodeLock, RecoveryLock, ChallengeTTL, SheetSize, MaxClock, MaxIssued} \subseteq Nat

VARIABLES
  clock,
  issued,            \* secrets and sheets issued so far
  mfa,               \* user_mfa: secret and last accepted period, or None
  codes,             \* mfa_recovery_codes not consumed
  policy,            \* auth_security_policy
  loginAttempts,     \* wrong passwords, in memory
  loginLocks,        \* __login_locks, on disk
  mfaLocks,          \* mfa_attempt_locks, on disk
  recoveryAttempts,  \* wrong recovery codes of the window, in memory
  challenges,        \* mfaChallenges of the window, at most one of a type
  session,           \* rendererSessions of the window
  slips,             \* bound: what forgetful users get wrong, passwords or codes
  spent,             \* history: codes accepted so far
  doubled,           \* history: a code was accepted twice
  promised           \* history: until when the user was told to wait

signInVars == <<clock, issued, mfa, codes, policy, loginAttempts, loginLocks, mfaLocks,
                recoveryAttempts, challenges, session, slips, spent, doubled, promised>>

(* What only the properties look at.                                       *)
grants == <<spent, doubled, promised>>

Policies       == {"disabled", "optional", "required_owner", "required_all"}
ChallengeTypes == {"login_factor", "login_enrollment", "self_enrollment", "account_recovery"}
NoFailures     == [count |-> 0, until |-> 0]
Totp           == [secret : Nat, period : Nat]
RecoveryCodes  == [sheet : Nat, number : Nat]
Sheet(n)       == [sheet : {n}, number : 1 .. SheetSize]

SignInInit ==
  /\ clock = 1 /\ issued = 0 /\ policy = "optional"
  /\ mfa = [u \in Users |-> None] /\ codes = [u \in Users |-> {}]
  /\ loginAttempts = [u \in Users |-> NoFailures]
  /\ loginLocks = [u \in Users |-> [until |-> 0, level |-> 0]]
  /\ mfaLocks = [u \in Users |-> NoFailures] /\ recoveryAttempts = NoFailures
  /\ challenges = [t \in ChallengeTypes |-> None] /\ session = None
  /\ slips \in {"password", "code"} /\ promised = [u \in Users |-> 0]
  /\ spent = {} /\ doubled = FALSE

---------------------------------------------------------------------------
(* Locks and challenges                                                    *)

Locked(entry) == entry.until > clock

(* recordFailedAttempt, recordFailedSupportAttempt and                     *)
(* recordFailedMfaVerification: one more, or a lock and a fresh count.     *)
AfterFailure(entry, length) ==
  IF entry.count + 1 >= MaxAttempts
  THEN [count |-> 0, until |-> clock + length]
  ELSE [count |-> entry.count + 1, until |-> 0]

(* Mutant of LoginLimited: only the counter in memory is looked at.        *)
LoginLimitedInMemory(u) == Locked(loginAttempts[u])

(* checkPersistedLock and checkRateLimit, as login asks them.              *)
LoginLimited(u) == Locked(loginLocks[u]) \/ Locked(loginAttempts[u])

(* persistEscalatingLock *)
Escalated(lock) ==
  LET level == IF lock.level < Len(LoginSteps) THEN lock.level + 1 ELSE lock.level
  IN  [until |-> clock + LoginSteps[level], level |-> level]

Required(u) == policy = "required_all" \/ (policy = "required_owner" /\ u = Owner)

(* createMfaChallenge: it takes the place of the window's last one.        *)
Challenge(u, secret) ==
  [user |-> u, secret |-> secret, attempts |-> 0, expires |-> clock + ChallengeTTL]

Without(type) == [challenges EXCEPT ![type] = None]

(* recordFailedMfaChallenge *)
Strike(type) ==
  IF challenges[type].attempts + 1 >= MaxAttempts
  THEN Without(type)
  ELSE [challenges EXCEPT ![type].attempts = @ + 1]

(* revokeUserChallenges *)
Revoked(u) ==
  [t \in ChallengeTypes |->
     IF challenges[t] # None /\ challenges[t].user = u THEN None ELSE challenges[t]]


---------------------------------------------------------------------------
(* Proofs                                                                  *)

(* Mutant of Fresh: the period last used is accepted again.                *)
FreshOrLast(u, period) == mfa[u].last <= period

Fresh(u, period) == mfa[u].last < period

(* The codes verifyTotp takes at this time, whatever their secret, and     *)
(* those a user can read off a sheet.                                      *)
OnPhone == [secret : 1 .. issued, period : (clock - 1 .. clock + 1) \cap Nat]
OnPaper == UNION {Sheet(n) : n \in 1 .. issued}

Accepts(u, code) ==
  /\ mfa[u] # None
  /\ \/ /\ code \in OnPhone /\ code.secret = mfa[u].secret /\ Fresh(u, code.period)
     \/ code \in codes[u]

(* The period a code from the phone spends for good.                       *)
Last(u, code) ==
  IF code \in OnPhone THEN [mfa EXCEPT ![u].last = code.period] ELSE mfa

Spend(code) == spent' = spent \cup {code} /\ doubled' = (doubled \/ code \in spent)

Cleared(u) == mfaLocks' = [mfaLocks EXCEPT ![u] = NoFailures]

Refuse(u) == mfaLocks' = [mfaLocks EXCEPT ![u] = AfterFailure(@, CodeLock)]

(* verifyMfaProofForUser, the code accepted; the caller says what becomes  *)
(* of mfa and codes.                                                       *)
Proves(u, code) == ~Locked(mfaLocks[u]) /\ Accepts(u, code) /\ Spend(code)

(* verifyMfaProofForUser, a wrong, used or outdated code.                  *)
Misses(u, code) ==
  /\ slips = "code" /\ u \in Forgetful /\ mfa[u] # None /\ ~Locked(mfaLocks[u]) /\ ~Accepts(u, code)
  /\ Refuse(u)

---------------------------------------------------------------------------
(* Passwords                                                               *)

WrongPassword(u) ==
  /\ slips = "password" /\ ~LoginLimited(u)
  /\ loginAttempts' = [loginAttempts EXCEPT ![u] = AfterFailure(@, LoginSteps[1])]
  /\ IF loginAttempts[u].count + 1 >= MaxAttempts
     THEN /\ loginLocks' = [loginLocks EXCEPT ![u] = Escalated(@)]
          /\ promised' = [promised EXCEPT ![u] = Escalated(loginLocks[u]).until]
     ELSE UNCHANGED <<loginLocks, promised>>
  /\ UNCHANGED <<slips, clock, issued, mfa, codes, policy, mfaLocks, recoveryAttempts,
                 challenges, session, spent, doubled>>

Forgiven(u) ==
  /\ loginAttempts' = [loginAttempts EXCEPT ![u] = NoFailures]
  /\ loginLocks' = [loginLocks EXCEPT ![u] = [until |-> 0, level |-> 0]]
  /\ promised' = [promised EXCEPT ![u] = 0]

(* login with the right password, and buildMfaLoginResult: the window's    *)
(* own user unlocks; anybody else gets a session, or the challenge for a   *)
(* second factor or for enrolling one.                                     *)
RightPassword(u) ==
  /\ ~LoginLimited(u) /\ Forgiven(u)
  /\ \/ /\ session # u => policy = "disabled" \/ (mfa[u] = None /\ ~Required(u))
        /\ session' = u
        /\ UNCHANGED <<challenges, issued>>
     \/ /\ session # u /\ policy # "disabled" /\ mfa[u] # None
        /\ session' = None
        /\ challenges' = IF Locked(mfaLocks[u]) THEN challenges
                         ELSE [challenges EXCEPT !["login_factor"] = Challenge(u, 0)]
        /\ UNCHANGED issued
     \/ /\ session # u /\ mfa[u] = None /\ Required(u)
        /\ session' = None
        /\ \/ Locked(mfaLocks[u]) /\ UNCHANGED <<challenges, issued>>
           \/ /\ ~Locked(mfaLocks[u]) /\ issued < MaxIssued /\ issued' = issued + 1
              /\ challenges' = [challenges EXCEPT !["login_enrollment"] = Challenge(u, issued')]
  /\ UNCHANGED <<slips, clock, mfa, codes, policy, mfaLocks, recoveryAttempts, spent, doubled>>

(* verifyLoginSecondFactor *)
SecondFactor(code) ==
  LET asked == challenges["login_factor"]
  IN  /\ asked # None
      /\ \/ /\ mfa[asked.user] = None
            /\ challenges' = Without("login_factor")
            /\ UNCHANGED <<session, mfa, codes, mfaLocks, spent, doubled>>
         \/ /\ Proves(asked.user, code) /\ Cleared(asked.user)
            /\ mfa' = Last(asked.user, code)
            /\ codes' = [codes EXCEPT ![asked.user] = @ \ {code}]
            /\ challenges' = Without("login_factor")
            /\ session' = asked.user
         \/ /\ Misses(asked.user, code)
            /\ challenges' = IF Locked(mfaLocks'[asked.user]) THEN challenges
                             ELSE Strike("login_factor")
            /\ UNCHANGED <<session, mfa, codes, spent, doubled>>
      /\ UNCHANGED <<slips, clock, issued, policy, loginAttempts, loginLocks, recoveryAttempts, promised>>

---------------------------------------------------------------------------
(* Enrolment                                                               *)

(* beginOwnMfaEnrollment *)
BeginOwnEnrollment ==
  /\ session # None /\ policy # "disabled" /\ mfa[session] = None
  /\ issued < MaxIssued /\ issued' = issued + 1
  /\ challenges' = [challenges EXCEPT !["self_enrollment"] = Challenge(session, issued')]
  /\ UNCHANGED <<slips, clock, mfa, codes, policy, loginAttempts, loginLocks, mfaLocks,
                 recoveryAttempts, session, grants>>

(* Mutant of Enrolled: the period of the confirming code is not kept.      *)
EnrolledAfresh(code) == [secret |-> code.secret, last |-> 0]

Enrolled(code) == [secret |-> code.secret, last |-> code.period]

(* confirmMfaEnrollment and storeMfaEnrollment: the first code of a new    *)
(* secret is spent, and a sheet of recovery codes is handed out.           *)
ConfirmEnrollment(type, code) ==
  LET asked  == challenges[type]
      own    == type = "login_enrollment" \/ session = asked.user
      proven == code \in OnPhone /\ code.secret = asked.secret
  IN  /\ type \in {"self_enrollment", "login_enrollment"} /\ asked # None
      /\ \/ /\ ~own
            /\ challenges' = Without(type)
            /\ UNCHANGED <<mfa, codes, mfaLocks, issued, session, spent, doubled>>
         \/ /\ own /\ ~Locked(mfaLocks[asked.user]) /\ proven
            /\ issued < MaxIssued /\ issued' = issued + 1
            /\ mfa' = [mfa EXCEPT ![asked.user] = Enrolled(code)]
            /\ codes' = [codes EXCEPT ![asked.user] = Sheet(issued')]
            /\ Spend(code) /\ Cleared(asked.user)
            /\ challenges' = Without(type)
            /\ session' = IF type = "self_enrollment" THEN session
                          ELSE asked.user
         \/ /\ own /\ ~Locked(mfaLocks[asked.user]) /\ ~proven
            /\ Refuse(asked.user) /\ challenges' = Strike(type)
            /\ UNCHANGED <<mfa, codes, issued, session, spent, doubled>>
      /\ UNCHANGED <<slips, clock, policy, loginAttempts, loginLocks, recoveryAttempts, promised>>

(* disableOwnMfa and deleteMfaForUser *)
DisableOwn(code) ==
  /\ session # None /\ ~Required(session)
  /\ \/ /\ Proves(session, code)
        /\ mfa' = [mfa EXCEPT ![session] = None]
        /\ codes' = [codes EXCEPT ![session] = {}]
        /\ Cleared(session)
        /\ challenges' = Revoked(session)
     \/ /\ Misses(session, code)
        /\ UNCHANGED <<mfa, codes, challenges, spent, doubled>>
  /\ UNCHANGED <<slips, clock, issued, policy, loginAttempts, loginLocks, recoveryAttempts,
                 session, promised>>

(* regenerateOwnRecoveryCodes and replaceRecoveryCodes *)
RegenerateCodes(code) ==
  /\ session # None
  /\ \/ /\ Proves(session, code) /\ Cleared(session)
        /\ issued < MaxIssued /\ issued' = issued + 1
        /\ mfa' = Last(session, code)
        /\ codes' = [codes EXCEPT ![session] = Sheet(issued')]
     \/ /\ Misses(session, code)
        /\ UNCHANGED <<issued, mfa, codes, spent, doubled>>
  /\ UNCHANGED <<slips, clock, policy, loginAttempts, loginLocks, recoveryAttempts, challenges,
                 session, promised>>

(* mfa:update-policy: a mandatory policy needs everybody concerned         *)
(* enrolled.                                                               *)
UpdatePolicy(mode) ==
  /\ session = Owner /\ mode # policy
  /\ mode = "required_all" => \A u \in Users : mfa[u] # None
  /\ mode = "required_owner" => mfa[Owner] # None
  /\ policy' = mode
  /\ UNCHANGED <<slips, clock, issued, mfa, codes, loginAttempts, loginLocks, mfaLocks,
                 recoveryAttempts, challenges, session, grants>>

---------------------------------------------------------------------------
(* Recovery and resets                                                     *)

RecoveryBegun(u) ==
  /\ recoveryAttempts' = NoFailures
  /\ challenges' = [challenges EXCEPT !["account_recovery"] = Challenge(u, 0)]

RecoveryMissed ==
  /\ slips = "code"
  /\ recoveryAttempts' = AfterFailure(recoveryAttempts, RecoveryLock)
  /\ UNCHANGED challenges

(* beginAccountRecovery: a code from paper names its account.              *)
BeginRecovery(code) ==
  /\ code \in OnPaper /\ ~Locked(recoveryAttempts)
  /\ \/ \E u \in Users :
          /\ code \in codes[u] /\ codes' = [codes EXCEPT ![u] = @ \ {code}]
          /\ Spend(code) /\ RecoveryBegun(u)
     \/ /\ \A u \in Users : code \notin codes[u]
        /\ RecoveryMissed /\ UNCHANGED <<codes, spent, doubled>>
  /\ UNCHANGED <<slips, clock, issued, mfa, policy, loginAttempts, loginLocks, mfaLocks, session, promised>>

(* beginAccountRecoveryWithTotp: both locks count a miss.                  *)
BeginRecoveryWithTotp(u, code) ==
  /\ code \in OnPhone /\ ~Locked(recoveryAttempts)
  /\ \/ /\ Proves(u, code) /\ Cleared(u) /\ mfa' = Last(u, code) /\ RecoveryBegun(u)
     \/ /\ Misses(u, code)
        /\ RecoveryMissed /\ UNCHANGED <<mfa, spent, doubled>>
     \/ /\ mfa[u] = None \/ Locked(mfaLocks[u])
        /\ RecoveryMissed /\ UNCHANGED <<mfa, mfaLocks, spent, doubled>>
  /\ UNCHANGED <<slips, clock, issued, codes, policy, loginAttempts, loginLocks, session,
                 promised>>

(* What every reset does to the account: sessions and challenges from      *)
(* before it are over.                                                     *)
Reset(u) ==
  /\ session' = IF session = u THEN None ELSE session
  /\ challenges' = Revoked(u)

WithoutFactor(u) ==
  /\ mfa' = [mfa EXCEPT ![u] = None] /\ codes' = [codes EXCEPT ![u] = {}] /\ Cleared(u)

(* completeAccountRecovery: a new password, and unless the user keeps it,  *)
(* no second factor.                                                       *)
CompleteRecovery(resetMfa) ==
  LET asked == challenges["account_recovery"]
  IN  /\ asked # None
      /\ Reset(asked.user) /\ Forgiven(asked.user)
      /\ IF resetMfa THEN WithoutFactor(asked.user)
         ELSE Cleared(asked.user) /\ UNCHANGED <<mfa, codes>>
      /\ UNCHANGED <<slips, clock, issued, policy, recoveryAttempts, spent, doubled>>

(* resetUserMfaByOwner: with the owner's own second factor, if there is    *)
(* one.                                                                    *)
ResetByOwner(u, code) ==
  /\ session = Owner /\ u # Owner
  /\ \/ /\ mfa[Owner] = None
        /\ Reset(u) /\ WithoutFactor(u) /\ UNCHANGED <<spent, doubled>>
     \/ /\ Proves(Owner, code) /\ Reset(u)
        /\ mfa' = [Last(Owner, code) EXCEPT ![u] = None]
        /\ codes' = [codes EXCEPT ![u] = {}, ![Owner] = @ \ {code}]
        /\ mfaLocks' = [mfaLocks EXCEPT ![u] = NoFailures, ![Owner] = NoFailures]
     \/ /\ Misses(Owner, code)
        /\ UNCHANGED <<mfa, codes, session, challenges, spent, doubled>>
  /\ UNCHANGED <<slips, clock, issued, policy, loginAttempts, loginLocks, recoveryAttempts, promised>>

(* resetOwnerPassword: a code of the vendor's support.                     *)
ResetBySupport ==
  /\ Reset(Owner) /\ Forgiven(Owner) /\ WithoutFactor(Owner)
  /\ UNCHANGED <<slips, clock, issued, policy, recoveryAttempts, spent, doubled>>

---------------------------------------------------------------------------

(* auth:logout *)
SignOff ==
  /\ session # None
  /\ session' = None /\ recoveryAttempts' = NoFailures
  /\ challenges' = [t \in ChallengeTypes |-> None]
  /\ UNCHANGED <<slips, clock, issued, mfa, codes, policy, loginAttempts, loginLocks, mfaLocks, grants>>

(* The program is closed, or dies, and is started again.                   *)
Relaunch ==
  /\ session' = None /\ recoveryAttempts' = NoFailures
  /\ challenges' = [t \in ChallengeTypes |-> None]
  /\ loginAttempts' = [u \in Users |-> NoFailures]
  /\ UNCHANGED <<slips, clock, issued, mfa, codes, policy, loginLocks, mfaLocks, grants>>

Tick ==
  /\ clock < MaxClock /\ clock' = clock + 1
  /\ challenges' = [t \in ChallengeTypes |->
       IF challenges[t] # None /\ challenges[t].expires <= clock' THEN None ELSE challenges[t]]
  /\ UNCHANGED <<slips, issued, mfa, codes, policy, loginAttempts, loginLocks, mfaLocks,
                 recoveryAttempts, session, grants>>

Mistyped == [secret |-> 0, period |-> 0]
Entered  == OnPhone \cup OnPaper \cup {Mistyped}

SignInNext ==
  \/ Tick \/ SignOff \/ Relaunch \/ BeginOwnEnrollment \/ ResetBySupport
  \/ \E u \in Forgetful : WrongPassword(u)
  \/ \E u \in Users : RightPassword(u)
  \/ \E mode \in Policies : UpdatePolicy(mode)
  \/ \E resetMfa \in BOOLEAN : CompleteRecovery(resetMfa)
  \/ \E code \in Entered : \/ SecondFactor(code) \/ DisableOwn(code)
                           \/ RegenerateCodes(code) \/ BeginRecovery(code)
  \/ \E code \in Entered, type \in ChallengeTypes : ConfirmEnrollment(type, code)
  \/ \E code \in Entered, u \in Users : BeginRecoveryWithTotp(u, code) \/ ResetByOwner(u, code)

SignInSpec == SignInInit /\ [][SignInNext]_signInVars

---------------------------------------------------------------------------
(* Properties                                                              *)

SignInTypeOK ==
  /\ clock \in Nat /\ issued \in Nat /\ policy \in Policies
  /\ mfa \in [Users -> [secret : Nat, last : Nat] \cup {None}]
  /\ codes \in [Users -> SUBSET RecoveryCodes]
  /\ loginAttempts \in [Users -> [count : Nat, until : Nat]]
  /\ loginLocks \in [Users -> [until : Nat, level : 0 .. Len(LoginSteps)]]
  /\ mfaLocks \in [Users -> [count : Nat, until : Nat]]
  /\ recoveryAttempts \in [count : Nat, until : Nat]
  /\ challenges \in [ChallengeTypes ->
       [user : Users, secret : Nat, attempts : Nat, expires : Nat] \cup {None}]
  /\ session \in Users \cup {None}
  /\ promised \in [Users -> Nat]
  /\ spent \subseteq Totp \cup RecoveryCodes /\ doubled \in BOOLEAN

(* A code is good once: whatever it opened, a session, an enrolment, a     *)
(* recovery or the end of the second factor, no later entry of it opens    *)
(* anything again (last_used_counter, consumed_at).                        *)
OneGrantPerCode == ~doubled

(* A user who was told to wait waits: neither a new window nor a restart   *)
(* of the program shortens a lock; only a right password after it, or a    *)
(* reset of the account, ends it (LOGIN_LOCKS_KEY: "a restart cannot reset *)
(* the protection").                                                       *)
LockoutStands == \A u \in Users : promised[u] > clock => LoginLimited(u)
=============================================================================
