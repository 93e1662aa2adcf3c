---------------------------- MODULE SignIn_proofs ----------------------------
(***************************************************************************)
(* Proofs about SignIn, for any users, locks and number of secrets.        *)
(*                                                                         *)
(* That a code is good once is not inductive.  It needs that a secret is   *)
(* one user's, or of one enrolment under way and never used; that what was *)
(* spent of a secret is no later than the period its user last used; and   *)
(* that the codes left on a sheet are unspent and of one user.             *)
(***************************************************************************)
EXTENDS SignIn, TLAPS

---------------------------------------------------------------------------
(* Signing in: the invariant                                               *)

Factors          == [secret : Nat, last : Nat]
Failures         == [count : Nat, until : Nat]
ChallengeRecords == [user : Users, secret : Nat, attempts : Nat, expires : Nat]
Enrolments       == {"self_enrollment", "login_enrollment"}

(* A user's secret was issued, to nobody else, and what was spent of it is *)
(* no later than the period last accepted.                                 *)
SecretFine(u) ==
  mfa[u] # None =>
    /\ mfa[u].secret \in 1 .. issued
    /\ \A c \in spent : c \in Totp /\ c.secret = mfa[u].secret => c.period <= mfa[u].last
    /\ \A v \in Users \ {u} : mfa[v] # None => mfa[v].secret # mfa[u].secret

(* A secret that is being enrolled has never been used.                    *)
AskedFine(t) ==
  challenges[t] # None =>
    /\ challenges[t].secret \in 1 .. issued
    /\ \A c \in spent : c \in Totp => c.secret # challenges[t].secret
    /\ \A v \in Users : mfa[v] # None => mfa[v].secret # challenges[t].secret
    /\ \A r \in Enrolments \ {t} : challenges[r] # None =>
         challenges[r].secret # challenges[t].secret

(* The codes a user has left are on a sheet of that user's, and unspent.   *)
SheetFine(u) ==
  \A c \in codes[u] :
    /\ c \in RecoveryCodes /\ c.sheet \in 1 .. issued /\ c \notin spent
    /\ \A v \in Users \ {u} : c \notin codes[v]

SpentFine(c) ==
  \/ c \in Totp /\ c.secret \in 1 .. issued
  \/ c \in RecoveryCodes /\ c.sheet \in 1 .. issued

CodesInv ==
  /\ \A u \in Users : SecretFine(u) /\ SheetFine(u)
  /\ \A t \in Enrolments : AskedFine(t)
  /\ \A c \in spent : SpentFine(c)

(* The user was told to wait for the lock on disk.                         *)
ToldTheLock == \A u \in Users : promised[u] = loginLocks[u].until

SignInInv == SignInTypeOK /\ OneGrantPerCode /\ ToldTheLock /\ CodesInv

---------------------------------------------------------------------------
(* Codes                                                                   *)

(* A code of the authenticator is never a recovery code.                   *)
LEMMA KindsDiffer == \A c : ~(c \in Totp /\ c \in RecoveryCodes)
<1> SUFFICES ASSUME NEW c, c \in Totp, c \in RecoveryCodes PROVE FALSE
  OBVIOUS
<1>1. DOMAIN c = {"secret", "period"}
  BY DEF Totp
<1>2. DOMAIN c = {"sheet", "number"}
  BY DEF RecoveryCodes
<1> QED BY <1>1, <1>2

(* The types of the constants of the sign-in.                              *)
LEMMA SignInSizes ==
  /\ Owner \in Users /\ None \notin Users /\ MaxAttempts \in Nat \ {0}
  /\ LoginSteps \in Seq(Nat \ {0}) /\ Len(LoginSteps) > 0 /\ Len(LoginSteps) \in Nat
  /\ CodeLock \in Nat /\ RecoveryLock \in Nat /\ ChallengeTTL \in Nat
  /\ SheetSize \in Nat /\ MaxClock \in Nat /\ MaxIssued \in Nat
  /\ Enrolments \subseteq ChallengeTypes /\ "account_recovery" \in ChallengeTypes
  /\ "login_factor" \in ChallengeTypes
BY SignInAssumption DEF Enrolments, ChallengeTypes

(* The types of the sign-in's state.                                       *)
LEMMA SignInFields ==
  ASSUME SignInInv
  PROVE  /\ clock \in Nat /\ issued \in Nat
         /\ mfa \in [Users -> Factors \cup {None}] /\ codes \in [Users -> SUBSET RecoveryCodes]
         /\ loginAttempts \in [Users -> Failures]
         /\ loginLocks \in [Users -> [until : Nat, level : 0 .. Len(LoginSteps)]]
         /\ mfaLocks \in [Users -> Failures] /\ recoveryAttempts \in Failures
         /\ challenges \in [ChallengeTypes -> ChallengeRecords \cup {None}]
         /\ session \in Users \cup {None} /\ promised \in [Users -> Nat]
         /\ spent \subseteq Totp \cup RecoveryCodes
BY DEF SignInInv, SignInTypeOK, Factors, Failures, ChallengeRecords

(* A code the phone shows is one of a secret that was issued.              *)
LEMMA OnPhoneIsTotp ==
  ASSUME SignInInv, NEW code \in OnPhone
  PROVE  code \in Totp /\ code.secret \in 1 .. issued /\ code.secret \in Nat /\ code.period \in Nat
<1>1. clock \in Nat /\ issued \in Nat
  BY SignInFields
<1>2. code.secret \in 1 .. issued /\ code.period \in Nat
      /\ code = [secret |-> code.secret, period |-> code.period]
  BY DEF OnPhone
<1>3. code.secret \in Nat
  BY <1>1, <1>2
<1> QED BY <1>2, <1>3 DEF Totp

(* The codes of a sheet are recovery codes of that sheet.                  *)
LEMMA SheetIsCodes ==
  ASSUME NEW n \in Nat
  PROVE  Sheet(n) \subseteq RecoveryCodes /\ \A c \in Sheet(n) : c.sheet = n
<1> SUFFICES ASSUME NEW c \in Sheet(n) PROVE c \in RecoveryCodes /\ c.sheet = n
  OBVIOUS
<1>1. c.sheet \in {n} /\ c.number \in 1 .. SheetSize /\ c = [sheet |-> c.sheet, number |-> c.number]
  BY DEF Sheet
<1>2. c.sheet = n /\ c.number \in Nat
  BY <1>1, SignInSizes
<1> QED BY <1>1, <1>2 DEF RecoveryCodes

(* A code that is accepted was never accepted before: from the phone it is *)
(* later than any, from paper it is crossed out when it is used.           *)
LEMMA AcceptedIsFresh ==
  ASSUME SignInInv, NEW u \in Users, NEW code, Accepts(u, code)
  PROVE  /\ mfa[u] # None /\ code \notin spent
         /\ \/ /\ code \in OnPhone /\ code \in Totp /\ code.secret = mfa[u].secret
               /\ code.secret \in 1 .. issued /\ mfa[u].last < code.period /\ code.period \in Nat
            \/ /\ code \notin OnPhone /\ code \in codes[u] /\ code \in RecoveryCodes
               /\ code.sheet \in 1 .. issued
<1>1. mfa[u] # None /\ mfa[u] \in Factors
  BY SignInFields DEF Accepts
<1>2. SecretFine(u) /\ SheetFine(u)
  BY DEF SignInInv, CodesInv
<1>3. CASE code \in OnPhone /\ code.secret = mfa[u].secret /\ mfa[u].last < code.period
  <2>1. code \in Totp /\ code.secret \in 1 .. issued /\ code.period \in Nat
    BY <1>3, OnPhoneIsTotp
  <2>2. code \in spent => code.period <= mfa[u].last
    BY <1>1, <1>2, <1>3, <2>1 DEF SecretFine
  <2>3. code \notin spent
    BY <1>1, <1>3, <2>1, <2>2 DEF Factors
  <2> QED BY <1>1, <1>3, <2>1, <2>3
<1>4. CASE code \in codes[u]
  <2>1. code \in RecoveryCodes /\ code.sheet \in 1 .. issued /\ code \notin spent
    BY <1>2, <1>4 DEF SheetFine
  <2>2. code \notin OnPhone
    BY <2>1, OnPhoneIsTotp, KindsDiffer
  <2> QED BY <1>1, <1>4, <2>1, <2>2
<1> QED BY <1>3, <1>4 DEF Accepts, Fresh

---------------------------------------------------------------------------
(* What a step may do to the factors                                       *)

DropsOnly ==
  \A t \in Enrolments : challenges'[t] # None =>
    challenges[t] # None /\ challenges'[t].secret = challenges[t].secret

KeepsSecrets ==
  \A u \in Users : mfa'[u] # None =>
    /\ mfa[u] # None /\ mfa'[u].secret = mfa[u].secret
    /\ mfa'[u].last \in Nat /\ mfa[u].last <= mfa'[u].last

KeepsSheets == \A u \in Users : codes'[u] \subseteq codes[u]

(* Nobody is left for whom the code would be good again.                   *)
SpentOn(code) ==
  /\ spent' = spent \cup {code}
  /\ \/ /\ code \in Totp /\ code.secret \in 1 .. issued
        /\ \A u \in Users : mfa'[u] # None /\ mfa'[u].secret = code.secret =>
             code.period <= mfa'[u].last
        /\ \A t \in Enrolments : challenges'[t] # None => challenges'[t].secret # code.secret
     \/ /\ code \in RecoveryCodes /\ code.sheet \in 1 .. issued
        /\ \A u \in Users : code \notin codes'[u]

(* Codes that are crossed out stay apart and unspent.                      *)
LEMMA CrossedSheets ==
  ASSUME SignInInv, KeepsSheets, issued' = issued, spent' = spent \/ \E code : SpentOn(code)
  PROVE  \A u \in Users : SheetFine(u)'
<1> SUFFICES ASSUME NEW u \in Users PROVE SheetFine(u)'
  OBVIOUS
<1>1. SheetFine(u) /\ codes'[u] \subseteq codes[u]
  BY DEF SignInInv, CodesInv, KeepsSheets
<1>2. ASSUME NEW c \in codes'[u] PROVE c \notin spent'
  <2>1. c \notin spent /\ c \in RecoveryCodes
    BY <1>1 DEF SheetFine
  <2>2. ~SpentOn(c)
    BY <2>1, KindsDiffer DEF SpentOn
  <2>3. c \in spent' => SpentOn(c)
    BY <2>1 DEF SpentOn
  <2> QED BY <2>2, <2>3
<1>3. \A c \in codes'[u], v \in Users \ {u} : c \notin codes'[v]
  BY <1>1 DEF SheetFine, KeepsSheets
<1> QED BY <1>1, <1>2, <1>3 DEF SheetFine

(* A step that only drops challenges, keeps the secrets and spends at most *)
(* one fresh code keeps what holds of the codes.                           *)
LEMMA FactorStep ==
  ASSUME SignInInv, DropsOnly, KeepsSecrets, \A u \in Users : SheetFine(u)',
         issued' \in Nat, issued <= issued', spent' = spent \/ \E code : SpentOn(code)
  PROVE  CodesInv'
<1>1. spent \subseteq spent' /\ issued \in Nat /\ spent \subseteq Totp \cup RecoveryCodes
      /\ \A n \in 1 .. issued : n \in 1 .. issued'
  BY SignInFields DEF SpentOn
<1>2. ASSUME NEW c \in spent' PROVE SpentFine(c)' /\ (c \in spent \/ (SpentOn(c) /\ spent' = spent \cup {c}))
  <2>1. CASE c \in spent
    BY <1>1, <2>1 DEF SignInInv, CodesInv, SpentFine
  <2>2. CASE c \notin spent
    <3>1. PICK code : SpentOn(code)
      BY <2>2
    <3>2. c = code
      BY <2>2, <3>1 DEF SpentOn
    <3> QED BY <1>1, <3>1, <3>2 DEF SpentOn, SpentFine
  <2> QED BY <2>1, <2>2
<1>3. ASSUME NEW u \in Users PROVE SecretFine(u)'
  <2> SUFFICES ASSUME mfa'[u] # None
      PROVE /\ mfa'[u].secret \in 1 .. issued'
            /\ \A c \in spent' : c \in Totp /\ c.secret = mfa'[u].secret => c.period <= mfa'[u].last
            /\ \A v \in Users \ {u} : mfa'[v] # None => mfa'[v].secret # mfa'[u].secret
    BY DEF SecretFine
  <2>1. /\ mfa[u] # None /\ mfa'[u].secret = mfa[u].secret
        /\ mfa'[u].last \in Nat /\ mfa[u].last <= mfa'[u].last
    BY DEF KeepsSecrets
  <2>2. /\ mfa[u].secret \in 1 .. issued
        /\ \A c \in spent : c \in Totp /\ c.secret = mfa[u].secret => c.period <= mfa[u].last
        /\ \A v \in Users \ {u} : mfa[v] # None => mfa[v].secret # mfa[u].secret
    BY <2>1 DEF SignInInv, CodesInv, SecretFine
  <2>3. ASSUME NEW c \in spent', c \in Totp, c.secret = mfa'[u].secret PROVE c.period <= mfa'[u].last
    <3>1. CASE c \in spent
      <4>1. c.period <= mfa[u].last
        BY <2>1, <2>2, <2>3, <3>1
      <4>2. c.period \in Nat /\ mfa[u].last \in Nat
        <5>1. mfa[u] \in Factors
          BY <2>1, SignInFields
        <5> QED BY <2>3, <5>1 DEF Totp, Factors
      <4> QED BY <2>1, <4>1, <4>2
    <3>2. CASE SpentOn(c)
      <4>1. c \notin RecoveryCodes
        BY <2>3, KindsDiffer
      <4> QED BY <2>3, <3>2, <4>1 DEF SpentOn
    <3> QED BY <1>2, <3>1, <3>2
  <2>4. \A v \in Users \ {u} : mfa'[v] # None => mfa'[v].secret # mfa'[u].secret
    BY <2>1, <2>2 DEF KeepsSecrets
  <2> QED BY <1>1, <2>1, <2>2, <2>3, <2>4
<1>4. ASSUME NEW t \in Enrolments PROVE AskedFine(t)'
  <2> SUFFICES ASSUME challenges'[t] # None
      PROVE /\ challenges'[t].secret \in 1 .. issued'
            /\ \A c \in spent' : c \in Totp => c.secret # challenges'[t].secret
            /\ \A v \in Users : mfa'[v] # None => mfa'[v].secret # challenges'[t].secret
            /\ \A r \in Enrolments \ {t} : challenges'[r] # None =>
                 challenges'[r].secret # challenges'[t].secret
    BY DEF AskedFine
  <2>1. challenges[t] # None /\ challenges'[t].secret = challenges[t].secret
    BY DEF DropsOnly
  <2>2. /\ challenges[t].secret \in 1 .. issued
        /\ \A c \in spent : c \in Totp => c.secret # challenges[t].secret
        /\ \A v \in Users : mfa[v] # None => mfa[v].secret # challenges[t].secret
        /\ \A r \in Enrolments \ {t} : challenges[r] # None =>
             challenges[r].secret # challenges[t].secret
    BY <2>1 DEF SignInInv, CodesInv, AskedFine
  <2>3. ASSUME NEW c \in spent', c \in Totp PROVE c.secret # challenges'[t].secret
    <3>1. CASE c \in spent
      BY <2>1, <2>2, <2>3, <3>1
    <3>2. CASE SpentOn(c)
      <4>1. c \notin RecoveryCodes
        BY <2>3, KindsDiffer
      <4> QED BY <3>2, <4>1 DEF SpentOn
    <3> QED BY <1>2, <3>1, <3>2
  <2> QED BY <1>1, <2>1, <2>2, <2>3 DEF KeepsSecrets, DropsOnly
<1> QED BY <1>2, <1>3, <1>4 DEF CodesInv

---------------------------------------------------------------------------
(* The parts the handlers are made of                                      *)

Locks         == [until : Nat, level : 0 .. Len(LoginSteps)]
ChallengeMap  == [ChallengeTypes -> ChallengeRecords \cup {None}]

(* Counting one more failure gives a count of failures.                    *)
LEMMA AfterFailureOK ==
  ASSUME SignInInv, NEW entry \in Failures, NEW length \in Nat
  PROVE  AfterFailure(entry, length) \in Failures
<1>1. clock \in Nat /\ entry.count \in Nat /\ entry.until \in Nat
  BY SignInFields DEF Failures
<1>2. clock + length \in Nat /\ entry.count + 1 \in Nat
  BY <1>1
<1> QED BY <1>1, <1>2 DEF AfterFailure, Failures

(* A count of no failures is a count of failures.                          *)
LEMMA NoFailuresOK == NoFailures \in Failures
BY DEF NoFailures, Failures

(* The next lock in the scale is a lock.                                   *)
LEMMA EscalatedOK ==
  ASSUME SignInInv, NEW lock \in Locks
  PROVE  Escalated(lock) \in Locks
<1> DEFINE level == IF lock.level < Len(LoginSteps) THEN lock.level + 1 ELSE lock.level
<1>1. lock.level \in 0 .. Len(LoginSteps) /\ Len(LoginSteps) \in Nat /\ Len(LoginSteps) > 0
  BY SignInSizes DEF Locks
<1>2. level \in 1 .. Len(LoginSteps)
  BY <1>1
<1> HIDE DEF level
<1>3. LoginSteps[level] \in Nat
  BY <1>2, SignInSizes
<1>4. clock + LoginSteps[level] \in Nat /\ level \in 0 .. Len(LoginSteps)
  BY <1>1, <1>2, <1>3, SignInFields
<1>5. Escalated(lock) = [until |-> clock + LoginSteps[level], level |-> level]
  BY DEF Escalated, level
<1> QED BY <1>4, <1>5 DEF Locks

(* A new challenge is a challenge for its user and secret.                 *)
LEMMA ChallengeOK ==
  ASSUME SignInInv, NEW u \in Users, NEW secret \in Nat
  PROVE  /\ Challenge(u, secret) \in ChallengeRecords
         /\ Challenge(u, secret).secret = secret /\ Challenge(u, secret).user = u
<1>1. clock + ChallengeTTL \in Nat
  BY SignInFields, SignInSizes
<1> QED BY <1>1 DEF Challenge, ChallengeRecords

(* Challenges that are what they were but for some that are gone.          *)
Dropped(c) ==
  /\ c \in ChallengeMap
  /\ \A t \in Enrolments : c[t] # None => challenges[t] # None /\ c[t].secret = challenges[t].secret

(* Challenges that are only dropped give no enrolment a new secret.        *)
LEMMA DroppedOnly == ASSUME Dropped(challenges') PROVE DropsOnly
BY DEF Dropped, DropsOnly

(* Leaving the challenges alone drops none of them.                        *)
LEMMA SameDropped == ASSUME SignInInv PROVE Dropped(challenges)
BY SignInFields DEF Dropped, ChallengeMap

(* Removing one challenge only drops it.                                   *)
LEMMA WithoutDropped ==
  ASSUME SignInInv, NEW type \in ChallengeTypes
  PROVE  Dropped(Without(type)) /\ Without(type)[type] = None
<1>1. challenges \in ChallengeMap
  BY SignInFields DEF ChallengeMap
<1>2. Without(type) \in ChallengeMap /\ Without(type)[type] = None
  BY <1>1 DEF Without, ChallengeMap
<1>3. \A t \in ChallengeTypes : Without(type)[t] # None => Without(type)[t] = challenges[t]
  BY <1>1 DEF Without, ChallengeMap
<1> QED BY <1>2, <1>3, SignInSizes DEF Dropped

(* Revoking a user's challenges only drops them.                           *)
LEMMA RevokedDropped == ASSUME SignInInv, NEW u \in Users PROVE Dropped(Revoked(u))
<1>1. challenges \in ChallengeMap
  BY SignInFields DEF ChallengeMap
<1>2. \A t \in ChallengeTypes : Revoked(u)[t] = None \/ Revoked(u)[t] = challenges[t]
  BY DEF Revoked
<1>3. Revoked(u) \in ChallengeMap
  BY <1>1 DEF Revoked, ChallengeMap
<1> QED BY <1>2, <1>3, SignInSizes DEF Dropped

(* Counting a miss against a challenge keeps it or drops it.               *)
LEMMA StrikeDropped ==
  ASSUME SignInInv, NEW type \in ChallengeTypes, challenges[type] # None
  PROVE  Dropped(Strike(type))
<1>1. challenges \in ChallengeMap
  BY SignInFields DEF ChallengeMap
<1>2. CASE challenges[type].attempts + 1 >= MaxAttempts
  BY <1>2, WithoutDropped DEF Strike
<1>3. CASE ~(challenges[type].attempts + 1 >= MaxAttempts)
  <2> DEFINE more == [challenges[type] EXCEPT !.attempts = @ + 1]
  <2>1. challenges[type] \in ChallengeRecords
    BY <1>1 DEF ChallengeMap
  <2>2. more \in ChallengeRecords /\ more.secret = challenges[type].secret
    <3>1. challenges[type].attempts + 1 \in Nat
      BY <2>1 DEF ChallengeRecords
    <3> QED BY <2>1, <3>1 DEF ChallengeRecords
  <2>3. Strike(type) = [challenges EXCEPT ![type] = more]
    BY <1>1, <1>3 DEF Strike, ChallengeMap
  <2> HIDE DEF more
  <2>4. Strike(type) \in ChallengeMap
    BY <1>1, <2>2, <2>3 DEF ChallengeMap
  <2>5. \A t \in ChallengeTypes : Strike(type)[t] # None =>
          challenges[t] # None /\ Strike(type)[t].secret = challenges[t].secret
    BY <1>1, <2>2, <2>3 DEF ChallengeMap
  <2> QED BY <2>4, <2>5, SignInSizes DEF Dropped
<1> QED BY <1>2, <1>3

(* Factors that are what they were but for some that are gone, and for the *)
(* period last accepted.                                                   *)
Kept(m) ==
  /\ m \in [Users -> Factors \cup {None}]
  /\ \A u \in Users : m[u] # None =>
       mfa[u] # None /\ m[u].secret = mfa[u].secret /\ mfa[u].last <= m[u].last

(* Factors that are kept or removed keep their secrets.                    *)
LEMMA KeptOnly == ASSUME Kept(mfa') PROVE KeepsSecrets
<1> SUFFICES ASSUME NEW u \in Users, mfa'[u] # None
    PROVE /\ mfa[u] # None /\ mfa'[u].secret = mfa[u].secret
          /\ mfa'[u].last \in Nat /\ mfa[u].last <= mfa'[u].last
  BY DEF KeepsSecrets
<1>1. mfa'[u] \in Factors
  BY DEF Kept
<1> QED BY <1>1 DEF Kept, Factors

(* Leaving the factors alone keeps them.                                   *)
LEMMA SameKept == ASSUME SignInInv PROVE Kept(mfa)
<1>1. mfa \in [Users -> Factors \cup {None}]
  BY SignInFields
<1>2. \A u \in Users : mfa[u] # None => mfa[u].last <= mfa[u].last
  <2> SUFFICES ASSUME NEW u \in Users, mfa[u] # None PROVE mfa[u].last <= mfa[u].last
    OBVIOUS
  <2>1. mfa[u].last \in Nat
    BY <1>1 DEF Factors
  <2> QED BY <2>1
<1> QED BY <1>1, <1>2 DEF Kept

(* Removing a user's factor keeps the others.                              *)
LEMMA WithoutKept ==
  ASSUME SignInInv, NEW m, Kept(m), NEW u \in Users
  PROVE  Kept([m EXCEPT ![u] = None]) /\ [m EXCEPT ![u] = None][u] = None
BY DEF Kept

(* Noting the period of an accepted code keeps the factors.                *)
LEMMA LastKept ==
  ASSUME SignInInv, NEW u \in Users, NEW code, Accepts(u, code)
  PROVE  /\ Kept(Last(u, code))
         /\ code \in OnPhone => Last(u, code)[u].last = code.period
<1>1. mfa \in [Users -> Factors \cup {None}] /\ mfa[u] # None /\ mfa[u] \in Factors
  BY SignInFields, AcceptedIsFresh
<1>2. CASE code \in OnPhone
  <2> DEFINE new == [mfa[u] EXCEPT !.last = code.period]
  <2>1. code.period \in Nat /\ mfa[u].last < code.period /\ mfa[u].last \in Nat
    <3>1. mfa[u].last \in Nat
      BY <1>1 DEF Factors
    <3> QED BY <1>2, <3>1, AcceptedIsFresh
  <2>2. new \in Factors /\ new.secret = mfa[u].secret /\ new.last = code.period
    BY <1>1, <2>1 DEF Factors
  <2>3. Last(u, code) = [mfa EXCEPT ![u] = new]
    BY <1>1, <1>2 DEF Last
  <2> HIDE DEF new
  <2>4. Last(u, code) \in [Users -> Factors \cup {None}] /\ Last(u, code)[u] = new
    BY <1>1, <2>2, <2>3
  <2>5. ASSUME NEW v \in Users, Last(u, code)[v] # None
        PROVE  /\ mfa[v] # None /\ Last(u, code)[v].secret = mfa[v].secret
               /\ mfa[v].last <= Last(u, code)[v].last
    <3>1. CASE v = u
      BY <1>1, <2>1, <2>2, <2>4, <3>1
    <3>2. CASE v # u
      <4>1. Last(u, code)[v] = mfa[v]
        BY <1>1, <2>3, <3>2
      <4> QED BY <2>5, <4>1, SameKept DEF Kept
    <3> QED BY <3>1, <3>2
  <2> QED BY <2>2, <2>4, <2>5 DEF Kept
<1>3. CASE code \notin OnPhone
  BY <1>3, SameKept DEF Last
<1> QED BY <1>2, <1>3

(* The user is left with no way to use the code again.                     *)
LEMMA ProofSpent ==
  ASSUME SignInInv, NEW u \in Users, NEW code, Accepts(u, code) \/ code \in codes[u],
         Spend(code), DropsOnly, KeepsSecrets,
         code \in OnPhone /\ mfa'[u] # None => mfa'[u].last = code.period,
         code \notin OnPhone => \A v \in Users : code \notin codes'[v]
  PROVE  SpentOn(code) /\ OneGrantPerCode'
<1>1. /\ code \notin spent
      /\ \/ /\ code \in OnPhone /\ code \in Totp /\ code.secret = mfa[u].secret /\ mfa[u] # None
            /\ code.secret \in 1 .. issued /\ code.period \in Nat
         \/ /\ code \notin OnPhone /\ code \in codes[u] /\ code \in RecoveryCodes
            /\ code.sheet \in 1 .. issued
  <2>1. CASE Accepts(u, code)
    BY <2>1, AcceptedIsFresh
  <2>2. CASE code \in codes[u]
    <3>1. SheetFine(u)
      BY DEF SignInInv, CodesInv
    <3>2. code \in RecoveryCodes /\ code.sheet \in 1 .. issued /\ code \notin spent
      BY <2>2, <3>1 DEF SheetFine
    <3>3. code \notin OnPhone
      BY <3>2, OnPhoneIsTotp, KindsDiffer
    <3> QED BY <2>2, <3>2, <3>3
  <2> QED BY <2>1, <2>2
<1>2. spent' = spent \cup {code}
  BY DEF Spend
<1>3. SecretFine(u) /\ SheetFine(u) /\ \A t \in Enrolments : AskedFine(t)
  BY DEF SignInInv, CodesInv
<1>4. SpentOn(code)
  <2>1. CASE code \in OnPhone
    <3>1. /\ code \in Totp /\ code.secret = mfa[u].secret /\ mfa[u] # None
          /\ code.secret \in 1 .. issued /\ code.period \in Nat
      BY <1>1, <2>1
    <3>2. ASSUME NEW v \in Users, mfa'[v] # None, mfa'[v].secret = code.secret
          PROVE  code.period <= mfa'[v].last
      <4>1. mfa[v] # None /\ mfa[v].secret = code.secret
        BY <3>2 DEF KeepsSecrets
      <4>2. v = u
        BY <1>3, <3>1, <4>1 DEF SecretFine
      <4>3. mfa'[v].last = code.period
        BY <2>1, <3>2, <4>2
      <4> QED BY <3>1, <4>3
    <3>3. ASSUME NEW t \in Enrolments, challenges'[t] # None
          PROVE  challenges'[t].secret # code.secret
      BY <1>3, <3>1, <3>3 DEF DropsOnly, AskedFine
    <3> QED BY <1>2, <3>1, <3>2, <3>3 DEF SpentOn
  <2>2. CASE code \notin OnPhone
    <3>1. code \in codes[u] /\ code \in RecoveryCodes /\ code.sheet \in 1 .. issued
      BY <1>1, <2>2
    <3>2. \A v \in Users : code \notin codes'[v]
      BY <2>2
    <3> QED BY <1>2, <3>1, <3>2 DEF SpentOn
  <2> QED BY <2>1, <2>2
<1>5. OneGrantPerCode'
  BY <1>1 DEF Spend, SignInInv, OneGrantPerCode
<1> QED BY <1>4, <1>5

(* A step that spends a code its user had.                                 *)
LEMMA ProvedStep ==
  ASSUME SignInInv, NEW u \in Users, NEW code, Accepts(u, code) \/ code \in codes[u],
         Spend(code), Dropped(challenges'), Kept(mfa'), KeepsSheets, issued' = issued,
         code \in OnPhone /\ mfa'[u] # None => mfa'[u].last = code.period,
         code \notin OnPhone => code \notin codes'[u]
  PROVE  CodesInv' /\ OneGrantPerCode'
<1>1. DropsOnly /\ KeepsSecrets
  BY DroppedOnly, KeptOnly
<1>2. code \notin OnPhone => \A v \in Users : code \notin codes'[v]
  <2>1. code \notin OnPhone => code \in codes[u]
    BY DEF Accepts
  <2> QED BY <2>1 DEF SignInInv, CodesInv, SheetFine, KeepsSheets
<1>3. SpentOn(code) /\ OneGrantPerCode'
  BY <1>1, <1>2, ProofSpent
<1>4. issued' \in Nat /\ issued <= issued'
  BY SignInFields
<1>5. \A v \in Users : SheetFine(v)'
  BY <1>3, CrossedSheets
<1>6. CodesInv'
  BY <1>1, <1>3, <1>4, <1>5, FactorStep
<1> QED BY <1>3, <1>6

(* A step that spends nothing.                                             *)
LEMMA QuietStep ==
  ASSUME SignInInv, Dropped(challenges'), Kept(mfa'), KeepsSheets, issued' = issued,
         UNCHANGED <<spent, doubled>>
  PROVE  CodesInv' /\ OneGrantPerCode'
<1>1. DropsOnly /\ KeepsSecrets /\ spent' = spent
  BY DroppedOnly, KeptOnly
<1>2. issued' \in Nat /\ issued <= issued'
  BY SignInFields
<1>3. \A v \in Users : SheetFine(v)'
  BY <1>1, CrossedSheets
<1>4. CodesInv'
  BY <1>1, <1>2, <1>3, FactorStep
<1> QED BY <1>4 DEF SignInInv, OneGrantPerCode

---------------------------------------------------------------------------
(* The handlers                                                            *)

(* A step that leaves factors, codes and challenges alone keeps what holds *)
(* of the codes.                                                           *)
LEMMA FactorsAlone ==
  ASSUME SignInInv, UNCHANGED <<issued, mfa, codes, challenges, spent, doubled>>
  PROVE  CodesInv' /\ OneGrantPerCode'
<1>1. Dropped(challenges') /\ Kept(mfa') /\ KeepsSheets
  BY SameDropped, SameKept DEF KeepsSheets
<1> QED BY <1>1, QuietStep

(* The types of what a handler leaves.                                     *)
Typed ==
  /\ clock \in Nat /\ issued \in Nat /\ policy \in Policies
  /\ mfa \in [Users -> Factors \cup {None}] /\ codes \in [Users -> SUBSET RecoveryCodes]
  /\ loginAttempts \in [Users -> Failures] /\ loginLocks \in [Users -> Locks]
  /\ mfaLocks \in [Users -> Failures] /\ recoveryAttempts \in Failures
  /\ challenges \in ChallengeMap /\ session \in Users \cup {None} /\ promised \in [Users -> Nat]
  /\ doubled \in BOOLEAN

(* The invariant implies the types.                                        *)
LEMMA IsTyped == ASSUME SignInInv PROVE Typed
BY DEF SignInInv, SignInTypeOK, Typed, Factors, Failures, Locks, ChallengeMap, ChallengeRecords

(* The parts of the invariant after a step make up the whole.              *)
LEMMA SignInParts ==
  ASSUME Typed', CodesInv', OneGrantPerCode', ToldTheLock'
  PROVE  SignInInv'
<1>1. (spent \subseteq Totp \cup RecoveryCodes)'
  BY DEF CodesInv, SpentFine
<1>2. SignInTypeOK'
  BY <1>1 DEF Typed, SignInTypeOK, Factors, Failures, Locks, ChallengeMap, ChallengeRecords
<1> QED BY <1>2 DEF SignInInv

(* A wrong password keeps the invariant.                                   *)
LEMMA WrongPasswordKeeps ==
  ASSUME SignInInv, NEW u \in Users, WrongPassword(u) PROVE SignInInv'
<1> DEFINE failed == AfterFailure(loginAttempts[u], LoginSteps[1])
           lock == Escalated(loginLocks[u])
<1>1. loginAttempts' = [loginAttempts EXCEPT ![u] = failed]
      /\ UNCHANGED <<slips, clock, issued, mfa, codes, policy, mfaLocks, recoveryAttempts,
                     challenges, session, spent, doubled>>
  BY DEF WrongPassword
<1>2. \/ loginLocks' = [loginLocks EXCEPT ![u] = lock] /\ promised' = [promised EXCEPT ![u] = lock.until]
      \/ UNCHANGED <<loginLocks, promised>>
  BY DEF WrongPassword
<1>3. Typed /\ 1 \in 1 .. Len(LoginSteps)
  BY IsTyped, SignInSizes
<1>4. failed \in Failures
  <2>1. LoginSteps[1] \in Nat
    BY <1>3, SignInSizes
  <2> QED BY <1>3, <2>1, AfterFailureOK DEF Typed
<1>5. lock \in Locks
  BY <1>3, EscalatedOK DEF Typed
<1> HIDE DEF failed, lock
<1>6. lock.until \in Nat
  BY <1>5 DEF Locks
<1>7. Typed'
  BY <1>1, <1>2, <1>3, <1>4, <1>5, <1>6 DEF Typed
<1>8. ToldTheLock'
  <2>1. CASE loginLocks' = [loginLocks EXCEPT ![u] = lock] /\ promised' = [promised EXCEPT ![u] = lock.until]
    BY <1>3, <2>1 DEF Typed, SignInInv, ToldTheLock
  <2>2. CASE UNCHANGED <<loginLocks, promised>>
    BY <2>2 DEF SignInInv, ToldTheLock
  <2> QED BY <1>2, <2>1, <2>2
<1>9. CodesInv' /\ OneGrantPerCode'
  BY <1>1, FactorsAlone
<1> QED BY <1>7, <1>8, <1>9, SignInParts

(* Forgiving a user's failures keeps the types and the lock the user was   *)
(* told of.                                                                *)
LEMMA ForgivenOK ==
  ASSUME SignInInv, NEW u \in Users, Forgiven(u)
  PROVE  /\ loginAttempts' \in [Users -> Failures] /\ loginLocks' \in [Users -> Locks]
         /\ promised' \in [Users -> Nat] /\ ToldTheLock'
<1>1. [until |-> 0, level |-> 0] \in Locks /\ [until |-> 0, level |-> 0].until = 0
  BY SignInSizes DEF Locks
<1>2. Typed
  BY IsTyped
<1>3. loginAttempts' \in [Users -> Failures]
  BY <1>2, NoFailuresOK DEF Forgiven, Typed
<1>4. loginLocks' \in [Users -> Locks] /\ promised' \in [Users -> Nat]
  BY <1>1, <1>2 DEF Forgiven, Typed
<1>5. ToldTheLock'
  BY <1>2 DEF Forgiven, Typed, SignInInv, ToldTheLock
<1> QED BY <1>3, <1>4, <1>5

(* A step that leaves the locks alone keeps the lock the user was told of. *)
LEMMA SamePromise == ASSUME SignInInv, UNCHANGED <<loginLocks, promised>> PROVE ToldTheLock'
BY DEF SignInInv, ToldTheLock

(* A fresh secret is nobody's, and of no code that was spent.              *)
LEMMA AskStep ==
  ASSUME SignInInv, NEW type \in Enrolments, NEW u \in Users, issued' = issued + 1,
         challenges' = [challenges EXCEPT ![type] = Challenge(u, issued')],
         UNCHANGED <<mfa, codes, spent, doubled>>
  PROVE  CodesInv' /\ OneGrantPerCode' /\ challenges' \in ChallengeMap
<1>1. issued \in Nat /\ issued' \in Nat /\ challenges \in ChallengeMap /\ type \in ChallengeTypes
  BY SignInFields, SignInSizes DEF ChallengeMap
<1> DEFINE new == Challenge(u, issued')
<1>2. new \in ChallengeRecords /\ new.secret = issued'
  <2>1. \A n \in Nat : Challenge(u, n) \in ChallengeRecords /\ Challenge(u, n).secret = n
    BY ChallengeOK
  <2> QED BY <1>1, <2>1
<1>3. challenges' = [challenges EXCEPT ![type] = new]
  OBVIOUS
<1> HIDE DEF new
<1>4. challenges' \in ChallengeMap /\ challenges'[type] = new
      /\ \A t \in ChallengeTypes \ {type} : challenges'[t] = challenges[t]
  BY <1>1, <1>2, <1>3 DEF ChallengeMap
<1>5. \A n \in 1 .. issued : n \in 1 .. issued' /\ n # issued'
  BY <1>1
<1>6. ASSUME NEW v \in Users PROVE SecretFine(v)' /\ SheetFine(v)'
  <2>1. SecretFine(v) /\ SheetFine(v)
    BY DEF SignInInv, CodesInv
  <2>2. SecretFine(v)'
    BY <1>5, <2>1 DEF SecretFine
  <2>3. SheetFine(v)'
    BY <1>5, <2>1 DEF SheetFine
  <2> QED BY <2>2, <2>3
<1>7. ASSUME NEW c \in spent' PROVE SpentFine(c)'
  BY <1>5, <1>7 DEF SignInInv, CodesInv, SpentFine
<1>8. ASSUME NEW t \in Enrolments PROVE AskedFine(t)'
  <2>1. \A c \in spent : c \in Totp => c.secret \in 1 .. issued
    BY KindsDiffer DEF SignInInv, CodesInv, SpentFine
  <2>2. \A v \in Users : mfa[v] # None => mfa[v].secret \in 1 .. issued
    BY DEF SignInInv, CodesInv, SecretFine
  <2>3. \A r \in Enrolments : challenges[r] # None => challenges[r].secret \in 1 .. issued
    BY DEF SignInInv, CodesInv, AskedFine
  <2>4. Enrolments \subseteq ChallengeTypes
    BY SignInSizes
  <2>5. CASE t = type
    <3>1. challenges'[t].secret = issued' /\ issued' \in 1 .. issued'
      BY <1>1, <1>2, <1>4, <2>5
    <3>2. \A c \in spent : c \in Totp => c.secret # issued'
      BY <1>5, <2>1
    <3>3. \A v \in Users : mfa[v] # None => mfa[v].secret # issued'
      BY <1>5, <2>2
    <3>4. \A r \in Enrolments \ {t} : challenges'[r] # None => challenges'[r].secret # issued'
      BY <1>4, <1>5, <2>3, <2>4, <2>5
    <3> QED BY <3>1, <3>2, <3>3, <3>4 DEF AskedFine
  <2>6. CASE t # type
    <3>1. challenges'[t] = challenges[t] /\ AskedFine(t)
      BY <1>4, <2>4, <2>6 DEF SignInInv, CodesInv
    <3>2. challenges[t] # None => challenges[t].secret \in 1 .. issued' /\ challenges[t].secret # issued'
      BY <1>5, <2>3
    <3>3. \A r \in Enrolments \ {t} : challenges'[r] # None /\ challenges[t] # None =>
            challenges'[r].secret # challenges[t].secret
      <4> SUFFICES ASSUME NEW r \in Enrolments \ {t}, challenges'[r] # None, challenges[t] # None
          PROVE challenges'[r].secret # challenges[t].secret
        OBVIOUS
      <4>1. CASE r = type
        BY <1>2, <1>4, <3>2, <4>1
      <4>2. CASE r # type
        BY <1>4, <2>4, <3>1, <4>2 DEF AskedFine
      <4> QED BY <4>1, <4>2
    <3> QED BY <3>1, <3>2, <3>3 DEF AskedFine
  <2> QED BY <2>5, <2>6
<1>9. CodesInv'
  BY <1>6, <1>7, <1>8 DEF CodesInv
<1>10. OneGrantPerCode'
  BY DEF SignInInv, OneGrantPerCode
<1> QED BY <1>4, <1>9, <1>10

(* A right password, which signs in or asks for the factor, keeps the      *)
(* invariant.                                                              *)
LEMMA RightPasswordKeeps ==
  ASSUME SignInInv, NEW u \in Users, RightPassword(u) PROVE SignInInv'
<1>1. /\ loginAttempts' \in [Users -> Failures] /\ loginLocks' \in [Users -> Locks]
      /\ promised' \in [Users -> Nat] /\ ToldTheLock'
  BY ForgivenOK DEF RightPassword
<1>2. UNCHANGED <<slips, clock, mfa, codes, policy, mfaLocks, recoveryAttempts, spent, doubled>>
  BY DEF RightPassword
<1>3. Typed
  BY IsTyped
<1>4. session' \in Users \cup {None}
  BY DEF RightPassword
<1>5. CASE UNCHANGED <<challenges, issued>>
  <2>1. CodesInv' /\ OneGrantPerCode'
    BY <1>2, <1>5, FactorsAlone
  <2>2. Typed'
    BY <1>1, <1>2, <1>3, <1>4, <1>5 DEF Typed
  <2> QED BY <1>1, <2>1, <2>2, SignInParts
<1>6. CASE /\ UNCHANGED issued
           /\ challenges' = [challenges EXCEPT !["login_factor"] = Challenge(u, 0)]
  <2>1. Challenge(u, 0) \in ChallengeRecords
    <3>1. 0 \in Nat
      OBVIOUS
    <3> QED BY <3>1, ChallengeOK
  <2>2. challenges' \in ChallengeMap /\ \A t \in Enrolments : challenges'[t] = challenges[t]
    BY <1>3, <1>6, <2>1 DEF Typed, ChallengeMap, Enrolments, ChallengeTypes
  <2>3. Dropped(challenges') /\ Kept(mfa') /\ KeepsSheets
    BY <1>2, <2>2, SameDropped, SameKept DEF Dropped, KeepsSheets
  <2>4. CodesInv' /\ OneGrantPerCode'
    BY <1>2, <1>6, <2>3, QuietStep
  <2>5. Typed'
    BY <1>1, <1>2, <1>3, <1>4, <1>6, <2>2 DEF Typed
  <2> QED BY <1>1, <2>4, <2>5, SignInParts
<1>7. CASE /\ issued' = issued + 1
           /\ challenges' = [challenges EXCEPT !["login_enrollment"] = Challenge(u, issued')]
  <2>1. "login_enrollment" \in Enrolments /\ issued' \in Nat
    BY <1>3, <1>7 DEF Enrolments, Typed
  <2>2. CodesInv' /\ OneGrantPerCode' /\ challenges' \in ChallengeMap
    BY <1>2, <1>7, <2>1, AskStep
  <2>3. Typed'
    BY <1>1, <1>2, <1>3, <1>4, <2>1, <2>2 DEF Typed
  <2> QED BY <1>1, <2>2, <2>3, SignInParts
<1> QED BY <1>5, <1>6, <1>7 DEF RightPassword

(* Clearing, or counting, the misses of the second factor keeps their      *)
(* types.                                                                  *)
LEMMA FactorLocksOK ==
  ASSUME SignInInv, NEW u \in Users, Cleared(u) \/ Refuse(u) \/ UNCHANGED mfaLocks
  PROVE  mfaLocks' \in [Users -> Failures]
<1>1. mfaLocks \in [Users -> Failures] /\ CodeLock \in Nat /\ NoFailures \in Failures
  BY SignInFields, SignInSizes, NoFailuresOK
<1>2. AfterFailure(mfaLocks[u], CodeLock) \in Failures
  BY <1>1, AfterFailureOK
<1> QED BY <1>1, <1>2 DEF Cleared, Refuse

(* The user and the secret of a challenge that is pending.                 *)
LEMMA ChallengeFields ==
  ASSUME SignInInv, NEW t \in ChallengeTypes, challenges[t] # None
  PROVE  challenges[t].user \in Users /\ challenges[t].secret \in Nat
<1>1. challenges[t] \in ChallengeRecords
  BY SignInFields
<1> QED BY <1>1 DEF ChallengeRecords

(* A code crossed out, or a sheet thrown away.                             *)
LEMMA CrossedOut ==
  ASSUME SignInInv, NEW u \in Users, NEW some \in SUBSET codes[u], codes' = [codes EXCEPT ![u] = some]
  PROVE  codes' \in [Users -> SUBSET RecoveryCodes] /\ KeepsSheets /\ codes'[u] = some
<1>1. codes \in [Users -> SUBSET RecoveryCodes]
  BY SignInFields
<1> QED BY <1>1 DEF KeepsSheets

(* Answering the second factor keeps the invariant.                        *)
LEMMA SecondFactorKeeps ==
  ASSUME SignInInv, NEW code, SecondFactor(code) PROVE SignInInv'
<1> DEFINE u == challenges["login_factor"].user
<1>1. /\ "login_factor" \in ChallengeTypes /\ challenges["login_factor"] # None
      /\ UNCHANGED <<slips, clock, issued, policy, loginAttempts, loginLocks, recoveryAttempts, promised>>
  BY SignInSizes DEF SecondFactor
<1>2. u \in Users
  BY <1>1, ChallengeFields
<1>3. Dropped(Without("login_factor")) /\ Dropped(Strike("login_factor")) /\ Dropped(challenges)
  BY <1>1, WithoutDropped, StrikeDropped, SameDropped
<1>4. Typed /\ ToldTheLock' /\ Kept(mfa)
  BY <1>1, IsTyped, SamePromise, SameKept
<1>5. SUFFICES Dropped(challenges') /\ Kept(mfa') /\ codes' \in [Users -> SUBSET RecoveryCodes]
               /\ session' \in Users \cup {None} /\ mfaLocks' \in [Users -> Failures]
               /\ doubled' \in BOOLEAN /\ CodesInv' /\ OneGrantPerCode'
  <2>1. Typed'
    BY <1>1, <1>4, <1>5 DEF Typed, Dropped, Kept
  <2> QED BY <1>4, <1>5, <2>1, SignInParts
<1>6. CASE /\ challenges' = Without("login_factor")
           /\ UNCHANGED <<session, mfa, codes, mfaLocks, spent, doubled>>
  <2>1. Dropped(challenges') /\ Kept(mfa') /\ KeepsSheets
    BY <1>3, <1>4, <1>6 DEF KeepsSheets
  <2>2. CodesInv' /\ OneGrantPerCode'
    BY <1>1, <1>6, <2>1, QuietStep
  <2> QED BY <1>4, <1>6, <2>1, <2>2 DEF Typed
<1>7. CASE /\ Proves(u, code) /\ Cleared(u)
           /\ mfa' = Last(u, code)
           /\ codes' = [codes EXCEPT ![u] = @ \ {code}]
           /\ challenges' = Without("login_factor")
           /\ session' = u
  <2>1. Accepts(u, code) /\ Spend(code)
    BY <1>7 DEF Proves
  <2>2. codes' = [codes EXCEPT ![u] = codes[u] \ {code}] /\ codes[u] \ {code} \in SUBSET codes[u]
    BY <1>2, <1>4, <1>7 DEF Typed
  <2>3. codes' \in [Users -> SUBSET RecoveryCodes] /\ KeepsSheets /\ codes'[u] = codes[u] \ {code}
    BY <1>2, <2>2, CrossedOut
  <2>4. Dropped(challenges') /\ Kept(mfa') /\ (code \in OnPhone => mfa'[u].last = code.period)
    BY <1>2, <1>3, <1>7, <2>1, LastKept
  <2>5. CodesInv' /\ OneGrantPerCode'
    <3> HIDE DEF u
    <3>1. code \in OnPhone /\ mfa'[u] # None => mfa'[u].last = code.period
      BY <2>4
    <3>2. code \notin OnPhone => code \notin codes'[u]
      BY <2>3
    <3> QED BY <1>1, <1>2, <2>1, <2>3, <2>4, <3>1, <3>2, ProvedStep
  <2>6. mfaLocks' \in [Users -> Failures] /\ doubled' \in BOOLEAN
    <3>1. doubled' \in BOOLEAN
      BY <2>1 DEF Spend
    <3> QED BY <1>2, <1>7, <3>1, FactorLocksOK
  <2> QED BY <1>2, <1>7, <2>3, <2>4, <2>5, <2>6
<1>8. CASE /\ Misses(u, code)
           /\ challenges' = IF Locked(mfaLocks'[u]) THEN challenges ELSE Strike("login_factor")
           /\ UNCHANGED <<session, mfa, codes, spent, doubled>>
  <2>1. Dropped(challenges') /\ Kept(mfa') /\ KeepsSheets
    BY <1>3, <1>4, <1>8 DEF KeepsSheets
  <2>2. CodesInv' /\ OneGrantPerCode'
    BY <1>1, <1>8, <2>1, QuietStep
  <2>3. mfaLocks' \in [Users -> Failures]
    BY <1>2, <1>8, FactorLocksOK DEF Misses
  <2> QED BY <1>4, <1>8, <2>1, <2>2, <2>3 DEF Typed
<1> QED BY <1>6, <1>7, <1>8 DEF SecondFactor

(* Beginning one's own enrolment keeps the invariant.                      *)
LEMMA BeginOwnEnrollmentKeeps == ASSUME SignInInv, BeginOwnEnrollment PROVE SignInInv'
<1>1. /\ issued' = issued + 1 /\ session # None
      /\ challenges' = [challenges EXCEPT !["self_enrollment"] = Challenge(session, issued')]
      /\ UNCHANGED <<slips, clock, mfa, codes, policy, loginAttempts, loginLocks, mfaLocks,
                     recoveryAttempts, session, spent, doubled, promised>>
  BY DEF BeginOwnEnrollment, grants
<1>2. Typed /\ ToldTheLock'
  BY <1>1, IsTyped, SamePromise
<1>3. session \in Users /\ "self_enrollment" \in Enrolments /\ issued' \in Nat
  BY <1>1, <1>2 DEF Typed, Enrolments
<1>4. CodesInv' /\ OneGrantPerCode' /\ challenges' \in ChallengeMap
  BY <1>1, <1>3, AskStep
<1>5. Typed'
  BY <1>1, <1>2, <1>3, <1>4 DEF Typed
<1> QED BY <1>2, <1>4, <1>5, SignInParts

(* A change of policy keeps the invariant.                                 *)
LEMMA UpdatePolicyKeeps ==
  ASSUME SignInInv, NEW mode \in Policies, UpdatePolicy(mode) PROVE SignInInv'
<1>1. /\ policy' = mode
      /\ UNCHANGED <<slips, clock, issued, mfa, codes, loginAttempts, loginLocks, mfaLocks,
                     recoveryAttempts, challenges, session, spent, doubled, promised>>
  BY DEF UpdatePolicy, grants
<1>2. Typed' /\ ToldTheLock'
  BY <1>1, IsTyped, SamePromise DEF Typed
<1> QED BY <1>1, <1>2, FactorsAlone, SignInParts

(* Switching off one's own factor keeps the invariant.                     *)
LEMMA DisableOwnKeeps ==
  ASSUME SignInInv, NEW code, DisableOwn(code) PROVE SignInInv'
<1> DEFINE u == session
<1>1. /\ u # None
      /\ UNCHANGED <<slips, clock, issued, policy, loginAttempts, loginLocks, recoveryAttempts,
                     session, promised>>
  BY DEF DisableOwn
<1>2. Typed /\ ToldTheLock' /\ Kept(mfa)
  BY <1>1, IsTyped, SamePromise, SameKept
<1>3. u \in Users
  BY <1>1, <1>2 DEF Typed
<1>4. CASE /\ Proves(u, code) /\ mfa' = [mfa EXCEPT ![u] = None]
           /\ codes' = [codes EXCEPT ![u] = {}] /\ Cleared(u) /\ challenges' = Revoked(u)
  <2>1. Accepts(u, code) /\ Spend(code)
    BY <1>4 DEF Proves
  <2>2. codes' \in [Users -> SUBSET RecoveryCodes] /\ KeepsSheets /\ codes'[u] = {}
    <3>1. {} \in SUBSET codes[u]
      OBVIOUS
    <3> QED BY <1>3, <1>4, <3>1, CrossedOut
  <2>3. Dropped(challenges') /\ Kept(mfa') /\ mfa'[u] = None
    BY <1>2, <1>3, <1>4, RevokedDropped, WithoutKept
  <2>4. CodesInv' /\ OneGrantPerCode'
    <3> HIDE DEF u
    <3>1. code \in OnPhone /\ mfa'[u] # None => mfa'[u].last = code.period
      BY <2>3
    <3>2. code \notin OnPhone => code \notin codes'[u]
      BY <2>2
    <3> QED BY <1>1, <1>3, <2>1, <2>2, <2>3, <3>1, <3>2, ProvedStep
  <2>5. mfaLocks' \in [Users -> Failures] /\ doubled' \in BOOLEAN
    <3>1. doubled' \in BOOLEAN
      BY <2>1 DEF Spend
    <3> QED BY <1>3, <1>4, <3>1, FactorLocksOK
  <2>6. Typed'
    BY <1>1, <1>2, <2>2, <2>3, <2>5 DEF Typed, Dropped, Kept
  <2> QED BY <1>2, <2>4, <2>6, SignInParts
<1>5. CASE Misses(u, code) /\ UNCHANGED <<mfa, codes, challenges, spent, doubled>>
  <2>1. mfaLocks' \in [Users -> Failures]
    BY <1>3, <1>5, FactorLocksOK DEF Misses
  <2>2. CodesInv' /\ OneGrantPerCode'
    BY <1>1, <1>5, FactorsAlone
  <2>3. Typed'
    BY <1>1, <1>2, <1>5, <2>1 DEF Typed
  <2> QED BY <1>2, <2>2, <2>3, SignInParts
<1> QED BY <1>4, <1>5 DEF DisableOwn

---------------------------------------------------------------------------
(* Recovery and resets                                                     *)

(* The challenge of a recovery asks for no secret.                         *)
LEMMA RecoveryBegunDropped ==
  ASSUME SignInInv, NEW u \in Users, RecoveryBegun(u)
  PROVE  Dropped(challenges') /\ recoveryAttempts' \in Failures
<1>1. Challenge(u, 0) \in ChallengeRecords
  <2>1. 0 \in Nat
    OBVIOUS
  <2> QED BY <2>1, ChallengeOK
<1>2. challenges \in ChallengeMap /\ Dropped(challenges)
  BY SignInFields, SameDropped DEF ChallengeMap
<1>3. challenges' \in ChallengeMap /\ \A t \in Enrolments : challenges'[t] = challenges[t]
  BY <1>1, <1>2 DEF RecoveryBegun, ChallengeMap, Enrolments, ChallengeTypes
<1> QED BY <1>2, <1>3, NoFailuresOK DEF RecoveryBegun, Dropped

(* A miss in the recovery only counts the miss and drops challenges.       *)
LEMMA RecoveryMissedDropped ==
  ASSUME SignInInv, RecoveryMissed
  PROVE  Dropped(challenges') /\ recoveryAttempts' \in Failures
<1>1. AfterFailure(recoveryAttempts, RecoveryLock) \in Failures
  BY SignInFields, SignInSizes, AfterFailureOK
<1> QED BY <1>1, SameDropped DEF RecoveryMissed

(* Beginning a recovery with a recovery code keeps the invariant.          *)
LEMMA BeginRecoveryKeeps ==
  ASSUME SignInInv, NEW code, BeginRecovery(code) PROVE SignInInv'
<1>1. UNCHANGED <<slips, clock, issued, mfa, policy, loginAttempts, loginLocks, mfaLocks, session, promised>>
  BY DEF BeginRecovery
<1>2. Typed /\ ToldTheLock' /\ Kept(mfa')
  BY <1>1, IsTyped, SamePromise, SameKept
<1>3. ASSUME NEW u \in Users, code \in codes[u], codes' = [codes EXCEPT ![u] = @ \ {code}],
             Spend(code), RecoveryBegun(u)
      PROVE  SignInInv'
  <2>1. codes' = [codes EXCEPT ![u] = codes[u] \ {code}] /\ codes[u] \ {code} \in SUBSET codes[u]
    BY <1>2, <1>3 DEF Typed
  <2>2. codes' \in [Users -> SUBSET RecoveryCodes] /\ KeepsSheets /\ codes'[u] = codes[u] \ {code}
    BY <2>1, CrossedOut
  <2>3. Dropped(challenges') /\ recoveryAttempts' \in Failures
    BY <1>3, RecoveryBegunDropped
  <2>4. code \notin OnPhone
    <3>1. code \in RecoveryCodes
      BY <1>2, <1>3 DEF Typed
    <3> QED BY <3>1, OnPhoneIsTotp, KindsDiffer
  <2>5. CodesInv' /\ OneGrantPerCode'
    <3>1. code \in OnPhone /\ mfa'[u] # None => mfa'[u].last = code.period
      BY <2>4
    <3>2. code \notin OnPhone => code \notin codes'[u]
      BY <2>2
    <3> QED BY <1>1, <1>2, <1>3, <2>2, <2>3, <3>1, <3>2, ProvedStep
  <2>6. doubled' \in BOOLEAN
    BY <1>3 DEF Spend
  <2>7. Typed'
    BY <1>1, <1>2, <2>2, <2>3, <2>6 DEF Typed, Dropped
  <2> QED BY <1>2, <2>5, <2>7, SignInParts
<1>4. CASE RecoveryMissed /\ UNCHANGED <<codes, spent, doubled>>
  <2>1. Dropped(challenges') /\ recoveryAttempts' \in Failures /\ KeepsSheets
    BY <1>4, RecoveryMissedDropped DEF KeepsSheets
  <2>2. CodesInv' /\ OneGrantPerCode'
    BY <1>1, <1>2, <1>4, <2>1, QuietStep
  <2>3. Typed'
    BY <1>1, <1>2, <1>4, <2>1 DEF Typed, Dropped
  <2> QED BY <1>2, <2>2, <2>3, SignInParts
<1> QED BY <1>3, <1>4 DEF BeginRecovery

(* Beginning a recovery with the authenticator keeps the invariant.        *)
LEMMA BeginRecoveryWithTotpKeeps ==
  ASSUME SignInInv, NEW u \in Users, NEW code, BeginRecoveryWithTotp(u, code) PROVE SignInInv'
<1>1. /\ code \in OnPhone
      /\ UNCHANGED <<slips, clock, issued, codes, policy, loginAttempts, loginLocks, session,
                     promised>>
  BY DEF BeginRecoveryWithTotp
<1>2. Typed /\ ToldTheLock' /\ Kept(mfa) /\ KeepsSheets
  BY <1>1, IsTyped, SamePromise, SameKept DEF KeepsSheets
<1>3. CASE Proves(u, code) /\ Cleared(u) /\ mfa' = Last(u, code) /\ RecoveryBegun(u)
  <2>1. Accepts(u, code) /\ Spend(code)
    BY <1>3 DEF Proves
  <2>2. Dropped(challenges') /\ recoveryAttempts' \in Failures
    BY <1>3, RecoveryBegunDropped
  <2>3. Kept(mfa') /\ (code \in OnPhone => mfa'[u].last = code.period)
    BY <1>3, <2>1, LastKept
  <2>4. CodesInv' /\ OneGrantPerCode'
    <3>1. code \in OnPhone /\ mfa'[u] # None => mfa'[u].last = code.period
      BY <2>3
    <3>2. code \notin OnPhone => code \notin codes'[u]
      BY <1>1
    <3> QED BY <1>1, <1>2, <2>1, <2>2, <2>3, <3>1, <3>2, ProvedStep
  <2>5. mfaLocks' \in [Users -> Failures] /\ doubled' \in BOOLEAN
    <3>1. doubled' \in BOOLEAN
      BY <2>1 DEF Spend
    <3> QED BY <1>3, <3>1, FactorLocksOK
  <2>6. Typed'
    BY <1>1, <1>2, <2>2, <2>3, <2>5 DEF Typed, Dropped, Kept
  <2> QED BY <1>2, <2>4, <2>6, SignInParts
<1>4. CASE /\ RecoveryMissed /\ UNCHANGED <<mfa, spent, doubled>>
           /\ Misses(u, code) \/ UNCHANGED mfaLocks
  <2>1. Dropped(challenges') /\ recoveryAttempts' \in Failures
    BY <1>4, RecoveryMissedDropped
  <2>2. mfaLocks' \in [Users -> Failures]
    BY <1>4, FactorLocksOK DEF Misses
  <2>3. Kept(mfa')
    BY <1>2, <1>4
  <2>4. CodesInv' /\ OneGrantPerCode'
    BY <1>1, <1>2, <1>4, <2>1, <2>3, QuietStep
  <2>5. Typed'
    BY <1>1, <1>2, <1>4, <2>1, <2>2 DEF Typed, Dropped
  <2> QED BY <1>2, <2>4, <2>5, SignInParts
<1> QED BY <1>3, <1>4 DEF BeginRecoveryWithTotp

(* Removing a user's factor and codes, or leaving them, keeps everybody    *)
(* else's.                                                                 *)
LEMMA WithoutFactorKept ==
  ASSUME SignInInv, NEW u \in Users, WithoutFactor(u) \/ (Cleared(u) /\ UNCHANGED <<mfa, codes>>)
  PROVE  /\ Kept(mfa') /\ KeepsSheets /\ codes' \in [Users -> SUBSET RecoveryCodes]
         /\ mfaLocks' \in [Users -> Failures]
<1>1. Kept(mfa) /\ codes \in [Users -> SUBSET RecoveryCodes] /\ mfaLocks' \in [Users -> Failures]
  BY SameKept, SignInFields, FactorLocksOK DEF WithoutFactor
<1>2. CASE UNCHANGED <<mfa, codes>>
  BY <1>1, <1>2 DEF KeepsSheets
<1>3. CASE WithoutFactor(u)
  <2>1. {} \in SUBSET codes[u] /\ codes' = [codes EXCEPT ![u] = {}]
    BY <1>3 DEF WithoutFactor
  <2>2. KeepsSheets /\ codes' \in [Users -> SUBSET RecoveryCodes]
    BY <2>1, CrossedOut
  <2> QED BY <1>1, <1>3, <2>2, WithoutKept DEF WithoutFactor
<1> QED BY <1>2, <1>3

(* An account that is reset, with or without its second factor.            *)
LEMMA ResetKeeps ==
  ASSUME SignInInv, NEW u \in Users, Reset(u), Forgiven(u),
         WithoutFactor(u) \/ (Cleared(u) /\ UNCHANGED <<mfa, codes>>),
         UNCHANGED <<slips, clock, issued, policy, recoveryAttempts, spent, doubled>>
  PROVE  SignInInv'
<1>1. /\ Kept(mfa') /\ KeepsSheets /\ codes' \in [Users -> SUBSET RecoveryCodes]
      /\ mfaLocks' \in [Users -> Failures]
  BY WithoutFactorKept
<1>2. /\ loginAttempts' \in [Users -> Failures] /\ loginLocks' \in [Users -> Locks]
      /\ promised' \in [Users -> Nat] /\ ToldTheLock'
  BY ForgivenOK
<1>3. Typed /\ Dropped(challenges')
  BY IsTyped, RevokedDropped DEF Reset
<1>4. session' \in Users \cup {None}
  BY <1>3 DEF Reset, Typed
<1>5. CodesInv' /\ OneGrantPerCode'
  BY <1>1, <1>3, QuietStep
<1>6. Typed'
  BY <1>1, <1>2, <1>3, <1>4 DEF Typed, Dropped, Kept
<1> QED BY <1>2, <1>5, <1>6, SignInParts

(* Completing a recovery, with or without a reset of the factor, keeps the *)
(* invariant.                                                              *)
LEMMA CompleteRecoveryKeeps ==
  ASSUME SignInInv, NEW resetMfa \in BOOLEAN, CompleteRecovery(resetMfa) PROVE SignInInv'
<1> DEFINE u == challenges["account_recovery"].user
<1>1. u \in Users
  BY SignInSizes, ChallengeFields DEF CompleteRecovery
<1>2. /\ Reset(u) /\ Forgiven(u)
      /\ WithoutFactor(u) \/ (Cleared(u) /\ UNCHANGED <<mfa, codes>>)
      /\ UNCHANGED <<slips, clock, issued, policy, recoveryAttempts, spent, doubled>>
  BY DEF CompleteRecovery
<1> HIDE DEF u
<1> QED BY <1>1, <1>2, ResetKeeps

(* A reset by support keeps the invariant.                                 *)
LEMMA ResetBySupportKeeps == ASSUME SignInInv, ResetBySupport PROVE SignInInv'
<1>1. Owner \in Users
  BY SignInSizes
<1> QED BY <1>1, ResetKeeps DEF ResetBySupport

(* A reset by the owner keeps the invariant.                               *)
LEMMA ResetByOwnerKeeps ==
  ASSUME SignInInv, NEW u \in Users, NEW code, ResetByOwner(u, code) PROVE SignInInv'
<1>1. /\ u # Owner /\ Owner \in Users
      /\ UNCHANGED <<slips, clock, issued, policy, loginAttempts, loginLocks, recoveryAttempts, promised>>
  BY SignInSizes DEF ResetByOwner
<1>2. Typed /\ ToldTheLock' /\ Kept(mfa)
  BY <1>1, IsTyped, SamePromise, SameKept
<1>3. CASE Reset(u) /\ WithoutFactor(u) /\ UNCHANGED <<spent, doubled>>
  <2>1. /\ Kept(mfa') /\ KeepsSheets /\ codes' \in [Users -> SUBSET RecoveryCodes]
        /\ mfaLocks' \in [Users -> Failures]
    BY <1>3, WithoutFactorKept
  <2>2. Dropped(challenges') /\ session' \in Users \cup {None}
    BY <1>2, <1>3, RevokedDropped DEF Reset, Typed
  <2>3. CodesInv' /\ OneGrantPerCode'
    BY <1>1, <1>3, <2>1, <2>2, QuietStep
  <2>4. Typed'
    BY <1>1, <1>2, <1>3, <2>1, <2>2 DEF Typed, Dropped, Kept
  <2> QED BY <1>2, <2>3, <2>4, SignInParts
<1>4. CASE /\ Proves(Owner, code) /\ Reset(u)
           /\ mfa' = [Last(Owner, code) EXCEPT ![u] = None]
           /\ codes' = [codes EXCEPT ![u] = {}, ![Owner] = @ \ {code}]
           /\ mfaLocks' = [mfaLocks EXCEPT ![u] = NoFailures, ![Owner] = NoFailures]
  <2>1. Accepts(Owner, code) /\ Spend(code)
    BY <1>4 DEF Proves
  <2>2. Dropped(challenges') /\ session' \in Users \cup {None}
    BY <1>2, <1>4, RevokedDropped DEF Reset, Typed
  <2>3. Kept(Last(Owner, code)) /\ (code \in OnPhone => Last(Owner, code)[Owner].last = code.period)
    BY <1>1, <2>1, LastKept
  <2>4. Kept(mfa')
    BY <1>4, <2>3, WithoutKept
  <2>5. code \in OnPhone /\ mfa'[Owner] # None => mfa'[Owner].last = code.period
    <3>1. mfa'[Owner] = Last(Owner, code)[Owner]
      BY <1>1, <1>4, <2>3 DEF Kept
    <3> QED BY <2>3, <3>1
  <2>6. /\ codes' \in [Users -> SUBSET RecoveryCodes] /\ KeepsSheets
        /\ code \notin OnPhone => code \notin codes'[Owner]
    <3>1. codes \in [Users -> SUBSET RecoveryCodes]
      BY <1>2 DEF Typed
    <3>2. codes' = [v \in Users |-> IF v = Owner THEN codes[Owner] \ {code}
                                    ELSE IF v = u THEN {} ELSE codes[v]]
      BY <1>1, <1>4, <3>1
    <3> QED BY <3>1, <3>2, <1>1 DEF KeepsSheets
  <2>7. CodesInv' /\ OneGrantPerCode'
    <3>1. code \notin OnPhone => code \notin codes'[Owner]
      BY <2>6
    <3>2. issued' = issued
      BY <1>1
    <3> QED BY <1>1, <2>1, <2>2, <2>4, <2>5, <2>6, <3>1, <3>2, ProvedStep
  <2>8. mfaLocks' \in [Users -> Failures] /\ doubled' \in BOOLEAN
    <3>1. doubled' \in BOOLEAN
      BY <2>1 DEF Spend
    <3>2. mfaLocks' \in [Users -> Failures]
      BY <1>2, <1>4, NoFailuresOK DEF Typed
    <3> QED BY <3>1, <3>2
  <2>9. Typed'
    BY <1>1, <1>2, <2>2, <2>4, <2>6, <2>8 DEF Typed, Dropped, Kept
  <2> QED BY <1>2, <2>7, <2>9, SignInParts
<1>5. CASE Misses(Owner, code) /\ UNCHANGED <<mfa, codes, session, challenges, spent, doubled>>
  <2>1. mfaLocks' \in [Users -> Failures]
    BY <1>1, <1>5, FactorLocksOK DEF Misses
  <2>2. CodesInv' /\ OneGrantPerCode'
    BY <1>1, <1>5, FactorsAlone
  <2>3. Typed'
    BY <1>1, <1>2, <1>5, <2>1 DEF Typed
  <2> QED BY <1>2, <2>2, <2>3, SignInParts
<1> QED BY <1>3, <1>4, <1>5 DEF ResetByOwner

---------------------------------------------------------------------------
(* New sheets of recovery codes                                            *)

(* A new sheet has no code in common with what is left of any other, nor   *)
(* one that was spent.                                                     *)
LEMMA SheetStep ==
  ASSUME SignInInv, NEW u \in Users, issued' = issued + 1,
         codes' = [codes EXCEPT ![u] = Sheet(issued')],
         NEW code, spent' = spent \cup {code}, code \in RecoveryCodes => code \in codes[u]
  PROVE  /\ \A v \in Users : SheetFine(v)'
         /\ codes' \in [Users -> SUBSET RecoveryCodes] /\ codes'[u] = Sheet(issued')
         /\ issued' \in Nat /\ issued <= issued'
<1>1. issued \in Nat /\ issued' \in Nat /\ codes \in [Users -> SUBSET RecoveryCodes]
  BY SignInFields
<1>2. \A c \in Sheet(issued') : c \in RecoveryCodes /\ c.sheet = issued'
  BY <1>1, SheetIsCodes
<1>3. codes' \in [Users -> SUBSET RecoveryCodes] /\ codes'[u] = Sheet(issued')
      /\ \A v \in Users \ {u} : codes'[v] = codes[v]
  <2> DEFINE sheet == Sheet(issued')
  <2>1. sheet \in SUBSET RecoveryCodes
    BY <1>2
  <2>2. codes' = [codes EXCEPT ![u] = sheet]
    OBVIOUS
  <2> HIDE DEF sheet
  <2>3. codes' \in [Users -> SUBSET RecoveryCodes] /\ codes'[u] = sheet
        /\ \A v \in Users \ {u} : codes'[v] = codes[v]
    BY <1>1, <2>1, <2>2
  <2> QED BY <2>3 DEF sheet
<1>4. \A n \in 1 .. issued : n \in 1 .. issued' /\ n # issued'
  BY <1>1
<1>5. \A c \in spent : c \in RecoveryCodes => c.sheet \in 1 .. issued
  BY KindsDiffer DEF SignInInv, CodesInv, SpentFine
<1>6. \A v \in Users : \A c \in codes[v] : c \in RecoveryCodes /\ c.sheet \in 1 .. issued /\ c \notin spent
  BY DEF SignInInv, CodesInv, SheetFine
<1>7. ASSUME NEW v \in Users PROVE SheetFine(v)'
  <2>1. CASE v = u
    <3>1. ASSUME NEW c \in Sheet(issued')
          PROVE  /\ c \in RecoveryCodes /\ c.sheet \in 1 .. issued' /\ c \notin spent'
                 /\ \A w \in Users \ {u} : c \notin codes'[w]
      <4>1. c \in RecoveryCodes /\ c.sheet = issued' /\ issued' \in 1 .. issued'
        BY <1>1, <1>2, <3>1
      <4>2. c \notin spent /\ \A w \in Users : c \notin codes[w]
        BY <1>4, <1>5, <1>6, <4>1
      <4> QED BY <1>3, <4>1, <4>2
    <3> QED BY <1>3, <2>1, <3>1 DEF SheetFine
  <2>2. CASE v # u
    <3>1. ASSUME NEW c \in codes[v]
          PROVE  /\ c \in RecoveryCodes /\ c.sheet \in 1 .. issued' /\ c \notin spent'
                 /\ \A w \in Users \ {v} : c \notin codes'[w]
      <4>1. /\ c \in RecoveryCodes /\ c.sheet \in 1 .. issued /\ c \notin spent
            /\ \A w \in Users \ {v} : c \notin codes[w]
        BY <3>1 DEF SignInInv, CodesInv, SheetFine
      <4>2. c # code
        BY <2>2, <4>1
      <4>3. c \notin Sheet(issued')
        BY <1>2, <1>4, <4>1
      <4> QED BY <1>3, <1>4, <4>1, <4>2, <4>3
    <3> QED BY <1>3, <2>2, <3>1 DEF SheetFine
  <2> QED BY <2>1, <2>2
<1>8. issued <= issued'
  BY <1>1
<1> QED BY <1>1, <1>3, <1>7, <1>8

(* A new sheet of recovery codes keeps the invariant.                      *)
LEMMA RegenerateCodesKeeps ==
  ASSUME SignInInv, NEW code, RegenerateCodes(code) PROVE SignInInv'
<1> DEFINE u == session
<1>1. /\ u # None
      /\ UNCHANGED <<slips, clock, policy, loginAttempts, loginLocks, recoveryAttempts, challenges,
                     session, promised>>
  BY DEF RegenerateCodes
<1>2. Typed /\ ToldTheLock' /\ Kept(mfa) /\ Dropped(challenges)
  BY <1>1, IsTyped, SamePromise, SameKept, SameDropped
<1>3. u \in Users
  BY <1>1, <1>2 DEF Typed
<1>4. CASE /\ Proves(u, code) /\ Cleared(u) /\ issued' = issued + 1 /\ mfa' = Last(u, code)
           /\ codes' = [codes EXCEPT ![u] = Sheet(issued')]
  <2> HIDE DEF u
  <2>1. Accepts(u, code) /\ Spend(code) /\ spent' = spent \cup {code}
    BY <1>4 DEF Proves, Spend
  <2>2. code \in RecoveryCodes => code \in codes[u]
    BY <1>3, <2>1, AcceptedIsFresh, KindsDiffer
  <2>3. /\ \A v \in Users : SheetFine(v)'
        /\ codes' \in [Users -> SUBSET RecoveryCodes]
        /\ issued' \in Nat /\ issued <= issued'
    BY <1>3, <1>4, <2>1, <2>2, SheetStep
  <2>4. Dropped(challenges') /\ Kept(mfa') /\ (code \in OnPhone => mfa'[u].last = code.period)
    BY <1>1, <1>2, <1>3, <1>4, <2>1, LastKept
  <2>5. DropsOnly /\ KeepsSecrets
    BY <2>4, DroppedOnly, KeptOnly
  <2>6. SpentOn(code) /\ OneGrantPerCode'
    <3>1. code \in OnPhone /\ mfa'[u] # None => mfa'[u].last = code.period
      BY <2>4
    <3>2. code \notin OnPhone => \A v \in Users : code \notin codes'[v]
      BY <2>1, <2>3 DEF SheetFine
    <3> QED BY <1>3, <2>1, <2>5, <3>1, <3>2, ProofSpent
  <2>7. CodesInv'
    BY <2>3, <2>5, <2>6, FactorStep
  <2>8. mfaLocks' \in [Users -> Failures] /\ doubled' \in BOOLEAN
    <3>1. doubled' \in BOOLEAN
      BY <2>1 DEF Spend
    <3> QED BY <1>3, <1>4, <3>1, FactorLocksOK
  <2>9. Typed'
    BY <1>1, <1>2, <2>3, <2>4, <2>8 DEF Typed, Dropped, Kept
  <2> QED BY <1>2, <2>6, <2>7, <2>9, SignInParts
<1>5. CASE Misses(u, code) /\ UNCHANGED <<issued, mfa, codes, spent, doubled>>
  <2>1. mfaLocks' \in [Users -> Failures]
    BY <1>3, <1>5, FactorLocksOK DEF Misses
  <2>2. CodesInv' /\ OneGrantPerCode'
    BY <1>1, <1>5, FactorsAlone
  <2>3. Typed'
    BY <1>1, <1>2, <1>5, <2>1 DEF Typed
  <2> QED BY <1>2, <2>2, <2>3, SignInParts
<1> QED BY <1>4, <1>5 DEF RegenerateCodes

(* The secret that was asked for becomes the user's, and the code that     *)
(* confirms it is the first of it to be spent.                             *)
LEMMA EnrolledStep ==
  ASSUME SignInInv, NEW type \in Enrolments, challenges[type] # None, NEW u \in Users, NEW code \in OnPhone,
         code.secret = challenges[type].secret, issued' = issued + 1,
         mfa' = [mfa EXCEPT ![u] = Enrolled(code)],
         codes' = [codes EXCEPT ![u] = Sheet(issued')],
         Spend(code), challenges' = Without(type)
  PROVE  /\ CodesInv' /\ OneGrantPerCode' /\ challenges' \in ChallengeMap
         /\ mfa' \in [Users -> Factors \cup {None}] /\ codes' \in [Users -> SUBSET RecoveryCodes]
<1>1. code \in Totp /\ code.secret \in 1 .. issued /\ code.secret \in Nat /\ code.period \in Nat
  BY OnPhoneIsTotp
<1>2. spent' = spent \cup {code} /\ code \notin RecoveryCodes
  BY <1>1, KindsDiffer DEF Spend
<1>3. /\ \A v \in Users : SheetFine(v)'
      /\ codes' \in [Users -> SUBSET RecoveryCodes]
      /\ issued' \in Nat /\ issued <= issued'
  BY <1>2, SheetStep
<1>4. \A n \in 1 .. issued : n \in 1 .. issued'
  BY <1>3, SignInFields
<1> DEFINE new == Enrolled(code)
<1>5. new \in Factors /\ new.secret = code.secret /\ new.last = code.period
  BY <1>1 DEF Enrolled, Factors
<1>6. mfa' = [mfa EXCEPT ![u] = new]
  OBVIOUS
<1> HIDE DEF new
<1>7. mfa' \in [Users -> Factors \cup {None}] /\ mfa'[u] = new
      /\ \A v \in Users \ {u} : mfa'[v] = mfa[v]
  BY <1>5, <1>6, SignInFields
<1>8. type \in ChallengeTypes /\ Enrolments \subseteq ChallengeTypes
  BY SignInSizes
<1>9. challenges' \in ChallengeMap /\ challenges'[type] = None
      /\ \A t \in ChallengeTypes \ {type} : challenges'[t] = challenges[t]
  BY <1>8, SignInFields DEF Without, ChallengeMap
<1>10. /\ \A c \in spent : c \in Totp => c.secret # code.secret
       /\ \A v \in Users : mfa[v] # None => mfa[v].secret # code.secret
       /\ \A r \in Enrolments \ {type} : challenges[r] # None => challenges[r].secret # code.secret
  BY DEF SignInInv, CodesInv, AskedFine
<1>11. code \notin spent
  BY <1>1, <1>10
<1>12. ASSUME NEW v \in Users PROVE SecretFine(v)'
  <2>1. CASE v = u
    <3>1. \A c \in spent' : c \in Totp /\ c.secret = code.secret => c.period <= code.period
      BY <1>1, <1>2, <1>10
    <3>2. \A w \in Users \ {u} : mfa'[w] # None => mfa'[w].secret # code.secret
      BY <1>7, <1>10
    <3> QED BY <1>1, <1>4, <1>5, <1>7, <2>1, <3>1, <3>2 DEF SecretFine
  <2>2. CASE v # u
    <3> SUFFICES ASSUME mfa[v] # None PROVE SecretFine(v)'
      BY <1>7, <2>2 DEF SecretFine
    <3>1. SecretFine(v) /\ mfa'[v] = mfa[v] /\ mfa[v].secret # code.secret
      BY <1>7, <1>10, <2>2 DEF SignInInv, CodesInv
    <3>2. \A c \in spent' : c \in Totp /\ c.secret = mfa[v].secret => c.period <= mfa[v].last
      BY <1>2, <3>1 DEF SecretFine
    <3>3. \A w \in Users \ {v} : mfa'[w] # None => mfa'[w].secret # mfa[v].secret
      BY <1>5, <1>7, <3>1 DEF SecretFine
    <3> QED BY <1>4, <3>1, <3>2, <3>3 DEF SecretFine
  <2> QED BY <2>1, <2>2
<1>13. ASSUME NEW t \in Enrolments PROVE AskedFine(t)'
  <2> SUFFICES ASSUME t # type, challenges[t] # None PROVE AskedFine(t)'
    BY <1>8, <1>9 DEF AskedFine
  <2>1. AskedFine(t) /\ challenges'[t] = challenges[t] /\ challenges[t].secret # code.secret
    BY <1>8, <1>9, <1>10 DEF SignInInv, CodesInv
  <2>2. \A c \in spent' : c \in Totp => c.secret # challenges[t].secret
    BY <1>2, <2>1 DEF AskedFine
  <2>3. \A v \in Users : mfa'[v] # None => mfa'[v].secret # challenges[t].secret
    BY <1>5, <1>7, <2>1 DEF AskedFine
  <2>4. \A r \in Enrolments \ {t} : challenges'[r] # None => challenges'[r].secret # challenges[t].secret
    BY <1>8, <1>9, <2>1 DEF AskedFine
  <2> QED BY <1>4, <2>1, <2>2, <2>3, <2>4 DEF AskedFine
<1>14. \A c \in spent' : SpentFine(c)'
  BY <1>1, <1>2, <1>4 DEF SignInInv, CodesInv, SpentFine
<1>15. OneGrantPerCode'
  BY <1>11 DEF Spend, SignInInv, OneGrantPerCode
<1> QED BY <1>3, <1>7, <1>9, <1>12, <1>13, <1>14, <1>15 DEF CodesInv

(* Confirming an enrolment keeps the invariant.                            *)
LEMMA ConfirmEnrollmentKeeps ==
  ASSUME SignInInv, NEW type, NEW code, ConfirmEnrollment(type, code) PROVE SignInInv'
<1> DEFINE u == challenges[type].user
           own == type = "login_enrollment" \/ session = u
<1>1. /\ type \in Enrolments /\ challenges[type] # None
      /\ UNCHANGED <<slips, clock, policy, loginAttempts, loginLocks, recoveryAttempts, promised>>
  BY DEF ConfirmEnrollment, Enrolments
<1>2. type \in ChallengeTypes
  BY <1>1, SignInSizes
<1>3. u \in Users
  BY <1>1, <1>2, ChallengeFields
<1>4. Typed /\ ToldTheLock' /\ Kept(mfa) /\ Dropped(Without(type)) /\ Dropped(Strike(type))
  BY <1>1, <1>2, IsTyped, SamePromise, SameKept, WithoutDropped, StrikeDropped
<1>5. CASE /\ challenges' = Without(type) \/ challenges' = Strike(type)
           /\ Refuse(u) \/ UNCHANGED mfaLocks
           /\ UNCHANGED <<mfa, codes, issued, session, spent, doubled>>
  <2>1. Dropped(challenges') /\ Kept(mfa') /\ KeepsSheets
    BY <1>4, <1>5 DEF KeepsSheets
  <2>2. CodesInv' /\ OneGrantPerCode'
    BY <1>5, <2>1, QuietStep
  <2>3. mfaLocks' \in [Users -> Failures]
    BY <1>3, <1>5, FactorLocksOK
  <2>4. Typed'
    BY <1>1, <1>4, <1>5, <2>1, <2>3 DEF Typed, Dropped
  <2> QED BY <1>4, <2>2, <2>4, SignInParts
<1>6. CASE /\ code \in OnPhone /\ code.secret = challenges[type].secret /\ issued' = issued + 1
           /\ mfa' = [mfa EXCEPT ![u] = Enrolled(code)]
           /\ codes' = [codes EXCEPT ![u] = Sheet(issued')]
           /\ Spend(code) /\ Cleared(u) /\ challenges' = Without(type)
           /\ session' = session \/ session' = u
  <2>1. mfaLocks' \in [Users -> Failures] /\ doubled' \in BOOLEAN
    <3>1. doubled' \in BOOLEAN
      BY <1>6 DEF Spend
    <3> QED BY <1>3, <1>6, <3>1, FactorLocksOK
  <2>2. session' \in Users \cup {None} /\ issued' \in Nat
    BY <1>3, <1>4, <1>6 DEF Typed
  <2> HIDE DEF u
  <2>3. /\ CodesInv' /\ OneGrantPerCode' /\ challenges' \in ChallengeMap
        /\ mfa' \in [Users -> Factors \cup {None}] /\ codes' \in [Users -> SUBSET RecoveryCodes]
    BY <1>1, <1>3, <1>6, EnrolledStep
  <2>4. Typed'
    BY <1>1, <1>4, <2>1, <2>2, <2>3 DEF Typed
  <2> QED BY <1>4, <2>3, <2>4, SignInParts
<1> QED BY <1>1, <1>5, <1>6 DEF ConfirmEnrollment

---------------------------------------------------------------------------
(* Every step keeps the invariant                                          *)

(* Forgetting every challenge only drops them.                             *)
LEMMA NoChallenges ==
  ASSUME SignInInv, challenges' = [t \in ChallengeTypes |-> None] PROVE Dropped(challenges')
<1>1. challenges' \in ChallengeMap /\ \A t \in ChallengeTypes : challenges'[t] = None
  BY DEF ChallengeMap
<1> QED BY <1>1, SignInSizes DEF Dropped

(* Signing off keeps the invariant.                                        *)
LEMMA SignOffKeeps == ASSUME SignInInv, SignOff PROVE SignInInv'
<1>1. /\ session' = None /\ recoveryAttempts' = NoFailures
      /\ challenges' = [t \in ChallengeTypes |-> None]
      /\ UNCHANGED <<slips, clock, issued, mfa, codes, policy, loginAttempts, loginLocks, mfaLocks,
                     spent, doubled, promised>>
  BY DEF SignOff, grants
<1>2. Typed /\ ToldTheLock' /\ Kept(mfa') /\ KeepsSheets /\ Dropped(challenges')
  BY <1>1, IsTyped, SamePromise, SameKept, NoChallenges DEF KeepsSheets
<1>3. CodesInv' /\ OneGrantPerCode'
  BY <1>1, <1>2, QuietStep
<1>4. Typed'
  BY <1>1, <1>2, NoFailuresOK DEF Typed, Dropped
<1> QED BY <1>2, <1>3, <1>4, SignInParts

(* Starting the program again keeps the invariant.                         *)
LEMMA RelaunchKeeps == ASSUME SignInInv, Relaunch PROVE SignInInv'
<1>1. /\ session' = None /\ recoveryAttempts' = NoFailures
      /\ challenges' = [t \in ChallengeTypes |-> None]
      /\ loginAttempts' = [u \in Users |-> NoFailures]
      /\ UNCHANGED <<slips, clock, issued, mfa, codes, policy, loginLocks, mfaLocks,
                     spent, doubled, promised>>
  BY DEF Relaunch, grants
<1>2. Typed /\ ToldTheLock' /\ Kept(mfa') /\ KeepsSheets /\ Dropped(challenges')
  BY <1>1, IsTyped, SamePromise, SameKept, NoChallenges DEF KeepsSheets
<1>3. CodesInv' /\ OneGrantPerCode'
  BY <1>1, <1>2, QuietStep
<1>4. Typed'
  BY <1>1, <1>2, NoFailuresOK DEF Typed, Dropped
<1> QED BY <1>2, <1>3, <1>4, SignInParts

(* The passing of time keeps the invariant.                                *)
LEMMA TickKeeps == ASSUME SignInInv, Tick PROVE SignInInv'
<1>1. /\ clock' = clock + 1
      /\ challenges' = [t \in ChallengeTypes |->
           IF challenges[t] # None /\ challenges[t].expires <= clock' THEN None ELSE challenges[t]]
      /\ UNCHANGED <<slips, issued, mfa, codes, policy, loginAttempts, loginLocks, mfaLocks,
                     recoveryAttempts, session, spent, doubled, promised>>
  BY DEF Tick, grants
<1>2. Typed /\ ToldTheLock' /\ Kept(mfa') /\ KeepsSheets
  BY <1>1, IsTyped, SamePromise, SameKept DEF KeepsSheets
<1>3. \A t \in ChallengeTypes : challenges'[t] = None \/ challenges'[t] = challenges[t]
  BY <1>1
<1>4. challenges' \in ChallengeMap
  BY <1>1, <1>2 DEF Typed, ChallengeMap
<1>5. Dropped(challenges')
  BY <1>3, <1>4, SignInSizes DEF Dropped
<1>6. CodesInv' /\ OneGrantPerCode'
  BY <1>1, <1>2, <1>5, QuietStep
<1>7. Typed'
  BY <1>1, <1>2, <1>4 DEF Typed
<1> QED BY <1>2, <1>6, <1>7, SignInParts

(* A stutter keeps the invariant.                                          *)
LEMMA SignInStutters == ASSUME SignInInv, UNCHANGED signInVars PROVE SignInInv'
<1>1. UNCHANGED <<clock, issued, mfa, codes, policy, loginAttempts, loginLocks, mfaLocks,
                  recoveryAttempts, challenges, session, spent, doubled, promised>>
  BY DEF signInVars
<1>2. Typed' /\ ToldTheLock'
  BY <1>1, IsTyped, SamePromise DEF Typed
<1> QED BY <1>1, <1>2, FactorsAlone, SignInParts

(* The initial states satisfy the invariant.                               *)
LEMMA SignInStarts == ASSUME SignInInit PROVE SignInInv
<1>1. 0 \in Nat /\ 1 \in Nat /\ [until |-> 0, level |-> 0] \in Locks /\ [until |-> 0, level |-> 0].until = 0
  BY SignInSizes DEF Locks
<1>2. Typed
  BY <1>1, NoFailuresOK
     DEF SignInInit, Typed, Policies, ChallengeMap
<1>3. spent = {} /\ doubled = FALSE /\ (\A u \in Users : mfa[u] = None /\ codes[u] = {})
      /\ (\A t \in Enrolments : challenges[t] = None)
  BY SignInSizes DEF SignInInit
<1>4. CodesInv
  BY <1>3 DEF CodesInv, SecretFine, SheetFine, AskedFine
<1>5. ToldTheLock
  BY <1>1 DEF SignInInit, ToldTheLock
<1>6. SignInTypeOK
  BY <1>2, <1>3 DEF Typed, SignInTypeOK, Factors, Failures, Locks, ChallengeMap, ChallengeRecords
<1> QED BY <1>3, <1>4, <1>5, <1>6 DEF SignInInv, OneGrantPerCode

(* The codes and locks of signing in are in order in every reachable state *)
(* (main.cjs, mfa.cjs): SignInInv is inductive.                            *)
THEOREM SignInAlwaysInv == SignInSpec => []SignInInv
<1>1. SignInInit => SignInInv
  BY SignInStarts
<1>2. SignInInv /\ [SignInNext]_signInVars => SignInInv'
  <2> SUFFICES ASSUME SignInInv, [SignInNext]_signInVars PROVE SignInInv'
    OBVIOUS
  <2>1. CASE UNCHANGED signInVars
    BY <2>1, SignInStutters
  <2>2. CASE Tick
    BY <2>2, TickKeeps
  <2>3. CASE SignOff
    BY <2>3, SignOffKeeps
  <2>4. CASE Relaunch
    BY <2>4, RelaunchKeeps
  <2>5. CASE BeginOwnEnrollment
    BY <2>5, BeginOwnEnrollmentKeeps
  <2>6. CASE ResetBySupport
    BY <2>6, ResetBySupportKeeps
  <2>7. ASSUME NEW u \in Forgetful, WrongPassword(u) PROVE SignInInv'
    <3>1. u \in Users
      BY SignInAssumption
    <3> QED BY <2>7, <3>1, WrongPasswordKeeps
  <2>8. ASSUME NEW u \in Users, RightPassword(u) PROVE SignInInv'
    BY <2>8, RightPasswordKeeps
  <2>9. ASSUME NEW mode \in Policies, UpdatePolicy(mode) PROVE SignInInv'
    BY <2>9, UpdatePolicyKeeps
  <2>10. ASSUME NEW resetMfa \in BOOLEAN, CompleteRecovery(resetMfa) PROVE SignInInv'
    BY <2>10, CompleteRecoveryKeeps
  <2>11. ASSUME NEW code \in Entered, SecondFactor(code) PROVE SignInInv'
    BY <2>11, SecondFactorKeeps
  <2>12. ASSUME NEW code \in Entered, DisableOwn(code) PROVE SignInInv'
    BY <2>12, DisableOwnKeeps
  <2>13. ASSUME NEW code \in Entered, RegenerateCodes(code) PROVE SignInInv'
    BY <2>13, RegenerateCodesKeeps
  <2>14. ASSUME NEW code \in Entered, BeginRecovery(code) PROVE SignInInv'
    BY <2>14, BeginRecoveryKeeps
  <2>15. ASSUME NEW code \in Entered, NEW type \in ChallengeTypes, ConfirmEnrollment(type, code)
         PROVE  SignInInv'
    BY <2>15, ConfirmEnrollmentKeeps
  <2>16. ASSUME NEW code \in Entered, NEW u \in Users, BeginRecoveryWithTotp(u, code) PROVE SignInInv'
    BY <2>16, BeginRecoveryWithTotpKeeps
  <2>17. ASSUME NEW code \in Entered, NEW u \in Users, ResetByOwner(u, code) PROVE SignInInv'
    BY <2>17, ResetByOwnerKeeps
  <2> QED BY <2>1, <2>2, <2>3, <2>4, <2>5, <2>6, <2>7, <2>8, <2>9, <2>10, <2>11, <2>12, <2>13,
             <2>14, <2>15, <2>16, <2>17 DEF SignInNext
<1> QED BY <1>1, <1>2, PTL DEF SignInSpec

(* However a code got there, from the phone or off a sheet, it opens       *)
(* something once (last_used_counter, consumed_at), for any number of      *)
(* users, codes and periods.                                               *)
THEOREM NeverTwiceOneCode == SignInSpec => []OneGrantPerCode
<1>1. SignInInv => OneGrantPerCode
  BY DEF SignInInv
<1> QED BY <1>1, SignInAlwaysInv, PTL

(* Whoever was told to wait is locked out until then, whatever is          *)
(* restarted in between (__login_locks).                                   *)
THEOREM LockoutAlwaysStands == SignInSpec => []LockoutStands
<1>1. SignInInv => LockoutStands
  BY DEF SignInInv, ToldTheLock, LockoutStands, LoginLimited, Locked
<1> QED BY <1>1, SignInAlwaysInv, PTL
=============================================================================
