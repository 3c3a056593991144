---------------------------- MODULE LoginProofs ----------------------------
(***************************************************************************)
(* Proofs about Login, for any number of calls, requests and bounds.       *)
(***************************************************************************)
EXTENDS Login, TLAPS

-----------------------------------------------------------------------------
(* What a lookup makes of an identity *)

\* Restricted as its account was when it was last read, or usable, and then
\* it remembers no status.
Sound(i) ==
  /\ i.stamp[1] = i.seen
  /\ i.seen \in Restricted => i.status = i.seen
  /\ i.seen \in Usable => i.status \in Usable /\ i.previous = "none"

LEMMA StatusTypes ==
  ASSUME account \in Account
  PROVE  /\ StatusOf(account) \in Statuses
         /\ StampOf(account) \in Statuses \X Nat \X Nat
         /\ StampOf(account)[1] = StatusOf(account)
         /\ StampOf(account)[3] = account.password
<1>1. StatusOf(account) \in Statuses
  BY DEF StatusOf, Statuses, Usable, Restricted
<1>2. account.version \in Nat /\ account.password \in Nat
  BY DEF Account
<1> QED BY <1>1, <1>2 DEF StampOf

\* A lookup leaves an identity as it is or raises its version; afterwards it
\* has the stamp of the account and is usable as the account is.
LEMMA RefreshIs ==
  ASSUME account \in Account, NEW i \in Identity, Sound(i)
  PROVE  /\ Refresh(i) \in Identity /\ Sound(Refresh(i))
         /\ Refresh(i).stamp = StampOf(account)
         /\ Refresh(i).seen = StatusOf(account)
         /\ Refresh(i) = i \/ Refresh(i).version = i.version + 1
         /\ Refresh(i).status \in Usable <=> StatusOf(account) \in Usable
<1> DEFINE j == Refresh(i)
           f == Followed(i)
           s == StatusOf(account)
<1>1. s \in Statuses /\ StampOf(account) \in Statuses \X Nat \X Nat /\ StampOf(account)[1] = s
  BY StatusTypes
<1>2. Usable \cap Restricted = {} /\ Statuses = Usable \cup Restricted /\ "none" \notin Statuses
      /\ "active" \in Usable
  BY DEF Usable, Restricted, Statuses
<1>3. /\ i.status \in Statuses /\ i.version \in Nat /\ i.seen \in Statuses
      /\ i.previous \in Usable \cup {"none"}
  BY DEF Identity
<1>4. /\ f \in Identity /\ f.version = i.version
      /\ s \in Restricted => f.status = s
      /\ s \in Usable => f.status \in Usable /\ f.previous = "none"
  <2>1. CASE s \notin Usable
    <3>1. f = Restrict(i)
      BY <2>1 DEF Followed
    <3>2. (IF i.previous = "none" /\ i.status \in Usable
           THEN i.status ELSE i.previous) \in Usable \cup {"none"}
      BY <1>3
    <3> QED BY <1>1, <1>2, <1>3, <2>1, <3>1, <3>2 DEF Restrict, Identity
  <2>2. CASE s \in Usable /\ (i.status = i.seen \/ Recovers(i))
    <3>1. f = Lift(i)
      BY <2>2 DEF Followed
    <3>2. (IF i.previous = "none" THEN s ELSE i.previous) \in Usable
      BY <1>3, <2>2
    <3> QED BY <1>1, <1>2, <1>3, <2>2, <3>1, <3>2 DEF Lift, Identity
  <2>3. CASE s \in Usable /\ ~(i.status = i.seen \/ Recovers(i))
    <3>1. f = i
      BY <2>3 DEF Followed
    <3>2. i.seen \in Usable
      BY <1>2, <1>3, <2>3 DEF Sound
    <3> QED BY <1>2, <2>3, <3>1, <3>2 DEF Sound
  <2> QED BY <2>1, <2>2, <2>3
<1>5. CASE ~Changed(i) /\ ~Recovers(i)
  <2>1. j = i
    BY <1>5
    DEF Refresh
  <2>2. i.stamp = StampOf(account) /\ i.seen = s
    BY <1>1, <1>5 DEF Changed, Sound
  <2> QED BY <1>1, <1>2, <1>3, <2>1, <2>2 DEF Sound
<1>6. CASE ~(~Changed(i) /\ ~Recovers(i))
  <2>1. j = [f EXCEPT !.stamp = StampOf(account), !.seen = s, !.version = @ + 1]
    BY <1>6
    DEF Refresh
  <2> HIDE DEF f, j
  <2>2. j = [status |-> f.status, version |-> f.version + 1, stamp |-> StampOf(account),
             seen |-> s, previous |-> f.previous]
    BY <1>4, <2>1 DEF Identity
  <2>3. f.status \in Statuses /\ f.version \in Nat /\ f.previous \in Usable \cup {"none"}
    BY <1>4 DEF Identity
  <2>4. j \in Identity
    BY <1>1, <2>2, <2>3 DEF Identity
  <2>5. /\ Sound(j) /\ j.stamp = StampOf(account) /\ j.seen = s
        /\ j.version = i.version + 1 /\ j.status = f.status
    BY <1>1, <1>2, <1>4, <2>2 DEF Sound
  <2>6. j.status \in Usable <=> s \in Usable
    BY <1>1, <1>2, <1>4, <2>5
  <2> QED BY <2>4, <2>5, <2>6 DEF j
<1> QED BY <1>5, <1>6

-----------------------------------------------------------------------------
(* The inductive invariant *)

\* A call that may buy a session has an identity in hand; the transaction
\* found it as the challenge asks, and needed no lookup to bring it there.
HandOK(k) ==
  /\ k.at \in {"confirm", "recheck", "issue"} => k.mine \in Identity
  /\ k.at = "confirm" =>
       /\ k.mine = k.read
       /\ Sound(k.mine)
       /\ k.doc.status = "awaiting_code"
       /\ k.doc.version = k.mine.version

HandsOK == \A c \in Calls : HandOK(calls[c])

IdentityOK == Sound(identity)

\* A request that was answered, or is being served, has its row; one call
\* serves it, and has sent nothing before its mail leaves.
Serving == WithKey \ {"reserve"}
Unsent == {"start", "load", "check", "save", "send"}

RequestsOK ==
  /\ \A k \in Keys : sent[k] <= 1 /\ (sent[k] = 1 => rows[k] # "none")
  /\ \A c \in Calls : calls[c].at \in Serving => rows[calls[c].key] # "none"
  /\ \A c \in Calls : calls[c].at \in Unsent => sent[calls[c].key] = 0
  /\ \A c, d \in Calls :
       /\ calls[c].at \in Serving /\ calls[d].at \in Serving
       /\ calls[c].key = calls[d].key
       => c = d

\* The challenge asks for the latest code and counts its guesses; the code
\* of a session is used up, or replaced by a later one.
CodesOK ==
  /\ challenge.code <= Len(guesses)
  /\ challenge.code \in DOMAIN guesses => guesses[challenge.code] <= challenge.attempts
  /\ \A code \in DOMAIN guesses : guesses[code] <= MaxAttempts
  /\ \A i \in DOMAIN auths :
       /\ auths[i].code <= Len(guesses)
       /\ auths[i].code # 0 /\ auths[i].code = challenge.code
          => challenge.status \in {"consumed", "expired"}
  /\ OneSessionPerCode

\* What was issued for a version of the identity was issued for the password
\* the identity had then.
Bound(version, password) ==
  /\ version <= identity.version
  /\ version = identity.version => password = identity.stamp[3]

CallBound(k) ==
  /\ k.at = "confirm" => Bound(k.doc.version, k.doc.since)
  /\ k.at \in {"recheck", "issue"} => Bound(k.mine.version, k.mine.stamp[3])
  /\ k.at = "ensure" => k.since <= account.password
  /\ k.at = "recheck" =>
       k.since <= k.mine.stamp[3] /\ k.mine.stamp[3] <= account.password
  /\ k.at = "issue" => k.since = k.mine.stamp[3]

SessionsOK ==
  /\ Bound(challenge.version, challenge.since)
  /\ \A i \in DOMAIN auths : Bound(auths[i].version, auths[i].since)
  /\ \A c \in Calls : CallBound(calls[c])

IInv ==
  /\ TypeOK /\ HandsOK /\ IdentityOK /\ RequestsOK /\ CodesOK /\ SessionsOK
-----------------------------------------------------------------------------
(* Types *)

LEMMA IdleType == Idle \in Call
BY LoginAssumption DEF Idle, Call, Keyless, WithKey, Challenge, NoChallenge,
  ChallengeStatuses

LEMMA InitIdentity ==
  Init => TypeOK /\ HandsOK /\ IdentityOK
<1> SUFFICES ASSUME Init PROVE TypeOK /\ HandsOK /\ IdentityOK
  OBVIOUS
<1>1. account \in Account
  BY DEF Init, Account
<1>2. StatusOf(account) \in Usable
  <2>1. ~account.blocked /\ (account.employee => account.active)
    BY DEF Init
  <2> QED BY <2>1 DEF StatusOf, Usable
<1>3. identity \in Identity /\ Sound(identity)
  <2>1. StatusOf(account) \in Statuses /\ StampOf(account) \in Statuses \X Nat \X Nat
        /\ StampOf(account)[1] = StatusOf(account)
    BY <1>1, StatusTypes
  <2>2. identity = [status |-> StatusOf(account), version |-> 1,
                   stamp |-> StampOf(account), seen |-> StatusOf(account),
                   previous |-> "none"]
    BY DEF Init
  <2>3. Usable \cap Restricted = {}
    BY DEF Usable, Restricted
  <2> QED BY <1>2, <2>1, <2>2, <2>3 DEF Identity, Sound
<1>4. challenge \in Challenge
  BY LoginAssumption DEF Init, NoChallenge, Challenge, ChallengeStatuses
<1>5. calls \in [Calls -> Call] /\ \A c \in Calls : calls[c] = Idle
  BY IdleType DEF Init
<1>6. \A c \in Calls : calls[c].at = "idle" /\ calls[c].key = None
  BY <1>5 DEF Idle
<1> QED
  BY <1>1, <1>3, <1>4, <1>5, <1>6, LoginAssumption
  DEF Init, TypeOK, HandsOK, HandOK, IdentityOK, RowStatuses, WithKey

CallsTyped ==
  /\ calls \in [Calls -> Call]
  /\ \A c \in Calls : calls[c].at \in WithKey <=> calls[c].key # None

LEMMA CallBecomes ==
  ASSUME CallsTyped, NEW c \in Calls, NEW r \in Call,
         r.at \in WithKey <=> r.key # None,
         calls' = [calls EXCEPT ![c] = r]
  PROVE  CallsTyped'
BY DEF CallsTyped

LEMMA EndsType ==
  ASSUME CallsTyped, NEW c \in Calls, Ends(c)
  PROVE  CallsTyped'
<1>1. Idle.at \notin WithKey /\ Idle.key = None
  BY DEF Idle, WithKey
<1> QED BY <1>1, IdleType, CallBecomes DEF Ends

LEMMA GoesToType ==
  ASSUME CallsTyped, NEW c \in Calls, NEW place \in WithKey \cup Keyless,
         place \in WithKey <=> calls[c].at \in WithKey, GoesTo(c, place)
  PROVE  CallsTyped'
<1> DEFINE r == [calls[c] EXCEPT !.at = place]
<1>1. calls[c] \in Call
  BY DEF CallsTyped
<1>2. r \in Call /\ r.at = place /\ r.key = calls[c].key
  BY <1>1 DEF Call
<1>3. calls' = [calls EXCEPT ![c] = r]
  BY DEF GoesTo, CallsTyped
<1> HIDE DEF r
<1> QED BY <1>2, <1>3, CallBecomes DEF CallsTyped

LEMMA ForgetsType ==
  ASSUME CallsTyped, NEW c \in Calls, NEW place \in WithKey,
         calls[c].at \in WithKey, Forgets(c, place)
  PROVE  CallsTyped'
<1> DEFINE r == [Idle EXCEPT !.at = place, !.key = calls[c].key]
<1>1. calls[c].key \in Keys /\ calls[c].key # None
  BY LoginAssumption DEF CallsTyped, Call
<1>2. r \in Call /\ r.at = place /\ r.key = calls[c].key
  BY <1>1, IdleType DEF Call, Idle
<1>3. calls' = [calls EXCEPT ![c] = r]
  BY DEF Forgets
<1> HIDE DEF r
<1> QED BY <1>1, <1>2, <1>3, CallBecomes

\* What a step leaves alone keeps its type.
LEMMA RestTyped ==
  ASSUME TypeOK, CallsTyped',
         account' \in Account, identity' \in Identity, challenge' \in Challenge,
         rows' \in [Keys -> RowStatuses], auths' \in Seq(Session),
         guesses' \in Seq(Nat), Len(guesses') <= MaxCodes,
         sent' \in [Keys -> Nat], events' \in 0 .. MaxEvents
  PROVE  TypeOK'
BY DEF TypeOK, CallsTyped

LEMMA EventsType ==
  ASSUME TypeOK, Happens
  PROVE  events' \in 0 .. MaxEvents
BY LoginAssumption DEF TypeOK, Happens

LEMMA IssuesType ==
  ASSUME TypeOK, Issues
  PROVE  /\ guesses' \in Seq(Nat) /\ Len(guesses') <= MaxCodes
         /\ Len(guesses') = Len(guesses) + 1 /\ Len(guesses') \in 1 .. MaxCodes
         /\ guesses'[Len(guesses')] = 0
         /\ \A code \in DOMAIN guesses : guesses'[code] = guesses[code]
         /\ DOMAIN guesses = 1 .. Len(guesses)
         /\ DOMAIN guesses' = 1 .. Len(guesses')
BY LoginAssumption DEF TypeOK, Issues

LEMMA CountedType ==
  ASSUME NEW s \in Seq(Nat), NEW i
  PROVE  /\ [s EXCEPT ![i] = @ + 1] \in Seq(Nat)
         /\ Len([s EXCEPT ![i] = @ + 1]) = Len(s)
<1> DEFINE t == [s EXCEPT ![i] = @ + 1]
<1>1. s \in [1 .. Len(s) -> Nat] /\ Len(s) \in Nat
  OBVIOUS
<1>2. t \in [1 .. Len(s) -> Nat]
  <2>1. CASE i \in 1 .. Len(s)
    BY <1>1, <2>1
  <2>2. CASE i \notin 1 .. Len(s)
    <3>1. DOMAIN t = 1 .. Len(s) /\ t = [j \in DOMAIN s |-> IF j = i THEN s[i] + 1 ELSE s[j]]
      BY <1>1
    <3>2. \A j \in 1 .. Len(s) : t[j] = s[j]
      BY <1>1, <2>2, <3>1
    <3>3. t = s
      BY <1>1, <3>1, <3>2
    <3> QED BY <1>1, <3>3
  <2> QED BY <2>1, <2>2
<1>3. \A q \in [1 .. Len(s) -> Nat] : q \in Seq(Nat) /\ Len(q) = Len(s)
  BY <1>1
<1> HIDE DEF t
<1>4. t \in Seq(Nat) /\ Len(t) = Len(s)
  BY <1>2, <1>3
<1> QED BY <1>4 DEF t

LEMMA LookedUp ==
  ASSUME TypeOK, IdentityOK
  PROVE  /\ Refresh(identity) \in Identity /\ Sound(Refresh(identity))
         /\ Refresh(identity).stamp = StampOf(account)
         /\ Refresh(identity).seen = StatusOf(account)
         /\ Refresh(identity) = identity
            \/ Refresh(identity).version = identity.version + 1
         /\ Refresh(identity).status \in Usable <=> StatusOf(account) \in Usable
BY RefreshIs DEF TypeOK, IdentityOK

LEMMA TypeStep ==
  ASSUME TypeOK, HandsOK, IdentityOK, [Next]_vars
  PROVE  TypeOK'
<1> USE LoginAssumption
<1>0. /\ CallsTyped /\ account \in Account /\ identity \in Identity
      /\ challenge \in Challenge /\ rows \in [Keys -> RowStatuses]
      /\ auths \in Seq(Session) /\ guesses \in Seq(Nat)
      /\ Len(guesses) <= MaxCodes /\ sent \in [Keys -> Nat]
      /\ events \in 0 .. MaxEvents
  BY DEF TypeOK, CallsTyped
<1>r. Refresh(identity) \in Identity
  BY LookedUp
<1>1. ASSUME NEW c \in Calls, NEW k \in Keys, Dispatch(c, k) PROVE TypeOK'
  <2> DEFINE r == [Idle EXCEPT !.at = "reserve", !.key = k]
  <2>1. r \in Call /\ r.at \in WithKey /\ r.key # None
    BY IdleType DEF Idle, Call, WithKey
  <2>2. calls' = [calls EXCEPT ![c] = r]
    BY <1>1 DEF Dispatch
  <2> HIDE DEF r
  <2>3. CallsTyped'
    BY <1>0, <2>1, <2>2, CallBecomes
  <2> QED BY <1>0, <1>1, <2>3, RestTyped DEF Dispatch
<1>2. ASSUME NEW c \in Calls, Reserve(c) PROVE TypeOK'
  <2>1. CallsTyped'
    BY <1>0, <1>2, EndsType, GoesToType DEF Reserve, WithKey, Keyless
  <2>2. rows' \in [Keys -> RowStatuses]
    BY <1>0, <1>2 DEF Reserve, RowStatuses
  <2> QED BY <1>0, <1>2, <2>1, <2>2, RestTyped DEF Reserve
<1>3. ASSUME NEW c \in Calls, StartCodeChallenge(c) PROVE TypeOK'
  <2>1. CallsTyped'
    BY <1>0, <1>3, GoesToType DEF StartCodeChallenge, WithKey, Keyless
  <2>2. CASE Refresh(identity).status \in Usable
    <3>1. guesses' \in Seq(Nat) /\ Len(guesses') <= MaxCodes /\ Len(guesses') \in 0 .. MaxCodes
      BY <1>3, <2>2, IssuesType DEF StartCodeChallenge
    <3>2. Refresh(identity).version \in Nat /\ account.password \in Nat
      BY <1>0, <1>r DEF Identity, Account
    <3>3. challenge' = [status |-> "dispatch_pending", code |-> Len(guesses'),
                        attempts |-> 0, version |-> Refresh(identity).version,
                        since |-> account.password, lapsed |-> FALSE]
      BY <1>3, <2>2 DEF StartCodeChallenge, NoChallenge
    <3>4. challenge' \in Challenge
      BY <3>1, <3>2, <3>3 DEF Challenge, ChallengeStatuses
    <3> QED BY <1>0, <1>r, <1>3, <2>1, <3>1, <3>4, RestTyped DEF StartCodeChallenge
  <2>3. CASE Refresh(identity).status \notin Usable
    BY <1>0, <1>r, <1>3, <2>1, <2>3, RestTyped DEF StartCodeChallenge
  <2> QED BY <2>2, <2>3
<1>4. ASSUME NEW c \in Calls, LoadForResend(c) PROVE TypeOK'
  <2>1. CallsTyped'
    <3> DEFINE r == [calls[c] EXCEPT !.at = "check", !.doc = challenge]
    <3>1. calls[c] \in Call /\ calls[c].key # None
      BY <1>0, <1>4 DEF CallsTyped, LoadForResend, WithKey
    <3>2. r \in Call /\ r.at \in WithKey /\ r.key # None
      BY <1>0, <3>1 DEF Call, WithKey
    <3>3. GoesTo(c, "fail") \/ calls' = [calls EXCEPT ![c] = r]
      BY <1>0, <1>4 DEF LoadForResend, CallsTyped
    <3> HIDE DEF r
    <3> QED BY <1>0, <1>4, <3>2, <3>3, CallBecomes, GoesToType
        DEF LoadForResend, WithKey, Keyless
  <2> QED BY <1>0, <1>4, <2>1, EventsType, RestTyped DEF LoadForResend
<1>5. ASSUME NEW c \in Calls, CheckIdentity(c) PROVE TypeOK'
  <2>1. CallsTyped'
    BY <1>0, <1>5, GoesToType, ForgetsType DEF CheckIdentity, WithKey, Keyless
  <2> QED BY <1>0, <1>r, <1>5, <2>1, RestTyped DEF CheckIdentity
<1>6. ASSUME NEW c \in Calls, SaveResend(c) PROVE TypeOK'
  <2>1. CallsTyped'
    BY <1>0, <1>6, ForgetsType DEF SaveResend, WithKey
  <2>2. guesses' \in Seq(Nat) /\ Len(guesses') <= MaxCodes /\ Len(guesses') \in 0 .. MaxCodes
    BY <1>6, IssuesType DEF SaveResend
  <2>3. challenge' \in Challenge
    <3> DEFINE st == IF calls[c].doc.status = "dispatch_pending"
                     THEN challenge.status ELSE "dispatch_pending"
               at == IF calls[c].doc.attempts = 0 THEN challenge.attempts ELSE 0
               n == Len(guesses')
    <3>1. st \in ChallengeStatuses /\ at \in 0 .. MaxAttempts
          /\ n \in 0 .. MaxCodes
      BY <1>0, <2>2 DEF Challenge, ChallengeStatuses
    <3>2. challenge' = [challenge EXCEPT !.status = st, !.code = n,
                                         !.attempts = at, !.lapsed = FALSE]
      BY <1>6 DEF SaveResend
    <3> HIDE DEF st, at, n
    <3>3. challenge' = [status |-> st, code |-> n, attempts |-> at,
                        version |-> challenge.version, since |-> challenge.since,
                        lapsed |-> FALSE]
      BY <1>0, <3>2 DEF Challenge
    <3>4. challenge.version \in Nat /\ challenge.since \in Nat
      BY <1>0 DEF Challenge
    <3> QED BY <3>1, <3>3, <3>4 DEF Challenge
  <2> QED BY <1>0, <1>6, <2>1, <2>2, <2>3, RestTyped DEF SaveResend
<1>7. ASSUME NEW c \in Calls, SendCode(c) PROVE TypeOK'
  <2>1. CallsTyped'
    BY <1>0, <1>7, GoesToType DEF SendCode, WithKey, Keyless
  <2>2. sent' \in [Keys -> Nat]
    BY <1>0, <1>7 DEF SendCode
  <2> QED BY <1>0, <1>r, <1>7, <2>1, <2>2, RestTyped DEF SendCode
<1>8. ASSUME NEW c \in Calls, MarkSent(c) PROVE TypeOK'
  <2>1. CallsTyped'
    BY <1>0, <1>8, GoesToType DEF MarkSent, WithKey, Keyless
  <2>2. challenge' \in Challenge
    <3> DEFINE st == IF challenge.status = "dispatch_pending"
                     THEN "awaiting_code" ELSE challenge.status
    <3>1. st \in ChallengeStatuses
      BY <1>0 DEF Challenge, ChallengeStatuses
    <3>2. challenge' = [challenge EXCEPT !.status = st]
      BY <1>8 DEF MarkSent
    <3> HIDE DEF st
    <3> QED BY <1>0, <3>1, <3>2 DEF Challenge
  <2> QED BY <1>0, <1>8, <2>1, <2>2, RestTyped DEF MarkSent
<1>9. ASSUME NEW c \in Calls, StoreAnswer(c) PROVE TypeOK'
  <2>1. CallsTyped'
    BY <1>0, <1>9, GoesToType, EndsType DEF StoreAnswer, WithKey, Keyless
  <2>2. rows' \in [Keys -> RowStatuses]
    BY <1>0, <1>9 DEF StoreAnswer, RowStatuses
  <2>3. events' \in 0 .. MaxEvents
    BY <1>0, <1>9, EventsType DEF StoreAnswer
  <2> QED BY <1>0, <1>9, <2>1, <2>2, <2>3, RestTyped DEF StoreAnswer
<1>10. ASSUME NEW c \in Calls, StoreFailure(c) PROVE TypeOK'
  <2>1. CallsTyped'
    BY <1>0, <1>10, EndsType DEF StoreFailure
  <2>2. rows' \in [Keys -> RowStatuses]
    BY <1>0, <1>10 DEF StoreFailure, RowStatuses
  <2> QED BY <1>0, <1>10, <2>1, <2>2, RestTyped DEF StoreFailure
<1>11. ASSUME NEW c \in Calls, LoadForVerify(c) PROVE TypeOK'
  <2> DEFINE r == [Idle EXCEPT !.at = "verify", !.doc.code = challenge.code]
  <2>1. r \in Call /\ r.at \notin WithKey /\ r.key = None
    BY <1>0, IdleType DEF Idle, Call, WithKey, Keyless, Challenge, NoChallenge
  <2>2. calls' = [calls EXCEPT ![c] = r]
    BY <1>11 DEF LoadForVerify
  <2> HIDE DEF r
  <2>3. CallsTyped'
    BY <1>0, <2>1, <2>2, CallBecomes
  <2> QED BY <1>0, <1>11, <2>3, RestTyped DEF LoadForVerify
<1>12. ASSUME NEW c \in Calls, Guess(c) PROVE TypeOK'
  <2>1. CallsTyped'
    BY <1>0, <1>12, GoesToType, EndsType DEF Guess, WithKey, Keyless
  <2>2. challenge' \in Challenge
    <3>1. CASE ~MayAttempt(c)
      BY <1>0, <1>12, <3>1 DEF Guess
    <3>2. CASE MayAttempt(c)
      <4> DEFINE n == challenge.attempts + 1
      <4>1. n \in 0 .. MaxAttempts
        BY <1>0, <3>2 DEF MayAttempt, Challenge
      <4>2. challenge' = [challenge EXCEPT !.attempts = n]
        BY <1>12, <3>2 DEF Guess
      <4> HIDE DEF n
      <4> QED BY <1>0, <4>1, <4>2 DEF Challenge
    <3> QED BY <3>1, <3>2
  <2>3. guesses' \in Seq(Nat) /\ Len(guesses') = Len(guesses)
    <3>1. guesses' = guesses
          \/ guesses' = [guesses EXCEPT ![calls[c].doc.code] = @ + 1]
      BY <1>12 DEF Guess
    <3> QED BY <1>0, <3>1, CountedType
  <2> QED BY <1>0, <1>12, <2>1, <2>2, <2>3, RestTyped DEF Guess
<1>13. ASSUME NEW c \in Calls, BeginConsume(c) PROVE TypeOK'
  <2>1. CallsTyped'
    <3> DEFINE r == [calls[c] EXCEPT !.at = "confirm", !.doc = challenge,
                                     !.mine = Refresh(identity), !.read = identity]
    <3>1. calls[c] \in Call /\ calls[c].key = None
      BY <1>0, <1>13 DEF CallsTyped, BeginConsume, WithKey
    <3>2. r \in Call /\ r.at \notin WithKey /\ r.key = None
      BY <1>0, <1>r, <3>1 DEF Call, WithKey, Keyless
    <3>3. Ends(c) \/ calls' = [calls EXCEPT ![c] = r]
      BY <1>0, <1>13 DEF BeginConsume, CallsTyped
    <3> HIDE DEF r
    <3> QED BY <1>0, <3>2, <3>3, CallBecomes, EndsType
  <2> QED BY <1>0, <1>13, <2>1, RestTyped DEF BeginConsume
<1>14. ASSUME NEW c \in Calls, Consume(c) PROVE TypeOK'
  <2>1. CallsTyped'
    BY <1>0, <1>14, EndsType DEF Consume
  <2>2. calls[c].mine \in Identity /\ Sound(calls[c].mine) /\ calls[c] \in Call
    BY <1>0, <1>14 DEF Consume, HandsOK, HandOK, CallsTyped
  <2>3. Refresh(calls[c].mine) \in Identity
    BY <1>0, <2>2, RefreshIs
  <2>4. identity' \in Identity
    BY <1>14, <2>3 DEF Consume, Identity, Statuses, Usable
  <2>5. challenge' \in Challenge
    BY <1>0, <1>14 DEF Consume, Challenge, ChallengeStatuses
  <2>6. [version |-> calls[c].mine.version, since |-> calls[c].doc.since,
         code |-> calls[c].doc.code] \in Session
    BY <2>2 DEF Call, Challenge, Identity, Session
  <2>7. auths' \in Seq(Session)
    BY <1>0, <1>14, <2>6 DEF Consume
  <2> QED BY <1>0, <1>14, <2>1, <2>4, <2>5, <2>7, RestTyped DEF Consume
<1>15. ASSUME NEW c \in Calls, ConsumeAgain(c) PROVE TypeOK'
  <2>1. CallsTyped'
    <3> DEFINE r == [Idle EXCEPT !.at = "consume", !.doc.code = calls[c].doc.code]
    <3>1. calls[c].doc.code \in 0 .. MaxCodes
      BY <1>0 DEF CallsTyped, Call, Challenge
    <3>2. r \in Call /\ r.at \notin WithKey /\ r.key = None
      BY <3>1, IdleType DEF Idle, Call, WithKey, Keyless, Challenge, NoChallenge
    <3>3. Ends(c) \/ calls' = [calls EXCEPT ![c] = r]
      BY <1>15 DEF ConsumeAgain
    <3> HIDE DEF r
    <3> QED BY <1>0, <3>2, <3>3, CallBecomes, EndsType
  <2> QED BY <1>0, <1>15, <2>1, RestTyped DEF ConsumeAgain
<1>16. ASSUME NEW c \in Calls, LoadForPoll(c) PROVE TypeOK'
  <2> DEFINE r == [Idle EXCEPT !.at = "poll"]
  <2>1. r \in Call /\ r.at \notin WithKey /\ r.key = None
    BY IdleType DEF Idle, Call, WithKey, Keyless
  <2>2. calls' = [calls EXCEPT ![c] = r]
    BY <1>16 DEF LoadForPoll
  <2> HIDE DEF r
  <2>3. CallsTyped'
    BY <1>0, <2>1, <2>2, CallBecomes
  <2> QED BY <1>0, <1>16, <2>3, RestTyped DEF LoadForPoll
<1>17. ASSUME NEW c \in Calls, SavePoll(c) PROVE TypeOK'
  <2>1. CallsTyped'
    BY <1>0, <1>17, EndsType DEF SavePoll
  <2>2. challenge' \in Challenge
    BY <1>0, <1>17 DEF SavePoll, Challenge, ChallengeStatuses
  <2> QED BY <1>0, <1>17, <2>1, <2>2, RestTyped DEF SavePoll
<1>18. ASSUME NEW c \in Calls, FindUser(c) PROVE TypeOK'
  <2> DEFINE r == [Idle EXCEPT !.at = "ensure", !.version = account.version,
                               !.since = account.password]
  <2>1. r \in Call /\ r.at \notin WithKey /\ r.key = None
    BY <1>0, IdleType DEF Idle, Call, WithKey, Keyless, Account
  <2>2. calls' = [calls EXCEPT ![c] = r]
    BY <1>18 DEF FindUser
  <2> HIDE DEF r
  <2>3. CallsTyped'
    BY <1>0, <2>1, <2>2, CallBecomes
  <2> QED BY <1>0, <1>r, <1>18, <2>3, EventsType, RestTyped DEF FindUser
<1>19. ASSUME NEW c \in Calls, EnsureFromUser(c) PROVE TypeOK'
  <2> DEFINE r == [calls[c] EXCEPT !.at = "recheck", !.mine = Refresh(identity)]
  <2>1. calls[c] \in Call /\ calls[c].key = None
    BY <1>0, <1>19 DEF CallsTyped, EnsureFromUser, WithKey
  <2>2. r \in Call /\ r.at \notin WithKey /\ r.key = None
    BY <1>r, <2>1 DEF Call, WithKey, Keyless
  <2>3. calls' = [calls EXCEPT ![c] = r]
    BY <1>0, <1>19 DEF EnsureFromUser, CallsTyped
  <2> HIDE DEF r
  <2>4. CallsTyped'
    BY <1>0, <2>2, <2>3, CallBecomes
  <2> QED BY <1>0, <1>r, <1>19, <2>4, RestTyped DEF EnsureFromUser
<1>20. ASSUME NEW c \in Calls, RecheckUser(c) PROVE TypeOK'
  <2>1. CallsTyped'
    BY <1>0, <1>20, GoesToType, EndsType DEF RecheckUser, WithKey, Keyless
  <2> QED BY <1>0, <1>r, <1>20, <2>1, RestTyped DEF RecheckUser
<1>21. ASSUME NEW c \in Calls, IssueAuthentication(c) PROVE TypeOK'
  <2>1. CallsTyped'
    BY <1>0, <1>21, EndsType DEF IssueAuthentication
  <2>2. calls[c].mine \in Identity /\ calls[c] \in Call
    BY <1>0, <1>21 DEF IssueAuthentication, HandsOK, HandOK, CallsTyped
  <2>3. [version |-> calls[c].mine.version, since |-> calls[c].since, code |-> 0] \in Session
    BY <2>2 DEF Call, Identity, Session
  <2>4. auths' \in Seq(Session)
    BY <1>0, <1>21, <2>3 DEF IssueAuthentication
  <2> QED BY <1>0, <1>21, <2>1, <2>4, RestTyped DEF IssueAuthentication
<1>22. ASSUME NEW c \in Calls, LoadAccount(c) PROVE TypeOK'
  <2>1. PICK edit \in Edits : calls' = [calls EXCEPT ![c] =
          [Idle EXCEPT !.at = "edit", !.edit = edit,
             !.version = IF Bumps(edit) THEN account.version + 1 ELSE 0]]
    BY <1>22 DEF LoadAccount
  <2> DEFINE v == IF Bumps(edit) THEN account.version + 1 ELSE 0
             r == [Idle EXCEPT !.at = "edit", !.edit = edit, !.version = v]
  <2>2. v \in Nat
    BY <1>0 DEF Account
  <2>3. calls' = [calls EXCEPT ![c] = r]
    BY <2>1
  <2> HIDE DEF v
  <2>4. r \in Call /\ r.at \notin WithKey /\ r.key = None
    BY <2>2, IdleType DEF Idle, Call, WithKey, Keyless
  <2> HIDE DEF r
  <2>5. CallsTyped'
    BY <1>0, <2>3, <2>4, CallBecomes
  <2> QED BY <1>0, <1>22, <2>5, EventsType, RestTyped DEF LoadAccount
<1>23. ASSUME NEW c \in Calls, SaveAccount(c) PROVE TypeOK'
  <2>1. CallsTyped'
    BY <1>0, <1>23, EndsType DEF SaveAccount
  <2>2. calls[c].version \in Nat
    BY <1>0 DEF CallsTyped, Call
  <2>3. account' \in Account
    <3> DEFINE e == calls[c].edit
               bl == (account.blocked \/ e = "block") /\ e # "unblock"
               ac == (account.active \/ e = "activate") /\ e # "deactivate"
               pw == IF e = "password" THEN account.password + 1 ELSE account.password
               ve == IF calls[c].version = 0 THEN account.version ELSE calls[c].version
    <3>1. bl \in BOOLEAN /\ ac \in BOOLEAN /\ pw \in Nat /\ ve \in Nat
      BY <1>0, <2>2 DEF Account
    <3>2. account' = [account EXCEPT !.blocked = bl, !.active = ac,
                                     !.password = pw, !.version = ve]
      BY <1>23 DEF SaveAccount
    <3> HIDE DEF bl, ac, pw, ve
    <3> QED BY <1>0, <3>1, <3>2 DEF Account
  <2> QED BY <1>0, <1>23, <2>1, <2>3, RestTyped DEF SaveAccount
<1>24. ASSUME NEW c \in Calls, Crash(c) PROVE TypeOK'
  <2>1. CallsTyped'
    BY <1>0, <1>24, EndsType DEF Crash
  <2> QED BY <1>0, <1>24, <2>1, EventsType, RestTyped DEF Crash
<1>25. CASE LookUp
  BY <1>0, <1>r, <1>25, RestTyped DEF LookUp, CallsTyped
<1>26. CASE ChallengeLapses
  <2>1. challenge' \in Challenge
    BY <1>0, <1>26 DEF ChallengeLapses, Challenge
  <2> QED BY <1>0, <1>26, <2>1, RestTyped DEF ChallengeLapses, CallsTyped
<1>27. CASE ConfirmPasswordReset
  <2>1. account' \in Account
    <3> DEFINE pw == account.password + 1
               ve == account.version + 1
    <3>1. pw \in Nat /\ ve \in Nat
      BY <1>0 DEF Account
    <3>2. account' = [account EXCEPT !.password = pw, !.version = ve]
      BY <1>27 DEF ConfirmPasswordReset
    <3> HIDE DEF pw, ve
    <3> QED BY <1>0, <3>1, <3>2 DEF Account
  <2> QED BY <1>0, <1>27, <2>1, EventsType, RestTyped DEF ConfirmPasswordReset, CallsTyped
<1>28. CASE UNCHANGED vars
  BY <1>0, <1>28, RestTyped DEF vars, CallsTyped
<1> QED
  BY <1>1, <1>2, <1>3, <1>4, <1>5, <1>6, <1>7, <1>8, <1>9, <1>10, <1>11, <1>12,
     <1>13, <1>14, <1>15, <1>16, <1>17, <1>18, <1>19, <1>20, <1>21, <1>22, <1>23,
     <1>24, <1>25, <1>26, <1>27, <1>28
  DEF Next, Sending, Verifying, Polling, ByPassword, Editing

-----------------------------------------------------------------------------
(* What a step does to the calls, the identity and the password *)

Plain(k) == k.at \notin {"confirm", "ensure", "recheck", "issue"}

\* One call changes, and holds nothing that may buy a session; or it is one
\* of four steps.
OtherCalls(c) == \A d \in Calls \ {c} : calls'[d] = calls[d]

LEMMA CallIs ==
  ASSUME CallsTyped, NEW c \in Calls, NEW r, calls' = [calls EXCEPT ![c] = r]
  PROVE  calls'[c] = r /\ OtherCalls(c)
BY DEF CallsTyped, OtherCalls

LEMMA EndsIs ==
  ASSUME CallsTyped, NEW c \in Calls, Ends(c)
  PROVE  calls'[c].at = "idle" /\ OtherCalls(c)
<1>1. calls'[c] = Idle /\ OtherCalls(c)
  BY CallIs DEF Ends
<1> QED BY <1>1 DEF Idle

LEMMA GoesToIs ==
  ASSUME CallsTyped, NEW c \in Calls, NEW place, GoesTo(c, place)
  PROVE  /\ OtherCalls(c)
         /\ calls'[c].at = place /\ calls'[c].key = calls[c].key
         /\ calls'[c].mine = calls[c].mine /\ calls'[c].since = calls[c].since
<1> DEFINE r == [calls[c] EXCEPT !.at = place]
<1>1. calls' = [calls EXCEPT ![c] = r] /\ calls[c] \in Call
  BY DEF GoesTo, CallsTyped
<1>2. /\ r.at = place /\ r.key = calls[c].key
      /\ r.mine = calls[c].mine /\ r.since = calls[c].since
  BY <1>1 DEF Call
<1> HIDE DEF r
<1> QED BY <1>1, <1>2, CallIs

LEMMA ForgetsIs ==
  ASSUME CallsTyped, NEW c \in Calls, NEW place, Forgets(c, place)
  PROVE  /\ OtherCalls(c)
         /\ calls'[c].at = place /\ calls'[c].key = calls[c].key
<1> DEFINE r == [Idle EXCEPT !.at = place, !.key = calls[c].key]
<1>1. calls' = [calls EXCEPT ![c] = r]
  BY DEF Forgets
<1>2. r.at = place /\ r.key = calls[c].key
  BY DEF Idle
<1> HIDE DEF r
<1> QED BY <1>1, <1>2, CallIs

Ordinary ==
  \/ calls' = calls
  \/ \E c \in Calls : OtherCalls(c) /\ Plain(calls'[c])

LEMMA CallsStep ==
  ASSUME TypeOK, [Next]_vars
  PROVE  \/ Ordinary
         \/ \E c \in Calls :
              \/ calls'[c].at = "confirm" /\ BeginConsume(c)
              \/ FindUser(c)
              \/ EnsureFromUser(c)
              \/ calls'[c].at = "issue" /\ RecheckUser(c)
<1> DEFINE Goal == \/ Ordinary
                   \/ \E c \in Calls :
                        \/ calls'[c].at = "confirm" /\ BeginConsume(c)
                        \/ FindUser(c)
                        \/ EnsureFromUser(c)
                        \/ calls'[c].at = "issue" /\ RecheckUser(c)
<1>0. CallsTyped
  BY DEF TypeOK, CallsTyped
<1>1. ASSUME NEW c \in Calls, NEW k \in Keys, Dispatch(c, k) PROVE Ordinary
  <2>1. calls'[c] = [Idle EXCEPT !.at = "reserve", !.key = k] /\ OtherCalls(c)
    BY <1>0, <1>1, CallIs DEF Dispatch
  <2>2. calls'[c].at = "reserve"
    BY <2>1 DEF Idle
  <2> QED BY <2>1, <2>2 DEF Ordinary, Plain
<1>2. ASSUME NEW c \in Calls,
             Reserve(c) \/ StartCodeChallenge(c) \/ SendCode(c) \/ MarkSent(c)
             \/ StoreAnswer(c) \/ StoreFailure(c) \/ Guess(c) \/ Consume(c)
             \/ SavePoll(c) \/ IssueAuthentication(c) \/ SaveAccount(c) \/ Crash(c)
      PROVE  Ordinary
  <2>1. \/ Ends(c)
        \/ \E p \in {"start", "load", "send", "answer", "mark", "fail", "consume"} :
             GoesTo(c, p)
    BY <1>2 DEF Reserve, StartCodeChallenge, SendCode, MarkSent, StoreAnswer,
      StoreFailure, Guess, Consume, SavePoll, IssueAuthentication, SaveAccount, Crash
  <2>2. CASE Ends(c)
    BY <1>0, <2>2, EndsIs DEF Ordinary, Plain
  <2>3. ASSUME NEW p \in {"start", "load", "send", "answer", "mark", "fail", "consume"},
               GoesTo(c, p)
        PROVE  Ordinary
    <3>1. calls'[c].at = p /\ OtherCalls(c)
      BY <1>0, <2>3, GoesToIs
    <3> QED BY <3>1 DEF Ordinary, Plain
  <2> QED BY <2>1, <2>2, <2>3
<1>3. ASSUME NEW c \in Calls, CheckIdentity(c) \/ SaveResend(c) PROVE Ordinary
  <2>1. \/ GoesTo(c, "save")
        \/ \E p \in {"fail", "send"} : Forgets(c, p)
    BY <1>3 DEF CheckIdentity, SaveResend
  <2>2. CASE GoesTo(c, "save")
    BY <1>0, <2>2, GoesToIs DEF Ordinary, Plain
  <2>3. ASSUME NEW p \in {"fail", "send"}, Forgets(c, p) PROVE Ordinary
    <3>1. calls'[c].at = p /\ OtherCalls(c)
      BY <1>0, <2>3, ForgetsIs
    <3> QED BY <3>1 DEF Ordinary, Plain
  <2> QED BY <2>1, <2>2, <2>3
<1>4. ASSUME NEW c \in Calls, LoadForResend(c) PROVE Ordinary
  <2> DEFINE r == [calls[c] EXCEPT !.at = "check", !.doc = challenge]
  <2>1. GoesTo(c, "fail") \/ calls' = [calls EXCEPT ![c] = r]
    BY <1>0, <1>4 DEF LoadForResend, CallsTyped
  <2>2. r.at = "check"
    BY <1>0 DEF CallsTyped, Call
  <2> HIDE DEF r
  <2>3. CASE GoesTo(c, "fail")
    BY <1>0, <2>3, GoesToIs DEF Ordinary, Plain
  <2>4. CASE calls' = [calls EXCEPT ![c] = r]
    BY <1>0, <2>2, <2>4, CallIs DEF Ordinary, Plain
  <2> QED BY <2>1, <2>3, <2>4
<1>5. ASSUME NEW c \in Calls, LoadForVerify(c) \/ LoadForPoll(c) PROVE Ordinary
  <2>1. /\ OtherCalls(c)
        /\ \/ calls'[c] = [Idle EXCEPT !.at = "verify", !.doc.code = challenge.code]
           \/ calls'[c] = [Idle EXCEPT !.at = "poll"]
    BY <1>0, <1>5, CallIs DEF LoadForVerify, LoadForPoll
  <2>2. calls'[c].at \in {"verify", "poll"}
    BY <2>1 DEF Idle
  <2> QED BY <2>1, <2>2 DEF Ordinary, Plain
<1>6. ASSUME NEW c \in Calls, BeginConsume(c) PROVE Goal
  <2> DEFINE r == [calls[c] EXCEPT !.at = "confirm", !.doc = challenge,
                                   !.mine = Refresh(identity), !.read = identity]
  <2>1. Ends(c) \/ calls' = [calls EXCEPT ![c] = r]
    BY <1>0, <1>6 DEF BeginConsume, CallsTyped
  <2>2. r.at = "confirm"
    BY <1>0 DEF CallsTyped, Call
  <2> HIDE DEF r
  <2>3. CASE Ends(c)
    BY <1>0, <2>3, EndsIs DEF Ordinary, Plain
  <2>4. CASE calls' = [calls EXCEPT ![c] = r]
    BY <1>0, <1>6, <2>2, <2>4, CallIs
  <2> QED BY <2>1, <2>3, <2>4
<1>7. ASSUME NEW c \in Calls, ConsumeAgain(c) PROVE Ordinary
  <2> DEFINE r == [Idle EXCEPT !.at = "consume", !.doc.code = calls[c].doc.code]
  <2>1. Ends(c) \/ calls' = [calls EXCEPT ![c] = r]
    BY <1>7 DEF ConsumeAgain
  <2>2. r.at = "consume"
    BY DEF Idle
  <2> HIDE DEF r
  <2>3. CASE Ends(c)
    BY <1>0, <2>3, EndsIs DEF Ordinary, Plain
  <2>4. CASE calls' = [calls EXCEPT ![c] = r]
    BY <1>0, <2>2, <2>4, CallIs DEF Ordinary, Plain
  <2> QED BY <2>1, <2>3, <2>4
<1>8. ASSUME NEW c \in Calls, RecheckUser(c) PROVE Goal
  <2>1. Ends(c) \/ GoesTo(c, "issue")
    BY <1>8 DEF RecheckUser
  <2>2. CASE Ends(c)
    BY <1>0, <2>2, EndsIs DEF Ordinary, Plain
  <2>3. CASE GoesTo(c, "issue")
    BY <1>0, <1>8, <2>3, GoesToIs
  <2> QED BY <2>1, <2>2, <2>3
<1>9. ASSUME NEW c \in Calls, LoadAccount(c) PROVE Ordinary
  <2>1. PICK edit \in Edits : calls' = [calls EXCEPT ![c] =
          [Idle EXCEPT !.at = "edit", !.edit = edit,
             !.version = IF Bumps(edit) THEN account.version + 1 ELSE 0]]
    BY <1>9 DEF LoadAccount
  <2>2. OtherCalls(c)
        /\ calls'[c] = [Idle EXCEPT !.at = "edit", !.edit = edit,
             !.version = IF Bumps(edit) THEN account.version + 1 ELSE 0]
    BY <1>0, <2>1, CallIs
  <2>3. calls'[c].at = "edit"
    BY <2>2 DEF Idle
  <2> QED BY <2>2, <2>3 DEF Ordinary, Plain
<1>10. CASE LookUp \/ ChallengeLapses \/ ConfirmPasswordReset \/ UNCHANGED vars
  BY <1>10 DEF LookUp, ChallengeLapses, ConfirmPasswordReset, vars, Ordinary
<1> QED
  BY <1>1, <1>2, <1>3, <1>4, <1>5, <1>6, <1>7, <1>8, <1>9, <1>10
  DEF Next, Sending, Verifying, Polling, ByPassword, Editing

LEMMA Grows ==
  ASSUME TypeOK, HandsOK, IdentityOK, [Next]_vars
  PROVE  /\ IdentityOK'
         /\ \/ identity.version < identity'.version
            \/ identity'.version = identity.version /\ identity'.stamp = identity.stamp
         /\ account.password <= account'.password
<1>0. account \in Account /\ identity \in Identity
  BY DEF TypeOK
<1>1. \/ UNCHANGED identity
      \/ identity' = Refresh(identity)
      \/ \E c \in Calls : Consume(c)
  BY DEF Next, Sending, Verifying, Polling, ByPassword, Editing, vars,
    Dispatch, Reserve, StartCodeChallenge, LoadForResend, CheckIdentity, SaveResend,
    SendCode, MarkSent, StoreAnswer, StoreFailure, LoadForVerify, Guess, BeginConsume,
    ConsumeAgain, LoadForPoll, SavePoll, FindUser, EnsureFromUser, RecheckUser,
    IssueAuthentication, LoadAccount, SaveAccount, Crash, LookUp, ChallengeLapses,
    ConfirmPasswordReset
<1>2. account.password <= account'.password
  <2>1. \/ UNCHANGED account
        \/ \E c \in Calls : SaveAccount(c)
        \/ ConfirmPasswordReset
    BY DEF Next, Sending, Verifying, Polling, ByPassword, Editing, vars,
      Dispatch, Reserve, StartCodeChallenge, LoadForResend, CheckIdentity, SaveResend,
      SendCode, MarkSent, StoreAnswer, StoreFailure, LoadForVerify, Guess, BeginConsume,
      Consume, ConsumeAgain, LoadForPoll, SavePoll, FindUser, EnsureFromUser,
      RecheckUser, IssueAuthentication, LoadAccount, Crash, LookUp, ChallengeLapses
  <2>2. account.password \in Nat
    BY <1>0 DEF Account
  <2>3. UNCHANGED account \/ account'.password \in {account.password, account.password + 1}
    BY <1>0, <2>1 DEF SaveAccount, ConfirmPasswordReset, Account
  <2> QED BY <2>2, <2>3
<1>3. identity.version \in Nat
  BY <1>0 DEF Identity
<1>4. CASE UNCHANGED identity
  BY <1>2, <1>4 DEF IdentityOK, Sound
<1>5. CASE identity' = Refresh(identity)
  BY <1>2, <1>3, <1>5, LookedUp DEF IdentityOK, Sound
<1>6. ASSUME NEW c \in Calls, Consume(c)
      PROVE  /\ IdentityOK'
             /\ \/ identity.version < identity'.version
                \/ identity'.version = identity.version /\ identity'.stamp = identity.stamp
  <2> DEFINE i == Refresh(calls[c].mine)
  <2>1. calls[c].mine = identity /\ Sound(identity)
    BY <1>6 DEF Consume, Conflict, HandsOK, HandOK, IdentityOK
  <2>2. /\ i \in Identity /\ Sound(i)
        /\ i = identity \/ i.version = identity.version + 1
    BY <1>0, <2>1, RefreshIs
  <2>3. identity' = [i EXCEPT !.status = "active"] /\ i.status \in Usable
    BY <1>6 DEF Consume
  <2> HIDE DEF i
  <2>4. /\ identity'.version = i.version /\ identity'.stamp = i.stamp
        /\ identity'.seen = i.seen /\ identity'.previous = i.previous
        /\ identity'.status = "active"
    BY <2>2, <2>3 DEF Identity
  <2>5. i.seen \in Usable /\ i.seen \notin Restricted /\ i.previous = "none"
    BY <2>2, <2>3 DEF Sound, Usable, Restricted, Identity, Statuses
  <2>6. IdentityOK'
    <3>1. i.stamp[1] = i.seen
      BY <2>2 DEF Sound
    <3> QED BY <2>4, <2>5, <3>1 DEF IdentityOK, Sound, Usable
  <2> QED BY <1>3, <2>2, <2>4, <2>6
<1> QED BY <1>1, <1>2, <1>4, <1>5, <1>6

\* The four steps after which a call has in hand what may buy a session.
LEMMA BeginIs ==
  ASSUME TypeOK, IdentityOK, SessionsOK,
         NEW c \in Calls, BeginConsume(c), calls'[c].at = "confirm"
  PROVE  /\ OtherCalls(c) /\ UNCHANGED <<account, identity, challenge, auths>>
         /\ calls'[c].doc = challenge /\ challenge.status = "awaiting_code"
         /\ calls'[c].mine = identity /\ calls'[c].read = identity
         /\ challenge.version = identity.version
<1> DEFINE i == Refresh(identity)
           r == [calls[c] EXCEPT !.at = "confirm", !.doc = challenge,
                                 !.mine = i, !.read = identity]
<1>0. CallsTyped /\ challenge \in Challenge /\ identity \in Identity
  BY DEF TypeOK, CallsTyped
<1>1. ~Ends(c)
  BY <1>0, EndsIs
<1>2. calls' = [calls EXCEPT ![c] = r] /\ Consumable(c) /\ Asserted(challenge, i)
  BY <1>0, <1>1 DEF BeginConsume, CallsTyped
<1>3. i = identity \/ i.version = identity.version + 1
  BY LookedUp
<1>4. i.version = challenge.version /\ challenge.version <= identity.version
  BY <1>2 DEF Asserted, SessionsOK, Bound
<1>5. i = identity
  BY <1>0, <1>3, <1>4 DEF Identity
<1>6. r.doc = challenge /\ r.mine = identity /\ r.read = identity
  BY <1>0, <1>5 DEF CallsTyped, Call
<1> HIDE DEF r
<1>7. calls'[c] = r /\ OtherCalls(c)
  BY <1>0, <1>2, CallIs
<1> QED BY <1>2, <1>4, <1>5, <1>6, <1>7 DEF BeginConsume, Consumable

LEMMA FindIs ==
  ASSUME TypeOK, NEW c \in Calls, FindUser(c)
  PROVE  /\ OtherCalls(c) /\ UNCHANGED <<account, challenge, auths>>
         /\ calls'[c].at = "ensure" /\ calls'[c].since = account.password
<1>0. CallsTyped
  BY DEF TypeOK, CallsTyped
<1>1. calls'[c] = [Idle EXCEPT !.at = "ensure", !.version = account.version,
                               !.since = account.password]
      /\ OtherCalls(c)
  BY <1>0, CallIs DEF FindUser
<1>2. calls'[c].at = "ensure" /\ calls'[c].since = account.password
  BY <1>1 DEF Idle
<1> QED BY <1>1, <1>2 DEF FindUser

LEMMA EnsureIs ==
  ASSUME TypeOK, IdentityOK, NEW c \in Calls, EnsureFromUser(c)
  PROVE  /\ OtherCalls(c) /\ UNCHANGED <<account, challenge, auths>>
         /\ calls[c].at = "ensure" /\ calls'[c].at = "recheck"
         /\ calls'[c].since = calls[c].since
         /\ calls'[c].mine = identity' /\ identity' \in Identity
         /\ identity'.stamp[3] = account.password
<1> DEFINE r == [calls[c] EXCEPT !.at = "recheck", !.mine = Refresh(identity)]
<1>0. CallsTyped /\ account \in Account
  BY DEF TypeOK, CallsTyped
<1>1. calls' = [calls EXCEPT ![c] = r] /\ identity' = Refresh(identity)
  BY <1>0 DEF EnsureFromUser, CallsTyped
<1>2. r.at = "recheck" /\ r.since = calls[c].since /\ r.mine = Refresh(identity)
  BY <1>0 DEF CallsTyped, Call
<1> HIDE DEF r
<1>3. calls'[c] = r /\ OtherCalls(c)
  BY <1>0, <1>1, CallIs
<1>4. identity' \in Identity /\ identity'.stamp = StampOf(account)
  BY <1>1, LookedUp
<1>5. identity'.stamp[3] = account.password
  BY <1>0, <1>4, StatusTypes
<1> QED BY <1>1, <1>2, <1>3, <1>4, <1>5 DEF EnsureFromUser

LEMMA RecheckIs ==
  ASSUME TypeOK, NEW c \in Calls, RecheckUser(c), calls'[c].at = "issue"
  PROVE  /\ OtherCalls(c) /\ UNCHANGED <<account, challenge, auths>>
         /\ calls[c].at = "recheck"
         /\ calls'[c].since = calls[c].since /\ calls'[c].mine = calls[c].mine
         /\ account.password = calls[c].since
<1>0. CallsTyped
  BY DEF TypeOK, CallsTyped
<1>1. ~Ends(c)
  BY <1>0, EndsIs
<1>2. GoesTo(c, "issue") /\ Unchanged(c)
  BY <1>1 DEF RecheckUser
<1> QED BY <1>0, <1>2, GoesToIs DEF RecheckUser, Unchanged

LEMMA HandsStep ==
  ASSUME TypeOK, HandsOK, IdentityOK, SessionsOK, [Next]_vars
  PROVE  HandsOK'
<1>0. identity \in Identity
  BY DEF TypeOK
<1>1. CASE Ordinary
  BY <1>1 DEF Ordinary, OtherCalls, HandsOK, HandOK, Plain
<1>2. ASSUME NEW c \in Calls, calls'[c].at = "confirm", BeginConsume(c) PROVE HandsOK'
  <2>1. HandOK(calls'[c])
    BY <1>0, <1>2, BeginIs DEF HandOK, IdentityOK
  <2> QED BY <1>2, <2>1, BeginIs DEF HandsOK, OtherCalls
<1>3. ASSUME NEW c \in Calls, FindUser(c) PROVE HandsOK'
  <2>1. HandOK(calls'[c])
    BY <1>3, FindIs DEF HandOK
  <2> QED BY <1>3, <2>1, FindIs DEF HandsOK, OtherCalls
<1>4. ASSUME NEW c \in Calls, EnsureFromUser(c) PROVE HandsOK'
  <2>1. HandOK(calls'[c])
    BY <1>4, EnsureIs DEF HandOK
  <2> QED BY <1>4, <2>1, EnsureIs DEF HandsOK, OtherCalls
<1>5. ASSUME NEW c \in Calls, calls'[c].at = "issue", RecheckUser(c) PROVE HandsOK'
  <2>1. HandOK(calls'[c])
    BY <1>5, RecheckIs DEF HandsOK, HandOK
  <2> QED BY <1>5, <2>1, RecheckIs DEF HandsOK, OtherCalls
<1> QED BY <1>1, <1>2, <1>3, <1>4, <1>5, CallsStep

-----------------------------------------------------------------------------
(* The password a session and the challenge stand for *)

LEMMA BoundGrows ==
  ASSUME TypeOK, HandsOK, IdentityOK, [Next]_vars,
         NEW v \in Nat, NEW p, Bound(v, p)
  PROVE  /\ v <= identity'.version
         /\ v = identity'.version => p = identity'.stamp[3]
<1>1. identity.version \in Nat /\ identity'.version \in Nat
  BY TypeStep DEF TypeOK, Identity
<1>2. \/ identity.version < identity'.version
      \/ identity'.version = identity.version /\ identity'.stamp = identity.stamp
  BY Grows
<1> QED BY <1>1, <1>2 DEF Bound

LEMMA ChallengeStep ==
  ASSUME TypeOK, [Next]_vars
  PROVE  \/ challenge'.version = challenge.version /\ challenge'.since = challenge.since
         \/ /\ identity' = Refresh(identity)
            /\ challenge'.version = identity'.version
            /\ challenge'.since = account.password
<1>0. challenge \in Challenge
  BY DEF TypeOK
<1>1. ASSUME NEW c \in Calls, StartCodeChallenge(c), challenge' # challenge
      PROVE  /\ identity' = Refresh(identity)
             /\ challenge'.version = identity'.version
             /\ challenge'.since = account.password
  <2>1. challenge' = [NoChallenge EXCEPT
                  !.status = "dispatch_pending", !.code = Len(guesses'),
                  !.version = Refresh(identity).version, !.since = account.password]
    BY <1>1 DEF StartCodeChallenge
  <2>2. identity' = Refresh(identity)
    BY <1>1 DEF StartCodeChallenge
  <2> QED BY <2>1, <2>2 DEF NoChallenge
<1>2. ASSUME NEW c \in Calls,
             SaveResend(c) \/ MarkSent(c) \/ Guess(c) \/ Consume(c) \/ SavePoll(c)
      PROVE  challenge'.version = challenge.version /\ challenge'.since = challenge.since
  BY <1>0, <1>2 DEF SaveResend, MarkSent, Guess, Consume, SavePoll, Challenge
<1>3. CASE ChallengeLapses
  BY <1>0, <1>3 DEF ChallengeLapses, Challenge
<1>4. \/ challenge' = challenge
      \/ \E c \in Calls :
           \/ StartCodeChallenge(c)
           \/ SaveResend(c) \/ MarkSent(c) \/ Guess(c) \/ Consume(c) \/ SavePoll(c)
      \/ ChallengeLapses
  BY DEF Next, Sending, Verifying, Polling, ByPassword, Editing, vars,
    Dispatch, Reserve, LoadForResend, CheckIdentity, SendCode, StoreAnswer,
    StoreFailure, LoadForVerify, BeginConsume, ConsumeAgain, LoadForPoll, FindUser,
    EnsureFromUser, RecheckUser, IssueAuthentication, LoadAccount, SaveAccount,
    Crash, LookUp, ConfirmPasswordReset
<1> QED BY <1>1, <1>2, <1>3, <1>4

LEMMA AuthsStep ==
  ASSUME TypeOK, HandsOK, SessionsOK, [Next]_vars
  PROVE  \/ auths' = auths
         \/ \E c \in Calls, a \in Session :
              /\ Consume(c) \/ (IssueAuthentication(c) /\ a.code = 0)
              /\ auths' = Append(auths, a)
              /\ Bound(a.version, a.since)
              /\ Consume(c) => a.code = calls[c].doc.code
<1>1. ASSUME NEW c \in Calls, Consume(c)
      PROVE  \E a \in Session : /\ auths' = Append(auths, a)
                                /\ Bound(a.version, a.since)
                                /\ a.code = calls[c].doc.code
  <2> DEFINE a == [version |-> calls[c].mine.version, since |-> calls[c].doc.since,
                   code |-> calls[c].doc.code]
  <2>1. calls[c] \in Call /\ calls[c].mine \in Identity
        /\ calls[c].doc.version = calls[c].mine.version
    BY <1>1 DEF TypeOK, Consume, HandsOK, HandOK
  <2>2. a \in Session
    BY <2>1 DEF Call, Challenge, Identity, Session
  <2>3. Bound(a.version, a.since)
    BY <1>1, <2>1 DEF Consume, SessionsOK, CallBound
  <2> QED BY <1>1, <2>2, <2>3 DEF Consume
<1>2. ASSUME NEW c \in Calls, IssueAuthentication(c)
      PROVE  \E a \in Session : /\ auths' = Append(auths, a)
                                /\ Bound(a.version, a.since)
                                /\ a.code = 0
  <2> DEFINE a == [version |-> calls[c].mine.version, since |-> calls[c].since, code |-> 0]
  <2>1. calls[c] \in Call /\ calls[c].mine \in Identity
        /\ calls[c].since = calls[c].mine.stamp[3]
        /\ Bound(calls[c].mine.version, calls[c].mine.stamp[3])
    BY <1>2 DEF TypeOK, IssueAuthentication, HandsOK, HandOK, SessionsOK, CallBound
  <2>2. a \in Session
    BY <2>1, LoginAssumption DEF Call, Identity, Session
  <2>3. Bound(a.version, a.since)
    BY <2>1
  <2> QED BY <1>2, <2>2, <2>3 DEF IssueAuthentication
<1>3. auths' = auths \/ \E c \in Calls : Consume(c) \/ IssueAuthentication(c)
  BY DEF Next, Sending, Verifying, Polling, ByPassword, Editing, vars,
    Dispatch, Reserve, StartCodeChallenge, LoadForResend, CheckIdentity, SaveResend,
    SendCode, MarkSent, StoreAnswer, StoreFailure, LoadForVerify, Guess, BeginConsume,
    ConsumeAgain, LoadForPoll, SavePoll, FindUser, EnsureFromUser, RecheckUser,
    LoadAccount, SaveAccount, Crash, LookUp, ChallengeLapses, ConfirmPasswordReset
<1>4. ASSUME NEW c \in Calls PROVE ~(Consume(c) /\ IssueAuthentication(c))
  BY DEF Consume, IssueAuthentication
<1> QED BY <1>1, <1>2, <1>3, <1>4

\* A call that goes on with what it has in hand.
LEMMA CallKeeps ==
  ASSUME TypeOK, HandsOK, IdentityOK, SessionsOK, [Next]_vars,
         NEW c \in Calls, calls'[c] = calls[c]
  PROVE  CallBound(calls[c])'
<1>1. calls[c] \in Call /\ CallBound(calls[c])
      /\ (calls[c].at \in {"confirm", "recheck", "issue"} => calls[c].mine \in Identity)
  BY DEF TypeOK, SessionsOK, HandsOK, HandOK
<1>2. calls[c].doc.version \in Nat /\ calls[c].since \in Nat
  BY <1>1 DEF Call, Challenge
<1>3. account.password \in Nat /\ account'.password \in Nat
      /\ account.password <= account'.password
  BY TypeStep, Grows DEF TypeOK, Account
<1>4. CASE calls[c].at = "confirm"
  BY <1>1, <1>2, <1>4, BoundGrows DEF CallBound, Bound
<1>5. CASE calls[c].at = "ensure"
  BY <1>1, <1>2, <1>3, <1>5 DEF CallBound
<1>6. CASE calls[c].at \in {"recheck", "issue"}
  <2>1. calls[c].mine.version \in Nat /\ calls[c].mine.stamp[3] \in Nat
    BY <1>1, <1>6 DEF Identity
  <2>2. Bound(calls[c].mine.version, calls[c].mine.stamp[3])'
    BY <1>1, <1>6, <2>1, BoundGrows DEF CallBound, Bound
  <2> QED BY <1>1, <1>2, <1>3, <1>6, <2>1, <2>2 DEF CallBound
<1>7. CASE Plain(calls[c])
  BY <1>7 DEF Plain, CallBound
<1> QED BY <1>4, <1>5, <1>6, <1>7 DEF Plain

LEMMA SessionsStep ==
  ASSUME TypeOK, HandsOK, IdentityOK, SessionsOK, [Next]_vars
  PROVE  SessionsOK'
<1>0. /\ account \in Account /\ challenge \in Challenge /\ auths \in Seq(Session)
      /\ account'.password \in Nat /\ account.password \in Nat
      /\ account.password <= account'.password
  BY TypeStep, Grows DEF TypeOK, Account
<1>1. Bound(challenge.version, challenge.since)'
  <2>1. CASE challenge'.version = challenge.version /\ challenge'.since = challenge.since
    <3>1. challenge.version \in Nat /\ Bound(challenge.version, challenge.since)
      BY <1>0 DEF Challenge, SessionsOK
    <3> QED BY <2>1, <3>1, BoundGrows DEF Bound
  <2>2. CASE /\ identity' = Refresh(identity)
             /\ challenge'.version = identity'.version
             /\ challenge'.since = account.password
    <3>1. identity'.stamp[3] = account.password
      BY <1>0, <2>2, LookedUp, StatusTypes
    <3>2. identity'.version \in Nat
      BY TypeStep DEF TypeOK, Identity
    <3> QED BY <2>2, <3>1, <3>2 DEF Bound
  <2> QED BY <2>1, <2>2, ChallengeStep
<1>2. \A i \in DOMAIN auths' : Bound(auths[i].version, auths[i].since)'
  <2>1. \A i \in DOMAIN auths : auths[i].version \in Nat /\ Bound(auths[i].version, auths[i].since)
    <3>1. \A i \in DOMAIN auths : auths[i] \in Session
      BY <1>0
    <3> QED BY <3>1 DEF Session, SessionsOK
  <2>2. CASE auths' = auths
    BY <2>1, <2>2, BoundGrows DEF Bound
  <2>3. ASSUME NEW a \in Session, auths' = Append(auths, a), Bound(a.version, a.since)
        PROVE  \A i \in DOMAIN auths' : Bound(auths[i].version, auths[i].since)'
    <3>1. a.version \in Nat
      BY DEF Session
    <3>2. \A i \in DOMAIN auths' : auths'[i] = a \/ (i \in DOMAIN auths /\ auths'[i] = auths[i])
      BY <1>0, <2>3
    <3>3. \A i \in DOMAIN auths' : auths'[i].version \in Nat
                                   /\ Bound(auths'[i].version, auths'[i].since)
      BY <2>1, <2>3, <3>1, <3>2
    <3> QED BY <3>3, BoundGrows DEF Bound
  <2> QED BY <2>2, <2>3, AuthsStep
<1>4. \A c \in Calls : CallBound(calls[c])'
  <2>1. CASE Ordinary
    <3>1. ASSUME NEW c \in Calls, Plain(calls'[c]) PROVE CallBound(calls[c])'
      BY <3>1 DEF Plain, CallBound
    <3> QED BY <2>1, <3>1, CallKeeps DEF Ordinary, OtherCalls
  <2>2. ASSUME NEW c \in Calls, calls'[c].at = "confirm", BeginConsume(c)
        PROVE  \A d \in Calls : CallBound(calls[d])'
    <3>1. OtherCalls(c) /\ calls'[c].doc = challenge /\ UNCHANGED challenge
      BY <2>2, BeginIs
    <3>2. CallBound(calls[c])'
      BY <1>1, <2>2, <3>1 DEF CallBound, Bound
    <3> QED BY <3>1, <3>2, CallKeeps DEF OtherCalls
  <2>3. ASSUME NEW c \in Calls, FindUser(c)
        PROVE  \A d \in Calls : CallBound(calls[d])'
    <3>1. CallBound(calls[c])'
      BY <1>0, <2>3, FindIs DEF CallBound
    <3> QED BY <2>3, <3>1, FindIs, CallKeeps DEF OtherCalls
  <2>4. ASSUME NEW c \in Calls, EnsureFromUser(c)
        PROVE  \A d \in Calls : CallBound(calls[d])'
    <3>1. calls[c].since <= account.password /\ calls[c].at = "ensure"
      BY <2>4, EnsureIs DEF SessionsOK, CallBound
    <3>2. identity'.version \in Nat
      BY <2>4, EnsureIs DEF Identity
    <3>3. CallBound(calls[c])'
      BY <1>0, <2>4, <3>1, <3>2, EnsureIs DEF CallBound, Bound
    <3> QED BY <2>4, <3>3, EnsureIs, CallKeeps DEF OtherCalls
  <2>5. ASSUME NEW c \in Calls, calls'[c].at = "issue", RecheckUser(c)
        PROVE  \A d \in Calls : CallBound(calls[d])'
    <3>1. /\ calls[c].at = "recheck" /\ OtherCalls(c) /\ UNCHANGED account
          /\ calls'[c].since = calls[c].since /\ calls'[c].mine = calls[c].mine
          /\ account.password = calls[c].since
      BY <2>5, RecheckIs
    <3>2. calls[c].mine \in Identity /\ CallBound(calls[c])
      BY <3>1 DEF HandsOK, HandOK, SessionsOK
    <3>3. calls[c].mine.version \in Nat /\ calls[c].mine.stamp[3] \in Nat
      BY <3>2 DEF Identity
    <3>4. calls[c].since = calls[c].mine.stamp[3]
      BY <1>0, <3>1, <3>2, <3>3 DEF CallBound
    <3>5. Bound(calls[c].mine.version, calls[c].mine.stamp[3])
      BY <3>1, <3>2 DEF CallBound
    <3>6. CallBound(calls[c])'
      BY <2>5, <3>1, <3>3, <3>4, <3>5, BoundGrows DEF CallBound, Bound
    <3> QED BY <3>1, <3>6, CallKeeps DEF OtherCalls
  <2> QED BY <2>1, <2>2, <2>3, <2>4, <2>5, CallsStep
<1> QED BY <1>1, <1>2, <1>4 DEF SessionsOK

-----------------------------------------------------------------------------
(* Requests that send a code *)

\* A call goes on with its request, or leaves it.
Quiet(c) ==
  /\ OtherCalls(c)
  /\ calls'[c].at \in Serving =>
       calls[c].at \in Serving /\ calls'[c].key = calls[c].key
  /\ calls'[c].at \in Unsent => calls[c].at \in Unsent

LEMMA CallsMove ==
  ASSUME TypeOK, [Next]_vars
  PROVE  calls' = calls \/ \E c \in Calls : Quiet(c) \/ Reserve(c)
<1>0. CallsTyped
  BY DEF TypeOK, CallsTyped
<1>1. ASSUME NEW c \in Calls, Ends(c) PROVE Quiet(c)
  BY <1>0, <1>1, EndsIs DEF Quiet, Serving, WithKey, Unsent
<1>2. ASSUME NEW c \in Calls, NEW p, GoesTo(c, p),
             \/ p \notin Serving
             \/ p \notin Unsent /\ calls[c].at \in Serving
             \/ calls[c].at \in Unsent
      PROVE  Quiet(c)
  BY <1>0, <1>2, GoesToIs DEF Quiet, Serving, WithKey, Unsent
<1>3. ASSUME NEW c \in Calls, NEW p, Forgets(c, p), calls[c].at \in Unsent
      PROVE  Quiet(c)
  BY <1>0, <1>3, ForgetsIs DEF Quiet, Serving, WithKey, Unsent
<1>4. ASSUME NEW c \in Calls,
             \/ MarkSent(c) \/ SendCode(c) \/ StoreAnswer(c) \/ StoreFailure(c)
             \/ Crash(c) \/ Guess(c) \/ Consume(c) \/ SavePoll(c) \/ RecheckUser(c)
             \/ IssueAuthentication(c) \/ SaveAccount(c) \/ StartCodeChallenge(c)
      PROVE  Quiet(c)
  <2>1. \/ Ends(c)
        \/ /\ calls[c].at \in {"start", "send", "mark", "answer"}
           /\ GoesTo(c, "answer") \/ GoesTo(c, "mark") \/ GoesTo(c, "fail")
        \/ GoesTo(c, "send") /\ calls[c].at = "start"
        \/ GoesTo(c, "consume") \/ GoesTo(c, "issue")
    BY <1>4 DEF MarkSent, SendCode, StoreAnswer, StoreFailure, Crash, Guess, Consume,
      SavePoll, RecheckUser, IssueAuthentication, SaveAccount, StartCodeChallenge
  <2> QED BY <1>1, <1>2, <2>1 DEF Serving, WithKey, Unsent
<1>5. ASSUME NEW c \in Calls, CheckIdentity(c) \/ SaveResend(c) PROVE Quiet(c)
  BY <1>2, <1>3, <1>5 DEF CheckIdentity, SaveResend, Unsent
<1>6. ASSUME NEW c \in Calls, LoadForResend(c) PROVE Quiet(c)
  <2> DEFINE r == [calls[c] EXCEPT !.at = "check", !.doc = challenge]
  <2>1. GoesTo(c, "fail") \/ calls' = [calls EXCEPT ![c] = r]
    BY <1>0, <1>6 DEF LoadForResend, CallsTyped
  <2>2. r.at = "check" /\ r.key = calls[c].key /\ calls[c].at = "load"
    BY <1>0, <1>6 DEF CallsTyped, Call, LoadForResend
  <2> HIDE DEF r
  <2>3. CASE GoesTo(c, "fail")
    BY <1>2, <2>2, <2>3 DEF Unsent
  <2>4. CASE calls' = [calls EXCEPT ![c] = r]
    BY <1>0, <2>2, <2>4, CallIs DEF Quiet, Serving, WithKey, Unsent
  <2> QED BY <2>1, <2>3, <2>4
<1>7. ASSUME NEW c \in Calls, NEW p \in {"reserve"} \cup Keyless,
             OtherCalls(c), calls'[c].at = p
      PROVE  Quiet(c)
  BY <1>7 DEF Quiet, Serving, WithKey, Unsent, Keyless
<1>8. ASSUME NEW c \in Calls, NEW k \in Keys, Dispatch(c, k) PROVE Quiet(c)
  <2>1. calls'[c] = [Idle EXCEPT !.at = "reserve", !.key = k] /\ OtherCalls(c)
    BY <1>0, <1>8, CallIs DEF Dispatch
  <2>2. calls'[c].at = "reserve"
    BY <2>1 DEF Idle
  <2> QED BY <1>7, <2>1, <2>2
<1>9. ASSUME NEW c \in Calls,
             LoadForVerify(c) \/ LoadForPoll(c) \/ FindUser(c) \/ EnsureFromUser(c)
             \/ BeginConsume(c) \/ ConsumeAgain(c) \/ LoadAccount(c)
      PROVE  Ends(c) \/ (OtherCalls(c) /\ calls'[c].at \in Keyless \ {"idle"})
  <2>1. calls[c] \in Call
    BY <1>0 DEF CallsTyped
  <2>2. CASE LoadForVerify(c) \/ LoadForPoll(c) \/ FindUser(c) \/ ConsumeAgain(c)
    <3>1. \/ Ends(c)
          \/ /\ OtherCalls(c)
             /\ \/ calls'[c] = [Idle EXCEPT !.at = "verify", !.doc.code = challenge.code]
                \/ calls'[c] = [Idle EXCEPT !.at = "poll"]
                \/ calls'[c] = [Idle EXCEPT !.at = "ensure", !.version = account.version,
                                            !.since = account.password]
                \/ calls'[c] = [Idle EXCEPT !.at = "consume",
                                            !.doc.code = calls[c].doc.code]
      BY <1>0, <2>2, CallIs DEF LoadForVerify, LoadForPoll, FindUser, ConsumeAgain
    <3> QED BY <3>1 DEF Idle, Keyless
  <2>3. CASE EnsureFromUser(c)
    <3> DEFINE r == [calls[c] EXCEPT !.at = "recheck", !.mine = identity']
    <3>1. calls' = [calls EXCEPT ![c] = r]
      BY <1>0, <2>3 DEF EnsureFromUser, CallsTyped
    <3>2. r.at = "recheck"
      BY <2>1 DEF Call
    <3> HIDE DEF r
    <3> QED BY <1>0, <3>1, <3>2, CallIs DEF Keyless
  <2>4. CASE BeginConsume(c)
    <3> DEFINE r == [calls[c] EXCEPT !.at = "confirm", !.doc = challenge,
                                     !.mine = Refresh(identity), !.read = identity]
    <3>1. Ends(c) \/ calls' = [calls EXCEPT ![c] = r]
      BY <1>0, <2>4 DEF BeginConsume, CallsTyped
    <3>2. r.at = "confirm"
      BY <2>1 DEF Call
    <3> HIDE DEF r
    <3> QED BY <1>0, <3>1, <3>2, CallIs DEF Keyless
  <2>5. CASE LoadAccount(c)
    <3>1. PICK edit \in Edits : calls' = [calls EXCEPT ![c] =
            [Idle EXCEPT !.at = "edit", !.edit = edit,
               !.version = IF Bumps(edit) THEN account.version + 1 ELSE 0]]
      BY <2>5 DEF LoadAccount
    <3>2. OtherCalls(c)
          /\ calls'[c] = [Idle EXCEPT !.at = "edit", !.edit = edit,
               !.version = IF Bumps(edit) THEN account.version + 1 ELSE 0]
      BY <1>0, <3>1, CallIs
    <3> QED BY <3>2 DEF Idle, Keyless
  <2> QED BY <1>9, <2>2, <2>3, <2>4, <2>5
<1>10. ASSUME NEW c \in Calls,
              LoadForVerify(c) \/ LoadForPoll(c) \/ FindUser(c) \/ EnsureFromUser(c)
              \/ BeginConsume(c) \/ ConsumeAgain(c) \/ LoadAccount(c)
       PROVE  Quiet(c)
  BY <1>1, <1>7, <1>9, <1>10
<1>11. CASE LookUp \/ ChallengeLapses \/ ConfirmPasswordReset \/ UNCHANGED vars
  BY <1>11 DEF LookUp, ChallengeLapses, ConfirmPasswordReset, vars
<1> QED
  BY <1>4, <1>5, <1>6, <1>8, <1>10, <1>11
  DEF Next, Sending, Verifying, Polling, ByPassword, Editing

LEMMA RequestsStep ==
  ASSUME TypeOK, RequestsOK, [Next]_vars
  PROVE  RequestsOK'
<1>0. /\ CallsTyped
      /\ rows \in [Keys -> RowStatuses] /\ sent \in [Keys -> Nat]
      /\ \A d \in Calls : calls[d].at \in WithKey => calls[d].key \in Keys
  <2>1. \A d \in Calls : calls[d].key \in Keys \cup {None} /\ (calls[d].at \in WithKey => calls[d].key # None)
    BY DEF TypeOK, Call
  <2> QED BY <2>1 DEF TypeOK, CallsTyped
<1>1. ASSUME NEW c \in Calls, Reserve(c) PROVE RequestsOK'
  <2> DEFINE k == calls[c].key
  <2>1. k \in Keys /\ sent' = sent /\ calls[c].at = "reserve"
    BY <1>0, <1>1 DEF Reserve, WithKey
  <2>2. CASE rows[k] = "none"
    <3>1. PICK p \in {"start", "load"} : GoesTo(c, p)
      BY <1>1, <2>2 DEF Reserve
    <3>2. /\ rows' = [rows EXCEPT ![k] = "pending"]
          /\ OtherCalls(c) /\ calls'[c].at = p /\ calls'[c].key = k
      BY <1>0, <1>1, <2>2, <3>1, GoesToIs DEF Reserve
    <3>3. sent[k] = 0
      BY <1>0, <2>1, <2>2 DEF RequestsOK
    <3>4. \A d \in Calls \ {c} : calls[d].at \in Serving => calls[d].key # k
      BY <2>2 DEF RequestsOK
    <3>5. \A q \in Keys : rows[q] # "none" => rows'[q] # "none"
      BY <1>0, <3>2
    <3>6. rows'[k] # "none"
      BY <1>0, <2>1, <3>2
    <3>7. \A d \in Calls \ {c} : calls'[d] = calls[d]
      BY <3>2 DEF OtherCalls
    <3>8. \A q \in Keys : sent'[q] <= 1 /\ (sent'[q] = 1 => rows'[q] # "none")
      BY <2>1, <3>5 DEF RequestsOK
    <3>9. Serving \subseteq WithKey /\ Unsent \subseteq Serving
      BY DEF Serving, Unsent, WithKey
    <3>10. \A d \in Calls : calls'[d].at \in Serving => rows'[calls'[d].key] # "none"
      <4> SUFFICES ASSUME NEW d \in Calls, calls'[d].at \in Serving
                   PROVE  rows'[calls'[d].key] # "none"
        OBVIOUS
      <4>1. CASE d = c
        BY <3>2, <3>6, <4>1
      <4>2. CASE d # c
        BY <1>0, <3>5, <3>7, <3>9, <4>2 DEF RequestsOK
      <4> QED BY <4>1, <4>2
    <3>11. \A d \in Calls : calls'[d].at \in Unsent => sent'[calls'[d].key] = 0
      BY <2>1, <3>2, <3>3, <3>7 DEF RequestsOK
    <3>12. \A d, e \in Calls :
              calls'[d].at \in Serving /\ calls'[e].at \in Serving
              /\ calls'[d].key = calls'[e].key => d = e
      BY <3>2, <3>4, <3>7 DEF RequestsOK
    <3> QED BY <3>8, <3>10, <3>11, <3>12 DEF RequestsOK
  <2>3. CASE rows[k] # "none"
    <3>1. Ends(c) /\ rows' = rows
      BY <1>1, <2>3 DEF Reserve
    <3>2. calls'[c].at \notin Serving /\ calls'[c].at \notin Unsent /\ OtherCalls(c)
      BY <1>0, <3>1, EndsIs DEF Serving, WithKey, Unsent
    <3> QED BY <2>1, <3>1, <3>2 DEF RequestsOK, OtherCalls
  <2> QED BY <2>2, <2>3
<1>2. ASSUME NEW c \in Calls, SendCode(c) PROVE RequestsOK'
  <2> DEFINE k == calls[c].key
  <2>1. /\ calls[c].at = "send" /\ k \in Keys /\ sent[k] = 0 /\ rows[k] # "none"
        /\ calls[c].at \in Serving /\ rows' = rows
    BY <1>0, <1>2 DEF SendCode, WithKey, RequestsOK, Unsent, Serving
  <2>2. PICK p \in {"mark", "fail"} : GoesTo(c, p)
    BY <1>2 DEF SendCode
  <2>3. OtherCalls(c) /\ calls'[c].at = p /\ calls'[c].key = k
    BY <1>0, <2>2, GoesToIs
  <2>4. p \notin Unsent /\ p \in Serving /\ Unsent \subseteq Serving
    BY DEF Unsent, Serving, WithKey
  <2>5. sent' = sent \/ sent' = [sent EXCEPT ![k] = 1]
    BY <1>0, <1>2, <2>1 DEF SendCode
  <2>6. \A q \in Keys : sent'[q] = sent[q] \/ (q = k /\ sent'[q] = 1)
    BY <1>0, <2>5
  <2>7. \A q \in Keys : sent'[q] <= 1 /\ (sent'[q] = 1 => rows'[q] # "none")
    BY <2>1, <2>6 DEF RequestsOK
  <2>8. \A d \in Calls \ {c} : calls'[d] = calls[d]
    BY <2>3 DEF OtherCalls
  <2>9. \A d \in Calls : calls'[d].at \in Serving =>
          calls[d].at \in Serving /\ calls'[d].key = calls[d].key
    BY <2>1, <2>3, <2>8
  <2>10. \A d \in Calls : calls'[d].at \in Unsent => sent'[calls'[d].key] = 0
    <3> SUFFICES ASSUME NEW d \in Calls, calls'[d].at \in Unsent
                 PROVE  sent'[calls'[d].key] = 0
      OBVIOUS
    <3>1. d # c /\ calls'[d] = calls[d]
      BY <2>3, <2>4, <2>8
    <3>2. calls[d].key # k /\ calls[d].key \in Keys /\ sent[calls[d].key] = 0
      BY <1>0, <2>1, <2>4, <3>1 DEF RequestsOK, Serving
    <3> QED BY <2>6, <3>1, <3>2
  <2> QED BY <2>1, <2>7, <2>9, <2>10 DEF RequestsOK
<1>3. CASE /\ sent' = sent /\ \A q \in Keys : rows[q] # "none" => rows'[q] # "none"
           /\ calls' = calls \/ \E c \in Calls : Quiet(c)
  <2>1. \A d \in Calls :
          /\ calls'[d].at \in Serving =>
               calls[d].at \in Serving /\ calls'[d].key = calls[d].key
          /\ calls'[d].at \in Unsent => calls[d].at \in Unsent
    BY <1>3 DEF Quiet, OtherCalls
  <2>2. Serving \subseteq WithKey /\ Unsent \subseteq Serving
    BY DEF Serving, Unsent, WithKey
  <2>3. \A d \in Calls : calls'[d].at \in Serving => rows'[calls'[d].key] # "none"
    BY <1>0, <1>3, <2>1, <2>2 DEF RequestsOK
  <2>4. \A d \in Calls : calls'[d].at \in Unsent => sent'[calls'[d].key] = 0
    BY <1>3, <2>1, <2>2 DEF RequestsOK
  <2> QED BY <1>3, <2>1, <2>3, <2>4 DEF RequestsOK
<1>4. \/ sent' = sent /\ rows' = rows
      \/ \E c \in Calls : SendCode(c) \/ Reserve(c)
      \/ \E c \in Calls : StoreAnswer(c) \/ StoreFailure(c)
  BY DEF Next, Sending, Verifying, Polling, ByPassword, Editing, vars,
    Dispatch, StartCodeChallenge, LoadForResend, CheckIdentity, SaveResend,
    MarkSent, LoadForVerify, Guess, BeginConsume, Consume,
    ConsumeAgain, LoadForPoll, SavePoll, FindUser, EnsureFromUser, RecheckUser,
    IssueAuthentication, LoadAccount, SaveAccount, Crash, LookUp, ChallengeLapses,
    ConfirmPasswordReset
<1>5. ASSUME NEW c \in Calls, StoreAnswer(c) \/ StoreFailure(c)
      PROVE  sent' = sent /\ \A q \in Keys : rows[q] # "none" => rows'[q] # "none"
  BY <1>0, <1>5 DEF StoreAnswer, StoreFailure
<1> QED BY <1>1, <1>2, <1>3, <1>4, <1>5, CallsMove

-----------------------------------------------------------------------------
(* Codes, their guesses and the sessions they buy *)

\* A new code was not compared, and bought nothing.
LEMMA IssueKeeps ==
  ASSUME TypeOK, CodesOK, Issues, challenge' \in Challenge,
         challenge'.code = Len(guesses'), auths' = auths
  PROVE  CodesOK'
<1> DEFINE n == Len(guesses')
<1>0. /\ guesses' \in Seq(Nat) /\ n = Len(guesses) + 1 /\ guesses'[n] = 0
      /\ \A code \in DOMAIN guesses : guesses'[code] = guesses[code]
      /\ DOMAIN guesses = 1 .. Len(guesses) /\ DOMAIN guesses' = 1 .. n
      /\ Len(guesses) \in Nat /\ guesses \in Seq(Nat)
  BY IssuesType DEF TypeOK
<1>1. challenge'.attempts \in Nat /\ MaxAttempts \in Nat
  BY LoginAssumption DEF Challenge
<1>2. \A code \in DOMAIN guesses' : guesses'[code] <= MaxAttempts
  <2> SUFFICES ASSUME NEW code \in DOMAIN guesses' PROVE guesses'[code] <= MaxAttempts
    OBVIOUS
  <2>1. code = n \/ code \in DOMAIN guesses
    BY <1>0
  <2> QED BY <1>0, <1>1, <2>1 DEF CodesOK
<1>3. \A i \in DOMAIN auths : auths[i].code <= Len(guesses) /\ auths[i].code \in Nat
  <2>1. \A i \in DOMAIN auths : auths[i] \in Session
    BY DEF TypeOK
  <2> QED BY <2>1, LoginAssumption DEF CodesOK, Session
<1> HIDE DEF n
<1>4. \A i \in DOMAIN auths : auths[i].code <= n /\ auths[i].code # n
  BY <1>0, <1>3
<1> QED BY <1>0, <1>1, <1>2, <1>4 DEF CodesOK, OneSessionPerCode, n

\* A challenge that keeps its code, and stays closed.
LEMMA StatusKeeps ==
  ASSUME CodesOK, UNCHANGED <<auths, guesses>>,
         challenge'.code = challenge.code, challenge'.attempts = challenge.attempts,
         challenge.status \in {"consumed", "expired"} =>
           challenge'.status \in {"consumed", "expired"}
  PROVE  CodesOK'
BY DEF CodesOK, OneSessionPerCode

LEMMA CodesStep ==
  ASSUME TypeOK, HandsOK, IdentityOK, SessionsOK, CodesOK, [Next]_vars
  PROVE  CodesOK'
<1>0. /\ challenge \in Challenge /\ challenge' \in Challenge /\ auths \in Seq(Session)
      /\ guesses \in Seq(Nat)
  BY TypeStep DEF TypeOK
<1>1. CASE UNCHANGED <<challenge, guesses, auths>>
  BY <1>1 DEF CodesOK, OneSessionPerCode
<1>2. ASSUME NEW c \in Calls, StartCodeChallenge(c) PROVE CodesOK'
  <2>1. CASE Refresh(identity).status \in Usable
    <3>1. Issues /\ challenge'.code = Len(guesses') /\ auths' = auths
      BY <1>2, <2>1 DEF StartCodeChallenge, NoChallenge
    <3> QED BY <1>0, <3>1, IssueKeeps
  <2>2. CASE Refresh(identity).status \notin Usable
    BY <1>1, <1>2, <2>2 DEF StartCodeChallenge
  <2> QED BY <2>1, <2>2
<1>3. ASSUME NEW c \in Calls, SaveResend(c) PROVE CodesOK'
  <2>1. Issues /\ challenge'.code = Len(guesses') /\ auths' = auths
    BY <1>0, <1>3 DEF SaveResend, Challenge
  <2> QED BY <1>0, <2>1, IssueKeeps
<1>4. ASSUME NEW c \in Calls, MarkSent(c) \/ SavePoll(c) PROVE CodesOK'
  BY <1>0, <1>4, StatusKeeps DEF MarkSent, SavePoll, Challenge
<1>5. CASE ChallengeLapses
  BY <1>0, <1>5, StatusKeeps DEF ChallengeLapses, Challenge
<1>6. ASSUME NEW c \in Calls, Guess(c) PROVE CodesOK'
  <2>1. CASE ~MayAttempt(c)
    BY <1>1, <1>6, <2>1 DEF Guess
  <2>2. CASE MayAttempt(c)
    <3> DEFINE n == challenge.code
    <3>1. /\ challenge' = [challenge EXCEPT !.attempts = @ + 1]
          /\ guesses' = [guesses EXCEPT ![n] = @ + 1]
          /\ auths' = auths /\ challenge.attempts < MaxAttempts
      BY <1>6, <2>2 DEF Guess, MayAttempt
    <3>2. /\ challenge'.code = n /\ challenge'.status = challenge.status
          /\ challenge'.attempts = challenge.attempts + 1
          /\ challenge.attempts \in Nat /\ MaxAttempts \in Nat /\ n \in Nat
      BY <1>0, <3>1, LoginAssumption DEF Challenge
    <3>3. /\ DOMAIN guesses' = DOMAIN guesses /\ Len(guesses') = Len(guesses)
          /\ \A code \in DOMAIN guesses : guesses[code] \in Nat
          /\ \A code \in DOMAIN guesses :
               guesses'[code] = IF code = n THEN guesses[code] + 1 ELSE guesses[code]
      BY <1>0, <3>1, CountedType
    <3> HIDE DEF n
    <3>4. n \in DOMAIN guesses => guesses[n] <= challenge.attempts
      BY DEF CodesOK, n
    <3>5. n \in DOMAIN guesses' => guesses'[n] <= challenge'.attempts
      BY <3>2, <3>3, <3>4
    <3>6. \A code \in DOMAIN guesses' : guesses'[code] <= MaxAttempts
      BY <3>1, <3>2, <3>3, <3>4 DEF CodesOK
    <3> QED BY <3>1, <3>2, <3>3, <3>5, <3>6 DEF CodesOK, OneSessionPerCode, n
  <2> QED BY <2>1, <2>2
<1>7. ASSUME NEW c \in Calls, NEW a \in Session, Consume(c),
             auths' = Append(auths, a), a.code = calls[c].doc.code
      PROVE  CodesOK'
  <2>1. /\ challenge.status = "awaiting_code" /\ a.code = challenge.code
        /\ challenge' = [challenge EXCEPT !.status = "consumed"] /\ guesses' = guesses
    BY <1>7 DEF Consume, Conflict, HandsOK, HandOK
  <2>2. /\ challenge'.status = "consumed" /\ challenge'.code = challenge.code
        /\ challenge'.attempts = challenge.attempts
    BY <1>0, <2>1 DEF Challenge
  <2>3. \A i \in DOMAIN auths : auths[i].code = 0 \/ auths[i].code # a.code
    BY <2>1 DEF CodesOK
  <2>4. \A i \in DOMAIN auths' :
          \/ i = Len(auths) + 1 /\ auths'[i] = a
          \/ i \in DOMAIN auths /\ auths'[i] = auths[i]
    BY <1>0, <1>7
  <2>5. OneSessionPerCode'
    BY <2>3, <2>4 DEF CodesOK, OneSessionPerCode
  <2>6. \A i \in DOMAIN auths' : auths'[i].code <= Len(guesses')
    BY <2>1, <2>4 DEF CodesOK
  <2> QED BY <2>1, <2>2, <2>5, <2>6 DEF CodesOK
<1>8. ASSUME NEW c \in Calls, NEW a \in Session, IssueAuthentication(c),
             auths' = Append(auths, a), a.code = 0
      PROVE  CodesOK'
  <2>1. challenge' = challenge /\ guesses' = guesses /\ 0 <= Len(guesses)
    BY <1>0, <1>8 DEF IssueAuthentication
  <2>2. \A i \in DOMAIN auths' :
          \/ auths'[i] = a
          \/ i \in DOMAIN auths /\ auths'[i] = auths[i]
    BY <1>0, <1>8
  <2>3. OneSessionPerCode'
    BY <1>8, <2>2 DEF CodesOK, OneSessionPerCode
  <2>4. \A i \in DOMAIN auths' :
          /\ auths'[i].code <= Len(guesses')
          /\ auths'[i].code # 0 /\ auths'[i].code = challenge'.code
             => challenge'.status \in {"consumed", "expired"}
    BY <1>8, <2>1, <2>2 DEF CodesOK
  <2> QED BY <2>1, <2>3, <2>4 DEF CodesOK
<1>9. ASSUME NEW c \in Calls, Consume(c) \/ IssueAuthentication(c) PROVE CodesOK'
  <2>1. auths' # auths
    BY <1>0, <1>9 DEF Consume, IssueAuthentication
  <2>2. PICK d \in Calls, a \in Session :
              /\ Consume(d) \/ (IssueAuthentication(d) /\ a.code = 0)
              /\ auths' = Append(auths, a)
              /\ Consume(d) => a.code = calls[d].doc.code
    BY <2>1, AuthsStep
  <2> QED BY <1>7, <1>8, <2>2
<1>10. \/ UNCHANGED <<challenge, guesses, auths>>
       \/ \E c \in Calls :
            \/ StartCodeChallenge(c) \/ SaveResend(c) \/ MarkSent(c) \/ SavePoll(c)
            \/ Guess(c) \/ Consume(c) \/ IssueAuthentication(c)
       \/ ChallengeLapses
  BY DEF Next, Sending, Verifying, Polling, ByPassword, Editing, vars,
    Dispatch, Reserve, LoadForResend, CheckIdentity, SendCode, StoreAnswer,
    StoreFailure, LoadForVerify, BeginConsume, ConsumeAgain, LoadForPoll, FindUser,
    EnsureFromUser, RecheckUser, LoadAccount, SaveAccount, Crash, LookUp,
    ConfirmPasswordReset
<1> QED BY <1>1, <1>2, <1>3, <1>4, <1>5, <1>6, <1>9, <1>10

-----------------------------------------------------------------------------
(* The invariant and what it implies *)

LEMMA InvInit == Init => IInv
<1> SUFFICES ASSUME Init PROVE IInv
  OBVIOUS
<1>1. TypeOK /\ HandsOK /\ IdentityOK
  BY InitIdentity
<1>2. \A c \in Calls : calls[c].at = "idle"
  BY DEF Init, Idle
<1>3. RequestsOK
  BY <1>2 DEF Init, RequestsOK, Serving, WithKey, Unsent
<1>4. CodesOK
  BY DEF Init, NoChallenge, CodesOK, OneSessionPerCode
<1>5. challenge.version = 0 /\ identity.version = 1 /\ auths = << >>
  BY DEF Init, NoChallenge
<1>6. SessionsOK
  BY <1>2, <1>5 DEF SessionsOK, Bound, CallBound
<1> QED BY <1>1, <1>3, <1>4, <1>6 DEF IInv

LEMMA InvStep == IInv /\ [Next]_vars => IInv'
BY TypeStep, HandsStep, Grows, RequestsStep, CodesStep, SessionsStep DEF IInv

LEMMA InvAlways == Spec => []IInv
BY InvInit, InvStep, PTL DEF Spec

\* A session that is served has the version the identity had when the session
\* was issued; a lookup that finds a change of the account would raise it.
LEMMA ServedIsCurrent ==
  ASSUME IInv
  PROVE  SessionsEnd
<1> SUFFICES ASSUME NEW i \in DOMAIN auths, Accepted(auths[i])
             PROVE  StatusOf(account) \in Usable /\ auths[i].since = account.password
  BY DEF SessionsEnd
<1> DEFINE j == Refresh(identity)
<1>1. j.status = "active" /\ j.version = auths[i].version
  BY DEF Accepted
<1>2. identity.version \in Nat /\ account \in Account
  BY DEF IInv, TypeOK, Identity
<1>3. /\ j.stamp = StampOf(account) /\ (j = identity \/ j.version = identity.version + 1)
      /\ j.status \in Usable <=> StatusOf(account) \in Usable
  BY LookedUp DEF IInv
<1>4. Bound(auths[i].version, auths[i].since)
  BY DEF IInv, SessionsOK
<1>5. j = identity
  BY <1>1, <1>2, <1>3, <1>4 DEF Bound
<1>6. auths[i].since = account.password
  BY <1>1, <1>2, <1>3, <1>4, <1>5, StatusTypes DEF Bound
<1> QED BY <1>1, <1>3, <1>6 DEF Usable

LEMMA MirrorIsTrue ==
  ASSUME IInv
  PROVE  MirrorsAccount
<1> DEFINE j == Refresh(identity)
           s == StatusOf(account)
<1>1. /\ j \in Identity /\ Sound(j) /\ j.stamp = StampOf(account) /\ j.seen = s
      /\ j.status \in Usable <=> s \in Usable
  BY LookedUp DEF IInv
<1>2. ASSUME s = "active" PROVE Refresh(j).status = "active"
  <2>1. j.status \in Usable /\ j.previous = "none" /\ ~Changed(j)
    BY <1>1, <1>2 DEF Sound, Usable, Changed
  <2>2. CASE j.status = "active"
    <3>1. ~Recovers(j)
      BY <2>2 DEF Recovers
    <3> QED BY <2>1, <2>2, <3>1 DEF Refresh
  <2>3. CASE j.status = "invited"
    <3>1. Recovers(j) /\ s \in Usable
      BY <1>1, <1>2, <2>3 DEF Recovers, Usable
    <3>2. Followed(j) = Lift(j)
      BY <3>1 DEF Followed
    <3>3. Refresh(j) = [Lift(j) EXCEPT !.stamp = StampOf(account),
                                       !.seen = s, !.version = @ + 1]
      BY <3>1, <3>2 DEF Refresh
    <3> HIDE DEF j
    <3>4. Lift(j) = [j EXCEPT !.status = s, !.previous = "none"]
      BY <1>2, <2>1 DEF Lift
    <3> QED BY <1>1, <1>2, <3>3, <3>4 DEF Identity
  <2> QED BY <2>1, <2>2, <2>3 DEF Usable
<1> QED BY <1>1, <1>2 DEF MirrorsAccount

\* Every document and every call keeps its type.
THEOREM TypeCorrect == Spec => []TypeOK
BY InvAlways, PTL DEF IInv

\* A request sends at most one code, however often it is repeated, wherever
\* it is interrupted and whatever answer is lost.
THEOREM SentOnceAlways == Spec => []SentOnce
<1>1. IInv => SentOnce
  BY DEF IInv, RequestsOK, SentOnce
<1> QED BY <1>1, InvAlways, PTL

\* No code is compared more often than the challenge allows, resends and
\* overlapping verifications included.
THEOREM GuessesBoundedAlways == Spec => []GuessesBounded
<1>1. IInv => GuessesBounded
  BY DEF IInv, CodesOK, GuessesBounded
<1> QED BY <1>1, InvAlways, PTL

\* A code buys at most one session.
THEOREM OneSessionAlways == Spec => []OneSessionPerCode
<1>1. IInv => OneSessionPerCode
  BY DEF IInv, CodesOK
<1> QED BY <1>1, InvAlways, PTL

\* A session is served only while its account is usable and has the password
\* of the login.
THEOREM SessionsEndAlways == Spec => []SessionsEnd
BY ServedIsCurrent, InvAlways, PTL

\* The identity is restricted at the next lookup when its account is, and
\* active again after at most two when its account is.
THEOREM MirrorsAlways == Spec => []MirrorsAccount
BY MirrorIsTrue, InvAlways, PTL

=============================================================================
