------------------------------- MODULE Login -------------------------------
(***************************************************************************)
(* A resident's login through Mstyle: the code challenge, the password and *)
(* the sessions they end in (MstyleAuthService, MstyleIdentityService,     *)
(* MstyleIdempotencyService), against the account they stand for, which    *)
(* lives in another database and is changed by its own commands.           *)
(*                                                                         *)
(* A call of the API takes one step per read, write or transaction, so     *)
(* that other calls and changes of the account come between any two.  The  *)
(* transaction that consumes a challenge is two steps: what it reads first *)
(* and what it commits; it starts again when a document it writes changed  *)
(* meanwhile (snapshot isolation).                                         *)
(*                                                                         *)
(* Abstractions: one account that is linked to one identity, one challenge *)
(* of it, sent by mail; codes are numbered in the order they are issued,   *)
(* and 0 stands for the password; passed deadlines are "lapsed"; a login   *)
(* by a wrong password, an answered replay and a refusal by a rate limit   *)
(* change nothing here and are calls that do not happen.                   *)
(***************************************************************************)
EXTENDS Integers, Sequences, FiniteSets

CONSTANTS
  Calls,         \* calls under way at the same time
  Keys,          \* idempotency keys of the requests that send a code
  First,         \* the key of the request that starts the challenge
  None,          \* no key
  MaxAttempts,   \* MAX_VERIFY_ATTEMPTS: guesses per code
  MaxCodes,      \* bound: codes issued
  MaxEvents      \* bound: resends, logins by password, crashes, answers of
                 \* the database that are lost, changes of the account

ASSUME LoginAssumption ==
  /\ First \in Keys /\ None \notin Keys
  /\ {MaxAttempts, MaxCodes, MaxEvents} \subseteq Nat

VARIABLES
  account,    \* the user document; its passwords are numbered
  identity,   \* its MstyleIdentity; "seen" is userSecurityStatus,
              \* "previous" is userRestrictionPreviousStatus
  challenge,  \* the MstyleChallenge; "since" is the password of the
              \* account when it was started (for the properties)
  rows,       \* the idempotency row of every key
  auths,      \* authentications issued, with the code that bought them
  calls,      \* where every call stands, and what it has in hand
  guesses,    \* comparisons made with every code issued
  sent,       \* mails sent for every key
  events      \* how much of that bound is used

vars == <<account, identity, challenge, rows, auths, calls,
          guesses, sent, events>>

Usable == {"active", "invited"}
Restricted == {"blocked", "disabled"}

(* deriveIdentityStatus. *)
StatusOf(a) ==
  IF a.blocked THEN "blocked"
  ELSE IF a.active THEN "active"
  ELSE IF a.employee THEN "disabled" ELSE "invited"

\* Variant: the version is trusted to change with the password.
StampOfVersion(a) == <<StatusOf(a), a.version, 1>>

(* userSecurity. *)
StampOf(a) == <<StatusOf(a), a.version, a.password>>

(* The account was approved while its identity was restricted. *)
Recovers(i) ==
  /\ StatusOf(account) = "active"
  /\ i.status = "invited" /\ i.seen = "active"

\* Variant: a restriction remembers an earlier one.
RestrictLatest(i) ==
  [i EXCEPT !.status = StatusOf(account), !.previous = i.status]

(* A restriction of the account is laid over what the identity was; *)
(* the first of several is the one that remembers it.               *)
Restrict(i) ==
  [i EXCEPT !.status = StatusOf(account),
            !.previous = IF @ = "none" /\ i.status \in Usable
                         THEN i.status ELSE @]

(* ... and lifted again. *)
Lift(i) ==
  [i EXCEPT !.status = IF i.previous = "none" THEN StatusOf(account)
                       ELSE i.previous,
            !.previous = "none"]

Followed(i) ==
  IF StatusOf(account) \notin Usable THEN Restrict(i)
  ELSE IF i.status = i.seen \/ Recovers(i) THEN Lift(i)
  ELSE i

(* The account changed since the identity was last read. *)
Changed(i) == i.stamp # StampOf(account)

(* refreshUserSecurity: every lookup of an identity follows its account. *)
Refresh(i) ==
  IF ~Changed(i) /\ ~Recovers(i) THEN i
  ELSE [Followed(i) EXCEPT !.stamp = StampOf(account),
                           !.seen = StatusOf(account),
                           !.version = @ + 1]

(* A resident's request with this session would be served. *)
Accepted(auth) ==
  LET i == Refresh(identity)
  IN i.status = "active" /\ i.version = auth.version

NoChallenge ==
  [status |-> "none", code |-> 0, attempts |-> 0,
   version |-> 0, since |-> 0, lapsed |-> FALSE]

NoIdentity ==
  [status |-> "none", version |-> 0, stamp |-> <<"none", 0, 0>>,
   seen |-> "none", previous |-> "none"]

Idle == [at |-> "idle", key |-> None, edit |-> "none", version |-> 0,
         since |-> 0, doc |-> NoChallenge, mine |-> NoIdentity,
         read |-> NoIdentity]

(* A user, or the owner of a company who waits for approval, just imported. *)
Init ==
  /\ \E employee, active \in BOOLEAN :
       /\ employee => active
       /\ account = [employee |-> employee, active |-> active,
                     blocked |-> FALSE, version |-> 1, password |-> 1]
  /\ identity = [status |-> StatusOf(account), version |-> 1,
                 stamp |-> StampOf(account), seen |-> StatusOf(account),
                 previous |-> "none"]
  /\ challenge = NoChallenge
  /\ rows = [k \in Keys |-> "none"]
  /\ auths = << >>
  /\ calls = [c \in Calls |-> Idle]
  /\ guesses = << >>
  /\ sent = [k \in Keys |-> 0]
  /\ events = 0

(* Call c goes on at another place, needs no more what it read, or ends. *)
GoesTo(c, place) == calls' = [calls EXCEPT ![c].at = place]
Ends(c) == calls' = [calls EXCEPT ![c] = Idle]

Forgets(c, place) ==
  calls' = [calls EXCEPT ![c] = [Idle EXCEPT !.at = place, !.key = calls[c].key]]

Happens == events < MaxEvents /\ events' = events + 1

LookUp ==
  /\ identity' = Refresh(identity)
  /\ UNCHANGED <<account, challenge, rows, auths, calls, guesses, sent, events>>

-----------------------------------------------------------------------------
(* Requests that send a code: withIdempotency, executeDispatch. *)

(* The client knows the challenge by the answer that started it. *)
Dispatch(c, k) ==
  /\ calls[c].at = "idle"
  /\ rows[k] = "none"
  /\ k = First \/ rows[First] = "done"
  /\ calls' = [calls EXCEPT ![c] = [Idle EXCEPT !.at = "reserve", !.key = k]]
  /\ UNCHANGED <<account, identity, challenge, rows, auths, guesses, sent, events>>

\* Variant: the key is stored without being unique.
ReserveAgain(c) ==
  LET k == calls[c].key
  IN /\ calls[c].at = "reserve"
     /\ rows' = [rows EXCEPT ![k] = "pending"]
     /\ GoesTo(c, IF k = First THEN "start" ELSE "load")
     /\ UNCHANGED <<account, identity, challenge, auths, guesses, sent, events>>

(* The key is unique: of two equal requests one goes on. *)
Reserve(c) ==
  LET k == calls[c].key
  IN /\ calls[c].at = "reserve"
     /\ IF rows[k] = "none"
        THEN /\ rows' = [rows EXCEPT ![k] = "pending"]
             /\ GoesTo(c, IF k = First THEN "start" ELSE "load")
        ELSE Ends(c) /\ UNCHANGED rows
     /\ UNCHANGED <<account, identity, challenge, auths, guesses, sent, events>>

Issues ==
  /\ Len(guesses) < MaxCodes
  /\ guesses' = Append(guesses, 0)

(* An identity that may not log in gets a dummy challenge, which is left out. *)
StartCodeChallenge(c) ==
  LET i == Refresh(identity)
  IN /\ calls[c].at = "start"
     /\ identity' = i
     /\ IF i.status \in Usable
        THEN /\ Issues
             /\ challenge' = [NoChallenge EXCEPT
                  !.status = "dispatch_pending", !.code = Len(guesses'),
                  !.version = i.version, !.since = account.password]
             /\ GoesTo(c, "send")
        ELSE GoesTo(c, "answer") /\ UNCHANGED <<challenge, guesses>>
     /\ UNCHANGED <<account, rows, auths, sent, events>>

LoadForResend(c) ==
  /\ calls[c].at = "load"
  /\ Happens
  /\ IF challenge.lapsed \/ challenge.status \in {"expired", "consumed"}
     THEN GoesTo(c, "fail")
     ELSE calls' = [calls EXCEPT ![c].at = "check", ![c].doc = challenge]
  /\ UNCHANGED <<account, identity, challenge, rows, auths, guesses, sent>>

\* Variant: the version of the identity is not compared.
AssertedUsable(doc, i) == i.status \in Usable

(* assertChallengeIdentity: the identity is still the one it was started for. *)
Asserted(doc, i) == i.status \in Usable /\ i.version = doc.version

CheckIdentity(c) ==
  /\ calls[c].at = "check"
  /\ identity' = Refresh(identity)
  /\ IF Asserted(calls[c].doc, identity') THEN GoesTo(c, "save")
     ELSE Forgets(c, "fail")
  /\ UNCHANGED <<account, challenge, rows, auths, guesses, sent, events>>

\* Variant: the same code is sent again, and its attempts start anew.
SaveSameCode(c) ==
  /\ calls[c].at = "save"
  /\ challenge' = [challenge EXCEPT !.status = "dispatch_pending",
                                    !.attempts = 0, !.lapsed = FALSE]
  /\ Forgets(c, "send")
  /\ UNCHANGED <<account, identity, rows, auths, guesses, sent, events>>

(* save writes only what differs from the document that was loaded: what *)
(* others wrote meanwhile is kept where the loaded value was right.      *)
SaveResend(c) ==
  LET doc == calls[c].doc
  IN /\ calls[c].at = "save"
     /\ Issues
     /\ challenge' = [challenge EXCEPT
          !.status = IF doc.status = "dispatch_pending" THEN @
                     ELSE "dispatch_pending",
          !.code = Len(guesses'),
          !.attempts = IF doc.attempts = 0 THEN @ ELSE 0,
          !.lapsed = FALSE]
     /\ Forgets(c, "send")
     /\ UNCHANGED <<account, identity, rows, auths, sent, events>>

(* The mail leaves; an error may come before it or after it. *)
SendCode(c) ==
  /\ calls[c].at = "send"
  /\ identity' = Refresh(identity)
  /\ \/ /\ sent' = [sent EXCEPT ![calls[c].key] = @ + 1]
        /\ GoesTo(c, "mark")
     \/ /\ sent' \in {sent, [sent EXCEPT ![calls[c].key] = @ + 1]}
        /\ GoesTo(c, "fail")
  /\ UNCHANGED <<account, challenge, rows, auths, guesses, events>>

MarkSent(c) ==
  /\ calls[c].at = "mark"
  /\ challenge' = [challenge EXCEPT
       !.status = IF @ = "dispatch_pending" THEN "awaiting_code" ELSE @]
  /\ GoesTo(c, "answer")
  /\ UNCHANGED <<account, identity, rows, auths, guesses, sent, events>>

(* The outcome is stored under the key, or the storing fails: then the row *)
(* may have been written or not, and the error is stored over it.          *)
StoreAnswer(c) ==
  LET k == calls[c].key
      stored == [rows EXCEPT ![k] = IF @ = "pending" THEN "done" ELSE @]
  IN /\ calls[c].at = "answer"
     /\ \/ /\ rows' = stored
           /\ Ends(c)
           /\ UNCHANGED events
        \/ /\ rows' \in {rows, stored}
           /\ GoesTo(c, "fail")
           /\ Happens
     /\ UNCHANGED <<account, identity, challenge, auths, guesses, sent>>

StoreFailure(c) ==
  /\ calls[c].at = "fail"
  /\ rows' = [rows EXCEPT ![calls[c].key] = "failed"]
  /\ Ends(c)
  /\ UNCHANGED <<account, identity, challenge, auths, guesses, sent, events>>

(* Whatever the call had in hand is gone; a reserved key stays pending. *)
Crash(c) ==
  /\ calls[c].at # "idle"
  /\ Ends(c)
  /\ Happens
  /\ UNCHANGED <<account, identity, challenge, rows, auths, guesses, sent>>

-----------------------------------------------------------------------------
(* verifyCode. *)

LoadForVerify(c) ==
  /\ calls[c].at = "idle"
  /\ rows[First] = "done"
  /\ challenge.status \notin {"none", "expired", "consumed"}
  /\ ~challenge.lapsed
  /\ calls' = [calls EXCEPT ![c] =
       [Idle EXCEPT !.at = "verify", !.doc.code = challenge.code]]
  /\ UNCHANGED <<account, identity, challenge, rows, auths, guesses, sent, events>>

(* An attempt is reserved for the code that was loaded, then compared. *)
MayAttempt(c) ==
  /\ challenge.status = "awaiting_code"
  /\ challenge.code = calls[c].doc.code
  /\ ~challenge.lapsed
  /\ challenge.attempts < MaxAttempts

Guess(c) ==
  /\ calls[c].at = "verify"
  /\ IF MayAttempt(c)
     THEN /\ challenge' = [challenge EXCEPT !.attempts = @ + 1]
          /\ guesses' = [guesses EXCEPT ![calls[c].doc.code] = @ + 1]
          /\ GoesTo(c, "consume") \/ Ends(c)
     ELSE Ends(c) /\ UNCHANGED <<challenge, guesses>>
  /\ UNCHANGED <<account, identity, rows, auths, sent, events>>

(* The transaction of consumeChallenge, as it reads ... *)
Consumable(c) ==
  /\ challenge.status = "awaiting_code"
  /\ ~challenge.lapsed
  /\ challenge.code = calls[c].doc.code

BeginConsume(c) ==
  LET i == Refresh(identity)
  IN /\ calls[c].at = "consume"
     /\ IF Consumable(c) /\ Asserted(challenge, i)
        THEN calls' = [calls EXCEPT
               ![c].at = "confirm", ![c].doc = challenge,
               ![c].mine = i, ![c].read = identity]
        ELSE Ends(c)
     /\ UNCHANGED <<account, identity, challenge, rows, auths, guesses, sent, events>>

\* Variant: the challenge is not written in the transaction.
ConflictOfIdentity(c) == identity # calls[c].read

Conflict(c) == challenge # calls[c].doc \/ identity # calls[c].read

(* ... and as it commits: confirmLogin looks the identity up once more. *)
Consume(c) ==
  LET i == Refresh(calls[c].mine)
  IN /\ calls[c].at = "confirm"
     /\ ~Conflict(c) /\ i.status \in Usable
     /\ identity' = [i EXCEPT !.status = "active"]
     /\ challenge' = [challenge EXCEPT !.status = "consumed"]
     /\ auths' = Append(auths, [version |-> calls[c].mine.version,
                                since |-> calls[c].doc.since,
                                code |-> calls[c].doc.code])
     /\ Ends(c)
     /\ UNCHANGED <<account, rows, guesses, sent, events>>

ConsumeAgain(c) ==
  /\ calls[c].at = "confirm"
  /\ IF Conflict(c)
     THEN calls' = [calls EXCEPT ![c] =
            [Idle EXCEPT !.at = "consume", !.doc.code = calls[c].doc.code]]
     ELSE Refresh(calls[c].mine).status \notin Usable /\ Ends(c)
  /\ UNCHANGED <<account, identity, challenge, rows, auths, guesses, sent, events>>

-----------------------------------------------------------------------------
(* getChallenge stores what it found lapsed, whatever it has become since. *)

LoadForPoll(c) ==
  /\ calls[c].at = "idle"
  /\ challenge.lapsed /\ challenge.status \notin {"expired", "consumed"}
  /\ calls' = [calls EXCEPT ![c] = [Idle EXCEPT !.at = "poll"]]
  /\ UNCHANGED <<account, identity, challenge, rows, auths, guesses, sent, events>>

SavePoll(c) ==
  /\ calls[c].at = "poll"
  /\ challenge' = [challenge EXCEPT !.status = "expired"]
  /\ Ends(c)
  /\ UNCHANGED <<account, identity, rows, auths, guesses, sent, events>>

ChallengeLapses ==
  /\ challenge.status # "none" /\ ~challenge.lapsed
  /\ challenge' = [challenge EXCEPT !.lapsed = TRUE]
  /\ UNCHANGED <<account, identity, rows, auths, calls, guesses, sent, events>>

-----------------------------------------------------------------------------
(* verifyPassword. *)

FindUser(c) ==
  /\ calls[c].at = "idle"
  /\ StatusOf(account) \in Usable
  /\ Happens
  /\ identity' = Refresh(identity)
  /\ calls' = [calls EXCEPT ![c] =
       [Idle EXCEPT !.at = "ensure", !.version = account.version,
                    !.since = account.password]]
  /\ UNCHANGED <<account, challenge, rows, auths, guesses, sent>>

EnsureFromUser(c) ==
  /\ calls[c].at = "ensure"
  /\ identity' = Refresh(identity)
  /\ calls' = [calls EXCEPT ![c].at = "recheck", ![c].mine = identity']
  /\ UNCHANGED <<account, challenge, rows, auths, guesses, sent, events>>

(* The account is read once more: is it still the one that was asked for? *)
Unchanged(c) ==
  /\ account.version = calls[c].version
  /\ account.password = calls[c].since
  /\ StatusOf(account) \in Usable
  /\ calls[c].mine.status = "active"

RecheckUser(c) ==
  /\ calls[c].at = "recheck"
  /\ identity' = Refresh(identity)
  /\ IF Unchanged(c) THEN GoesTo(c, "issue") ELSE Ends(c)
  /\ UNCHANGED <<account, challenge, rows, auths, guesses, sent, events>>

IssueAuthentication(c) ==
  /\ calls[c].at = "issue"
  /\ auths' = Append(auths, [version |-> calls[c].mine.version,
                             since |-> calls[c].since, code |-> 0])
  /\ Ends(c)
  /\ UNCHANGED <<account, identity, challenge, rows, guesses, sent, events>>

-----------------------------------------------------------------------------
(* Commands on the account, in the database of Pass.  An administrator's or *)
(* an owner's loads the document, changes it and saves what changed: the    *)
(* version it writes is the next of the one it loaded.                      *)

Edits == {"block", "unblock", "deactivate", "activate", "password"}

MayEdit(edit) ==
  /\ edit = "block" => ~account.blocked
  /\ edit = "unblock" => account.blocked
  /\ edit = "deactivate" => account.active
  /\ edit = "activate" => ~account.active

(* shouldBumpAuthVersion, and the changes that raise the version themselves. *)
Bumps(edit) ==
  \/ edit \in {"block", "password"}
  \/ edit = "deactivate" /\ account.employee

LoadAccount(c) ==
  /\ calls[c].at = "idle"
  /\ \E edit \in Edits :
       /\ MayEdit(edit)
       /\ calls' = [calls EXCEPT ![c] =
            [Idle EXCEPT !.at = "edit", !.edit = edit,
               !.version = IF Bumps(edit) THEN account.version + 1 ELSE 0]]
  /\ Happens
  /\ UNCHANGED <<account, identity, challenge, rows, auths, guesses, sent>>

SaveAccount(c) ==
  LET edit == calls[c].edit
  IN /\ calls[c].at = "edit"
     /\ account' = [account EXCEPT
          !.blocked = (@ \/ edit = "block") /\ edit # "unblock",
          !.active = (@ \/ edit = "activate") /\ edit # "deactivate",
          !.password = IF edit = "password" THEN @ + 1 ELSE @,
          !.version = IF calls[c].version = 0 THEN @ ELSE calls[c].version]
     /\ Ends(c)
     /\ UNCHANGED <<identity, challenge, rows, auths, guesses, sent, events>>

(* A password set by a code raises the version as it is stored. *)
ConfirmPasswordReset ==
  /\ account' = [account EXCEPT !.password = @ + 1, !.version = @ + 1]
  /\ Happens
  /\ UNCHANGED <<identity, challenge, rows, auths, calls, guesses, sent>>

-----------------------------------------------------------------------------
Sending(c) ==
  \/ \E k \in Keys : Dispatch(c, k)
  \/ Reserve(c) \/ StartCodeChallenge(c)
  \/ LoadForResend(c) \/ CheckIdentity(c) \/ SaveResend(c)
  \/ SendCode(c) \/ MarkSent(c) \/ StoreAnswer(c) \/ StoreFailure(c)

Verifying(c) ==
  LoadForVerify(c) \/ Guess(c) \/ BeginConsume(c) \/ Consume(c) \/ ConsumeAgain(c)

Polling(c) == LoadForPoll(c) \/ SavePoll(c)

Editing(c) == LoadAccount(c) \/ SaveAccount(c)

ByPassword(c) ==
  FindUser(c) \/ EnsureFromUser(c) \/ RecheckUser(c) \/ IssueAuthentication(c)

Next ==
  \/ \E c \in Calls :
       Sending(c) \/ Verifying(c) \/ Polling(c) \/ ByPassword(c)
       \/ Editing(c) \/ Crash(c)
  \/ LookUp \/ ChallengeLapses \/ ConfirmPasswordReset

Spec == Init /\ [][Next]_vars

-----------------------------------------------------------------------------
Statuses == Usable \cup Restricted
ChallengeStatuses == {"none", "dispatch_pending", "awaiting_code", "expired", "consumed"}
RowStatuses == {"none", "pending", "done", "failed"}
WithKey == {"reserve", "start", "load", "check", "save", "send", "mark", "answer", "fail"}
Keyless == {"idle", "verify", "consume", "confirm", "poll", "ensure", "recheck", "issue", "edit"}

Account == [employee : BOOLEAN, active : BOOLEAN, blocked : BOOLEAN, version : Nat,
            password : Nat]
Identity == [status : Statuses, version : Nat, stamp : Statuses \X Nat \X Nat,
             seen : Statuses, previous : Usable \cup {"none"}]
Challenge == [status : ChallengeStatuses, code : 0 .. MaxCodes,
              attempts : 0 .. MaxAttempts, version : Nat, since : Nat,
              lapsed : BOOLEAN]
Session == [version : Nat, since : Nat, code : 0 .. MaxCodes]
Call == [at : WithKey \cup Keyless, key : Keys \cup {None},
         edit : Edits \cup {"none"}, version : Nat, since : Nat,
         doc : Challenge, mine : Identity \cup {NoIdentity},
         read : Identity \cup {NoIdentity}]

(* Every document and every call has its type; a challenge never counts  *)
(* more attempts than it allows, and a call that sends codes has its key *)
(* (mstyle-v2.auth.service.ts:445-465).                                  *)
TypeOK ==
  /\ account \in Account
  /\ identity \in Identity
  /\ challenge \in Challenge
  /\ rows \in [Keys -> RowStatuses]
  /\ auths \in Seq(Session)
  /\ calls \in [Calls -> Call]
  /\ \A c \in Calls : calls[c].at \in WithKey <=> calls[c].key # None
  /\ guesses \in Seq(Nat) /\ Len(guesses) <= MaxCodes
  /\ sent \in [Keys -> Nat]
  /\ events \in 0 .. MaxEvents

(* A request that sends a code sends at most one, however often it is    *)
(* repeated, wherever it is interrupted and whatever answer is lost: "An *)
(* interrupted send is never repeated automatically"                     *)
(* (mstyle-v2.idempotency.ts:79).                                        *)
SentOnce == \A k \in Keys : sent[k] <= 1

(* No code is compared more often than the challenge allows, although a  *)
(* resend resets the attempts, with a document read before other guesses *)
(* were counted (mstyle-v2.auth.service.ts:360, 445-465).                *)
GuessesBounded == \A code \in DOMAIN guesses : guesses[code] <= MaxAttempts

(* A code buys one session, although verifications of it run side by     *)
(* side, and a resend that read the challenge before it was consumed     *)
(* stores it as open again (mstyle-v2.auth.service.ts:359, 590-645).     *)
OneSessionPerCode ==
  \A i, j \in DOMAIN auths : auths[i].code # 0 /\ auths[i].code = auths[j].code => i = j

(* A session is served only while its account is usable and has the      *)
(* password it had when the login was asked for: a change between any    *)
(* two reads of the login, or after it, ends it, although the account    *)
(* lives in another database and two commands on it that overlap store   *)
(* the same version, or an earlier one (mstyle-v2.identities.ts:229-243, *)
(* 245-319; admin.service.ts:970, 989).                                  *)
SessionsEnd ==
  \A i \in DOMAIN auths :
    Accepted(auths[i]) =>
      /\ StatusOf(account) \in Usable
      /\ auths[i].since = account.password

(* The identity follows its account: restricted at the next lookup when  *)
(* the account is, and active again, after at most two, when it is,      *)
(* through any order of restrictions, approvals and logins               *)
(* (mstyle-v2.identities.ts:286-301).                                    *)
MirrorsAccount ==
  /\ StatusOf(account) \in Usable <=> Refresh(identity).status \in Usable
  /\ StatusOf(account) = "active" => Refresh(Refresh(identity)).status = "active"

=============================================================================
