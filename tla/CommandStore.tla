---------------------------- MODULE CommandStore ----------------------------
(***************************************************************************)
(* OperationsStore.command as it runs: a MongoDB transaction with snapshot *)
(* isolation that looks up the receipt of its key, increments the          *)
(* ownership fence, runs the handler and records the receipt, next to the  *)
(* switches of the owner by operations-migrate.cjs.                        *)
(*                                                                         *)
(* MongoDB: a transaction reads the state as of its first read, its writes *)
(* become visible together at the commit, and a write to a document that   *)
(* another transaction has written since the snapshot, or holds an         *)
(* uncommitted write of, fails with a conflict on which withTransaction    *)
(* starts the callback again.  Only the conflicts on the ownership         *)
(* document are modelled: they subsume those on the others.                *)
(***************************************************************************)
EXTENDS Integers

CONSTANTS Call, Key, Request, Doc, Value, KeyOf, RequestOf, Effect, Writes,
          InitDocs, MaxVersion   \* bound on the version at which the owner still switches

VARIABLES
  mode,      \* settings {key: 'ownership'}.mode
  opened,    \* its ever_opened
  version,   \* how often that document was written (write_serial and the rest)
  holder,    \* the transaction with an uncommitted write of that document
  docs,
  receipts,
  call       \* the calls: where each is, what it read, what it answered

vars == <<mode, opened, version, holder, docs, receipts, call>>

Atomic == INSTANCE AtomicCommands WITH answer <- [c \in Call |-> call[c].answer]

Docs == Atomic!Docs
Receipt == Atomic!Receipt
NoReceipt == Atomic!NoReceipt

NoHolder == "none"

ASSUME StoreAssumption ==
  /\ KeyOf \in [Call -> Key]
  /\ RequestOf \in [Call -> Request]
  /\ Effect \in [Request -> [Docs -> Docs]]
  /\ Writes \in [Request -> SUBSET Doc]
  /\ InitDocs \in Docs
  /\ MaxVersion \in Nat
  /\ NoHolder \notin Call

Stage == {"new", "read", "fenced", "committed", "done"}

CallState ==
  [pc: Stage, version: Nat, mode: Atomic!Mode, docs: Docs,
   receipt: Receipt \cup {NoReceipt},
   answer: {"none", "result", "conflict", "error"}]

-----------------------------------------------------------------------------
TypeOK ==
  /\ mode \in Atomic!Mode
  /\ opened \in BOOLEAN
  /\ version \in Nat
  /\ holder \in Call \cup {NoHolder}
  /\ docs \in Docs
  /\ receipts \in [Key -> Receipt \cup {NoReceipt}]
  /\ call \in [Call -> CallState]

At(c, stage) == call[c].pc = stage

Goto(c, stage) == call' = [call EXCEPT ![c].pc = stage]

\* A call that is not in a transaction has no snapshot.
Outside(stage, a) ==
  [pc |-> stage, version |-> 0, mode |-> "mstyle", docs |-> InitDocs,
   receipt |-> NoReceipt, answer |-> a]

StartAgain(c) == call' = [call EXCEPT ![c] = Outside("new", "none")]

Finish(c, a) == call' = [call EXCEPT ![c] = Outside("done", a)]

Init ==
  /\ mode = "mstyle"
  /\ opened = FALSE
  /\ version = 0
  /\ holder = NoHolder
  /\ docs = InitDocs
  /\ receipts = [k \in Key |-> NoReceipt]
  /\ call = [c \in Call |-> Outside("new", "none")]

\* What a stored receipt answers: its result, or the refusal of a key that was
\* used for another request.
ReplyOf(c, r) == IF r.request = RequestOf[c] THEN "result" ELSE "conflict"

ReleaseFence(c) == holder' = IF holder = c THEN NoHolder ELSE holder

-----------------------------------------------------------------------------
\* A handler may look for the receipt before it prepares its command.
EarlyReceipt(c) ==
  /\ At(c, "new")
  /\ receipts[KeyOf[c]] # NoReceipt
  /\ Finish(c, ReplyOf(c, receipts[KeyOf[c]]))
  /\ UNCHANGED <<mode, opened, version, holder, docs, receipts>>

\* The first read fixes the snapshot.
Begin(c) ==
  /\ At(c, "new")
  /\ call' = [call EXCEPT ![c] =
       [@ EXCEPT !.pc = "read", !.version = version, !.mode = mode, !.docs = docs,
                 !.receipt = receipts[KeyOf[c]]]]
  /\ UNCHANGED <<mode, opened, version, holder, docs, receipts>>

Replay(c) ==
  /\ At(c, "read")
  /\ call[c].receipt # NoReceipt
  /\ Finish(c, ReplyOf(c, call[c].receipt))
  /\ UNCHANGED <<mode, opened, version, holder, docs, receipts>>

\* assertWritable finds no ownership document with mode 'pass' in the snapshot.
Maintenance(c) ==
  /\ At(c, "read")
  /\ call[c].receipt = NoReceipt
  /\ call[c].mode # "pass"
  /\ Finish(c, "error")
  /\ UNCHANGED <<mode, opened, version, holder, docs, receipts>>

\* Variant: the fence is read instead of written, so nothing conflicts on it.
Unfenced(c) == TRUE

Uncontended(c) == holder = NoHolder /\ version = call[c].version

\* assertWritable increments the fence ...
Fence(c) ==
  /\ At(c, "read")
  /\ call[c].receipt = NoReceipt
  /\ call[c].mode = "pass"
  /\ Uncontended(c)
  /\ holder' = c
  /\ Goto(c, "fenced")
  /\ UNCHANGED <<mode, opened, version, docs, receipts>>

\* ... or conflicts, and withTransaction starts again.
FenceConflict(c) ==
  /\ At(c, "read")
  /\ call[c].receipt = NoReceipt
  /\ call[c].mode = "pass"
  /\ ~Uncontended(c)
  /\ StartAgain(c)
  /\ UNCHANGED <<mode, opened, version, holder, docs, receipts>>

\* The handler has run and its writes commit with the receipt, whose key is unique.
Commit(c) ==
  /\ At(c, "fenced")
  /\ receipts[KeyOf[c]] = NoReceipt
  /\ docs' = Atomic!Merge(RequestOf[c], call[c].docs, docs)
  /\ receipts' = [receipts EXCEPT ![KeyOf[c]] =
                    Atomic!Recorded(RequestOf[c], call[c].docs)]
  /\ version' = version + 1
  /\ ReleaseFence(c)
  /\ call' = [call EXCEPT ![c] = Outside("committed", "none")]
  /\ UNCHANGED <<mode, opened>>

Return(c) ==
  /\ At(c, "committed")
  /\ Finish(c, "result")
  /\ UNCHANGED <<mode, opened, version, holder, docs, receipts>>

\* A transient error, or a duplicate key: the transaction is aborted and run again.
Retry(c) ==
  /\ At(c, "read") \/ At(c, "fenced")
  /\ ReleaseFence(c)
  /\ StartAgain(c)
  /\ UNCHANGED <<mode, opened, version, docs, receipts>>

\* The handler refuses, the retries run out, the process dies or the answer is
\* lost, before the commit or after it.
Fail(c) ==
  /\ At(c, "read") \/ At(c, "fenced") \/ At(c, "committed")
  /\ ReleaseFence(c)
  /\ Finish(c, "error")
  /\ UNCHANGED <<mode, opened, version, docs, receipts>>

-----------------------------------------------------------------------------
\* operations-migrate.cjs writes the ownership document, waiting for a
\* transaction that holds it.

WriteOwnership ==
  /\ holder = NoHolder
  /\ version < MaxVersion
  /\ version' = version + 1
  /\ UNCHANGED <<holder, docs, receipts, call>>

Pause == WriteOwnership /\ mode' = "paused" /\ opened' = opened

Open == /\ mode = "paused"
        /\ WriteOwnership
        /\ mode' = "pass" /\ opened' = TRUE

RollbackBeforeOpen == /\ ~opened
                      /\ WriteOwnership
                      /\ mode' = "mstyle" /\ opened' = opened

CallStep(c) ==
  \/ EarlyReceipt(c)
  \/ Begin(c)
  \/ Replay(c)
  \/ Maintenance(c)
  \/ Fence(c)
  \/ FenceConflict(c)
  \/ Commit(c)
  \/ Return(c)
  \/ Retry(c)
  \/ Fail(c)

Next ==
  \/ \E c \in Call : CallStep(c)
  \/ Pause
  \/ Open
  \/ RollbackBeforeOpen

Spec == Init /\ [][Next]_vars

-----------------------------------------------------------------------------
\* Properties.

\* Nothing a command writes becomes visible while Pass does not own the data,
\* even when the owner is switched in the middle of the command.
WritesOnlyWhenOpen ==
  [][docs' # docs \/ receipts' # receipts => mode = "pass" /\ mode' = "pass"]_vars

\* A transaction that has passed the fence is the only one, and what it read is
\* still current: its decisions (free room, sufficient hours, unchanged
\* revision, absent receipt) hold when its writes become visible.
FencedIsCurrent ==
  \A c \in Call : At(c, "fenced") =>
    /\ holder = c
    /\ call[c].docs = docs /\ mode = "pass"
    /\ receipts[KeyOf[c]] = NoReceipt

\* Commands are atomic, serial and executed at most once per key, and a result
\* is only reported once it is recorded.
ImplementsAtomicCommands == Atomic!Spec
=============================================================================
