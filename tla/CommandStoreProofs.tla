------------------------- MODULE CommandStoreProofs -------------------------
(***************************************************************************)
(* Proofs about CommandStore, for any calls, keys, requests and documents: *)
(* the fence makes commands atomic.  The inductive invariant says that an  *)
(* unchanged ownership document means an unchanged database, and that the  *)
(* transaction past the fence is alone with an unchanged document.         *)
(***************************************************************************)
EXTENDS CommandStore, TLAPS

\* What the snapshot of a running transaction is worth.
SnapshotOf(c) ==
  /\ call[c].version <= version
  /\ call[c].version = version =>
       /\ call[c].docs = docs
       /\ call[c].mode = mode
       /\ call[c].receipt = receipts[KeyOf[c]]
  /\ call[c].receipt # NoReceipt => receipts[KeyOf[c]] = call[c].receipt

FencedOf(c) ==
  /\ holder = c
  /\ call[c].version = version
  /\ call[c].mode = "pass"
  /\ call[c].receipt = NoReceipt

CommittedOf(c) ==
  /\ receipts[KeyOf[c]] # NoReceipt
  /\ receipts[KeyOf[c]].request = RequestOf[c]

CallInv(c) ==
  /\ At(c, "read") \/ At(c, "fenced") => SnapshotOf(c)
  /\ At(c, "fenced") => FencedOf(c)
  /\ At(c, "committed") => CommittedOf(c)
  /\ ~At(c, "done") => call[c].answer = "none"

FenceInv ==
  /\ TypeOK
  /\ \A c \in Call : CallInv(c)
  /\ \A c \in Call : holder = c => At(c, "fenced")

LEMMA Stages ==
  {"new", "read", "fenced", "committed", "done"} \subseteq Stage
BY DEF Stage

LEMMA MergeType ==
  ASSUME NEW r \in Request, NEW s \in Docs, NEW t \in Docs
  PROVE  /\ Atomic!Merge(r, s, t) \in Docs
         /\ Atomic!Recorded(r, s) \in Receipt
         /\ Atomic!Recorded(r, s) # NoReceipt
         /\ Atomic!Recorded(r, s).request = r
<1>1. Effect[r][s] \in Docs
  BY StoreAssumption
<1>2. Atomic!Merge(r, s, t) \in Docs
  BY <1>1 DEF Atomic!Merge, Docs, Atomic!Docs
<1>3. Atomic!Recorded(r, s) \in Receipt
  BY <1>1 DEF Atomic!Recorded, Receipt, Atomic!Receipt, Docs
<1>4. Atomic!Recorded(r, s) # NoReceipt
  <2>1. DOMAIN Atomic!Recorded(r, s) = {"request", "result"}
    BY DEF Atomic!Recorded
  <2>2. DOMAIN NoReceipt = {"request"}
    BY DEF NoReceipt, Atomic!NoReceipt
  <2> QED BY <2>1, <2>2
<1> QED BY <1>2, <1>3, <1>4 DEF Atomic!Recorded

LEMMA OutsideType ==
  ASSUME NEW stage \in Stage, NEW a \in {"none", "result", "conflict", "error"}
  PROVE  Outside(stage, a) \in CallState
BY StoreAssumption DEF Outside, CallState, Atomic!Mode

LEMMA InitInv == Init => FenceInv
<1> SUFFICES ASSUME Init
             PROVE  FenceInv
  OBVIOUS
<1>1. TypeOK
  BY OutsideType, Stages, StoreAssumption DEF Init, TypeOK, Atomic!Mode
<1>2. \A c \in Call : CallInv(c)
  BY DEF Init, CallInv, At, Outside
<1>3. \A c \in Call : holder # c
  BY StoreAssumption DEF Init
<1> QED BY <1>1, <1>2, <1>3 DEF FenceInv

\* A step that leaves the database alone and moves one call.
Moves(c) ==
  /\ UNCHANGED <<mode, opened, version, docs, receipts>>
  /\ call' \in [Call -> CallState]
  /\ \A d \in Call \ {c} : call'[d] = call[d]

LEMMA FinishMoves ==
  ASSUME TypeOK, NEW c \in Call, NEW a \in {"result", "conflict", "error"}, Finish(c, a)
  PROVE  /\ call' \in [Call -> CallState]
         /\ \A d \in Call \ {c} : call'[d] = call[d]
         /\ call'[c].pc = "done"
<1>1. Outside("done", a) \in CallState
  BY OutsideType, Stages
<1>2. Outside("done", a).pc = "done"
  BY DEF Outside
<1> QED BY <1>1, <1>2 DEF Finish, TypeOK

LEMMA StartAgainMoves ==
  ASSUME TypeOK, NEW c \in Call, StartAgain(c)
  PROVE  /\ call' \in [Call -> CallState]
         /\ \A d \in Call \ {c} : call'[d] = call[d]
         /\ call'[c].pc = "new" /\ call'[c].answer = "none"
<1>1. Outside("new", "none") \in CallState
  BY OutsideType, Stages
<1>2. Outside("new", "none").pc = "new" /\ Outside("new", "none").answer = "none"
  BY DEF Outside
<1> QED BY <1>1, <1>2 DEF StartAgain, TypeOK

\* The invariant survives a step of one call that leaves the database alone, if
\* the call itself is in order afterwards and no other holder loses the fence.
LEMMA MovesKeepInv ==
  ASSUME FenceInv, NEW c \in Call, Moves(c), CallInv(c)',
         holder' \in Call \cup {NoHolder},
         \A d \in Call \ {c} : holder' = d <=> holder = d,
         holder' = c => call'[c].pc = "fenced"
  PROVE  FenceInv'
<1>1. TypeOK'
  BY DEF FenceInv, TypeOK, Moves
<1>2. \A d \in Call : CallInv(d)'
  <2> SUFFICES ASSUME NEW d \in Call, d # c
               PROVE  CallInv(d)'
    OBVIOUS
  <2>1. call'[d] = call[d] /\ CallInv(d) /\ (holder' = d <=> holder = d)
    BY DEF Moves, FenceInv
  <2> QED BY <2>1 DEF Moves, CallInv, At, SnapshotOf, FencedOf, CommittedOf
<1>3. \A d \in Call : holder' = d => At(d, "fenced")'
  BY DEF FenceInv, At, Moves
<1> QED BY <1>1, <1>2, <1>3 DEF FenceInv

\* Releasing the fence of one call takes it from nobody else.
LEMMA ReleaseKeepsOthers ==
  ASSUME TypeOK, NEW c \in Call, ReleaseFence(c)
  PROVE  /\ holder' \in Call \cup {NoHolder}
         /\ \A d \in Call \ {c} : holder' = d <=> holder = d
         /\ holder' # c
BY StoreAssumption DEF ReleaseFence, TypeOK

LEMMA ReplyTypes ==
  ASSUME NEW c, NEW r
  PROVE  ReplyOf(c, r) \in {"result", "conflict"}
BY DEF ReplyOf

LEMMA CommitInv ==
  ASSUME FenceInv, NEW c \in Call, Commit(c)
  PROVE  FenceInv'
<1>1. CallInv(c) /\ At(c, "fenced") /\ FencedOf(c) /\ SnapshotOf(c) /\ TypeOK
  BY DEF Commit, FenceInv, CallInv
<1>2. /\ KeyOf[c] \in Key /\ RequestOf[c] \in Request /\ call[c].docs \in Docs
      /\ version \in Nat
  BY <1>1, StoreAssumption DEF TypeOK, CallState
<1>3. Outside("committed", "none") \in CallState
  BY OutsideType, Stages
<1>4. /\ receipts' \in [Key -> Receipt \cup {NoReceipt}]
      /\ \A k \in Key \ {KeyOf[c]} : receipts'[k] = receipts[k]
      /\ receipts'[KeyOf[c]] # NoReceipt
      /\ receipts'[KeyOf[c]].request = RequestOf[c]
  BY <1>1, <1>2, MergeType DEF Commit, TypeOK
<1>5. TypeOK'
  <2>1. docs' \in Docs
    BY <1>1, <1>2, MergeType DEF Commit, TypeOK
  <2>2. holder' \in Call \cup {NoHolder}
    BY <1>1 DEF Commit, ReleaseFence, TypeOK
  <2>3. call' \in [Call -> CallState]
    BY <1>1, <1>3 DEF Commit, TypeOK
  <2> QED BY <1>1, <1>2, <1>4, <2>1, <2>2, <2>3 DEF Commit, TypeOK
<1>6. holder' = NoHolder
  BY <1>1 DEF Commit, ReleaseFence, FencedOf
<1>7. CallInv(c)'
  <2>1. call'[c].pc = "committed" /\ call'[c].answer = "none"
    BY <1>1 DEF Commit, Outside, TypeOK
  <2> QED BY <1>4, <2>1 DEF CallInv, At, CommittedOf
<1>8. ASSUME NEW d \in Call, d # c
      PROVE  CallInv(d)'
  <2>1. call'[d] = call[d] /\ CallInv(d) /\ KeyOf[d] \in Key /\ call[d].version \in Nat
    BY <1>1, <1>8, StoreAssumption DEF Commit, TypeOK, FenceInv, CallState
  <2>2. ~At(d, "fenced")
    BY <1>1, <1>8, <2>1 DEF CallInv, FencedOf
  <2>3. receipts[KeyOf[d]] # NoReceipt => receipts'[KeyOf[d]] = receipts[KeyOf[d]]
    BY <1>4, <2>1 DEF Commit
  <2>4. At(d, "read") => SnapshotOf(d)'
    BY <1>2, <2>1, <2>3 DEF CallInv, SnapshotOf, Commit
  <2>5. At(d, "committed") => CommittedOf(d)'
    BY <2>1, <2>3 DEF CallInv, CommittedOf
  <2> QED BY <2>1, <2>2, <2>4, <2>5 DEF CallInv, At
<1>9. \A d \in Call : holder' # d
  BY <1>6, StoreAssumption
<1> QED BY <1>5, <1>7, <1>8, <1>9 DEF FenceInv

LEMMA SwitchInv ==
  ASSUME FenceInv, WriteOwnership, mode' \in Atomic!Mode, opened' \in BOOLEAN
  PROVE  FenceInv'
<1>1. TypeOK' /\ version \in Nat /\ version' = version + 1
  BY DEF WriteOwnership, FenceInv, TypeOK
<1>2. ASSUME NEW d \in Call
      PROVE  CallInv(d)'
  <2>1. CallInv(d) /\ call[d].version \in Nat /\ ~At(d, "fenced")
    BY StoreAssumption DEF FenceInv, TypeOK, CallState, CallInv, FencedOf, WriteOwnership
  <2>2. call' = call /\ receipts' = receipts /\ docs' = docs
    BY DEF WriteOwnership
  <2>3. At(d, "read") => SnapshotOf(d)'
    BY <1>1, <2>1, <2>2 DEF CallInv, SnapshotOf
  <2> QED BY <2>1, <2>2, <2>3 DEF CallInv, At, CommittedOf
<1>3. \A d \in Call : holder' # d
  BY StoreAssumption DEF WriteOwnership
<1> QED BY <1>1, <1>2, <1>3 DEF FenceInv

LEMMA CallStepInv ==
  ASSUME FenceInv, NEW c \in Call, CallStep(c)
  PROVE  FenceInv'
<1>0. TypeOK /\ CallInv(c) /\ call[c] \in CallState
  BY DEF FenceInv, TypeOK
<1>1. ASSUME NEW a \in {"result", "conflict", "error"}, Finish(c, a),
             UNCHANGED <<mode, opened, version, docs, receipts>>,
             ReleaseFence(c) \/ (holder' = holder /\ ~At(c, "fenced"))
      PROVE  FenceInv'
  <2>1. Moves(c) /\ call'[c].pc = "done"
    BY <1>0, <1>1, FinishMoves DEF Moves
  <2>2. CallInv(c)'
    BY <2>1 DEF CallInv, At
  <2>3. /\ holder' \in Call \cup {NoHolder} /\ holder' # c
        /\ \A d \in Call \ {c} : holder' = d <=> holder = d
    BY <1>0, <1>1, ReleaseKeepsOthers DEF FenceInv, TypeOK
  <2> QED BY <2>1, <2>2, <2>3, MovesKeepInv
<1>2. ASSUME StartAgain(c), UNCHANGED <<mode, opened, version, docs, receipts>>,
             ReleaseFence(c) \/ (holder' = holder /\ ~At(c, "fenced"))
      PROVE  FenceInv'
  <2>1. Moves(c) /\ call'[c].pc = "new" /\ call'[c].answer = "none"
    BY <1>0, <1>2, StartAgainMoves DEF Moves
  <2>2. CallInv(c)'
    BY <2>1 DEF CallInv, At
  <2>3. /\ holder' \in Call \cup {NoHolder} /\ holder' # c
        /\ \A d \in Call \ {c} : holder' = d <=> holder = d
    BY <1>0, <1>2, ReleaseKeepsOthers DEF FenceInv, TypeOK
  <2> QED BY <2>1, <2>2, <2>3, MovesKeepInv
<1>3. CASE EarlyReceipt(c) \/ Replay(c) \/ Maintenance(c) \/ Return(c)
  BY <1>1, <1>3, ReplyTypes DEF EarlyReceipt, Replay, Maintenance, Return, At
<1>4. CASE FenceConflict(c)
  BY <1>2, <1>4 DEF FenceConflict, At
<1>5. CASE Retry(c)
  BY <1>2, <1>5 DEF Retry
<1>6. CASE Fail(c)
  BY <1>1, <1>6 DEF Fail
<1>7. CASE Begin(c)
  <2> DEFINE s == [call[c] EXCEPT !.pc = "read", !.version = version, !.mode = mode,
                                  !.docs = docs, !.receipt = receipts[KeyOf[c]]]
  <2>1. KeyOf[c] \in Key
    BY StoreAssumption
  <2>2. s \in CallState
    BY <1>0, <2>1, Stages DEF TypeOK, CallState
  <2>3. Moves(c) /\ call'[c] = s
    BY <1>0, <1>7, <2>2 DEF Begin, Moves, TypeOK
  <2>4. CallInv(c)'
    <3>1. /\ call'[c].pc = "read" /\ call'[c].version = version /\ call'[c].mode = mode
          /\ call'[c].docs = docs /\ call'[c].receipt = receipts[KeyOf[c]]
          /\ call'[c].answer = "none"
      <4>1. /\ s.pc = "read" /\ s.version = version /\ s.mode = mode /\ s.docs = docs
            /\ s.receipt = receipts[KeyOf[c]] /\ s.answer = call[c].answer
        BY <1>0 DEF CallState
      <4>2. call[c].answer = "none"
        BY <1>0, <1>7 DEF Begin, CallInv, At
      <4> HIDE DEF s
      <4> QED BY <2>3, <4>1, <4>2
    <3>2. version' = version /\ docs' = docs /\ mode' = mode /\ receipts' = receipts
      BY <1>7 DEF Begin
    <3> QED BY <1>0, <3>1, <3>2 DEF CallInv, At, SnapshotOf, TypeOK
  <2>5. holder' = holder /\ holder # c
    BY <1>7 DEF Begin, FenceInv, At
  <2> QED BY <1>0, <2>3, <2>4, <2>5, MovesKeepInv DEF TypeOK
<1>8. CASE Fence(c)
  <2>1. Moves(c)
    BY <1>0, <1>8, Stages DEF Fence, Goto, Moves, TypeOK, CallState
  <2>2. /\ call'[c].pc = "fenced" /\ call'[c].version = call[c].version
        /\ call'[c].mode = call[c].mode /\ call'[c].docs = call[c].docs
        /\ call'[c].receipt = call[c].receipt /\ call'[c].answer = call[c].answer
    BY <1>0, <1>8 DEF Fence, Goto, TypeOK, CallState
  <2>3. CallInv(c)'
    <3>1. SnapshotOf(c)'
      BY <1>0, <1>8, <2>1, <2>2 DEF Fence, CallInv, SnapshotOf, Moves
    <3>2. FencedOf(c)'
      BY <1>8, <2>1, <2>2 DEF Fence, Uncontended, FencedOf, Moves
    <3>3. call'[c].answer = "none"
      BY <1>0, <1>8, <2>2 DEF Fence, CallInv, At
    <3> QED BY <2>2, <3>1, <3>2, <3>3 DEF CallInv, At
  <2>4. holder' = c /\ holder = NoHolder
    BY <1>8 DEF Fence, Uncontended
  <2> QED BY <2>1, <2>2, <2>3, <2>4, MovesKeepInv, StoreAssumption
<1>9. CASE Commit(c)
  BY <1>9, CommitInv
<1> QED BY <1>3, <1>4, <1>5, <1>6, <1>7, <1>8, <1>9 DEF CallStep

LEMMA NextInv == FenceInv /\ [Next]_vars => FenceInv'
<1> SUFFICES ASSUME FenceInv, [Next]_vars
             PROVE  FenceInv'
  OBVIOUS
<1>1. CASE \E c \in Call : CallStep(c)
  BY <1>1, CallStepInv
<1>2. CASE Pause \/ Open \/ RollbackBeforeOpen
  <2>1. WriteOwnership /\ mode' \in Atomic!Mode /\ opened' \in BOOLEAN
    BY <1>2 DEF Pause, Open, RollbackBeforeOpen, Atomic!Mode, FenceInv, TypeOK
  <2> QED BY <2>1, SwitchInv
<1>3. CASE UNCHANGED vars
  BY <1>3 DEF vars, FenceInv, TypeOK, CallInv, At, SnapshotOf, FencedOf, CommittedOf
<1> QED BY <1>1, <1>2, <1>3 DEF Next

LEMMA InvHolds == Spec => []FenceInv
BY InitInv, NextInv, PTL DEF Spec

\* The transaction past the fence is alone, and what it read is still true.
THEOREM FencedReadsAreCurrent == Spec => []FencedIsCurrent
<1>1. FenceInv => FencedIsCurrent
  BY DEF FenceInv, CallInv, FencedOf, SnapshotOf, FencedIsCurrent
<1> QED BY <1>1, InvHolds, PTL

\* The switch of the owner never lands inside a command's writes.
THEOREM WritesNeedOwnership == Spec => WritesOnlyWhenOpen
<1> DEFINE Owned == docs' # docs \/ receipts' # receipts => mode = "pass" /\ mode' = "pass"
<1>1. FenceInv /\ [Next]_vars => [Owned]_vars
  <2> SUFFICES ASSUME FenceInv, [Next]_vars, docs' # docs \/ receipts' # receipts
               PROVE  mode = "pass" /\ mode' = "pass"
    OBVIOUS
  <2>1. ~(Pause \/ Open \/ RollbackBeforeOpen \/ UNCHANGED vars)
    BY DEF Pause, Open, RollbackBeforeOpen, WriteOwnership, vars
  <2>2. PICK c \in Call : CallStep(c)
    BY <2>1 DEF Next
  <2>3. Commit(c)
    BY <2>2 DEF CallStep, EarlyReceipt, Begin, Replay, Maintenance, Fence, FenceConflict,
                Return, Retry, Fail
  <2>4. CallInv(c) /\ At(c, "fenced")
    BY <2>3 DEF Commit, FenceInv
  <2>5. mode = "pass"
    BY <2>4 DEF CallInv, FencedOf, SnapshotOf
  <2> QED BY <2>3, <2>5 DEF Commit
<1> QED BY <1>1, InvHolds, PTL DEF Spec, WritesOnlyWhenOpen

-----------------------------------------------------------------------------
\* The refinement.

answers == [c \in Call |-> call[c].answer]

LEMMA RepliesAreReplies ==
  ASSUME FenceInv, NEW c \in Call, NEW a \in {"result", "conflict", "error"},
         Finish(c, a), ~At(c, "done"), UNCHANGED <<mode, docs, receipts>>,
         \/ a = "error"
         \/ receipts[KeyOf[c]] # NoReceipt /\ a = ReplyOf(c, receipts[KeyOf[c]])
  PROVE  Atomic!Reply(c)
<1>1. answers[c] = "none"
  BY DEF FenceInv, CallInv, answers
<1>2. answers' = [answers EXCEPT ![c] = a]
  <2>1. \A d \in Call \ {c} : call'[d] = call[d]
    BY DEF FenceInv, TypeOK, Finish
  <2>2. call'[c].answer = a
    BY DEF FenceInv, TypeOK, Finish, Outside
  <2> QED BY <2>1, <2>2 DEF answers
<1>3. \/ a = "error"
      \/ /\ receipts[KeyOf[c]] # NoReceipt
         /\ receipts[KeyOf[c]].request = RequestOf[c] /\ a = "result"
      \/ /\ receipts[KeyOf[c]] # NoReceipt
         /\ receipts[KeyOf[c]].request # RequestOf[c] /\ a = "conflict"
  BY DEF ReplyOf
<1> QED BY <1>1, <1>2, <1>3 DEF Atomic!Reply, NoReceipt, answers

LEMMA CommitIsExecute ==
  ASSUME FenceInv, NEW c \in Call, Commit(c)
  PROVE  Atomic!Execute(c)
<1>1. CallInv(c) /\ At(c, "fenced") /\ TypeOK
  BY DEF Commit, FenceInv
<1>2. mode = "pass" /\ call[c].docs = docs /\ call[c].answer = "none"
  BY <1>1 DEF CallInv, FencedOf, SnapshotOf, At
<1>3. answers' = answers
  <2>1. \A d \in Call \ {c} : call'[d] = call[d]
    BY <1>1 DEF Commit, TypeOK
  <2>2. call'[c].answer = "none"
    BY <1>1 DEF Commit, TypeOK, Outside
  <2> QED BY <1>2, <2>1, <2>2 DEF answers
<1> QED BY <1>2, <1>3 DEF Commit, Atomic!Execute, NoReceipt, answers

LEMMA CallStepIsAtomic ==
  ASSUME FenceInv, NEW c \in Call, CallStep(c)
  PROVE  Atomic!Execute(c) \/ Atomic!Reply(c) \/ UNCHANGED <<mode, docs, receipts, answers>>
<1>0. CallInv(c) /\ TypeOK
  BY DEF FenceInv
<1>1. CASE EarlyReceipt(c)
  BY <1>1, ReplyTypes, RepliesAreReplies DEF EarlyReceipt, At
<1>2. CASE Replay(c)
  <2>1. receipts[KeyOf[c]] = call[c].receipt
    BY <1>0, <1>2 DEF Replay, CallInv, SnapshotOf
  <2> QED BY <1>2, <2>1, ReplyTypes, RepliesAreReplies DEF Replay, At
<1>3. CASE Maintenance(c) \/ Fail(c)
  BY <1>3, RepliesAreReplies DEF Maintenance, Fail, At
<1>4. CASE Return(c)
  <2>1. CommittedOf(c)
    BY <1>0, <1>4 DEF Return, CallInv
  <2> QED BY <1>4, <2>1, RepliesAreReplies DEF Return, At, CommittedOf, ReplyOf
<1>5. CASE Commit(c)
  BY <1>5, CommitIsExecute
<1>6. CASE FenceConflict(c) \/ Retry(c)
  <2>1. StartAgain(c) /\ call[c].answer = "none" /\ UNCHANGED <<mode, docs, receipts>>
    BY <1>0, <1>6 DEF FenceConflict, Retry, CallInv, At
  <2>2. /\ \A d \in Call \ {c} : call'[d] = call[d]
        /\ call'[c].answer = "none"
    BY <1>0, <2>1, StartAgainMoves
  <2> QED BY <2>1, <2>2 DEF answers
<1>7. CASE Begin(c) \/ Fence(c)
  <2>1. UNCHANGED <<mode, docs, receipts>>
    BY <1>7 DEF Begin, Fence
  <2>2. \A d \in Call \ {c} : call'[d] = call[d]
    BY <1>0, <1>7 DEF Begin, Fence, Goto, TypeOK
  <2>3. call'[c].answer = call[c].answer
    <3>1. call[c] \in CallState
      BY <1>0 DEF TypeOK
    <3>2. CASE Begin(c)
      BY <1>0, <3>1, <3>2 DEF Begin, TypeOK, CallState
    <3>3. CASE Fence(c)
      BY <1>0, <3>1, <3>3 DEF Fence, Goto, TypeOK, CallState
    <3> QED BY <1>7, <3>2, <3>3
  <2> QED BY <2>1, <2>2, <2>3 DEF answers
<1> QED BY <1>1, <1>2, <1>3, <1>4, <1>5, <1>6, <1>7 DEF CallStep

\* The store with its snapshots, conflicts, repeats and crashes implements atomic
\* commands: this is what lets the other modules make a command one action.
THEOREM StoreIsAtomic == Spec => ImplementsAtomicCommands
<1>1. Init => Atomic!Init
  <2> SUFFICES ASSUME Init
               PROVE  Atomic!Init
    OBVIOUS
  <2>1. answers = [c \in Call |-> "none"]
    BY DEF Init, Outside, answers
  <2> QED BY <2>1 DEF Init, Atomic!Init, NoReceipt, answers
<1>2. FenceInv /\ [Next]_vars => [Atomic!Next]_<<mode, docs, receipts, answers>>
  <2> SUFFICES ASSUME FenceInv, [Next]_vars
               PROVE  Atomic!Next \/ UNCHANGED <<mode, docs, receipts, answers>>
    OBVIOUS
  <2>1. CASE \E c \in Call : CallStep(c)
    BY <2>1, CallStepIsAtomic DEF Atomic!Next
  <2>2. CASE Pause \/ Open \/ RollbackBeforeOpen
    <3>1. WriteOwnership /\ mode' \in Atomic!Mode
      BY <2>2 DEF Pause, Open, RollbackBeforeOpen, Atomic!Mode
    <3>2. Atomic!Switch
      BY <3>1 DEF WriteOwnership, Atomic!Switch
    <3> QED BY <3>2 DEF Atomic!Next
  <2>3. CASE UNCHANGED vars
    BY <2>3 DEF vars, answers
  <2> QED BY <2>1, <2>2, <2>3 DEF Next
<1> QED
  BY <1>1, <1>2, InvHolds, PTL DEF Spec, ImplementsAtomicCommands, Atomic!Spec, Atomic!vars,
     answers
=============================================================================
