------------------------ MODULE OnlinePaymentsProofs ------------------------
(***************************************************************************)
(* Proofs about OnlinePayments, for every number of processes, visits,     *)
(* payment ids and faults.  The last part says when the demand for         *)
(* reconciliation stands: what MCOnlinePayments_uncertain.cfg refutes      *)
(* without that condition.                                                 *)
(***************************************************************************)
EXTENDS OnlinePayments, TLAPS

-----------------------------------------------------------------------------
\* Types.

PayId == Payment \cup {NoPayment}
JobName == JobId \cup {Sweeping, Visit}
Seen == {"pending", "succeeded", "canceled"}

\* ProcState with its field sets named, for the provers.
LEMMA ProcFields ==
  /\ ProcState = [pc: Stage, job: JobName, pay: PayId, seen: Seen]
  /\ \A st \in Stage, j \in JobName, p \in PayId, s \in Seen :
       [pc |-> st, job |-> j, pay |-> p, seen |-> s] \in ProcState
  /\ \A r \in ProcState :
       /\ r = [pc |-> r.pc, job |-> r.job, pay |-> r.pay, seen |-> r.seen]
       /\ r.pc \in Stage /\ r.job \in JobName /\ r.pay \in PayId /\ r.seen \in Seen
<1>1. ProcState = [pc: Stage, job: JobName, pay: PayId, seen: Seen]
  <2>1. {"pending"} \cup Final = Seen
    BY DEF Seen, Final
  <2> QED BY <2>1, Zenon DEF ProcState, PayId, JobName
<1> QED BY <1>1

\* A job is the creation or a check, and neither a sweep nor a visit.
LEMMA Names ==
  /\ Check \subseteq JobId /\ CreateJob \in JobId /\ JobId \subseteq JobName
  /\ Sweeping \in JobName /\ Visit \in JobName
  /\ CreateJob \notin Check /\ Sweeping \notin JobId /\ Visit \notin JobId
  /\ Sweeping # Visit
  /\ \A j \in JobId : j # CreateJob => j \in Check
  /\ \A j \in Check : j[1] \in Final /\ j[2] \in Payment /\ j = <<j[1], j[2]>>
<1>1. \A j \in Check : j[1] \in Final /\ j[2] \in Payment /\ j = <<j[1], j[2]>>
  <2> SUFFICES ASSUME NEW j \in Events \X Payment
               PROVE  j[1] \in Final /\ j[2] \in Payment /\ j = <<j[1], j[2]>>
    BY Zenon DEF Check
  <2>1. PICK e \in Events, p \in Payment : j = <<e, p>>
    BY SMT
  <2>2. e \in Final
    BY ProcessAssumption DEF Final
  <2> QED BY <2>1, <2>2
<1>2. CreateJob \notin Check /\ Sweeping \notin Check /\ Visit \notin Check
  BY <1>1 DEF CreateJob, Sweeping, Visit, Final
<1>3. CreateJob # Sweeping /\ CreateJob # Visit /\ Sweeping # Visit
  BY DEF CreateJob, Sweeping, Visit
<1>4. JobId = {CreateJob} \cup Check /\ JobName = JobId \cup {Sweeping, Visit}
  BY Zenon DEF JobId, JobName
<1> QED BY <1>1, <1>2, <1>3, <1>4

\* A process may go to any stage with any payment at hand, and its record stays one.
LEMMA Moves ==
  ASSUME TypeOK, NEW w \in Proc
  PROVE  /\ Idle \in ProcState
         /\ proc[w] \in ProcState
         /\ \A st \in Stage : [proc[w] EXCEPT !.pc = st] \in ProcState
         /\ \A st \in Stage : [Idle EXCEPT !.pc = st] \in ProcState
         /\ \A st \in Stage, j \in JobName : [Idle EXCEPT !.pc = st, !.job = j] \in ProcState
         /\ \A st \in Stage, j \in JobName, s \in Seen :
              [Idle EXCEPT !.pc = st, !.job = j, !.seen = s] \in ProcState
         /\ \A st \in Stage, p \in PayId : [Idle EXCEPT !.pc = st, !.pay = p] \in ProcState
         /\ \A st \in Stage, j \in JobName, p \in PayId :
              [Idle EXCEPT !.pc = st, !.job = j, !.pay = p] \in ProcState
<1>1. Idle \in ProcState
  <2>1. "idle" \in Stage /\ Visit \in JobName /\ NoPayment \in PayId /\ "pending" \in Seen
    BY Names DEF Stage, PayId, Seen
  <2> QED BY <2>1, ProcFields, Zenon DEF Idle
<1>2. proc[w] \in ProcState
  BY DEF TypeOK
<1>3. ASSUME NEW st \in Stage, NEW r \in ProcState
      PROVE  [r EXCEPT !.pc = st] \in ProcState
  BY ProcFields
<1>4. ASSUME NEW st \in Stage, NEW j \in JobName, NEW p \in PayId, NEW s \in Seen,
             NEW r \in ProcState
      PROVE  /\ [r EXCEPT !.pc = st, !.job = j] \in ProcState
             /\ [r EXCEPT !.pc = st, !.job = j, !.seen = s] \in ProcState
             /\ [r EXCEPT !.pc = st, !.pay = p] \in ProcState
             /\ [r EXCEPT !.pc = st, !.job = j, !.pay = p] \in ProcState
  BY ProcFields
<1>5. \A st \in Stage : [proc[w] EXCEPT !.pc = st] \in ProcState
  BY <1>2, <1>3, Zenon
<1>6. \A st \in Stage : [Idle EXCEPT !.pc = st] \in ProcState
  BY <1>1, <1>3, Zenon
<1>7. \A st \in Stage, j \in JobName : [Idle EXCEPT !.pc = st, !.job = j] \in ProcState
  <2>1. NoPayment \in PayId /\ "pending" \in Seen
    BY DEF PayId, Seen
  <2> QED BY <1>1, <1>4, <2>1, Zenon
<1>10. \A st \in Stage, j \in JobName, s \in Seen :
        [Idle EXCEPT !.pc = st, !.job = j, !.seen = s] \in ProcState
  <2>1. NoPayment \in PayId
    BY DEF PayId
  <2> QED BY <1>1, <1>4, <2>1, Zenon
<1>8. \A st \in Stage, p \in PayId : [Idle EXCEPT !.pc = st, !.pay = p] \in ProcState
  <2>1. Visit \in JobName /\ "pending" \in Seen
    BY Names DEF Seen
  <2> QED BY <1>1, <1>4, <2>1, Zenon
<1>9. \A st \in Stage, j \in JobName, p \in PayId :
        [Idle EXCEPT !.pc = st, !.job = j, !.pay = p] \in ProcState
  <2>1. "pending" \in Seen
    BY DEF Seen
  <2> QED BY <1>1, <1>4, <2>1, Zenon
<1> QED BY <1>1, <1>2, <1>5, <1>6, <1>7, <1>8, <1>9, <1>10, Zenon

\* Where a process goes when a function returns or throws.
LEMMA Exits ==
  ASSUME TypeOK, NEW w \in Proc
  PROVE  /\ Returned(w) \in ProcState /\ Returned(w).pc \in {"jobdone", "expire", "idle"}
         /\ Thrown(w) \in ProcState /\ Thrown(w).pc \in {"jobfailed", "idle"}
<1>1. proc[w].job \in JobId \cup {Sweeping, Visit} /\ proc[w].seen \in Seen
  BY ProcFields DEF TypeOK, JobName
<1>3. Sweeping \in JobName /\ proc[w].job \in JobName
  BY <1>1, Names DEF JobName
<1>4. "jobdone" \in Stage /\ "jobfailed" \in Stage /\ "expire" \in Stage
  BY DEF Stage
<1>5. [Idle EXCEPT !.pc = "jobdone", !.job = proc[w].job, !.seen = proc[w].seen] \in ProcState
  BY <1>1, <1>3, <1>4, Moves, Zenon
<1>6. [Idle EXCEPT !.pc = "jobfailed", !.job = proc[w].job] \in ProcState
  BY <1>3, <1>4, Moves, Zenon
<1>7. [Idle EXCEPT !.pc = "expire", !.job = Sweeping] \in ProcState
  BY <1>3, <1>4, Moves, Zenon
<1>8. /\ Idle.pc = "idle"
      /\ [Idle EXCEPT !.pc = "jobdone", !.job = proc[w].job, !.seen = proc[w].seen].pc = "jobdone"
      /\ [Idle EXCEPT !.pc = "jobfailed", !.job = proc[w].job].pc = "jobfailed"
      /\ [Idle EXCEPT !.pc = "expire", !.job = Sweeping].pc = "expire"
  BY DEF Idle
<1>9. \/ Returned(w) = [Idle EXCEPT !.pc = "jobdone", !.job = proc[w].job, !.seen = proc[w].seen]
      \/ Returned(w) = [Idle EXCEPT !.pc = "expire", !.job = Sweeping]
      \/ Returned(w) = Idle
  BY <1>1 DEF Returned
<1>10. \/ Thrown(w) = [Idle EXCEPT !.pc = "jobfailed", !.job = proc[w].job]
       \/ Thrown(w) = Idle
  BY <1>1 DEF Thrown
<1>11. Idle \in ProcState
  BY Moves
<1>12. Returned(w) \in ProcState /\ Thrown(w) \in ProcState
  BY <1>5, <1>6, <1>7, <1>9, <1>10, <1>11, Zenon
<1>13. Returned(w).pc \in {"jobdone", "expire", "idle"} /\ Thrown(w).pc \in {"jobfailed", "idle"}
  BY <1>8, <1>9, <1>10, Zenon
<1> QED BY <1>12, <1>13

-----------------------------------------------------------------------------
\* What is known of the payments at hand.

\* The stages in which a process has a payment at hand, and those in which it
\* has seen the payment's result.
Handling == {"attach", "get", "local", "adopt", "result"}
Resolved == {"local", "adopt", "result"}

\* A payment that anything refers to exists at the provider, and a result that
\* was seen is the payment's.
Known ==
  /\ \A p \in {remembered, pid, intentPid} \ {NoPayment} : provider[p] # "absent"
  /\ \A j \in Check : jobs[j].state # "none" => provider[j[2]] # "absent"
  /\ \A w \in Proc : proc[w].pc \in Handling =>
       proc[w].pay \in Payment /\ provider[proc[w].pay] # "absent"
  /\ \A w \in Proc : proc[w].pc \in Resolved =>
       proc[w].seen = provider[proc[w].pay] /\ proc[w].seen \in Final
  /\ \A w \in Proc : proc[w].job \in Check => provider[proc[w].job[2]] # "absent"

\* Before the provider forgets, it has no payment but the one it remembers;
\* afterwards the intent is too old for another request.
Single ==
  /\ OnePayment
  /\ remembered # NoPayment =>
       \A p \in Payment : provider[p] # "absent" => p = remembered
  /\ remembered = NoPayment =>
       \/ \A p \in Payment : provider[p] = "absent"
       \/ intent = "old" /\ \A w \in Proc : ~At(w, "post")

PayInv == TypeOK /\ Known /\ Single

-----------------------------------------------------------------------------
\* The process records stay typed.

LEMMA SetProc ==
  ASSUME TypeOK, NEW w \in Proc, NEW r \in ProcState, proc' = [proc EXCEPT ![w] = r]
  PROVE  proc' \in [Proc -> ProcState]
BY DEF TypeOK

LEMMA GotoType ==
  ASSUME TypeOK, NEW w \in Proc, NEW st \in Stage, Goto(w, st)
  PROVE  proc' \in [Proc -> ProcState]
<1>1. proc' = [proc EXCEPT ![w] = [proc[w] EXCEPT !.pc = st]]
  BY DEF Goto
<1>2. [proc[w] EXCEPT !.pc = st] \in ProcState
  BY Moves, Zenon
<1> QED BY <1>1, <1>2, SetProc

LEMMA HandleType ==
  ASSUME TypeOK, NEW w \in Proc, NEW st \in Stage, NEW p \in PayId, NEW s \in Seen,
         Handle(w, st, p, s)
  PROVE  proc' \in [Proc -> ProcState]
<1>1. [pc |-> st, job |-> proc[w].job, pay |-> p, seen |-> s] \in ProcState
  BY ProcFields DEF TypeOK
<1> QED BY <1>1, SetProc DEF Handle

LEMMA ReturnType ==
  ASSUME TypeOK, NEW w \in Proc, Return(w) \/ Throw(w)
  PROVE  proc' \in [Proc -> ProcState]
<1>1. Returned(w) \in ProcState /\ Thrown(w) \in ProcState
  BY Exits, Zenon
<1> QED BY <1>1, SetProc DEF Return, Throw

LEMMA StepProcType ==
  ASSUME TypeOK, Known, NEW w \in Proc, Step(w)
  PROVE  proc' \in [Proc -> ProcState]
<1>s. {"idle", "read", "intent", "lookup", "post", "attach", "get", "local",
       "adopt", "result", "jobdone", "jobfailed", "sweep", "expire", "uncertain"} \subseteq Stage
  BY DEF Stage
<1>p. "pending" \in Seen /\ Final \subseteq Seen /\ Payment \subseteq PayId
  BY DEF Seen, Final, PayId
<1>1. CASE Read(w)
  BY <1>1, <1>s, GotoType, ReturnType DEF Read
<1>2. CASE Intend(w)
  BY <1>2, <1>s, GotoType, ReturnType DEF Intend
<1>3. CASE Lookup(w)
  <2>1. intentPid \in PayId
    BY DEF TypeOK, PayId
  <2> QED BY <1>3, <1>s, <1>p, <2>1, GotoType, HandleType, ReturnType DEF Lookup
<1>4. CASE Post(w)
  <2>1. CASE remembered = NoPayment
    BY <1>4, <2>1, <1>s, <1>p, HandleType DEF Post
  <2>2. CASE remembered # NoPayment
    <3>1. remembered \in Payment /\ provider[remembered] \in Seen
      BY <2>2 DEF TypeOK, Known, Seen, Final
    <3> QED BY <1>4, <2>2, <1>s, <1>p, <3>1, HandleType DEF Post
  <2> QED BY <2>1, <2>2
<1>5. CASE Attach(w)
  BY <1>5, <1>s, GotoType, ReturnType DEF Attach
<1>6. CASE Get(w)
  <2>1. proc[w].pay \in PayId
    BY ProcFields DEF TypeOK
  <2> QED BY <1>6, <1>s, <1>p, <2>1, HandleType, ReturnType DEF Get
<1>7. CASE Local(w)
  BY <1>7, <1>s, GotoType, ReturnType DEF Local
<1>8. CASE Adopt(w)
  BY <1>8, <1>s, GotoType DEF Adopt
<1>9. CASE Result(w)
  BY <1>9, ReturnType DEF Result
<1>10. CASE JobDone(w) \/ JobFailed(w)
  <2>1. [Idle EXCEPT !.pc = "sweep"] \in ProcState
    BY <1>s, Moves, Zenon
  <2> QED BY <1>10, <2>1, SetProc DEF JobDone, JobFailed
<1>11. CASE Sweep(w)
  <2>1. Sweeping \in JobName /\ pid \in PayId /\ "expire" \in Stage /\ "get" \in Stage
    BY <1>s, Names DEF PayId, TypeOK
  <2>2. Idle \in ProcState
    BY Moves, Zenon
  <2>3. [Idle EXCEPT !.pc = "expire", !.job = Sweeping] \in ProcState
    BY <2>1, Moves, Zenon
  <2>4. [Idle EXCEPT !.pc = "get", !.job = Sweeping, !.pay = pid] \in ProcState
    BY <2>1, Moves, Zenon
  <2> QED BY <1>11, <2>2, <2>3, <2>4, SetProc DEF Sweep
<1>12. CASE Expire(w)
  <2>1. Idle \in ProcState
    BY Moves, Zenon
  <2> QED BY <1>12, <2>1, SetProc DEF Expire
<1>13. CASE Uncertain(w)
  BY <1>13, ReturnType DEF Uncertain
<1> QED
  BY <1>13, <1>1, <1>2, <1>3, <1>4, <1>5, <1>6, <1>7, <1>8, <1>9, <1>10, <1>11, <1>12 DEF Step

LEMMA OtherProcType ==
  ASSUME TypeOK, Known,
         \/ \E w \in Proc : Fail(w) \/ Crash(w)
         \/ \E w \in Worker : NoJob(w) \/ \E j \in JobId : Claim(w, j)
         \/ \E v \in Visitor : Checkout(v) \/ Poll(v)
  PROVE  proc' \in [Proc -> ProcState]
<1>s. "read" \in Stage /\ "get" \in Stage /\ "sweep" \in Stage
  BY DEF Stage
<1>i. ASSUME NEW w \in Proc PROVE Idle \in ProcState
  BY Moves, Zenon
<1>1. ASSUME NEW w \in Proc, Fail(w) \/ Crash(w)
      PROVE  proc' \in [Proc -> ProcState]
  BY <1>1, <1>i, SetProc, ReturnType DEF Fail, Crash
<1>2. ASSUME NEW w \in Worker, NoJob(w)
      PROVE  proc' \in [Proc -> ProcState]
  BY <1>2, <1>s, GotoType DEF NoJob, Proc
<1>3. ASSUME NEW w \in Worker, NEW j \in JobId, Claim(w, j)
      PROVE  proc' \in [Proc -> ProcState]
  <2>1. w \in Proc /\ j \in JobName
    BY Names DEF Proc
  <2>2. [Idle EXCEPT !.pc = "read", !.job = j] \in ProcState
    BY <1>s, <2>1, Moves, Zenon
  <2>3. j # CreateJob => j[2] \in PayId
    BY Names DEF PayId
  <2>4. j # CreateJob => [Idle EXCEPT !.pc = "get", !.job = j, !.pay = j[2]] \in ProcState
    BY <1>s, <2>1, <2>3, Moves, Zenon
  <2> QED BY <1>3, <2>1, <2>2, <2>4, SetProc DEF Claim
<1>4. ASSUME NEW v \in Visitor, Checkout(v) \/ Poll(v)
      PROVE  proc' \in [Proc -> ProcState]
  <2>1. v \in Proc /\ pid \in PayId
    BY DEF Proc, PayId, TypeOK
  <2>2. [Idle EXCEPT !.pc = "read"] \in ProcState
    BY <1>s, <2>1, Moves, Zenon
  <2>3. [Idle EXCEPT !.pc = "get", !.pay = pid] \in ProcState
    BY <1>s, <2>1, Moves, Zenon
  <2> QED BY <1>4, <2>1, <2>2, <2>3, SetProc DEF Checkout, Poll
<1> QED BY <1>1, <1>2, <1>3, <1>4

-----------------------------------------------------------------------------
\* The other variables stay typed.

BookingType == /\ status \in {"hold", "cancelled", "resolution", "settled"}
               /\ attention \in BOOLEAN
               /\ pid \in Payment \cup {NoPayment}
               /\ lapsed \in BOOLEAN

RecordsType == /\ intent \in {"none", "young", "old"}
               /\ intentPid \in Payment \cup {NoPayment}
               /\ local \in [Payment -> {"none", "pending", "paid", "cancelled"}]
               /\ receipts \subseteq Command

JobsType == /\ jobs \in [JobId -> [state: {"none", "pending", "running", "overrun", "done"},
                                   lease: Worker \cup {"none"}]]
            /\ early \subseteq Check

ExternalType == /\ provider \in [Payment -> {"absent", "pending"} \cup Final]
                /\ remembered \in Payment \cup {NoPayment}
                /\ faults \in 0 .. MaxFaults

LEMMA TypeParts ==
  TypeOK <=> BookingType /\ RecordsType /\ JobsType /\ proc \in [Proc -> ProcState] /\ ExternalType
BY DEF TypeOK, BookingType, RecordsType, JobsType, ExternalType

LEMMA JobType ==
  ASSUME NEW st \in {"none", "pending", "running", "overrun", "done"},
         NEW l \in Worker \cup {"none"}
  PROVE  Job(st, l) \in [state: {"none", "pending", "running", "overrun", "done"},
                         lease: Worker \cup {"none"}]
BY DEF Job

LEMMA AttachType ==
  ASSUME BookingType, RecordsType, NEW p \in Payment, AttachPayment(p)
  PROVE  BookingType' /\ RecordsType'
<1>1. <<"created", p>> \in Command
  BY DEF Command
<1> QED BY <1>1 DEF AttachPayment, BookingType, RecordsType, booking, records

LEMMA ResultType ==
  ASSUME TypeOK, NEW p \in Payment, PaymentSucceeded(p) \/ PaymentCanceled(p)
  PROVE  BookingType' /\ local' \in [Payment -> {"none", "pending", "paid", "cancelled"}]
<1>1. CASE PaymentSucceeded(p)
  BY <1>1 DEF PaymentSucceeded, Conflict, TypeOK, BookingType
<1>2. CASE PaymentCanceled(p)
  BY <1>2 DEF PaymentCanceled, CancelBooking, Paid, TypeOK, BookingType, booking
<1> QED BY <1>1, <1>2

LEMMA StepTypes ==
  ASSUME TypeOK, Known, NEW w \in Proc, Step(w)
  PROVE  BookingType' /\ RecordsType' /\ JobsType' /\ ExternalType'
<1>t. BookingType /\ RecordsType /\ JobsType /\ ExternalType
  BY TypeParts
<1>u. /\ UNCHANGED booking => BookingType'
      /\ UNCHANGED records => RecordsType'
      /\ UNCHANGED <<jobs, early>> => JobsType'
      /\ UNCHANGED external /\ UNCHANGED faults => ExternalType'
  BY <1>t DEF booking, records, external, BookingType, RecordsType, JobsType, ExternalType
<1>c. {IntentCommand, UncertainCommand, ExpireCommand} \subseteq Command
  BY DEF Command
<1>p. proc[w].pc \in Handling => proc[w].pay \in Payment
  BY DEF Known
<1>1. CASE Read(w) \/ Lookup(w) \/ Get(w) \/ Local(w) \/ Sweep(w)
  BY <1>1, <1>u DEF Read, Lookup, Uncertain, Get, Local, Sweep
<1>2. CASE Intend(w)
  BY <1>2, <1>t, <1>u, <1>c DEF Intend, records, RecordsType
<1>3. CASE Uncertain(w)
  <2>1. attention' \in BOOLEAN
    BY <1>3, <1>t, Zenon DEF Uncertain, BookingType
  <2> QED BY <1>3, <2>1, <1>t, <1>u, <1>c DEF Uncertain, BookingType, RecordsType
<1>4. CASE Post(w)
  <2>1. provider' \in [Payment -> {"absent", "pending"} \cup Final]
    BY <1>4, <1>t DEF Post, ExternalType, external
  <2>2. remembered' \in Payment \cup {NoPayment}
    BY <1>4, <1>t DEF Post, ExternalType, external
  <2> QED BY <1>4, <1>t, <1>u, <2>1, <2>2 DEF Post, ExternalType
<1>5. CASE Attach(w) \/ Adopt(w)
  <2>1. proc[w].pay \in Payment /\ AttachPayment(proc[w].pay)
    BY <1>5, <1>p DEF Attach, Adopt, At, Handling
  <2> QED BY <1>5, <1>t, <1>u, <2>1, AttachType DEF Attach, Adopt
<1>6. CASE Result(w)
  <2>1. proc[w].pay \in Payment /\ proc[w].seen \in Final
    BY <1>6, <1>p DEF Result, At, Handling, Resolved, Known
  <2>2. <<proc[w].seen, proc[w].pay>> \in Command
    BY <2>1 DEF Command
  <2>3. CASE UNCHANGED <<booking, records>>
    BY <1>6, <2>3, <1>u DEF Result
  <2>4. CASE /\ PaymentSucceeded(proc[w].pay) \/ PaymentCanceled(proc[w].pay)
             /\ receipts' = receipts \cup {<<proc[w].seen, proc[w].pay>>}
             /\ UNCHANGED <<intent, intentPid>>
    <3>1. BookingType' /\ local' \in [Payment -> {"none", "pending", "paid", "cancelled"}]
      BY <2>1, <2>4, ResultType
    <3>2. RecordsType'
      BY <2>2, <2>4, <3>1, <1>t DEF RecordsType
    <3> QED BY <1>6, <3>1, <3>2, <1>u DEF Result
  <2> QED BY <1>6, <2>3, <2>4 DEF Result
<1>7. CASE JobDone(w) \/ JobFailed(w)
  <2>1. Job("done", "none") \in [state: {"none", "pending", "running", "overrun", "done"},
                                 lease: Worker \cup {"none"}]
    BY JobType
  <2>2. Job("pending", "none") \in [state: {"none", "pending", "running", "overrun", "done"},
                                    lease: Worker \cup {"none"}]
    BY JobType
  <2>3. (early \subseteq Check)'
    BY <1>7, <1>t DEF JobDone, JobFailed, JobsType
  <2>4. jobs' \in [JobId -> [state: {"none", "pending", "running", "overrun", "done"},
                             lease: Worker \cup {"none"}]]
    BY <1>7, <1>t, <2>1, <2>2 DEF JobDone, JobFailed, Release, JobsType
  <2> QED BY <1>7, <2>3, <2>4, <1>u DEF JobDone, JobFailed, JobsType
<1>8. CASE Expire(w)
  <2>1. BookingType'
    BY <1>8, <1>t, <1>u DEF Expire, CancelBooking, Paid, BookingType
  <2>2. RecordsType'
    BY <1>8, <1>t, <1>c DEF Expire, RecordsType
  <2> QED BY <1>8, <2>1, <2>2, <1>u DEF Expire
<1> QED
  BY <1>1, <1>2, <1>3, <1>4, <1>5, <1>6, <1>7, <1>8 DEF Step

LEMMA TypeStep ==
  ASSUME TypeOK, Known, [Next]_vars
  PROVE  TypeOK'
<1>t. BookingType /\ RecordsType /\ JobsType /\ ExternalType /\ proc \in [Proc -> ProcState]
  BY TypeParts
<1>u. /\ UNCHANGED booking => BookingType'
      /\ UNCHANGED records => RecordsType'
      /\ UNCHANGED <<jobs, early>> => JobsType'
      /\ UNCHANGED proc => (proc \in [Proc -> ProcState])'
      /\ UNCHANGED <<external, faults>> => ExternalType'
  BY <1>t DEF booking, records, external, BookingType, RecordsType, JobsType, ExternalType
<1>q. BookingType' /\ RecordsType' /\ JobsType' /\ (proc \in [Proc -> ProcState])' /\ ExternalType'
        => TypeOK'
  BY DEF TypeOK, BookingType, RecordsType, JobsType, ExternalType
<1>1. CASE \E w \in Proc : Step(w)
  BY <1>1, <1>q, StepTypes, StepProcType
<1>2. CASE \E w \in Proc : Fail(w) \/ Crash(w)
  <2>1. (proc \in [Proc -> ProcState])'
    BY <1>2, OtherProcType
  <2>2. ExternalType'
    BY <1>2, <1>t, ProcessAssumption DEF Fail, Crash, ExternalType, external
  <2> QED BY <1>2, <1>q, <1>u, <2>1, <2>2 DEF Fail, Crash
<1>3. CASE \E w \in Worker : NoJob(w) \/ \E j \in JobId : Claim(w, j)
  <2>1. (proc \in [Proc -> ProcState])'
    BY <1>3, OtherProcType
  <2>2. ASSUME NEW w \in Worker, NEW j \in JobId, Claim(w, j)
        PROVE  JobsType'
    <3>1. Job("running", w) \in [state: {"none", "pending", "running", "overrun", "done"},
                                 lease: Worker \cup {"none"}]
      BY JobType
    <3> QED BY <2>2, <3>1, <1>t DEF Claim, JobsType
  <2> QED BY <1>3, <1>q, <1>u, <2>1, <2>2 DEF NoJob, Claim
<1>4. CASE \E v \in Visitor : Checkout(v) \/ Poll(v)
  <2>1. (proc \in [Proc -> ProcState])'
    BY <1>4, OtherProcType
  <2> QED BY <1>4, <1>q, <1>u, <2>1 DEF Checkout, Poll
<1>5. CASE \E j \in JobId : LeaseLapses(j)
  <2>1. JobsType'
    BY <1>5, <1>t DEF LeaseLapses, JobsType
  <2> QED BY <1>5, <1>q, <1>u, <2>1 DEF LeaseLapses
<1>6. CASE \E p \in Payment : \E event \in Events : Webhook(event, p)
  <2>1. Job("pending", "none") \in [state: {"none", "pending", "running", "overrun", "done"},
                                    lease: Worker \cup {"none"}]
    BY JobType
  <2>2. JobsType'
    BY <1>6, <2>1, <1>t DEF Webhook, JobsType
  <2> QED BY <1>6, <1>q, <1>u, <2>2 DEF Webhook
<1>7. CASE \E p \in Payment : \E outcome \in Final : Settle(p, outcome)
  <2>1. ExternalType'
    BY <1>7, <1>t DEF Settle, ExternalType
  <2> QED BY <1>7, <1>q, <1>u, <2>1 DEF Settle
<1>8. CASE Cancel
  <2>1. BookingType'
    BY <1>8, <1>t DEF Cancel, CancelBooking, Paid, BookingType
  <2> QED BY <1>8, <1>q, <1>u, <2>1 DEF Cancel
<1>9. CASE Lapse
  <2>1. BookingType'
    BY <1>9, <1>t DEF Lapse, BookingType
  <2> QED BY <1>9, <1>q, <1>u, <2>1 DEF Lapse
<1>10. CASE IntentAges
  <2>1. RecordsType'
    BY <1>10, <1>t DEF IntentAges, RecordsType
  <2> QED BY <1>10, <1>q, <1>u, <2>1 DEF IntentAges
<1>11. CASE Forget
  <2>1. ExternalType'
    BY <1>11, <1>t DEF Forget, ExternalType
  <2> QED BY <1>11, <1>q, <1>u, <2>1 DEF Forget
<1>12. CASE UNCHANGED vars
  BY <1>12, <1>q, <1>u DEF vars, external
<1> QED
  BY <1>1, <1>2, <1>3, <1>4, <1>5, <1>6, <1>7, <1>8, <1>9, <1>10, <1>11, <1>12 DEF Next

-----------------------------------------------------------------------------
\* References stay known: the provider never loses a payment, and no process
\* gets hold of one that the provider does not have.

ReferencesKnown == \A p \in {remembered, pid, intentPid} \ {NoPayment} : provider[p] # "absent"
JobsKnown == \A j \in Check : jobs[j].state # "none" => provider[j[2]] # "absent"
HandledKnown(w) ==
  /\ proc[w].pc \in Handling => proc[w].pay \in Payment /\ provider[proc[w].pay] # "absent"
  /\ proc[w].pc \in Resolved => proc[w].seen = provider[proc[w].pay] /\ proc[w].seen \in Final
  /\ proc[w].job \in Check => provider[proc[w].job[2]] # "absent"

LEMMA KnownParts ==
  Known <=> ReferencesKnown /\ JobsKnown /\ \A w \in Proc : HandledKnown(w)
BY DEF Known, ReferencesKnown, JobsKnown, HandledKnown

\* A payment the provider has stays, and a final one keeps its result.
LEMMA ProviderKeeps ==
  ASSUME TypeOK, [Next]_vars, NEW p \in Payment
  PROVE  /\ provider[p] # "absent" => provider'[p] # "absent"
         /\ provider[p] \in Final => provider'[p] = provider[p]
<1>1. CASE UNCHANGED provider
  BY <1>1
<1>2. ASSUME NEW w \in Proc, Post(w)
      PROVE  /\ provider[p] # "absent" => provider'[p] # "absent"
             /\ provider[p] \in Final => provider'[p] = provider[p]
  BY <1>2 DEF Post, TypeOK, external, Final
<1>3. ASSUME NEW q \in Payment, NEW outcome \in Final, Settle(q, outcome)
      PROVE  /\ provider[p] # "absent" => provider'[p] # "absent"
             /\ provider[p] \in Final => provider'[p] = provider[p]
  BY <1>3 DEF Settle, TypeOK, Final
<1>4. UNCHANGED provider \/ (\E w \in Proc : Post(w))
        \/ (\E q \in Payment : \E outcome \in Final : Settle(q, outcome))
  BY DEF Next, Step, vars, external, Read, Intend, Lookup, Uncertain, Attach, Get, Local, Adopt, Result,
     JobDone, JobFailed, Sweep, Expire, Fail, Crash, NoJob, Claim, Checkout, Poll,
     LeaseLapses, Webhook, Cancel, Lapse, IntentAges, Forget
<1> QED BY <1>1, <1>2, <1>3, <1>4

LEMMA JobsStep ==
  ASSUME TypeOK, Known, [Next]_vars
  PROVE  JobsKnown'
<1> SUFFICES ASSUME NEW c \in Check, jobs'[c].state # "none"
             PROVE  provider'[c[2]] # "absent"
  BY DEF JobsKnown
<1>j. /\ c[2] \in Payment /\ c = <<c[1], c[2]>> /\ c \in JobId
      /\ jobs \in [JobId -> [state: {"none", "pending", "running", "overrun", "done"},
                              lease: Worker \cup {"none"}]]
  BY Names DEF TypeOK
<1>1. CASE provider[c[2]] # "absent"
  BY <1>1, <1>j, ProviderKeeps
<1>2. CASE jobs[c].state # "none"
  BY <1>1, <1>2 DEF Known
<1>3. CASE jobs'[c] = jobs[c]
  BY <1>2, <1>3
<1>4. ASSUME NEW w \in Proc, JobDone(w) \/ JobFailed(w)
      PROVE  provider[c[2]] # "absent" \/ jobs'[c] = jobs[c]
  <2>1. proc[w].job = c => provider[c[2]] # "absent"
    BY DEF Known
  <2>2. proc[w].job # c => jobs'[c] = jobs[c]
    BY <1>4, <1>j DEF JobDone, JobFailed, Release
  <2> QED BY <2>1, <2>2
<1>5. ASSUME NEW w \in Worker, NEW j \in JobId, Claim(w, j)
      PROVE  jobs[c].state # "none" \/ jobs'[c] = jobs[c]
  BY <1>5, <1>j DEF Claim, Claimable
<1>6. ASSUME NEW j \in JobId, LeaseLapses(j)
      PROVE  jobs[c].state # "none" \/ jobs'[c] = jobs[c]
  BY <1>6, <1>j DEF LeaseLapses
<1>7. ASSUME NEW q \in Payment, NEW event \in Events, Webhook(event, q)
      PROVE  provider[c[2]] # "absent" \/ jobs'[c] = jobs[c]
  <2>1. CASE c = <<event, q>>
    BY <1>7, <2>1 DEF Webhook
  <2>2. CASE c # <<event, q>>
    BY <1>7, <1>j, <2>2 DEF Webhook
  <2> QED BY <2>1, <2>2
<1>8. \/ UNCHANGED jobs
      \/ \E w \in Proc : JobDone(w) \/ JobFailed(w)
      \/ \E w \in Worker : \E j \in JobId : Claim(w, j)
      \/ \E j \in JobId : LeaseLapses(j)
      \/ \E q \in Payment, event \in Events : Webhook(event, q)
  BY DEF Next, Step, vars, Read, Intend, Lookup, Uncertain, Post, Attach, Get, Local, Adopt,
     Result, Sweep, Expire, Fail, Crash, NoJob, Checkout, Poll, Settle, Cancel, Lapse,
     IntentAges, Forget
<1> QED BY <1>1, <1>2, <1>3, <1>4, <1>5, <1>6, <1>7, <1>8

LEMMA ReferencesStep ==
  ASSUME TypeOK, Known, [Next]_vars
  PROVE  ReferencesKnown'
<1> SUFFICES ASSUME NEW p \in {remembered', pid', intentPid'} \ {NoPayment}
             PROVE  provider'[p] # "absent"
  BY DEF ReferencesKnown
<1>1. ASSUME p \in Payment, provider[p] # "absent"
      PROVE  provider'[p] # "absent"
  BY <1>1, ProviderKeeps
<1>2. CASE p \in {remembered, pid, intentPid}
  BY <1>1, <1>2 DEF Known, TypeOK
<1>3. ASSUME NEW w \in Proc, Post(w)
      PROVE  p \in {remembered, pid, intentPid} \/ provider'[p] # "absent"
  BY <1>3 DEF Post, booking, records, external, TypeOK
<1>4. ASSUME NEW w \in Proc, Attach(w) \/ Adopt(w)
      PROVE  p \in {remembered, pid, intentPid} \/ (p \in Payment /\ provider[p] # "absent")
  <2>1. proc[w].pay \in Payment /\ provider[proc[w].pay] # "absent"
    BY <1>4 DEF Attach, Adopt, At, Handling, Known
  <2> QED BY <1>4, <2>1 DEF Attach, Adopt, AttachPayment, booking, records, external
<1>5. (UNCHANGED <<remembered, pid, intentPid>>) \/ (remembered' = NoPayment /\ UNCHANGED <<pid, intentPid>>)
        \/ \E w \in Proc : Post(w) \/ Attach(w) \/ Adopt(w)
  <2>1. CASE \E w \in Proc : Result(w)
    BY <2>1 DEF Result, PaymentSucceeded, PaymentCanceled, CancelBooking, booking, records, external
  <2>2. CASE \E w \in Proc : Expire(w)
    BY <2>2 DEF Expire, CancelBooking, booking, external
  <2>3. CASE Cancel
    BY <2>3 DEF Cancel, CancelBooking, records, external
  <2> QED
    BY <2>1, <2>2, <2>3 DEF Next, Step, vars, booking, records, external, Read, Intend, Lookup, Uncertain, Get,
       Local, JobDone, JobFailed, Sweep, Fail, Crash, NoJob, Claim, Checkout, Poll, LeaseLapses,
       Webhook, Settle, Lapse, IntentAges, Forget
<1> QED BY <1>1, <1>2, <1>3, <1>4, <1>5

\* Where a process goes when a function returns or throws: it has no payment at
\* hand, and its job is the one it had.
LEMMA Leaves ==
  ASSUME TypeOK, NEW w \in Proc
  PROVE  /\ Returned(w).pc \notin Handling \cup {"post"}
         /\ Returned(w).job \in Check => Returned(w).job = proc[w].job
         /\ Thrown(w).pc \notin Handling \cup {"post"}
         /\ Thrown(w).job \in Check => Thrown(w).job = proc[w].job
         /\ Idle.pc \notin Handling \cup {"post"}
         /\ Idle.job \notin Check
<1>1. proc[w].job \in JobId \cup {Sweeping, Visit}
  BY DEF TypeOK, ProcState
<1>2. Idle.pc = "idle" /\ Idle.job = Visit
  BY DEF Idle
<1>3. Visit \notin Check /\ Sweeping \notin Check
  BY Names
<1>4. Returned(w).pc \notin Handling \cup {"post"} /\ Thrown(w).pc \notin Handling \cup {"post"}
  <2>1. Returned(w).pc \in {"jobdone", "expire", "idle"} /\ Thrown(w).pc \in {"jobfailed", "idle"}
    BY Exits
  <2> QED BY <2>1 DEF Handling
<1>5. /\ Returned(w).job \in Check => Returned(w).job = proc[w].job
      /\ Thrown(w).job \in Check => Thrown(w).job = proc[w].job
  BY <1>1, <1>3 DEF Returned, Thrown, Idle
<1> QED BY <1>2, <1>3, <1>4, <1>5 DEF Handling

\* What a step needs to know of the process it moves.
LEMMA SetHandled ==
  ASSUME TypeOK, [Next]_vars, NEW w \in Proc, NEW r, HandledKnown(w),
         proc'[w] = r,
         r.pc \in Handling => r.pay \in Payment /\ provider[r.pay] # "absent",
         r.pc \in Resolved => r.seen = provider[r.pay] /\ r.seen \in Final,
         r.job \in Check => r.job = proc[w].job \/ provider[r.job[2]] # "absent"
  PROVE  HandledKnown(w)'
<1>1. r.pc \in Resolved => r.pc \in Handling
  BY DEF Resolved, Handling
<1>2. r.job \in Check => provider[r.job[2]] # "absent" /\ r.job[2] \in Payment
  BY Names DEF HandledKnown
<1> QED BY <1>1, <1>2, ProviderKeeps DEF HandledKnown

LEMMA HandledStep ==
  ASSUME TypeOK, Known, NEW w \in Proc, Step(w), [Next]_vars
  PROVE  HandledKnown(w)'
<1>k. HandledKnown(w) /\ proc \in [Proc -> ProcState]
  BY KnownParts DEF TypeOK
<1>l. ASSUME proc' = [proc EXCEPT ![w] = Returned(w)] \/ proc' = [proc EXCEPT ![w] = Thrown(w)]
      PROVE  HandledKnown(w)'
  <2>1. proc'[w] = Returned(w) \/ proc'[w] = Thrown(w)
    BY <1>k, <1>l
  <2>2. \A r \in {Returned(w), Thrown(w)} :
          r.pc \notin Handling /\ r.pc \notin Resolved /\ (r.job \in Check => r.job = proc[w].job)
    BY Leaves DEF Handling, Resolved
  <2> QED BY <2>1, <2>2, <1>k, SetHandled
<1>g. ASSUME NEW st \in Stage, Goto(w, st),
             st \in Handling => proc[w].pc \in Handling,
             st \in Resolved => proc[w].pc \in Resolved
      PROVE  HandledKnown(w)'
  <2> DEFINE r == [proc[w] EXCEPT !.pc = st]
  <2>1. proc'[w] = r
    BY <1>k, <1>g DEF Goto
  <2>2. r.pc = st /\ r.pay = proc[w].pay /\ r.seen = proc[w].seen /\ r.job = proc[w].job
    BY <1>k, ProcFields
  <2> HIDE DEF r
  <2> QED BY <1>g, <1>k, <2>1, <2>2, SetHandled DEF HandledKnown
<1>h. ASSUME NEW st \in Stage, NEW p \in Payment, NEW s, Handle(w, st, p, s), provider[p] # "absent",
             st \in Resolved => s = provider[p] /\ s \in Final
      PROVE  HandledKnown(w)'
  <2> DEFINE r == [pc |-> st, job |-> proc[w].job, pay |-> p, seen |-> s]
  <2>1. proc'[w] = r
    BY <1>k, <1>h DEF Handle
  <2>2. r.pc = st /\ r.pay = p /\ r.seen = s /\ r.job = proc[w].job
    OBVIOUS
  <2> HIDE DEF r
  <2> QED BY <1>h, <1>k, <2>1, <2>2, SetHandled
<1>s. {"idle", "read", "intent", "lookup", "post", "attach", "get", "local",
       "adopt", "result", "jobdone", "jobfailed", "sweep", "expire", "uncertain"} \subseteq Stage
  BY DEF Stage
<1>1. CASE Read(w)
  BY <1>1, <1>s, <1>l, <1>g DEF Read, Return, Handling, Resolved
<1>2. CASE Intend(w)
  BY <1>2, <1>s, <1>l, <1>g DEF Intend, Throw, Handling, Resolved
<1>3. CASE Lookup(w)
  <2>1. intentPid # NoPayment => intentPid \in Payment /\ provider[intentPid] # "absent"
    BY DEF TypeOK, Known
  <2> QED BY <1>3, <2>1, <1>s, <1>g, <1>h DEF Lookup, Handling, Resolved
<1>4. CASE Post(w)
  <2>1. CASE remembered # NoPayment
    <3>1. remembered \in Payment /\ provider[remembered] # "absent"
      BY <2>1 DEF TypeOK, Known
    <3> QED BY <1>4, <2>1, <3>1, <1>s, <1>h DEF Post, Resolved
  <2>2. CASE remembered = NoPayment
    <3>1. PICK p \in Payment : /\ provider' = [provider EXCEPT ![p] = "pending"]
                               /\ Handle(w, "attach", p, "pending")
      BY <1>4, <2>2 DEF Post
    <3>2. proc'[w] = [pc |-> "attach", job |-> proc[w].job, pay |-> p, seen |-> "pending"]
      BY <3>1, <1>k DEF Handle
    <3>3. provider'[p] = "pending"
      BY <3>1 DEF TypeOK
    <3>4. proc[w].job \in Check => provider'[proc[w].job[2]] # "absent"
      BY <1>k, Names, ProviderKeeps DEF HandledKnown
    <3> QED BY <3>2, <3>3, <3>4 DEF HandledKnown, Resolved, Handling
  <2> QED BY <2>1, <2>2
<1>5. CASE Attach(w)
  BY <1>5, <1>s, <1>l, <1>g DEF Attach, At, Return, Handling, Resolved
<1>6. CASE Get(w)
  <2>1. proc[w].pay \in Payment /\ provider[proc[w].pay] # "absent"
    BY <1>6, <1>k DEF Get, At, HandledKnown, Handling
  <2> QED BY <1>6, <2>1, <1>s, <1>l, <1>h DEF Get, Return
<1>7. CASE Local(w)
  BY <1>7, <1>s, <1>l, <1>g DEF Local, At, Return, Throw, Handling, Resolved
<1>8. CASE Adopt(w)
  BY <1>8, <1>s, <1>g DEF Adopt, At, Handling, Resolved
<1>9. CASE Result(w)
  BY <1>9, <1>l DEF Result, Return
<1>10. CASE JobDone(w) \/ JobFailed(w)
  <2>1. proc'[w] = [Idle EXCEPT !.pc = "sweep"]
    BY <1>10, <1>k DEF JobDone, JobFailed
  <2>2. [Idle EXCEPT !.pc = "sweep"].pc = "sweep" /\ [Idle EXCEPT !.pc = "sweep"].job = Visit
    BY DEF Idle
  <2> QED BY <2>1, <2>2, Names DEF HandledKnown, Handling, Resolved
<1>11. CASE Sweep(w)
  <2> DEFINE toExpire == [Idle EXCEPT !.pc = "expire", !.job = Sweeping]
             toGet == [Idle EXCEPT !.pc = "get", !.job = Sweeping, !.pay = pid]
  <2>1. /\ toExpire.pc = "expire" /\ toExpire.job = Sweeping
        /\ toGet.pc = "get" /\ toGet.job = Sweeping /\ toGet.pay = pid
        /\ Idle.pc = "idle" /\ Idle.job = Visit
    BY DEF Idle
  <2>2. \/ proc'[w] = Idle
        \/ proc'[w] = toExpire
        \/ proc'[w] = toGet /\ pid # NoPayment
    BY <1>11, <1>k DEF Sweep
  <2>3. pid # NoPayment => pid \in Payment /\ provider[pid] # "absent"
    BY DEF TypeOK, Known
  <2>4. Sweeping \notin Check /\ Visit \notin Check
    BY Names
  <2> HIDE DEF toExpire, toGet
  <2>5. CASE proc'[w] = toGet /\ pid # NoPayment
    BY <2>1, <2>3, <2>4, <2>5, <1>k, SetHandled DEF Handling, Resolved
  <2>6. CASE proc'[w] = Idle \/ proc'[w] = toExpire
    BY <2>1, <2>4, <2>6, <1>k, SetHandled DEF Handling, Resolved
  <2> QED BY <2>2, <2>5, <2>6
<1>12. CASE Expire(w)
  BY <1>12, <1>k, Leaves DEF Expire, HandledKnown, Resolved, Handling
<1>13. CASE Uncertain(w)
  BY <1>13, <1>l DEF Uncertain, Throw
<1> QED
  BY <1>13, <1>1, <1>2, <1>3, <1>4, <1>5, <1>6, <1>7, <1>8, <1>9, <1>10, <1>11, <1>12 DEF Step

\* Processes that take no step of their own.
LEMMA OthersHandled ==
  ASSUME TypeOK, Known, [Next]_vars, NEW w \in Proc, proc'[w] = proc[w]
  PROVE  HandledKnown(w)'
<1>1. HandledKnown(w)
  BY KnownParts
<1>2. proc[w].job \in Check => proc[w].job[2] \in Payment
  BY Names
<1> QED BY <1>1, <1>2, ProviderKeeps DEF HandledKnown, Resolved, Handling

LEMMA FreshHandled ==
  ASSUME TypeOK, Known, [Next]_vars, NEW w \in Proc,
         \/ Fail(w) \/ Crash(w) \/ NoJob(w)
         \/ \E j \in JobId : Claim(w, j)
         \/ Checkout(w) \/ Poll(w)
  PROVE  HandledKnown(w)'
<1>k. HandledKnown(w) /\ proc \in [Proc -> ProcState]
  BY KnownParts DEF TypeOK
<1>n. Sweeping \notin Check /\ Visit \notin Check /\ CreateJob \notin Check
  BY Names
<1>1. CASE Fail(w) \/ Crash(w)
  <2>1. proc'[w] \in {Idle, Returned(w), Thrown(w)}
    BY <1>1, <1>k DEF Fail, Crash, Throw
  <2>2. \A r \in {Idle, Returned(w), Thrown(w)} :
          r.pc \notin Handling /\ r.pc \notin Resolved /\ (r.job \in Check => r.job = proc[w].job)
    BY Leaves DEF Handling, Resolved
  <2> QED BY <2>1, <2>2, <1>k, SetHandled
<1>2. CASE NoJob(w)
  <2> DEFINE r == [proc[w] EXCEPT !.pc = "sweep"]
  <2>1. proc'[w] = r
    BY <1>2, <1>k DEF NoJob, Goto
  <2>2. r.pc = "sweep" /\ r.job = proc[w].job
    BY <1>k, ProcFields
  <2> HIDE DEF r
  <2> QED BY <2>1, <2>2, <1>k, SetHandled DEF Handling, Resolved
<1>3. ASSUME NEW j \in JobId, Claim(w, j)
      PROVE  HandledKnown(w)'
  <2> DEFINE create == [Idle EXCEPT !.pc = "read", !.job = j]
             check == [Idle EXCEPT !.pc = "get", !.job = j, !.pay = j[2]]
  <2>1. /\ create.pc = "read" /\ create.job = j
        /\ check.pc = "get" /\ check.job = j /\ check.pay = j[2]
    BY DEF Idle
  <2>2. (proc'[w] = create /\ j = CreateJob) \/ (proc'[w] = check /\ j # CreateJob)
    BY <1>3, <1>k DEF Claim
  <2>3. jobs[j].state # "none"
    BY <1>3 DEF Claim, Claimable
  <2>4. j # CreateJob => j[2] \in Payment /\ provider[j[2]] # "absent"
    BY <2>3, Names DEF Known
  <2> HIDE DEF create, check
  <2>6. CASE proc'[w] = create /\ j = CreateJob
    BY <2>1, <2>6, <1>k, <1>n, SetHandled DEF Handling, Resolved
  <2>7. CASE proc'[w] = check /\ j # CreateJob
    BY <2>1, <2>4, <2>7, <1>k, SetHandled DEF Handling, Resolved
  <2> QED BY <2>2, <2>6, <2>7
<1>4. CASE Checkout(w) \/ Poll(w)
  <2> DEFINE create == [Idle EXCEPT !.pc = "read"]
             check == [Idle EXCEPT !.pc = "get", !.pay = pid]
  <2>1. /\ create.pc = "read" /\ create.job = Visit
        /\ check.pc = "get" /\ check.job = Visit /\ check.pay = pid
    BY DEF Idle
  <2>2. proc'[w] = create \/ (proc'[w] = check /\ pid # NoPayment)
    BY <1>4, <1>k DEF Checkout, Poll
  <2>3. pid # NoPayment => pid \in Payment /\ provider[pid] # "absent"
    BY DEF TypeOK, Known
  <2> HIDE DEF create, check
  <2>4. CASE proc'[w] = create
    BY <2>1, <2>4, <1>k, <1>n, SetHandled DEF Handling, Resolved
  <2>5. CASE proc'[w] = check /\ pid # NoPayment
    BY <2>1, <2>3, <2>5, <1>k, <1>n, SetHandled DEF Handling, Resolved
  <2> QED BY <2>2, <2>4, <2>5
<1> QED BY <1>1, <1>2, <1>3, <1>4

\* At most one process moves in a step.
LEMMA OneMoves ==
  ASSUME TypeOK, [Next]_vars
  PROVE  \/ UNCHANGED proc
         \/ \E w \in Proc :
              /\ \A v \in Proc \ {w} : proc'[v] = proc[v]
              /\ \/ Step(w) \/ Fail(w) \/ Crash(w) \/ NoJob(w)
                 \/ \E j \in JobId : Claim(w, j)
                 \/ Checkout(w) \/ Poll(w)
<1>t. proc \in [Proc -> ProcState] /\ Worker \subseteq Proc /\ Visitor \subseteq Proc
  BY DEF TypeOK, Proc
<1>1. ASSUME NEW w \in Proc, NEW v \in Proc \ {w}, Step(w)
      PROVE  proc'[v] = proc[v]
  BY <1>t, <1>1 DEF Step, Goto, Handle, Return, Throw, Read, Intend, Lookup, Uncertain, Post, Attach, Get,
     Local, Adopt, Result, JobDone, JobFailed, Sweep, Expire
<1>2. ASSUME NEW w \in Proc, NEW v \in Proc \ {w},
             \/ Fail(w) \/ Crash(w) \/ NoJob(w)
             \/ \E j \in JobId : Claim(w, j)
             \/ Checkout(w) \/ Poll(w)
      PROVE  proc'[v] = proc[v]
  BY <1>t, <1>2 DEF Fail, Crash, Throw, NoJob, Goto, Claim, Checkout, Poll
<1>3. \/ UNCHANGED proc
      \/ \E w \in Proc : \/ Step(w) \/ Fail(w) \/ Crash(w) \/ NoJob(w)
                         \/ \E j \in JobId : Claim(w, j)
                         \/ Checkout(w) \/ Poll(w)
  BY <1>t DEF Next, vars, LeaseLapses, Webhook, Settle, Cancel, Lapse, IntentAges, Forget
<1> QED BY <1>1, <1>2, <1>3

LEMMA KnownStep ==
  ASSUME TypeOK, Known, [Next]_vars
  PROVE  Known'
<1>1. ReferencesKnown' /\ JobsKnown'
  BY ReferencesStep, JobsStep
<1>2. ASSUME NEW v \in Proc
      PROVE  HandledKnown(v)'
  <2>1. CASE UNCHANGED proc
    BY <2>1, OthersHandled
  <2>2. ASSUME NEW w \in Proc,
               \A u \in Proc \ {w} : proc'[u] = proc[u],
               \/ Step(w) \/ Fail(w) \/ Crash(w) \/ NoJob(w)
               \/ \E j \in JobId : Claim(w, j)
               \/ Checkout(w) \/ Poll(w)
        PROVE  HandledKnown(v)'
    <3>1. CASE v = w
      BY <2>2, <3>1, HandledStep, FreshHandled
    <3>2. CASE v # w
      BY <2>2, <3>2, OthersHandled
    <3> QED BY <3>1, <3>2
  <2> QED BY <2>1, <2>2, OneMoves
<1> QED BY <1>1, <1>2 DEF Known, ReferencesKnown, JobsKnown, HandledKnown

-----------------------------------------------------------------------------
\* One payment.

\* An old intent stays old.
LEMMA IntentStaysOld ==
  ASSUME [Next]_vars, intent = "old"
  PROVE  intent' = "old"
<1>1. ASSUME NEW w \in Proc, Step(w)
      PROVE  intent' = "old"
  BY <1>1 DEF Step, Read, Intend, Lookup, Uncertain, Post, Attach, AttachPayment, Get, Local, Adopt, Result,
     JobDone, JobFailed, Sweep, Expire, records
<1> QED
  BY <1>1 DEF Next, vars, records, Fail, Crash, NoJob, Claim, Checkout, Poll, LeaseLapses,
     Webhook, Settle, Cancel, Lapse, IntentAges, Forget

\* Only a young intent sends a process to the provider.
LEMMA PostsWhenYoung ==
  ASSUME TypeOK, [Next]_vars, NEW v \in Proc, proc'[v].pc = "post"
  PROVE  proc[v].pc = "post" \/ intent = "young"
<1>k. proc \in [Proc -> ProcState]
  BY DEF TypeOK
<1>l. Idle.pc # "post" /\ Returned(v).pc # "post" /\ Thrown(v).pc # "post"
  BY Leaves
<1>g. ASSUME NEW st, Goto(v, st) PROVE proc'[v].pc = st
  BY <1>k, <1>g, ProcFields DEF Goto
<1>h. ASSUME NEW st, NEW p, NEW s, Handle(v, st, p, s) PROVE proc'[v].pc = st
  BY <1>k, <1>h DEF Handle
<1>r. ASSUME Return(v) \/ Throw(v) PROVE FALSE
  BY <1>k, <1>l, <1>r DEF Return, Throw
<1>i. ASSUME proc' = [proc EXCEPT ![v] = Idle] PROVE FALSE
  BY <1>k, <1>l, <1>i
<1>1. CASE proc'[v] = proc[v]
  BY <1>1
<1>2. CASE Step(v)
  <2>1. CASE Read(v) \/ Intend(v) \/ Attach(v) \/ Local(v) \/ Adopt(v)
    BY <2>1, <1>g, <1>r DEF Read, Intend, Attach, Local, Adopt
  <2>2. CASE Lookup(v) \/ Uncertain(v)
    BY <2>2, <1>g, <1>h, <1>r DEF Lookup, MayRequest, Uncertain
  <2>3. CASE Post(v)
    BY <2>3, <1>h DEF Post
  <2>4. CASE Get(v) \/ Result(v)
    BY <2>4, <1>h, <1>r DEF Get, Result
  <2>5. CASE JobDone(v) \/ JobFailed(v)
    <3>1. proc'[v] = [Idle EXCEPT !.pc = "sweep"]
      BY <2>5, <1>k DEF JobDone, JobFailed
    <3> QED BY <3>1 DEF Idle
  <2>6. CASE Sweep(v) \/ Expire(v)
    <3>1. proc'[v] \in {Idle, [Idle EXCEPT !.pc = "expire", !.job = Sweeping],
                        [Idle EXCEPT !.pc = "get", !.job = Sweeping, !.pay = pid]}
      BY <2>6, <1>k DEF Sweep, Expire
    <3>2. /\ [Idle EXCEPT !.pc = "expire", !.job = Sweeping].pc = "expire"
          /\ [Idle EXCEPT !.pc = "get", !.job = Sweeping, !.pay = pid].pc = "get"
      BY DEF Idle
    <3>3. proc'[v].pc \in {Idle.pc, "expire", "get"}
      BY <3>1, <3>2, Zenon
    <3> QED BY <3>3, <1>l
  <2> QED BY <1>2, <2>1, <2>2, <2>3, <2>4, <2>5, <2>6 DEF Step
<1>3. CASE Fail(v) \/ Crash(v) \/ NoJob(v)
  BY <1>3, <1>g, <1>r, <1>i DEF Fail, Crash, NoJob
<1>4. CASE (\E j \in JobId : Claim(v, j)) \/ Checkout(v) \/ Poll(v)
  <2>1. CASE Checkout(v) \/ Poll(v)
    <3>1. proc'[v] \in {[Idle EXCEPT !.pc = "read"], [Idle EXCEPT !.pc = "get", !.pay = pid]}
      BY <2>1, <1>k DEF Checkout, Poll
    <3> QED BY <3>1 DEF Idle
  <2>2. ASSUME NEW j \in JobId, Claim(v, j)
        PROVE  FALSE
    <3>1. proc'[v] \in {[Idle EXCEPT !.pc = "read", !.job = j],
                        [Idle EXCEPT !.pc = "get", !.job = j, !.pay = j[2]]}
      BY <2>2, <1>k DEF Claim
    <3> QED BY <3>1 DEF Idle
  <2> QED BY <1>4, <2>1, <2>2
<1> QED BY <1>1, <1>2, <1>3, <1>4, OneMoves

LEMMA SingleStep ==
  ASSUME PayInv, [Next]_vars
  PROVE  Single'
<1>t. TypeOK /\ Known /\ Single
  BY DEF PayInv
<1>1. ASSUME NEW w \in Proc, Post(w)
      PROVE  Single'
  <2>1. At(w, "post")
    BY <1>1 DEF Post
  <2>2. CASE remembered # NoPayment
    <3>1. UNCHANGED <<provider, remembered, intent>>
      BY <1>1, <2>2 DEF Post, external, records
    <3> QED BY <1>t, <2>2, <3>1 DEF Single, OnePayment
  <2>3. CASE remembered = NoPayment
    <3>1. \A p \in Payment : provider[p] = "absent"
      BY <1>t, <2>1, <2>3 DEF Single
    <3>2. PICK p \in Payment : provider' = [provider EXCEPT ![p] = "pending"] /\ remembered' = p
      BY <1>1, <2>3 DEF Post
    <3>3. p # NoPayment
      BY ProcessAssumption
    <3>4. \A q \in Payment : provider'[q] # "absent" => q = p
      BY <1>t, <3>1, <3>2 DEF TypeOK
    <3> QED BY <3>2, <3>3, <3>4 DEF Single, OnePayment
  <2> QED BY <2>2, <2>3
<1>2. CASE Forget
  BY <1>2, <1>t DEF Forget, Single, OnePayment, At, booking, records
<1>3. ASSUME NEW q \in Payment, NEW outcome \in Final, Settle(q, outcome)
      PROVE  Single'
  <2>1. \A p \in Payment : provider'[p] = "absent" <=> provider[p] = "absent"
    BY <1>3, <1>t DEF Settle, TypeOK, Final
  <2>2. UNCHANGED <<remembered, intent, proc>>
    BY <1>3 DEF Settle, records
  <2> QED BY <1>t, <2>1, <2>2 DEF Single, OnePayment, At
<1>4. CASE UNCHANGED <<provider, remembered>>
  <2>1. /\ intent = "old" => intent' = "old"
        /\ \A w \in Proc : proc'[w].pc = "post" => proc[w].pc = "post" \/ intent = "young"
    BY <1>t, IntentStaysOld, PostsWhenYoung
  <2> QED BY <1>4, <1>t, <2>1 DEF Single, OnePayment, At
<1>5. \/ UNCHANGED <<provider, remembered>>
      \/ \E w \in Proc : Post(w)
      \/ \E q \in Payment : \E outcome \in Final : Settle(q, outcome)
      \/ Forget
  BY DEF Next, Step, vars, external, Read, Intend, Lookup, Uncertain, Attach, Get, Local, Adopt, Result,
     JobDone, JobFailed, Sweep, Expire, Fail, Crash, NoJob, Claim, Checkout, Poll,
     LeaseLapses, Webhook, Cancel, Lapse, IntentAges
<1> QED BY <1>1, <1>2, <1>3, <1>4, <1>5

LEMMA PayInvHolds == Spec => []PayInv
<1>1. Init => PayInv
  <2> SUFFICES ASSUME Init PROVE PayInv
    OBVIOUS
  <2>1. Idle \in ProcState /\ Idle.pc = "idle" /\ Idle.job = Visit
    <3>1. "idle" \in Stage /\ Visit \in JobName /\ NoPayment \in PayId /\ "pending" \in Seen
      BY Names DEF Stage, PayId, Seen
    <3> QED BY <3>1, ProcFields, Zenon DEF Idle
  <2>2. /\ Job("pending", "none") \in [state: {"none", "pending", "running", "overrun", "done"},
                                       lease: Worker \cup {"none"}]
        /\ Job("none", "none") \in [state: {"none", "pending", "running", "overrun", "done"},
                                    lease: Worker \cup {"none"}]
        /\ Job("none", "none").state = "none"
    BY DEF Job
  <2>3. TypeOK
    <3>1. proc \in [Proc -> ProcState]
      BY <2>1 DEF Init
    <3>2. JobsType
      BY <2>2 DEF Init, JobsType
    <3>3. BookingType
      BY Zenon DEF Init, BookingType
    <3>4. RecordsType
      BY DEF Init, RecordsType
    <3>5. ExternalType
      BY ProcessAssumption DEF Init, ExternalType
    <3> QED BY <3>1, <3>2, <3>3, <3>4, <3>5, TypeParts
  <2>4. Known
    BY <2>1, <2>2, Names, ProcessAssumption DEF Init, Known, Handling, Resolved, NoPayment
  <2>5. Single
    BY DEF Init, Single, OnePayment
  <2> QED BY <2>3, <2>4, <2>5 DEF PayInv
<1>2. PayInv /\ [Next]_vars => PayInv'
  BY TypeStep, KnownStep, SingleStep DEF PayInv
<1> QED BY <1>1, <1>2, PTL DEF Spec

\* The variables keep their types; OperationsPayments' data and processes.
THEOREM TypesKept == Spec => []TypeOK
<1>1. PayInv => TypeOK
  BY DEF PayInv
<1> QED BY <1>1, PayInvHolds, PTL

\* However many processes retry the creation, and whatever answers are lost, the
\* provider holds at most one payment for the booking (createPayment's key and
\* its 23 hours).
THEOREM NeverPaidTwice == Spec => []OnePayment
<1>1. PayInv => OnePayment
  BY DEF PayInv, Single
<1> QED BY <1>1, PayInvHolds, PTL

-----------------------------------------------------------------------------
\* Money of a booking that does not take place.

LEMMA FlagStep ==
  ASSUME TypeOK, Known, MoneyIsFlagged, [Next]_vars
  PROVE  MoneyIsFlagged'
<1>1. CASE UNCHANGED <<status, attention, local>>
  BY <1>1 DEF MoneyIsFlagged, Paid
<1>2. CASE Cancel
  BY <1>2 DEF Cancel, CancelBooking, MoneyIsFlagged, Paid, records
<1>3. ASSUME NEW w \in Proc, Expire(w)
      PROVE  MoneyIsFlagged'
  BY <1>3 DEF Expire, CancelBooking, MoneyIsFlagged, Paid, booking
<1>4. ASSUME NEW w \in Proc, Uncertain(w)
      PROVE  MoneyIsFlagged'
  <2>1. UNCHANGED <<status, local>> /\ (attention => attention')
    BY <1>4 DEF Uncertain, TypeOK
  <2> QED BY <2>1 DEF MoneyIsFlagged, Paid
<1>5. ASSUME NEW w \in Proc, Attach(w) \/ Adopt(w)
      PROVE  MoneyIsFlagged'
  <2>1. AttachPayment(proc[w].pay)
    BY <1>5 DEF Attach, Adopt
  <2>2. UNCHANGED <<status, attention>>
    BY <2>1 DEF AttachPayment, booking
  <2>3. \A q \in Payment : local'[q] = "paid" => local[q] = "paid"
    BY <2>1 DEF AttachPayment, records, TypeOK
  <2> QED BY <2>2, <2>3 DEF MoneyIsFlagged, Paid
<1>6. ASSUME NEW w \in Proc, Result(w)
      PROVE  MoneyIsFlagged'
  <2>1. proc[w].pay \in Payment
    BY <1>6 DEF Result, At, Known, Handling
  <2>2. CASE UNCHANGED <<booking, records>>
    BY <2>2, <1>1 DEF booking, records
  <2>3. CASE PaymentSucceeded(proc[w].pay)
    BY <2>3 DEF PaymentSucceeded, Conflict, MoneyIsFlagged, TypeOK
  <2>4. CASE PaymentCanceled(proc[w].pay)
    <3>1. Paid' <=> Paid
      BY <2>1, <2>4 DEF PaymentCanceled, Paid, TypeOK
    <3> QED BY <2>4, <3>1 DEF PaymentCanceled, CancelBooking, MoneyIsFlagged, booking
  <2> QED BY <1>6, <2>2, <2>3, <2>4 DEF Result
<1>7. \/ UNCHANGED <<status, attention, local>>
      \/ Cancel
      \/ \E w \in Proc : Expire(w) \/ Uncertain(w) \/ Attach(w) \/ Adopt(w) \/ Result(w)
  BY DEF Next, Step, vars, booking, records, Read, Intend, Lookup, Post, Get, Local,
     JobDone, JobFailed, Sweep, Fail, Crash, NoJob, Claim, Checkout, Poll,
     LeaseLapses, Webhook, Settle, Lapse, IntentAges, Forget
<1> QED BY <1>1, <1>2, <1>3, <1>4, <1>5, <1>6, <1>7

\* Received money of a cancelled or contested booking is always flagged
\* (cancelInTransaction and the payment.result command).
THEOREM MoneyNeverLost == Spec => []MoneyIsFlagged
<1>1. Init => MoneyIsFlagged
  BY DEF Init, MoneyIsFlagged
<1>2. PayInv /\ MoneyIsFlagged /\ [Next]_vars => MoneyIsFlagged'
  BY FlagStep DEF PayInv
<1> QED BY <1>1, <1>2, PayInvHolds, PTL DEF Spec

-----------------------------------------------------------------------------
\* Results are final.

\* A booking that a result has decided about has that result's receipt, and a
\* receipt of a success is of a payment that succeeded.
Receipted ==
  /\ \A p \in Payment : Ran(<<"succeeded", p>>) => provider[p] = "succeeded"
  /\ status \in {"settled", "resolution"} => \E p \in Payment : Ran(<<"succeeded", p>>)

LEMMA ReceiptsGrow ==
  ASSUME [Next]_vars
  PROVE  receipts \subseteq receipts'
<1>1. ASSUME NEW w \in Proc, Step(w)
      PROVE  receipts \subseteq receipts'
  BY <1>1 DEF Step, Read, Intend, Lookup, Uncertain, Post, Attach, AttachPayment, Get, Local, Adopt, Result,
     JobDone, JobFailed, Sweep, Expire, records
<1> QED
  BY <1>1 DEF Next, vars, records, Fail, Crash, NoJob, Claim, Checkout, Poll, LeaseLapses,
     Webhook, Settle, Cancel, Lapse, IntentAges, Forget

\* Only a result not applied before decides about the room.
LEMMA Decides ==
  ASSUME PayInv, Receipted, [Next]_vars
  PROVE  \/ status' \in {status, "cancelled"}
         \/ /\ status \notin {"settled", "resolution"}
            /\ \E p \in Payment : <<"succeeded", p>> \in receipts'
<1>t. TypeOK /\ Known /\ OnePayment
  BY DEF PayInv, Single
<1>1. ASSUME NEW w \in Proc, Result(w), status' # status
      PROVE  \/ status' \in {status, "cancelled"}
             \/ /\ status \notin {"settled", "resolution"}
                /\ \E p \in Payment : <<"succeeded", p>> \in receipts'
  <2> DEFINE p == proc[w].pay
  <2>1. p \in Payment /\ proc[w].seen = provider[p] /\ proc[w].seen \in Final
    BY <1>1, <1>t DEF Result, At, Known, Handling, Resolved
  <2>2. ~Ran(<<proc[w].seen, p>>) /\ receipts' = receipts \cup {<<proc[w].seen, p>>}
    BY <1>1 DEF Result, booking
  <2>3. CASE proc[w].seen # "succeeded"
    BY <1>1, <2>3 DEF Result, PaymentCanceled, CancelBooking, booking
  <2>4. CASE proc[w].seen = "succeeded"
    <3>1. ASSUME NEW q \in Payment, Ran(<<"succeeded", q>>)
          PROVE  FALSE
      <4>1. provider[q] = "succeeded" /\ provider[p] = "succeeded"
        BY <2>1, <2>4, <3>1 DEF Receipted
      <4>2. p = q
        BY <1>t, <2>1, <4>1 DEF OnePayment
      <4> QED BY <2>2, <2>4, <3>1, <4>2
    <3>2. status \notin {"settled", "resolution"}
      BY <3>1 DEF Receipted
    <3>3. <<"succeeded", p>> \in receipts'
      BY <2>2, <2>4
    <3> QED BY <2>1, <3>2, <3>3
  <2> QED BY <2>3, <2>4
<1>2. \/ status' \in {status, "cancelled"}
      \/ \E w \in Proc : Result(w) /\ status' # status
  <2>1. ASSUME NEW w \in Proc, Step(w)
        PROVE  status' \in {status, "cancelled"} \/ Result(w)
    BY <2>1 DEF Step, booking, Read, Intend, Lookup, Uncertain, Post, Attach, AttachPayment, Get, Local, Adopt,
       JobDone, JobFailed, Sweep, Expire, CancelBooking
  <2> QED
    BY <2>1 DEF Next, vars, booking, Fail, Crash, NoJob, Claim, Checkout, Poll, LeaseLapses,
       Webhook, Settle, Cancel, CancelBooking, Lapse, IntentAges, Forget
<1> QED BY <1>1, <1>2

LEMMA ReceiptedStep ==
  ASSUME PayInv, Receipted, [Next]_vars
  PROVE  Receipted'
<1>t. TypeOK /\ Known
  BY DEF PayInv
<1>1. ASSUME NEW p \in Payment, <<"succeeded", p>> \in receipts'
      PROVE  provider'[p] = "succeeded"
  <2>1. provider[p] = "succeeded"
    <3>1. CASE Ran(<<"succeeded", p>>)
      BY <3>1 DEF Receipted
    <3>2. ASSUME NEW w \in Proc, Result(w), ~Ran(<<"succeeded", p>>)
          PROVE  provider[p] = "succeeded"
      <4>1. receipts' = receipts \/ receipts' = receipts \cup {<<proc[w].seen, proc[w].pay>>}
        BY <3>2 DEF Result, records
      <4>2. proc[w].seen = "succeeded" /\ proc[w].pay = p
        BY <1>1, <3>2, <4>1 DEF Ran
      <4> QED BY <3>2, <4>2, <1>t DEF Result, At, Known, Resolved
    <3>3. Ran(<<"succeeded", p>>) \/ \E w \in Proc : Result(w)
      <4>1. ASSUME NEW w \in Proc, Step(w)
            PROVE  Ran(<<"succeeded", p>>) \/ Result(w)
        BY <1>1, <4>1 DEF Ran, Step, records, Read, Intend, Lookup, Uncertain, Post, Attach, AttachPayment, Get,
           Local, Adopt, JobDone, JobFailed, Sweep, Expire, IntentCommand, UncertainCommand,
           ExpireCommand
      <4> QED
        BY <1>1, <4>1 DEF Ran, Next, vars, records, Fail, Crash, NoJob, Claim, Checkout, Poll,
           LeaseLapses, Webhook, Settle, Cancel, Lapse, IntentAges, Forget
    <3> QED BY <3>1, <3>2, <3>3
  <2> QED BY <2>1, <1>t, ProviderKeeps DEF Final
<1>2. status' \in {"settled", "resolution"} => \E p \in Payment : <<"succeeded", p>> \in receipts'
  BY Decides, ReceiptsGrow DEF Receipted, Ran
<1> QED BY <1>1, <1>2 DEF Receipted, Ran

\* A second look at a payment never changes what the first decided
\* (the receipt of 'payment-result').
THEOREM ResultsAreFinal == Spec => ResultIsFinal
<1>1. Init => Receipted
  BY DEF Init, Receipted, Ran
<1>2. PayInv /\ Receipted /\ [Next]_vars => Receipted'
  BY ReceiptedStep
<1>3. PayInv /\ Receipted /\ [Next]_vars =>
        [/\ status = "settled" => status' \in {"settled", "cancelled"}
         /\ status = "resolution" => status' \in {"resolution", "cancelled"}]_vars
  BY Decides
<1> QED BY <1>1, <1>2, <1>3, PayInvHolds, PTL DEF Spec, ResultIsFinal

-----------------------------------------------------------------------------
\* What has been applied.

\* A result that was applied is the payment's, and its receipt and the payment's
\* record agree; a hold is paid for when a result decides about it.
RecordTrue(p) ==
  /\ Ran(<<"succeeded", p>>) <=> local[p] = "paid"
  /\ Ran(<<"canceled", p>>) <=> local[p] = "cancelled"
  /\ local[p] = "paid" => provider[p] = "succeeded"
  /\ local[p] = "cancelled" => provider[p] = "canceled"

Applied ==
  /\ \A p \in Payment : RecordTrue(p)
  /\ status = "hold" => ~Paid
  /\ status \in {"settled", "resolution"} => Paid

\* A step that applies no result.
Calm ==
  /\ status' \in {status, "cancelled"}
  /\ \A p \in Payment :
       /\ local'[p] = "paid" <=> local[p] = "paid"
       /\ local'[p] = "cancelled" <=> local[p] = "cancelled"
       /\ <<"succeeded", p>> \in receipts' <=> <<"succeeded", p>> \in receipts
       /\ <<"canceled", p>> \in receipts' <=> <<"canceled", p>> \in receipts

LEMMA AttachIsCalm ==
  ASSUME TypeOK, NEW p \in Payment, AttachPayment(p)
  PROVE  Calm
<1>1. CASE UNCHANGED <<booking, records>>
  BY <1>1 DEF Calm, booking, records
<1>2. CASE /\ local' = [local EXCEPT ![p] = IF @ = "none" THEN "pending" ELSE @]
           /\ receipts' = receipts \cup {<<"created", p>>}
           /\ status' = status
  BY <1>2 DEF Calm, TypeOK
<1> QED BY <1>1, <1>2 DEF AttachPayment

LEMMA OnlyResultsApply ==
  ASSUME TypeOK, Known, [Next]_vars
  PROVE  Calm \/ \E w \in Proc : Result(w)
<1>1. ASSUME UNCHANGED <<status, local, receipts>>
      PROVE  Calm
  BY <1>1 DEF Calm
<1>2. CASE Cancel
  BY <1>2 DEF Cancel, CancelBooking, records, Calm
<1>3. ASSUME NEW w \in Proc, Intend(w) \/ Uncertain(w) \/ Expire(w)
      PROVE  Calm
  BY <1>3 DEF Intend, Uncertain, Expire, CancelBooking, booking, records, Calm, IntentCommand,
     UncertainCommand, ExpireCommand
<1>4. ASSUME NEW w \in Proc, Attach(w) \/ Adopt(w)
      PROVE  Calm
  <2>1. proc[w].pay \in Payment /\ AttachPayment(proc[w].pay)
    BY <1>4 DEF Attach, Adopt, At, Known, Handling
  <2> QED BY <2>1, AttachIsCalm
<1>5. ASSUME NEW w \in Proc, Step(w)
      PROVE  Calm \/ Result(w)
  <2>1. ASSUME Read(w) \/ Lookup(w) \/ Post(w) \/ Get(w) \/ Local(w) \/ JobDone(w)
                 \/ JobFailed(w) \/ Sweep(w)
        PROVE  UNCHANGED <<status, local, receipts>>
    BY <2>1 DEF Read, Lookup, Post, Get, Local, JobDone, JobFailed, Sweep, booking, records
  <2> QED BY <1>1, <1>3, <1>4, <1>5, <2>1 DEF Step
<1> QED
  BY <1>1, <1>2, <1>5 DEF Next, vars, booking, records, Fail, Crash, NoJob, Claim, Checkout, Poll,
     LeaseLapses, Webhook, Settle, Lapse, IntentAges, Forget

\* A result that is applied finds no result applied, and is the payment's.
LEMMA ResultIsFirst ==
  ASSUME PayInv, Applied, NEW w \in Proc, Result(w), ~Ran(<<proc[w].seen, proc[w].pay>>)
  PROVE  /\ proc[w].pay \in Payment
         /\ proc[w].seen = provider[proc[w].pay] /\ proc[w].seen \in Final
         /\ ~Paid
         /\ \A p \in Payment : local[p] # "cancelled"
         /\ status \in {"hold", "cancelled"}
<1> DEFINE q == proc[w].pay
<1>t. TypeOK /\ Known /\ OnePayment
  BY DEF PayInv, Single
<1>1. q \in Payment /\ proc[w].seen = provider[q] /\ proc[w].seen \in Final
  BY <1>t DEF Result, At, Known, Handling, Resolved
<1>2. ASSUME NEW p \in Payment, local[p] \in {"paid", "cancelled"}
      PROVE  FALSE
  <2>1. provider[p] # "absent" /\ provider[q] # "absent"
    BY <1>1, <1>2 DEF Applied, RecordTrue, Final
  <2>2. p = q
    BY <1>t, <1>1, <2>1 DEF OnePayment
  <2> QED BY <1>1, <1>2, <2>2 DEF Applied, RecordTrue, Final
<1>3. ~Paid
  BY <1>2 DEF Paid
<1>4. status \in {"hold", "cancelled"}
  BY <1>t, <1>3 DEF Applied, TypeOK
<1> QED BY <1>1, <1>2, <1>3, <1>4

LEMMA AppliedStep ==
  ASSUME PayInv, Applied, [Next]_vars
  PROVE  Applied'
<1>t. TypeOK /\ Known
  BY DEF PayInv
<1>k. ASSUME NEW p \in Payment
      PROVE  /\ provider[p] = "succeeded" => provider'[p] = "succeeded"
             /\ provider[p] = "canceled" => provider'[p] = "canceled"
  BY <1>t, ProviderKeeps DEF Final
<1>1. CASE Calm
  BY <1>1, <1>k DEF Calm, Applied, RecordTrue, Ran, Paid
<1>2. ASSUME NEW w \in Proc, Result(w)
      PROVE  Applied'
  <2> DEFINE q == proc[w].pay
  <2>1. CASE Ran(<<proc[w].seen, q>>)
    <3>1. UNCHANGED <<booking, records, provider>>
      BY <1>2, <2>1 DEF Result, external
    <3> QED BY <3>1 DEF Applied, RecordTrue, Ran, Paid, booking, records
  <2>2. CASE ~Ran(<<proc[w].seen, q>>)
    <3>1. /\ q \in Payment /\ proc[w].seen = provider[q] /\ proc[w].seen \in Final
          /\ ~Paid /\ (\A p \in Payment : local[p] # "cancelled")
          /\ status \in {"hold", "cancelled"}
      BY <1>2, <2>2, ResultIsFirst
    <3>2. /\ receipts' = receipts \cup {<<proc[w].seen, q>>} /\ provider' = provider
          /\ IF proc[w].seen = "succeeded" THEN PaymentSucceeded(q) ELSE PaymentCanceled(q)
      BY <1>2, <2>2 DEF Result, external, booking, records
    <3>l. local \in [Payment -> {"none", "pending", "paid", "cancelled"}]
      BY <1>t DEF TypeOK
    <3>3. CASE proc[w].seen = "succeeded"
      <4>1. local' = [local EXCEPT ![q] = "paid"] /\ status' # "hold"
        BY <3>1, <3>2, <3>3 DEF PaymentSucceeded
      <4>2. \A p \in Payment : RecordTrue(p)'
        BY <3>1, <3>2, <3>3, <3>l, <4>1 DEF Applied, RecordTrue, Ran, Paid
      <4>3. Paid'
        BY <3>1, <3>l, <4>1 DEF Paid
      <4> QED BY <4>1, <4>2, <4>3 DEF Applied
    <3>4. CASE proc[w].seen = "canceled"
      <4>1. local' = [local EXCEPT ![q] = "cancelled"] /\ status' = "cancelled"
        BY <3>1, <3>2, <3>4, <3>l DEF PaymentCanceled, CancelBooking, booking, Paid
      <4>2. \A p \in Payment : RecordTrue(p)'
        BY <3>1, <3>2, <3>4, <3>l, <4>1 DEF Applied, RecordTrue, Ran, Paid
      <4> QED BY <4>1, <4>2 DEF Applied
    <3> QED BY <3>1, <3>3, <3>4 DEF Final
  <2> QED BY <2>1, <2>2
<1> QED BY <1>t, <1>1, <1>2, OnlyResultsApply

-----------------------------------------------------------------------------
\* What was sought, and what a process has in hand.

\* Before the intent there is no payment; a payment that is known here is the
\* intent's and the booking's; only the intent of a lapsed hold grows old.
Sought ==
  /\ intent = "none" => \A p \in Payment : provider[p] = "absent"
  /\ Ran(IntentCommand) => intent # "none"
  /\ intent = "old" => lapsed
  /\ \A p \in Payment : local[p] # "none" => intentPid # NoPayment
  /\ \A p \in Payment : Ran(<<"created", p>>) => local[p] # "none"
  /\ intentPid # NoPayment => pid # NoPayment

\* The stages of checkPayment.
Checking == {"get", "local", "adopt", "result"}

\* What the record of a process says of the rest: a check is of the payment of
\* its job, and only what is settled is about to be marked done or expired.
TickOf(r) ==
  /\ r.pc \in {"lookup", "post"} => intent # "none"
  /\ r.pc = "uncertain" => lapsed
  /\ r.pc = "result" => local[r.pay] # "none"
  /\ r.job \in Check =>
       /\ r.pc \in Checking \cup {"jobdone", "jobfailed"}
       /\ r.pc \in Checking => r.pay = r.job[2]
       /\ r.pc = "get" => r.seen = "pending"
       /\ r.pc = "jobdone" /\ r.seen # "pending" =>
            /\ provider[r.job[2]] \in Final
            /\ provider[r.job[2]] = "succeeded" => local[r.job[2]] = "paid"
  /\ r.job = CreateJob =>
       /\ r.pc \in Checking => pid # NoPayment
       /\ r.pc = "jobdone" => status # "hold" \/ pid # NoPayment
  /\ r.pc = "jobdone" => r.job \in JobId
  /\ r.job = Sweeping \/ r.pc = "expire" => lapsed

TicksTrue == \A w \in Proc : TickOf(proc[w])

LEMMA NothingComesBack ==
  ASSUME TypeOK, Known, [Next]_vars
  PROVE  /\ intent # "none" => intent' # "none"
         /\ lapsed => lapsed'
         /\ pid # NoPayment => pid' # NoPayment
         /\ intentPid # NoPayment => intentPid' # NoPayment
         /\ status # "hold" => status' # "hold"
         /\ \A p \in Payment : local[p] # "none" => local'[p] # "none"
         /\ \A p \in Payment : local[p] = "paid" => local'[p] = "paid"
<1> DEFINE Kept == /\ intent # "none" => intent' # "none"
                   /\ lapsed => lapsed'
                   /\ pid # NoPayment => pid' # NoPayment
                   /\ intentPid # NoPayment => intentPid' # NoPayment
                   /\ status # "hold" => status' # "hold"
                   /\ \A p \in Payment : local[p] # "none" => local'[p] # "none"
                   /\ \A p \in Payment : local[p] = "paid" => local'[p] = "paid"
<1>n. NoPayment \notin Payment
  BY ProcessAssumption
<1>l. local \in [Payment -> {"none", "pending", "paid", "cancelled"}]
  BY DEF TypeOK
<1>0. ASSUME UNCHANGED <<booking, records>>
      PROVE  Kept
  BY <1>0 DEF booking, records
<1>1. CASE Cancel \/ Lapse \/ IntentAges
  BY <1>1 DEF Cancel, CancelBooking, Lapse, IntentAges, booking, records
<1>2. ASSUME NEW w \in Proc, Intend(w) \/ Uncertain(w) \/ Expire(w)
      PROVE  Kept
  BY <1>2 DEF Intend, Uncertain, Expire, CancelBooking, booking, records
<1>3. ASSUME NEW w \in Proc, Attach(w) \/ Adopt(w)
      PROVE  Kept
  <2>1. proc[w].pay \in Payment /\ AttachPayment(proc[w].pay)
    BY <1>3 DEF Attach, Adopt, At, Known, Handling
  <2>2. CASE Ran(<<"created", proc[w].pay>>)
    BY <1>0, <2>1, <2>2 DEF AttachPayment
  <2>3. CASE ~Ran(<<"created", proc[w].pay>>)
    BY <1>l, <1>n, <2>1, <2>3 DEF AttachPayment
  <2> QED BY <2>2, <2>3
<1>4. ASSUME NEW w \in Proc, Result(w)
      PROVE  Kept
  <2>1. proc[w].pay \in Payment
    BY <1>4 DEF Result, At, Known, Handling
  <2>2. \/ UNCHANGED <<booking, records>>
        \/ /\ PaymentSucceeded(proc[w].pay) \/ PaymentCanceled(proc[w].pay)
           /\ UNCHANGED <<intent, intentPid>>
    BY <1>4 DEF Result
  <2>3. CASE PaymentSucceeded(proc[w].pay) /\ UNCHANGED <<intent, intentPid>>
    BY <1>l, <2>1, <2>3 DEF PaymentSucceeded
  <2>4. CASE PaymentCanceled(proc[w].pay) /\ UNCHANGED <<intent, intentPid>>
    BY <1>l, <2>1, <2>4 DEF PaymentCanceled, CancelBooking, booking
  <2> QED BY <1>0, <2>2, <2>3, <2>4
<1>5. ASSUME NEW w \in Proc, Step(w)
      PROVE  Kept
  <2>1. ASSUME Read(w) \/ Lookup(w) \/ Post(w) \/ Get(w) \/ Local(w) \/ JobDone(w)
                 \/ JobFailed(w) \/ Sweep(w)
        PROVE  UNCHANGED <<booking, records>>
    BY <2>1 DEF Read, Lookup, Post, Get, Local, JobDone, JobFailed, Sweep
  <2> HIDE DEF Kept
  <2> QED BY <1>0, <1>2, <1>3, <1>4, <1>5, <2>1 DEF Step
<1> HIDE DEF Kept
<1>6. Kept
  <2>1. ASSUME \/ \E w \in Proc : Fail(w) \/ Crash(w)
               \/ \E w \in Worker : NoJob(w) \/ \E j \in JobId : Claim(w, j)
               \/ \E v \in Visitor : Checkout(v) \/ Poll(v)
               \/ \E j \in JobId : LeaseLapses(j)
               \/ \E p \in Payment : \/ \E outcome \in Final : Settle(p, outcome)
                                      \/ \E event \in Events : Webhook(event, p)
               \/ Forget \/ UNCHANGED vars
        PROVE  UNCHANGED <<booking, records>>
    BY <2>1 DEF vars, Fail, Crash, NoJob, Claim, Checkout, Poll, LeaseLapses, Webhook, Settle, Forget
  <2> QED BY <1>0, <1>1, <1>5, <2>1 DEF Next, Kept
<1> QED BY <1>6 DEF Kept

LEMMA SoughtStep ==
  ASSUME PayInv, Sought, TicksTrue, [Next]_vars
  PROVE  Sought'
<1>t. TypeOK /\ Known /\ NoPayment \notin Payment
  BY ProcessAssumption DEF PayInv
<1>l. local \in [Payment -> {"none", "pending", "paid", "cancelled"}]
  BY <1>t DEF TypeOK
<1>k. /\ intent # "none" => intent' # "none"
      /\ lapsed => lapsed'
      /\ pid # NoPayment => pid' # NoPayment
      /\ intentPid # NoPayment => intentPid' # NoPayment
      /\ \A p \in Payment : local[p] # "none" => local'[p] # "none"
  BY <1>t, NothingComesBack
<1>0. ASSUME UNCHANGED <<booking, records, provider>>
      PROVE  Sought'
  BY <1>0 DEF Sought, Ran, booking, records
<1>1. CASE Cancel \/ Lapse \/ IntentAges
  BY <1>1 DEF Cancel, CancelBooking, Lapse, IntentAges, external, booking, records, Sought, Ran
<1>2. ASSUME NEW w \in Proc, Intend(w) \/ Uncertain(w) \/ Expire(w)
      PROVE  Sought'
  <2>1. UNCHANGED <<local, intentPid, pid, lapsed, provider>> /\ intent' \in {intent, "young"}
    BY <1>2 DEF Intend, Uncertain, Expire, CancelBooking, external, booking, records
  <2>2. \A p \in Payment : Ran(<<"created", p>>)' <=> Ran(<<"created", p>>)
    BY <1>2 DEF Intend, Uncertain, Expire, records, Ran, IntentCommand, UncertainCommand, ExpireCommand
  <2>3. Ran(IntentCommand)' => intent' # "none"
    BY <1>2, <1>k DEF Intend, Uncertain, Expire, records, Ran, IntentCommand, UncertainCommand,
       ExpireCommand, Sought
  <2> QED BY <1>k, <2>1, <2>2, <2>3 DEF Sought
<1>3. ASSUME NEW w \in Proc, Attach(w) \/ Adopt(w)
      PROVE  Sought'
  <2>1. proc[w].pay \in Payment /\ AttachPayment(proc[w].pay) /\ provider' = provider
    BY <1>3, <1>t DEF Attach, Adopt, At, Known, Handling, external
  <2>2. CASE Ran(<<"created", proc[w].pay>>)
    BY <1>0, <2>1, <2>2 DEF AttachPayment
  <2>3. CASE ~Ran(<<"created", proc[w].pay>>)
    <3>1. /\ local' = [local EXCEPT ![proc[w].pay] = IF @ = "none" THEN "pending" ELSE @]
          /\ intentPid' = proc[w].pay /\ pid' = proc[w].pay
          /\ receipts' = receipts \cup {<<"created", proc[w].pay>>}
          /\ UNCHANGED <<lapsed, intent>>
      BY <2>1, <2>3 DEF AttachPayment
    <3>2. \A p \in Payment : Ran(<<"created", p>>)' => local'[p] # "none"
      BY <1>l, <3>1, <2>1 DEF Ran, Sought
    <3>3. Ran(IntentCommand)' => Ran(IntentCommand)
      BY <3>1 DEF Ran, IntentCommand
    <3> QED BY <1>t, <2>1, <3>1, <3>2, <3>3 DEF Sought
  <2> QED BY <2>2, <2>3
<1>4. ASSUME NEW w \in Proc, Result(w)
      PROVE  Sought'
  <2>1. /\ proc[w].pay \in Payment /\ proc[w].seen \in Final
        /\ local[proc[w].pay] # "none" /\ provider' = provider
    BY <1>4, <1>t DEF Result, At, Known, Handling, Resolved, TicksTrue, TickOf, external
  <2>2. \/ UNCHANGED <<booking, records>>
        \/ /\ PaymentSucceeded(proc[w].pay) \/ PaymentCanceled(proc[w].pay)
           /\ receipts' = receipts \cup {<<proc[w].seen, proc[w].pay>>}
           /\ UNCHANGED <<intent, intentPid>>
    BY <1>4 DEF Result
  <2>3. CASE /\ PaymentSucceeded(proc[w].pay) \/ PaymentCanceled(proc[w].pay)
             /\ receipts' = receipts \cup {<<proc[w].seen, proc[w].pay>>}
             /\ UNCHANGED <<intent, intentPid>>
    <3>1. UNCHANGED <<lapsed, pid>> /\ \A p \in Payment \ {proc[w].pay} : local'[p] = local[p]
      BY <1>l, <2>1, <2>3 DEF PaymentSucceeded, PaymentCanceled, CancelBooking, booking
    <3>2. /\ Ran(IntentCommand)' => Ran(IntentCommand)
          /\ \A p \in Payment : Ran(<<"created", p>>)' => Ran(<<"created", p>>)
      BY <2>1, <2>3 DEF Ran, IntentCommand, Final
    <3> QED BY <1>k, <2>1, <2>3, <3>1, <3>2 DEF Sought
  <2> QED BY <1>0, <2>1, <2>2, <2>3
<1>5. ASSUME NEW w \in Proc, Post(w)
      PROVE  Sought'
  <2>1. intent # "none"
    BY <1>5 DEF Post, At, TicksTrue, TickOf
  <2> QED BY <1>5, <2>1 DEF Post, booking, records, Sought, Ran
<1>6. ASSUME NEW p \in Payment, NEW outcome \in Final, Settle(p, outcome)
      PROVE  Sought'
  <2>1. intent # "none" /\ UNCHANGED <<booking, records>>
    BY <1>6 DEF Settle, Sought
  <2> QED BY <2>1 DEF booking, records, Sought, Ran
<1>7. ASSUME NEW w \in Proc, Step(w)
      PROVE  Sought'
  <2>1. ASSUME Read(w) \/ Lookup(w) \/ Get(w) \/ Local(w) \/ JobDone(w) \/ JobFailed(w) \/ Sweep(w)
        PROVE  UNCHANGED <<booking, records, provider>>
    BY <2>1 DEF Read, Lookup, Get, Local, JobDone, JobFailed, Sweep, external
  <2> QED BY <1>0, <1>2, <1>3, <1>4, <1>5, <1>7, <2>1 DEF Step
<1>8. ASSUME \/ \E w \in Proc : Fail(w) \/ Crash(w)
             \/ \E w \in Worker : NoJob(w) \/ \E j \in JobId : Claim(w, j)
             \/ \E v \in Visitor : Checkout(v) \/ Poll(v)
             \/ \E j \in JobId : LeaseLapses(j)
             \/ \E p \in Payment : \E event \in Events : Webhook(event, p)
             \/ Forget \/ UNCHANGED vars
      PROVE  UNCHANGED <<booking, records, provider>>
  BY <1>8 DEF vars, external, Fail, Crash, NoJob, Claim, Checkout, Poll, LeaseLapses, Webhook, Forget
<1> QED BY <1>0, <1>1, <1>6, <1>7, <1>8 DEF Next

LEMMA Ends ==
  ASSUME TypeOK, NEW w \in Proc
  PROVE  /\ Idle.pc = "idle" /\ Idle.job = Visit
         /\ proc[w].job \in JobId =>
              /\ Returned(w).pc = "jobdone" /\ Returned(w).job = proc[w].job
              /\ Returned(w).seen = proc[w].seen
              /\ Thrown(w).pc = "jobfailed" /\ Thrown(w).job = proc[w].job
         /\ proc[w].job = Sweeping =>
              Returned(w).pc = "expire" /\ Returned(w).job = Sweeping /\ Thrown(w) = Idle
         /\ proc[w].job = Visit => Returned(w) = Idle /\ Thrown(w) = Idle
         /\ proc[w].job \in JobId \cup {Sweeping, Visit}
<1>1. Idle.pc = "idle" /\ Idle.job = Visit
  BY DEF Idle
<1>2. /\ [Idle EXCEPT !.pc = "jobdone", !.job = proc[w].job, !.seen = proc[w].seen].pc = "jobdone"
      /\ [Idle EXCEPT !.pc = "jobdone", !.job = proc[w].job, !.seen = proc[w].seen].job = proc[w].job
      /\ [Idle EXCEPT !.pc = "jobdone", !.job = proc[w].job, !.seen = proc[w].seen].seen = proc[w].seen
      /\ [Idle EXCEPT !.pc = "jobfailed", !.job = proc[w].job].pc = "jobfailed"
      /\ [Idle EXCEPT !.pc = "jobfailed", !.job = proc[w].job].job = proc[w].job
      /\ [Idle EXCEPT !.pc = "expire", !.job = Sweeping].pc = "expire"
      /\ [Idle EXCEPT !.pc = "expire", !.job = Sweeping].job = Sweeping
  BY DEF Idle
<1>3. Sweeping \notin JobId /\ Visit \notin JobId /\ Sweeping # Visit
  BY Names
<1>4. proc[w].job \in JobId \cup {Sweeping, Visit}
  BY DEF TypeOK, ProcState
<1>5. proc[w].job \in JobId =>
        /\ Returned(w) = [Idle EXCEPT !.pc = "jobdone", !.job = proc[w].job, !.seen = proc[w].seen]
        /\ Thrown(w) = [Idle EXCEPT !.pc = "jobfailed", !.job = proc[w].job]
  BY <1>3 DEF Returned, Thrown
<1>6. proc[w].job = Sweeping =>
        Returned(w) = [Idle EXCEPT !.pc = "expire", !.job = Sweeping] /\ Thrown(w) = Idle
  BY <1>3 DEF Returned, Thrown
<1>7. proc[w].job = Visit => Returned(w) = Idle /\ Thrown(w) = Idle
  BY <1>3 DEF Returned, Thrown
<1> HIDE DEF Returned, Thrown, Idle
<1> QED BY <1>1, <1>2, <1>4, <1>5, <1>6, <1>7

\* What is true of a record stays true of it.
LEMMA TicksKept ==
  ASSUME PayInv, Sought, [Next]_vars, NEW r, TickOf(r),
         r.pc = "result" => r.pay \in Payment
  PROVE  TickOf(r)'
<1>1. TypeOK /\ Known
  BY DEF PayInv
<1>2. /\ intent # "none" => intent' # "none"
      /\ lapsed => lapsed'
      /\ pid # NoPayment => pid' # NoPayment
      /\ status # "hold" => status' # "hold"
      /\ \A p \in Payment : local[p] # "none" => local'[p] # "none"
      /\ \A p \in Payment : local[p] = "paid" => local'[p] = "paid"
  BY <1>1, NothingComesBack
<1>3. r.job \in Check => r.job[2] \in Payment
  BY Names
<1>4. r.job \in Check /\ provider[r.job[2]] \in Final => provider'[r.job[2]] = provider[r.job[2]]
  BY <1>1, <1>3, ProviderKeeps
<1> QED BY <1>2, <1>3, <1>4 DEF TickOf

\* A process that returns has done what its job is for.
LEMMA ReturnTicks ==
  ASSUME TypeOK, Known, Sought, [Next]_vars, NEW w \in Proc, TickOf(proc[w]),
         proc[w].job \in Check /\ proc[w].seen # "pending" =>
           /\ provider[proc[w].job[2]] \in Final
           /\ provider[proc[w].job[2]] = "succeeded" => local'[proc[w].job[2]] = "paid",
         proc[w].job = CreateJob => status' # "hold" \/ pid' # NoPayment,
         NEW r \in {Returned(w), Thrown(w), Idle}
  PROVE  TickOf(r)'
<1>n. /\ CreateJob \notin Check /\ Sweeping \notin JobId /\ Visit \notin JobId
      /\ Check \subseteq JobId /\ CreateJob \in JobId /\ Sweeping # Visit
  BY Names
<1>1. CASE r = Idle
  BY <1>1, <1>n, Ends DEF TickOf
<1>2. CASE proc[w].job \in JobId
  <2>1. /\ Returned(w).pc = "jobdone" /\ Returned(w).job = proc[w].job
        /\ Returned(w).seen = proc[w].seen
        /\ Thrown(w).pc = "jobfailed" /\ Thrown(w).job = proc[w].job
    BY <1>2, Ends
  <2>2. proc[w].job \in Check /\ provider[proc[w].job[2]] \in Final
          => provider'[proc[w].job[2]] = provider[proc[w].job[2]]
    BY Names, ProviderKeeps
  <2> QED BY <1>1, <1>2, <1>n, <2>1, <2>2 DEF TickOf, Checking
<1>3. CASE proc[w].job = Sweeping
  <2>1. Returned(w).pc = "expire" /\ Returned(w).job = Sweeping /\ Thrown(w) = Idle
    BY <1>3, Ends
  <2>2. lapsed'
    BY <1>3, NothingComesBack DEF TickOf
  <2> QED BY <1>1, <1>n, <2>1, <2>2 DEF TickOf
<1>4. CASE proc[w].job = Visit
  BY <1>1, <1>4, Ends
<1> QED BY <1>2, <1>3, <1>4, Ends

LEMMA SetTick ==
  ASSUME NEW w \in Proc, NEW r, proc'[w] = r, TickOf(r)'
  PROVE  TickOf(proc[w])'
BY DEF TickOf

\* A step of a process leaves a record that is true of the new state.
LEMMA TickStep ==
  ASSUME PayInv, Sought, TicksTrue, Applied, [Next]_vars, NEW w \in Proc,
         \/ Step(w) \/ Fail(w) \/ Crash(w) \/ NoJob(w)
         \/ \E j \in JobId : Claim(w, j)
         \/ Checkout(w) \/ Poll(w)
  PROVE  TickOf(proc[w])'
<1>t. TypeOK /\ Known /\ TickOf(proc[w])
  BY DEF PayInv, TicksTrue
<1>p. proc \in [Proc -> ProcState] /\ proc[w] \in ProcState
  BY <1>t DEF TypeOK
<1>n. /\ CreateJob \notin Check /\ Sweeping \notin JobId /\ Visit \notin JobId
      /\ Check \subseteq JobId /\ CreateJob \in JobId /\ Sweeping # Visit
      /\ \A j \in JobId : j # CreateJob => j \in Check
      /\ NoPayment \notin Payment
  BY Names, ProcessAssumption
<1>k. /\ intent # "none" => intent' # "none"
      /\ lapsed => lapsed'
      /\ pid # NoPayment => pid' # NoPayment
      /\ status # "hold" => status' # "hold"
      /\ \A p \in Payment : local[p] # "none" => local'[p] # "none"
      /\ \A p \in Payment : local[p] = "paid" => local'[p] = "paid"
  BY <1>t, NothingComesBack
<1>g. ASSUME NEW st, Goto(w, st)
      PROVE  proc'[w].pc = st /\ proc'[w].job = proc[w].job /\ proc'[w].pay = proc[w].pay
  BY <1>p, <1>g, ProcFields DEF Goto
<1>h. ASSUME NEW st, NEW p, NEW s, Handle(w, st, p, s)
      PROVE  proc'[w].pc = st /\ proc'[w].job = proc[w].job /\ proc'[w].pay = p
  BY <1>p, <1>h DEF Handle
<1>f. /\ proc[w].pc \in Handling => proc[w].pay \in Payment
      /\ proc[w].job \in Check => provider[proc[w].job[2]] # "absent" /\ proc[w].job[2] \in Payment
      /\ proc[w].pc \in Resolved => proc[w].seen = provider[proc[w].pay] /\ proc[w].seen \in Final
  BY <1>t, Names DEF Known
<1>u. proc[w].job \in Check /\ provider[proc[w].job[2]] \in Final
        => provider'[proc[w].job[2]] = provider[proc[w].job[2]]
  BY <1>t, <1>f, ProviderKeeps
<1>i. ASSUME proc'[w] = Idle \/ proc'[w] = [Idle EXCEPT !.pc = "sweep"]
      PROVE  TickOf(proc[w])'
  BY <1>i, <1>n DEF Idle, TickOf
<1>x. ASSUME Throw(w)
      PROVE  TickOf(proc[w])'
  <2>1. ASSUME NEW r, r = proc'[w], proc[w].job \in JobId
        PROVE  r.pc = "jobfailed" /\ r.job = proc[w].job
    BY <1>x, <1>p, <1>t, <2>1, Ends DEF Throw
  <2>2. proc[w].job \notin JobId => proc'[w] \in {Idle, Returned(w)} \/ proc'[w] = Idle
    BY <1>x, <1>p, <1>t, Ends DEF Throw
  <2>3. CASE proc[w].job \in JobId
    BY <1>n, <1>u, <2>1, <2>3 DEF TickOf, Checking
  <2>4. CASE proc[w].job \notin JobId
    <3>1. proc'[w] = Idle
      BY <1>x, <1>p, <1>t, <2>4, Ends DEF Throw
    <3> QED BY <1>i, <3>1
  <2> QED BY <2>3, <2>4
<1>r. ASSUME Return(w),
             proc[w].job \in Check /\ proc[w].seen # "pending" =>
               /\ provider[proc[w].job[2]] \in Final
               /\ provider[proc[w].job[2]] = "succeeded" => local'[proc[w].job[2]] = "paid",
             proc[w].job = CreateJob => status' # "hold" \/ pid' # NoPayment
      PROVE  TickOf(proc[w])'
  <2>1. proc'[w] = Returned(w)
    BY <1>p, <1>r DEF Return
  <2>2. \A r \in {Returned(w), Thrown(w), Idle} : TickOf(r)'
    BY <1>t, <1>r, ReturnTicks
  <2> QED BY <2>1, <2>2, SetTick
<1>1. CASE Read(w)
  <2>1. proc[w].pc = "read" /\ proc[w].job \notin Check
    BY <1>1, <1>t DEF Read, At, TickOf, Checking
  <2>2. CASE status = "hold"
    BY <1>1, <1>g, <1>k, <1>t, <2>1, <2>2 DEF Read, TickOf, Checking
  <2>3. CASE status # "hold"
    BY <1>1, <1>k, <1>r, <2>1, <2>3 DEF Read
  <2> QED BY <2>2, <2>3
<1>2. CASE Intend(w)
  <2>1. proc[w].pc = "intent" /\ proc[w].job \notin Check
    BY <1>2, <1>t DEF Intend, At, TickOf, Checking
  <2>2. ASSUME Goto(w, "lookup"), intent' # "none"
        PROVE  TickOf(proc[w])'
    BY <1>g, <1>k, <1>t, <2>1, <2>2 DEF TickOf, Checking
  <2>3. CASE Ran(IntentCommand)
    BY <1>2, <1>k, <2>2, <2>3 DEF Intend, Sought
  <2>4. CASE ~Ran(IntentCommand) /\ status = "hold"
    BY <1>2, <2>2, <2>4 DEF Intend
  <2>5. CASE ~Ran(IntentCommand) /\ status # "hold"
    BY <1>2, <1>x, <2>5 DEF Intend
  <2> QED BY <2>3, <2>4, <2>5
<1>3. CASE Lookup(w)
  <2>1. proc[w].pc = "lookup" /\ proc[w].job \notin Check /\ intent # "none"
    BY <1>3, <1>t DEF Lookup, At, TickOf, Checking
  <2>2. CASE Goto(w, "post")
    BY <1>g, <1>k, <1>t, <2>1, <2>2 DEF TickOf, Checking
  <2>3. CASE intentPid # NoPayment /\ Handle(w, "get", intentPid, "pending")
    BY <1>h, <1>k, <1>t, <2>1, <2>3 DEF TickOf, Checking, Sought
  <2>4. CASE intentPid = NoPayment /\ ~MayRequest /\ Goto(w, "uncertain")
    <3>1. lapsed
      BY <1>t, <2>1, <2>4 DEF MayRequest, TypeOK, Sought
    <3> QED BY <1>g, <1>k, <1>t, <2>1, <2>4, <3>1 DEF TickOf, Checking
  <2> QED BY <1>3, <2>2, <2>3, <2>4 DEF Lookup
<1>4. CASE Post(w)
  <2>1. proc[w].pc = "post" /\ proc[w].job \notin Check
    BY <1>4, <1>t DEF Post, At, TickOf, Checking
  <2>2. ASSUME NEW p, NEW s, Handle(w, "attach", p, s)
        PROVE  TickOf(proc[w])'
    BY <1>h, <1>k, <1>t, <2>1, <2>2 DEF TickOf, Checking
  <2> QED BY <1>4, <2>2 DEF Post
<1>5. CASE Attach(w)
  <2>1. proc[w].pc = "attach" /\ proc[w].job \notin Check /\ proc[w].pay \in Payment
    BY <1>5, <1>t, <1>f DEF Attach, At, TickOf, Checking, Handling
  <2>2. pid' # NoPayment
    <3>1. CASE Ran(<<"created", proc[w].pay>>)
      BY <1>k, <2>1, <3>1 DEF Sought
    <3>2. CASE ~Ran(<<"created", proc[w].pay>>)
      BY <1>5, <1>n, <2>1, <3>2 DEF Attach, AttachPayment
    <3> QED BY <3>1, <3>2
  <2>3. CASE Goto(w, "get")
    BY <1>g, <1>k, <1>t, <2>1, <2>2, <2>3 DEF TickOf, Checking
  <2>4. CASE Return(w)
    BY <1>r, <2>1, <2>2, <2>4
  <2> QED BY <1>5, <2>3, <2>4 DEF Attach
<1>6. CASE Get(w)
  <2>1. proc[w].pc = "get"
    BY <1>6 DEF Get, At
  <2>2. CASE provider[proc[w].pay] \in Final /\ Handle(w, "local", proc[w].pay, provider[proc[w].pay])
    BY <1>h, <1>k, <1>t, <1>u, <2>1, <2>2 DEF TickOf, Checking
  <2>3. CASE provider[proc[w].pay] \notin Final /\ Return(w)
    <3>1. proc[w].job \in Check => proc[w].seen = "pending"
      BY <1>t, <2>1 DEF TickOf
    <3> QED BY <1>k, <1>r, <1>t, <1>n, <2>1, <2>3, <3>1 DEF TickOf, Checking
  <2> QED BY <1>6, <2>2, <2>3 DEF Get
<1>7. CASE Local(w)
  <2>1. proc[w].pc = "local" /\ proc[w].pay \in Payment /\ provider[proc[w].pay] # "absent"
    BY <1>7, <1>t, <1>f DEF Local, At, Handling, Known
  <2>2. intent # "none"
    BY <2>1 DEF Sought
  <2>3. CASE local[proc[w].pay] # "none" /\ Goto(w, "result")
    BY <1>g, <1>k, <1>t, <1>u, <2>1, <2>3 DEF TickOf, Checking
  <2>4. CASE Goto(w, "adopt")
    BY <1>g, <1>k, <1>t, <1>u, <2>1, <2>4 DEF TickOf, Checking
  <2> QED BY <1>7, <1>x, <2>2, <2>3, <2>4 DEF Local
<1>8. CASE Adopt(w)
  <2>1. proc[w].pc = "adopt" /\ proc[w].pay \in Payment
    BY <1>8, <1>t, <1>f DEF Adopt, At, Handling
  <2>2. local'[proc[w].pay] # "none"
    <3>1. CASE Ran(<<"created", proc[w].pay>>)
      BY <1>k, <2>1, <3>1 DEF Sought
    <3>2. CASE ~Ran(<<"created", proc[w].pay>>)
      BY <1>8, <1>t, <2>1, <3>2 DEF Adopt, AttachPayment, TypeOK
    <3> QED BY <3>1, <3>2
  <2>3. Goto(w, "result")
    BY <1>8 DEF Adopt
  <2> QED BY <1>g, <1>k, <1>t, <1>u, <2>1, <2>2, <2>3 DEF TickOf, Checking
<1>9. CASE Result(w)
  <2>1. /\ proc[w].pc = "result" /\ proc[w].pay \in Payment
        /\ proc[w].seen = provider[proc[w].pay] /\ Return(w)
    BY <1>9, <1>t, <1>f DEF Result, At, Handling, Resolved
  <2>2. proc[w].job = CreateJob => pid' # NoPayment
    BY <1>k, <1>t, <2>1 DEF TickOf, Checking
  <2>4. proc[w].job \in Check => provider[proc[w].job[2]] \in Final
    BY <1>f, <1>t, <2>1 DEF TickOf, Checking, Resolved
  <2>3. ASSUME proc[w].job \in Check, provider[proc[w].job[2]] = "succeeded"
        PROVE  local'[proc[w].job[2]] = "paid"
    <3>1. proc[w].pay = proc[w].job[2] /\ proc[w].seen = "succeeded"
      BY <1>t, <2>1, <2>3 DEF TickOf, Checking
    <3>2. CASE Ran(<<"succeeded", proc[w].pay>>)
      BY <1>k, <2>1, <3>1, <3>2 DEF Applied, RecordTrue
    <3>3. CASE ~Ran(<<"succeeded", proc[w].pay>>)
      BY <1>9, <1>t, <2>1, <3>1, <3>3 DEF Result, PaymentSucceeded, TypeOK
    <3> QED BY <3>2, <3>3
  <2> QED BY <1>r, <2>1, <2>2, <2>3, <2>4
<1>10. CASE JobDone(w) \/ JobFailed(w) \/ Expire(w) \/ Crash(w)
  BY <1>10, <1>i, <1>p DEF JobDone, JobFailed, Expire, Crash
<1>11. CASE Sweep(w)
  <2>1. CASE ~LapsedHold
    BY <1>11, <1>i, <1>p, <2>1 DEF Sweep
  <2>2. CASE LapsedHold
    <3>1. lapsed' /\ (pid = NoPayment \/ pid \in Payment)
      BY <1>k, <2>2, <1>t DEF LapsedHold, TypeOK
    <3>2. /\ proc'[w].pc = "expire" \/ proc'[w].pc = "get"
          /\ proc'[w].job = Sweeping
      BY <1>11, <1>p, <2>2 DEF Sweep, Idle
    <3> QED BY <1>n, <3>1, <3>2 DEF TickOf
  <2> QED BY <2>1, <2>2
<1>12. CASE Fail(w)
  BY <1>12, <1>i, <1>x, <1>p DEF Fail
<1>13. CASE NoJob(w)
  <2>1. proc'[w].pc = "sweep" /\ proc'[w].job = proc[w].job /\ proc[w].pc = "idle"
    BY <1>13, <1>g DEF NoJob, At
  <2> QED BY <1>k, <1>t, <2>1 DEF TickOf, Checking
<1>14. ASSUME NEW j \in JobId, Claim(w, j)
       PROVE  TickOf(proc[w])'
  <2>1. CASE j = CreateJob
    <3>1. proc'[w].pc = "read" /\ proc'[w].job = j
      BY <1>14, <1>p, <2>1 DEF Claim, Idle
    <3> QED BY <1>n, <2>1, <3>1 DEF TickOf, Checking
  <2>2. CASE j \in Check
    <3>1. /\ proc'[w].pc = "get" /\ proc'[w].job = j /\ proc'[w].pay = j[2]
          /\ proc'[w].seen = "pending"
      BY <1>14, <1>p, <1>n, <2>2 DEF Claim, Idle
    <3> QED BY <1>n, <2>2, <3>1 DEF TickOf, Checking
  <2> QED BY <1>n, <2>1, <2>2
<1>15. CASE Checkout(w) \/ Poll(w)
  <2>1. proc'[w].pc \in {"read", "get"} /\ proc'[w].job = Visit
    BY <1>15, <1>p DEF Checkout, Poll, Idle
  <2> QED BY <1>n, <2>1 DEF TickOf
<1>16. CASE Uncertain(w)
  BY <1>16, <1>x DEF Uncertain
<1> QED BY <1>1, <1>2, <1>3, <1>4, <1>5, <1>6, <1>7, <1>8, <1>9, <1>10, <1>11, <1>12, <1>13, <1>14,
           <1>15, <1>16 DEF Step

LEMMA TicksStep ==
  ASSUME PayInv, Applied, Sought, TicksTrue, [Next]_vars
  PROVE  TicksTrue'
<1> SUFFICES ASSUME NEW v \in Proc PROVE TickOf(proc[v])'
  BY DEF TicksTrue
<1>t. TypeOK /\ Known /\ TickOf(proc[v])
  BY DEF PayInv, TicksTrue
<1>f. proc[v].pc \in Handling => proc[v].pay \in Payment
  BY <1>t DEF Known
<1>1. CASE proc'[v] = proc[v]
  <2>1. TickOf(proc[v]) /\ \A r : r = proc[v] => (TickOf(r))'
    BY <1>t, <1>f, TicksKept DEF Handling
  <2> QED BY <1>1, <2>1, SetTick
<1>2. CASE proc'[v] # proc[v]
  <2>1. \/ Step(v) \/ Fail(v) \/ Crash(v) \/ NoJob(v)
        \/ \E j \in JobId : Claim(v, j)
        \/ Checkout(v) \/ Poll(v)
    BY <1>2, <1>t, OneMoves
  <2> QED BY <2>1, TickStep
<1> QED BY <1>1, <1>2

-----------------------------------------------------------------------------
\* Nothing is skipped.

SettleInv == PayInv /\ Applied /\ Sought /\ TicksTrue

LEMMA SettleInvHolds == Spec => []SettleInv
<1>1. Init => Applied /\ Sought /\ TicksTrue
  <2> SUFFICES ASSUME Init PROVE Applied /\ Sought /\ TicksTrue
    OBVIOUS
  <2>1. Applied
    BY DEF Init, Applied, RecordTrue, Ran, Paid
  <2>2. Sought
    BY DEF Init, Sought, Ran
  <2>3. TicksTrue
    <3>1. Visit \notin Check /\ Visit # CreateJob /\ Visit # Sweeping
      BY Names
    <3> QED BY <3>1 DEF Init, TicksTrue, TickOf, Idle
  <2> QED BY <2>1, <2>2, <2>3
<1>2. PayInv /\ Applied /\ Sought /\ TicksTrue /\ [Next]_vars => Applied' /\ Sought' /\ TicksTrue'
  BY AppliedStep, SoughtStep, TicksStep
<1> QED BY <1>1, <1>2, PayInvHolds, PTL DEF Spec, SettleInv

\* A job becomes done only when its tick says so, which remembers a look that
\* found nothing yet.
LEMMA DoneByTick ==
  ASSUME TypeOK, [Next]_vars, NEW j \in JobId, jobs'[j].state = "done", jobs[j].state # "done"
  PROVE  \E w \in Proc : /\ proc[w].pc = "jobdone" /\ proc[w].job = j
                         /\ j \in Check /\ proc[w].seen = "pending" => j \in early'
<1>j. jobs \in [JobId -> [state: {"none", "pending", "running", "overrun", "done"},
                         lease: Worker \cup {"none"}]]
  BY DEF TypeOK
<1>1. ASSUME NEW w \in Proc, JobDone(w)
      PROVE  \E v \in Proc : /\ proc[v].pc = "jobdone" /\ proc[v].job = j
                             /\ j \in Check /\ proc[v].seen = "pending" => j \in early'
  BY <1>j, <1>1 DEF JobDone, Release, Job, At
<1>2. ASSUME NEW w \in Proc, JobFailed(w)
      PROVE  FALSE
  BY <1>j, <1>2 DEF JobFailed, Release, Job
<1>3. ASSUME NEW w \in Worker, NEW i \in JobId, Claim(w, i)
      PROVE  FALSE
  BY <1>j, <1>3 DEF Claim, Job
<1>4. ASSUME NEW i \in JobId, LeaseLapses(i)
      PROVE  FALSE
  BY <1>j, <1>4 DEF LeaseLapses
<1>5. ASSUME NEW p \in Payment, NEW event \in Events, Webhook(event, p)
      PROVE  FALSE
  BY <1>j, <1>5 DEF Webhook, Job
<1>6. ASSUME NEW w \in Proc, Step(w), ~JobDone(w), ~JobFailed(w)
      PROVE  UNCHANGED jobs
  BY <1>6 DEF Step, Read, Intend, Lookup, Uncertain, Post, Attach, Get, Local, Adopt, Result, Sweep, Expire
<1>7. ASSUME \/ \E w \in Proc : Fail(w) \/ Crash(w)
             \/ \E w \in Worker : NoJob(w)
             \/ \E v \in Visitor : Checkout(v) \/ Poll(v)
             \/ \E p \in Payment : \E outcome \in Final : Settle(p, outcome)
             \/ Cancel \/ Lapse \/ IntentAges \/ Forget \/ UNCHANGED vars
      PROVE  UNCHANGED jobs
  BY <1>7 DEF vars, Fail, Crash, NoJob, Checkout, Poll, Settle, Cancel, Lapse, IntentAges, Forget
<1> QED BY <1>1, <1>2, <1>3, <1>4, <1>5, <1>6, <1>7 DEF Next

\* Only the sweep uses up the key of the expiry, and then the hold has ended.
LEMMA ExpiryEnds ==
  ASSUME SettleInv, NothingSkipped, [Next]_vars, Ran(ExpireCommand)'
  PROVE  status' # "hold"
<1>t. TypeOK /\ Known
  BY DEF SettleInv, PayInv
<1>1. CASE Ran(ExpireCommand)
  BY <1>1, <1>t, NothingComesBack DEF NothingSkipped
<1>2. ASSUME NEW w \in Proc, Expire(w), ~Ran(ExpireCommand)
      PROVE  status' # "hold"
  <2>1. lapsed
    BY <1>2 DEF SettleInv, TicksTrue, TickOf, Expire, At
  <2> QED BY <1>2, <2>1 DEF Expire, LapsedHold, CancelBooking, booking
<1>3. ASSUME NEW w \in Proc, Attach(w) \/ Adopt(w)
      PROVE  Ran(ExpireCommand)
  BY <1>3 DEF Ran, Attach, Adopt, AttachPayment, ExpireCommand, records
<1>4. ASSUME NEW w \in Proc, Result(w)
      PROVE  Ran(ExpireCommand)
  <2>1. proc[w].seen \in Final
    BY <1>4, <1>t DEF Result, At, Known, Resolved
  <2> QED BY <1>4, <2>1 DEF Ran, Result, ExpireCommand, records, Final
<1>5. ASSUME NEW w \in Proc, Step(w)
      PROVE  Ran(ExpireCommand) \/ Expire(w)
  <2>1. ASSUME Read(w) \/ Lookup(w) \/ Post(w) \/ Get(w) \/ Local(w) \/ JobDone(w) \/ JobFailed(w) \/ Sweep(w)
        PROVE  Ran(ExpireCommand)
    BY <2>1 DEF Read, Lookup, Post, Get, Local, JobDone, JobFailed, Sweep, records, Ran
  <2>2. ASSUME Intend(w) \/ Uncertain(w)
        PROVE  Ran(ExpireCommand)
    BY <2>2 DEF Intend, Uncertain, records, Ran, ExpireCommand, IntentCommand, UncertainCommand
  <2> QED BY <1>3, <1>4, <1>5, <2>1, <2>2 DEF Step
<1>6. Ran(ExpireCommand) \/ \E w \in Proc : Step(w)
  BY DEF Next, vars, records, Fail, Crash, NoJob, Claim, Checkout, Poll, LeaseLapses,
     Webhook, Settle, Cancel, Lapse, IntentAges, Forget, Ran
<1> QED BY <1>1, <1>2, <1>5, <1>6

\* A look that found nothing stays remembered.
LEMMA EarlyGrows ==
  ASSUME [Next]_vars
  PROVE  early \subseteq early'
<1>1. ASSUME NEW w \in Proc, Step(w)
      PROVE  early \subseteq early'
  BY <1>1 DEF Step, Read, Intend, Lookup, Uncertain, Post, Attach, Get, Local, Adopt, Result,
     JobDone, JobFailed, Sweep, Expire
<1> QED
  BY <1>1 DEF Next, vars, Fail, Crash, NoJob, Claim, Checkout, Poll, LeaseLapses, Webhook, Settle,
     Cancel, Lapse, IntentAges, Forget

\* A check that is done, and was not too early, saw the payment's result.
SeenFinal == \A j \in Check \ early : jobs[j].state = "done" => provider[j[2]] \in Final

LEMMA SeenFinalStep ==
  ASSUME SettleInv, SeenFinal, [Next]_vars
  PROVE  SeenFinal'
<1>t. TypeOK /\ Known
  BY DEF SettleInv, PayInv
<1> SUFFICES ASSUME NEW j \in Check \ early', jobs'[j].state = "done"
             PROVE  provider'[j[2]] \in Final
  BY DEF SeenFinal
<1>0. j \in JobId /\ j[2] \in Payment /\ j \notin early
  BY Names, EarlyGrows
<1>1. provider[j[2]] \in Final
  <2>1. CASE jobs[j].state = "done"
    BY <1>0, <2>1 DEF SeenFinal
  <2>2. CASE jobs[j].state # "done"
    <3>1. PICK w \in Proc : proc[w].pc = "jobdone" /\ proc[w].job = j /\ proc[w].seen # "pending"
      BY <1>0, <1>t, <2>2, DoneByTick
    <3> QED BY <3>1 DEF SettleInv, TicksTrue, TickOf
  <2> QED BY <2>1, <2>2
<1> QED BY <1>0, <1>1, <1>t, ProviderKeeps

LEMMA SkippedStep ==
  ASSUME SettleInv, SeenFinal, NothingSkipped, [Next]_vars
  PROVE  NothingSkipped'
<1>t. TypeOK /\ Known
  BY DEF SettleInv, PayInv
<1>k. /\ pid # NoPayment => pid' # NoPayment
      /\ status # "hold" => status' # "hold"
      /\ \A p \in Payment : local[p] = "paid" => local'[p] = "paid"
  BY <1>t, NothingComesBack
<1>1. ASSUME NEW j \in Check \ early', jobs'[j].state = "done", provider'[j[2]] = "succeeded"
      PROVE  local'[j[2]] = "paid"
  <2>0. j \in JobId /\ j[2] \in Payment /\ j \notin early
    BY <1>1, Names, EarlyGrows
  <2>1. CASE jobs[j].state = "done"
    <3>1. provider[j[2]] = "succeeded"
      BY <1>1, <1>t, <2>0, <2>1, ProviderKeeps DEF SeenFinal
    <3> QED BY <1>k, <2>0, <2>1, <3>1 DEF NothingSkipped
  <2>2. CASE jobs[j].state # "done"
    <3>1. PICK w \in Proc : proc[w].pc = "jobdone" /\ proc[w].job = j /\ proc[w].seen # "pending"
      BY <1>1, <1>t, <2>0, <2>2, DoneByTick
    <3>2. /\ provider[j[2]] \in Final
          /\ provider[j[2]] = "succeeded" => local[j[2]] = "paid"
      BY <3>1 DEF SettleInv, TicksTrue, TickOf
    <3>3. provider[j[2]] = "succeeded"
      BY <1>1, <1>t, <2>0, <3>2, ProviderKeeps
    <3> QED BY <1>k, <2>0, <3>2, <3>3
  <2> QED BY <2>1, <2>2
<1>2. ASSUME jobs'[CreateJob].state = "done", status' = "hold"
      PROVE  pid' # NoPayment
  <2>0. CreateJob \in JobId
    BY Names
  <2>1. CASE jobs[CreateJob].state = "done"
    BY <1>2, <1>k, <2>1 DEF NothingSkipped
  <2>2. CASE jobs[CreateJob].state # "done"
    <3>1. PICK w \in Proc : proc[w].pc = "jobdone" /\ proc[w].job = CreateJob
      BY <1>2, <1>t, <2>0, <2>2, DoneByTick
    <3>2. status # "hold" \/ pid # NoPayment
      BY <3>1 DEF SettleInv, TicksTrue, TickOf
    <3> QED BY <1>2, <1>k, <3>2
  <2> QED BY <2>1, <2>2
<1> QED BY <1>1, <1>2, ExpiryEnds DEF NothingSkipped

\* No failure, stale lease or repetition makes a worker take for done what the
\* settlement of the money or the end of the hold still needs (tick,
\* checkPayment, 'expire:<id>'): only a check that looked before its payment
\* succeeded, for a notification that came early, is done with nothing applied.
THEOREM NothingIsSkipped == Spec => []NothingSkipped
<1>1. Init => NothingSkipped /\ SeenFinal
  <2> SUFFICES ASSUME Init PROVE NothingSkipped /\ SeenFinal
    OBVIOUS
  <2>1. \A j \in JobId : jobs[j].state # "done"
    BY DEF Init, Job
  <2> QED BY <2>1, Names DEF Init, NothingSkipped, SeenFinal, Ran
<1>2. SettleInv /\ SeenFinal /\ NothingSkipped /\ [Next]_vars => NothingSkipped' /\ SeenFinal'
  BY SkippedStep, SeenFinalStep
<1> QED BY <1>1, <1>2, SettleInvHolds, PTL DEF Spec

-----------------------------------------------------------------------------
\* The booking is an online hold.

\* Nothing an observer of the hold sees changes.
LEMMA HoldStutters ==
  ASSUME Calm, UNCHANGED <<status, attention, lapsed>>
  PROVE  UNCHANGED <<StageNow, MoneyNow, attention>>
<1>1. (\E p \in Payment : local'[p] = "cancelled") <=> (\E p \in Payment : local[p] = "cancelled")
  BY DEF Calm
<1>2. Paid' <=> Paid
  BY DEF Calm, Paid
<1>3. MoneyNow' = MoneyNow
  BY <1>1, <1>2 DEF MoneyNow
<1>4. StageNow' = StageNow
  BY DEF StageNow
<1> QED BY <1>3, <1>4

LEMMA MoneyKept ==
  ASSUME Calm
  PROVE  MoneyNow' = MoneyNow
<1>1. (\E p \in Payment : local'[p] = "cancelled") <=> (\E p \in Payment : local[p] = "cancelled")
  BY DEF Calm
<1>2. Paid' <=> Paid
  BY DEF Calm, Paid
<1> QED BY <1>1, <1>2 DEF MoneyNow

\* cancelInTransaction, called by a step that applies no result.
LEMMA CancelEnds ==
  ASSUME TypeOK, Calm, status # "cancelled", CancelBooking
  PROVE  Hold!Cancel
<1>1. StageNow \in {"hold", "lapsed", "booked", "conflict"}
  BY DEF TypeOK, StageNow
<1>2. StageNow' = "cancelled"
  BY DEF CancelBooking, StageNow
<1>3. MoneyNow' = MoneyNow
  BY MoneyKept
<1>4. attention' = (MoneyNow = "received")
  <2>1. attention' = Paid
    BY DEF CancelBooking
  <2>2. CASE Paid
    BY <2>1, <2>2 DEF MoneyNow
  <2>3. CASE ~Paid
    <3>1. attention' = FALSE
      BY <2>1, <2>3 DEF Paid
    <3>2. MoneyNow # "received"
      BY <2>3 DEF MoneyNow
    <3> QED BY <3>1, <3>2
  <2> QED BY <2>2, <2>3
<1> QED BY <1>1, <1>2, <1>3, <1>4 DEF Hold!Cancel, Hold!Waiting, Hold!Decided

LEMMA ResultDecides ==
  ASSUME SettleInv, NEW w \in Proc, Result(w)
  PROVE  Hold!Next \/ UNCHANGED <<StageNow, MoneyNow, attention>>
<1> DEFINE q == proc[w].pay
<1>t. TypeOK
  BY DEF SettleInv, PayInv
<1>1. CASE Ran(<<proc[w].seen, q>>)
  <2>1. UNCHANGED <<status, attention, lapsed, local>>
    BY <1>1 DEF Result, booking, records
  <2> QED BY <2>1 DEF StageNow, MoneyNow, Paid
<1>2. CASE ~Ran(<<proc[w].seen, q>>)
  <2>1. /\ q \in Payment /\ proc[w].seen \in Final
        /\ ~Paid /\ (\A p \in Payment : local[p] # "cancelled")
        /\ status \in {"hold", "cancelled"}
    BY <1>2, ResultIsFirst DEF SettleInv
  <2>2. MoneyNow = "awaited"
    BY <2>1 DEF MoneyNow
  <2>3. StageNow = (IF status = "cancelled" THEN "cancelled" ELSE IF lapsed THEN "lapsed" ELSE "hold")
    BY <2>1 DEF StageNow
  <2>4. /\ proc[w].seen = "succeeded" => PaymentSucceeded(q)
        /\ proc[w].seen # "succeeded" => PaymentCanceled(q)
    BY <1>2 DEF Result, booking, records
  <2>l. local \in [Payment -> {"none", "pending", "paid", "cancelled"}] /\ lapsed \in BOOLEAN
    BY <1>t DEF TypeOK
  <2>5. ASSUME PaymentSucceeded(q)
        PROVE  Hold!Receive
    <3>1. PICK roomTaken \in BOOLEAN :
            /\ roomTaken => lapsed \/ status = "cancelled"
            /\ local' = [local EXCEPT ![q] = "paid"]
            /\ status' = IF status = "cancelled" THEN "cancelled"
                         ELSE IF Conflict(roomTaken) THEN "resolution" ELSE "settled"
            /\ attention' = Conflict(roomTaken)
            /\ UNCHANGED <<pid, lapsed>>
      BY <2>5 DEF PaymentSucceeded
    <3>2. Paid'
      BY <2>1, <2>l, <3>1 DEF Paid
    <3>3. MoneyNow' = "received"
      BY <3>2 DEF MoneyNow
    <3>4. CASE status = "cancelled"
      <4>1. StageNow = "cancelled" /\ StageNow' = "cancelled" /\ attention' = TRUE
        BY <2>3, <3>1, <3>4 DEF StageNow, Conflict
      <4> QED BY <2>2, <3>3, <4>1 DEF Hold!Receive
    <3>5. CASE status = "hold" /\ roomTaken
      <4>1. StageNow = "lapsed" /\ StageNow' = "conflict" /\ attention' = TRUE
        BY <2>3, <3>1, <3>5 DEF StageNow, Conflict
      <4> QED BY <2>2, <3>3, <4>1 DEF Hold!Receive, Hold!Waiting
    <3>6. CASE status = "hold" /\ ~roomTaken
      <4>1. StageNow \in {"hold", "lapsed"} /\ StageNow' = "booked" /\ attention' = FALSE
        BY <2>3, <3>1, <3>6 DEF StageNow, Conflict
      <4> QED BY <2>2, <3>3, <4>1 DEF Hold!Receive, Hold!Waiting
    <3> QED BY <2>1, <3>4, <3>5, <3>6
  <2>6. ASSUME PaymentCanceled(q)
        PROVE  Hold!Void
    <3>1. local' = [local EXCEPT ![q] = "cancelled"]
      BY <2>1, <2>6, <2>l DEF PaymentCanceled, Paid
    <3>2. ~Paid' /\ \E p \in Payment : local'[p] = "cancelled"
      BY <2>1, <2>l, <3>1 DEF Paid
    <3>3. MoneyNow' = "void"
      BY <3>2 DEF MoneyNow
    <3>4. CASE status = "hold"
      <4>1. StageNow \in {"hold", "lapsed"} /\ StageNow' = "cancelled"
        BY <2>3, <2>6, <3>4 DEF PaymentCanceled, CancelBooking, StageNow
      <4>2. attention' = Paid
        BY <2>6, <3>4 DEF PaymentCanceled, CancelBooking
      <4>3. attention' = FALSE
        BY <2>1, <4>2
      <4> QED BY <2>2, <3>3, <4>1, <4>3 DEF Hold!Void, Hold!Waiting
    <3>5. CASE status = "cancelled"
      <4>1. StageNow = "cancelled" /\ StageNow' = "cancelled" /\ attention' = attention
        BY <2>3, <2>6, <3>5 DEF PaymentCanceled, booking, StageNow
      <4> QED BY <2>2, <3>3, <4>1 DEF Hold!Void
    <3> QED BY <2>1, <3>4, <3>5
  <2> QED BY <2>4, <2>5, <2>6 DEF Hold!Next
<1> QED BY <1>1, <1>2

\* The hold that a request was made for has lapsed, whatever has become of it since.
LEMMA UncertainDoubts ==
  ASSUME SettleInv, NEW w \in Proc, Uncertain(w), Calm
  PROVE  Hold!Next \/ UNCHANGED <<StageNow, MoneyNow, attention>>
<1>t. TypeOK
  BY DEF SettleInv, PayInv
<1>1. lapsed
  BY DEF SettleInv, TicksTrue, TickOf, Uncertain, At
<1>2. StageNow \in {"lapsed", "cancelled", "booked", "conflict"}
  BY <1>t, <1>1 DEF StageNow, TypeOK
<1>3. StageNow' = StageNow /\ MoneyNow' = MoneyNow
  BY MoneyKept DEF Uncertain, StageNow
<1>4. CASE attention' = TRUE
  BY <1>2, <1>3, <1>4 DEF Hold!Next, Hold!Doubt, Hold!Decided
<1>5. CASE attention' # TRUE
  <2>1. ~(attention \/ ~Ran(UncertainCommand))
    BY <1>5 DEF Uncertain
  <2>2. attention' = FALSE /\ attention = FALSE
    BY <1>t, <2>1 DEF TypeOK, Uncertain
  <2> QED BY <1>3, <2>2
<1> QED BY <1>4, <1>5

LEMMA HoldStep ==
  ASSUME SettleInv, [Next]_vars
  PROVE  Hold!Next \/ UNCHANGED <<StageNow, MoneyNow, attention>>
<1>t. TypeOK /\ Known
  BY DEF SettleInv, PayInv
<1>1. ASSUME NEW w \in Proc, Result(w)
      PROVE  Hold!Next \/ UNCHANGED <<StageNow, MoneyNow, attention>>
  BY <1>1, ResultDecides
<1>2. CASE Calm
  <2>1. CASE UNCHANGED <<status, attention, lapsed>>
    BY <1>2, <2>1, HoldStutters
  <2>2. CASE Cancel
    BY <1>2, <2>2, <1>t, CancelEnds DEF Cancel, Hold!Next
  <2>3. CASE Lapse
    <3>1. StageNow' = StageNow \/ (StageNow = "hold" /\ StageNow' = "lapsed")
      BY <2>3, <1>t DEF Lapse, StageNow, TypeOK
    <3>2. MoneyNow' = MoneyNow /\ attention' = attention
      BY <1>2, <2>3, MoneyKept DEF Lapse
    <3> QED BY <3>1, <3>2 DEF Hold!Next, Hold!Lapse
  <2>4. ASSUME NEW w \in Proc, Uncertain(w)
        PROVE  Hold!Next \/ UNCHANGED <<StageNow, MoneyNow, attention>>
    BY <1>2, <2>4, UncertainDoubts
  <2>5. ASSUME NEW w \in Proc, Expire(w)
        PROVE  Hold!Next \/ UNCHANGED <<StageNow, MoneyNow, attention>>
    <3>1. CASE UNCHANGED booking
      BY <1>2, <3>1, HoldStutters DEF booking
    <3>2. CASE LapsedHold /\ CancelBooking
      BY <1>2, <1>t, <3>2, CancelEnds DEF LapsedHold, Hold!Next
    <3> QED BY <2>5, <3>1, <3>2 DEF Expire
  <2>6. ASSUME NEW w \in Proc, Step(w)
        PROVE  \/ UNCHANGED <<status, attention, lapsed>>
               \/ Uncertain(w) \/ Expire(w) \/ Result(w)
    BY <2>6 DEF Step, Read, Intend, Lookup, Post, Attach, AttachPayment, Get, Local, Adopt, JobDone, JobFailed,
       Sweep, booking
  <2>7. \/ UNCHANGED <<status, attention, lapsed>>
        \/ Cancel \/ Lapse \/ \E w \in Proc : Step(w)
    BY DEF Next, vars, booking, Fail, Crash, NoJob, Claim, Checkout, Poll, LeaseLapses, Webhook, Settle,
       IntentAges, Forget
  <2> QED BY <1>1, <2>1, <2>2, <2>3, <2>4, <2>5, <2>6, <2>7
<1> QED BY <1>t, <1>1, <1>2, OnlyResultsApply

\* Retries, overlapping workers, lost answers and late notifications do to the
\* booking what one payment with one outcome does (createPayment, checkPayment,
\* expire, cancelInTransaction).
THEOREM HoldImplemented == Spec => ImplementsHold
<1>1. Init => Hold!Init
  <2> SUFFICES ASSUME Init PROVE Hold!Init
    OBVIOUS
  <2>1. StageNow = "hold"
    BY DEF Init, StageNow
  <2>2. MoneyNow = "awaited"
    BY DEF Init, MoneyNow, Paid
  <2> QED BY <2>1, <2>2 DEF Init, Hold!Init
<1>2. SettleInv /\ [Next]_vars => [Hold!Next]_(Hold!hold)
  BY HoldStep DEF Hold!hold
<1> QED BY <1>1, <1>2, SettleInvHolds, PTL DEF Spec, ImplementsHold, Hold!Spec

-----------------------------------------------------------------------------
\* What becomes of the demand for reconciliation.

\* The booking is not cancelled while an administrator has to look for a payment
\* that may exist.
NotCancelledMeanwhile ==
  [][Ran(UncertainCommand) /\ status # "cancelled" /\ (\A p \in Payment : local'[p] = "none")
       => status' # "cancelled"]_vars

LEMMA UncertainStep ==
  ASSUME TypeOK, Known, UncertainIsFlagged, [Next]_vars,
         Ran(UncertainCommand) /\ status # "cancelled" /\ (\A p \in Payment : local'[p] = "none")
           => status' # "cancelled"
  PROVE  UncertainIsFlagged'
<1> SUFFICES ASSUME Ran(UncertainCommand)', \A p \in Payment : local'[p] = "none"
             PROVE  attention'
  BY DEF UncertainIsFlagged
<1>0. \A p \in Payment : local[p] = "none"
  BY NothingComesBack
<1>k. ASSUME attention' = attention, Ran(UncertainCommand)
      PROVE  attention'
  BY <1>k, <1>0 DEF UncertainIsFlagged
<1>c. ASSUME Ran(UncertainCommand), status # "cancelled", CancelBooking
      PROVE  FALSE
  BY <1>c DEF CancelBooking
<1>1. CASE UNCHANGED <<attention, receipts>>
  BY <1>1, <1>k DEF Ran
<1>2. CASE Cancel
  BY <1>2, <1>c DEF Cancel, records, Ran
<1>3. ASSUME NEW w \in Proc, Expire(w)
      PROVE  attention'
  <2>1. Ran(UncertainCommand)
    BY <1>3 DEF Expire, Ran, UncertainCommand, ExpireCommand
  <2>2. UNCHANGED booking
    BY <1>3, <1>c, <2>1 DEF Expire, LapsedHold
  <2> QED BY <1>k, <2>1, <2>2 DEF booking
<1>4. ASSUME NEW w \in Proc, Uncertain(w)
      PROVE  attention'
  BY <1>4, <1>0 DEF Uncertain, UncertainIsFlagged
<1>5. ASSUME NEW w \in Proc, Attach(w) \/ Adopt(w)
      PROVE  attention'
  <2>1. AttachPayment(proc[w].pay)
    BY <1>5 DEF Attach, Adopt
  <2>2. attention' = attention /\ Ran(UncertainCommand)
    BY <2>1 DEF AttachPayment, booking, records, Ran, UncertainCommand
  <2> QED BY <1>k, <2>2
<1>6. ASSUME NEW w \in Proc, Result(w)
      PROVE  attention'
  <2>1. proc[w].pay \in Payment
    BY <1>6 DEF Result, At, Known, Handling
  <2>2. CASE UNCHANGED <<booking, records>>
    BY <2>2, <1>k DEF booking, records, Ran
  <2>3. CASE PaymentSucceeded(proc[w].pay) \/ PaymentCanceled(proc[w].pay)
    <3>1. local'[proc[w].pay] # "none"
      BY <2>1, <2>3 DEF PaymentSucceeded, PaymentCanceled, TypeOK
    <3> QED BY <2>1, <3>1
  <2> QED BY <1>6, <2>2, <2>3 DEF Result
<1>7. ASSUME NEW w \in Proc, Intend(w)
      PROVE  attention'
  <2>1. attention' = attention /\ Ran(UncertainCommand)
    BY <1>7 DEF Intend, booking, records, Ran, UncertainCommand, IntentCommand
  <2> QED BY <1>k, <2>1
<1>8. \/ UNCHANGED <<attention, receipts>>
      \/ Cancel
      \/ \E w \in Proc : Expire(w) \/ Uncertain(w) \/ Attach(w) \/ Adopt(w) \/ Result(w) \/ Intend(w)
  BY DEF Next, Step, vars, booking, records, Read, Lookup, Post, Get, Local, JobDone, JobFailed, Sweep,
     Fail, Crash, NoJob, Claim, Checkout, Poll, LeaseLapses, Webhook, Settle, Lapse, IntentAges, Forget
<1> QED BY <1>1, <1>2, <1>3, <1>4, <1>5, <1>6, <1>7, <1>8

\* The demand for reconciliation stands until the payment is found, unless the
\* booking is cancelled: a cancellation is the only step that loses it, which is
\* what MCOnlinePayments_uncertain.cfg shows (cancelInTransaction,
\* operations.bookings.ts:850).
THEOREM DemandStands == Spec /\ NotCancelledMeanwhile => []UncertainIsFlagged
<1> DEFINE Kept == Ran(UncertainCommand) /\ status # "cancelled" /\ (\A p \in Payment : local'[p] = "none")
                     => status' # "cancelled"
<1>1. Init => UncertainIsFlagged
  BY DEF Init, UncertainIsFlagged, Ran
<1>2. PayInv /\ UncertainIsFlagged /\ [Next]_vars /\ [Kept]_vars => UncertainIsFlagged'
  <2> SUFFICES ASSUME PayInv, UncertainIsFlagged, [Next]_vars, [Kept]_vars
               PROVE  UncertainIsFlagged'
    OBVIOUS
  <2>1. CASE Kept
    BY <2>1, UncertainStep DEF PayInv
  <2>2. CASE UNCHANGED vars
    BY <2>2 DEF vars, booking, records, UncertainIsFlagged, Ran
  <2> QED BY <2>1, <2>2
<1> QED BY <1>1, <1>2, PayInvHolds, PTL DEF Spec, NotCancelledMeanwhile
=============================================================================
