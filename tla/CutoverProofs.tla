--------------------------- MODULE CutoverProofs ---------------------------
(***************************************************************************)
(* Proofs about Cutover, for any number of shells, exports and parts.      *)
(* The last part says when Pass is opened on the data that was compared:   *)
(* what MCCutover_open.cfg refutes without that condition.                 *)
(***************************************************************************)
EXTENDS Cutover, TLAPS

LEMMA ShellFields ==
  ASSUME NEW r \in ShellState
  PROVE  /\ r.pc \in {"idle", "lock", "write", "unlock", "verify", "open", "rollback"}
         /\ r.export \in Export \cup {None} /\ r.done \in SUBSET Part /\ r.locked \in BOOLEAN
         /\ r = [pc |-> r.pc, export |-> r.export, done |-> r.done, locked |-> r.locked]
BY DEF ShellState

\* An import that writes holds the lock alone, and Pass was never opened.
LockInv ==
  /\ TypeOK
  /\ NeverOpenDuringImport
  /\ \A s \in Shell : Importing(s) => ~everOpened
  /\ \A s \in Shell : At(s, "lock") \/ Importing(s) => shell[s].export # None

LEMMA TypeStep ==
  ASSUME TypeOK, [Next]_vars
  PROVE  TypeOK'
<1>t. shell \in [Shell -> ShellState]
  BY DEF TypeOK
<1>g. ASSUME NEW s \in Shell,
             NEW st \in {"idle", "lock", "write", "unlock", "verify", "open", "rollback"},
             Goto(s, st)
      PROVE  (shell \in [Shell -> ShellState])'
  <2>1. [shell[s] EXCEPT !.pc = st] \in ShellState
    BY <1>t, ShellFields DEF ShellState
  <2>2. shell' = [shell EXCEPT ![s] = [shell[s] EXCEPT !.pc = st]]
    BY <1>g DEF Goto
  <2> QED BY <1>t, <2>1, <2>2
<1>d. ASSUME NEW s \in Shell, NEW p \in Part, shell' = [shell EXCEPT ![s].done = @ \cup {p}]
      PROVE  (shell \in [Shell -> ShellState])'
  <2>1. [shell[s] EXCEPT !.done = @ \cup {p}] \in ShellState
    BY <1>t, ShellFields DEF ShellState
  <2>2. shell' = [shell EXCEPT ![s] = [shell[s] EXCEPT !.done = @ \cup {p}]]
    BY <1>d
  <2> QED BY <1>t, <2>1, <2>2
<1>i. ASSUME NEW s \in Shell, Stop(s)
      PROVE  (shell \in [Shell -> ShellState])'
  BY <1>i, <1>t DEF Stop, Idle, ShellState
<1>r. ASSUME NEW s \in Shell, NEW e \in Export \cup {None},
             NEW st \in {"lock", "verify", "rollback"}, Run(s, st, e)
      PROVE  (shell \in [Shell -> ShellState])'
  <2>1. [pc |-> st, export |-> e, done |-> {}, locked |-> lock # None] \in ShellState
    BY DEF ShellState
  <2> QED BY <1>r, <1>t, <2>1 DEF Run
<1>e. \A s \in Shell : shell[s].export \in Export \cup {None}
  BY <1>t, ShellFields
<1>1. ASSUME NEW s \in Shell, NEW e \in Export, StartImport(s, e) \/ StartOpen(s, e)
      PROVE  TypeOK'
  BY <1>1, <1>r DEF StartImport, StartOpen, TypeOK, owner
<1>2. ASSUME NEW s \in Shell, Lock(s)
      PROVE  TypeOK'
  BY <1>2, <1>g, <1>i, <1>e DEF Lock, TypeOK
<1>3. ASSUME NEW s \in Shell, NEW p \in Part, BeginPart(s, p)
      PROVE  TypeOK'
  BY <1>3 DEF BeginPart, TypeOK, Contents, owner
<1>4. ASSUME NEW s \in Shell, NEW p \in Part, EndPart(s, p)
      PROVE  TypeOK'
  <2>1. data' \in [Part -> Contents]
    BY <1>4, <1>e DEF EndPart, TypeOK, Contents
  <2> QED BY <1>4, <1>d, <2>1 DEF EndPart, TypeOK, owner
<1>5. ASSUME NEW s \in Shell, NEW p \in Part, VerifyPart(s, p)
      PROVE  TypeOK'
  BY <1>5, <1>d, <1>i DEF VerifyPart, TypeOK, owner
<1>6. ASSUME NEW s \in Shell, Record(s) \/ ImportFails(s) \/ Unlock(s)
      PROVE  TypeOK'
  BY <1>6, <1>g, <1>i, <1>e DEF Record, ImportFails, Unlock, TypeOK, owner
<1>7. ASSUME NEW s \in Shell, Verified(s) \/ Open(s)
      PROVE  TypeOK'
  BY <1>7, <1>g, <1>i, <1>e DEF Verified, Open, TypeOK, owner
<1>8. ASSUME NEW s \in Shell, StartRollback(s) \/ Rollback(s) \/ Kill(s)
      PROVE  TypeOK'
  BY <1>8, <1>r, <1>i DEF StartRollback, Rollback, Kill, TypeOK, owner
<1>9. ASSUME NEW p \in Part, Operate(p)
      PROVE  TypeOK'
  BY <1>9 DEF Operate, TypeOK, Contents, owner
<1>10. CASE Pause \/ ClearLock \/ UNCHANGED vars
  BY <1>10 DEF Pause, ClearLock, TypeOK, vars, owner
<1> QED
  BY <1>1, <1>2, <1>3, <1>4, <1>5, <1>6, <1>7, <1>8, <1>9, <1>10 DEF Next, ShellStep

\* Which steps move a shell into an import, or change what an import relies on.
LEMMA LockStep ==
  ASSUME LockInv, [Next]_vars
  PROVE  LockInv'
<1>t. TypeOK /\ TypeOK' /\ shell \in [Shell -> ShellState]
  BY TypeStep DEF LockInv, TypeOK
<1>k. ASSUME UNCHANGED <<mode, lock, everOpened>>,
             \A s \in Shell : shell'[s].pc \in {"lock", "write", "unlock"} =>
               /\ shell'[s].pc # "lock" => Importing(s)
               /\ shell'[s].pc = "lock" => At(s, "lock")
               /\ shell'[s].export = shell[s].export
      PROVE  LockInv'
  <2>1. NeverOpenDuringImport' /\ (\A s \in Shell : Importing(s) => ~everOpened)'
    BY <1>k DEF LockInv, NeverOpenDuringImport, Importing
  <2>2. (\A s \in Shell : At(s, "lock") \/ Importing(s) => shell[s].export # None)'
    BY <1>k DEF LockInv, Importing, At
  <2> QED BY <1>t, <2>1, <2>2 DEF LockInv
<1>n. ASSUME NEW s \in Shell, UNCHANGED <<mode, lock, everOpened>>,
             \A t \in Shell \ {s} : shell'[t] = shell[t], shell'[s].pc \notin {"lock", "write", "unlock"}
      PROVE  LockInv'
  BY <1>n, <1>k DEF Importing, At
<1>1. ASSUME NEW s \in Shell, NEW e \in Export, StartImport(s, e) \/ StartOpen(s, e)
      PROVE  LockInv'
  <2>1. CASE StartOpen(s, e)
    BY <1>1, <2>1, <1>n, <1>t DEF StartOpen, Run, owner
  <2>2. CASE StartImport(s, e)
    <3>1. /\ shell'[s].pc = "lock" /\ shell'[s].export = e /\ e # None
          /\ \A t \in Shell \ {s} : shell'[t] = shell[t]
      BY <2>2, <1>t, ExportAssumption DEF StartImport, Run
    <3>2. UNCHANGED <<mode, lock, everOpened>>
      BY <2>2 DEF StartImport, owner
    <3> QED BY <1>t, <3>1, <3>2 DEF LockInv, NeverOpenDuringImport, Importing, At
  <2> QED BY <1>1, <2>1, <2>2
<1>2. ASSUME NEW s \in Shell, Lock(s)
      PROVE  LockInv'
  <2>1. CASE MayLock
    <3>1. \A t \in Shell : ~Importing(t)
      BY <2>1 DEF MayLock, LockInv, NeverOpenDuringImport, Importing
    <3>2. /\ lock' = shell[s].export /\ UNCHANGED <<mode, everOpened>>
          /\ shell'[s].export = shell[s].export
          /\ \A t \in Shell \ {s} : shell'[t] = shell[t]
      BY <1>2, <2>1, <1>t, ShellFields DEF Lock, Goto
    <3>3. shell[s].export # None
      BY <1>2 DEF Lock, LockInv
    <3> QED BY <1>t, <2>1, <3>1, <3>2, <3>3
         DEF MayLock, LockInv, NeverOpenDuringImport, Importing, At
  <2>2. CASE ~MayLock
    BY <1>2, <2>2, <1>n, <1>t DEF Lock, Stop, Idle
  <2> QED BY <2>1, <2>2
<1>3. ASSUME NEW s \in Shell, NEW p \in Part, BeginPart(s, p) \/ EndPart(s, p)
      PROVE  LockInv'
  <2>1. \A t \in Shell : shell'[t].pc = shell[t].pc /\ shell'[t].export = shell[t].export
    BY <1>3, <1>t, ShellFields DEF BeginPart, EndPart
  <2> QED BY <1>3, <1>k, <2>1 DEF BeginPart, EndPart, Importing, At, owner
<1>4. ASSUME NEW s \in Shell, NEW p \in Part, VerifyPart(s, p)
      PROVE  LockInv'
  <2>1. shell'[s].pc \notin {"lock", "write", "unlock"} /\ \A t \in Shell \ {s} : shell'[t] = shell[t]
    BY <1>4, <1>t, ShellFields DEF VerifyPart, Stop, Idle, At
  <2> QED BY <1>4, <1>n, <2>1 DEF VerifyPart, owner
<1>5. ASSUME NEW s \in Shell, Record(s) \/ ImportFails(s)
      PROVE  LockInv'
  <2>1. \A t \in Shell : shell'[t].export = shell[t].export /\ (t # s => shell'[t] = shell[t])
    BY <1>5, <1>t, ShellFields DEF Record, ImportFails, Goto
  <2>2. Importing(s)
    BY <1>5 DEF Record, ImportFails, At, Importing
  <2>3. shell'[s].pc = "unlock"
    BY <1>5, <1>t, ShellFields DEF Record, ImportFails, Goto
  <2> QED BY <1>5, <1>k, <2>1, <2>2, <2>3 DEF Record, ImportFails, Importing, At, owner
<1>6. ASSUME NEW s \in Shell, Unlock(s)
      PROVE  LockInv'
  <2>1. \A t \in Shell : ~Importing(t)'
    BY <1>6, <1>t DEF Unlock, Stop, Idle, At, Importing, LockInv, NeverOpenDuringImport
  <2>2. (\A t \in Shell : At(t, "lock") => shell[t].export # None)'
    BY <1>6, <1>t DEF Unlock, Stop, Idle, At, LockInv
  <2> QED BY <1>t, <2>1, <2>2 DEF LockInv, NeverOpenDuringImport
<1>7. ASSUME NEW s \in Shell, Verified(s)
      PROVE  LockInv'
  <2>1. shell'[s].pc \notin {"lock", "write", "unlock"} /\ \A t \in Shell \ {s} : shell'[t] = shell[t]
    BY <1>7, <1>t, ShellFields DEF Verified, Goto, Stop, Idle
  <2> QED BY <1>7, <1>n, <2>1 DEF Verified, owner
<1>8. ASSUME NEW s \in Shell, Open(s)
      PROVE  LockInv'
  <2>1. shell'[s].pc = "idle" /\ \A t \in Shell \ {s} : shell'[t] = shell[t]
    BY <1>8, <1>t DEF Open, Stop, Idle
  <2>2. CASE MayOpen
    <3>1. \A t \in Shell : ~Importing(t)
      BY <2>2 DEF MayOpen, LockInv, NeverOpenDuringImport, Importing
    <3> QED BY <1>t, <2>1, <3>1 DEF LockInv, NeverOpenDuringImport, Importing, At
  <2>3. CASE ~MayOpen
    BY <1>8, <1>n, <2>1, <2>3 DEF Open
  <2> QED BY <2>2, <2>3
<1>9. ASSUME NEW s \in Shell, StartRollback(s) \/ Rollback(s) \/ Kill(s)
      PROVE  LockInv'
  <2>1. shell'[s].pc \notin {"lock", "write", "unlock"} /\ \A t \in Shell \ {s} : shell'[t] = shell[t]
    BY <1>9, <1>t DEF StartRollback, Rollback, Kill, Run, Stop, Idle
  <2>2. UNCHANGED <<lock, everOpened>> /\ mode' \in {mode, "mstyle"}
    BY <1>9 DEF StartRollback, Rollback, Kill, owner
  <2> QED BY <1>t, <2>1, <2>2 DEF LockInv, NeverOpenDuringImport, Importing, At
<1>10. CASE (\E p \in Part : Operate(p)) \/ UNCHANGED vars
  BY <1>10, <1>k DEF Operate, vars, owner, Importing, At
<1>11. CASE Pause \/ ClearLock
  BY <1>11, <1>t DEF Pause, ClearLock, LockInv, NeverOpenDuringImport, Importing, At
<1> QED
  BY <1>1, <1>2, <1>3, <1>4, <1>5, <1>6, <1>7, <1>8, <1>9, <1>10, <1>11 DEF Next, ShellStep

LEMMA LockHolds == Spec => []LockInv
<1>1. Init => LockInv
  <2>1. Idle \in ShellState /\ Idle.pc = "idle"
    BY DEF Idle, ShellState
  <2>2. ASSUME Init
        PROVE  TypeOK
    <3>1. shell \in [Shell -> ShellState] /\ data \in [Part -> Contents]
      BY <2>1, <2>2 DEF Init, Contents
    <3> QED BY <2>2, <3>1 DEF Init, TypeOK
  <2> QED BY <2>1, <2>2 DEF Init, LockInv, NeverOpenDuringImport, Importing, At
<1> QED BY <1>1, LockStep, PTL DEF Spec

\* migration_lock keeps the opening and every import apart.
THEOREM LockExcludes == Spec => []NeverOpenDuringImport
<1>1. LockInv => NeverOpenDuringImport
  BY DEF LockInv
<1> QED BY <1>1, LockHolds, PTL

\* Pass stays open for good once it has been opened.
LEMMA OpenedForGood ==
  ASSUME everOpened, [Next]_vars
  PROVE  everOpened'
BY DEF Next, ShellStep, vars, owner, StartImport, StartOpen, Lock, BeginPart, EndPart, VerifyPart,
   Record, ImportFails, Unlock, Verified, Open, StartRollback, Rollback, Kill, Operate, Pause,
   ClearLock

\* No import writes after the opening (the filters of import's lock).
THEOREM OpenedDataIsOurs == Spec => ImportsEndAtOpening
<1>1. LockInv /\ [Next]_vars =>
        [everOpened => \A p \in Part : data'[p] \in {data[p], "pass"}]_vars
  <2> SUFFICES ASSUME LockInv, [Next]_vars, everOpened, NEW p \in Part
               PROVE  data'[p] \in {data[p], "pass"}
    OBVIOUS
  <2>t. data \in [Part -> Contents]
    BY DEF LockInv, TypeOK
  <2>1. \A s \in Shell : ~At(s, "write")
    BY DEF LockInv, Importing, At
  <2>2. ASSUME NEW q \in Part, Operate(q)
        PROVE  data'[p] \in {data[p], "pass"}
    BY <2>2, <2>t DEF Operate
  <2>3. UNCHANGED data \/ \E q \in Part : Operate(q)
    BY <2>1 DEF Next, ShellStep, vars, StartImport, StartOpen, Lock, BeginPart, EndPart, VerifyPart,
       Record, ImportFails, Unlock, Verified, Open, StartRollback, Rollback, Kill, Pause, ClearLock
  <2> QED BY <2>2, <2>3
<1> QED BY <1>1, LockHolds, PTL DEF Spec, ImportsEndAtOpening

\* No rollback hands the operations back to Mstyle after the opening.
THEOREM MstyleNeverAgain == Spec => NoWayBack
<1>1. [Next]_vars => [everOpened => mode' # "mstyle" \/ mode = "mstyle"]_vars
  BY DEF Next, ShellStep, vars, owner, StartImport, StartOpen, Lock, BeginPart, EndPart, VerifyPart,
     Record, ImportFails, Unlock, Verified, Open, StartRollback, Rollback, MayRollBack, Kill, Operate,
     Pause, ClearLock
<1>2. (everOpened => mode # "mstyle") /\ [Next]_vars => (everOpened => mode # "mstyle")'
  BY DEF Next, ShellStep, vars, owner, StartImport, StartOpen, Lock, BeginPart, EndPart, VerifyPart,
     Record, ImportFails, Unlock, Verified, Open, StartRollback, Rollback, MayRollBack, Kill, Operate,
     Pause, ClearLock
<1>3. Init => (everOpened => mode # "mstyle")
  BY DEF Init
<1>4. (everOpened => mode # "mstyle") /\ [everOpened => mode' # "mstyle" \/ mode = "mstyle"]_vars
        => [everOpened => mode' # "mstyle"]_vars
  OBVIOUS
<1> QED BY <1>1, <1>2, <1>3, <1>4, PTL DEF Spec, NoWayBack

-----------------------------------------------------------------------------
\* When Pass is opened on what was compared.

\* From the beginning of verify to the update that opens.
Comparing(s) == shell[s].pc \in {"verify", "open"}

\* What the operators have to see to: no import takes the lock while a shell
\* compares.
NoImportMeanwhile ==
  [][(\E s \in Shell : Comparing(s)) => lock' \in {lock, None}]_vars

\* Before the first opening, while a shell compares that saw no lock, nothing is
\* imported, and what it found equal still is.
CompareInv ==
  /\ ~everOpened => mode # "pass"
  /\ \A s \in Shell : At(s, "open") => shell[s].done = Part /\ ~shell[s].locked
  /\ \A s \in Shell : Comparing(s) /\ ~shell[s].locked /\ ~everOpened =>
       /\ \A t \in Shell : ~Importing(t)
       /\ \A p \in shell[s].done : data[p] = shell[s].export

\* A shell compares on, begins, finds a part equal, or has found all equal.
LEMMA Compares ==
  ASSUME TypeOK, [Next]_vars, NEW s \in Shell, Comparing(s)'
  PROVE  \/ shell'[s] = shell[s]
         \/ /\ shell'[s].pc = "verify" /\ shell'[s].done = {}
            /\ shell'[s].locked = (lock # None)
            /\ UNCHANGED <<owner, data>>
            /\ \A t \in Shell \ {s} : shell'[t] = shell[t]
         \/ /\ At(s, "verify") /\ shell'[s].pc = "verify"
            /\ UNCHANGED <<owner, data>>
            /\ shell'[s].locked = shell[s].locked /\ shell'[s].export = shell[s].export
            /\ \A p \in shell'[s].done : p \in shell[s].done \/ data[p] = shell[s].export
         \/ /\ At(s, "verify") /\ shell'[s].pc = "open"
            /\ UNCHANGED <<owner, data>>
            /\ shell[s].done = Part /\ ~shell[s].locked
            /\ shell'[s] = [shell[s] EXCEPT !.pc = "open"]
<1>t. shell \in [Shell -> ShellState] /\ \A u \in Shell : shell[u] \in ShellState
  BY DEF TypeOK
<1>o. ASSUME NEW u \in Shell, u # s, \A t \in Shell \ {u} : shell'[t] = shell[t]
      PROVE  shell'[s] = shell[s]
  BY <1>o
<1>1. ASSUME NEW u \in Shell, ShellStep(u) PROVE \A t \in Shell \ {u} : shell'[t] = shell[t]
  BY <1>1, <1>t DEF ShellStep, StartImport, StartOpen, Lock, BeginPart, EndPart, VerifyPart, Record,
     ImportFails, Unlock, Verified, Open, StartRollback, Rollback, Kill, Run, Goto, Stop
<1>2. CASE UNCHANGED shell
  BY <1>2
<1>3. CASE ShellStep(s)
  <2>1. CASE \E e \in Export : StartOpen(s, e)
    <3>1. PICK e \in Export : StartOpen(s, e)
      BY <2>1
    <3>2. shell'[s] = [pc |-> "verify", export |-> e, done |-> {}, locked |-> lock # None]
      BY <3>1, <1>t DEF StartOpen, Run
    <3>3. UNCHANGED <<owner, data>> /\ \A t \in Shell \ {s} : shell'[t] = shell[t]
      BY <3>1, <1>t DEF StartOpen, Run
    <3> QED BY <3>2, <3>3
  <2>2. CASE \E p \in Part : VerifyPart(s, p)
    <3>1. PICK p \in Part : VerifyPart(s, p)
      BY <2>2
    <3>2. data[p] = shell[s].export /\ shell' = [shell EXCEPT ![s].done = @ \cup {p}]
      BY <3>1, <1>t DEF VerifyPart, Stop, Idle, Comparing
    <3>3. shell'[s] = [shell[s] EXCEPT !.done = shell[s].done \cup {p}]
      BY <3>2, <1>t
    <3>4. /\ shell'[s].done = shell[s].done \cup {p} /\ shell'[s].pc = shell[s].pc
          /\ shell'[s].locked = shell[s].locked /\ shell'[s].export = shell[s].export
      BY <3>3, <1>t, ShellFields
    <3> QED BY <3>1, <3>2, <3>4 DEF VerifyPart, At
  <2>3. CASE Verified(s)
    <3>1. Goto(s, "open")
      BY <2>3, <1>t DEF Verified, Stop, Idle, Comparing
    <3>2. shell[s].done = Part /\ ~shell[s].locked
      BY <2>3, <1>t DEF Verified, Stop, Idle, Comparing
    <3>3. shell'[s] = [shell[s] EXCEPT !.pc = "open"] /\ shell'[s].pc = "open"
      BY <3>1, <1>t, ShellFields DEF Goto
    <3> QED BY <2>3, <3>2, <3>3 DEF Verified
  <2>4. CASE \E p \in Part : BeginPart(s, p)
    BY <2>4 DEF BeginPart
  <2>5. ASSUME \/ \E e \in Export : StartImport(s, e)
               \/ \E p \in Part : EndPart(s, p)
               \/ Lock(s) \/ Record(s) \/ ImportFails(s) \/ Unlock(s)
               \/ Open(s) \/ StartRollback(s) \/ Rollback(s) \/ Kill(s)
        PROVE  FALSE
    <3>1. CASE \E p \in Part : EndPart(s, p)
      <4>1. shell'[s].pc = "write"
        BY <3>1, <1>t, ShellFields DEF EndPart, At
      <4> QED BY <4>1 DEF Comparing
    <3>2. CASE ~\E p \in Part : EndPart(s, p)
      BY <2>5, <3>2, <1>t, ShellFields DEF StartImport, Lock, Record, ImportFails, Unlock, Open,
         StartRollback, Rollback, Kill, Run, Goto, Stop, Idle, Comparing
    <3> QED BY <3>1, <3>2
  <2> QED BY <1>3, <2>1, <2>2, <2>3, <2>4, <2>5 DEF ShellStep
<1>4. CASE \E u \in Shell : u # s /\ ShellStep(u)
  BY <1>4, <1>1, <1>o
<1> QED
  BY <1>2, <1>3, <1>4 DEF Next, Operate, Pause, ClearLock, vars

\* An import begins by taking the lock, and only an import or Pass writes.
LEMMA Imports ==
  ASSUME LockInv, [Next]_vars
  PROVE  /\ ~everOpened' => ~everOpened
         /\ (~everOpened => mode # "pass") => (~everOpened => mode # "pass")'
         /\ \A t \in Shell : Importing(t)' => Importing(t) \/ lock' \notin {lock, None}
         /\ (\A t \in Shell : ~Importing(t)) /\ mode # "pass" => data' = data
<1>t. TypeOK /\ shell \in [Shell -> ShellState]
  BY DEF LockInv, TypeOK
<1>1. (~everOpened' => ~everOpened) /\ ((~everOpened => mode # "pass") => (~everOpened => mode # "pass")')
  BY DEF Next, ShellStep, vars, owner, StartImport, StartOpen, Lock, BeginPart, EndPart, VerifyPart,
     Record, ImportFails, Unlock, Verified, Open, StartRollback, Rollback, Kill, Operate, Pause, ClearLock
<1>2. ASSUME NEW t \in Shell, Importing(t)'
      PROVE  Importing(t) \/ lock' \notin {lock, None}
  <2>1. CASE Lock(t) /\ MayLock
    BY <2>1, <1>t DEF Lock, MayLock, LockInv
  <2>2. CASE shell'[t] = shell[t]
    BY <1>2, <2>2 DEF Importing
  <2>3. CASE ShellStep(t) /\ ~Importing(t)
    <3>1. Lock(t) /\ MayLock
      BY <1>2, <2>3, <1>t, ShellFields DEF ShellStep, StartImport, StartOpen, Lock, BeginPart, EndPart, VerifyPart,
         Record, ImportFails, Unlock, Verified, Open, StartRollback, Rollback, Kill, Run, Goto, Stop,
         Idle, Importing, At
    <3> QED BY <2>1, <3>1
  <2>4. shell'[t] = shell[t] \/ ShellStep(t)
    BY <1>t DEF Next, ShellStep, vars, StartImport, StartOpen, Lock, BeginPart, EndPart, VerifyPart,
       Record, ImportFails, Unlock, Verified, Open, StartRollback, Rollback, Kill, Run, Goto, Stop,
       Operate, Pause, ClearLock
  <2> QED BY <2>2, <2>3, <2>4
<1>3. ASSUME \A t \in Shell : ~Importing(t), mode # "pass" PROVE data' = data
  BY <1>3 DEF Next, ShellStep, vars, StartImport, StartOpen, Lock, BeginPart, EndPart, VerifyPart,
     Record, ImportFails, Unlock, Verified, Open, StartRollback, Rollback, Kill, Operate, Pause,
     ClearLock, Importing, At
<1> QED BY <1>1, <1>2, <1>3

LEMMA CompareStep ==
  ASSUME LockInv, CompareInv, [Next]_vars,
         (\E s \in Shell : Comparing(s)) => lock' \in {lock, None}
  PROVE  CompareInv'
<1>t. TypeOK /\ \A s \in Shell : shell[s] \in ShellState
  BY DEF LockInv, TypeOK
<1>1. (~everOpened => mode # "pass")'
  BY Imports DEF CompareInv
<1>2. ASSUME NEW s \in Shell, At(s, "open")'
      PROVE  shell'[s].done = Part /\ ~shell'[s].locked
  <2>1. Comparing(s)'
    BY <1>2 DEF Comparing, At
  <2>2. [shell[s] EXCEPT !.pc = "open"].done = shell[s].done
        /\ [shell[s] EXCEPT !.pc = "open"].locked = shell[s].locked
    BY <1>t, ShellFields
  <2> QED BY <1>2, <1>t, <2>1, <2>2, Compares DEF CompareInv, At
<1>3. ASSUME NEW s \in Shell, Comparing(s)', ~shell'[s].locked, ~everOpened'
      PROVE  /\ \A t \in Shell : ~Importing(t)'
             /\ \A p \in shell'[s].done : data'[p] = shell'[s].export
  <2>o. ~everOpened /\ mode # "pass"
    BY <1>3, Imports DEF CompareInv
  <2>1. ASSUME Comparing(s), ~shell[s].locked, shell'[s].export = shell[s].export,
               \A p \in shell'[s].done : p \in shell[s].done \/ data[p] = shell[s].export
        PROVE  /\ \A t \in Shell : ~Importing(t)'
               /\ \A p \in shell'[s].done : data'[p] = shell'[s].export
    <3>1. /\ \A t \in Shell : ~Importing(t)
          /\ \A p \in shell[s].done : data[p] = shell[s].export
      BY <2>1, <2>o DEF CompareInv
    <3>2. lock' \in {lock, None}
      BY <2>1
    <3>3. data' = data /\ \A t \in Shell : ~Importing(t)'
      BY <2>o, <3>1, <3>2, Imports
    <3> QED BY <2>1, <3>1, <3>3
  <2>2. CASE shell'[s] = shell[s]
    BY <1>3, <2>1, <2>2 DEF Comparing
  <2>3. CASE /\ shell'[s].pc = "verify" /\ shell'[s].done = {}
             /\ shell'[s].locked = (lock # None)
             /\ UNCHANGED <<owner, data>>
             /\ \A t \in Shell \ {s} : shell'[t] = shell[t]
    <3>1. lock = None
      BY <1>3, <2>3
    <3>2. \A t \in Shell : ~Importing(t)
      BY <3>1 DEF LockInv, NeverOpenDuringImport, Importing, At
    <3> QED BY <2>3, <3>2 DEF Importing
  <2>4. CASE /\ At(s, "verify")
             /\ shell'[s].locked = shell[s].locked /\ shell'[s].export = shell[s].export
             /\ \A p \in shell'[s].done : p \in shell[s].done \/ data[p] = shell[s].export
    BY <1>3, <2>1, <2>4 DEF Comparing, At
  <2>5. CASE /\ At(s, "verify") /\ shell'[s] = [shell[s] EXCEPT !.pc = "open"]
    <3>1. /\ shell'[s].done = shell[s].done /\ shell'[s].locked = shell[s].locked
          /\ shell'[s].export = shell[s].export
      BY <1>t, <2>5, ShellFields
    <3> QED BY <1>3, <2>1, <2>5, <3>1 DEF Comparing, At
  <2> QED BY <1>3, <1>t, <2>2, <2>3, <2>4, <2>5, Compares
<1> QED BY <1>1, <1>2, <1>3 DEF CompareInv

\* If no import begins while a shell compares, the first opening is on the data
\* of the export that was compared (operations-migrate.cjs:79-108): the order of
\* MCCutover_open.cfg, an import between, is the only one that breaks it.
THEOREM OpenedAsCompared ==
  Spec /\ NoImportMeanwhile =>
    [][~everOpened /\ mode' = "pass" => \A p \in Part : data[p] = openedAs']_vars
<1> DEFINE Quiet == (\E s \in Shell : Comparing(s)) => lock' \in {lock, None}
           Compared == ~everOpened /\ mode' = "pass" => \A p \in Part : data[p] = openedAs'
<1>1. Init => CompareInv
  BY DEF Init, CompareInv, Comparing, Idle, At
<1>2. LockInv /\ CompareInv /\ [Next]_vars /\ [Quiet]_vars => CompareInv'
  <2> SUFFICES ASSUME LockInv, CompareInv, [Next]_vars, [Quiet]_vars PROVE CompareInv'
    OBVIOUS
  <2>1. CASE Quiet
    BY <2>1, CompareStep
  <2>2. CASE UNCHANGED vars
    BY <2>2 DEF vars, owner, CompareInv, Comparing, Importing, At
  <2> QED BY <2>1, <2>2
<1>3. CompareInv /\ [Next]_vars => [Compared]_vars
  <2> SUFFICES ASSUME CompareInv, [Next]_vars, ~everOpened, mode' = "pass", NEW p \in Part
               PROVE  data[p] = openedAs' \/ UNCHANGED vars
    OBVIOUS
  <2>1. mode # "pass"
    BY DEF CompareInv
  <2>2. UNCHANGED vars \/ \E s \in Shell : Open(s)
    BY <2>1 DEF Next, ShellStep, vars, owner, StartImport, StartOpen, Lock, BeginPart, EndPart,
       VerifyPart, Record, ImportFails, Unlock, Verified, StartRollback, Rollback, Kill, Operate, Pause,
       ClearLock
  <2>3. ASSUME NEW s \in Shell, Open(s) PROVE data[p] = openedAs'
    <3>1. openedAs' = shell[s].export /\ At(s, "open")
      BY <2>1, <2>3 DEF Open
    <3> QED BY <3>1 DEF CompareInv, Comparing, At
  <2> QED BY <2>2, <2>3
<1> QED BY <1>1, <1>2, <1>3, LockHolds, PTL DEF Spec, NoImportMeanwhile
=============================================================================
