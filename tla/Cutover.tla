------------------------------ MODULE Cutover ------------------------------
(***************************************************************************)
(* The move of the operations' data from Mstyle to Pass: the commands      *)
(* import, pause, open and rollback-before-open of operations-migrate.cjs  *)
(* with OperationsMigration, run by several operators' shells at once.     *)
(*                                                                         *)
(* No command is a transaction.  Import writes one collection after the    *)
(* other under migration_lock, a field of the ownership document; open     *)
(* reads that document, compares one collection after the other with its   *)
(* export, looks at what was imported, and only then updates the document. *)
(* A part of the data is a collection with its archive or files.           *)
(***************************************************************************)
EXTENDS Integers

CONSTANTS
  Export,   \* export ids, one bundle and digest each
  Final,    \* those made while Mstyle was paused, without issues
  Part,     \* the parts of the data
  Shell     \* where operators run the commands

None == "none"

ASSUME ExportAssumption == /\ Final \subseteq Export
                           /\ Export \cap {None, "mixed", "pass"} = {}

VARIABLES
  mode,        \* settings {key: 'ownership'}.mode
  everOpened,  \* its ever_opened
  lock,        \* its migration_lock
  openedAs,    \* its migration_digest
  imported,    \* the digest in settings {key: 'migration'}
  data,        \* what a part holds: an export's rows, a mixture, or Pass' changes
  shell        \* what each shell runs

owner == <<mode, everOpened, lock, openedAs>>
vars == <<owner, imported, data, shell>>

Contents == Export \cup {None, "mixed", "pass"}

\* done: the parts written by import or found equal by open; locked: the
\* migration_lock that open read when it started.
ShellState ==
  [pc: {"idle", "lock", "write", "unlock", "verify", "open", "rollback"},
   export: Export \cup {None}, done: SUBSET Part, locked: BOOLEAN]

Idle == [pc |-> "idle", export |-> None, done |-> {}, locked |-> FALSE]

TypeOK ==
  /\ mode \in {"mstyle", "paused", "pass"}
  /\ everOpened \in BOOLEAN
  /\ lock \in Export \cup {None}
  /\ openedAs \in Export \cup {None}
  /\ imported \in Export \cup {None}
  /\ data \in [Part -> Contents]
  /\ shell \in [Shell -> ShellState]

Init ==
  /\ mode = "mstyle" /\ everOpened = FALSE /\ lock = None /\ openedAs = None
  /\ imported = None
  /\ data = [p \in Part |-> None]
  /\ shell = [s \in Shell |-> Idle]

At(s, stage) == shell[s].pc = stage

Goto(s, stage) == shell' = [shell EXCEPT ![s].pc = stage]

Stop(s) == shell' = [shell EXCEPT ![s] = Idle]

Run(s, stage, e) ==
  shell' = [shell EXCEPT ![s] =
    [pc |-> stage, export |-> e, done |-> {}, locked |-> lock # None]]

-----------------------------------------------------------------------------
\* OperationsMigration.import.

StartImport(s, e) ==
  /\ At(s, "idle")
  /\ mode # "pass" /\ ~everOpened
  /\ Run(s, "lock", e)
  /\ UNCHANGED <<owner, imported, data>>

\* Variant: the state is not asked again whether it was ever opened.
MayLockUnlessPass == mode # "pass" /\ lock = None

MayLock == mode # "pass" /\ ~everOpened /\ lock = None

Lock(s) ==
  /\ At(s, "lock")
  /\ IF MayLock THEN lock' = shell[s].export /\ Goto(s, "write")
                ELSE lock' = lock /\ Stop(s)
  /\ UNCHANGED <<mode, everOpened, openedAs, imported, data>>

\* The rows of a part are replaced one by one, then those of other exports deleted.
BeginPart(s, p) ==
  /\ At(s, "write") /\ p \notin shell[s].done
  /\ data[p] # shell[s].export
  /\ data' = [data EXCEPT ![p] = "mixed"]
  /\ UNCHANGED <<owner, imported, shell>>

EndPart(s, p) ==
  /\ At(s, "write") /\ p \notin shell[s].done
  /\ data[p] \in {"mixed", shell[s].export}
  /\ data' = [data EXCEPT ![p] = shell[s].export]
  /\ shell' = [shell EXCEPT ![s].done = @ \cup {p}]
  /\ UNCHANGED <<owner, imported>>

Record(s) ==
  /\ At(s, "write") /\ shell[s].done = Part
  /\ imported' = shell[s].export
  /\ Goto(s, "unlock")
  /\ UNCHANGED <<owner, data>>

\* An id is taken, a file cannot be read, the database fails: the lock is
\* released and the parts stay as they are.
ImportFails(s) ==
  /\ At(s, "write")
  /\ Goto(s, "unlock")
  /\ UNCHANGED <<owner, imported, data>>

Unlock(s) ==
  /\ At(s, "unlock")
  /\ lock' = IF lock = shell[s].export THEN None ELSE lock
  /\ Stop(s)
  /\ UNCHANGED <<mode, everOpened, openedAs, imported, data>>

-----------------------------------------------------------------------------
\* open: verify and the checks after it.

StartOpen(s, e) ==
  /\ At(s, "idle")
  /\ e \in Final
  /\ Run(s, "verify", e)
  /\ UNCHANGED <<owner, imported, data>>

VerifyPart(s, p) ==
  /\ At(s, "verify") /\ p \notin shell[s].done
  /\ IF data[p] = shell[s].export
       THEN shell' = [shell EXCEPT ![s].done = @ \cup {p}]
       ELSE Stop(s)
  /\ UNCHANGED <<owner, imported, data>>

Verified(s) ==
  /\ At(s, "verify") /\ shell[s].done = Part
  /\ IF imported = shell[s].export /\ ~shell[s].locked THEN Goto(s, "open") ELSE Stop(s)
  /\ UNCHANGED <<owner, imported, data>>

\* Variant: an import may be running.
MayOpenLocked == mode = "paused"

MayOpen == mode = "paused" /\ lock = None

Open(s) ==
  /\ At(s, "open")
  /\ IF MayOpen
       THEN mode' = "pass" /\ everOpened' = TRUE /\ openedAs' = shell[s].export
       ELSE UNCHANGED <<mode, everOpened, openedAs>>
  /\ Stop(s)
  /\ UNCHANGED <<lock, imported, data>>

-----------------------------------------------------------------------------
\* pause and rollback-before-open.

Pause ==
  /\ mode' = "paused"
  /\ UNCHANGED <<everOpened, lock, openedAs, imported, data, shell>>

StartRollback(s) ==
  /\ At(s, "idle")
  /\ ~everOpened /\ mode # "pass" /\ lock = None
  /\ Run(s, "rollback", None)
  /\ UNCHANGED <<owner, imported, data>>

\* Variant: only the state read before counts.
MayRollBackAlways == TRUE

MayRollBack == ~everOpened

Rollback(s) ==
  /\ At(s, "rollback")
  /\ mode' = IF MayRollBack THEN "mstyle" ELSE mode
  /\ Stop(s)
  /\ UNCHANGED <<everOpened, lock, openedAs, imported, data>>

-----------------------------------------------------------------------------
\* A command is killed; import leaves its lock.
Kill(s) ==
  /\ ~At(s, "idle")
  /\ Stop(s)
  /\ UNCHANGED <<owner, imported, data>>

Importing(s) == shell[s].pc \in {"write", "unlock"}

\* The lock of a dead import is removed by hand, after making sure it is dead.
ClearLock ==
  /\ lock # None
  /\ \A s \in Shell : Importing(s) => shell[s].export # lock
  /\ lock' = None
  /\ UNCHANGED <<mode, everOpened, openedAs, imported, data, shell>>

\* Pass is used: the rows change.
Operate(p) ==
  /\ mode = "pass"
  /\ data' = [data EXCEPT ![p] = "pass"]
  /\ UNCHANGED <<owner, imported, shell>>

ShellStep(s) ==
  \/ \E e \in Export : StartImport(s, e) \/ StartOpen(s, e)
  \/ \E p \in Part : BeginPart(s, p) \/ EndPart(s, p) \/ VerifyPart(s, p)
  \/ Lock(s) \/ Record(s) \/ ImportFails(s) \/ Unlock(s)
  \/ Verified(s) \/ Open(s)
  \/ StartRollback(s) \/ Rollback(s)
  \/ Kill(s)

Next ==
  \/ \E s \in Shell : ShellStep(s)
  \/ \E p \in Part : Operate(p)
  \/ Pause
  \/ ClearLock

Spec == Init /\ [][Next]_vars

-----------------------------------------------------------------------------
\* Properties.

\* Once Pass has been opened, nothing but Pass writes its data: no import that
\* was started before, resumed or repeated overwrites new operations.
ImportsEndAtOpening ==
  [][everOpened => \A p \in Part : data'[p] \in {data[p], "pass"}]_vars

\* Once Pass has been opened, Mstyle is never the owner again, not even by a
\* rollback that looked before the opening.
NoWayBack == [][everOpened => mode' # "mstyle"]_vars

\* The opening and a running import exclude each other, whatever was killed,
\* paused, rolled back and unlocked by hand before: migration_lock is a lock.
NeverOpenDuringImport ==
  \A s \in Shell : Importing(s) =>
    /\ mode # "pass" /\ lock = shell[s].export
    /\ \A t \in Shell : Importing(t) => t = s

\* Pass is opened on the data of the export that was compared without
\* differences.
OpenedIsVerified ==
  [][mode # "pass" /\ mode' = "pass" => \A p \in Part : data[p] = openedAs']_vars
=============================================================================
