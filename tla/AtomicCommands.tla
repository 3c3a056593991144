--------------------------- MODULE AtomicCommands ---------------------------
(***************************************************************************)
(* What OperationsStore.command promises its callers, with snapshots,      *)
(* conflicts, retries and crashes forgotten: a command takes effect in one *)
(* step, on the current documents, only while Pass owns the data, and at   *)
(* most once for each key; an answer that reports a result reports the     *)
(* recorded one.  CommandStore implements this specification.              *)
(***************************************************************************)
EXTENDS Integers

CONSTANTS
  Call,      \* calls of command: first attempts, repeats and duplicates
  Key,       \* idempotency keys, each with the actor's reference
  Request,   \* fingerprints of operation and payload
  Doc,       \* the documents the commands read and write
  Value,     \* their values
  KeyOf,     \* the key each call uses
  RequestOf, \* the request each call makes
  Effect,    \* the documents a request computes from those it reads
  InitDocs,  \* the documents at the start
  Writes     \* the documents a request writes

Docs == [Doc -> Value]

VARIABLES
  mode,      \* who owns the data: "mstyle", "pass", or "paused"
  docs,
  receipts,  \* mstyle_ops_commands
  answer     \* what each caller was told

vars == <<mode, docs, receipts, answer>>

Mode == {"mstyle", "paused", "pass"}

NoReceipt == [request |-> "none"]

Receipt == [request: Request, result: Docs]

\* The documents after a request that was computed from what "read" shows.
Merge(r, read, current) ==
  [d \in Doc |-> IF d \in Writes[r] THEN Effect[r][read][d] ELSE current[d]]

Recorded(r, read) == [request |-> r, result |-> Effect[r][read]]

Init ==
  /\ mode = "mstyle"
  /\ docs = InitDocs
  /\ receipts = [k \in Key |-> NoReceipt]
  /\ answer = [c \in Call |-> "none"]

Execute(c) ==
  /\ mode = "pass"
  /\ receipts[KeyOf[c]] = NoReceipt
  /\ docs' = Merge(RequestOf[c], docs, docs)
  /\ receipts' = [receipts EXCEPT ![KeyOf[c]] = Recorded(RequestOf[c], docs)]
  /\ UNCHANGED <<mode, answer>>

\* The caller gets the recorded result, the refusal of a key used for another
\* request, or an error that tells nothing about whether the command took effect.
Reply(c) ==
  /\ answer[c] = "none"
  /\ \/ /\ receipts[KeyOf[c]] # NoReceipt
        /\ receipts[KeyOf[c]].request = RequestOf[c]
        /\ answer' = [answer EXCEPT ![c] = "result"]
     \/ /\ receipts[KeyOf[c]] # NoReceipt
        /\ receipts[KeyOf[c]].request # RequestOf[c]
        /\ answer' = [answer EXCEPT ![c] = "conflict"]
     \/ answer' = [answer EXCEPT ![c] = "error"]
  /\ UNCHANGED <<mode, docs, receipts>>

\* The owner changes, and nothing else.
Switch ==
  /\ mode' \in Mode
  /\ UNCHANGED <<docs, receipts, answer>>

Next == (\E c \in Call : Execute(c) \/ Reply(c)) \/ Switch

Spec == Init /\ [][Next]_vars
=============================================================================
