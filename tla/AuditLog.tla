------------------------------ MODULE AuditLog ------------------------------
(***************************************************************************)
(* services/orchestrator/app/db.py below its callers' grain: transactions  *)
(* of concurrent connections, statement by statement, under PostgreSQL's   *)
(* READ COMMITTED.  A transaction changes rows of orchestrator_incidents   *)
(* and appends entries to the hash chain of audit_log, all or nothing.     *)
(*                                                                         *)
(* A row is locked by the UPDATE that found it and released at the end of  *)
(* the transaction; an UPDATE that waited for the lock looks at the WHERE  *)
(* clause again.  The chain is serialised by an advisory lock.             *)
(***************************************************************************)
EXTENDS Naturals, Sequences, FiniteSets

CONSTANTS
  Writers,   \* connections, one transaction at a time each
  Sweeper,   \* the one connection whose UPDATE may find several rows
  Rows,      \* incidents awaiting a decision
  None,
  MaxLog     \* bound: entries in the log when a transaction may still begin

ASSUME WritersAssumption == Sweeper \in Writers
ASSUME NoneAssumption == None \notin Writers \cup Rows
ASSUME MaxLogAssumption == MaxLog \in Nat
ASSUME RowsAssumption == IsFiniteSet(Rows)

VARIABLES
  open,     \* committed: the rows still AWAITING_APPROVAL
  log,      \* committed: audit_log ORDER BY audit_id
  holder,   \* which transaction has updated a row and not ended
  logLock,  \* which transaction holds the advisory lock
  pc,       \* the statement each connection is about to execute
  kind,     \* what its transaction does to the rows it finds
  want,     \* rows its UPDATE found and has not locked yet
  todo,     \* rows it changed and has not written an entry for
  done,     \* rows it changed and has written an entry for
  tip,      \* audit_id and hash its SELECT returned
  pending   \* the entries it has inserted

vars == <<open, log, holder, logLock, pc, kind, want, todo, done, tip, pending>>

Kinds == {"close", "extend", "record"}
PCs == {"idle", "update", "lock", "select", "insert", "commit"}

(***************************************************************************)
(* The hash commits to the entry and to the hash before it (audit.py).     *)
(* SHA-256 is taken to be free of collisions: the hash is what was hashed. *)
(***************************************************************************)
Genesis == <<>>
Content(id, event, row) == [id |-> id, event |-> event, row |-> row]
HashEntry(prev, id, event, row) == Append(prev, Content(id, event, row))

Contents == [id : Nat, event : Kinds, row : Rows \cup {None}]
Hashes == Seq(Contents)
Entries == [id : Nat, event : Kinds, row : Rows \cup {None}, prev : Hashes, hash : Hashes]

TypeOK ==
  /\ open \subseteq Rows
  /\ log \in Seq(Entries)
  /\ holder \in [Rows -> Writers \cup {None}]
  /\ logLock \in Writers \cup {None}
  /\ pc \in [Writers -> PCs]
  /\ kind \in [Writers -> Kinds]
  /\ want \in [Writers -> SUBSET Rows]
  /\ todo \in [Writers -> SUBSET Rows]
  /\ done \in [Writers -> SUBSET Rows]
  /\ tip \in [Writers -> [id : Nat, hash : Hashes]]
  /\ pending \in [Writers -> Seq(Entries)]

Init ==
  /\ open = Rows
  /\ log = <<>>
  /\ holder = [r \in Rows |-> None]
  /\ logLock = None
  /\ pc = [w \in Writers |-> "idle"]
  /\ kind = [w \in Writers |-> "record"]
  /\ want = [w \in Writers |-> {}]
  /\ todo = [w \in Writers |-> {}]
  /\ done = [w \in Writers |-> {}]
  /\ tip = [w \in Writers |-> [id |-> 0, hash |-> Genesis]]
  /\ pending = [w \in Writers |-> <<>>]

-----------------------------------------------------------------------------
(***************************************************************************)
(* The transactions: a decision or a sweep (close), a request for more     *)
(* information (extend), an entry without a row change (record: the        *)
(* service's start, an execution intent; the incident the latter names is  *)
(* left out, row is what the entry says was changed).                      *)
(***************************************************************************)
\* The UPDATE's snapshot: the rows it finds open, one by key or a sweep's.
BeginUpdate(w) ==
  /\ pc[w] = "idle"
  /\ Len(log) < MaxLog
  /\ \E rows \in SUBSET open :
       /\ rows # {}
       /\ w # Sweeper => \E r \in open : rows = {r}
       /\ want' = [want EXCEPT ![w] = rows]
  /\ \E k \in (IF w = Sweeper THEN {"close"} ELSE {"close", "extend"}) :
       kind' = [kind EXCEPT ![w] = k]
  /\ pc' = [pc EXCEPT ![w] = "update"]
  /\ UNCHANGED <<open, log, holder, logLock, todo, done, tip, pending>>

BeginRecord(w) ==
  /\ pc[w] = "idle"
  /\ Len(log) < MaxLog
  /\ w # Sweeper
  /\ kind' = [kind EXCEPT ![w] = "record"]
  /\ pc' = [pc EXCEPT ![w] = "lock"]
  /\ UNCHANGED <<open, log, holder, logLock, want, todo, done, tip, pending>>

\* Slip: the row is updated as the snapshot had it.
UpdateRowWithoutRecheck(w, r) ==
  /\ pc[w] = "update"
  /\ r \in want[w]
  /\ holder[r] = None
  /\ want' = [want EXCEPT ![w] = @ \ {r}]
  /\ holder' = [holder EXCEPT ![r] = w]
  /\ todo' = [todo EXCEPT ![w] = @ \cup {r}]
  /\ UNCHANGED <<open, log, logLock, pc, kind, done, tip, pending>>

\* Waits for the row's lock, then looks at the WHERE clause again: the row may
\* be decided by now, and a sweep may find its deadline extended.
UpdateRow(w, r) ==
  /\ pc[w] = "update"
  /\ r \in want[w]
  /\ holder[r] = None
  /\ want' = [want EXCEPT ![w] = @ \ {r}]
  /\ holder' = [holder EXCEPT ![r] = w]
  /\ \/ r \in open /\ todo' = [todo EXCEPT ![w] = @ \cup {r}]
     \/ (r \notin open \/ w = Sweeper) /\ UNCHANGED todo
  /\ UNCHANGED <<open, log, logLock, pc, kind, done, tip, pending>>

\* rowcount: no row, no entry.
CountRows(w) ==
  /\ pc[w] = "update"
  /\ want[w] = {}
  /\ pc' = [pc EXCEPT ![w] = IF todo[w] = {} THEN "commit" ELSE "lock"]
  /\ UNCHANGED <<open, log, holder, logLock, kind, want, todo, done, tip, pending>>

\* Slip: the entry is written before the rows are updated.
TakeLogLockBeforeUpdate(w) ==
  /\ pc[w] \in {"update", "lock"}
  /\ logLock \in {None, w}
  /\ logLock' = w
  /\ pc' = [pc EXCEPT ![w] = IF @ = "lock" THEN "select" ELSE @]
  /\ UNCHANGED <<open, log, holder, kind, want, todo, done, tip, pending>>

\* Slip: no pg_advisory_xact_lock.
TakeNoLogLock(w) ==
  /\ pc[w] = "lock"
  /\ pc' = [pc EXCEPT ![w] = "select"]
  /\ UNCHANGED <<open, log, holder, logLock, kind, want, todo, done, tip, pending>>

\* pg_advisory_xact_lock, which its holder may take again.
TakeLogLock(w) ==
  /\ pc[w] = "lock"
  /\ logLock \in {None, w}
  /\ logLock' = w
  /\ pc' = [pc EXCEPT ![w] = "select"]
  /\ UNCHANGED <<open, log, holder, kind, want, todo, done, tip, pending>>

\* A statement sees what is committed by now and what its transaction wrote.
Visible(w) == log \o pending[w]

\* An empty log counts as entry 0 with the genesis hash.
SelectTip(w) ==
  /\ pc[w] = "select"
  /\ LET seen == Visible(w) IN
       tip' = [tip EXCEPT ![w] =
                 IF seen = <<>> THEN [id |-> 0, hash |-> Genesis]
                 ELSE [id |-> seen[Len(seen)].id, hash |-> seen[Len(seen)].hash]]
  /\ pc' = [pc EXCEPT ![w] = "insert"]
  /\ UNCHANGED <<open, log, holder, logLock, kind, want, todo, done, pending>>

NewEntry(w, row) ==
  LET id == tip[w].id + 1 IN
    [id |-> id, event |-> kind[w], row |-> row, prev |-> tip[w].hash,
     hash |-> HashEntry(tip[w].hash, id, kind[w], row)]

\* Slip: one entry for all the rows of a sweep.
InsertOnce(w) ==
  /\ pc[w] = "insert"
  /\ \E row \in (IF kind[w] = "record" THEN {None} ELSE todo[w]) :
       /\ pending' = [pending EXCEPT ![w] = Append(@, NewEntry(w, row))]
       /\ pc' = [pc EXCEPT ![w] = "commit"]
       /\ todo' = [todo EXCEPT ![w] = {}]
       /\ done' = [done EXCEPT ![w] = todo[w]]
  /\ UNCHANGED <<open, log, holder, logLock, kind, want, tip>>

Insert(w) ==
  /\ pc[w] = "insert"
  /\ \/ /\ kind[w] = "record"
        /\ pending' = [pending EXCEPT ![w] = Append(@, NewEntry(w, None))]
        /\ pc' = [pc EXCEPT ![w] = "commit"]
        /\ UNCHANGED <<todo, done>>
     \/ /\ kind[w] # "record"
        /\ \E row \in todo[w] :
             /\ pending' = [pending EXCEPT ![w] = Append(@, NewEntry(w, row))]
             /\ todo' = [todo EXCEPT ![w] = @ \ {row}]
             /\ done' = [done EXCEPT ![w] = @ \cup {row}]
             /\ pc' = [pc EXCEPT ![w] = IF todo[w] = {row} THEN "commit" ELSE "lock"]
  /\ UNCHANGED <<open, log, holder, logLock, kind, want, tip>>

\* Every lock of a transaction is released at its end, and not before.
End(w) ==
  /\ holder' = [r \in Rows |-> IF holder[r] = w THEN None ELSE holder[r]]
  /\ logLock' = IF logLock = w THEN None ELSE logLock
  /\ pc' = [pc EXCEPT ![w] = "idle"]
  /\ want' = [want EXCEPT ![w] = {}]
  /\ todo' = [todo EXCEPT ![w] = {}]
  /\ done' = [done EXCEPT ![w] = {}]
  /\ pending' = [pending EXCEPT ![w] = <<>>]
  /\ kind' = [kind EXCEPT ![w] = "record"]
  /\ tip' = [tip EXCEPT ![w] = [id |-> 0, hash |-> Genesis]]

Commit(w) ==
  /\ pc[w] = "commit"
  /\ log' = log \o pending[w]
  /\ open' = IF kind[w] = "close" THEN open \ done[w] ELSE open
  /\ End(w)

\* A statement fails, or the connection or the process is lost.
Rollback(w) ==
  /\ pc[w] # "idle"
  /\ End(w)
  /\ UNCHANGED <<open, log>>

Step(w) ==
  \/ BeginUpdate(w)
  \/ BeginRecord(w)
  \/ \E r \in Rows : UpdateRow(w, r)
  \/ CountRows(w)
  \/ TakeLogLock(w)
  \/ SelectTip(w)
  \/ Insert(w)
  \/ Commit(w)
  \/ Rollback(w)

Next == \E w \in Writers : Step(w)

Spec == Init /\ [][Next]_vars
=============================================================================
