-------------------------- MODULE AuditLogInvariant --------------------------
(***************************************************************************)
(* The inductive invariant of the audit log: what each transaction owns    *)
(* between two of its statements.                                          *)
(***************************************************************************)
EXTENDS AuditLogProperties

Chain(s) ==
  \A k \in DOMAIN s :
    /\ s[k].id = k
    /\ Linked(s, k)
    /\ s[k].hash = Recomputed(s, k)

TipOf(s) ==
  IF s = <<>> THEN [id |-> 0, hash |-> Genesis]
  ELSE [id |-> s[Len(s)].id, hash |-> s[Len(s)].hash]

\* Whoever reads the end of the chain or has added to it holds its lock, and
\* what it sees - the committed log and its own entries - is a chain.
ChainIsOwned(w) ==
  /\ pc[w] \in {"select", "insert"} \/ pending[w] # <<>> => logLock = w
  /\ Chain(Visible(w))
  /\ pc[w] = "insert" => tip[w] = TipOf(Visible(w))

\* The chain's lock is taken when all row locks are.
LockOrder(w) ==
  /\ pc[w] # "update" => want[w] = {}
  /\ logLock = w => pc[w] \in {"lock", "select", "insert", "commit"}
  /\ \A r \in Rows : holder[r] = w => pc[w] # "idle"
  /\ w # Sweeper /\ want[w] # {} => \A r \in Rows : holder[r] # w
  /\ w # Sweeper => \A r, q \in want[w] : r = q

\* Rows that were changed are locked and still as they were committed.
RowsAreOwned(w) ==
  /\ todo[w] \cap done[w] = {}
  /\ \A r \in todo[w] \cup done[w] : holder[r] = w /\ r \in open

\* The inserted entries are about the rows done so far, one each.
EntriesOf(w, r) == {k \in DOMAIN pending[w] : pending[w][k].row = r}
RowsAreLogged(w) ==
  /\ \A k \in DOMAIN pending[w] : pending[w][k].event = kind[w]
  /\ kind[w] = "record" =>
       /\ todo[w] = {} /\ done[w] = {} /\ want[w] = {}
       /\ \A k \in DOMAIN pending[w] : pending[w][k].row = None
  /\ kind[w] # "record" =>
       /\ \A r \in Rows : EntriesOf(w, r) # {} <=> r \in done[w]
       /\ \A r \in Rows : \A k, l \in EntriesOf(w, r) : k = l
       /\ \A k \in DOMAIN pending[w] : pending[w][k].row \in Rows
  /\ pc[w] = "idle" => pending[w] = <<>> /\ todo[w] = {} /\ done[w] = {}
  /\ pc[w] = "update" => pending[w] = <<>> /\ done[w] = {} /\ kind[w] # "record"
  /\ pc[w] = "commit" => todo[w] = {}

\* All but the sweep change one row, and write one entry at most.
OneEntry(w) ==
  /\ w # Sweeper => \A r, q \in Rows : holder[r] = w /\ holder[q] = w => r = q
  /\ kind[w] = "extend" => w # Sweeper
  /\ kind[w] = "record" => Len(pending[w]) <= (IF pc[w] = "commit" THEN 1 ELSE 0)

AInv ==
  /\ TypeOK
  /\ \A w \in Writers : ChainIsOwned(w)
  /\ \A w \in Writers : LockOrder(w)
  /\ \A w \in Writers : RowsAreOwned(w)
  /\ \A w \in Writers : RowsAreLogged(w)
  /\ \A w \in Writers : OneEntry(w)
  /\ RowsAgreeWithLog
=============================================================================
