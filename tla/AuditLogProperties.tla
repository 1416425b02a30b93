------------------------- MODULE AuditLogProperties -------------------------
(***************************************************************************)
(* What concurrent transactions may rely on: one chain, one verdict, no    *)
(* deadlock, and a grain at which each of them is one step.                *)
(***************************************************************************)
EXTENDS AuditLog

(***************************************************************************)
(* verify_chain: walk the log in order; the first entry that does not name *)
(* the stored hash before it, or whose own hash is not that of its         *)
(* contents, is broken.                                                    *)
(***************************************************************************)
ExpectedPrev(chain, k) == IF k = 1 THEN Genesis ELSE chain[k - 1].hash
Linked(chain, k) == chain[k].prev = ExpectedPrev(chain, k)
Recomputed(chain, k) ==
  HashEntry(chain[k].prev, chain[k].id, chain[k].event, chain[k].row)

\* Slip: the links are checked, the hashes are not recomputed.
VerifyLinksOnly(chain) ==
  LET broken == {k \in DOMAIN chain : ~ Linked(chain, k)} IN
    IF broken = {} THEN None
    ELSE chain[CHOOSE k \in broken : \A l \in broken : k <= l].id

\* The audit_id of the first broken entry, None when the chain is intact.
VerifyChain(chain) ==
  LET broken == {k \in DOMAIN chain :
                   ~ Linked(chain, k) \/ Recomputed(chain, k) # chain[k].hash} IN
    IF broken = {} THEN None
    ELSE chain[CHOOSE k \in broken : \A l \in broken : k <= l].id

(***************************************************************************)
(* The audit log is one unbroken chain with consecutive audit_ids,         *)
(* whichever transactions append concurrently and whichever of them roll   *)
(* back half way (a rolled-back entry leaves no gap).                      *)
(***************************************************************************)
ChainIntact ==
  \A k \in DOMAIN log :
    /\ log[k].id = k
    /\ Linked(log, k)
    /\ log[k].hash = Recomputed(log, k)

(***************************************************************************)
(* The entry that loses its contents is found: verify_chain reports it, or *)
(* the next one if its hash was recomputed (audit.py: it "breaks every     *)
(* hash after it").                                                        *)
(***************************************************************************)
DamageIsFound ==
  \A k \in DOMAIN log, row \in Rows \cup {None} :
    row # log[k].row =>
      LET damaged == [log EXCEPT ![k].row = row]
          rehashed == [damaged EXCEPT ![k].hash = Recomputed(damaged, k)] IN
        /\ VerifyChain(damaged) = k
        /\ VerifyChain(rehashed) = IF k < Len(log) THEN k + 1 ELSE None

(***************************************************************************)
(* A row is closed by one verdict, and no entry of another verdict or an   *)
(* extension follows, although several transactions may have found it      *)
(* open; and the row and the log never disagree (db.py:11-13: "the audit   *)
(* trail can never show a decision the incidents table does not also have  *)
(* (or vice versa)").                                                      *)
(***************************************************************************)
Closings(r) == {k \in DOMAIN log : log[k].row = r /\ log[k].event = "close"}

RowsAgreeWithLog ==
  \A r \in Rows :
    /\ r \in open <=> Closings(r) = {}
    /\ \A k \in Closings(r), l \in DOMAIN log : log[l].row = r => l <= k

(***************************************************************************)
(* No circle of transactions, each waiting for a lock of another: a sweep  *)
(* that holds rows while it waits for the chain, and a decision the other  *)
(* way round, would be one.                                                *)
(***************************************************************************)
WaitsFor(w, v) ==
  /\ w # v
  /\ \/ pc[w] = "update" /\ \E r \in want[w] : holder[r] = v
     \/ pc[w] = "lock" /\ logLock = v

NoDeadlock ==
  ~ \E S \in SUBSET Writers :
      /\ S # {}
      /\ \A w \in S : \E v \in S : WaitsFor(w, v)

(***************************************************************************)
(* Seen from outside, a transaction is one step: it closes rows that are   *)
(* open at that moment and logs exactly those.                             *)
(***************************************************************************)
Atomic == INSTANCE AtomicAudit WITH
  story <- [k \in DOMAIN log |-> [event |-> log[k].event, row |-> log[k].row]]

ImplementsAtomicAudit == Atomic!Spec
=============================================================================
