---------------------------- MODULE AtomicAudit ----------------------------
(***************************************************************************)
(* What a store of db.py promises its callers: a transaction is one step.  *)
(* It finds its rows still open, changes them and writes the entries that  *)
(* say so, or it does nothing.  (This is the grain of module Orchestrator.)*)
(***************************************************************************)
EXTENDS Naturals, Sequences, FiniteSets

CONSTANTS Rows, None

VARIABLES
  open,   \* the rows a decision may still be taken on
  story   \* the audit log: what happened to which row, oldest first

Init == open = Rows /\ story = <<>>

\* Verdicts on the rows of a sequence without repetitions (a sweep has many).
Close(rs) ==
  /\ \A k \in DOMAIN rs : rs[k] \in open
  /\ \A k, l \in DOMAIN rs : rs[k] = rs[l] => k = l
  /\ open' = open \ {rs[k] : k \in DOMAIN rs}
  /\ story' = story \o [k \in DOMAIN rs |-> [event |-> "close", row |-> rs[k]]]

Extend(r) ==
  /\ r \in open
  /\ story' = Append(story, [event |-> "extend", row |-> r])
  /\ UNCHANGED open

Record ==
  /\ story' = Append(story, [event |-> "record", row |-> None])
  /\ UNCHANGED open

Next ==
  \/ \E n \in 1..Cardinality(Rows) : \E rs \in [1..n -> Rows] : Close(rs)
  \/ \E r \in Rows : Extend(r)
  \/ Record

Spec == Init /\ [][Next]_<<open, story>>
=============================================================================
