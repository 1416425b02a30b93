---------------------------- MODULE OrderHistory ----------------------------
(***************************************************************************)
(* services/load-generator: the order history it writes, prunes and        *)
(* resets, and the counters that describe it.                              *)
(*                                                                         *)
(* Workers insert orders through the site, the pruner thread counts, looks *)
(* for the oldest and deletes, POST /reset deletes everything and zeroes   *)
(* the counters: five calls on MongoDB and three critical sections that    *)
(* nothing orders.                                                         *)
(***************************************************************************)
EXTENDS Naturals, FiniteSets

CONSTANTS
  Buyers,         \* workers
  MaxDocuments,   \* ORDERS_MAX_DOCUMENTS, 0 for no pruning
  MaxOrders,      \* bound: orders placed
  MaxResets,      \* bound
  MaxOrdersFaults

ASSUME OrdersAssumption ==
  /\ MaxDocuments \in Nat /\ MaxOrders \in Nat
  /\ MaxResets \in Nat /\ MaxOrdersFaults \in Nat

VARIABLES
  documents,   \* orders-db, by ObjectId: by age
  placed,      \* orders placed so far
  buying,      \* workers that have an answer to POST /orders to count
  pruner,      \* what order_pruner holds between its calls
  resetting,   \* /reset has cleared the history and not yet the counters
  resets,
  counted,     \* _stats["orders"] and _orders_stats["pruned"]
  run,         \* what the counters may count: since they were zeroed, or
               \* under way at that time; lost, deleted without an answer
  ordersFaults

ordersVars == <<documents, placed, buying, pruner, resetting, resets, counted,
                run, ordersFaults>>

NoPrune == [at |-> "rest", excess |-> 0, oldest |-> {}, crossed |-> FALSE]

OrdersTypeOK ==
  /\ documents \subseteq 1..placed
  /\ placed \in 0..MaxOrders
  /\ buying \subseteq Buyers
  /\ pruner \in [at : {"rest", "find", "delete", "count"}, excess : Nat,
                 oldest : SUBSET (1..placed), crossed : BOOLEAN]
  /\ resetting \in BOOLEAN
  /\ resets \in 0..MaxResets
  /\ counted \in [orders : Nat, pruned : Nat]
  /\ run \in [orders : Nat, pruned : Nat, lost : Nat]
  /\ ordersFaults \in Nat

OrdersInit ==
  /\ documents = {}
  /\ placed = 0
  /\ buying = {}
  /\ pruner = NoPrune
  /\ resetting = FALSE
  /\ resets = 0
  /\ counted = [orders |-> 0, pruned |-> 0]
  /\ run = [orders |-> 0, pruned |-> 0, lost |-> 0]
  /\ ordersFaults = 0

-----------------------------------------------------------------------------
\* POST /orders, and the worker's count of it in a critical section of its own.
\* An order whose answer is late or bad is placed and never counted.
PlaceOrder(b) ==
  /\ b \notin buying
  /\ placed < MaxOrders
  /\ placed' = placed + 1
  /\ documents' = documents \cup {placed + 1}
  /\ run' = [run EXCEPT !.orders = @ + 1]
  /\ \/ buying' = buying \cup {b}
     \/ UNCHANGED buying
  /\ UNCHANGED <<pruner, resetting, resets, counted, ordersFaults>>

CountOrder(b) ==
  /\ b \in buying
  /\ buying' = buying \ {b}
  /\ counted' = [counted EXCEPT !.orders = @ + 1]
  /\ UNCHANGED <<documents, placed, pruner, resetting, resets, run, ordersFaults>>

-----------------------------------------------------------------------------
(* order_pruner and prune.                                                 *)

Oldest(n) ==
  CHOOSE S \in SUBSET documents :
    /\ Cardinality(S) = IF n < Cardinality(documents) THEN n ELSE Cardinality(documents)
    /\ \A d \in S, e \in documents \ S : d < e

\* count_documents
PruneCount ==
  /\ pruner.at = "rest"
  /\ MaxDocuments > 0
  /\ Cardinality(documents) > MaxDocuments
  /\ pruner' = [NoPrune EXCEPT !.at = "find", !.excess = Cardinality(documents) - MaxDocuments]
  /\ UNCHANGED <<documents, placed, buying, resetting, resets, counted, run, ordersFaults>>

\* Mutant: the newest are looked up.
PruneFindNewest ==
  /\ pruner.at = "find"
  /\ LET n == Cardinality(documents)
         newest == documents \ Oldest(IF pruner.excess < n THEN n - pruner.excess ELSE 0)
     IN pruner' = IF newest = {} THEN NoPrune
                  ELSE [pruner EXCEPT !.at = "delete", !.oldest = newest]
  /\ UNCHANGED <<documents, placed, buying, resetting, resets, counted, run, ordersFaults>>

\* find, sorted by _id, limited to the excess counted before
PruneFind ==
  /\ pruner.at = "find"
  /\ pruner' = IF documents = {} THEN NoPrune
               ELSE [pruner EXCEPT !.at = "delete", !.oldest = Oldest(pruner.excess)]
  /\ UNCHANGED <<documents, placed, buying, resetting, resets, counted, run, ordersFaults>>

\* delete_many, which tells how many there still were
PruneDelete ==
  /\ pruner.at = "delete"
  /\ documents' = documents \ pruner.oldest
  /\ LET gone == Cardinality(documents \cap pruner.oldest)
     IN /\ pruner' = [NoPrune EXCEPT !.at = "count", !.excess = gone]
        /\ run' = [run EXCEPT !.pruned = @ + gone]
  /\ UNCHANGED <<placed, buying, resetting, resets, counted, ordersFaults>>

CountPruned ==
  /\ pruner.at = "count"
  /\ counted' = [counted EXCEPT !.pruned = @ + pruner.excess]
  /\ pruner' = NoPrune
  /\ UNCHANGED <<documents, placed, buying, resetting, resets, run, ordersFaults>>

\* orders-db goes away: the round ends, the thread goes on.  A delete whose reply
\* is lost may have been carried out, or a part of it.
PruneFails ==
  /\ pruner.at \in {"find", "delete"}
  /\ ordersFaults < MaxOrdersFaults
  /\ ordersFaults' = ordersFaults + 1
  /\ \E gone \in SUBSET (documents \cap pruner.oldest) :
       /\ documents' = documents \ gone
       /\ run' = [run EXCEPT !.pruned = @ + Cardinality(gone), !.lost = @ + Cardinality(gone)]
  /\ pruner' = NoPrune
  /\ UNCHANGED <<placed, buying, resetting, resets, counted>>

-----------------------------------------------------------------------------
(* post_reset.                                                             *)

\* reset
ClearHistory ==
  /\ ~resetting
  /\ resets < MaxResets
  /\ resets' = resets + 1
  /\ documents' = {}
  /\ resetting' = TRUE
  /\ pruner' = [pruner EXCEPT !.crossed = pruner.at \in {"find", "delete"}]
  /\ UNCHANGED <<placed, buying, counted, run, ordersFaults>>

\* orders-db goes away: 503 and the counters stay, whatever was deleted.
ResetFails ==
  /\ ~resetting
  /\ resets < MaxResets
  /\ resets' = resets + 1
  /\ ordersFaults < MaxOrdersFaults
  /\ ordersFaults' = ordersFaults + 1
  /\ \E gone \in SUBSET documents : documents' = documents \ gone
  /\ pruner' = [pruner EXCEPT !.crossed = pruner.at \in {"find", "delete"}]
  /\ UNCHANGED <<placed, buying, resetting, counted, run>>

\* Deleted by the pruner, not in its counter yet.
Uncounted == IF pruner.at = "count" THEN pruner.excess ELSE 0

\* Mutant: the pruned counter goes on.
ZeroOrdersOnly ==
  /\ resetting
  /\ counted' = [counted EXCEPT !.orders = 0]
  /\ run' = [orders |-> Cardinality(buying), pruned |-> Uncounted, lost |-> 0]
  /\ resetting' = FALSE
  /\ UNCHANGED <<documents, placed, buying, pruner, resets, ordersFaults>>

ZeroCounters ==
  /\ resetting
  /\ counted' = [orders |-> 0, pruned |-> 0]
  /\ run' = [orders |-> Cardinality(buying), pruned |-> Uncounted, lost |-> 0]
  /\ resetting' = FALSE
  /\ UNCHANGED <<documents, placed, buying, pruner, resets, ordersFaults>>

-----------------------------------------------------------------------------
OrdersNext ==
  \/ \E b \in Buyers : PlaceOrder(b) \/ CountOrder(b)
  \/ PruneCount \/ PruneFind \/ PruneDelete \/ CountPruned \/ PruneFails
  \/ ClearHistory \/ ResetFails \/ ZeroCounters

OrdersSpec == OrdersInit /\ [][OrdersNext]_ordersVars

-----------------------------------------------------------------------------
\* Every order that goes has as many newer ones left as the ceiling allows.
NewestAreLeft ==
  \A gone \in documents \ documents' :
    Cardinality({left \in documents' : gone < left}) >= MaxDocuments

\* The pruner leaves the newest orders, as many as the ceiling allows: also while
\* orders come in and when its delete fails half-way, unless a reset crosses the
\* round, which may then take orders of a history under the ceiling.  (prune.)
PruneKeepsNewest ==
  [][(PruneDelete \/ PruneFails) /\ ~pruner.crossed => NewestAreLeft]_ordersVars

\* "/stats afterwards describes this run alone" (post_reset), but for what was
\* under way when the counters were zeroed; and the pruner counts each order it
\* deletes once, those of a delete that was not answered never.
CountersDescribeTheRun ==
  /\ counted.orders <= run.orders
  /\ counted.pruned + Uncounted + run.lost = run.pruned
=============================================================================
