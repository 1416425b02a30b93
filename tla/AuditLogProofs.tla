--------------------------- MODULE AuditLogProofs ---------------------------
(***************************************************************************)
(* One chain, one verdict, no deadlock and transactions that are single    *)
(* steps, for any number of connections, incidents and entries.            *)
(***************************************************************************)
EXTENDS AuditLogInvariant, FiniteSetTheorems, SequenceTheorems, TLAPS

(* What HashEntry makes is a hash.                                         *)
LEMMA HashType ==
  ASSUME NEW prev \in Hashes, NEW id \in Nat, NEW event \in Kinds,
         NEW row \in Rows \cup {None}
  PROVE  HashEntry(prev, id, event, row) \in Hashes
<1>1. Content(id, event, row) \in Contents
  BY DEF Content, Contents
<1> QED
  BY <1>1 DEF HashEntry, Hashes

(* The genesis hash is one too.                                            *)
LEMMA GenesisType == Genesis \in Hashes
BY DEF Genesis, Hashes

(* What a connection inserts is an entry.                                  *)
LEMMA NewEntryType ==
  ASSUME TypeOK, NEW w \in Writers, NEW row \in Rows \cup {None}
  PROVE  NewEntry(w, row) \in Entries
<1>1. tip[w].id \in Nat /\ tip[w].hash \in Hashes /\ kind[w] \in Kinds
  BY DEF TypeOK
<1>2. tip[w].id + 1 \in Nat
  BY <1>1
<1>3. HashEntry(tip[w].hash, tip[w].id + 1, kind[w], row) \in Hashes
  BY <1>1, <1>2, HashType
<1> QED
  BY <1>1, <1>2, <1>3 DEF NewEntry, Entries

(* What a connection sees of the log is a sequence of entries.             *)
LEMMA VisibleType ==
  ASSUME TypeOK, NEW w \in Writers
  PROVE  Visible(w) \in Seq(Entries)
BY ConcatProperties DEF TypeOK, Visible

(* The end of a log, or the genesis that stands for the end of an empty one. *)
LEMMA TipType ==
  ASSUME NEW s \in Seq(Entries)
  PROVE  TipOf(s) \in [id : Nat, hash : Hashes]
<1>1. CASE s = <<>>
  BY <1>1, GenesisType DEF TipOf
<1>2. CASE s # <<>>
  <2>1. s[Len(s)] \in Entries
    BY <1>2
  <2> QED
    BY <1>2, <2>1 DEF TipOf, Entries
<1> QED
  BY <1>1, <1>2

(* The end of a transaction keeps the types.                               *)
LEMMA EndType ==
  ASSUME TypeOK, NEW w \in Writers, End(w)
  PROVE  /\ holder' \in [Rows -> Writers \cup {None}]
         /\ logLock' \in Writers \cup {None}
         /\ pc' \in [Writers -> PCs]
         /\ kind' \in [Writers -> Kinds]
         /\ want' \in [Writers -> SUBSET Rows]
         /\ todo' \in [Writers -> SUBSET Rows]
         /\ done' \in [Writers -> SUBSET Rows]
         /\ tip' \in [Writers -> [id : Nat, hash : Hashes]]
         /\ pending' \in [Writers -> Seq(Entries)]
<1>1. pending' \in [Writers -> Seq(Entries)]
  BY DEF TypeOK, End
<1>2. tip' \in [Writers -> [id : Nat, hash : Hashes]]
  BY GenesisType DEF TypeOK, End
<1> QED
  BY <1>1, <1>2 DEF TypeOK, End, PCs, Kinds

(* Giving one connection another set of rows keeps such a function's type. *)
LEMMA RowSetType ==
  ASSUME NEW f \in [Writers -> SUBSET Rows], NEW w \in Writers, NEW S \in SUBSET Rows
  PROVE  [f EXCEPT ![w] = S] \in [Writers -> SUBSET Rows]
OBVIOUS

(* Every statement keeps the types.                                        *)
LEMMA TypeStep ==
  ASSUME TypeOK, [Next]_vars
  PROVE  TypeOK'
<1>1. ASSUME NEW w \in Writers, BeginUpdate(w) PROVE TypeOK'
  <2>1. want' \in [Writers -> SUBSET Rows]
    BY <1>1 DEF TypeOK, BeginUpdate
  <2>2. kind' \in [Writers -> Kinds]
    BY <1>1 DEF TypeOK, BeginUpdate, Kinds
  <2> QED
    BY <1>1, <2>1, <2>2 DEF TypeOK, BeginUpdate, PCs
<1>2. ASSUME NEW w \in Writers, BeginRecord(w) PROVE TypeOK'
  BY <1>2 DEF TypeOK, BeginRecord, PCs, Kinds
<1>3. ASSUME NEW w \in Writers, NEW r \in Rows, UpdateRow(w, r) PROVE TypeOK'
  <2>0. /\ todo \in [Writers -> SUBSET Rows] /\ want \in [Writers -> SUBSET Rows]
        /\ todo[w] \cup {r} \in SUBSET Rows /\ want[w] \ {r} \in SUBSET Rows
    BY DEF TypeOK
  <2>1. todo' \in [Writers -> SUBSET Rows] /\ want' \in [Writers -> SUBSET Rows]
    BY <1>3, <2>0, RowSetType DEF UpdateRow
  <2>2. holder' \in [Rows -> Writers \cup {None}]
    BY <1>3 DEF TypeOK, UpdateRow
  <2> QED
    BY <1>3, <2>1, <2>2 DEF TypeOK, UpdateRow
<1>4. ASSUME NEW w \in Writers, CountRows(w) PROVE TypeOK'
  BY <1>4 DEF TypeOK, CountRows, PCs
<1>5. ASSUME NEW w \in Writers, TakeLogLock(w) PROVE TypeOK'
  BY <1>5 DEF TypeOK, TakeLogLock, PCs
<1>6. ASSUME NEW w \in Writers, SelectTip(w) PROVE TypeOK'
  <2>1. tip' = [tip EXCEPT ![w] = TipOf(Visible(w))]
    BY <1>6 DEF SelectTip, TipOf
  <2>2. TipOf(Visible(w)) \in [id : Nat, hash : Hashes]
    BY VisibleType, TipType
  <2> QED
    BY <1>6, <2>1, <2>2 DEF TypeOK, SelectTip, PCs
<1>7. ASSUME NEW w \in Writers, Insert(w) PROVE TypeOK'
  <2>1. PICK row \in Rows \cup {None} :
          pending' = [pending EXCEPT ![w] = Append(@, NewEntry(w, row))]
    BY <1>7 DEF Insert, TypeOK
  <2>2. pending' \in [Writers -> Seq(Entries)]
    <3>1. NewEntry(w, row) \in Entries
      BY NewEntryType
    <3>2. Append(pending[w], NewEntry(w, row)) \in Seq(Entries)
      BY <3>1 DEF TypeOK
    <3> QED
      BY <2>1, <3>2 DEF TypeOK
  <2>0. /\ todo \in [Writers -> SUBSET Rows] /\ done \in [Writers -> SUBSET Rows]
        /\ todo[w] \in SUBSET Rows /\ done[w] \in SUBSET Rows
    BY DEF TypeOK
  <2>3. todo' \in [Writers -> SUBSET Rows] /\ done' \in [Writers -> SUBSET Rows]
    <3>1. CASE UNCHANGED <<todo, done>>
      BY <2>0, <3>1
    <3>2. CASE ~ UNCHANGED <<todo, done>>
      <4>1. PICK r \in todo[w] : /\ todo' = [todo EXCEPT ![w] = @ \ {r}]
                                /\ done' = [done EXCEPT ![w] = @ \cup {r}]
        BY <1>7, <3>2 DEF Insert
      <4>2. todo[w] \ {r} \in SUBSET Rows /\ done[w] \cup {r} \in SUBSET Rows
        BY <2>0
      <4> QED
        BY <2>0, <4>1, <4>2, RowSetType
    <3> QED
      BY <3>1, <3>2
  <2>4. pc' \in [Writers -> PCs]
    BY <1>7 DEF TypeOK, Insert, PCs
  <2> QED
    BY <1>7, <2>2, <2>3, <2>4 DEF TypeOK, Insert
<1>8. ASSUME NEW w \in Writers, Commit(w) PROVE TypeOK'
  <2>1. log' \in Seq(Entries)
    BY <1>8, VisibleType DEF Commit, Visible
  <2>2. open' \subseteq Rows
    BY <1>8 DEF Commit, TypeOK
  <2> QED
    BY <1>8, <2>1, <2>2, EndType DEF Commit, TypeOK
<1>9. ASSUME NEW w \in Writers, Rollback(w) PROVE TypeOK'
  BY <1>9, EndType DEF Rollback, TypeOK
<1>10. CASE UNCHANGED vars
  BY <1>10 DEF TypeOK, vars
<1> QED
  BY <1>1, <1>2, <1>3, <1>4, <1>5, <1>6, <1>7, <1>8, <1>9, <1>10 DEF Next, Step

-----------------------------------------------------------------------------
(***************************************************************************)
(* A statement of one connection leaves the others' transactions alone.    *)
(***************************************************************************)
(* Local variables belong to one connection.                               *)
LEMMA LocalsAreLocal ==
  ASSUME TypeOK, NEW w \in Writers, Step(w), NEW u \in Writers, u # w
  PROVE  /\ pc'[u] = pc[u] /\ kind'[u] = kind[u] /\ want'[u] = want[u]
         /\ todo'[u] = todo[u] /\ done'[u] = done[u] /\ tip'[u] = tip[u]
         /\ pending'[u] = pending[u]
<1>1. CASE \E r \in Rows : UpdateRow(w, r)
  BY <1>1 DEF TypeOK, UpdateRow
<1>2. CASE Insert(w)
  BY <1>2 DEF TypeOK, Insert
<1>3. CASE Commit(w) \/ Rollback(w)
  BY <1>3 DEF TypeOK, Commit, Rollback, End
<1>4. CASE BeginUpdate(w) \/ BeginRecord(w)
  BY <1>4 DEF TypeOK, BeginUpdate, BeginRecord
<1>5. CASE CountRows(w) \/ TakeLogLock(w) \/ SelectTip(w)
  BY <1>5 DEF TypeOK, CountRows, TakeLogLock, SelectTip
<1> QED
  BY <1>1, <1>2, <1>3, <1>4, <1>5 DEF Step

(* Nobody takes or releases a lock for another.                            *)
LEMMA LocksAreLocal ==
  ASSUME TypeOK, NEW w \in Writers, Step(w), NEW u \in Writers, u # w
  PROVE  /\ logLock' = u <=> logLock = u
         /\ \A r \in Rows : holder'[r] = u <=> holder[r] = u
<1>0. None \notin Writers
  BY NoneAssumption
<1>1. CASE \E r \in Rows : UpdateRow(w, r)
  BY <1>0, <1>1 DEF TypeOK, UpdateRow
<1>2. CASE Insert(w)
  BY <1>2 DEF Insert
<1>3. CASE Commit(w) \/ Rollback(w)
  BY <1>0, <1>3 DEF TypeOK, Commit, Rollback, End
<1>4. CASE BeginUpdate(w) \/ BeginRecord(w)
  BY <1>4 DEF BeginUpdate, BeginRecord
<1>5. CASE CountRows(w) \/ TakeLogLock(w) \/ SelectTip(w)
  BY <1>0, <1>5 DEF CountRows, TakeLogLock, SelectTip
<1> QED
  BY <1>1, <1>2, <1>3, <1>4, <1>5 DEF Step

(* Row locks come before the chain's lock, in every transaction.           *)
LEMMA LockOrderStep ==
  ASSUME TypeOK, \A u \in Writers : LockOrder(u), [Next]_vars
  PROVE  \A u \in Writers : LockOrder(u)'
<1> SUFFICES ASSUME NEW w \in Writers, Step(w), NEW u \in Writers
             PROVE  LockOrder(u)'
  <2>1. CASE UNCHANGED vars
    BY <2>1 DEF vars, LockOrder
  <2> QED
    BY <2>1 DEF Next
<1>a. LockOrder(u)
  OBVIOUS
<1>b. None \notin Writers
  BY NoneAssumption
<1>0. CASE u # w
  BY <1>0, <1>a, LocalsAreLocal, LocksAreLocal DEF LockOrder
<1>1. CASE u = w /\ BeginUpdate(w)
  <2>1. \A r \in Rows : holder[r] # w
    BY <1>1, <1>a DEF LockOrder, BeginUpdate
  <2>2. w # Sweeper => \A r, q \in want'[w] : r = q
    BY <1>1 DEF BeginUpdate, TypeOK
  <2> QED
    BY <1>1, <1>a, <2>1, <2>2 DEF LockOrder, BeginUpdate, TypeOK
<1>2. CASE u = w /\ BeginRecord(w)
  BY <1>2, <1>a DEF LockOrder, BeginRecord, TypeOK
<1>3. ASSUME u = w, NEW r \in Rows, UpdateRow(w, r) PROVE LockOrder(u)'
  <2>1. w # Sweeper => want'[w] = {}
    BY <1>3, <1>a DEF LockOrder, UpdateRow, TypeOK
  <2>2. pc'[w] = "update" /\ logLock' # w
    BY <1>3, <1>a DEF LockOrder, UpdateRow
  <2> QED
    BY <1>3, <2>1, <2>2 DEF LockOrder
<1>4. CASE u = w /\ CountRows(w)
  BY <1>4, <1>a DEF LockOrder, CountRows, TypeOK
<1>5. CASE u = w /\ TakeLogLock(w)
  BY <1>5, <1>a DEF LockOrder, TakeLogLock, TypeOK
<1>6. CASE u = w /\ SelectTip(w)
  BY <1>6, <1>a DEF LockOrder, SelectTip, TypeOK
<1>7. CASE u = w /\ Insert(w)
  BY <1>7, <1>a DEF LockOrder, Insert, TypeOK
<1>8. CASE u = w /\ (Commit(w) \/ Rollback(w))
  <2>1. End(w)
    BY <1>8 DEF Commit, Rollback
  <2>2. pc'[w] = "idle" /\ want'[w] = {}
    BY <2>1 DEF End, TypeOK
  <2>3. logLock' # w
    BY <2>1, <1>b DEF End
  <2>4. \A r \in Rows : holder'[r] # w
    BY <2>1, <1>b DEF End
  <2> QED
    BY <1>8, <2>2, <2>3, <2>4 DEF LockOrder
<1> QED
  BY <1>0, <1>1, <1>2, <1>3, <1>4, <1>5, <1>6, <1>7, <1>8 DEF Step

(* No circle of transactions waits for itself: whoever holds the chain's   *)
(* lock waits for nothing, and of those that wait for rows only the sweep  *)
(* holds any.                                                              *)
LEMMA LockOrderExcludesDeadlock ==
  ASSUME TypeOK, \A u \in Writers : LockOrder(u)
  PROVE  NoDeadlock
<1> SUFFICES ASSUME NEW S \in SUBSET Writers, S # {},
                    \A w \in S : \E v \in S : WaitsFor(w, v)
             PROVE  FALSE
  BY DEF NoDeadlock
<1>1. \A w \in S : logLock # w
  BY DEF WaitsFor, LockOrder
<1>2. \A w \in S : \E v \in S, r \in Rows :
        w # v /\ pc[w] = "update" /\ r \in want[w] /\ holder[r] = v
  <2> SUFFICES ASSUME NEW w \in S
               PROVE  \E v \in S, r \in Rows :
                        w # v /\ pc[w] = "update" /\ r \in want[w] /\ holder[r] = v
    OBVIOUS
  <2>1. PICK v \in S : WaitsFor(w, v)
    OBVIOUS
  <2>2. want[w] \subseteq Rows
    BY DEF TypeOK
  <2>3. logLock # v
    BY <1>1
  <2> QED
    BY <2>1, <2>2, <2>3 DEF WaitsFor
<1>3. \A w \in S : (\E r \in Rows : holder[r] = w) => w = Sweeper
  <2> SUFFICES ASSUME NEW w \in S, NEW r \in Rows, holder[r] = w
               PROVE  w = Sweeper
    OBVIOUS
  <2>1. want[w] # {}
    BY <1>2
  <2>2. LockOrder(w)
    OBVIOUS
  <2> QED
    BY <2>1, <2>2 DEF LockOrder
<1>4. Sweeper \in S
  BY <1>2, <1>3
<1> QED
  BY <1>2, <1>3, <1>4

-----------------------------------------------------------------------------
(***************************************************************************)
(* The chain.                                                              *)
(***************************************************************************)
(* The elements of a concatenation.                                        *)
LEMMA ConcatAt ==
  ASSUME NEW s \in Seq(Entries), NEW t \in Seq(Entries)
  PROVE  /\ s \o t \in Seq(Entries)
         /\ Len(s \o t) = Len(s) + Len(t)
         /\ \A k \in 1..Len(s) : (s \o t)[k] = s[k]
         /\ \A k \in 1..Len(t) : (s \o t)[Len(s) + k] = t[k]
BY ConcatProperties

(* What is appended after a concatenation is appended to its second part.  *)
LEMMA ConcatAppend ==
  ASSUME NEW s \in Seq(Entries), NEW t \in Seq(Entries), NEW e \in Entries
  PROVE  s \o Append(t, e) = Append(s \o t, e)
OBVIOUS

(* A chain of which the end is cut off is a chain.                         *)
LEMMA ChainPrefix ==
  ASSUME NEW s \in Seq(Entries), NEW t \in Seq(Entries), Chain(s \o t)
  PROVE  Chain(s)
<1> SUFFICES ASSUME NEW k \in 1..Len(s)
             PROVE  s[k].id = k /\ Linked(s, k) /\ s[k].hash = Recomputed(s, k)
  BY DEF Chain
<1>1. k \in DOMAIN (s \o t) /\ (s \o t)[k] = s[k]
  BY ConcatAt
<1>2. k # 1 => (s \o t)[k - 1] = s[k - 1]
  BY ConcatAt
<1> QED
  BY <1>1, <1>2 DEF Chain, Linked, Recomputed, ExpectedPrev

(* A chain and an entry made for its end are a chain.                      *)
LEMMA ChainAppend ==
  ASSUME NEW s \in Seq(Entries), Chain(s), NEW e \in Entries,
         e.id = TipOf(s).id + 1, e.prev = TipOf(s).hash,
         e.hash = HashEntry(e.prev, e.id, e.event, e.row)
  PROVE  Chain(Append(s, e))
<1> SUFFICES ASSUME NEW k \in 1..(Len(s) + 1)
             PROVE  /\ Append(s, e)[k].id = k
                    /\ Linked(Append(s, e), k)
                    /\ Append(s, e)[k].hash = Recomputed(Append(s, e), k)
  BY DEF Chain
<1>1. CASE k \in 1..Len(s)
  <2>1. Append(s, e)[k] = s[k] /\ (k # 1 => Append(s, e)[k - 1] = s[k - 1])
    BY <1>1
  <2> QED
    BY <1>1, <2>1 DEF Chain, Linked, Recomputed, ExpectedPrev
<1>2. CASE k = Len(s) + 1
  <2>1. Append(s, e)[k] = e /\ (k # 1 => Append(s, e)[k - 1] = s[Len(s)])
    BY <1>2
  <2>2. CASE s = <<>>
    BY <1>2, <2>1, <2>2 DEF TipOf, Linked, Recomputed, ExpectedPrev
  <2>3. CASE s # <<>>
    <3>1. TipOf(s) = [id |-> Len(s), hash |-> s[Len(s)].hash]
      BY <2>3 DEF TipOf, Chain
    <3>2. k # 1
      BY <1>2, <2>3
    <3> QED
      BY <1>2, <2>1, <3>1, <3>2 DEF Linked, Recomputed, ExpectedPrev
  <2> QED
    BY <2>2, <2>3
<1> QED
  BY <1>1, <1>2

(* Of the statements only Insert and the end of a transaction change what  *)
(* the connection itself sees.                                             *)
LEMMA ViewIsStable ==
  ASSUME TypeOK, NEW w \in Writers, Step(w)
  PROVE  \/ log' = log /\ pending'[w] = pending[w]
         \/ log' = log /\ Insert(w)
         \/ Commit(w)
         \/ Rollback(w)
BY DEF Step, BeginUpdate, BeginRecord, UpdateRow, CountRows, TakeLogLock, SelectTip,
       Insert

(* Whoever appends to the chain holds its lock and appends to its end; a   *)
(* transaction that ends leaves a chain, with its entries or without them. *)
LEMMA ChainIsOwnedStep ==
  ASSUME TypeOK, \A u \in Writers : ChainIsOwned(u), [Next]_vars
  PROVE  \A u \in Writers : ChainIsOwned(u)'
<1> SUFFICES ASSUME NEW w \in Writers, Step(w), NEW u \in Writers
             PROVE  ChainIsOwned(u)'
  <2>1. CASE UNCHANGED vars
    BY <2>1 DEF vars, ChainIsOwned, Visible
  <2> QED
    BY <2>1 DEF Next
<1>a. ChainIsOwned(w) /\ ChainIsOwned(u)
  OBVIOUS
<1>b. log \in Seq(Entries) /\ pending[w] \in Seq(Entries) /\ pending[u] \in Seq(Entries)
  BY DEF TypeOK
<1>0. CASE u # w
  <2>1. /\ pc'[u] = pc[u] /\ tip'[u] = tip[u] /\ pending'[u] = pending[u]
        /\ logLock' = u <=> logLock = u
    BY <1>0, LocalsAreLocal, LocksAreLocal
  <2>2. CASE log' = log
    BY <1>a, <2>1, <2>2 DEF ChainIsOwned, Visible
  <2>3. CASE log' # log
    <3>1. Commit(w) /\ pending[w] # <<>>
      BY <1>b, <2>3, ViewIsStable, ConcatEmptySeq DEF Commit, Insert, Rollback
    <3>2. logLock = w
      BY <1>a, <3>1 DEF ChainIsOwned
    <3>3. pending[u] = <<>> /\ pc[u] \notin {"select", "insert"}
      BY <1>0, <1>a, <3>2 DEF ChainIsOwned
    <3>4. log' = Visible(w) /\ log' \in Seq(Entries)
      BY <3>1, VisibleType DEF Commit, Visible
    <3>5. Visible(u)' = Visible(w)
      BY <2>1, <3>3, <3>4, ConcatEmptySeq DEF Visible
    <3> QED
      BY <1>a, <2>1, <3>3, <3>5 DEF ChainIsOwned
  <2> QED
    BY <2>2, <2>3
<1>1. CASE u = w /\ (BeginUpdate(w) \/ BeginRecord(w) \/ CountRows(w))
  <2>1. pc'[w] \notin {"select", "insert"}
    BY <1>1 DEF BeginUpdate, BeginRecord, CountRows, TypeOK
  <2> QED
    BY <1>1, <1>a, <2>1 DEF ChainIsOwned, Visible, BeginUpdate, BeginRecord, CountRows
<1>2. ASSUME u = w, NEW r \in Rows, UpdateRow(w, r) PROVE ChainIsOwned(u)'
  BY <1>2, <1>a DEF ChainIsOwned, Visible, UpdateRow
<1>3. CASE u = w /\ TakeLogLock(w)
  BY <1>3, <1>a DEF ChainIsOwned, Visible, TakeLogLock, TypeOK
<1>4. CASE u = w /\ SelectTip(w)
  <2>1. tip'[w] = TipOf(Visible(w)) /\ Visible(w)' = Visible(w)
    BY <1>4 DEF SelectTip, TipOf, TypeOK, Visible
  <2>2. logLock' = w
    BY <1>4, <1>a DEF SelectTip, ChainIsOwned
  <2> QED
    BY <1>4, <1>a, <2>1, <2>2 DEF ChainIsOwned
<1>5. CASE u = w /\ Insert(w)
  <2>1. PICK row \in Rows \cup {None} : pending'[w] = Append(pending[w], NewEntry(w, row))
    BY <1>5 DEF Insert, TypeOK
  <2> DEFINE e == NewEntry(w, row)
  <2>2. e \in Entries
    BY NewEntryType
  <2>3. Visible(w)' = Append(Visible(w), e)
    <3>1. Visible(w)' = log \o Append(pending[w], e)
      BY <1>5, <2>1 DEF Visible, Insert
    <3> HIDE DEF e
    <3>2. log \o Append(pending[w], e) = Append(log \o pending[w], e)
      BY <1>b, <2>2, ConcatAppend
    <3> QED
      BY <3>1, <3>2 DEF Visible
  <2>4. tip[w] = TipOf(Visible(w))
    BY <1>5, <1>a DEF ChainIsOwned, Insert
  <2>5. /\ e.id = TipOf(Visible(w)).id + 1 /\ e.prev = TipOf(Visible(w)).hash
        /\ e.hash = HashEntry(e.prev, e.id, e.event, e.row)
    BY <2>4 DEF NewEntry
  <2>6. Chain(Append(Visible(w), e))
    <3>1. Chain(Visible(w))
      BY <1>a DEF ChainIsOwned
    <3> HIDE DEF e
    <3> QED
      BY <2>2, <2>5, <3>1, VisibleType, ChainAppend
  <2>7. logLock' = w /\ pc'[w] # "insert"
    BY <1>5, <1>a DEF Insert, ChainIsOwned, TypeOK
  <2> QED
    BY <1>5, <2>3, <2>6, <2>7 DEF ChainIsOwned, Chain, Linked, ExpectedPrev, Recomputed
<1>6. CASE u = w /\ (Commit(w) \/ Rollback(w))
  <2>1. pc'[w] = "idle" /\ pending'[w] = <<>>
    BY <1>6 DEF Commit, Rollback, End, TypeOK
  <2>2. log' \in Seq(Entries) /\ Chain(log')
    BY <1>6, <1>a, <1>b, ChainPrefix, VisibleType
       DEF Commit, Rollback, ChainIsOwned, Visible
  <2>3. Visible(w)' = log'
    BY <2>1, <2>2, ConcatEmptySeq DEF Visible
  <2> QED
    BY <1>6, <2>1, <2>2, <2>3 DEF ChainIsOwned
<1> QED
  BY <1>0, <1>1, <1>2, <1>3, <1>4, <1>5, <1>6 DEF Step

(* The committed log is a chain: the sweeper sees one that begins with it. *)
LEMMA OwnedChainIsIntact ==
  ASSUME TypeOK, \A u \in Writers : ChainIsOwned(u)
  PROVE  ChainIntact
<1>1. Chain(log \o pending[Sweeper])
  BY WritersAssumption DEF ChainIsOwned, Visible
<1>2. log \in Seq(Entries) /\ pending[Sweeper] \in Seq(Entries)
  BY WritersAssumption DEF TypeOK
<1> QED
  BY <1>1, <1>2, ChainPrefix DEF Chain, ChainIntact

-----------------------------------------------------------------------------
(***************************************************************************)
(* The rows.                                                               *)
(***************************************************************************)
(* Two transactions never own the same row, and rows close only as their   *)
(* owner commits.                                                          *)
LEMMA RowsAreOwnedStep ==
  ASSUME TypeOK, \A u \in Writers : RowsAreOwned(u), [Next]_vars
  PROVE  \A u \in Writers : RowsAreOwned(u)'
<1> SUFFICES ASSUME NEW w \in Writers, Step(w), NEW u \in Writers
             PROVE  RowsAreOwned(u)'
  <2>1. CASE UNCHANGED vars
    BY <2>1 DEF vars, RowsAreOwned
  <2> QED
    BY <2>1 DEF Next
<1>a. RowsAreOwned(w) /\ RowsAreOwned(u)
  OBVIOUS
<1>b. /\ todo \in [Writers -> SUBSET Rows] /\ done \in [Writers -> SUBSET Rows]
      /\ None \notin Writers
  BY NoneAssumption DEF TypeOK
<1>0. CASE u # w
  <2>1. /\ todo'[u] = todo[u] /\ done'[u] = done[u]
        /\ \A r \in Rows : holder'[r] = u <=> holder[r] = u
    BY <1>0, LocalsAreLocal, LocksAreLocal
  <2>2. open' = open \/ open' = open \ done[w]
    BY DEF Step, BeginUpdate, BeginRecord, UpdateRow, CountRows, TakeLogLock, SelectTip,
           Insert, Commit, Rollback
  <2>3. \A r \in todo[u] \cup done[u] : r \notin done[w]
    BY <1>0, <1>a DEF RowsAreOwned
  <2>4. todo[u] \cup done[u] \subseteq Rows
    BY <1>b
  <2> QED
    BY <1>a, <2>1, <2>2, <2>3, <2>4 DEF RowsAreOwned
<1>1. CASE u = w /\ (BeginUpdate(w) \/ BeginRecord(w))
  BY <1>1, <1>a DEF RowsAreOwned, BeginUpdate, BeginRecord
<1>2. CASE u = w /\ (CountRows(w) \/ TakeLogLock(w) \/ SelectTip(w))
  BY <1>2, <1>a DEF RowsAreOwned, CountRows, TakeLogLock, SelectTip
<1>3. ASSUME u = w, NEW r \in Rows, UpdateRow(w, r) PROVE RowsAreOwned(u)'
  <2>1. holder' = [holder EXCEPT ![r] = w] /\ holder[r] = None
    BY <1>3 DEF UpdateRow
  <2>2. \A q \in Rows : holder'[q] = IF q = r THEN w ELSE holder[q]
    BY <2>1 DEF TypeOK
  <2>3. r \notin done[w]
    BY <1>a, <1>b, <2>1 DEF RowsAreOwned
  <2>4. done' = done /\ open' = open
    BY <1>3 DEF UpdateRow
  <2>5. \/ r \in open /\ todo'[w] = todo[w] \cup {r}
        \/ todo'[w] = todo[w]
    BY <1>3, <1>b DEF UpdateRow
  <2>6. todo[w] \subseteq Rows /\ done[w] \subseteq Rows
    BY <1>b
  <2> QED
    BY <1>3, <1>a, <2>2, <2>3, <2>4, <2>5, <2>6 DEF RowsAreOwned
<1>4. CASE u = w /\ Insert(w)
  <2>1. holder' = holder /\ open' = open
    BY <1>4 DEF Insert
  <2>2. \/ todo'[w] = todo[w] /\ done'[w] = done[w]
        \/ \E row \in todo[w] : todo'[w] = todo[w] \ {row} /\ done'[w] = done[w] \cup {row}
    BY <1>4, <1>b DEF Insert
  <2> QED
    BY <1>4, <1>a, <2>1, <2>2 DEF RowsAreOwned
<1>5. CASE u = w /\ (Commit(w) \/ Rollback(w))
  <2>1. todo'[w] = {} /\ done'[w] = {}
    BY <1>5, <1>b DEF Commit, Rollback, End
  <2> QED
    BY <1>5, <2>1 DEF RowsAreOwned
<1> QED
  BY <1>0, <1>1, <1>2, <1>3, <1>4, <1>5 DEF Step

(* A transaction logs each row it has changed once, and nothing else.      *)
LEMMA RowsAreLoggedStep ==
  ASSUME TypeOK, \A u \in Writers : LockOrder(u), \A u \in Writers : RowsAreOwned(u),
         \A u \in Writers : RowsAreLogged(u), [Next]_vars
  PROVE  \A u \in Writers : RowsAreLogged(u)'
<1> SUFFICES ASSUME NEW w \in Writers, Step(w), NEW u \in Writers
             PROVE  RowsAreLogged(u)'
  <2>1. CASE UNCHANGED vars
    BY <2>1 DEF vars, RowsAreLogged, EntriesOf
  <2> QED
    BY <2>1 DEF Next
<1>a. RowsAreLogged(w) /\ RowsAreLogged(u) /\ LockOrder(w) /\ RowsAreOwned(w)
  OBVIOUS
<1>b. /\ todo \in [Writers -> SUBSET Rows] /\ done \in [Writers -> SUBSET Rows]
      /\ None \notin Rows /\ pending[w] \in Seq(Entries)
  BY NoneAssumption DEF TypeOK
<1>0. CASE u # w
  BY <1>0, <1>a, LocalsAreLocal DEF RowsAreLogged, EntriesOf
<1>1. CASE u = w /\ BeginUpdate(w)
  <2>1. pc'[w] = "update" /\ kind'[w] \in {"close", "extend"}
    BY <1>1 DEF BeginUpdate, TypeOK
  <2> QED
    BY <1>1, <1>a, <2>1 DEF RowsAreLogged, EntriesOf, BeginUpdate
<1>2. CASE u = w /\ BeginRecord(w)
  <2>1. pc'[w] = "lock" /\ kind'[w] = "record" /\ want'[w] = {}
    BY <1>2, <1>a DEF BeginRecord, TypeOK, LockOrder
  <2> QED
    BY <1>2, <1>a, <2>1 DEF RowsAreLogged, EntriesOf, BeginRecord
<1>3. ASSUME u = w, NEW r \in Rows, UpdateRow(w, r) PROVE RowsAreLogged(u)'
  BY <1>3, <1>a DEF RowsAreLogged, EntriesOf, UpdateRow
<1>4. CASE u = w /\ (CountRows(w) \/ TakeLogLock(w) \/ SelectTip(w))
  <2>1. /\ pc'[w] \notin {"idle", "update"}
        /\ pc'[w] = "commit" => todo[w] = {}
    BY <1>4 DEF CountRows, TakeLogLock, SelectTip, TypeOK
  <2>2. UNCHANGED <<kind, want, todo, done, pending>>
    BY <1>4 DEF CountRows, TakeLogLock, SelectTip
  <2> QED
    BY <1>4, <1>a, <2>1, <2>2 DEF RowsAreLogged, EntriesOf
<1>5. CASE u = w /\ Insert(w)
  <2>1. kind' = kind /\ want' = want /\ pc[w] = "insert"
    BY <1>5 DEF Insert
  <2>2. CASE kind[w] = "record"
    <3>1. /\ todo' = todo /\ done' = done /\ pc'[w] = "commit"
          /\ pending'[w] = Append(pending[w], NewEntry(w, None))
      BY <1>5, <2>2 DEF Insert, TypeOK
    <3>2. NewEntry(w, None).row = None /\ NewEntry(w, None).event = kind[w]
      BY DEF NewEntry
    <3> QED
      BY <1>5, <1>a, <1>b, <2>1, <2>2, <3>1, <3>2 DEF RowsAreLogged
  <2>3. CASE kind[w] # "record"
    <3>1. PICK row \in todo[w] :
            /\ pending'[w] = Append(pending[w], NewEntry(w, row))
            /\ todo'[w] = todo[w] \ {row} /\ done'[w] = done[w] \cup {row}
            /\ pc'[w] = IF todo[w] = {row} THEN "commit" ELSE "lock"
      BY <1>5, <2>3, <1>b DEF Insert, TypeOK
    <3> DEFINE n == Len(pending[w])
    <3>2. /\ DOMAIN pending'[w] = 1..(n + 1) /\ n \in Nat
          /\ \A k \in 1..n : pending'[w][k] = pending[w][k]
          /\ pending'[w][n + 1].row = row /\ pending'[w][n + 1].event = kind[w]
      BY <1>b, <3>1 DEF NewEntry
    <3>3. row \in Rows /\ row \notin done[w]
      BY <1>a, <1>b DEF RowsAreOwned
    <3>4. EntriesOf(w, row) = {}
      BY <1>a, <2>3, <3>3 DEF RowsAreLogged
    <3>5. \A r \in Rows : EntriesOf(w, r)' = IF r = row THEN {n + 1} ELSE EntriesOf(w, r)
      <4> SUFFICES ASSUME NEW r \in Rows
                   PROVE  EntriesOf(w, r)' = IF r = row THEN {n + 1} ELSE EntriesOf(w, r)
        OBVIOUS
      <4>1. DOMAIN pending[w] = 1..n
        BY <1>b
      <4>2. EntriesOf(w, r)' = {k \in 1..(n + 1) : pending'[w][k].row = r}
        BY <3>2 DEF EntriesOf
      <4>3. EntriesOf(w, r) = {k \in 1..n : pending'[w][k].row = r}
        BY <3>2, <4>1 DEF EntriesOf
      <4>4. CASE r = row
        BY <3>2, <3>4, <4>2, <4>3, <4>4
      <4>5. CASE r # row
        BY <3>2, <4>2, <4>3, <4>5
      <4> QED
        BY <4>4, <4>5
    <3>6. \A k \in DOMAIN pending'[w] :
            pending'[w][k].event = kind[w] /\ pending'[w][k].row \in Rows
      BY <1>a, <1>b, <2>3, <3>2, <3>3 DEF RowsAreLogged
    <3>7. \A r \in Rows : EntriesOf(w, r)' # {} <=> r \in done'[w]
      BY <1>a, <2>3, <3>1, <3>5 DEF RowsAreLogged
    <3>8. \A r \in Rows : \A k, l \in EntriesOf(w, r)' : k = l
      BY <1>a, <2>3, <3>5 DEF RowsAreLogged
    <3>9. pc'[w] = "commit" => todo'[w] = {}
      BY <3>1
    <3> QED
      BY <1>5, <2>1, <2>3, <3>1, <3>6, <3>7, <3>8, <3>9 DEF RowsAreLogged
  <2> QED
    BY <2>2, <2>3
<1>6. CASE u = w /\ (Commit(w) \/ Rollback(w))
  <2>1. End(w)
    BY <1>6 DEF Commit, Rollback
  <2>2. /\ pc'[w] = "idle" /\ kind'[w] = "record" /\ pending'[w] = <<>>
        /\ want'[w] = {} /\ todo'[w] = {} /\ done'[w] = {}
    BY <2>1, <1>b DEF End, TypeOK
  <2> QED
    BY <1>6, <2>2 DEF RowsAreLogged
<1> QED
  BY <1>0, <1>1, <1>2, <1>3, <1>4, <1>5, <1>6 DEF Step

(* A commit adds at most one verdict on a row, to a log without one.       *)
LEMMA RowsAgreeStep ==
  ASSUME TypeOK, \A u \in Writers : RowsAreOwned(u),
         \A u \in Writers : RowsAreLogged(u), RowsAgreeWithLog, [Next]_vars
  PROVE  RowsAgreeWithLog'
<1>1. CASE UNCHANGED <<open, log>>
  BY <1>1 DEF RowsAgreeWithLog, Closings
<1>2. CASE ~ UNCHANGED <<open, log>>
  <2>1. PICK w \in Writers : Commit(w)
    BY <1>2 DEF Next, Step, vars, BeginUpdate, BeginRecord, UpdateRow, CountRows,
                TakeLogLock, SelectTip, Insert, Rollback
  <2> SUFFICES ASSUME NEW r \in Rows
               PROVE  /\ r \in open' <=> Closings(r)' = {}
                      /\ \A k \in Closings(r)', l \in DOMAIN log' :
                           log'[l].row = r => l <= k
    BY DEF RowsAgreeWithLog
  <2> DEFINE n == Len(log)
             m == Len(pending[w])
  <2>2. log \in Seq(Entries) /\ pending[w] \in Seq(Entries) /\ None \notin Rows
    BY NoneAssumption DEF TypeOK
  <2>3. /\ n \in Nat /\ m \in Nat
        /\ DOMAIN log = 1..n /\ DOMAIN pending[w] = 1..m /\ DOMAIN log' = 1..(n + m)
        /\ \A k \in 1..n : log'[k] = log[k]
        /\ \A k \in 1..m : log'[n + k] = pending[w][k]
    <3>1. log' = log \o pending[w]
      BY <2>1 DEF Commit
    <3> QED
      BY <2>2, <3>1, ConcatAt, LenProperties
  <2>4. RowsAreOwned(w) /\ RowsAreLogged(w)
    OBVIOUS
  <2>5. /\ r \in open <=> Closings(r) = {}
        /\ \A k \in Closings(r), l \in 1..n : log[l].row = r => l <= k
    BY <2>3 DEF RowsAgreeWithLog
  <2>6. \A k \in 1..m : pending[w][k].event = kind[w]
    BY <2>3, <2>4 DEF RowsAreLogged
  <2>7. \A l \in 1..(n + m) : l \in 1..n \/ \E k \in 1..m : l = n + k
    <3>1. \A l \in 1..(n + m) : l \notin 1..n => l - n \in 1..m /\ l = n + (l - n)
      BY <2>3
    <3> QED
      BY <3>1
  <2>8. CASE EntriesOf(w, r) = {}
    <3>1. \A k \in 1..m : log'[n + k].row # r
      BY <2>3, <2>8 DEF EntriesOf
    <3>2. Closings(r)' = Closings(r)
      <4>1. Closings(r)' = {k \in 1..(n + m) : log'[k].row = r /\ log'[k].event = "close"}
        BY <2>3 DEF Closings
      <4>2. \A k \in 1..(n + m) : log'[k].row = r => k \in 1..n
        BY <2>7, <3>1
      <4>3. \A k \in 1..n : k \in 1..(n + m)
        BY <2>3
      <4>4. Closings(r)' = {k \in 1..n : log'[k].row = r /\ log'[k].event = "close"}
        BY <4>1, <4>2, <4>3
      <4> QED
        BY <2>3, <4>4 DEF Closings
    <3>3. r \in open' <=> r \in open
      <4>1. kind[w] = "close" => r \notin done[w]
        BY <2>4, <2>8 DEF RowsAreLogged
      <4> QED
        BY <2>1, <4>1 DEF Commit
    <3>4. \A l \in 1..(n + m) : log'[l].row = r => l \in 1..n /\ log[l].row = r
      BY <2>3, <2>7, <3>1
    <3> QED
      BY <2>3, <2>5, <3>2, <3>3, <3>4
  <2>9. CASE EntriesOf(w, r) # {}
    <3>1. kind[w] # "record" /\ r \in done[w]
      BY <2>2, <2>4, <2>9 DEF RowsAreLogged, EntriesOf
    <3>2. r \in open /\ Closings(r) = {}
      BY <2>4, <2>5, <3>1 DEF RowsAreOwned
    <3>3. PICK k \in 1..m : EntriesOf(w, r) = {k}
      BY <2>3, <2>4, <2>9, <3>1 DEF RowsAreLogged, EntriesOf
    <3>4. \A l \in 1..m : log'[n + l].row = r <=> l = k
      BY <2>3, <3>3 DEF EntriesOf
    <3>5. CASE kind[w] = "close"
      <4>1. r \notin open'
        BY <2>1, <3>1, <3>5 DEF Commit
      <4>2. \A l \in 1..(n + m) : log'[l].row = r => l \in 1..n \/ l = n + k
        <5> SUFFICES ASSUME NEW l \in 1..(n + m), log'[l].row = r, l \notin 1..n
                     PROVE  l = n + k
          OBVIOUS
        <5>1. PICK j \in 1..m : l = n + j
          BY <2>7
        <5> QED
          BY <3>4, <5>1
      <4>3. Closings(r)' = {n + k}
        <5>1. \A l \in 1..n : ~ (log'[l].row = r /\ log'[l].event = "close")
          BY <2>3, <3>2 DEF Closings
        <5>2. log'[n + k].row = r /\ log'[n + k].event = "close" /\ n + k \in 1..(n + m)
          BY <2>3, <2>6, <3>4, <3>5
        <5>3. \A l \in 1..(n + m) : log'[l].row = r /\ log'[l].event = "close" => l = n + k
          BY <4>2, <5>1
        <5> QED
          BY <2>3, <5>2, <5>3 DEF Closings
      <4>4. \A l \in 1..(n + m) : log'[l].row = r => l <= n + k
        <5>1. \A l \in 1..n : l <= n + k
          BY <2>3
        <5> QED
          BY <2>3, <4>2, <5>1
      <4> QED
        BY <2>3, <4>1, <4>3, <4>4
    <3>6. CASE kind[w] # "close"
      <4>1. r \in open'
        BY <2>1, <3>2, <3>6 DEF Commit
      <4>2. Closings(r)' = {}
        <5>1. \A l \in 1..n : ~ (log'[l].row = r /\ log'[l].event = "close")
          BY <2>3, <3>2 DEF Closings
        <5>2. \A l \in 1..m : log'[n + l].event # "close"
          BY <2>3, <2>6, <3>6
        <5> QED
          BY <2>3, <2>7, <5>1, <5>2 DEF Closings
      <4> QED
        BY <4>1, <4>2
    <3> QED
      BY <3>5, <3>6
  <2> QED
    BY <2>8, <2>9
<1> QED
  BY <1>1, <1>2

(* A connection that is not the sweep's changes a single row, and writes a *)
(* single entry.                                                           *)
LEMMA OneEntryStep ==
  ASSUME TypeOK, \A u \in Writers : LockOrder(u), \A u \in Writers : RowsAreLogged(u),
         \A u \in Writers : OneEntry(u), [Next]_vars
  PROVE  \A u \in Writers : OneEntry(u)'
<1> SUFFICES ASSUME NEW w \in Writers, Step(w), NEW u \in Writers
             PROVE  OneEntry(u)'
  <2>1. CASE UNCHANGED vars
    BY <2>1 DEF vars, OneEntry
  <2> QED
    BY <2>1 DEF Next
<1>a. LockOrder(u) /\ RowsAreLogged(u) /\ OneEntry(u)
  OBVIOUS
<1>b. None \notin Writers
  BY NoneAssumption
<1>c. pending[u] \in Seq(Entries) /\ Len(pending[u]) \in Nat
  BY DEF TypeOK
<1>0. CASE u # w
  BY <1>0, <1>a, LocalsAreLocal, LocksAreLocal DEF OneEntry
<1>1. CASE u = w /\ BeginUpdate(w)
  <2>1. kind'[w] # "record" /\ (kind'[w] = "extend" => w # Sweeper) /\ holder' = holder
    BY <1>1 DEF BeginUpdate, TypeOK
  <2> QED
    BY <1>1, <1>a, <2>1 DEF OneEntry
<1>2. CASE u = w /\ BeginRecord(w)
  <2>1. kind'[w] = "record" /\ pc'[w] = "lock" /\ holder' = holder /\ pending' = pending /\ w # Sweeper
    BY <1>2 DEF BeginRecord, TypeOK
  <2>2. Len(pending[w]) = 0
    BY <1>2, <1>a DEF BeginRecord, RowsAreLogged
  <2> QED
    BY <1>2, <1>a, <2>1, <2>2 DEF OneEntry
<1>3. ASSUME u = w, NEW r \in Rows, UpdateRow(w, r) PROVE OneEntry(u)'
  <2>1. pc' = pc /\ kind' = kind /\ pending' = pending /\ holder' = [holder EXCEPT ![r] = w] /\ r \in want[w]
    BY <1>3 DEF UpdateRow
  <2>2. w # Sweeper => \A q \in Rows : holder[q] # w
    BY <1>3, <1>a, <2>1 DEF LockOrder
  <2>3. w # Sweeper => \A q \in Rows : holder'[q] = w => q = r
    BY <2>1, <2>2 DEF TypeOK
  <2> QED
    BY <1>3, <1>a, <2>1, <2>3 DEF OneEntry
<1>4. CASE u = w /\ CountRows(w)
  <2>1. kind[w] # "record"
    BY <1>4, <1>a DEF CountRows, RowsAreLogged
  <2>2. kind' = kind /\ holder' = holder
    BY <1>4 DEF CountRows
  <2> QED
    BY <1>4, <1>a, <2>1, <2>2 DEF OneEntry
<1>5. CASE u = w /\ (TakeLogLock(w) \/ SelectTip(w))
  <2>1. pc[w] # "commit" /\ kind' = kind /\ holder' = holder /\ pending' = pending
    BY <1>5 DEF TakeLogLock, SelectTip
  <2>2. pc'[w] # "commit"
    BY <1>5 DEF TakeLogLock, SelectTip, TypeOK
  <2> QED
    BY <1>5, <1>a, <2>1, <2>2 DEF OneEntry
<1>6. CASE u = w /\ Insert(w)
  <2>1. pc[w] = "insert" /\ kind' = kind /\ holder' = holder
    BY <1>6 DEF Insert
  <2>2. CASE kind[w] # "record"
    BY <1>6, <1>a, <2>1, <2>2 DEF OneEntry
  <2>3. CASE kind[w] = "record"
    <3>1. pc'[w] = "commit" /\ pending' = [pending EXCEPT ![w] = Append(@, NewEntry(w, None))]
      BY <1>6, <2>3 DEF Insert, TypeOK
    <3>2. Len(pending[w]) = 0 /\ NewEntry(w, None) \in Entries
      BY <1>6, <1>a, <1>c, <2>1, <2>3, NewEntryType DEF OneEntry
    <3>3. pending'[w] = Append(pending[w], NewEntry(w, None))
      BY <3>1 DEF TypeOK
    <3>4. Len(pending'[w]) = 1
      BY <1>6, <1>c, <3>2, <3>3
    <3> QED
      BY <1>6, <1>a, <2>1, <2>3, <3>1, <3>4 DEF OneEntry
  <2> QED
    BY <2>2, <2>3
<1>7. CASE u = w /\ (Commit(w) \/ Rollback(w))
  <2>1. End(w)
    BY <1>7 DEF Commit, Rollback
  <2>2. kind'[w] = "record" /\ pc'[w] = "idle" /\ pending'[w] = <<>> /\ Len(<<>>) = 0
    BY <2>1 DEF End, TypeOK
  <2>3. \A r \in Rows : holder'[r] # w
    BY <2>1, <1>b DEF End
  <2> QED
    BY <1>7, <2>2, <2>3 DEF OneEntry
<1> QED
  BY <1>0, <1>1, <1>2, <1>3, <1>4, <1>5, <1>6, <1>7 DEF Step

-----------------------------------------------------------------------------
(***************************************************************************)
(* The theorems.                                                           *)
(***************************************************************************)
(* The invariant holds at first.                                           *)
LEMMA AuditInit == Init => AInv
<1> SUFFICES ASSUME Init PROVE AInv
  OBVIOUS
<1>1. TypeOK
  <2>1. /\ want \in [Writers -> SUBSET Rows] /\ todo \in [Writers -> SUBSET Rows]
        /\ done \in [Writers -> SUBSET Rows]
    BY DEF Init
  <2>2. log \in Seq(Entries) /\ pending \in [Writers -> Seq(Entries)]
    BY DEF Init
  <2> QED
    BY <2>1, <2>2, GenesisType DEF Init, TypeOK, PCs, Kinds
<1>2. ASSUME NEW w \in Writers PROVE ChainIsOwned(w)
  <2>1. Visible(w) = <<>>
    BY DEF Init, Visible
  <2> QED
    BY <2>1 DEF Init, ChainIsOwned, Chain
<1>3. ASSUME NEW w \in Writers PROVE LockOrder(w)
  BY NoneAssumption DEF Init, LockOrder
<1>4. ASSUME NEW w \in Writers PROVE RowsAreOwned(w) /\ RowsAreLogged(w)
  BY DEF Init, RowsAreOwned, RowsAreLogged
<1>5. ASSUME NEW w \in Writers PROVE OneEntry(w)
  BY NoneAssumption DEF Init, OneEntry
<1>6. RowsAgreeWithLog
  BY DEF Init, RowsAgreeWithLog, Closings
<1> QED
  BY <1>1, <1>2, <1>3, <1>4, <1>5, <1>6 DEF AInv

(* Every reachable state satisfies the invariant.                          *)
THEOREM AuditInvariant == Spec => []AInv
<1>1. AInv /\ [Next]_vars => AInv'
  BY TypeStep, ChainIsOwnedStep, LockOrderStep, RowsAreOwnedStep, RowsAreLoggedStep,
     OneEntryStep, RowsAgreeStep DEF AInv
<1> QED
  BY AuditInit, <1>1, PTL DEF Spec

(* The connections' and the log's state is always of its type.             *)
THEOREM AuditTypes == Spec => []TypeOK
BY AuditInvariant, PTL DEF AInv

(* The audit log is one unbroken chain with consecutive audit_ids, however *)
(* many connections append to it and whichever of them roll back: who      *)
(* reads its end holds pg_advisory_xact_lock until the commit.             *)
THEOREM ChainStaysIntact == Spec => []ChainIntact
<1>1. AInv => ChainIntact
  BY OwnedChainIsIntact DEF AInv
<1> QED
  BY AuditInvariant, <1>1, PTL

(* An incident awaiting a decision gets one verdict, and the table and the *)
(* log agree on it.                                                        *)
THEOREM OneVerdict == Spec => []RowsAgreeWithLog
BY AuditInvariant, PTL DEF AInv

(* Transactions of db.py never deadlock, however many decide and whatever  *)
(* the sweep finds: they take row locks first and the chain's lock last.   *)
THEOREM DeadlockFreedom == Spec => []NoDeadlock
<1>1. AInv => NoDeadlock
  BY LockOrderExcludesDeadlock DEF AInv
<1> QED
  BY AuditInvariant, <1>1, PTL
-----------------------------------------------------------------------------
(***************************************************************************)
(* Damage to an entry of an intact chain is found where it was done, or    *)
(* right after.                                                            *)
(***************************************************************************)
(* verify_chain reports the first broken entry.                            *)
LEMMA FirstBroken ==
  ASSUME NEW s \in Seq(Entries), NEW k \in 1..Len(s), s[k].id = k,
         ~ Linked(s, k) \/ Recomputed(s, k) # s[k].hash,
         \A l \in 1..Len(s) : l < k => Linked(s, l) /\ Recomputed(s, l) = s[l].hash
  PROVE  VerifyChain(s) = k
<1> DEFINE broken == {l \in DOMAIN s : ~ Linked(s, l) \/ Recomputed(s, l) # s[l].hash}
           IsFirst(j) == \A l \in broken : j <= l
<1>1. DOMAIN s = 1..Len(s)
  OBVIOUS
<1>2. k \in broken /\ IsFirst(k)
  BY <1>1
<1>3. \A j \in broken : IsFirst(j) => j = k
  BY <1>1, <1>2
<1>4. broken # {} /\ (CHOOSE j \in broken : IsFirst(j)) = k
  <2> HIDE DEF broken, IsFirst
  <2> QED
    BY <1>2, <1>3
<1> QED
  BY <1>4 DEF VerifyChain

(* And nothing of a chain without one.                                     *)
LEMMA NoneBroken ==
  ASSUME NEW s \in Seq(Entries),
         \A l \in 1..Len(s) : Linked(s, l) /\ Recomputed(s, l) = s[l].hash
  PROVE  VerifyChain(s) = None
BY DEF VerifyChain

(* The hash tells apart the contents it commits to.                        *)
LEMMA HashCommits ==
  ASSUME NEW prev \in Hashes, NEW id \in Nat, NEW event \in Kinds,
         NEW row \in Rows \cup {None}, NEW other \in Rows \cup {None}, row # other
  PROVE  HashEntry(prev, id, event, row) # HashEntry(prev, id, event, other)
<1>1. Content(id, event, row) # Content(id, event, other)
  BY DEF Content
<1>2. Content(id, event, row) \in Contents /\ Content(id, event, other) \in Contents
  BY DEF Content, Contents
<1>3. \A s \in Seq(Contents), a, b \in Contents : Append(s, a) = Append(s, b) => a = b
  <2> TAKE s \in Seq(Contents), a \in Contents, b \in Contents
  <2>1. Append(s, a)[Len(s) + 1] = a /\ Append(s, b)[Len(s) + 1] = b
    OBVIOUS
  <2> QED
    BY <2>1
<1> QED
  BY <1>1, <1>2, <1>3 DEF HashEntry, Hashes

(* Every entry of an intact log, and every other row put into it.          *)
LEMMA DamageInChain ==
  ASSUME TypeOK, ChainIntact
  PROVE  DamageIsFound
<1> SUFFICES ASSUME NEW k \in DOMAIN log, NEW row \in Rows \cup {None}, row # log[k].row
             PROVE  LET damaged == [log EXCEPT ![k].row = row]
                        rehashed == [damaged EXCEPT ![k].hash = Recomputed(damaged, k)] IN
                      /\ VerifyChain(damaged) = k
                      /\ VerifyChain(rehashed) = IF k < Len(log) THEN k + 1 ELSE None
  BY DEF DamageIsFound
<1> DEFINE damaged == [log EXCEPT ![k].row = row]
           rehashed == [damaged EXCEPT ![k].hash = Recomputed(damaged, k)]
<1>1. /\ log \in Seq(Entries) /\ k \in 1..Len(log) /\ DOMAIN log = 1..Len(log)
      /\ \A l \in 1..Len(log) : log[l] \in Entries
  BY DEF TypeOK
<1>2. \A l \in 1..Len(log) :
        log[l].id = l /\ Linked(log, l) /\ log[l].hash = Recomputed(log, l)
  BY <1>1 DEF ChainIntact
<1>3. /\ damaged[k] = [log[k] EXCEPT !.row = row] /\ damaged[k] \in Entries
      /\ \A l \in 1..Len(log) : l # k => damaged[l] = log[l]
  BY <1>1 DEF Entries
<1>4. damaged \in Seq(Entries) /\ Len(damaged) = Len(log)
  BY <1>1, <1>3
<1>5. Recomputed(damaged, k) # log[k].hash /\ Recomputed(damaged, k) \in Hashes
  <2>1. /\ damaged[k].prev = log[k].prev /\ damaged[k].id = log[k].id
        /\ damaged[k].event = log[k].event /\ damaged[k].row = row
    BY <1>1, <1>3 DEF Entries
  <2>2. /\ log[k].prev \in Hashes /\ log[k].id \in Nat /\ log[k].event \in Kinds
        /\ log[k].row \in Rows \cup {None}
    BY <1>1 DEF Entries
  <2> HIDE DEF damaged
  <2>3. Recomputed(damaged, k) = HashEntry(log[k].prev, log[k].id, log[k].event, row)
    BY <2>1 DEF Recomputed
  <2>4. log[k].hash = HashEntry(log[k].prev, log[k].id, log[k].event, log[k].row)
    BY <1>1, <1>2 DEF Recomputed
  <2> QED
    BY <2>2, <2>3, <2>4, HashCommits, HashType
<1>6. /\ rehashed[k] = [damaged[k] EXCEPT !.hash = Recomputed(damaged, k)]
      /\ rehashed[k] \in Entries
      /\ \A l \in 1..Len(log) : l # k => rehashed[l] = log[l]
  <2> DEFINE hash == Recomputed(damaged, k)
  <2> HIDE DEF damaged
  <2>1. DOMAIN damaged = 1..Len(log) /\ k \in DOMAIN damaged
    BY <1>1, <1>4
  <2>2. hash \in Hashes
    BY <1>5
  <2> HIDE DEF hash
  <2>3. rehashed = [damaged EXCEPT ![k].hash = hash]
    BY DEF hash
  <2>4. rehashed[k] = [damaged[k] EXCEPT !.hash = hash]
    BY <2>1, <2>3
  <2> HIDE DEF rehashed
  <2>5. rehashed[k] \in Entries
    BY <1>3, <2>2, <2>4 DEF Entries
  <2>6. ASSUME NEW l \in 1..Len(log), l # k PROVE rehashed[l] = log[l]
    BY <1>3, <2>1, <2>3, <2>6
  <2> QED
    BY <2>4, <2>5, <2>6 DEF hash
<1>7. rehashed \in Seq(Entries) /\ Len(rehashed) = Len(log)
  <2> HIDE DEF damaged
  <2> QED
    BY <1>1, <1>4, <1>5, <1>6
<1>8. /\ damaged[k].id = k /\ damaged[k].hash = log[k].hash
      /\ damaged[k].prev = log[k].prev
      /\ rehashed[k].id = k /\ rehashed[k].hash = Recomputed(damaged, k)
      /\ rehashed[k].prev = log[k].prev
      /\ Recomputed(rehashed, k) = Recomputed(damaged, k)
  <2>1. /\ damaged[k].id = k /\ damaged[k].hash = log[k].hash
        /\ damaged[k].prev = log[k].prev
    BY <1>1, <1>2, <1>3 DEF Entries
  <2> HIDE DEF damaged, rehashed
  <2>2. /\ rehashed[k].id = damaged[k].id /\ rehashed[k].prev = damaged[k].prev
        /\ rehashed[k].event = damaged[k].event /\ rehashed[k].row = damaged[k].row
        /\ rehashed[k].hash = Recomputed(damaged, k)
    BY <1>3, <1>6 DEF Entries
  <2> QED
    BY <2>1, <2>2 DEF Recomputed
<1> HIDE DEF damaged, rehashed
<1>9. VerifyChain(damaged) = k
  <2>1. Recomputed(damaged, k) # damaged[k].hash
    BY <1>5, <1>8
  <2>2. ASSUME NEW l \in 1..Len(log), l < k
        PROVE  Linked(damaged, l) /\ Recomputed(damaged, l) = damaged[l].hash
    <3>1. damaged[l] = log[l] /\ (l # 1 => damaged[l - 1] = log[l - 1])
      BY <1>1, <1>3, <2>2
    <3> QED
      BY <1>2, <2>2, <3>1 DEF Linked, ExpectedPrev, Recomputed
  <2> QED
    BY <1>1, <1>4, <1>8, <2>1, <2>2, FirstBroken
<1>10. ASSUME NEW l \in 1..Len(log), l # k + 1
       PROVE  Linked(rehashed, l) /\ Recomputed(rehashed, l) = rehashed[l].hash
  <2>1. l # 1 => rehashed[l - 1] = log[l - 1]
    BY <1>1, <1>6, <1>10
  <2>2. CASE l = k
    BY <1>1, <1>2, <1>8, <2>1, <2>2 DEF Linked, ExpectedPrev
  <2>3. CASE l # k
    <3>1. rehashed[l] = log[l]
      BY <1>6, <2>3
    <3> QED
      BY <1>2, <2>1, <3>1 DEF Linked, ExpectedPrev, Recomputed
  <2> QED
    BY <2>2, <2>3
<1>11. CASE k < Len(log)
  <2>1. k + 1 \in 1..Len(log) /\ k + 1 # k /\ k + 1 # 1 /\ (k + 1) - 1 = k
    BY <1>1, <1>11
  <2>2. rehashed[k + 1] = log[k + 1]
    BY <1>6, <2>1
  <2>3. rehashed[k + 1].id = k + 1 /\ rehashed[k + 1].prev = log[k].hash
    BY <1>2, <2>1, <2>2 DEF Linked, ExpectedPrev
  <2>4. ~ Linked(rehashed, k + 1)
    BY <1>5, <1>8, <2>1, <2>3 DEF Linked, ExpectedPrev
  <2>5. VerifyChain(rehashed) = k + 1
    <3>1. \A l \in 1..Len(rehashed) :
            l < k + 1 => Linked(rehashed, l) /\ Recomputed(rehashed, l) = rehashed[l].hash
      BY <1>1, <1>7, <1>10
    <3> QED
      BY <1>7, <2>1, <2>3, <2>4, <3>1, FirstBroken
  <2> QED
    BY <1>9, <1>11, <2>5 DEF damaged, rehashed
<1>12. CASE ~ k < Len(log)
  <2>1. \A l \in 1..Len(rehashed) :
          Linked(rehashed, l) /\ Recomputed(rehashed, l) = rehashed[l].hash
    BY <1>1, <1>7, <1>10, <1>12
  <2>2. VerifyChain(rehashed) = None
    BY <1>7, <2>1, NoneBroken
  <2> QED
    BY <1>9, <1>12, <2>2 DEF damaged, rehashed
<1> QED
  BY <1>11, <1>12

(* Whatever transactions were interleaved, an entry that loses its         *)
(* contents afterwards is the one verify_chain names, and with its hash    *)
(* recomputed too the next one is: only the last entry of the log can be   *)
(* replaced unseen.                                                        *)
THEOREM DamageFound == Spec => []DamageIsFound
<1>1. TypeOK /\ ChainIntact => DamageIsFound
  BY DamageInChain
<1> QED
  BY AuditTypes, ChainStaysIntact, <1>1, PTL

-----------------------------------------------------------------------------
(* What the log says happened, and of which row.                           *)
Story(s) == [k \in DOMAIN s |-> [event |-> s[k].event, row |-> s[k].row]]

LEMMA StoryOfConcat ==
  ASSUME NEW s \in Seq(Entries), NEW t \in Seq(Entries)
  PROVE  /\ Story(s) \in Seq([event : Kinds, row : Rows \cup {None}])
         /\ Len(Story(s)) = Len(s)
         /\ Story(s \o t) = Story(s) \o Story(t)
<1> DEFINE T == [event : Kinds, row : Rows \cup {None}]
<1>1. ASSUME NEW x \in Seq(Entries)
      PROVE  /\ Story(x) \in Seq(T) /\ Len(Story(x)) = Len(x)
             /\ \A k \in 1..Len(x) : Story(x)[k] = [event |-> x[k].event, row |-> x[k].row]
  <2>1. Len(x) \in Nat /\ DOMAIN x = 1..Len(x) /\ \A k \in 1..Len(x) : x[k] \in Entries
    OBVIOUS
  <2>2. \A k \in 1..Len(x) : [event |-> x[k].event, row |-> x[k].row] \in T
    BY <2>1 DEF Entries
  <2> HIDE DEF T
  <2>3. Story(x) \in [1..Len(x) -> T]
    BY <2>1, <2>2 DEF Story
  <2> QED
    BY <2>1, <2>3 DEF Story
<1> HIDE DEF T
<1>2. s \o t \in Seq(Entries) /\ Len(s \o t) = Len(s) + Len(t)
  BY ConcatAt
<1>3. /\ Story(s) \o Story(t) \in Seq(T) /\ Len(Story(s) \o Story(t)) = Len(s) + Len(t)
      /\ \A k \in 1..Len(s) : (Story(s) \o Story(t))[k] = Story(s)[k]
      /\ \A k \in 1..Len(t) : (Story(s) \o Story(t))[Len(s) + k] = Story(t)[k]
  <2>1. PICK a \in Seq(T), b \in Seq(T) : a = Story(s) /\ b = Story(t)
    BY <1>1
  <2>2. /\ a \o b \in Seq(T) /\ Len(a \o b) = Len(a) + Len(b)
        /\ \A k \in 1..Len(a) : (a \o b)[k] = a[k]
        /\ \A k \in 1..Len(b) : (a \o b)[Len(a) + k] = b[k]
    BY ConcatProperties
  <2> QED
    BY <1>1, <2>1, <2>2
<1>4. ASSUME NEW k \in 1..(Len(s) + Len(t))
      PROVE  Story(s \o t)[k] = (Story(s) \o Story(t))[k]
  <2>1. Story(s \o t)[k] = [event |-> (s \o t)[k].event, row |-> (s \o t)[k].row]
    BY <1>1, <1>2
  <2>2. CASE k \in 1..Len(s)
    BY <1>1, <1>3, <2>1, <2>2, ConcatAt
  <2>3. CASE k \notin 1..Len(s)
    <3>1. PICK j \in 1..Len(t) : k = Len(s) + j
      <4>1. k - Len(s) \in 1..Len(t) /\ k = Len(s) + (k - Len(s))
        BY <2>3, LenProperties
      <4> QED
        BY <4>1
    <3>2. (s \o t)[k] = t[j]
      BY <3>1, ConcatAt
    <3> QED
      BY <1>1, <1>3, <2>1, <3>1, <3>2
  <2> QED
    BY <2>2, <2>3
<1>5. Story(s \o t) = Story(s) \o Story(t)
  <2>1. PICK a \in Seq(T), b \in Seq(T) : a = Story(s \o t) /\ b = Story(s) \o Story(t)
    BY <1>1, <1>2, <1>3
  <2>2. Len(a) = Len(b) /\ \A k \in 1..Len(a) : a[k] = b[k]
    BY <1>1, <1>2, <1>3, <1>4, <2>1
  <2>3. a = b
    BY <2>2, SeqEqual
  <2> QED
    BY <2>1, <2>3
<1> QED
  BY <1>1, <1>5 DEF T

(* The rows a committing transaction has written entries for, in order.    *)
RowsInOrder(w) == [k \in 1..Len(pending[w]) |-> pending[w][k].row]

(* A commit appends one entry for each row the transaction changed, and    *)
(* these rows are still open.                                              *)
LEMMA CommitIsVerdicts ==
  ASSUME AInv, NEW w \in Writers, Commit(w), kind[w] = "close"
  PROVE  LET rs == RowsInOrder(w)
             m == Len(pending[w])
         IN /\ rs \in [1..m -> Rows] /\ DOMAIN rs = 1..m
            /\ \A k \in 1..m : rs[k] \in open
            /\ \A k, l \in 1..m : rs[k] = rs[l] => k = l
            /\ open' = open \ {rs[k] : k \in 1..m}
            /\ Story(pending[w]) = [k \in 1..m |-> [event |-> "close", row |-> rs[k]]]
<1> DEFINE rs == RowsInOrder(w)
           m == Len(pending[w])
<1>1. /\ pending[w] \in Seq(Entries) /\ m \in Nat /\ DOMAIN pending[w] = 1..m
      /\ RowsAreOwned(w) /\ RowsAreLogged(w) /\ done[w] \subseteq Rows
  BY DEF AInv, TypeOK
<1>2. /\ \A k \in 1..m : pending[w][k].event = "close" /\ pending[w][k].row \in Rows
      /\ \A r \in Rows : EntriesOf(w, r) # {} <=> r \in done[w]
      /\ \A r \in Rows : \A k, l \in EntriesOf(w, r) : k = l
  BY <1>1 DEF RowsAreLogged
<1>3. \A k \in 1..m : rs[k] = pending[w][k].row
  BY DEF RowsInOrder
<1>4. rs \in [1..m -> Rows] /\ DOMAIN rs = 1..m
  BY <1>2 DEF RowsInOrder
<1>5. \A k \in 1..m : k \in EntriesOf(w, rs[k]) /\ rs[k] \in Rows
  BY <1>1, <1>2, <1>3 DEF EntriesOf
<1>6. \A r \in Rows : \A k \in EntriesOf(w, r) : k \in 1..m /\ rs[k] = r
  BY <1>1, <1>3 DEF EntriesOf
<1>7. done[w] = {rs[k] : k \in 1..m}
  BY <1>1, <1>2, <1>5, <1>6
<1>8. open' = open \ done[w] /\ \A r \in done[w] : r \in open
  BY <1>1 DEF Commit, RowsAreOwned
<1>9. \A k, l \in 1..m : rs[k] = rs[l] => k = l
  BY <1>2, <1>5
<1>10. Story(pending[w]) = [k \in 1..m |-> [event |-> "close", row |-> rs[k]]]
  BY <1>1, <1>2, <1>3 DEF Story
<1> HIDE DEF rs
<1> QED
  BY <1>4, <1>7, <1>8, <1>9, <1>10 DEF rs

(* What is no sweep or decision writes one entry at most.                  *)
LEMMA OneEntryAtMost ==
  ASSUME AInv, NEW w \in Writers, Commit(w), kind[w] # "close"
  PROVE  Len(pending[w]) = 0 \/ Len(pending[w]) = 1
<1>1. /\ pending[w] \in Seq(Entries) /\ Len(pending[w]) \in Nat /\ DOMAIN pending[w] = 1..Len(pending[w])
      /\ kind[w] \in {"extend", "record"} /\ done[w] \subseteq Rows
      /\ RowsAreOwned(w) /\ RowsAreLogged(w) /\ OneEntry(w)
  BY DEF AInv, TypeOK, Kinds
<1>m. PICK m \in Nat : m = Len(pending[w])
  BY <1>1
<1>2. CASE kind[w] = "record"
  <2>1. Len(pending[w]) <= 1
    BY <1>1, <1>2 DEF OneEntry, Commit
  <2>2. m <= 1
    BY <1>m, <2>1
  <2>3. m = 0 \/ m = 1
    BY <2>2
  <2> QED
    BY <1>m, <2>3
<1>3. CASE kind[w] = "extend"
  <2>1. \A r, q \in done[w] : r = q
    BY <1>1, <1>3 DEF OneEntry, RowsAreOwned
  <2>2. \A k \in 1..Len(pending[w]) : k \in EntriesOf(w, pending[w][k].row) /\ pending[w][k].row \in done[w]
    BY <1>1, <1>3 DEF RowsAreLogged, EntriesOf
  <2>3. \A k, l \in 1..Len(pending[w]) : k = l
    BY <1>1, <1>3, <2>1, <2>2 DEF RowsAreLogged
  <2>4. Len(pending[w]) > 1 => 1 \in 1..Len(pending[w]) /\ 2 \in 1..Len(pending[w])
    BY <1>1
  <2>5. ~ (Len(pending[w]) > 1)
    BY <2>3, <2>4
  <2>6. ~ (m > 1)
    BY <1>m, <2>5
  <2>7. m = 0 \/ m = 1
    BY <2>6
  <2> QED
    BY <1>m, <2>7
<1> QED
  BY <1>1, <1>2, <1>3

(* The commit is the transaction's one step, every other a stutter.        *)
LEMMA CommitStep ==
  ASSUME AInv, NEW w \in Writers, Commit(w)
  PROVE  Atomic!Next \/ (open' = open /\ Story(log)' = Story(log))
<1> DEFINE m == Len(pending[w])
           rs == RowsInOrder(w)
<1>0. /\ log \in Seq(Entries) /\ pending[w] \in Seq(Entries) /\ m \in Nat
      /\ DOMAIN pending[w] = 1..m /\ log' = log \o pending[w]
      /\ open' = IF kind[w] = "close" THEN open \ done[w] ELSE open
      /\ kind[w] \in Kinds
  BY DEF AInv, TypeOK, Commit
<1>1. Story(log)' = Story(log) \o Story(pending[w])
  <2>1. PICK s \in Seq(Entries) : s = pending[w]
    BY <1>0
  <2>2. PICK l \in Seq(Entries) : l = log
    BY <1>0
  <2>3. Story(l \o s) = Story(l) \o Story(s)
    BY StoryOfConcat
  <2>4. Story(log)' = Story(log')
    BY DEF Story
  <2> QED
    BY <1>0, <2>1, <2>2, <2>3, <2>4
<1>2. CASE m = 0
  <2>1. pending[w] = <<>>
    BY <1>0, <1>2
  <2>2. log' = log
    BY <1>0, <2>1
  <2>3. open' = open
    <3>1. CASE kind[w] = "close"
      <4>1. {rs[k] : k \in 1..m} = {}
        BY <1>2
      <4> QED
        BY <3>1, <4>1, CommitIsVerdicts
    <3> QED
      BY <1>0, <3>1
  <2> QED
    BY <2>2, <2>3 DEF Story
<1>3. CASE m # 0 /\ kind[w] = "close"
  <2>1. /\ rs \in [1..m -> Rows] /\ DOMAIN rs = 1..m
        /\ \A k \in 1..m : rs[k] \in open
        /\ \A k, l \in 1..m : rs[k] = rs[l] => k = l
        /\ open' = open \ {rs[k] : k \in 1..m}
        /\ Story(pending[w]) = [k \in 1..m |-> [event |-> "close", row |-> rs[k]]]
    BY <1>3, CommitIsVerdicts
  <2>2. m <= Cardinality(Rows)
    <3>1. IsFiniteSet(1..m) /\ Cardinality(1..m) = m /\ IsFiniteSet(Rows)
      BY <1>0, FS_Interval, RowsAssumption
    <3>2. \E f \in [1..m -> Rows] : IsInjective(f)
      BY <2>1 DEF IsInjective
    <3>3. \A f \in [1..m -> Rows] : IsInjective(f) => f \in Injection(1..m, Rows)
      BY DEF Injection
    <3> QED
      BY <3>1, <3>2, <3>3, FS_Injection DEF ExistsInjection
  <2>3. m \in 1..Cardinality(Rows)
    BY <1>0, <1>3, <2>2, RowsAssumption, FS_CardinalityType
  <2>4. PICK n \in 1..Cardinality(Rows) : n = m
    BY <2>3
  <2>5. PICK list \in [1..n -> Rows] : list = rs
    BY <2>1, <2>4
  <2>6. Atomic!Close(list)
    <3>1. DOMAIN list = 1..n
      BY <2>5
    <3>2. /\ \A k \in 1..n : list[k] \in open
          /\ \A k, l \in 1..n : list[k] = list[l] => k = l
          /\ open' = open \ {list[k] : k \in 1..n}
          /\ Story(pending[w]) = [k \in 1..n |-> [event |-> "close", row |-> list[k]]]
      BY <2>1, <2>4, <2>5
    <3>3. Story(log)' = Story(log) \o [k \in 1..n |-> [event |-> "close", row |-> list[k]]]
      BY <1>1, <3>2
    <3> HIDE DEF rs, m
    <3> QED
      BY <3>1, <3>2, <3>3 DEF Atomic!Close, Story
  <2> QED
    <3>1. Atomic!Cardinality(Rows) = Cardinality(Rows)
      BY DEF Atomic!Cardinality, Cardinality
    <3>2. \E k \in 1..Cardinality(Rows) : \E rows \in [1..k -> Rows] : Atomic!Close(rows)
      BY <2>4, <2>5, <2>6
    <3> QED
      BY <3>1, <3>2 DEF Atomic!Next
<1>4. CASE m # 0 /\ kind[w] # "close"
  <2>1. m = 1 /\ open' = open
    BY <1>0, <1>4, OneEntryAtMost
  <2> DEFINE e == [event |-> pending[w][1].event, row |-> pending[w][1].row]
  <2>2. Story(pending[w]) = <<e>>
    BY <1>0, <2>1 DEF Story
  <2>3. Story(log)' = Append(Story(log), e)
    BY <1>1, <2>2
  <2>4. pending[w][1].event = kind[w] /\ 1 \in DOMAIN pending[w] /\ RowsAreLogged(w) /\ RowsAreOwned(w)
    BY <1>0, <2>1 DEF RowsAreLogged, AInv
  <2>5. CASE kind[w] = "record"
    <3>1. e = [event |-> "record", row |-> None]
      BY <2>4, <2>5 DEF RowsAreLogged
    <3> QED
      BY <2>1, <2>3, <3>1 DEF Atomic!Next, Atomic!Record, Story
  <2>6. CASE kind[w] = "extend"
    <3>1. PICK r \in Rows : r = pending[w][1].row
      BY <2>4, <2>6 DEF RowsAreLogged
    <3>2. r \in open
      BY <2>4, <2>6, <3>1 DEF RowsAreLogged, RowsAreOwned, EntriesOf
    <3>3. e = [event |-> "extend", row |-> r]
      BY <2>4, <2>6, <3>1
    <3> QED
      BY <2>1, <2>3, <3>2, <3>3 DEF Atomic!Next, Atomic!Extend, Story
  <2> QED
    BY <1>0, <1>4, <2>5, <2>6 DEF Kinds
<1> QED
  BY <1>2, <1>3, <1>4

(* Seen from its callers, db.py is a store whose transactions are single   *)
(* steps: the grain at which the orchestrator is modelled.                 *)
THEOREM TransactionsAreAtomic == Spec => ImplementsAtomicAudit
<1>1. Init => Atomic!Init
  BY DEF Init, Atomic!Init
<1>2. AInv /\ [Next]_vars => [Atomic!Next]_<<open, Story(log)>>
  <2> SUFFICES ASSUME AInv, [Next]_vars
               PROVE  Atomic!Next \/ (open' = open /\ Story(log)' = Story(log))
    OBVIOUS
  <2>1. ASSUME NEW w \in Writers, Commit(w)
        PROVE  Atomic!Next \/ (open' = open /\ Story(log)' = Story(log))
    BY <2>1, CommitStep
  <2>2. CASE UNCHANGED <<open, log>>
    BY <2>2 DEF Story
  <2>3. UNCHANGED <<open, log>> \/ \E w \in Writers : Commit(w)
    BY DEF Next, Step, vars, BeginUpdate, BeginRecord, UpdateRow, CountRows,
           TakeLogLock, SelectTip, Insert, Rollback
  <2> QED
    BY <2>1, <2>2, <2>3
<1>3. Spec => [][Atomic!Next]_<<open, Story(log)>>
  BY <1>2, AuditInvariant, PTL DEF Spec
<1> QED
  BY <1>1, <1>3, PTL DEF Spec, ImplementsAtomicAudit, Atomic!Spec, Story
=============================================================================
