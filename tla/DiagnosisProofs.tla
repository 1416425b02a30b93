-------------------------- MODULE DiagnosisProofs --------------------------
(***************************************************************************)
(* What the diagnosis service promises of its answers, and what the        *)
(* dataset of past anomalies it learns from promises its reader.           *)
(*                                                                         *)
(* The answers: whatever the graph, the records and the replies of the     *)
(* models, each hypothesis stands on what was read.  The argument goes     *)
(* along the pipeline: the scorer's candidates are in a total order, what  *)
(* an option of the prompt allows the records call for, and neither        *)
(* validation, nor the sorts, nor the guardrail let anything else through. *)
(* The invariant of the service then says of each request what holds of    *)
(* it where it is.                                                         *)
(*                                                                         *)
(* The dataset: what its reader takes for unchanged it has read, an        *)
(* argument about modification times alone; and what a row confirmed of an *)
(* injected fault no later export takes back.                              *)
(***************************************************************************)
EXTENDS DiagnosisService, AnomalyDataset, FiniteSetTheorems, WellFoundedInduction, TLAPS

-----------------------------------------------------------------------------
LEMMA LeastNatural ==
  ASSUME NEW S \in SUBSET Nat, S # {}
  PROVE  \E m \in S : \A n \in S : m <= n
<1>1. PICK m \in S : \A n \in S : <<n, m>> \notin OpToRel(<, Nat)
  BY WFMin, NatLessThanWellFounded, Zenon
<1>2. \A n \in S : <<n, m>> \in Nat \X Nat => ~ (n < m)
  BY <1>1, Zenon DEF OpToRel
<1>3. \A n \in S : <<n, m>> \in Nat \X Nat
  OBVIOUS
<1>4. \A n \in S : ~ (n < m)
  BY <1>2, <1>3, Zenon
<1>5. \A n \in S : n \in Nat /\ m \in Nat
  OBVIOUS
<1> QED BY <1>4, <1>5

-----------------------------------------------------------------------------
(* Sorting *)

TotalOrder(S, before) ==
  /\ \A x \in S : <<x, x>> \notin before
  /\ \A x, y, z \in S : <<x, y>> \in before /\ <<y, z>> \in before => <<x, z>> \in before
  /\ \A x, y \in S : x # y => <<x, y>> \in before \/ <<y, x>> \in before

Below(x, S, before) == {y \in S : <<y, x>> \in before}

\* Each element has a place of its own: the number of those below it.
LEMMA Places ==
  ASSUME NEW S, IsFiniteSet(S), NEW before, TotalOrder(S, before)
  PROVE  /\ \A x \in S : /\ Cardinality(Below(x, S, before)) \in Nat
                         /\ Cardinality(Below(x, S, before)) < Cardinality(S)
         /\ \A x, y \in S : <<x, y>> \in before =>
              Cardinality(Below(x, S, before)) < Cardinality(Below(y, S, before))
<1>1. \A x \in S : /\ Below(x, S, before) \in SUBSET S
                   /\ x \notin Below(x, S, before)
  BY DEF Below, TotalOrder
<1>2. ASSUME NEW T \in SUBSET S, NEW U \in SUBSET T, U # T
      PROVE  /\ Cardinality(U) \in Nat /\ Cardinality(T) \in Nat
             /\ Cardinality(U) < Cardinality(T)
  <2>1. IsFiniteSet(T) /\ IsFiniteSet(U)
    BY FS_Subset
  <2>2. Cardinality(U) <= Cardinality(T) /\ (Cardinality(T) = Cardinality(U) => T = U)
    BY <2>1, FS_Subset
  <2>3. Cardinality(U) \in Nat /\ Cardinality(T) \in Nat
    BY <2>1, FS_CardinalityType
  <2> QED BY <1>2, <2>2, <2>3
<1>3. \A x \in S : /\ Cardinality(Below(x, S, before)) \in Nat
                   /\ Cardinality(Below(x, S, before)) < Cardinality(S)
  BY <1>1, <1>2
<1>4. ASSUME NEW x \in S, NEW y \in S, <<x, y>> \in before
      PROVE  Cardinality(Below(x, S, before)) < Cardinality(Below(y, S, before))
  <2>1. Below(x, S, before) \subseteq Below(y, S, before)
    BY <1>4 DEF Below, TotalOrder
  <2>2. x \in Below(y, S, before) /\ x \notin Below(x, S, before)
    BY <1>1, <1>4 DEF Below
  <2> QED BY <1>1, <1>2, <2>1, <2>2
<1> QED BY <1>3, <1>4

\* Sorting a finite set by a total order: the places are all taken, so that
\* the sequence has every element once, each after those below it.
LEMMA FunctionLength ==
  ASSUME NEW f, NEW n \in Nat, DOMAIN f = 1..n, f = [k \in 1..n |-> f[k]]
  PROVE  Len(f) = n
<1> DEFINE T == {f[k] : k \in 1..n}
<1>1. f \in [1..n -> T]
  OBVIOUS
<1>2. f \in Seq(T)
  BY <1>1
<1> QED BY <1>2

LEMMA Sorted ==
  ASSUME NEW S, IsFiniteSet(S), NEW before, TotalOrder(S, before)
  PROVE  /\ Cardinality(S) \in Nat
         /\ DOMAIN InOrder(S, before) = 1..Cardinality(S)
         /\ Len(InOrder(S, before)) = Cardinality(S)
         /\ \A k \in 1..Cardinality(S) : InOrder(S, before)[k] \in S
         /\ \A k, l \in 1..Cardinality(S) :
              k < l => <<InOrder(S, before)[k], InOrder(S, before)[l]>> \in before
<1> DEFINE n == Cardinality(S)
           place == [x \in S |-> Cardinality(Below(x, S, before))]
           o == InOrder(S, before)
<1>1. n \in Nat
  BY FS_CardinalityType
<1>2. IsFiniteSet(0..n - 1) /\ Cardinality(0..n - 1) = n
  BY <1>1, FS_Interval
<1>3. place \in Injection(S, 0..n - 1)
  <2>1. place \in [S -> 0..n - 1]
    BY <1>1, Places
  <2>2. ASSUME NEW x \in S, NEW y \in S, x # y PROVE place[x] # place[y]
    <3>1. place[x] \in Nat /\ place[y] \in Nat
      BY Places
    <3>2. <<x, y>> \in before \/ <<y, x>> \in before
      BY <2>2 DEF TotalOrder
    <3>3. <<x, y>> \in before => place[x] < place[y]
      BY Places
    <3>4. <<y, x>> \in before => place[y] < place[x]
      BY Places
    <3> HIDE DEF place
    <3> QED BY <3>1, <3>2, <3>3, <3>4
  <2> QED BY <2>1, <2>2 DEF Injection, IsInjective
<1>4. place \in Surjection(S, 0..n - 1)
  BY <1>2, <1>3, FS_Injection
<1>5. ASSUME NEW k \in 1..n PROVE o[k] \in S /\ place[o[k]] = k - 1
  <2>1. \E x \in S : place[x] = k - 1
    <3>1. k - 1 \in 0..n - 1
      BY <1>1
    <3> HIDE DEF place
    <3> QED BY <3>1, <1>4 DEF Surjection
  <2>2. o[k] = CHOOSE x \in S : Cardinality({y \in S : <<y, x>> \in before}) = k - 1
    BY DEF InOrder
  <2>3. o[k] = CHOOSE x \in S : place[x] = k - 1
    BY <2>2 DEF Below
  <2> HIDE DEF place, o
  <2> QED BY <2>1, <2>3
<1>6. DOMAIN o = 1..n
  BY DEF InOrder
<1>7. ASSUME NEW k \in 1..n, NEW l \in 1..n, k < l PROVE <<o[k], o[l]>> \in before
  <2>1. o[k] \in S /\ o[l] \in S /\ place[o[k]] = k - 1 /\ place[o[l]] = l - 1
    BY <1>5
  <2>2. <<o[l], o[k]>> \in before => place[o[l]] < place[o[k]]
    BY <2>1, Places
  <2> HIDE DEF place, o
  <2>3. o[l] # o[k] /\ <<o[l], o[k]>> \notin before
    BY <1>1, <1>7, <2>1, <2>2
  <2> QED BY <2>1, <2>3 DEF TotalOrder
<1>8. Len(o) = n
  BY <1>1, <1>6, FunctionLength
<1> QED BY <1>1, <1>5, <1>6, <1>7, <1>8

-----------------------------------------------------------------------------
(* What is taken of a sequence *)

\* Every element of what is taken comes from a position it was taken from, and
\* of two the first comes from the position before.
IsTaken(t, seq, positions, before) ==
  /\ Cardinality(positions) \in Nat
  /\ DOMAIN t = 1..Cardinality(positions)
  /\ Len(t) = Cardinality(positions)
  /\ \A k \in DOMAIN t : \E i \in positions : t[k] = seq[i]
  /\ \A k, l \in DOMAIN t : k < l =>
       \E i, j \in positions : <<i, j>> \in before /\ t[k] = seq[i] /\ t[l] = seq[j]

LEMMA Taken ==
  ASSUME NEW seq, NEW n \in Nat, NEW positions \in SUBSET (1..n), NEW before,
         TotalOrder(positions, before)
  PROVE  IsTaken(TakenInOrder(seq, positions, before), seq, positions, before)
<1> DEFINE t == TakenInOrder(seq, positions, before)
           o == InOrder(positions, before)
<1>1. IsFiniteSet(positions)
  <2>1. IsFiniteSet(1..n)
    BY FS_Interval
  <2> QED BY <2>1, FS_Subset
<1>2. /\ Cardinality(positions) \in Nat
      /\ DOMAIN o = 1..Cardinality(positions)
      /\ \A k \in 1..Cardinality(positions) : o[k] \in positions
      /\ \A k, l \in 1..Cardinality(positions) : k < l => <<o[k], o[l]>> \in before
  BY <1>1, Sorted
<1>3. t = [k \in DOMAIN o |-> seq[o[k]]]
  BY DEF TakenInOrder
<1> HIDE DEF t, o
<1>4. DOMAIN t = DOMAIN o /\ \A k \in DOMAIN t : t[k] = seq[o[k]]
  BY <1>3
<1>5. \A k \in DOMAIN t : \E i \in positions : t[k] = seq[i]
  BY <1>2, <1>4
<1>6. \A k, l \in DOMAIN t : k < l =>
        \E i, j \in positions : <<i, j>> \in before /\ t[k] = seq[i] /\ t[l] = seq[j]
  BY <1>2, <1>4
<1>7. Cardinality(positions) \in Nat /\ DOMAIN t = 1..Cardinality(positions)
  BY <1>2, <1>4
<1>8. t = [k \in 1..Cardinality(positions) |-> t[k]]
  BY <1>2, <1>3
<1>9. Len(t) = Cardinality(positions)
  BY <1>7, <1>8, FunctionLength
<1>10. IsTaken(t, seq, positions, before)
  BY <1>5, <1>6, <1>7, <1>9 DEF IsTaken
<1> QED BY <1>10 DEF t

-----------------------------------------------------------------------------
(* What scoring makes of what was read *)

LEMMA MinOfNaturals ==
  ASSUME NEW S \in SUBSET Nat, S # {}
  PROVE  Min(S) \in S /\ \A n \in S : Min(S) <= n
BY LeastNatural DEF Min

\* The names are finitely many, and their order tells them apart.
LEMMA NamesAreFinite ==
  /\ IsFiniteSet(Names)
  /\ \A s \in Names : Letter(s) \in DOMAIN Alphabet /\ Alphabet[Letter(s)] = s
  /\ DOMAIN Alphabet \subseteq Nat
<1>1. /\ Len(Alphabet) \in Nat /\ DOMAIN Alphabet = 1..Len(Alphabet)
      /\ Alphabet \in [1..Len(Alphabet) -> Names]
  BY GraphAssumption
<1>2. Alphabet \in Surjection(1..Len(Alphabet), Names)
  BY <1>1 DEF Surjection, Names, Range
<1>3. IsFiniteSet(1..Len(Alphabet))
  BY <1>1, FS_Interval
<1>4. IsFiniteSet(Names)
  BY <1>2, <1>3, FS_Surjection
<1>5. \A s \in Names : \E i \in DOMAIN Alphabet : Alphabet[i] = s
  BY DEF Names, Range
<1> QED BY <1>1, <1>4, <1>5 DEF Letter

Candidates == CandidateServices(TheAnomaly)

\* There is always a candidate, and never more than names.
LEMMA CandidatesAreNames ==
  /\ IsFiniteSet(Candidates) /\ Candidates \subseteq Names
  /\ Range(TheAnomaly.services) \subseteq Candidates /\ Candidates # {}
<1>1. Range(TheAnomaly.services) \subseteq Names /\ Range(TheAnomaly.services) # {}
  <2>1. TheAnomaly.services \in Seq(Names) /\ TheAnomaly.services # <<>>
    BY InputAssumption
  <2>2. 1 \in DOMAIN TheAnomaly.services
    BY <2>1
  <2>3. \A i \in DOMAIN TheAnomaly.services : TheAnomaly.services[i] \in Names
    BY <2>1
  <2> QED BY <2>2, <2>3 DEF Range
<1>2. \A s : DownstreamOf(s) \subseteq Names
  BY GraphAssumption DEF DownstreamOf
<1>3. Candidates \subseteq Names /\ Range(TheAnomaly.services) \subseteq Candidates
  BY <1>1, <1>2 DEF Candidates, CandidateServices
<1>4. IsFiniteSet(Candidates)
  BY <1>3, NamesAreFinite, FS_Subset
<1> QED BY <1>1, <1>3, <1>4

\* What is downstream is some number of calls away.
LEMMA HopsAreCounted ==
  ASSUME NEW n, NEW s \in DownstreamOf(n) PROVE HopsTo(n, s) \in Nat
<1> DEFINE within == {k \in 0..MaxHops : s \in ReachedWithin(n, k)}
<1>1. MaxHops \in within
  BY ScoringAssumption DEF DownstreamOf
<1>2. within \in SUBSET Nat
  OBVIOUS
<1>3. Min(within) \in within
  BY <1>1, <1>2, MinOfNaturals
<1> QED BY <1>2, <1>3 DEF HopsTo

LEMMA NearestIsCounted ==
  ASSUME NEW s \in Candidates PROVE Nearest(TheAnomaly, s).hops \in Nat
<1> DEFINE own == TheAnomaly.services
           Far(i) == IF own[i] = s THEN 0 ELSE HopsTo(own[i], s)
           above == {i \in DOMAIN own : \/ own[i] = s
                                        \/ own[i] \in Nodes /\ s \in DownstreamOf(own[i])}
           far == {Far(i) : i \in above}
<1>1. above # {}
  BY DEF Candidates, CandidateServices, Range
<1>2. \A i \in above : Far(i) \in Nat
  BY HopsAreCounted
<1>3. far \in SUBSET Nat /\ far # {}
  <2> HIDE DEF above, Far
  <2> QED BY <1>1, <1>2
<1>4. Min(far) \in Nat
  BY <1>3, MinOfNaturals
<1>5. Nearest(TheAnomaly, s).hops = Min(far)
  BY DEF Nearest
<1> QED BY <1>4, <1>5

Inputs(related, incidents) == InputsOf([related |-> related], incidents)

\* A deploy that counts for a service is its own, before the onset, and the only one.
LEMMA LatestDeployIsOwn ==
  ASSUME NEW related, NEW incidents, NEW s,
         NEW d \in LatestDeploy(Inputs(related, incidents), s)
  PROVE  /\ LatestDeploy(Inputs(related, incidents), s) = {d}
         /\ d \in DeployRows /\ d.service = s
         /\ TheAnomaly.onset - d.time \in DOMAIN DeployScore
<1> DEFINE Age(e) == TheAnomaly.onset - e.time
           own == {e \in DeployRows : e.service = s /\ Age(e) \in DOMAIN DeployScore}
           youngest == {e \in own : \A f \in own : Age(e) <= Age(f)}
           ages == {Age(e) : e \in own}
<1>1. LatestDeploy(Inputs(related, incidents), s)
        = IF own = {} THEN {} ELSE {CHOOSE e \in youngest : TRUE}
  BY DEF LatestDeploy, Inputs, InputsOf
<1>2. own # {}
  BY <1>1
<1>3. ages \in SUBSET Nat /\ ages # {}
  BY <1>2, ScoringAssumption
<1>4. PICK m \in ages : \A n \in ages : m <= n
  BY <1>3, LeastNatural
<1>5. youngest # {}
  BY <1>4
<1>6. d \in youngest
  <2> HIDE DEF youngest
  <2> QED BY <1>1, <1>2, <1>5
<1>7. LatestDeploy(Inputs(related, incidents), s) = {d}
  BY <1>1, <1>2
<1> QED BY <1>6, <1>7
LEMMA MaxOfPercents ==
  ASSUME NEW S \in SUBSET (0..100), S # {}
  PROVE  Max(S) \in S /\ \A n \in S : Max(S) >= n
<1> DEFINE T == {100 - n : n \in S}
<1>1. T \in SUBSET Nat /\ T # {}
  <2>1. \A n \in S : 100 - n \in Nat
    OBVIOUS
  <2> QED BY <2>1
<1>2. PICK t \in T : \A u \in T : t <= u
  BY <1>1, LeastNatural
<1>3. PICK n \in S : t = 100 - n
  BY <1>2
<1>4. \A m \in S : n >= m
  BY <1>2, <1>3
<1> QED BY <1>4 DEF Max

\* The deploy signal is that of the deploy.
LEMMA DeploySignal ==
  ASSUME NEW related, NEW incidents, NEW s
  PROVE  LET inputs == Inputs(related, incidents)
             d == LatestDeploy(inputs, s)
             found == {DeployScore[inputs.anomaly.onset - e.time] : e \in d} \cup {0}
         IN /\ Max(found) \in 0..100
            /\ \A e \in d : Max(found) = DeployScore[inputs.anomaly.onset - e.time]
<1> DEFINE inputs == Inputs(related, incidents)
           d == LatestDeploy(inputs, s)
           Worth(e) == DeployScore[TheAnomaly.onset - e.time]
           found == {Worth(e) : e \in d} \cup {0}
<1>1. inputs.anomaly = TheAnomaly
  BY DEF Inputs, InputsOf
<1>2. \A e \in d : d = {e} /\ Worth(e) \in 0..100
  BY LatestDeployIsOwn, ScoringAssumption
<1> HIDE DEF d, Worth
<1>3. found \in SUBSET (0..100) /\ found # {}
  BY <1>2
<1>4. Max(found) \in found /\ \A n \in found : Max(found) >= n
  BY <1>3, MaxOfPercents
<1>5. \A e \in d : Max(found) = Worth(e)
  BY <1>2, <1>3, <1>4
<1> QED BY <1>1, <1>3, <1>4, <1>5 DEF d, Worth

LEMMA SignalsArePercents ==
  ASSUME NEW related, NEW incidents \in SUBSET Corpus, NEW s \in Candidates
  PROVE  LET signals == Signals(Inputs(related, incidents), s)
         IN signals.deploy \in Int /\ signals.graph \in Int /\ signals.co \in Int
            /\ signals.incident \in Int
<1> DEFINE inputs == Inputs(related, incidents)
           signals == Signals(inputs, s)
           naming == {i \in incidents : s \in i.services}
           alike == {i.similarity : i \in naming} \cup {0}
<1>1. inputs.anomaly = TheAnomaly /\ inputs.incidents = incidents
  BY DEF Inputs, InputsOf
<1>2. Max(alike) \in Int
  <2>1. alike \in SUBSET (0..100) /\ alike # {}
    <3>1. \A i \in naming : i.similarity \in 0..100
      BY InputAssumption
    <3> QED BY <3>1
  <2> QED BY <2>1, MaxOfPercents
<1>3. signals.incident = Max(alike)
  BY <1>1 DEF Signals
<1>4. signals.deploy \in Int
  BY DeploySignal DEF Signals
<1>5. signals.graph = 100 \div (1 + Nearest(TheAnomaly, s).hops)
  BY <1>1 DEF Signals
<1>6. signals.graph \in Int
  <2> PICK hops \in Nat : hops = Nearest(TheAnomaly, s).hops
    BY NearestIsCounted
  <2> QED BY <1>5
<1>7. signals.co \in Int
  BY DEF Signals
<1> QED BY <1>2, <1>3, <1>4, <1>6, <1>7

IsWeight(w) == w.deploy \in Int /\ w.graph \in Int /\ w.co \in Int /\ w.incident \in Int

LEMMA WeightsAreWhole ==
  IsWeight(Weight) /\ IsWeight(WithoutGraph(Weight))
<1>1. IsWeight(Weight)
  BY ScoringAssumption DEF IsWeight
<1>2. DOMAIN Weight = {"deploy", "graph", "co", "incident"}
  BY ScoringAssumption
<1> DEFINE rest == 100 - Weight.graph
<1>3. rest \in Nat /\ rest > 0
  BY ScoringAssumption
<1>4. ASSUME NEW x \in Int PROVE (100 * x) \div rest \in Int
  <2> HIDE DEF rest
  <2> QED BY <1>3
<1>5. \A x \in DOMAIN Weight : x # "graph" => WithoutGraph(Weight)[x] = (100 * Weight[x]) \div rest
  BY DEF WithoutGraph
<1>6. WithoutGraph(Weight).graph = 0
  BY <1>2 DEF WithoutGraph
<1> HIDE DEF rest
<1> QED BY <1>1, <1>2, <1>4, <1>5, <1>6 DEF IsWeight

\* Whatever the weights, scores can be compared.
LEMMA ScoreIsWhole ==
  ASSUME NEW w, IsWeight(w), NEW signals,
         signals.deploy \in Int, signals.graph \in Int, signals.co \in Int, signals.incident \in Int
  PROVE  Score(signals, w) \in Int
<1> DEFINE sum == w.deploy * signals.deploy + w.graph * signals.graph + w.co * signals.co
                  + w.incident * signals.incident
<1>1. sum \in Int
  <2>1. /\ w.deploy * signals.deploy \in Int /\ w.graph * signals.graph \in Int
        /\ w.co * signals.co \in Int /\ w.incident * signals.incident \in Int
    BY DEF IsWeight
  <2> QED BY <2>1
<1>2. Score(signals, w) = Min({100, sum \div 100})
  BY DEF Score
<1> HIDE DEF sum
<1> QED BY <1>1, <1>2 DEF Min

\* Score, distance and name order the candidates: no two of them are alike.
LEMMA OutranksIsTotal ==
  ASSUME NEW S,
         \A c \in S : c.score \in Int /\ c.distance \in Int /\ c.service \in Names,
         \A c, d \in S : c.service = d.service => c = d
  PROVE  TotalOrder(S, {p \in S \X S : Outranks(p[1], p[2])})
<1> DEFINE before == {p \in S \X S : Outranks(p[1], p[2])}
<1>1. \A c \in S : Letter(c.service) \in Int
  BY NamesAreFinite
<1>2. \A c, d \in S : c # d => Letter(c.service) # Letter(d.service)
  BY NamesAreFinite
<1>3. \A c, d \in S : <<c, d>> \in before <=> Outranks(c, d)
  OBVIOUS
<1> HIDE DEF before
<1>4. \A c \in S : <<c, c>> \notin before
  BY <1>1, <1>3 DEF Outranks
<1>5. ASSUME NEW c \in S, NEW d \in S, NEW e \in S, <<c, d>> \in before, <<d, e>> \in before
      PROVE  <<c, e>> \in before
  BY <1>1, <1>3, <1>5 DEF Outranks
<1>6. \A c, d \in S : c # d => <<c, d>> \in before \/ <<d, c>> \in before
  BY <1>1, <1>2, <1>3 DEF Outranks
<1> QED BY <1>4, <1>5, <1>6 DEF TotalOrder, before

\* The scorer's report: a ranking of all the candidates, without ties.
LEMMA ReportIsRanked ==
  ASSUME NEW related, NEW incidents \in SUBSET Corpus, NEW w, IsWeight(w)
  PROVE  LET inputs == Inputs(related, incidents)
             ranking == ScoreCandidates(inputs, w).candidates
         IN /\ Len(ranking) \in Nat \ {0}
            /\ DOMAIN ranking = 1..Len(ranking)
            /\ \A i \in DOMAIN ranking :
                 /\ ranking[i].score \in Int
                 /\ \E s \in Candidates : ranking[i] = Candidate(inputs, w, s)
            /\ \A i, j \in DOMAIN ranking : i < j =>
                 /\ ranking[i].service # ranking[j].service
                 /\ ranking[i].score >= ranking[j].score
<1> DEFINE inputs == Inputs(related, incidents)
           ranking == ScoreCandidates(inputs, w).candidates
           Of(s) == Candidate(inputs, w, s)
           scored == {Of(s) : s \in Candidates}
           before == {p \in scored \X scored : Outranks(p[1], p[2])}
<1>1. inputs.anomaly = TheAnomaly
  BY DEF Inputs, InputsOf
<1>2. ranking = InOrder(scored, before)
  BY <1>1 DEF ScoreCandidates, Candidate, Candidates
<1>3. \A s \in Candidates :
        /\ Of(s).service = s
        /\ Of(s).score \in Int
        /\ Of(s).distance \in Nat
  <2> TAKE s \in Candidates
  <2>1. Of(s).service = s
    BY DEF Candidate
  <2>2. Of(s).score \in Int
    BY SignalsArePercents, ScoreIsWhole DEF Candidate
  <2>3. Of(s).distance \in Nat
    BY <1>1, NearestIsCounted DEF Candidate
  <2> QED BY <2>1, <2>2, <2>3
<1> HIDE DEF Of, inputs, ranking
<1>4. IsFiniteSet(scored) /\ scored # {}
  <2> DEFINE f == [s \in Candidates |-> Of(s)]
  <2>1. f \in Surjection(Candidates, scored)
    BY DEF Surjection
  <2>2. IsFiniteSet(scored)
    BY <2>1, CandidatesAreNames, FS_Surjection
  <2> QED BY <2>2, CandidatesAreNames
<1>5. TotalOrder(scored, before)
  <2>1. \A c \in scored : c.score \in Int /\ c.distance \in Int /\ c.service \in Names
    BY <1>3, CandidatesAreNames
  <2>2. \A c, d \in scored : c.service = d.service => c = d
    BY <1>3
  <2> HIDE DEF scored
  <2> QED BY <2>1, <2>2, OutranksIsTotal
<1> DEFINE n == Cardinality(scored)
<1>6. /\ n \in Nat
      /\ DOMAIN ranking = 1..n /\ Len(ranking) = n
      /\ \A k \in 1..n : ranking[k] \in scored
      /\ \A k, l \in 1..n : k < l => <<ranking[k], ranking[l]>> \in before
  <2> HIDE DEF scored, before
  <2> QED BY <1>2, <1>4, <1>5, Sorted
<1>7. n # 0
  BY <1>4, FS_EmptySet
<1>8. \A k \in 1..n : /\ ranking[k].score \in Int
                      /\ \E s \in Candidates : ranking[k] = Of(s)
  BY <1>3, <1>6
<1>9. ASSUME NEW k \in 1..n, NEW l \in 1..n, k < l
      PROVE  ranking[k].service # ranking[l].service /\ ranking[k].score >= ranking[l].score
  <2>1. Outranks(ranking[k], ranking[l])
    BY <1>6, <1>9
  <2>2. PICK s, t \in Candidates : ranking[k] = Of(s) /\ ranking[l] = Of(t)
    BY <1>8
  <2>3. s # t
    <3>1. <<ranking[k], ranking[l]>> \in before /\ <<ranking[k], ranking[k]>> \notin before
      BY <1>5, <1>6, <1>9 DEF TotalOrder
    <3> QED BY <2>2, <3>1
  <2>4. ranking[k].service # ranking[l].service
    BY <1>3, <2>2, <2>3
  <2>5. ranking[k].score \in Int /\ ranking[l].score \in Int
    BY <1>8
  <2>6. ranking[k].score >= ranking[l].score
    BY <2>1, <2>5 DEF Outranks
  <2> QED BY <2>4, <2>6
<1> QED BY <1>6, <1>7, <1>8, <1>9 DEF Of, ranking, inputs

-----------------------------------------------------------------------------
(* What the options of a prompt rest on *)

Citables(s, q) == {RecordId(id) : id \in RecordsNaming(s, q) \cup {TheAnomaly.id}}

\* Whatever an option allows, the records q read call for.
Backed(o, q) ==
  /\ o.citable \subseteq Citables(o.service, q)
  /\ \A a \in o.actions : CalledFor(a, o.service, q)
  /\ o.deployed => WasDeployed(o.service)

\* What makes the records call for an action.
LEMMA ActionsCalledFor ==
  ASSUME NEW s, NEW q
  PROVE  /\ CalledFor(NoAction, s, q)
         /\ \A d \in DeployRows :
              /\ d.service = s
              /\ TheAnomaly.onset - d.time \in DOMAIN DeployScore
              /\ DeployScore[TheAnomaly.onset - d.time] >= RollbackMinScore
              => CalledFor(Rollback(d.id), s, q)
         /\ \A o \in {TheAnomaly} \cup q.related :
              o.silent /\ s \in Range(o.services) => CalledFor(Restart(s), s, q)
<1>1. CalledFor(NoAction, s, q)
  BY DEF CalledFor, NoAction
<1>2. \A id : Rollback(id)[1] = "rollback_deploy" /\ Rollback(id)[2] = id
  BY DEF Rollback
<1>3. Restart(s)[1] = "restart_service" /\ Restart(s)[2] = s
  BY DEF Restart
<1> QED BY <1>1, <1>2, <1>3 DEF CalledFor

LEMMA NearbyIsRead ==
  ASSUME NEW related, NEW incidents
  PROVE  Nearby(Inputs(related, incidents)) \subseteq related
BY DEF Nearby, Inputs, InputsOf

LEMMA DeployedBefore ==
  ASSUME NEW d \in DeployRows, TheAnomaly.onset - d.time \in DOMAIN DeployScore
  PROVE  WasDeployed(d.service)
<1>1. TheAnomaly.onset - d.time \in Nat /\ TheAnomaly.onset \in Int /\ d.time \in Int
  BY ScoringAssumption, InputAssumption
<1>2. d.time <= TheAnomaly.onset
  BY <1>1
<1> QED BY <1>2 DEF WasDeployed

\* The options of a candidate rest on its evidence, and that on the records.
LEMMA CandidateIsBacked ==
  ASSUME NEW q, NEW w, NEW s
  PROVE  Backed(CandidateOptions(Candidate(Inputs(q.related, q.incidents), w, s)), q)
<1> DEFINE inputs == Inputs(q.related, q.incidents)
           c == Candidate(inputs, w, s)
           o == CandidateOptions(c)
<1>1. /\ inputs.anomaly = TheAnomaly /\ inputs.related = q.related
      /\ inputs.incidents = q.incidents
  BY DEF Inputs, InputsOf
<1>2. /\ c.service = s /\ c.deploy = LatestDeploy(inputs, s)
      /\ c.evidence = EvidenceOf(inputs, s) /\ c.signals = Signals(inputs, s)
  BY DEF Candidate
<1>3. \A d \in c.deploy : /\ d \in DeployRows /\ d.service = s
                          /\ TheAnomaly.onset - d.time \in DOMAIN DeployScore
  BY <1>2, LatestDeployIsOwn
<1>4. \A e \in c.evidence : e.category \in Citable => RecordId(e.source) \in Citables(s, q)
  <2> TAKE e \in c.evidence
  <2>1. CASE \E a \in {TheAnomaly} \cup {b \in Nearby(inputs) : s \in Range(b.services)} :
               e.category = "anomaly" /\ e.source = a.id
    BY <2>1, NearbyIsRead DEF Citables, RecordsNaming
  <2>2. CASE \E d \in LatestDeploy(inputs, s) : e.category = "deployment" /\ e.source = d.id
    BY <2>2, <1>2, <1>3 DEF Citables, RecordsNaming
  <2>3. CASE \E i \in {j \in q.incidents : s \in j.services} :
               e.category = "similar_incident" /\ e.source = i.id
    BY <2>3 DEF Citables, RecordsNaming
  <2>4. CASE e.category = "dependency"
    BY <2>4 DEF Citable
  <2> QED BY <1>1, <1>2, <2>1, <2>2, <2>3, <2>4 DEF EvidenceOf
<1>5. \A e \in c.evidence : s \in e.silent =>
        \E a \in {TheAnomaly} \cup q.related : a.silent /\ s \in Range(a.services)
  BY <1>1, <1>2, NearbyIsRead DEF EvidenceOf
<1>6. \A d \in c.deploy : c.signals.deploy = DeployScore[TheAnomaly.onset - d.time]
  <2>1. c.signals.deploy
          = Max({DeployScore[inputs.anomaly.onset - e.time] : e \in LatestDeploy(inputs, s)} \cup {0})
    BY <1>2 DEF Signals
  <2>2. \A e \in LatestDeploy(inputs, s) :
          Max({DeployScore[inputs.anomaly.onset - d.time] : d \in LatestDeploy(inputs, s)} \cup {0})
            = DeployScore[inputs.anomaly.onset - e.time]
    BY DeploySignal
  <2> QED BY <1>1, <1>2, <2>1, <2>2
<1> HIDE DEF inputs, c
<1>7. o.service = s
  BY <1>2 DEF CandidateOptions
<1>8. o.citable \subseteq Citables(s, q)
  BY <1>4 DEF CandidateOptions, CitableIn
<1>9. ASSUME NEW a \in o.actions PROVE CalledFor(a, s, q)
  <2>1. CASE a = NoAction
    BY <2>1, ActionsCalledFor
  <2>2. ASSUME NEW d \in c.deploy, c.signals.deploy >= RollbackMinScore, a = Rollback(d.id)
        PROVE  CalledFor(a, s, q)
    BY <1>3, <1>6, <2>2, ActionsCalledFor
  <2>3. ASSUME s \in UNION {e.silent : e \in c.evidence}, a = Restart(s)
        PROVE  CalledFor(a, s, q)
    BY <1>5, <2>3, ActionsCalledFor
  <2>4. \/ a = NoAction
        \/ \E d \in c.deploy : c.signals.deploy >= RollbackMinScore /\ a = Rollback(d.id)
        \/ s \in UNION {e.silent : e \in c.evidence} /\ a = Restart(s)
    BY <1>2, <1>9 DEF CandidateOptions
  <2> QED BY <2>1, <2>2, <2>3, <2>4
<1>10. o.deployed => WasDeployed(s)
  BY <1>3, DeployedBefore DEF CandidateOptions
<1> QED BY <1>7, <1>8, <1>9, <1>10 DEF Backed, c, inputs

WeightFor(q) == IF q.mode = "no_graph" THEN WithoutGraph(Weight) ELSE Weight
ReportFor(q) == ScoreCandidates(Inputs(q.related, q.incidents), WeightFor(q))

LEMMA ReportsAre ==
  ASSUME NEW q PROVE ReportsOf(q, q.incidents) = IF q.mode = "llm_only" THEN {} ELSE {ReportFor(q)}
BY DEF ReportsOf, ReportFor, Inputs, InputsOf, WeightFor

LEMMA RankingFor ==
  ASSUME NEW q, q.incidents \in SUBSET Corpus
  PROVE  LET ranking == ReportFor(q).candidates
         IN /\ Len(ranking) \in Nat \ {0}
            /\ DOMAIN ranking = 1..Len(ranking)
            /\ \A i \in DOMAIN ranking :
                 /\ ranking[i].score \in Int
                 /\ \E s \in Candidates :
                      ranking[i] = Candidate(Inputs(q.related, q.incidents), WeightFor(q), s)
            /\ \A i, j \in DOMAIN ranking : i < j =>
                 /\ ranking[i].service # ranking[j].service
                 /\ ranking[i].score >= ranking[j].score
<1>1. IsWeight(WeightFor(q))
  BY WeightsAreWhole DEF WeightFor
<1> QED BY <1>1, ReportIsRanked DEF ReportFor

LEMMA MinOfTwo ==
  ASSUME NEW m \in Nat, NEW n \in Nat
  PROVE  Min({m, n}) = IF m <= n THEN m ELSE n
BY DEF Min

\* The scored prompt adds past outcomes under the service they confirmed.
LEMMA RenderedIsBacked ==
  ASSUME NEW q, q.incidents \in SUBSET Corpus, NEW shown \in Nat,
         NEW history \in SUBSET q.past,
         NEW o \in RenderPrompt(ReportFor(q), shown, history)
  PROVE  Backed(o, q)
<1> DEFINE ranking == ReportFor(q).candidates
           Own(i) == CandidateOptions(ranking[i])
           Past(i) == {RecordId(p.id) : p \in {e \in history : Own(i).service \in e.root}}
<1>1. PICK i \in 1..Min({shown, Len(ranking)}) : o = [Own(i) EXCEPT !.citable = @ \cup Past(i)]
  BY DEF RenderPrompt
<1>2. i \in DOMAIN ranking
  BY MinOfTwo, RankingFor
<1>3. Backed(Own(i), q)
  BY <1>2, RankingFor, CandidateIsBacked
<1>4. /\ o.service = Own(i).service /\ o.actions = Own(i).actions
      /\ o.deployed = Own(i).deployed /\ o.citable = Own(i).citable \cup Past(i)
  BY <1>1 DEF CandidateOptions
<1>5. Past(i) \subseteq Citables(Own(i).service, q)
  BY DEF Citables, RecordsNaming
<1> HIDE DEF Own, Past
<1> QED BY <1>3, <1>4, <1>5 DEF Backed

\* The prompt without scores goes by the records themselves.
LEMMA UnscoredIsBacked ==
  ASSUME NEW q, NEW o \in BuildLLMOnlyPrompt(InputsOf(q, q.incidents))
  PROVE  Backed(o, q)
<1> DEFINE inputs == InputsOf(q, q.incidents)
           near == Nearby(inputs)
           Age(d) == TheAnomaly.onset - d.time
           own(s) == {d \in DeployRows : d.service = s /\ Age(d) \in DOMAIN DeployScore}
           silent == UNION {Range(e.services) : e \in {f \in near \cup {TheAnomaly} : f.silent}}
           Citing(s) == {RecordId(e.id) : e \in {TheAnomaly}
                                       \cup {f \in near : s \in Range(f.services)} \cup own(s)}
           Allowing(s) == {NoAction} \cup {Restart(t) : t \in {s} \cap silent}
             \cup {Rollback(d.id) : d \in {e \in own(s) : DeployScore[Age(e)] >= RollbackMinScore}}
<1>1. inputs.anomaly = TheAnomaly /\ inputs.deploys = DeployRows /\ inputs.related = q.related
  BY DEF InputsOf
<1>2. PICK s : o = [service |-> s, citable |-> Citing(s), actions |-> Allowing(s),
                    deployed |-> own(s) # {}]
  BY <1>1 DEF BuildLLMOnlyPrompt
<1>3. near \subseteq q.related
  BY <1>1 DEF Nearby
<1>4. o.service = s /\ o.citable = Citing(s) /\ o.actions = Allowing(s) /\ o.deployed = (own(s) # {})
  BY <1>2
<1>5. Citing(s) \subseteq Citables(s, q)
  BY <1>3 DEF Citables, RecordsNaming
<1>6. ASSUME NEW a \in Allowing(s) PROVE CalledFor(a, s, q)
  <2>1. ASSUME s \in silent PROVE CalledFor(Restart(s), s, q)
    BY <1>3, <2>1, ActionsCalledFor
  <2>2. ASSUME NEW d \in own(s), DeployScore[Age(d)] >= RollbackMinScore
        PROVE  CalledFor(Rollback(d.id), s, q)
    BY <2>2, ActionsCalledFor
  <2>3. CalledFor(NoAction, s, q)
    BY ActionsCalledFor
  <2> HIDE DEF silent, own
  <2> QED BY <1>6, <2>1, <2>2, <2>3
<1>7. own(s) # {} => WasDeployed(s)
  BY DeployedBefore
<1> HIDE DEF Citing, Allowing, own
<1> QED BY <1>4, <1>5, <1>6, <1>7 DEF Backed

LEMMA PromptIsBacked ==
  ASSUME NEW q, q.incidents \in SUBSET Corpus, NEW o \in PromptOf(q)
  PROVE  Backed(o, q)
<1>1. CASE q.mode = "llm_only"
  BY <1>1, UnscoredIsBacked DEF PromptOf
<1>2. CASE q.mode # "llm_only"
  <2>1. o \in BuildPrompt(ReportFor(q), q.past, q.fit)
    BY <1>2, ReportsAre DEF PromptOf
  <2> QED BY <2>1, RenderedIsBacked, PromptAssumption DEF BuildPrompt
<1> QED BY <1>1, <1>2

-----------------------------------------------------------------------------
(* What becomes of a reply, and of a ranking *)

Ordered(answer) ==
  \A i, j \in DOMAIN answer : i < j =>
    answer[i].service # answer[j].service /\ answer[i].confidence >= answer[j].confidence

\* One hypothesis per service is left, the surest first, each as the model said it.
LEMMA NormaliseOrders ==
  ASSUME NEW reply, NEW n \in Nat, DOMAIN reply = 1..n,
         \A i \in 1..n : reply[i].rank \in Int /\ reply[i].confidence \in Int
  PROVE  LET t == Normalise(reply)
         IN /\ DOMAIN t = 1..Len(t) /\ Len(t) \in Nat
            /\ \A k \in DOMAIN t : \E i \in 1..n : t[k] = reply[i]
            /\ Ordered(t)
<1> DEFINE Above(i, j) == \/ reply[i].rank < reply[j].rank
                          \/ reply[i].rank = reply[j].rank /\ i < j
           Surer(i, j) == \/ reply[i].confidence > reply[j].confidence
                          \/ reply[i].confidence = reply[j].confidence /\ Above(i, j)
           once == {i \in DOMAIN reply : \A j \in DOMAIN reply :
                      reply[j].service = reply[i].service => ~Above(j, i)}
           before == {p \in once \X once : Surer(p[1], p[2])}
           t == TakenInOrder(reply, once, before)
<1>1. once \in SUBSET (1..n)
  OBVIOUS
<1>2. \A i, j \in once : <<i, j>> \in before <=> Surer(i, j)
  OBVIOUS
<1>3. TotalOrder(once, before)
  <2> HIDE DEF before, once
  <2>1. \A i \in once : <<i, i>> \notin before
    BY <1>1, <1>2
  <2>2. ASSUME NEW i \in once, NEW j \in once, NEW k \in once,
               <<i, j>> \in before, <<j, k>> \in before
        PROVE  <<i, k>> \in before
    <3>1. Surer(i, j) /\ Surer(j, k)
      BY <1>2, <2>2
    <3>2. i \in 1..n /\ j \in 1..n /\ k \in 1..n
      BY <1>1
    <3>3. Surer(i, k)
      BY <3>1, <3>2
    <3> HIDE DEF Surer
    <3> QED BY <1>2, <3>3
  <2>3. ASSUME NEW i \in once, NEW j \in once, i # j
        PROVE  <<i, j>> \in before \/ <<j, i>> \in before
    <3>1. Surer(i, j) \/ Surer(j, i)
      <4>1. PICK ri \in Int, rj \in Int, ci \in Int, cj \in Int :
              /\ ri = reply[i].rank /\ rj = reply[j].rank
              /\ ci = reply[i].confidence /\ cj = reply[j].confidence
        BY <1>1
      <4>2. i \in Int /\ j \in Int /\ i # j
        <5>1. i \in 1..n /\ j \in 1..n
          BY <1>1
        <5> QED BY <2>3, <5>1
      <4>3. \/ ci > cj \/ cj > ci
            \/ ci = cj /\ ri < rj
            \/ ci = cj /\ rj < ri
            \/ ci = cj /\ ri = rj /\ (i < j \/ j < i)
        BY <4>2
      <4> QED BY <4>1, <4>3
    <3> HIDE DEF Surer
    <3> QED BY <1>2, <3>1
  <2> QED BY <2>1, <2>2, <2>3 DEF TotalOrder
<1>4. \A i, j \in once : i # j => reply[i].service # reply[j].service
  OBVIOUS
<1>5. \A i, j \in once : <<i, j>> \in before => i # j /\ reply[i].confidence >= reply[j].confidence
  <2>1. \A i, j \in once : <<i, j>> \in before => Surer(i, j) /\ i \in 1..n /\ j \in 1..n
    BY <1>1, <1>2
  <2>2. \A i, j \in 1..n : Surer(i, j) => i # j /\ reply[i].confidence >= reply[j].confidence
    OBVIOUS
  <2> HIDE DEF Surer, before, once
  <2> QED BY <2>1, <2>2
<1>6. Normalise(reply) = t
  BY DEF Normalise
<1> HIDE DEF once, before
<1>7. /\ Cardinality(once) \in Nat /\ DOMAIN t = 1..Cardinality(once) /\ Len(t) = Cardinality(once)
      /\ \A k \in DOMAIN t : \E i \in once : t[k] = reply[i]
      /\ \A k, l \in DOMAIN t : k < l =>
           \E i, j \in once : <<i, j>> \in before /\ t[k] = reply[i] /\ t[l] = reply[j]
  <2>1. IsTaken(t, reply, once, before)
    BY <1>1, <1>3, Taken
  <2> HIDE DEF t
  <2> QED BY <2>1 DEF IsTaken
<1> HIDE DEF t
<1>8. Ordered(t)
  <2> SUFFICES ASSUME NEW k \in DOMAIN t, NEW l \in DOMAIN t, k < l
               PROVE  t[k].service # t[l].service /\ t[k].confidence >= t[l].confidence
    BY DEF Ordered
  <2>1. PICK i, j \in once : <<i, j>> \in before /\ t[k] = reply[i] /\ t[l] = reply[j]
    BY <1>7
  <2> QED BY <1>4, <1>5, <2>1
<1> QED BY <1>1, <1>6, <1>7, <1>8

Unobjectionable(diagnosis, n, allowed) == {i \in 1..n : diagnosis[i].cites \subseteq allowed}
OnlyDrops(t, diagnosis, kept) ==
  /\ DOMAIN t = 1..Cardinality(kept) /\ Len(t) = Cardinality(kept)
  /\ Cardinality(kept) \in Nat
  /\ \A k \in DOMAIN t : \E i \in kept : t[k] = diagnosis[i]
  /\ Ordered(t)

\* The guardrail leaves out, and changes and moves nothing.
LEMMA GuardrailOnlyDrops ==
  ASSUME NEW diagnosis, NEW n \in Nat, DOMAIN diagnosis = 1..n, Ordered(diagnosis), NEW allowed
  PROVE  OnlyDrops(ApplyGuardrail(diagnosis, allowed), diagnosis,
                   Unobjectionable(diagnosis, n, allowed))
<1> DEFINE kept == Unobjectionable(diagnosis, n, allowed)
           before == {p \in kept \X kept : p[1] < p[2]}
           t == TakenInOrder(diagnosis, kept, before)
<1>1. kept \in SUBSET (1..n)
  BY DEF Unobjectionable
<1>2. \A i, j \in kept : <<i, j>> \in before <=> i < j
  OBVIOUS
<1>3. ApplyGuardrail(diagnosis, allowed) = t
  BY DEF ApplyGuardrail, Unobjectionable
<1> HIDE DEF before
<1>4. TotalOrder(kept, before)
  <2> HIDE DEF kept
  <2> QED BY <1>1, <1>2 DEF TotalOrder
<1>5. /\ Cardinality(kept) \in Nat /\ DOMAIN t = 1..Cardinality(kept) /\ Len(t) = Cardinality(kept)
      /\ \A k \in DOMAIN t : \E i \in kept : t[k] = diagnosis[i]
      /\ \A k, l \in DOMAIN t : k < l =>
           \E i, j \in kept : <<i, j>> \in before /\ t[k] = diagnosis[i] /\ t[l] = diagnosis[j]
  <2> HIDE DEF kept
  <2>1. IsTaken(t, diagnosis, kept, before)
    BY <1>1, <1>4, Taken
  <2> HIDE DEF t
  <2> QED BY <2>1 DEF IsTaken
<1> HIDE DEF t
<1>6. Ordered(t)
  <2> SUFFICES ASSUME NEW k \in DOMAIN t, NEW l \in DOMAIN t, k < l
               PROVE  t[k].service # t[l].service /\ t[k].confidence >= t[l].confidence
    BY DEF Ordered
  <2>1. PICK i, j \in kept : <<i, j>> \in before /\ t[k] = diagnosis[i] /\ t[l] = diagnosis[j]
    BY <1>5
  <2> HIDE DEF kept
  <2>2. i < j /\ i \in DOMAIN diagnosis /\ j \in DOMAIN diagnosis
    BY <1>1, <1>2, <2>1
  <2> QED BY <2>1, <2>2 DEF Ordered
<1> HIDE DEF kept
<1> QED BY <1>3, <1>5, <1>6 DEF OnlyDrops, kept

\* What passed validation and the guardrail stands on what was read: an id of
\* the prompt is one of its own option, another is the report's or the anomaly's.
LEMMA ValidStands ==
  ASSUME NEW q, q.incidents \in SUBSET Corpus, NEW reply, Valid(reply, PromptOf(q)),
         NEW i \in DOMAIN reply,
         reply[i].cites \subseteq AllowedIds(TheAnomaly.id, ReportsOf(q, q.incidents), PromptOf(q))
  PROVE  Stands(reply[i], q)
<1> DEFINE h == reply[i]
           prompt == PromptOf(q)
<1>1. PICK o \in prompt : /\ o.service = h.service
                          /\ h.action \in o.actions
                          /\ h.claims => o.deployed
                          /\ h.cites \cap Supplied(prompt) \subseteq o.citable
  BY DEF Valid, WellFounded
<1>2. Backed(o, q)
  BY PromptIsBacked
<1>3. AllowedIds(TheAnomaly.id, ReportsOf(q, q.incidents), prompt)
        = {RecordId(TheAnomaly.id)} \cup EvidenceRead(q) \cup Supplied(prompt)
  BY <1>1 DEF AllowedIds, EvidenceRead
<1>4. h.cites \subseteq Citables(h.service, q) \cup EvidenceRead(q)
  <2>1. RecordId(TheAnomaly.id) \in Citables(h.service, q)
    BY DEF Citables
  <2>2. o.citable \subseteq Citables(h.service, q)
    BY <1>1, <1>2 DEF Backed
  <2>3. h.cites \subseteq {RecordId(TheAnomaly.id)} \cup EvidenceRead(q) \cup Supplied(prompt)
    BY <1>3
  <2> QED BY <1>1, <2>1, <2>2, <2>3
<1>5. CalledFor(h.action, h.service, q) /\ (h.claims => WasDeployed(h.service))
  BY <1>1, <1>2 DEF Backed
<1> QED BY <1>4, <1>5 DEF Stands, Citables

LEMMA MostSpecificIsAllowed ==
  ASSUME NEW actions, NoAction \in actions PROVE MostSpecific(actions) \in actions
<1> DEFINE rollbacks == {a \in actions : a[1] = "rollback_deploy"}
           restarts == {a \in actions : a[1] = "restart_service"}
           best == IF rollbacks # {} THEN rollbacks ELSE IF restarts # {} THEN restarts ELSE {NoAction}
<1>1. best # {} /\ best \subseteq actions
  OBVIOUS
<1>2. MostSpecific(actions) = CHOOSE a \in best : TRUE
  BY DEF MostSpecific
<1> HIDE DEF best
<1> QED BY <1>1, <1>2

\* The ranking without a model, by the options of the prompt it did not need.
LEMMA RankingStands ==
  ASSUME NEW q, q.incidents \in SUBSET Corpus
  PROVE  LET d == DeterministicDiagnosis(ReportFor(q))
             n == Min({MaxHypotheses, Len(ReportFor(q).candidates)})
         IN /\ n \in Nat \ {0} /\ n <= MaxHypotheses /\ n <= Len(ReportFor(q).candidates)
            /\ DOMAIN d = 1..n
            /\ Ordered(d)
            /\ \A i \in 1..n :
                 /\ Stands(d[i], q)
                 /\ d[i].cites = CandidateOptions(ReportFor(q).candidates[i]).citable
<1> DEFINE ranking == ReportFor(q).candidates
           n == Min({MaxHypotheses, Len(ranking)})
           d == DeterministicDiagnosis(ReportFor(q))
           Own(i) == CandidateOptions(ranking[i])
<1>1. /\ n \in Nat \ {0} /\ n <= MaxHypotheses /\ n <= Len(ranking)
      /\ DOMAIN ranking = 1..Len(ranking)
      /\ 1..n \subseteq DOMAIN ranking
  BY MinOfTwo, RankingFor, PromptAssumption
<1>2. /\ DOMAIN d = 1..n
      /\ \A i \in 1..n : /\ d[i].service = ranking[i].service /\ d[i].confidence = ranking[i].score
                         /\ d[i].cites = Own(i).citable /\ d[i].claims = Own(i).deployed
                         /\ d[i].action = MostSpecific(Own(i).actions)
  BY DEF DeterministicDiagnosis
<1> HIDE DEF d, n
<1>3. Ordered(d)
  BY <1>1, <1>2, RankingFor DEF Ordered
<1>4. ASSUME NEW i \in 1..n PROVE Stands(d[i], q)
  <2>1. Backed(Own(i), q)
    BY <1>1, RankingFor, CandidateIsBacked
  <2>2. Own(i).service = ranking[i].service /\ NoAction \in Own(i).actions
    BY DEF CandidateOptions
  <2>3. MostSpecific(Own(i).actions) \in Own(i).actions
    BY <2>2, MostSpecificIsAllowed
  <2> HIDE DEF Own
  <2> QED BY <1>2, <2>1, <2>2, <2>3 DEF Backed, Stands, Citables
<1> QED BY <1>1, <1>2, <1>3, <1>4 DEF d, n

SoundAnswer(answer, q) ==
  \A i \in DOMAIN answer :
    /\ Stands(answer[i], q)
    /\ \A j \in 1..i - 1 : /\ answer[j].service # answer[i].service
                           /\ answer[j].confidence >= answer[i].confidence

LEMMA OrderedIsSound ==
  ASSUME NEW answer, NEW q, NEW n \in Nat, DOMAIN answer = 1..n, Ordered(answer),
         \A i \in DOMAIN answer : Stands(answer[i], q)
  PROVE  SoundAnswer(answer, q)
BY DEF SoundAnswer, Ordered

\* A prompt, even a squeezed one, has room for every candidate of an answer.
Roomy == MaxHypotheses <= MinCandidates /\ MaxHypotheses <= MaxCandidates

WholeRanking(q) == Min({MaxHypotheses, Len(ReportFor(q).candidates)})

\* A prompt with room lists whatever the ranking may cite.
LEMMA OptionsAreSupplied ==
  ASSUME NEW q, q.incidents \in SUBSET Corpus, q.mode # "llm_only", Roomy,
         PromptOf(q) # {}, NEW i \in 1..WholeRanking(q)
  PROVE  CandidateOptions(ReportFor(q).candidates[i]).citable \subseteq Supplied(PromptOf(q))
<1> DEFINE ranking == ReportFor(q).candidates
           shown == IF q.fit = "fewer candidates" THEN MinCandidates ELSE MaxCandidates
           history == IF q.fit = "whole" THEN q.past ELSE {}
           Own(k) == CandidateOptions(ranking[k])
           Option(k) == [Own(k) EXCEPT !.citable = @ \cup
                           {RecordId(p.id) : p \in {e \in history : Own(k).service \in e.root}}]
<1>1. PromptOf(q) = RenderPrompt(ReportFor(q), shown, history)
  BY ReportsAre DEF PromptOf, BuildPrompt
<1>2. i \in 1..Min({shown, Len(ranking)})
  <2>1. shown \in Nat /\ MaxHypotheses \in Nat /\ MaxHypotheses <= shown
    BY PromptAssumption DEF Roomy
  <2>2. Len(ranking) \in Nat
    BY RankingFor
  <2> HIDE DEF shown, ranking
  <2>3. i \in 1..Min({MaxHypotheses, Len(ranking)})
    BY DEF WholeRanking, ranking
  <2> QED BY <2>1, <2>2, <2>3, MinOfTwo
<1>3. Option(i) \in PromptOf(q)
  BY <1>1, <1>2 DEF RenderPrompt
<1>4. Own(i).citable \subseteq Option(i).citable
  BY DEF CandidateOptions
<1> HIDE DEF Own, Option
<1> QED BY <1>3, <1>4 DEF Supplied, Own

\* The ranking through the guardrail, whatever prompt there was: nothing of it
\* is unsound, and nothing is left out where the prompt had room.
LEMMA RankingAnswers ==
  ASSUME NEW q, q.incidents \in SUBSET Corpus, q.mode # "llm_only",
         NEW prompt \in {{}, PromptOf(q)}
  PROVE  LET answer == ApplyGuardrail(DeterministicDiagnosis(ReportFor(q)),
                                      AllowedIds(TheAnomaly.id, {ReportFor(q)}, prompt))
         IN /\ SoundAnswer(answer, q)
            /\ Roomy => Len(answer) = WholeRanking(q) /\ answer # <<>>
<1> DEFINE d == DeterministicDiagnosis(ReportFor(q))
           n == WholeRanking(q)
           allowed == AllowedIds(TheAnomaly.id, {ReportFor(q)}, prompt)
           kept == Unobjectionable(d, n, allowed)
           answer == ApplyGuardrail(d, allowed)
<1>1. /\ n \in Nat \ {0} /\ n <= Len(ReportFor(q).candidates)
      /\ DOMAIN d = 1..n /\ Ordered(d)
      /\ \A i \in 1..n : /\ Stands(d[i], q)
                         /\ d[i].cites = CandidateOptions(ReportFor(q).candidates[i]).citable
  BY RankingStands DEF WholeRanking
<1> HIDE DEF n, d, allowed
<1>2. /\ DOMAIN answer = 1..Cardinality(kept) /\ Len(answer) = Cardinality(kept)
      /\ Cardinality(kept) \in Nat
      /\ \A k \in DOMAIN answer : \E i \in kept : answer[k] = d[i]
      /\ Ordered(answer)
  BY <1>1, GuardrailOnlyDrops DEF OnlyDrops
<1>3. SoundAnswer(answer, q)
  <2> HIDE DEF answer
  <2>1. \A k \in DOMAIN answer : Stands(answer[k], q)
    BY <1>1, <1>2 DEF Unobjectionable
  <2> HIDE DEF kept
  <2> QED BY <1>2, <2>1, OrderedIsSound
<1>4. ASSUME Roomy PROVE Len(answer) = n /\ answer # <<>>
  <2>1. \A i \in 1..n : d[i].cites \subseteq allowed
    <3> TAKE i \in 1..n
    <3> DEFINE c == ReportFor(q).candidates[i]
    <3>1. d[i].cites = CitableIn(c.evidence)
      BY <1>1 DEF CandidateOptions
    <3>2. CASE prompt = {}
      <4>1. c \in Range(ReportFor(q).candidates)
        BY <1>1, RankingFor DEF Range
      <4>2. c.evidence \subseteq EvidenceIn(ReportFor(q))
        BY <4>1 DEF EvidenceIn
      <4>3. CitableIn(c.evidence) \subseteq CitableIn(UNION {EvidenceIn(r) : r \in {ReportFor(q)}})
        BY <4>2 DEF CitableIn
      <4> QED BY <3>1, <3>2, <4>3 DEF allowed, AllowedIds
    <3>3. CASE prompt # {}
      <4>1. CandidateOptions(c).citable \subseteq Supplied(prompt)
        BY <1>4, <3>3, OptionsAreSupplied DEF n
      <4> QED BY <1>1, <3>3, <4>1 DEF allowed, AllowedIds
    <3> QED BY <3>2, <3>3
  <2>2. kept = 1..n
    BY <2>1 DEF Unobjectionable
  <2>3. Cardinality(kept) = n
    <3>1. Cardinality(1..n) = n
      BY <1>1, FS_Interval
    <3> HIDE DEF kept
    <3> QED BY <2>2, <3>1
  <2> HIDE DEF kept, answer
  <2> QED BY <1>1, <1>2, <2>3
<1> QED BY <1>3, <1>4 DEF d, n, allowed

\* A valid reply, in order and through the guardrail.
LEMMA RepliesAnswer ==
  ASSUME NEW q, q.incidents \in SUBSET Corpus, NEW reply \in Replies, Valid(reply, PromptOf(q))
  PROVE  SoundAnswer(ApplyGuardrail(Normalise(reply),
                       AllowedIds(TheAnomaly.id, ReportsOf(q, q.incidents), PromptOf(q))), q)
<1> DEFINE allowed == AllowedIds(TheAnomaly.id, ReportsOf(q, q.incidents), PromptOf(q))
           n == Len(reply)
           t == Normalise(reply)
           answer == ApplyGuardrail(t, allowed)
<1>1. /\ n \in Nat /\ DOMAIN reply = 1..n
      /\ \A i \in 1..n : reply[i].rank \in Int /\ reply[i].confidence \in Int
  <2>1. reply \in Replies \ {Garbled}
    BY DEF Valid
  <2> QED BY <2>1, InputAssumption
<1>2. /\ DOMAIN t = 1..Len(t) /\ Len(t) \in Nat
      /\ \A k \in DOMAIN t : \E i \in 1..n : t[k] = reply[i]
      /\ Ordered(t)
  <2> HIDE DEF n
  <2> QED BY <1>1, NormaliseOrders
<1> HIDE DEF t, n, allowed
<1> PICK m \in Nat : m = Len(t)
  BY <1>2
<1> DEFINE kept == Unobjectionable(t, m, allowed)
<1>3. /\ DOMAIN answer = 1..Cardinality(kept) /\ Cardinality(kept) \in Nat
      /\ \A k \in DOMAIN answer : \E i \in kept : answer[k] = t[i]
      /\ Ordered(answer)
  <2>1. DOMAIN t = 1..m /\ Ordered(t)
    BY <1>2
  <2> QED BY <2>1, GuardrailOnlyDrops DEF OnlyDrops
<1> HIDE DEF answer
<1>4. \A k \in DOMAIN answer : Stands(answer[k], q)
  <2> TAKE k \in DOMAIN answer
  <2>1. PICK i \in 1..m : answer[k] = t[i] /\ t[i].cites \subseteq allowed
    BY <1>3 DEF Unobjectionable
  <2>2. PICK j \in 1..n : t[i] = reply[j]
    BY <1>2
  <2>3. Stands(reply[j], q)
    BY <1>1, <2>1, <2>2, ValidStands DEF allowed
  <2> QED BY <2>1, <2>2, <2>3
<1> HIDE DEF kept
<1> QED BY <1>3, <1>4, OrderedIsSound DEF answer, t, allowed

-----------------------------------------------------------------------------
(* The service *)

\* Whose the answer is can be told from how it came about.
Attributed(row) ==
  /\ row.by = "llm" => row.mode # "deterministic" /\ row.author = row.model
  /\ row.by = "deterministic" => row.mode = "deterministic" /\ row.author = NoModel

AtChat(q) ==
  /\ {"at", "mode", "related", "past", "fit", "attempt", "incidents"} \subseteq DOMAIN q
  /\ q = [f \in DOMAIN q |-> q[f]]
  /\ q.mode \in Modes \ {"deterministic"}
  /\ q.related \in SUBSET LateAnomalies /\ q.incidents \in SUBSET Corpus
  /\ q.attempt \in Nat \ {0}
  /\ q.attempt # 1 => q.author \in Authors

Complete(q) ==
  q.mode # "llm_only" => /\ q.answer # <<>>
                         /\ q.by # "llm" => Len(q.answer) = WholeRanking(q)

AtSave(q) ==
  /\ q.mode \in Modes /\ q.by \in Answers /\ q.model \in Authors /\ q.author \in Authors
  /\ q.related \in SUBSET LateAnomalies
  /\ Attributed(q)
  /\ SoundAnswer(q.answer, q)
  /\ Roomy => Complete(q)

AtHit(q, now) ==
  /\ q.row.mode = q.mode /\ q.row.model = ModelVersionFor(q.mode) /\ q.row.fingerprint = now
  /\ q.row.by \in Reusable
  /\ Attributed(q.row)

RequestInv(q, now) ==
  /\ q.at \in {"idle", "read", "look", "prepare", "chat", "save", "hit"}
  /\ q.at = "read" => q.mode \in Modes
  /\ q.at \in {"look", "prepare"} => /\ q = [at |-> q.at, mode |-> q.mode, related |-> q.related]
                                     /\ q.mode \in Modes /\ q.related \in SUBSET LateAnomalies
  /\ q.at = "chat" => AtChat(q)
  /\ q.at = "save" => AtSave(q)
  /\ q.at = "hit" => AtHit(q, now)

DiagnosisInv ==
  /\ stored \in SUBSET LateAnomalies /\ closed \in BOOLEAN /\ config \in 0..MaxRestarts
  /\ fingerprint \in 0..config
  /\ request = [r \in Requests |-> request[r]]
  /\ \A r \in Requests : RequestInv(request[r], fingerprint)
  /\ analyses \in Seq(AnalysisRow)
  /\ \A i \in DOMAIN analyses : Attributed(analyses[i])

LEMMA IdleIsFine ==
  ASSUME NEW now PROVE RequestInv(NoRequest, now)
BY DEF RequestInv, NoRequest

\* A step of one request, the rest staying as it is.
LEMMA OneMoves ==
  ASSUME DiagnosisInv, NEW r \in Requests, NEW state, RequestInv(state, fingerprint), Goes(r, state),
         UNCHANGED <<stored, closed, config, fingerprint, analyses>>
  PROVE  DiagnosisInv'
<1>1. \A s \in Requests : request'[s] = IF s = r THEN state ELSE request[s]
  BY DEF DiagnosisInv, Goes
<1>2. \A s \in Requests : RequestInv(request'[s], fingerprint)
  BY <1>1 DEF DiagnosisInv
<1>3. request' = [s \in Requests |-> request'[s]]
  BY DEF DiagnosisInv, Goes
<1> QED BY <1>2, <1>3 DEF DiagnosisInv

LEMMA Configured ==
  /\ \A m \in Range(Chain) : ServedBy[m] \subseteq Authors /\ NoModel \notin ServedBy[m]
  /\ NoModel \in Authors
  /\ \A mode : ModelVersionFor(mode) \in Authors
<1>1. \A m \in Range(Chain) : ServedBy[m] \subseteq Authors
  BY DEF Authors
<1>2. Chain[1] \in Range(Chain)
  BY ServiceAssumption DEF Range
<1>3. Chain[1] \in Authors
  <2>1. \A m \in Range(Chain) : m \in ServedBy[m]
    BY ServiceAssumption
  <2>2. PICK m \in Range(Chain) : m = Chain[1]
    BY <1>2
  <2>3. m \in ServedBy[m] /\ ServedBy[m] \subseteq Authors
    BY <1>1, <2>1
  <2> QED BY <2>2, <2>3
<1>4. NoModel \in Authors
  BY DEF Authors
<1>5. \A m \in Range(Chain) : NoModel \notin ServedBy[m]
  BY ServiceAssumption
<1>6. \A mode : ModelVersionFor(mode) \in Authors
  BY <1>3, <1>4 DEF ModelVersionFor
<1> QED BY <1>1, <1>4, <1>5, <1>6

\* The mode, the related anomalies, the incidents and the past are all that
\* soundness and completeness look at.
LEMMA SameReading ==
  ASSUME NEW p, NEW q, p.mode = q.mode, p.related = q.related, p.incidents = q.incidents,
         p.past = q.past
  PROVE  /\ \A answer : SoundAnswer(answer, p) <=> SoundAnswer(answer, q)
         /\ WholeRanking(p) = WholeRanking(q)
<1>1. ReportFor(p) = ReportFor(q)
  BY DEF ReportFor, WeightFor
<1>2. EvidenceRead(p) = EvidenceRead(q)
  BY <1>1, ReportsAre DEF EvidenceRead
<1>3. \A s : RecordsNaming(s, p) = RecordsNaming(s, q)
  BY DEF RecordsNaming
<1>4. \A a, s : CalledFor(a, s, p) <=> CalledFor(a, s, q)
  BY DEF CalledFor
<1>5. \A h : Stands(h, p) <=> Stands(h, q)
  BY <1>2, <1>3, <1>4 DEF Stands
<1> QED BY <1>1, <1>5 DEF SoundAnswer, WholeRanking

\* A request that has its answer.
LEMMA AnsweredStep ==
  ASSUME DiagnosisInv, NEW r \in Requests, NEW q, NEW by \in Answers, NEW author \in Authors, NEW answer,
         q.mode \in Modes, q.related \in SUBSET LateAnomalies,
         by = "llm" => author # NoModel /\ q.mode # "deterministic",
         by = "deterministic" => author = NoModel /\ q.mode = "deterministic",
         SoundAnswer(answer, q),
         Roomy /\ q.mode # "llm_only" =>
           answer # <<>> /\ (by # "llm" => Len(answer) = WholeRanking(q)),
         Answered(r, q, by, author, answer)
  PROVE  DiagnosisInv'
<1> DEFINE state == [at |-> "save", mode |-> q.mode, by |-> by, author |-> author,
                     model |-> StoredModel(q, author), answer |-> answer,
                     related |-> q.related, incidents |-> q.incidents, past |-> q.past]
<1>1. Goes(r, state) /\ UNCHANGED <<stored, closed, config, fingerprint, analyses>>
  BY DEF Answered
<1>2. /\ state.at = "save" /\ state.mode = q.mode /\ state.by = by /\ state.author = author
      /\ state.model = StoredModel(q, author) /\ state.answer = answer
      /\ state.related = q.related /\ state.incidents = q.incidents /\ state.past = q.past
  OBVIOUS
<1> HIDE DEF state
<1>3. StoredModel(q, author) \in Authors /\ (author # NoModel => StoredModel(q, author) = author)
  BY Configured DEF StoredModel
<1>4. Attributed(state)
  BY <1>2, <1>3 DEF Attributed
<1>5. SoundAnswer(state.answer, state) /\ (Roomy => Complete(state))
  BY <1>2, SameReading DEF Complete
<1>6. RequestInv(state, fingerprint)
  BY <1>2, <1>3, <1>4, <1>5 DEF RequestInv, AtSave
<1> QED BY <1>1, <1>6, OneMoves

\* The ranking stands in: for a model that is not asked, or does not help.
LEMMA WithoutModelStep ==
  ASSUME DiagnosisInv, NEW r \in Requests, NEW q,
         NEW by \in {"deterministic", "deterministic_fallback"}, NEW author \in Authors,
         q.mode \in Modes, q.related \in SUBSET LateAnomalies, q.incidents \in SUBSET Corpus,
         by = "deterministic" => author = NoModel /\ q.mode = "deterministic",
         WithoutModel(r, q, by, author)
  PROVE  DiagnosisInv'
<1>1. CASE q.mode = "llm_only"
  <2>1. Answered(r, q, "llm_failed", author, <<>>)
    BY <1>1 DEF WithoutModel
  <2>2. SoundAnswer(<<>>, q)
    BY DEF SoundAnswer
  <2> QED BY <1>1, <2>1, <2>2, AnsweredStep DEF Answers
<1>2. CASE q.mode # "llm_only"
  <2> DEFINE prompt == IF q.at = "chat" THEN PromptOf(q) ELSE {}
             answer == ApplyGuardrail(DeterministicDiagnosis(ReportFor(q)),
                                      AllowedIds(TheAnomaly.id, {ReportFor(q)}, prompt))
  <2>1. Answered(r, q, by, author, answer)
    BY <1>2, ReportsAre DEF WithoutModel
  <2>2. prompt \in {{}, PromptOf(q)}
    OBVIOUS
  <2>3. SoundAnswer(answer, q) /\ (Roomy => Len(answer) = WholeRanking(q) /\ answer # <<>>)
    <3> HIDE DEF prompt
    <3> QED BY <1>2, <2>2, RankingAnswers
  <2> HIDE DEF answer
  <2> QED BY <2>1, <2>3, AnsweredStep DEF Answers, Reusable
<1> QED BY <1>1, <1>2

LEMMA PrepareStep ==
  ASSUME DiagnosisInv, NEW r \in Requests, NEW incidents \in SUBSET Corpus,
         NEW past, NEW fit, Prepare(r, incidents, past, fit)
  PROVE  DiagnosisInv'
<1> DEFINE q == [at |-> "prepare", mode |-> request[r].mode, related |-> request[r].related,
                 past |-> past, fit |-> fit, attempt |-> 1, incidents |-> incidents]
<1>1. /\ request[r].mode \in Modes /\ request[r].related \in SUBSET LateAnomalies
  BY DEF DiagnosisInv, RequestInv, Prepare, IsAt
<1>2. /\ q.mode = request[r].mode /\ q.related = request[r].related /\ q.incidents = incidents
      /\ q.at = "prepare"
  OBVIOUS
<1>3. \/ /\ q.mode = "deterministic"
         /\ WithoutModel(r, q, "deterministic", NoModel)
      \/ WithoutModel(r, q, "deterministic_fallback", NoModel)
      \/ /\ q.mode # "deterministic"
         /\ Goes(r, [q EXCEPT !.at = "chat"]) /\ UNCHANGED <<stored, closed, config, fingerprint, analyses>>
  BY Zenon DEF Prepare
<1>4. ASSUME q.mode # "deterministic" PROVE RequestInv([q EXCEPT !.at = "chat"], fingerprint)
  <2> PICK state : state = [q EXCEPT !.at = "chat"]
    OBVIOUS
  <2>1. state = [at |-> "chat", mode |-> request[r].mode, related |-> request[r].related,
                 past |-> past, fit |-> fit, attempt |-> 1, incidents |-> incidents]
    OBVIOUS
  <2>2. AtChat(state)
    BY <1>1, <1>4, <2>1 DEF AtChat
  <2>3. state.at = "chat"
    BY <2>1
  <2> HIDE DEF q
  <2> QED BY <2>2, <2>3 DEF RequestInv
<1> HIDE DEF q
<1>5. CASE q.mode = "deterministic" /\ WithoutModel(r, q, "deterministic", NoModel)
  BY <1>1, <1>2, <1>5, Configured, WithoutModelStep
<1>6. CASE WithoutModel(r, q, "deterministic_fallback", NoModel)
  BY <1>1, <1>2, <1>6, Configured, WithoutModelStep
<1> QED BY <1>3, <1>4, <1>5, <1>6, OneMoves

LEMMA UnavailableStep ==
  ASSUME DiagnosisInv, NEW r \in Requests, ChainUnavailable(r) PROVE DiagnosisInv'
<1> PICK q : q = request[r]
  OBVIOUS
<1> PICK author : author = IF q.attempt = 1 THEN NoModel ELSE q.author
  OBVIOUS
<1>1. AtChat(q) /\ WithoutModel(r, q, "deterministic_fallback", author)
  BY DEF DiagnosisInv, RequestInv, ChainUnavailable, IsAt
<1>2. author \in Authors
  BY <1>1, Configured DEF AtChat
<1> QED BY <1>1, <1>2, WithoutModelStep DEF AtChat

LEMMA ReplyStep ==
  ASSUME DiagnosisInv, NEW r \in Requests, NEW m, NEW author, NEW reply \in Replies,
         ModelReplies(r, m, author, reply)
  PROVE  DiagnosisInv'
<1> PICK q : q = request[r]
  OBVIOUS
<1> PICK kept : kept = ApplyGuardrail(Normalise(reply),
                         AllowedIds(TheAnomaly.id, ReportsOf(q, q.incidents), PromptOf(q)))
  OBVIOUS
<1> DEFINE again == [f \in DOMAIN q \cup {"author"} |->
                       IF f = "attempt" THEN q.attempt + 1
                       ELSE IF f = "author" THEN author ELSE q[f]]
<1>1. q.at = "chat" /\ AtChat(q)
  BY DEF DiagnosisInv, RequestInv, ModelReplies, IsAt
<1>2. author \in Authors /\ author # NoModel
  BY Configured DEF ModelReplies, MayReply
<1>3. \/ Valid(reply, PromptOf(q)) /\ kept # <<>> /\ Answered(r, q, "llm", author, kept)
      \/ WithoutModel(r, q, "deterministic_fallback", author)
      \/ Goes(r, again) /\ UNCHANGED <<stored, closed, config, fingerprint, analyses>>
  BY Zenon DEF ModelReplies
<1>4. CASE Valid(reply, PromptOf(q)) /\ kept # <<>> /\ Answered(r, q, "llm", author, kept)
  <2>1. SoundAnswer(kept, q)
    BY <1>1, <1>4, RepliesAnswer DEF AtChat
  <2> QED BY <1>1, <1>2, <1>4, <2>1, AnsweredStep DEF AtChat, Answers, Reusable
<1>5. CASE WithoutModel(r, q, "deterministic_fallback", author)
  BY <1>1, <1>2, <1>5, WithoutModelStep DEF AtChat
<1>6. CASE Goes(r, again) /\ UNCHANGED <<stored, closed, config, fingerprint, analyses>>
  <2>1. /\ DOMAIN again = DOMAIN q \cup {"author"}
        /\ again = [f \in DOMAIN again |-> again[f]]
        /\ again.attempt = q.attempt + 1 /\ again.author = author
        /\ \A f \in DOMAIN q \ {"attempt", "author"} : again[f] = q[f]
    BY <1>1 DEF AtChat
  <2> HIDE DEF again
  <2>2. AtChat(again) /\ again.at = "chat"
    BY <1>1, <1>2, <2>1 DEF AtChat
  <2>3. RequestInv(again, fingerprint)
    BY <2>2 DEF RequestInv
  <2> QED BY <1>6, <2>3, OneMoves
<1> QED BY <1>3, <1>4, <1>5, <1>6

LEMMA SaveStep ==
  ASSUME DiagnosisInv, NEW r \in Requests, Save(r) PROVE DiagnosisInv'
<1> PICK q : q = request[r]
  OBVIOUS
<1> PICK row : row = [mode |-> q.mode, by |-> q.by, model |-> q.model, author |-> q.author,
                      fingerprint |-> fingerprint, closed |-> closed, related |-> q.related]
  OBVIOUS
<1>1. AtSave(q)
  BY DEF DiagnosisInv, RequestInv, Save, IsAt
<1>2. analyses' = Append(analyses, row) /\ UNCHANGED <<stored, closed, config, fingerprint>> /\ Goes(r, NoRequest)
  BY DEF Save
<1>3. row \in AnalysisRow /\ Attributed(row)
  <2>1. fingerprint \in Nat /\ closed \in BOOLEAN
    BY ServiceAssumption DEF DiagnosisInv
  <2> QED BY <1>1, <2>1 DEF AtSave, AnalysisRow, Attributed
<1>4. analyses' \in Seq(AnalysisRow) /\ \A i \in DOMAIN analyses' : Attributed(analyses'[i])
  <2>1. analyses \in Seq(AnalysisRow) /\ \A i \in DOMAIN analyses : Attributed(analyses[i])
    BY DEF DiagnosisInv
  <2>2. \A i \in DOMAIN analyses' :
          analyses'[i] = IF i = Len(analyses) + 1 THEN row ELSE analyses[i]
    BY <1>2, <1>3, <2>1
  <2>3. \A i \in DOMAIN analyses' : i = Len(analyses) + 1 \/ i \in DOMAIN analyses
    BY <1>2, <1>3, <2>1
  <2> QED BY <1>2, <1>3, <2>1, <2>2, <2>3
<1>5. request' = [s \in Requests |-> request'[s]] /\ \A s \in Requests : RequestInv(request'[s], fingerprint)
  BY <1>2, IdleIsFine DEF DiagnosisInv, Goes
<1> QED BY <1>2, <1>4, <1>5 DEF DiagnosisInv

LEMMA ServeStep ==
  ASSUME DiagnosisInv, NEW r \in Requests, ServeStored(r) PROVE DiagnosisInv'
<1> PICK mode : mode = request[r].mode
  OBVIOUS
<1>1. PICK i \in LatestReusable(mode) : Goes(r, [at |-> "hit", mode |-> mode, row |-> analyses[i]])
  BY DEF ServeStored
<1> PICK row : row = analyses[i]
  OBVIOUS
<1>2. /\ row.mode = mode /\ row.model = ModelVersionFor(mode) /\ row.fingerprint = fingerprint
      /\ row.by \in Reusable /\ Attributed(row)
  BY <1>1 DEF LatestReusable, DiagnosisInv
<1>3. RequestInv([at |-> "hit", mode |-> mode, row |-> row], fingerprint)
  BY <1>2 DEF RequestInv, AtHit
<1>4. UNCHANGED <<stored, closed, config, fingerprint, analyses>>
  BY DEF ServeStored
<1> QED BY <1>1, <1>3, <1>4, OneMoves

LEMMA RefusedStep ==
  ASSUME DiagnosisInv, NEW r \in Requests, Refused(r) PROVE DiagnosisInv'
BY IdleIsFine, OneMoves DEF Refused

LEMMA ReadSteps ==
  ASSUME DiagnosisInv, NEW r \in Requests PROVE
    /\ \A mode \in Modes : \A refresh : Analyze(r, mode, refresh) => DiagnosisInv'
    /\ ScoringInputs(r) => DiagnosisInv'
    /\ NothingStored(r) => DiagnosisInv'
<1>1. ASSUME NEW mode \in Modes, NEW refresh, Analyze(r, mode, refresh) PROVE DiagnosisInv'
  <2> PICK state : state = [at |-> "read", mode |-> mode, refresh |-> refresh]
    OBVIOUS
  <2>1. RequestInv(state, fingerprint)
    BY DEF RequestInv
  <2> QED BY <1>1, <2>1, OneMoves DEF Analyze
<1>2. ASSUME ScoringInputs(r) PROVE DiagnosisInv'
  <2> PICK state : state = [at |-> IF request[r].refresh THEN "prepare" ELSE "look",
                            mode |-> request[r].mode, related |-> stored]
    OBVIOUS
  <2>1. request[r].mode \in Modes /\ stored \in SUBSET LateAnomalies
    BY <1>2 DEF ScoringInputs, IsAt, DiagnosisInv, RequestInv
  <2>2. RequestInv(state, fingerprint)
    BY <2>1 DEF RequestInv
  <2> QED BY <1>2, <2>2, OneMoves DEF ScoringInputs
<1>3. ASSUME NothingStored(r) PROVE DiagnosisInv'
  <2> PICK q : q = request[r]
    OBVIOUS
  <2>1. q.at = "look" /\ q = [at |-> q.at, mode |-> q.mode, related |-> q.related]
        /\ q.mode \in Modes /\ q.related \in SUBSET LateAnomalies
    BY <1>3 DEF NothingStored, IsAt, DiagnosisInv, RequestInv
  <2> PICK state : state = [q EXCEPT !.at = "prepare"]
    OBVIOUS
  <2>2. state = [at |-> "prepare", mode |-> q.mode, related |-> q.related]
    BY <2>1
  <2>3. RequestInv(state, fingerprint)
    BY <2>1, <2>2 DEF RequestInv
  <2> QED BY <1>3, <2>3, OneMoves DEF NothingStored
<1> QED BY <1>1, <1>2, <1>3

LEMMA WorldSteps ==
  ASSUME DiagnosisInv PROVE
    /\ \A o \in LateAnomalies : Arrive(o) => DiagnosisInv'
    /\ WindowCloses => DiagnosisInv'
    /\ Reconfigure => DiagnosisInv'
    /\ UNCHANGED diagnosisVars => DiagnosisInv'
<1>1. ASSUME NEW o \in LateAnomalies, Arrive(o) PROVE DiagnosisInv'
  BY <1>1 DEF Arrive, DiagnosisInv
<1>2. ASSUME WindowCloses PROVE DiagnosisInv'
  BY <1>2 DEF WindowCloses, DiagnosisInv
<1>3. ASSUME Reconfigure PROVE DiagnosisInv'
  <2>1. config' \in 0..MaxRestarts /\ fingerprint' \in 0..config'
    BY <1>3, ServiceAssumption DEF Reconfigure, DiagnosisInv
  <2>2. \A r \in Requests : request'[r] = NoRequest
    BY <1>3 DEF Reconfigure
  <2>3. \A r \in Requests : RequestInv(request'[r], fingerprint')
    BY <2>2, IdleIsFine
  <2> QED BY <1>3, <2>1, <2>3 DEF Reconfigure, DiagnosisInv
<1>4. ASSUME UNCHANGED diagnosisVars PROVE DiagnosisInv'
  BY <1>4 DEF diagnosisVars, DiagnosisInv
<1> QED BY <1>1, <1>2, <1>3, <1>4

LEMMA DiagnosisStep ==
  ASSUME DiagnosisInv, [DiagnosisNext]_diagnosisVars PROVE DiagnosisInv'
<1>1. CASE UNCHANGED diagnosisVars
  BY <1>1, WorldSteps
<1>2. ASSUME NEW o \in LateAnomalies, Arrive(o) PROVE DiagnosisInv'
  BY <1>2, WorldSteps
<1>3. CASE WindowCloses
  BY <1>3, WorldSteps
<1>4. CASE Reconfigure
  BY <1>4, WorldSteps
<1>5. ASSUME NEW r \in Requests,
             \/ \E mode \in Modes, refresh \in BOOLEAN : Analyze(r, mode, refresh)
             \/ ScoringInputs(r)
             \/ ServeStored(r)
             \/ NothingStored(r)
      PROVE  DiagnosisInv'
  BY <1>5, ReadSteps, ServeStep
<1>6. ASSUME NEW r \in Requests, DatabaseFails(r) \/ SaveFails(r) \/ Respond(r) PROVE DiagnosisInv'
  BY <1>6, RefusedStep DEF DatabaseFails, SaveFails, Respond
<1>7. ASSUME NEW r \in Requests, NEW incidents \in SUBSET Corpus, NEW past \in {{}, History},
             NEW fit \in Fits, Prepare(r, incidents, past, fit)
      PROVE  DiagnosisInv'
  BY <1>7, PrepareStep
<1>8. ASSUME NEW r \in Requests, ChainUnavailable(r) \/ Save(r) PROVE DiagnosisInv'
  BY <1>8, UnavailableStep, SaveStep
<1>9. ASSUME NEW r \in Requests, NEW m \in Range(Chain), NEW reply \in Replies,
             NEW author \in ServedBy[m], ModelReplies(r, m, author, reply)
      PROVE  DiagnosisInv'
  BY <1>9, ReplyStep
<1> QED BY <1>1, <1>2, <1>3, <1>4, <1>5, <1>6, <1>7, <1>8, <1>9, Zenon DEF DiagnosisNext

LEMMA DiagnosisStart ==
  ASSUME DiagnosisInit PROVE DiagnosisInv
<1>1. \A r \in Requests : request[r] = NoRequest
  BY DEF DiagnosisInit
<1>2. \A r \in Requests : RequestInv(request[r], fingerprint)
  BY <1>1, IdleIsFine
<1>3. analyses \in Seq(AnalysisRow) /\ \A i \in DOMAIN analyses : Attributed(analyses[i])
  BY DEF DiagnosisInit
<1>4. config \in 0..MaxRestarts /\ fingerprint \in 0..config
  BY ServiceAssumption DEF DiagnosisInit
<1>5. request = [r \in Requests |-> request[r]]
  BY DEF DiagnosisInit
<1> QED BY <1>2, <1>3, <1>4, <1>5 DEF DiagnosisInit, DiagnosisInv

\* Each request is as far as its place says: what it holds there was read, asked
\* or answered as the service's handlers do, whatever the others do meanwhile.
THEOREM DiagnosisInvariant == DiagnosisSpec => []DiagnosisInv
<1>1. DiagnosisInit => DiagnosisInv
  BY DiagnosisStart
<1>2. DiagnosisInv /\ [DiagnosisNext]_diagnosisVars => DiagnosisInv'
  BY DiagnosisStep
<1> QED BY <1>1, <1>2, PTL DEF DiagnosisSpec

\* The table of analyses holds rows of a mode, an author and a fingerprint.
THEOREM DiagnosisTypes == DiagnosisSpec => []DiagnosisTypeOK
<1>1. DiagnosisInv => DiagnosisTypeOK
  BY DEF DiagnosisInv, RequestInv, DiagnosisTypeOK
<1> QED BY <1>1, DiagnosisInvariant, PTL

\* For any graph, weights, records, corpus and models: no answer cites, claims or
\* proposes what the records q read do not bear out, or repeats a service.
THEOREM AnswersAreSound == DiagnosisSpec => []HypothesesAreSound
<1>1. DiagnosisInv => HypothesesAreSound
  BY DEF DiagnosisInv, RequestInv, AtSave, SoundAnswer, HypothesesAreSound, IsAt
<1> QED BY <1>1, DiagnosisInvariant, PTL

\* A stored answer that is served again was written by the model that is asked
\* now, or by the scorer where none is, under a configuration of the fingerprint
\* in force: no fallback model's answer stands for it.  (stored_analysis in analyses.py.)
THEOREM HitsAreFaithful == DiagnosisSpec => []CacheHitsAreFaithful
<1>1. ASSUME DiagnosisInv PROVE CacheHitsAreFaithful
  <2> SUFFICES ASSUME NEW r \in Requests, request[r].at = "hit"
               PROVE  LET row == request[r].row
                      IN /\ row.mode = request[r].mode
                         /\ row.author = ModelVersionFor(row.mode)
                         /\ row.fingerprint = fingerprint
                         /\ row.by = IF row.mode = "deterministic" THEN "deterministic" ELSE "llm"
    BY DEF CacheHitsAreFaithful, IsAt
  <2>1. AtHit(request[r], fingerprint)
    BY <1>1 DEF DiagnosisInv, RequestInv
  <2> QED BY <2>1 DEF AtHit, Attributed, Reusable, ModelVersionFor
<1> QED BY <1>1, DiagnosisInvariant, PTL

\* A mode that scores always answers, and without a model with the whole ranking,
\* if a squeezed prompt has room for the candidates of an answer: the defaults of
\* settings.py have it, and nothing checks it of other values.
THEOREM ScoringAlwaysAnswers ==
  ASSUME Roomy PROVE DiagnosisSpec => []ScoredModesAnswer
<1>1. ASSUME DiagnosisInv PROVE ScoredModesAnswer
  <2> SUFFICES ASSUME NEW r \in Requests, request[r].at = "save", request[r].mode # "llm_only"
               PROVE  /\ request[r].answer # <<>>
                      /\ request[r].by # "llm" =>
                           \E rep \in ReportsOf(request[r], request[r].incidents) :
                             Len(request[r].answer) = Min({MaxHypotheses, Len(rep.candidates)})
    BY DEF ScoredModesAnswer, IsAt
  <2>1. Complete(request[r])
    BY <1>1 DEF DiagnosisInv, RequestInv, AtSave
  <2>2. ReportsOf(request[r], request[r].incidents) = {ReportFor(request[r])}
    BY ReportsAre
  <2> QED BY <2>1, <2>2 DEF Complete, WholeRanking
<1> QED BY <1>1, DiagnosisInvariant, PTL

-----------------------------------------------------------------------------
(* The reader of the dataset knows when it is behind.                      *)

\* What the reader notes is a time the file had before it was opened, and
\* every rename after that takes the file further.
ReaderInv ==
  /\ mtime \in Nat
  /\ mtime = 0 => DOMAIN dataset = {}
  /\ reader = [at |-> reader.at, seen |-> reader.seen, mtime |-> reader.mtime,
               outcomes |-> reader.outcomes]
  /\ reader.seen \in Nat /\ reader.seen <= mtime
  /\ reader.mtime \in Nat /\ reader.mtime <= mtime
  /\ reader.mtime = mtime => reader.outcomes = Outcomes(dataset)

LEMMA NoRowsNoOutcomes ==
  ASSUME NEW rows, DOMAIN rows = {} PROVE Outcomes(rows) = {}
BY DEF Outcomes

LEMMA ReaderStart ==
  ASSUME DatasetInit PROVE ReaderInv
<1>1. CASE OldRows = {}
  <2>1. DOMAIN dataset = {}
    BY <1>1 DEF DatasetInit
  <2>2. Outcomes(dataset) = {}
    BY <2>1, NoRowsNoOutcomes
  <2> QED BY <1>1, <2>1, <2>2 DEF DatasetInit, ReaderInv
<1>2. CASE OldRows # {}
  BY <1>2 DEF DatasetInit, ReaderInv
<1> QED BY <1>1, <1>2

\* A rename makes whatever the reader has seen an earlier state of the file.
LEMMA RenameStep ==
  ASSUME ReaderInv, Rename PROVE ReaderInv'
<1>1. mtime' = mtime + 1 /\ reader' = reader
  BY DEF Rename
<1> QED BY <1>1 DEF ReaderInv

LEMMA ReaderSteps ==
  ASSUME ReaderInv, NoFile \/ Stat \/ ReadFile \/ ReadFails PROVE ReaderInv'
<1>1. UNCHANGED <<dataset, mtime>> /\ Outcomes(dataset)' = Outcomes(dataset)
  BY DEF NoFile, Stat, ReadFile, ReadFails, Outcomes, ParseRow, InjectedRootCause, StaleVerdict
<1>2. CASE NoFile
  <2>1. reader' = [reader EXCEPT !.mtime = 0, !.outcomes = {}]
    BY <1>2 DEF NoFile
  <2>2. mtime = 0 => Outcomes(dataset) = {}
    BY NoRowsNoOutcomes DEF ReaderInv
  <2> DEFINE found == Outcomes(dataset)
  <2>3. reader' = [at |-> reader.at, seen |-> reader.seen, mtime |-> 0, outcomes |-> {}]
    BY <2>1 DEF ReaderInv
  <2>4. found' = found
    BY <1>1
  <2> HIDE DEF found
  <2>5. mtime' = 0 => reader'.outcomes = found'
    BY <1>1, <2>2, <2>3, <2>4 DEF found
  <2>6. /\ reader'.at = reader.at /\ reader'.seen = reader.seen /\ reader'.mtime = 0
        /\ reader' = [at |-> reader'.at, seen |-> reader'.seen, mtime |-> reader'.mtime,
                      outcomes |-> reader'.outcomes]
    BY <2>3
  <2>7. mtime' \in Nat /\ (mtime' = 0 => DOMAIN dataset' = {})
    BY <1>1 DEF ReaderInv
  <2>8. reader.seen \in Nat /\ reader.seen <= mtime'
    BY <1>1 DEF ReaderInv
  <2> QED BY <2>5, <2>6, <2>7, <2>8 DEF ReaderInv, found
<1>3. CASE Stat
  <2>1. reader' = [reader EXCEPT !.at = "open", !.seen = mtime]
    BY <1>3 DEF Stat
  <2>2. reader' = [at |-> "open", seen |-> mtime, mtime |-> reader.mtime, outcomes |-> reader.outcomes]
    BY <2>1 DEF ReaderInv
  <2> QED BY <1>1, <2>2 DEF ReaderInv
<1>4. CASE ReadFile
  <2>1. reader' = [at |-> "idle", seen |-> 0, mtime |-> reader.seen, outcomes |-> Outcomes(dataset)]
    BY <1>4 DEF ReadFile
  <2> QED BY <1>1, <2>1 DEF ReaderInv
<1>5. CASE ReadFails
  <2>1. reader' = [reader EXCEPT !.at = "idle", !.seen = 0]
    BY <1>5 DEF ReadFails
  <2>2. reader' = [at |-> "idle", seen |-> 0, mtime |-> reader.mtime, outcomes |-> reader.outcomes]
    BY <2>1 DEF ReaderInv
  <2> QED BY <1>1, <2>2 DEF ReaderInv
<1> QED BY <1>2, <1>3, <1>4, <1>5

\* Steps that neither replace the file nor read it.
LEMMA OtherSteps ==
  ASSUME ReaderInv, UNCHANGED <<dataset, mtime, reader>> PROVE ReaderInv'
<1>1. Outcomes(dataset)' = Outcomes(dataset)
  BY DEF Outcomes, ParseRow, InjectedRootCause, StaleVerdict
<1> QED BY <1>1 DEF ReaderInv

LEMMA DatasetStep ==
  ASSUME ReaderInv, [DatasetNext]_datasetVars PROVE ReaderInv'
<1>1. CASE Dawn \/ Report \/ Inject \/ Wipe \/ (\E a \in Anomalies : Detect(a))
  <2>1. UNCHANGED <<dataset, mtime, reader>>
    BY <1>1 DEF Dawn, Report, Inject, Wipe, Detect, Fixed
  <2> QED BY <2>1, OtherSteps
<1>2. CASE \E status \in {"recovered", "failed_recover"} : FaultCloses(status)
  <2>1. UNCHANGED <<dataset, mtime, reader>>
    BY <1>2 DEF FaultCloses, Fixed
  <2> QED BY <2>1, OtherSteps
<1>3. CASE \/ \E a \in Anomalies, services \in Rankings : Diagnose(a, services)
           \/ \E a \in Anomalies, verdict \in {"approved", "rejected"}, rank \in Ranks :
                DecideIncident(a, verdict, rank)
  <2>1. UNCHANGED <<dataset, mtime, reader>>
    BY <1>3 DEF Diagnose, DecideIncident, Fixed
  <2> QED BY <2>1, OtherSteps
<1>4. CASE BeginExport \/ WriteDataset \/ ExportFails \/ UNCHANGED datasetVars
  <2>1. UNCHANGED <<dataset, mtime, reader>>
    BY <1>4 DEF BeginExport, WriteDataset, ExportFails, datasetVars
  <2> QED BY <2>1, OtherSteps
<1> QED BY <1>1, <1>2, <1>3, <1>4, RenameStep, ReaderSteps DEF DatasetNext

\* A reader that takes the file for unchanged has read what it holds, however
\* renames fall between its look at the time and its read, and however often a
\* read fails.  (_load in history.py, the rename in recent.py.)
THEOREM ReaderStaysUpToDate ==
  DatasetSpec => []ReaderIsUpToDate
<1>1. DatasetInit => ReaderInv
  BY ReaderStart
<1>2. ReaderInv /\ [DatasetNext]_datasetVars => ReaderInv'
  BY DatasetStep
<1>3. ReaderInv => ReaderIsUpToDate
  BY DEF ReaderInv, ReaderIsUpToDate
<1> QED BY <1>1, <1>2, <1>3, PTL DEF DatasetSpec

-----------------------------------------------------------------------------
(* What a row confirmed stays confirmed.                                   *)

IsRow(row) ==
  row = [detected |-> row.detected, injected |-> row.injected, truth |-> row.truth,
         root |-> row.root, dependency |-> row.dependency,
         diagnosed |-> row.diagnosed, correct |-> row.correct,
         decision |-> row.decision, decidedAt |-> row.decidedAt, fixed |-> row.fixed,
         resolution |-> row.resolution, resolvedAt |-> row.resolvedAt]

\* A row that blames an injected fault blames the service it broke.
WellMade(row) ==
  /\ IsRow(row)
  /\ row.injected /\ row.root # Absent /\ row.root # {} =>
       row.root = {Broken}

InWindow(a, i) == detected[a] \in faults[i].inject..WindowEnd(faults[i])
IsCause(a, i) ==
  /\ i \in DOMAIN faults /\ InWindow(a, i)
  /\ \A j \in DOMAIN faults : InWindow(a, j) => j <= i

\* A fault whose recovery was noted in a row is still the anomaly's cause, as
\* far as the database remembers it.
StillTrue(a, row) ==
  a \in DOMAIN detected /\ row.injected /\ row.resolvedAt # {} =>
    \E i \in DOMAIN faults : IsCause(a, i) /\ faults[i].recovered = row.resolvedAt

Fault == [inject : Nat, recovered : SUBSET Nat, status : {"running", "recovered", "failed_recover"}]

\* What has been seen is past, and a running fault has not recovered.
DatabaseInv ==
  /\ today \in Nat
  /\ \A a \in DOMAIN detected : detected[a] \in Nat /\ detected[a] <= today
  /\ faults \in Seq(Fault)
  /\ \A i \in DOMAIN faults :
       /\ faults[i].recovered = {} \/ \E t \in Nat : faults[i].recovered = {t}
       /\ faults[i].status = "running" => faults[i].recovered = {}

RowsInv ==
  /\ \A a \in DOMAIN dataset : WellMade(dataset[a]) /\ StillTrue(a, dataset[a])
  /\ \A a \in DOMAIN export.rows : WellMade(export.rows[a]) /\ StillTrue(a, export.rows[a])

ExportInv ==
  /\ export.at \in {"idle", "queried", "written"}
  /\ \A a \in DOMAIN export.rows \cap DOMAIN dataset : StillConfirms(a, export.rows[a], dataset[a])
  /\ export.at = "written" => DOMAIN dataset \subseteq DOMAIN export.rows

KnowledgeInv == DatabaseInv /\ RowsInv /\ ExportInv

LEMMA NothingExported ==
  NoExport = [at |-> "idle", rows |-> Empty] /\ DOMAIN NoExport.rows = {} /\ NoExport.at = "idle"
BY DEF NoExport, Empty

LEMMA KnowledgeStart ==
  ASSUME DatasetInit PROVE KnowledgeInv
<1>1. DOMAIN detected = {} /\ faults = <<>> /\ today = 0 /\ export = NoExport
  BY DEF DatasetInit, Empty
<1>2. DatabaseInv
  BY <1>1 DEF DatabaseInv
<1>3. ASSUME NEW a \in DOMAIN dataset PROVE WellMade(dataset[a]) /\ StillTrue(a, dataset[a])
  <2>1. dataset[a] = OldRow(a)
    BY DEF DatasetInit
  <2>2. IsRow(OldRow(a)) /\ OldRow(a).root = Absent
    BY DEF OldRow, IsRow
  <2> QED
    BY <1>1, <2>1, <2>2 DEF WellMade, StillTrue
<1> QED
  BY <1>1, <1>2, <1>3, NothingExported DEF KnowledgeInv, RowsInv, ExportInv

(* The end of a window, before and after the fault has recovered.          *)
LEMMA WindowEnds ==
  ASSUME DatasetAssumption, NEW inject \in Nat, NEW t \in Nat, NEW f, f.inject = inject,
         f.recovered = {} \/ f.recovered = {t}
  PROVE  /\ WindowEnd(f) \in Nat
         /\ WindowEnd(f) <= inject + Cap + Grace
         /\ f.recovered = {} => WindowEnd(f) = inject + Cap + Grace
<1>1. Cap \in Nat /\ Grace \in Nat
  BY DEF DatasetAssumption
<1> DEFINE S == f.recovered \cup {inject + Cap}
<1>2. Min(S) \in S /\ \A x \in S : Min(S) <= x
  <2>1. \E x \in S : \A y \in S : x <= y
    <3>1. CASE f.recovered = {}
      BY <1>1, <3>1
    <3>2. CASE f.recovered = {t} /\ t <= inject + Cap
      <4>1. S = {t, inject + Cap}
        BY <3>2
      <4>2. \A y \in S : t <= y
        BY <3>2, <4>1
      <4> QED
        BY <4>1, <4>2
    <3>3. CASE f.recovered = {t} /\ ~ (t <= inject + Cap)
      <4>1. S = {t, inject + Cap}
        BY <3>3
      <4>2. \A y \in S : inject + Cap <= y
        BY <1>1, <3>3, <4>1
      <4> QED
        BY <4>1, <4>2
    <3> QED
      BY <3>1, <3>2, <3>3
  <2> QED
    BY <2>1 DEF Min
<1>3. inject + Cap \in S /\ S \subseteq Nat /\ (f.recovered = {} => S = {inject + Cap})
  BY <1>1
<1>4. WindowEnd(f) = Min(S) + Grace
  BY DEF WindowEnd
<1>5. PICK m \in Nat : m = Min(S)
  BY <1>2, <1>3
<1>6. m <= inject + Cap /\ (f.recovered = {} => m = inject + Cap)
  BY <1>2, <1>3, <1>5
<1>7. WindowEnd(f) = m + Grace
  BY <1>4, <1>5
<1> HIDE DEF S
<1> QED
  BY <1>1, <1>6, <1>7

(* The cause of an anomaly, once recovered, stays its cause.               *)
LEMMA InjectKeepsCause ==
  ASSUME DatasetAssumption, DatabaseInv, Inject, NEW a, NEW row, StillTrue(a, row)
  PROVE  StillTrue(a, row)'
<1> SUFFICES ASSUME a \in DOMAIN detected, row.injected, row.resolvedAt # {}
             PROVE  \E i \in DOMAIN faults' : IsCause(a, i)' /\ faults'[i].recovered = row.resolvedAt
  BY DEF StillTrue, Inject
<1>1. PICK i \in DOMAIN faults : IsCause(a, i) /\ faults[i].recovered = row.resolvedAt
  BY DEF StillTrue
<1>n. PICK n \in Nat : n = Len(faults) + 1
  BY DEF DatabaseInv
<1>2. /\ DOMAIN faults = 1..Len(faults) /\ Len(faults) \in Nat /\ DOMAIN faults' = 1..n
      /\ \A j \in DOMAIN faults : faults'[j] = faults[j]
      /\ faults'[n].inject = today
      /\ detected' = detected
  BY <1>n DEF Inject, DatabaseInv
<1>3. \A j \in DOMAIN faults : InWindow(a, j)' <=> InWindow(a, j)
  BY <1>2 DEF InWindow, WindowEnd
<1>5. n \notin DOMAIN faults /\ DOMAIN faults' = DOMAIN faults \cup {n}
  BY <1>n, <1>2
<1>4. ~ InWindow(a, n)'
  <2>1. detected[a] # today /\ detected[a] \in Nat /\ detected[a] <= today /\ today \in Nat
    BY DEF Inject, DatabaseInv
  <2>2. ~ (today <= detected[a])
    BY <2>1
  <2> QED
    BY <1>2, <2>2 DEF InWindow
<1>6. IsCause(a, i)'
  BY <1>1, <1>2, <1>3, <1>4, <1>5 DEF IsCause
<1> QED
  BY <1>1, <1>2, <1>5, <1>6

LEMMA CloseKeepsCause ==
  ASSUME DatasetAssumption, DatabaseInv, NEW status, FaultCloses(status), NEW a, NEW row, StillTrue(a, row)
  PROVE  StillTrue(a, row)'
<1> SUFFICES ASSUME a \in DOMAIN detected, row.injected, row.resolvedAt # {}
             PROVE  \E i \in DOMAIN faults' : IsCause(a, i)' /\ faults'[i].recovered = row.resolvedAt
  BY DEF StillTrue, FaultCloses
<1>1. PICK i \in DOMAIN faults : IsCause(a, i) /\ faults[i].recovered = row.resolvedAt
  BY DEF StillTrue
<1>2. PICK n \in DOMAIN faults : n = Len(faults)
  <2>1. PICK F : faults \in Seq(F)
    BY DEF DatabaseInv
  <2>2. faults # <<>>
    BY DEF FaultCloses
  <2>3. Len(faults) \in DOMAIN faults
    BY <2>1, <2>2
  <2> QED
    BY <2>3
<1>a. faults[n] \in Fault
  BY <1>2 DEF DatabaseInv
<1>b. PICK t \in SUBSET {today} : faults' = [faults EXCEPT ![n].status = status, ![n].recovered = t]
  BY <1>2 DEF FaultCloses
<1>c. faults'[n] = [inject |-> faults[n].inject, recovered |-> t, status |-> status]
  BY <1>2, <1>a, <1>b DEF Fault
<1>3. /\ DOMAIN faults' = DOMAIN faults /\ detected' = detected
      /\ \A j \in DOMAIN faults : j # n => faults'[j] = faults[j]
      /\ faults'[n].inject = faults[n].inject
      /\ faults'[n].recovered = {} \/ faults'[n].recovered = {today}
      /\ faults[n].recovered = {} /\ faults[n].inject \in Nat
  BY <1>2, <1>a, <1>b, <1>c DEF FaultCloses, DatabaseInv, Fault
<1>4. n # i
  BY <1>1, <1>3
<1>5. \A j \in DOMAIN faults : j # n => (InWindow(a, j)' <=> InWindow(a, j))
  BY <1>3 DEF InWindow, WindowEnd
<1>6. InWindow(a, n)' => InWindow(a, n)
  <2>1. today \in Nat /\ detected[a] \in Nat
    BY DEF DatabaseInv
  <2>2. PICK x \in Nat : x = faults[n].inject
    BY <1>3
  <2>3. PICK f : f = faults'[n]
    OBVIOUS
  <2>4. WindowEnd(f) \in Nat /\ WindowEnd(f) <= x + Cap + Grace
    BY <1>3, <2>1, <2>2, <2>3, WindowEnds
  <2>5. WindowEnd(faults[n]) = x + Cap + Grace
    BY <1>3, <2>1, <2>2, WindowEnds
  <2>6. WindowEnd(faults[n])' = WindowEnd(f)
    BY <2>3 DEF WindowEnd
  <2>7. Cap \in Nat /\ Grace \in Nat
    BY DEF DatasetAssumption
  <2> QED
    BY <1>3, <2>1, <2>2, <2>4, <2>5, <2>6, <2>7 DEF InWindow
<1>7. IsCause(a, i)'
  BY <1>1, <1>3, <1>4, <1>5, <1>6 DEF IsCause
<1> QED
  BY <1>1, <1>3, <1>4, <1>7

LEMMA RowsUnderDatabase ==
  ASSUME DatasetAssumption, DatabaseInv,
         Dawn \/ Report \/ Inject \/ Wipe
         \/ (\E a \in Anomalies : \E services : Diagnose(a, services))
         \/ (\E a \in Anomalies : \E verdict, rank : DecideIncident(a, verdict, rank))
         \/ \E status \in {"recovered", "failed_recover"} : FaultCloses(status),
         NEW a, NEW row, StillTrue(a, row)
  PROVE  StillTrue(a, row)'
<1>1. CASE \/ Dawn \/ Report \/ \E b \in Anomalies : \E services : Diagnose(b, services)
           \/ \E b \in Anomalies : \E verdict, rank : DecideIncident(b, verdict, rank)
  <2>1. UNCHANGED <<detected, faults>>
    BY <1>1 DEF Dawn, Report, Diagnose, DecideIncident
  <2> QED
    BY <2>1 DEF StillTrue, IsCause, InWindow, WindowEnd
<1>2. CASE Wipe
  <2>1. DOMAIN detected' = {}
    BY <1>2 DEF Wipe, Empty
  <2> QED
    BY <2>1 DEF StillTrue
<1> QED
  BY <1>1, <1>2, InjectKeepsCause, CloseKeepsCause

\* An anomaly is detected once: no row is about it yet.
LEMMA DetectKeepsCause ==
  ASSUME NEW b, Detect(b), NEW a, a # b, NEW row, StillTrue(a, row)
  PROVE  StillTrue(a, row)'
<1>1. /\ DOMAIN detected' = DOMAIN detected \cup {b} /\ faults' = faults
      /\ a \in DOMAIN detected => detected'[a] = detected[a]
  BY DEF Detect
<1>2. a \in DOMAIN detected => \A i \in DOMAIN faults : InWindow(a, i)' <=> InWindow(a, i)
  BY <1>1 DEF InWindow, WindowEnd
<1>3. a \in DOMAIN detected => \A i \in DOMAIN faults : IsCause(a, i)' <=> IsCause(a, i)
  BY <1>1, <1>2 DEF IsCause
<1> QED
  BY <1>1, <1>3 DEF StillTrue

LEMMA DatabaseStep ==
  ASSUME DatasetAssumption, DatabaseInv, [DatasetNext]_datasetVars
  PROVE  DatabaseInv'
<1>0. /\ today \in Nat /\ faults \in Seq(Fault)
      /\ \A a \in DOMAIN detected : detected[a] \in Nat /\ detected[a] <= today
      /\ \A i \in DOMAIN faults :
           /\ faults[i].recovered = {} \/ \E t \in Nat : faults[i].recovered = {t}
           /\ faults[i].status = "running" => faults[i].recovered = {}
  BY DEF DatabaseInv
<1>1. CASE Dawn
  <2>1. today' = today + 1 /\ UNCHANGED <<detected, faults>>
    BY <1>1 DEF Dawn
  <2>2. \A a \in DOMAIN detected : detected[a] <= today + 1
    BY <1>0
  <2> QED
    BY <1>0, <2>1, <2>2 DEF DatabaseInv
<1>2. CASE UNCHANGED <<today, detected, faults>>
  BY <1>2 DEF DatabaseInv
<1>3. CASE Wipe
  <2>1. DOMAIN detected' = {} /\ faults' = <<>> /\ today' = today
    BY <1>3 DEF Wipe, Empty
  <2> QED
    BY <1>0, <2>1 DEF DatabaseInv
<1>4. ASSUME NEW b \in Anomalies, Detect(b) PROVE DatabaseInv'
  <2>1. /\ UNCHANGED <<today, faults>> /\ DOMAIN detected' = DOMAIN detected \cup {b}
        /\ \A a \in DOMAIN detected' : detected'[a] = today \/ (a \in DOMAIN detected /\ detected'[a] = detected[a])
    BY <1>4 DEF Detect
  <2>2. \A a \in DOMAIN detected' : detected'[a] \in Nat /\ detected'[a] <= today
    BY <1>0, <2>1
  <2> QED
    BY <2>1, <2>2 DEF DatabaseInv
<1>5. CASE Inject
  <2>1. PICK f \in Fault : faults' = Append(faults, f) /\ f.recovered = {} /\ UNCHANGED <<today, detected>>
    <3>1. [inject |-> today, recovered |-> {}, status |-> "running"] \in Fault
      BY <1>0 DEF Fault
    <3> QED
      BY <1>5, <3>1 DEF Inject
  <2>2. /\ faults' \in Seq(Fault) /\ DOMAIN faults = 1..Len(faults) /\ DOMAIN faults' = 1..(Len(faults) + 1)
        /\ \A i \in DOMAIN faults' : faults'[i] = f \/ (i \in DOMAIN faults /\ faults'[i] = faults[i])
    BY <1>0, <2>1
  <2>3. \A i \in DOMAIN faults' :
          /\ faults'[i].recovered = {} \/ \E t \in Nat : faults'[i].recovered = {t}
          /\ faults'[i].status = "running" => faults'[i].recovered = {}
    BY <1>0, <2>1, <2>2
  <2> QED
    BY <1>0, <2>1, <2>2, <2>3 DEF DatabaseInv
<1>6. ASSUME NEW status \in {"recovered", "failed_recover"}, FaultCloses(status) PROVE DatabaseInv'
  <2>1. PICK t \in SUBSET {today} :
          faults' = [faults EXCEPT ![Len(faults)].status = status, ![Len(faults)].recovered = t]
    BY <1>6 DEF FaultCloses
  <2>2. Len(faults) \in DOMAIN faults /\ faults[Len(faults)] \in Fault
    <3>1. faults # <<>>
      BY <1>6 DEF FaultCloses
    <3> QED
      BY <1>0, <3>1
  <2>3. PICK n \in DOMAIN faults : n = Len(faults)
    BY <2>2
  <2>4. /\ DOMAIN faults' = DOMAIN faults
        /\ \A i \in DOMAIN faults : i # n => faults'[i] = faults[i]
        /\ faults'[n] = [inject |-> faults[n].inject, recovered |-> t, status |-> status]
    BY <2>1, <2>2, <2>3 DEF Fault
  <2>5. t = {} \/ t = {today}
    OBVIOUS
  <2>6. faults'[n] \in Fault /\ faults'[n].recovered = t /\ faults'[n].status # "running"
    BY <1>0, <2>2, <2>3, <2>4, <2>5 DEF Fault
  <2>7. UNCHANGED <<today, detected>>
    BY <1>6 DEF FaultCloses
  <2>8. faults' \in Seq(Fault)
    <3>1. \A i \in 1..Len(faults) : faults'[i] \in Fault
      BY <1>0, <2>4, <2>6
    <3>2. faults' \in [1..Len(faults) -> Fault]
      BY <1>0, <2>1, <2>2, <2>3, <2>4, <3>1
    <3> QED
      BY <1>0, <3>2
  <2>9. \A i \in DOMAIN faults' :
          /\ faults'[i].recovered = {} \/ \E u \in Nat : faults'[i].recovered = {u}
          /\ faults'[i].status = "running" => faults'[i].recovered = {}
    BY <1>0, <2>4, <2>5, <2>6
  <2> QED
    BY <1>0, <2>7, <2>8, <2>9 DEF DatabaseInv
<1>7. (\E a \in Anomalies, verdict \in {"approved", "rejected"}, rank \in Ranks : DecideIncident(a, verdict, rank))
      \/ (\E a \in Anomalies, services \in Rankings : Diagnose(a, services))
      \/ Report \/ BeginExport \/ WriteDataset \/ Rename \/ ExportFails
      \/ NoFile \/ Stat \/ ReadFile \/ ReadFails \/ UNCHANGED datasetVars
      => UNCHANGED <<today, detected, faults>>
  BY DEF DecideIncident, Diagnose, Report, BeginExport, WriteDataset, Rename, ExportFails, NoFile, Stat,
         ReadFile, ReadFails, datasetVars, databaseVars
<1> QED
  BY <1>1, <1>2, <1>3, <1>4, <1>5, <1>6, <1>7 DEF DatasetNext

LEMMA TheCause ==
  ASSUME DatabaseInv, NEW a, NEW i, IsCause(a, i)
  PROVE  CausedBy(a) = {faults[i]}
<1> DEFINE during == {j \in DOMAIN faults : InWindow(a, j)}
<1>1. DOMAIN faults \subseteq Nat
  <2>1. PICK F : faults \in Seq(F)
    BY DEF DatabaseInv
  <2> QED
    BY <2>1
<1>2. i \in during /\ \A j \in during : j <= i
  BY DEF IsCause
<1>3. \A j \in during : (\A k \in during : k <= j) => j = i
  <2>1. ASSUME NEW j \in during, i <= j PROVE j = i
    BY <1>1, <1>2, <2>1
  <2> QED
    BY <1>2, <2>1
<1>4. {j \in during : \A k \in during : k <= j} = {i}
  BY <1>2, <1>3
<1>5. CausedBy(a) = {faults[j] : j \in {j \in during : \A k \in during : k <= j}}
  BY DEF CausedBy, InWindow
<1> QED
  BY <1>4, <1>5

\* The database says of an anomaly whose fault has recovered what a row of it
\* said before.
LEMMA FreshAgrees ==
  ASSUME DatabaseInv, NEW a, NEW old, WellMade(old), StillTrue(a, old), a \in DOMAIN detected
  PROVE  StillConfirms(a, Summarise(a), old)
<1> DEFINE row == Summarise(a)
<1> SUFFICES ASSUME NEW o \in ParseRow(a, old), old.root # Absent, o.label = "injected"
             PROVE  \E n \in ParseRow(a, row) :
                      n.label = "injected" /\ n.known = o.known /\ n.root = o.root
  BY DEF StillConfirms
<1>1. /\ old.injected /\ old.root # {} /\ old.resolvedAt # {}
      /\ o.known = old.resolvedAt /\ o.root = old.root
  BY DEF ParseRow, InjectedRootCause
<1>2. old.root = {Broken}
  BY <1>1 DEF WellMade
<1>3. PICK i \in DOMAIN faults : IsCause(a, i) /\ faults[i].recovered = old.resolvedAt
  BY <1>1 DEF StillTrue
<1>4. CausedBy(a) = {faults[i]}
  BY <1>3, TheCause
<1>5. Resolution(a).at = old.resolvedAt
  BY <1>1, <1>3, <1>4 DEF Resolution
<1>6. row.injected /\ row.root = {Broken} /\ row.resolvedAt = old.resolvedAt
  BY <1>4, <1>5 DEF Summarise, RootCauseService
<1> HIDE DEF row
<1>7. InjectedRootCause(row) = {Broken}
  BY <1>2, <1>6 DEF InjectedRootCause
<1> DEFINE n == [id |-> a, label |-> "injected", known |-> row.resolvedAt, root |-> {Broken},
                 diagnosed |-> row.diagnosed,
                 correct |-> IF StaleVerdict(row) THEN {} ELSE row.correct]
<1>8. n \in ParseRow(a, row)
  BY <1>1, <1>6, <1>7 DEF ParseRow
<1> QED
  BY <1>1, <1>2, <1>6, <1>8

LEMMA FreshIsTrue ==
  ASSUME DatabaseInv, NEW a, a \in DOMAIN detected
  PROVE  WellMade(Summarise(a)) /\ StillTrue(a, Summarise(a))
<1> DEFINE row == Summarise(a)
<1>1. IsRow(row)
  BY DEF IsRow, Summarise
<1>2. /\ row.injected = (CausedBy(a) # {}) /\ row.resolvedAt = Resolution(a).at
      /\ row.injected => row.root = {Broken}
  BY DEF Summarise, RootCauseService
<1> HIDE DEF row
<1>3. ASSUME row.injected, row.resolvedAt # {}
      PROVE  \E i \in DOMAIN faults : IsCause(a, i) /\ faults[i].recovered = row.resolvedAt
  <2>1. PICK i \in DOMAIN faults : IsCause(a, i)
    BY <1>2, <1>3 DEF CausedBy, IsCause, InWindow
  <2>2. CausedBy(a) = {faults[i]}
    BY <2>1, TheCause
  <2>3. Resolution(a).at = IF faults[i].recovered # {} THEN faults[i].recovered ELSE {}
    BY <2>2 DEF Resolution
  <2> QED
    BY <1>2, <1>3, <2>1, <2>3
<1>4. WellMade(row) /\ StillTrue(a, row)
  BY <1>1, <1>2, <1>3 DEF WellMade, StillTrue
<1> QED
  BY <1>4 DEF row

\* A row in the columns of today says what it said, if it had the column.
LEMMA KeptRow ==
  ASSUME NEW a, NEW old, WellMade(old), StillTrue(a, old)
  PROVE  LET new == [old EXCEPT !.root = IF @ = Absent THEN {} ELSE @]
         IN WellMade(new) /\ StillTrue(a, new) /\ StillConfirms(a, new, old)
<1>1. PICK new : new = [old EXCEPT !.root = IF @ = Absent THEN {} ELSE @]
  OBVIOUS
<1>2. PICK d, inj, t, r, dep, dg, c, ds, da, fx, rs, ra :
        old = [detected |-> d, injected |-> inj, truth |-> t, root |-> r, dependency |-> dep,
               diagnosed |-> dg, correct |-> c, decision |-> ds, decidedAt |-> da, fixed |-> fx,
               resolution |-> rs, resolvedAt |-> ra]
  BY DEF WellMade, IsRow
<1>3. new = [detected |-> d, injected |-> inj, truth |-> t, root |-> IF r = Absent THEN {} ELSE r,
             dependency |-> dep, diagnosed |-> dg, correct |-> c, decision |-> ds, decidedAt |-> da, fixed |-> fx,
             resolution |-> rs, resolvedAt |-> ra]
  BY <1>1, <1>2
<1>4. WellMade(new)
  BY <1>2, <1>3 DEF WellMade, IsRow
<1>5. StillTrue(a, new)
  BY <1>2, <1>3 DEF StillTrue
<1>6. old.root # Absent => new = old
  BY <1>2, <1>3
<1>7. StillConfirms(a, new, old)
  BY <1>6 DEF StillConfirms
<1> QED
  BY <1>1, <1>4, <1>5, <1>7

LEMMA BeginStep ==
  ASSUME DatasetAssumption, KnowledgeInv, BeginExport
  PROVE  RowsInv' /\ ExportInv'
<1>1. /\ UNCHANGED <<detected, faults, dataset>>
      /\ export' = [at |-> "queried", rows |-> [a \in DOMAIN detected |-> Summarise(a)]]
  BY DEF BeginExport, databaseVars
<1>2. /\ export'.at = "queried" /\ DOMAIN export'.rows = DOMAIN detected
      /\ \A a \in DOMAIN detected : export'.rows[a] = Summarise(a)
  BY <1>1
<1>3. \A a, row : StillTrue(a, row)' <=> StillTrue(a, row)
  BY <1>1 DEF StillTrue, IsCause, InWindow, WindowEnd
<1>4. \A a \in DOMAIN dataset' : WellMade(dataset'[a]) /\ StillTrue(a, dataset'[a])
  BY <1>1 DEF KnowledgeInv, RowsInv
<1>5. \A a \in DOMAIN export'.rows : WellMade(export'.rows[a]) /\ StillTrue(a, export'.rows[a])
  BY <1>2, FreshIsTrue DEF KnowledgeInv
<1>6. \A a \in DOMAIN export'.rows \cap DOMAIN dataset' : StillConfirms(a, export'.rows[a], dataset'[a])
  BY <1>1, <1>2, <1>4, FreshAgrees DEF KnowledgeInv
<1> QED
  BY <1>2, <1>3, <1>4, <1>5, <1>6 DEF RowsInv, ExportInv, WellMade, IsRow, StillConfirms, ParseRow

LEMMA WriteStep ==
  ASSUME KnowledgeInv, WriteDataset
  PROVE  RowsInv' /\ ExportInv'
<1>1. /\ UNCHANGED <<detected, faults, dataset>>
      /\ export' = [at |-> "written", rows |-> Merged(export.rows, dataset)]
  BY DEF WriteDataset, databaseVars
<1>2. /\ export'.at = "written" /\ DOMAIN export'.rows = DOMAIN export.rows \cup DOMAIN dataset
      /\ \A a \in DOMAIN export.rows : export'.rows[a] = export.rows[a]
      /\ \A a \in DOMAIN dataset \ DOMAIN export.rows :
           export'.rows[a] = [dataset[a] EXCEPT !.root = IF @ = Absent THEN {} ELSE @]
  BY <1>1 DEF Merged
<1>3. \A a, row : StillTrue(a, row)' <=> StillTrue(a, row)
  BY <1>1 DEF StillTrue, IsCause, InWindow, WindowEnd
<1>4. \A a \in DOMAIN dataset' : WellMade(dataset'[a]) /\ StillTrue(a, dataset'[a])
  BY <1>1 DEF KnowledgeInv, RowsInv
<1>5. ASSUME NEW a \in DOMAIN export'.rows
      PROVE  /\ WellMade(export'.rows[a]) /\ StillTrue(a, export'.rows[a])
             /\ a \in DOMAIN dataset => StillConfirms(a, export'.rows[a], dataset[a])
  <2>1. CASE a \in DOMAIN export.rows
    BY <1>2, <2>1 DEF KnowledgeInv, RowsInv, ExportInv
  <2>2. CASE a \notin DOMAIN export.rows
    <3>1. PICK old : old = dataset[a]
      OBVIOUS
    <3>2. a \in DOMAIN dataset /\ WellMade(old) /\ StillTrue(a, old)
      BY <1>2, <2>2, <3>1 DEF KnowledgeInv, RowsInv
    <3>3. export'.rows[a] = [old EXCEPT !.root = IF @ = Absent THEN {} ELSE @]
      BY <1>2, <2>2, <3>1, <3>2
    <3> QED
      BY <3>1, <3>2, <3>3, KeptRow
  <2> QED
    BY <2>1, <2>2
<1>6. RowsInv'
  BY <1>3, <1>4, <1>5 DEF RowsInv, WellMade, IsRow
<1>7. \A a, new, old : StillConfirms(a, new, old)' <=> StillConfirms(a, new, old)
  BY DEF StillConfirms, ParseRow
<1>8. ExportInv'
  BY <1>1, <1>2, <1>5, <1>7 DEF ExportInv
<1> QED
  BY <1>6, <1>8

\* The renamed file holds what the export wrote.
LEMMA RenameKeeps ==
  ASSUME KnowledgeInv, Rename
  PROVE  /\ RowsInv' /\ ExportInv'
         /\ \A a \in DOMAIN dataset : a \in DOMAIN dataset' /\ StillConfirms(a, dataset'[a], dataset[a])
<1>1. UNCHANGED <<detected, faults>> /\ dataset' = export.rows /\ export' = NoExport /\ export.at = "written"
  BY DEF Rename, databaseVars
<1>2. \A a, row : StillTrue(a, row)' <=> StillTrue(a, row)
  BY <1>1 DEF StillTrue, IsCause, InWindow, WindowEnd
<1>3. export'.at = "idle" /\ DOMAIN export'.rows = {}
  BY <1>1, NothingExported
<1>4. RowsInv'
  BY <1>1, <1>2, <1>3 DEF KnowledgeInv, RowsInv, WellMade, IsRow
<1> QED
  BY <1>1, <1>3, <1>4 DEF KnowledgeInv, ExportInv

LEMMA ExportStops ==
  ASSUME KnowledgeInv, ExportFails
  PROVE  RowsInv' /\ ExportInv'
<1>1. UNCHANGED <<detected, faults, dataset>> /\ export' = NoExport
  BY DEF ExportFails, databaseVars
<1>2. \A a, row : StillTrue(a, row)' <=> StillTrue(a, row)
  BY <1>1 DEF StillTrue, IsCause, InWindow, WindowEnd
<1>3. export'.at = "idle" /\ DOMAIN export'.rows = {}
  BY <1>1, NothingExported
<1> QED
  BY <1>1, <1>2, <1>3 DEF KnowledgeInv, RowsInv, ExportInv, WellMade, IsRow

\* Steps of the world and of the reader leave the file and the export alone.
LEMMA RestStep ==
  ASSUME KnowledgeInv, UNCHANGED <<dataset, export>>,
         \A a \in DOMAIN dataset : \A row : StillTrue(a, row) => StillTrue(a, row)',
         \A a \in DOMAIN export.rows : \A row : StillTrue(a, row) => StillTrue(a, row)'
  PROVE  RowsInv' /\ ExportInv'
<1>1. \A a, new, old : StillConfirms(a, new, old)' <=> StillConfirms(a, new, old)
  BY DEF StillConfirms, ParseRow
<1>2. RowsInv'
  BY DEF KnowledgeInv, RowsInv, WellMade, IsRow
<1>3. ExportInv'
  BY <1>1 DEF KnowledgeInv, ExportInv
<1> QED
  BY <1>2, <1>3

LEMMA KnowledgeStep ==
  ASSUME DatasetAssumption, KnowledgeInv, [DatasetNext]_datasetVars
  PROVE  /\ KnowledgeInv'
         /\ \A a \in DOMAIN dataset : a \in DOMAIN dataset' /\ StillConfirms(a, dataset'[a], dataset[a])
<1>0. DatabaseInv'
  BY DatabaseStep DEF KnowledgeInv
<1>1. CASE BeginExport
  <2>1. UNCHANGED dataset
    BY <1>1 DEF BeginExport
  <2> QED
    BY <1>0, <1>1, <2>1, BeginStep DEF KnowledgeInv, StillConfirms
<1>2. CASE WriteDataset
  <2>1. UNCHANGED dataset
    BY <1>2 DEF WriteDataset
  <2> QED
    BY <1>0, <1>2, <2>1, WriteStep DEF KnowledgeInv, StillConfirms
<1>3. CASE Rename
  BY <1>0, <1>3, RenameKeeps DEF KnowledgeInv
<1>4. CASE ExportFails
  <2>1. UNCHANGED dataset
    BY <1>4 DEF ExportFails
  <2> QED
    BY <1>0, <1>4, <2>1, ExportStops DEF KnowledgeInv, StillConfirms
<1>5. ASSUME NEW b \in Anomalies, Detect(b)
      PROVE  RowsInv' /\ ExportInv' /\ UNCHANGED dataset
  <2>1. UNCHANGED <<dataset, export>> /\ b \notin DOMAIN dataset /\ b \notin DOMAIN export.rows
    BY <1>5 DEF Detect, Fixed
  <2>2. \A a \in DOMAIN dataset \cup DOMAIN export.rows : \A row : StillTrue(a, row) => StillTrue(a, row)'
    BY <1>5, <2>1, DetectKeepsCause
  <2> QED
    BY <2>1, <2>2, RestStep
<1>6. CASE \/ Dawn \/ Report \/ Inject \/ Wipe
           \/ \E a \in Anomalies, services \in Rankings : Diagnose(a, services)
           \/ \E a \in Anomalies, verdict \in {"approved", "rejected"}, rank \in Ranks :
                DecideIncident(a, verdict, rank)
           \/ \E status \in {"recovered", "failed_recover"} : FaultCloses(status)
  <2>1. UNCHANGED <<dataset, export>>
    BY <1>6 DEF Dawn, Report, Inject, Wipe, Diagnose, DecideIncident, FaultCloses, Fixed
  <2>2. \A a, row : StillTrue(a, row) => StillTrue(a, row)'
    BY <1>6, RowsUnderDatabase DEF KnowledgeInv
  <2> QED
    BY <1>0, <2>1, <2>2, RestStep DEF KnowledgeInv, StillConfirms
<1>7. CASE NoFile \/ Stat \/ ReadFile \/ ReadFails \/ UNCHANGED datasetVars
  <2>1. UNCHANGED <<dataset, export, detected, faults>>
    BY <1>7 DEF NoFile, Stat, ReadFile, ReadFails, datasetVars, databaseVars
  <2>2. \A a, row : StillTrue(a, row) => StillTrue(a, row)'
    BY <2>1 DEF StillTrue, IsCause, InWindow, WindowEnd
  <2> QED
    BY <1>0, <2>1, <2>2, RestStep DEF KnowledgeInv, StillConfirms
<1> QED
  BY <1>0, <1>1, <1>2, <1>3, <1>4, <1>5, <1>6, <1>7 DEF DatasetNext, KnowledgeInv, StillConfirms

\* No row leaves the file, and the service and the time that one confirmed of an
\* injected fault stay, whatever the database loses, wherever an export stops and
\* however often the anomaly is diagnosed again.  (merge and the rename in recent.py.)
THEOREM DatasetKeepsKnowledge == DatasetSpec => DatasetKeepsWhatItKnows
<1> DEFINE Kept == \A a \in DOMAIN dataset :
                     a \in DOMAIN dataset' /\ StillConfirms(a, dataset'[a], dataset[a])
<1>1. DatasetInit => KnowledgeInv
  BY KnowledgeStart
<1>2. KnowledgeInv /\ [DatasetNext]_datasetVars => KnowledgeInv' /\ [Kept]_dataset
  BY KnowledgeStep, DatasetAssumption
<1>3. DatasetSpec => [][Kept]_dataset
  BY <1>1, <1>2, PTL DEF DatasetSpec
<1> QED
  BY <1>3 DEF DatasetKeepsWhatItKnows

-----------------------------------------------------------------------------
(* The types of the dataset's variables: rows are of anomalies, and old ones. *)
RowsKnown ==
  /\ DOMAIN export.rows \subseteq Anomalies \cup OldRows
  /\ {"at", "rows"} \subseteq DOMAIN export /\ "at" \in DOMAIN reader
DatasetTypeInv == DatasetTypeOK /\ RowsKnown

\* The steps of the service and the loss of its database.
LEMMA DatabaseTypes ==
  ASSUME DatasetTypeInv, \/ Dawn \/ Report \/ Inject \/ Wipe
                         \/ \E a \in Anomalies, services \in Rankings : Diagnose(a, services)
                         \/ \E a \in Anomalies : Detect(a)
                         \/ \E status \in {"recovered", "failed_recover"} : FaultCloses(status)
                         \/ \E a \in Anomalies, verdict \in {"approved", "rejected"},
                               rank \in Ranks : DecideIncident(a, verdict, rank)
  PROVE  DatasetTypeInv'
<1>1. UNCHANGED <<dataset, mtime, export, reader>>
  BY DEF Dawn, Report, Inject, Wipe, Detect, FaultCloses, Diagnose, DecideIncident, Fixed
<1>2. /\ today \in 0..MaxDay /\ reports \subseteq 0..MaxDay /\ MaxDay \in Nat
      /\ DOMAIN detected \subseteq Anomalies /\ DOMAIN diagnoses \subseteq DOMAIN detected
      /\ DOMAIN decisions \subseteq DOMAIN diagnoses
  BY DatasetAssumption DEF DatasetTypeInv, DatasetTypeOK
<1>3. today' \in 0..MaxDay /\ reports' \subseteq 0..MaxDay
  <2>1. CASE Dawn
    <3>1. today < MaxDay /\ today' = today + 1 /\ reports' \subseteq reports
      BY <2>1 DEF Dawn
    <3> QED BY <1>2, <3>1
  <2>2. CASE Report
    BY <1>2, <2>2 DEF Report
  <2>3. CASE Wipe
    BY <1>2, <2>3 DEF Wipe
  <2>4. CASE ~ (Dawn \/ Report \/ Wipe)
    BY <1>2, <2>4 DEF Inject, Detect, FaultCloses, Diagnose, DecideIncident
  <2> QED BY <2>1, <2>2, <2>3, <2>4
<1> DEFINE Known == /\ DOMAIN detected \subseteq Anomalies /\ DOMAIN diagnoses \subseteq DOMAIN detected
                    /\ DOMAIN decisions \subseteq DOMAIN diagnoses
<1>4. Known'
  <2>1. CASE Wipe
    BY <2>1 DEF Wipe, Empty
  <2>2. ASSUME NEW a \in Anomalies, Detect(a) PROVE Known'
    BY <1>2, <2>2 DEF Detect
  <2>3. ASSUME NEW a \in Anomalies, NEW verdict, NEW rank, DecideIncident(a, verdict, rank)
        PROVE  Known'
    BY <1>2, <2>3 DEF DecideIncident
  <2>4. ASSUME NEW a \in Anomalies, NEW services, Diagnose(a, services) PROVE Known'
    BY <1>2, <2>4 DEF Diagnose
  <2>5. CASE Dawn \/ Report \/ Inject
             \/ \E status \in {"recovered", "failed_recover"} : FaultCloses(status)
    BY <1>2, <2>5 DEF Dawn, Report, Inject, FaultCloses
  <2> QED BY <2>1, <2>2, <2>3, <2>4, <2>5
<1> QED BY <1>1, <1>3, <1>4 DEF DatasetTypeInv, DatasetTypeOK, RowsKnown

\* The steps of an export and of the reader.
LEMMA FileTypes ==
  ASSUME DatasetTypeInv, \/ BeginExport \/ WriteDataset \/ Rename \/ ExportFails
                         \/ NoFile \/ Stat \/ ReadFile \/ ReadFails
  PROVE  DatasetTypeInv'
<1>1. UNCHANGED <<today, detected, diagnoses, decisions, reports>>
  BY DEF BeginExport, WriteDataset, Rename, ExportFails, NoFile, Stat, ReadFile, ReadFails, databaseVars
<1>2. /\ DOMAIN detected \subseteq Anomalies /\ DOMAIN dataset \subseteq Anomalies \cup OldRows
      /\ DOMAIN export.rows \subseteq Anomalies \cup OldRows /\ mtime \in Nat
      /\ export.at \in {"idle", "queried", "written"} /\ reader.at \in {"idle", "open"}
      /\ {"at", "rows"} \subseteq DOMAIN export /\ "at" \in DOMAIN reader
  BY DEF DatasetTypeInv, DatasetTypeOK, RowsKnown
<1>3. /\ {"at", "rows"} \subseteq DOMAIN NoExport /\ NoExport.at = "idle"
      /\ DOMAIN NoExport.rows = {}
  BY DEF NoExport, Empty
<1>4. /\ DOMAIN dataset' \subseteq Anomalies \cup OldRows
      /\ DOMAIN export'.rows \subseteq Anomalies \cup OldRows /\ mtime' \in Nat
      /\ export'.at \in {"idle", "queried", "written"} /\ {"at", "rows"} \subseteq DOMAIN export'
  <2>1. CASE BeginExport
    <3>1. export' = [at |-> "queried", rows |-> [a \in DOMAIN detected |-> Summarise(a)]]
          /\ UNCHANGED <<dataset, mtime>>
      BY <2>1 DEF BeginExport
    <3> QED BY <1>2, <3>1
  <2>2. CASE WriteDataset
    <3>1. export' = [at |-> "written", rows |-> Merged(export.rows, dataset)]
          /\ UNCHANGED <<dataset, mtime>>
      BY <2>2 DEF WriteDataset
    <3>2. DOMAIN Merged(export.rows, dataset) = DOMAIN export.rows \cup DOMAIN dataset
      BY DEF Merged
    <3> QED BY <1>2, <3>1, <3>2
  <2>3. CASE Rename
    BY <1>2, <1>3, <2>3 DEF Rename
  <2>4. CASE ExportFails
    BY <1>2, <1>3, <2>4 DEF ExportFails
  <2>5. CASE NoFile \/ Stat \/ ReadFile \/ ReadFails
    BY <1>2, <2>5 DEF NoFile, Stat, ReadFile, ReadFails
  <2> QED BY <2>1, <2>2, <2>3, <2>4, <2>5
<1>5. reader'.at \in {"idle", "open"} /\ "at" \in DOMAIN reader'
  <2>1. CASE NoFile
    BY <1>2, <2>1 DEF NoFile
  <2>2. CASE Stat
    BY <1>2, <2>2 DEF Stat
  <2>3. CASE ReadFile
    BY <2>3 DEF ReadFile
  <2>4. CASE ReadFails
    BY <1>2, <2>4 DEF ReadFails
  <2>5. CASE BeginExport \/ WriteDataset \/ Rename \/ ExportFails
    BY <1>2, <2>5 DEF BeginExport, WriteDataset, Rename, ExportFails
  <2> QED BY <2>1, <2>2, <2>3, <2>4, <2>5
<1> QED BY <1>1, <1>2, <1>4, <1>5 DEF DatasetTypeInv, DatasetTypeOK, RowsKnown

\* Decisions are of detected anomalies, and the file has rows of anomalies and
\* the old rows only.  (recent.py.)
THEOREM DatasetStaysTyped == DatasetSpec => []DatasetTypeOK
<1>1. DatasetInit => DatasetTypeInv
  <2> SUFFICES ASSUME DatasetInit PROVE DatasetTypeInv
    OBVIOUS
  <2>1. DOMAIN Empty = {} /\ 0 \in 0..MaxDay
    BY DatasetAssumption DEF Empty
  <2>2. /\ DOMAIN export.rows = {} /\ export.at = "idle" /\ {"at", "rows"} \subseteq DOMAIN export
    BY <2>1 DEF DatasetInit, NoExport
  <2>3. /\ reader.at = "idle" /\ "at" \in DOMAIN reader /\ mtime \in Nat
        /\ DOMAIN dataset = OldRows
    BY DEF DatasetInit
  <2> QED BY <2>1, <2>2, <2>3 DEF DatasetInit, DatasetTypeInv, DatasetTypeOK, RowsKnown
<1>2. DatasetTypeInv /\ [DatasetNext]_datasetVars => DatasetTypeInv'
  <2>1. DatasetTypeInv /\ UNCHANGED datasetVars => DatasetTypeInv'
    BY DEF datasetVars, databaseVars, DatasetTypeInv, DatasetTypeOK, RowsKnown
  <2> QED BY <2>1, DatabaseTypes, FileTypes DEF DatasetNext
<1>3. DatasetTypeInv => DatasetTypeOK
  BY DEF DatasetTypeInv
<1> QED BY <1>1, <1>2, <1>3, PTL DEF DatasetSpec
=============================================================================
