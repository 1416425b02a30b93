------------------------------ MODULE Scoring ------------------------------
(***************************************************************************)
(* services/diagnosis-service: the deterministic ranking of root-cause     *)
(* candidates (scoring.py over graph.py) and the past incidents it is      *)
(* given (retrieval.py).                                                   *)
(*                                                                         *)
(* A report is a function of what one transaction read.  Times are whole   *)
(* minutes, signals and weights percent.  A record is cited by its own id, *)
(* <<"record", id>>, or by the id of the evidence scoring makes of it,     *)
(* <<category, source>>.                                                   *)
(***************************************************************************)
EXTENDS Integers, FiniteSets, FiniteSetsExt, SequencesExt

CONSTANTS
  Callees,      \* dependency_graph.yaml: node -> what it calls
  Alphabet,     \* every service name, in order; some may not be nodes
  MaxHops,
  Weight,       \* [deploy, graph, co, incident], adding up to 100
  DeployScore,  \* exp(-minutes / decay) in percent, by minutes in the lookback
  CoWindow,     \* onsets this close are one incident
  TopK          \* incidents retrieved

Nodes == DOMAIN Callees
Names == Range(Alphabet)

\* An edge joins two declared nodes, and no node calls itself.
ASSUME GraphAssumption ==
  /\ Alphabet \in Seq(Names) /\ IsInjective(Alphabet)
  /\ Nodes \subseteq Names
  /\ \A n \in Nodes : Callees[n] \subseteq Nodes \ {n}
ASSUME ScoringAssumption ==
  /\ MaxHops \in Nat /\ CoWindow \in Nat /\ TopK \in Nat \ {0}
  /\ Weight \in [{"deploy", "graph", "co", "incident"} -> 0..100]
  /\ Weight.deploy + Weight.graph + Weight.co + Weight.incident = 100
  /\ Weight.graph < 100
  /\ \A m \in DOMAIN DeployScore : m \in Nat /\ DeployScore[m] \in 0..100

\* The elements of S, each after those that are before it.
InOrder(S, before) ==
  [k \in 1..Cardinality(S) |->
     CHOOSE x \in S : Cardinality({y \in S : <<y, x>> \in before}) = k - 1]

---------------------------------------------------------------------------
(* graph.py *)

\* The breadth-first walk, by layers: what n reaches in at most k calls.
ReachedWithin(n, k) ==
  LET layer[j \in 0..k] ==
        IF j = 0 THEN {n}
        ELSE layer[j - 1] \cup UNION {Callees[m] : m \in layer[j - 1]}
  IN layer[k]

DownstreamOf(n) == (Nodes \ {n}) \cap ReachedWithin(n, MaxHops)
HopsTo(n, s) == Min({k \in 0..MaxHops : s \in ReachedWithin(n, k)})

---------------------------------------------------------------------------
(* retrieval.py *)

\* The services of the event and what they call: also scoring's candidates.
CandidateServices(anomaly) ==
  LET own == Range(anomaly.services)
  IN own \cup UNION {DownstreamOf(s) : s \in own \cap Nodes}

\* No vector: nothing is retrieved.  Otherwise the nearest that name a
\* candidate or suit the metrics; which of equals, the index decides.
Retrieved(anomaly, corpus, embedded) ==
  LET fits == {i \in corpus : i.services \cap CandidateServices(anomaly) # {} \/ i.suits}
      Nearer(near) == \A i \in near, j \in fits \ near : i.similarity >= j.similarity
  IN IF embedded THEN {near \in kSubset(Min({TopK, Cardinality(fits)}), fits) : Nearer(near)}
     ELSE {{}}

---------------------------------------------------------------------------
(* scoring.py *)

\* The no_graph ablation: the other weights make up for the graph's.
WithoutGraph(w) ==
  [s \in DOMAIN w |-> IF s = "graph" THEN 0 ELSE (100 * w[s]) \div (100 - w.graph)]

\* The nearest service of the event above s; of equals, the one listed first.
Nearest(anomaly, s) ==
  LET own == anomaly.services
      Far(i) == IF own[i] = s THEN 0 ELSE HopsTo(own[i], s)
      above == {i \in DOMAIN own : \/ own[i] = s
                                   \/ own[i] \in Nodes /\ s \in DownstreamOf(own[i])}
      least == Min({Far(i) : i \in above})
  IN [hops |-> least, origin |-> own[Min({i \in above : Far(i) = least})]]

\* Other anomalies with an onset in the window.
Nearby(inputs) ==
  {o \in inputs.related : /\ o.id # inputs.anomaly.id
                          /\ o.onset - inputs.anomaly.onset \in -CoWindow..CoWindow}
Anomalous(inputs) == UNION {Range(o.services) : o \in Nearby(inputs) \cup {inputs.anomaly}}

\* A service's latest deploy at or before the onset, in the lookback; none is {}.
LatestDeploy(inputs, s) ==
  LET Age(d) == inputs.anomaly.onset - d.time
      own == {d \in inputs.deploys : d.service = s /\ Age(d) \in DOMAIN DeployScore}
      youngest == {d \in own : \A e \in own : Age(d) <= Age(e)}
  IN IF own = {} THEN {} ELSE {CHOOSE d \in youngest : TRUE}

IsDeepestAnomalous(inputs, s) ==
  /\ s \in Anomalous(inputs)
  /\ s \in Nodes => DownstreamOf(s) \cap Anomalous(inputs) = {}

Signals(inputs, s) ==
  LET d == LatestDeploy(inputs, s)
      naming == {i \in inputs.incidents : s \in i.services}
  IN [deploy   |-> Max({DeployScore[inputs.anomaly.onset - e.time] : e \in d} \cup {0}),
      graph    |-> 100 \div (1 + Nearest(inputs.anomaly, s).hops),
      co       |-> IF IsDeepestAnomalous(inputs, s) THEN 100 ELSE 0,
      incident |-> Max({i.similarity : i \in naming} \cup {0})]

\* The evidence behind a candidate.  silent: an anomaly of the staleness
\* detector that says the services it names stopped reporting.
EvidenceOf(inputs, s) ==
  LET near == Nearest(inputs.anomaly, s)
      Item(category, source, silent) ==
        [category |-> category, source |-> source, silent |-> silent]
      seen == {inputs.anomaly} \cup {o \in Nearby(inputs) : s \in Range(o.services)}
  IN {Item("anomaly", o.id, IF o.silent THEN Range(o.services) ELSE {}) : o \in seen}
     \cup {Item("deployment", d.id, {}) : d \in LatestDeploy(inputs, s)}
     \cup {Item("dependency", <<near.origin, s>>, {}) : h \in {near.hops} \ {0}}
     \cup {Item("similar_incident", i.id, {}) : i \in {j \in inputs.incidents : s \in j.services}}

Score(signals, w) ==
  Min({100, (w.deploy * signals.deploy + w.graph * signals.graph + w.co * signals.co
             + w.incident * signals.incident) \div 100})

Letter(s) == CHOOSE i \in DOMAIN Alphabet : Alphabet[i] = s

\* Highest score first, then the closer, then by name.
Outranks(c, d) ==
  \/ c.score > d.score
  \/ c.score = d.score /\ c.distance < d.distance
  \/ c.score = d.score /\ c.distance = d.distance /\ Letter(c.service) < Letter(d.service)

Candidate(inputs, w, s) ==
  [service |-> s, score |-> Score(Signals(inputs, s), w),
   distance |-> Nearest(inputs.anomaly, s).hops, signals |-> Signals(inputs, s),
   deploy |-> LatestDeploy(inputs, s), evidence |-> EvidenceOf(inputs, s)]

ScoreCandidates(inputs, w) ==
  LET scored == {Candidate(inputs, w, s) : s \in CandidateServices(inputs.anomaly)}
      sorted == {p \in scored \X scored : Outranks(p[1], p[2])}
  IN [anomaly |-> inputs.anomaly.id, candidates |-> InOrder(scored, sorted)]

EvidenceIn(report) == UNION {c.evidence : c \in Range(report.candidates)}
=============================================================================
