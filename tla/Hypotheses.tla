----------------------------- MODULE Hypotheses -----------------------------
(***************************************************************************)
(* services/diagnosis-service: what a hypothesis may say and who sees to   *)
(* it.  The options of a candidate (hypotheses.py), the prompt that lists  *)
(* them (prompts.py), the reading of a reply (llm.py), the evidence        *)
(* guardrail (guardrail.py) and the ranking without a model                *)
(* (deterministic.py).                                                     *)
(*                                                                         *)
(* Of a prompt's text only its size matters, and of that only what had to  *)
(* be dropped for it to fit: Fit, chosen by the caller.  Of a cause, only  *)
(* whether it claims a deploy.  A reply is a sequence of hypotheses, or    *)
(* Garbled when it is not of the contract's shape.                         *)
(***************************************************************************)
EXTENDS Scoring

CONSTANTS
  MaxHypotheses,
  MaxCandidates, MinCandidates,   \* candidates in a prompt, and in a squeezed one
  RollbackMinScore,
  Garbled

ASSUME PromptAssumption ==
  /\ MaxHypotheses \in Nat \ {0}
  /\ MinCandidates \in Nat \ {0} /\ MaxCandidates \in Nat \ {0}

Fits == {"whole", "without history", "fewer candidates", "too large"}
Citable == {"anomaly", "deployment", "similar_incident"}
NoAction == <<"no_action">>
Rollback(id) == <<"rollback_deploy", id>>
Restart(s) == <<"restart_service", s>>
RecordId(id) == <<"record", id>>
EvidenceId(e) == <<e.category, e.source>>

---------------------------------------------------------------------------
(* hypotheses.py: what each candidate may be cited for and proposed *)

CitableIn(evidence) == {RecordId(e.source) : e \in {f \in evidence : f.category \in Citable}}

CandidateOptions(c) ==
  [service |-> c.service,
   citable |-> CitableIn(c.evidence),
   actions |-> {NoAction}
     \cup {Rollback(d.id) : d \in {e \in c.deploy : c.signals.deploy >= RollbackMinScore}}
     \cup {Restart(s) : s \in {c.service} \cap UNION {e.silent : e \in c.evidence}},
   deployed |-> c.deploy # {}]

---------------------------------------------------------------------------
(* prompts.py: the options listed, by candidate *)

\* A confirmed past outcome is citable under the service it confirmed.
RenderPrompt(report, shown, history) ==
  {LET o == CandidateOptions(report.candidates[i])
   IN [o EXCEPT !.citable = @ \cup {RecordId(p.id) : p \in {q \in history : o.service \in q.root}}] :
     i \in 1..Min({shown, Len(report.candidates)})}

\* Past outcomes go first, then config diffs (no option changes), then candidates.
BuildPrompt(report, history, fit) ==
  RenderPrompt(report, IF fit = "fewer candidates" THEN MinCandidates ELSE MaxCandidates,
               IF fit = "whole" THEN history ELSE {})

\* Without scores: every service may be the cause, its own deploys the rollbacks.
BuildLLMOnlyPrompt(inputs) ==
  LET near == Nearby(inputs)
      Age(d) == inputs.anomaly.onset - d.time
      own(s) == {d \in inputs.deploys : d.service = s /\ Age(d) \in DOMAIN DeployScore}
      silent == UNION {Range(o.services) : o \in {e \in near \cup {inputs.anomaly} : e.silent}}
  IN {[service |-> s,
       citable |-> {RecordId(o.id) : o \in {inputs.anomaly}
                                     \cup {e \in near : s \in Range(e.services)} \cup own(s)},
       actions |-> {NoAction} \cup {Restart(t) : t \in {s} \cap silent}
         \cup {Rollback(d.id) : d \in {e \in own(s) : DeployScore[Age(e)] >= RollbackMinScore}},
       deployed |-> own(s) # {}] :
      s \in Nodes \cup Range(inputs.anomaly.services)}

Supplied(prompt) == UNION {o.citable : o \in prompt}

---------------------------------------------------------------------------
(* llm.py: reading a reply *)

\* Mutant: an id of another candidate will do.
WellFoundedAnyRecord(h, prompt) ==
  \E o \in prompt :
    /\ o.service = h.service
    /\ h.action \in o.actions
    /\ h.claims => o.deployed

\* An id nobody was given is left to the guardrail; one listed under another
\* candidate is not.
WellFounded(h, prompt) ==
  \E o \in prompt :
    /\ o.service = h.service
    /\ h.action \in o.actions
    /\ h.claims => o.deployed
    /\ h.cites \cap Supplied(prompt) \subseteq o.citable

Valid(reply, prompt) ==
  /\ reply # Garbled
  /\ Len(reply) \in 1..MaxHypotheses
  /\ \A i \in DOMAIN reply : WellFounded(reply[i], prompt)

\* The elements at these positions, in the order given.
TakenInOrder(seq, positions, before) ==
  LET order == InOrder(positions, before) IN [k \in DOMAIN order |-> seq[order[k]]]

\* By rank, one hypothesis per service, then by confidence.  Both sorts are stable.
Normalise(reply) ==
  LET Above(i, j) == \/ reply[i].rank < reply[j].rank
                     \/ reply[i].rank = reply[j].rank /\ i < j
      Surer(i, j) == \/ reply[i].confidence > reply[j].confidence
                     \/ reply[i].confidence = reply[j].confidence /\ Above(i, j)
      once == {i \in DOMAIN reply : \A j \in DOMAIN reply :
                 reply[j].service = reply[i].service => ~Above(j, i)}
  IN TakenInOrder(reply, once, {p \in once \X once : Surer(p[1], p[2])})

---------------------------------------------------------------------------
(* guardrail.py *)

\* Mutant: no records where no prompt listed them.
AllowedIdsOfPrompt(id, report, prompt) ==
  LET evidence == UNION {EvidenceIn(r) : r \in report}
  IN {RecordId(id)} \cup {EvidenceId(e) : e \in evidence} \cup Supplied(prompt)

\* report and prompt are sets: {} where the mode built none.
AllowedIds(id, report, prompt) ==
  LET evidence == UNION {EvidenceIn(r) : r \in report}
  IN {RecordId(id)} \cup {EvidenceId(e) : e \in evidence}
     \cup (IF prompt # {} THEN Supplied(prompt) ELSE CitableIn(evidence))

ApplyGuardrail(diagnosis, allowed) ==
  LET kept == {i \in DOMAIN diagnosis : diagnosis[i].cites \subseteq allowed}
  IN TakenInOrder(diagnosis, kept, {p \in kept \X kept : p[1] < p[2]})

---------------------------------------------------------------------------
(* deterministic.py *)

MostSpecific(actions) ==
  LET rollbacks == {a \in actions : a[1] = "rollback_deploy"}
      restarts == {a \in actions : a[1] = "restart_service"}
      best == IF rollbacks # {} THEN rollbacks ELSE IF restarts # {} THEN restarts ELSE {NoAction}
  IN CHOOSE a \in best : TRUE

DeterministicDiagnosis(report) ==
  [i \in 1..Min({MaxHypotheses, Len(report.candidates)}) |->
     LET c == report.candidates[i]
         o == CandidateOptions(c)
     IN [rank |-> i, service |-> c.service, confidence |-> c.score, cites |-> o.citable,
         action |-> MostSpecific(o.actions), claims |-> o.deployed]]
=============================================================================
