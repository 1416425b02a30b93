-------------------------- MODULE DiagnosisService --------------------------
(***************************************************************************)
(* services/diagnosis-service: POST /analyze for one anomaly (main.py,     *)
(* pipeline.py), the answers it stores and serves again (analyses.py,      *)
(* db.py) and the chain of models it asks (openrouter.py, llm.py).         *)
(*                                                                         *)
(* FastAPI runs each request in a thread.  A request reads the anomaly,    *)
(* looks for a stored answer, retrieves, asks and saves; between any two   *)
(* of these the other requests run, related anomalies arrive, the window   *)
(* for them closes and the service may be restarted with another           *)
(* configuration.                                                          *)
(***************************************************************************)
EXTENDS Hypotheses

CONSTANTS
  Requests,
  Modes,         \* of "full", "no_graph", "deterministic", "llm_only"
  TheAnomaly,    \* its row in `anomalies`
  LateAnomalies, \* related ones that may be stored after it
  DeployRows,
  Corpus,        \* the incidents of retrieval
  History,       \* confirmed outcomes of the dataset that resemble the anomaly
  Chain,         \* the models, in the order they are tried
  ServedBy,      \* model -> the names a reply of it may carry
  Replies,       \* what a model may say
  MaxAttempts,
  NoModel,
  MaxRows, MaxRestarts     \* bounds

ASSUME ServiceAssumption ==
  /\ Modes \subseteq {"full", "no_graph", "deterministic", "llm_only"}
  /\ Chain \in Seq(Range(Chain)) /\ Chain # <<>> /\ IsInjective(Chain)
  /\ \A m \in Range(Chain) : m \in ServedBy[m] /\ NoModel \notin ServedBy[m]
  /\ MaxAttempts \in Nat \ {0} /\ MaxRows \in Nat /\ MaxRestarts \in Nat

\* models.py: an event names a service; a reply that is not Garbled has the
\* contract's shape; a similarity is clipped.
ASSUME InputAssumption ==
  /\ TheAnomaly.services \in Seq(Names) \ {<<>>} /\ TheAnomaly.onset \in Int
  /\ \A d \in DeployRows : d.time \in Int
  /\ \A i \in Corpus : i.similarity \in 0..100
  /\ \A reply \in Replies \ {Garbled} :
       /\ reply \in Seq(Range(reply))
       /\ \A i \in DOMAIN reply : reply[i].rank \in Int /\ reply[i].confidence \in Int

VARIABLES
  stored,     \* related anomalies in the table
  closed,     \* the window for them is over
  config,     \* the settings in force, by restarts
  fingerprint,\* theirs, of the settings that go into it
  request,
  analyses    \* the rows of `analyses`, oldest first

diagnosisVars == <<stored, closed, config, fingerprint, request, analyses>>

NoRequest == [at |-> "idle"]
Reusable == {"llm", "deterministic"}
Answers == Reusable \cup {"deterministic_fallback", "llm_failed"}
Authors == {NoModel} \cup UNION {ServedBy[m] : m \in Range(Chain)}
AnalysisRow == [mode : Modes, by : Answers, model : Authors, author : Authors,
                fingerprint : Nat, closed : BOOLEAN, related : SUBSET LateAnomalies]

\* No column holds author, the model whose reply it is, nor what was read.
\* closed: created_at is after the window.
DiagnosisTypeOK ==
  /\ stored \subseteq LateAnomalies
  /\ closed \in BOOLEAN
  /\ config \in 0..MaxRestarts /\ fingerprint \in 0..config
  /\ \A r \in Requests : request[r].at \in {"idle", "read", "look", "prepare", "chat", "save", "hit"}
  /\ analyses \in Seq(AnalysisRow)

DiagnosisInit ==
  /\ stored = {}
  /\ closed = FALSE
  /\ config = 0 /\ fingerprint = 0
  /\ request = [r \in Requests |-> NoRequest]
  /\ analyses = <<>>

IsAt(r, place) == request[r].at = place
Goes(r, state) == request' = [request EXCEPT ![r] = state]

\* 404 and 503.
Refused(r) == Goes(r, NoRequest) /\ UNCHANGED <<stored, closed, config, fingerprint, analyses>>

---------------------------------------------------------------------------
(* The world around it *)

\* One stored after the window is over is more than the cache allows for.
Arrive(o) ==
  /\ ~closed
  /\ o \in LateAnomalies \ stored
  /\ stored' = stored \cup {o}
  /\ UNCHANGED <<closed, config, fingerprint, request, analyses>>

WindowCloses ==
  /\ ~closed
  /\ closed' = TRUE
  /\ UNCHANGED <<stored, config, fingerprint, request, analyses>>

\* Requests under way are lost.  The fingerprint is of the prompts, the weights,
\* the graph, the corpus, the model asked first and some of what it is asked with:
\* it stays where only the rest was changed (the effort of reasoning, the
\* provider, the other models of the chain, timeouts), and may be one of before.
Reconfigure ==
  /\ config < MaxRestarts
  /\ config' = config + 1
  /\ fingerprint' \in 0..config'
  /\ request' = [r \in Requests |-> NoRequest]
  /\ UNCHANGED <<stored, closed, analyses>>

---------------------------------------------------------------------------
(* analyze, up to the pipeline *)

ModelVersionFor(mode) == IF mode = "deterministic" THEN NoModel ELSE Chain[1]

Analyze(r, mode, refresh) ==
  /\ IsAt(r, "idle")
  /\ Goes(r, [at |-> "read", mode |-> mode, refresh |-> refresh])
  /\ UNCHANGED <<stored, closed, config, fingerprint, analyses>>

\* One transaction: the anomaly, the related ones, the deploys.
ScoringInputs(r) ==
  /\ IsAt(r, "read")
  /\ Goes(r, [at |-> IF request[r].refresh THEN "prepare" ELSE "look",
              mode |-> request[r].mode, related |-> stored])
  /\ UNCHANGED <<stored, closed, config, fingerprint, analyses>>

\* The newest run of this mode, model and fingerprint that may be reused.
LatestReusable(mode) ==
  LET fits(i) == /\ analyses[i].mode = mode
                 /\ analyses[i].model = ModelVersionFor(mode)
                 /\ analyses[i].fingerprint = fingerprint
                 /\ analyses[i].by \in Reusable
  IN {i \in DOMAIN analyses : fits(i) /\ \A j \in i + 1..Len(analyses) : ~fits(j)}

\* created_at is when it was saved.
ServeStored(r) ==
  /\ IsAt(r, "look")
  /\ \E i \in LatestReusable(request[r].mode) :
       /\ analyses[i].closed
       /\ Goes(r, [at |-> "hit", mode |-> request[r].mode, row |-> analyses[i]])
  /\ UNCHANGED <<stored, closed, config, fingerprint, analyses>>

NothingStored(r) ==
  /\ IsAt(r, "look")
  /\ \A i \in LatestReusable(request[r].mode) : ~analyses[i].closed
  /\ Goes(r, [request[r] EXCEPT !.at = "prepare"])
  /\ UNCHANGED <<stored, closed, config, fingerprint, analyses>>

\* Unknown anomaly, or no database for one of the queries.
DatabaseFails(r) ==
  /\ \/ request[r].at \in {"read", "look"}
     \/ IsAt(r, "prepare") /\ request[r].mode # "llm_only"
  /\ Refused(r)

---------------------------------------------------------------------------
(* analyze_inputs *)

InputsOf(q, incidents) ==
  [anomaly |-> TheAnomaly, related |-> q.related, deploys |-> DeployRows, incidents |-> incidents]
\* A set: llm_only scores nothing.
ReportsOf(q, incidents) ==
  IF q.mode = "llm_only" THEN {}
  ELSE {ScoreCandidates(InputsOf(q, incidents),
                        IF q.mode = "no_graph" THEN WithoutGraph(Weight) ELSE Weight)}
PromptOf(q) ==
  IF q.fit = "too large" THEN {}
  ELSE IF q.mode = "llm_only" THEN BuildLLMOnlyPrompt(InputsOf(q, q.incidents))
  ELSE UNION {BuildPrompt(r, q.past, q.fit) : r \in ReportsOf(q, q.incidents)}

\* Mutant: the model that was asked for, whoever answered.
RequestedModel(q, author) == ModelVersionFor(q.mode)
\* stored_analysis: who wrote it, or who was asked where nobody replied.
StoredModel(q, author) == IF author # NoModel THEN author ELSE ModelVersionFor(q.mode)

Answered(r, q, by, author, answer) ==
  /\ Goes(r, [at |-> "save", mode |-> q.mode, by |-> by, author |-> author,
              model |-> StoredModel(q, author), answer |-> answer,
              related |-> q.related, incidents |-> q.incidents, past |-> q.past])
  /\ UNCHANGED <<stored, closed, config, fingerprint, analyses>>

\* The scorer's ranking through the guardrail; llm_only has nothing to fall back on.
WithoutModel(r, q, by, author) ==
  LET prompt == IF q.at = "chat" THEN PromptOf(q) ELSE {}
      ranking(rep) == ApplyGuardrail(DeterministicDiagnosis(rep),
                                     AllowedIds(TheAnomaly.id, {rep}, prompt))
  IN IF q.mode = "llm_only" THEN Answered(r, q, "llm_failed", author, <<>>)
     ELSE \E rep \in ReportsOf(q, q.incidents) : Answered(r, q, by, author, ranking(rep))

\* Retrieval, past outcomes, the prompt.
Prepare(r, incidents, past, fit) ==
  LET q == [at |-> "prepare", mode |-> request[r].mode, related |-> request[r].related,
            past |-> past, fit |-> fit, attempt |-> 1, incidents |-> incidents]
  IN /\ IsAt(r, "prepare")
     /\ Len(analyses) < MaxRows
     /\ q.mode \in {"llm_only", "deterministic"} => past = {}
     /\ q.mode = "deterministic" => fit = "whole"
     /\ q.mode = "llm_only" => fit \in {"whole", "too large"} /\ incidents = {}
     /\ q.mode # "llm_only" =>
          \E embedded \in BOOLEAN : incidents \in Retrieved(TheAnomaly, Corpus, embedded)
     /\ past = {} => fit # "without history"
     /\ IF q.mode = "deterministic" THEN WithoutModel(r, q, "deterministic", NoModel)
        ELSE IF fit = "too large" THEN WithoutModel(r, q, "deterministic_fallback", NoModel)
        ELSE Goes(r, [q EXCEPT !.at = "chat"]) /\ UNCHANGED <<stored, closed, config, fingerprint, analyses>>

---------------------------------------------------------------------------
(* llm.py: the attempts *)

\* OpenRouterClient.chat: a reply comes from the model that was asked or one it
\* was routed to; a timeout, a refusal, an error body or an empty content, with
\* or without retries, leaves it unavailable.
MayReply(m, author) == m \in Range(Chain) /\ author \in ServedBy[m]

\* Every model of the chain is unavailable: no further attempt.
ChainUnavailable(r) ==
  /\ IsAt(r, "chat")
  /\ WithoutModel(r, request[r], "deterministic_fallback",
                  IF request[r].attempt = 1 THEN NoModel ELSE request[r].author)

\* A reply of model m, the ones before it in the chain being unavailable.  It
\* is read, put through the guardrail, or sent back with what is wrong with it.
ModelReplies(r, m, author, reply) ==
  LET q == request[r]
      prompt == PromptOf(q)
      kept == ApplyGuardrail(Normalise(reply),
                             AllowedIds(TheAnomaly.id, ReportsOf(q, q.incidents), prompt))
  IN /\ IsAt(r, "chat")
     /\ MayReply(m, author)
     /\ IF Valid(reply, prompt)
        THEN IF kept # <<>> THEN Answered(r, q, "llm", author, kept)
             ELSE WithoutModel(r, q, "deterministic_fallback", author)
        ELSE IF q.attempt = MaxAttempts THEN WithoutModel(r, q, "deterministic_fallback", author)
        ELSE /\ Goes(r, [f \in DOMAIN q \cup {"author"} |->
                           IF f = "attempt" THEN q.attempt + 1
                           ELSE IF f = "author" THEN author ELSE q[f]])
             /\ UNCHANGED <<stored, closed, config, fingerprint, analyses>>

---------------------------------------------------------------------------
(* save_analysis, and the answer *)

Save(r) ==
  LET q == request[r]
  IN /\ IsAt(r, "save")
     /\ Len(analyses) < MaxRows
     /\ analyses' = Append(analyses, [mode |-> q.mode, by |-> q.by, model |-> q.model,
                                      author |-> q.author, fingerprint |-> fingerprint,
                                      closed |-> closed, related |-> q.related])
     /\ Goes(r, NoRequest)
     /\ UNCHANGED <<stored, closed, config, fingerprint>>

\* The answer is returned all the same.
SaveFails(r) == IsAt(r, "save") /\ Refused(r)

Respond(r) == IsAt(r, "hit") /\ Refused(r)

DiagnosisNext ==
  \/ \E o \in LateAnomalies : Arrive(o)
  \/ WindowCloses
  \/ Reconfigure
  \/ \E r \in Requests :
       \/ \E mode \in Modes, refresh \in BOOLEAN : Analyze(r, mode, refresh)
       \/ ScoringInputs(r)
       \/ ServeStored(r)
       \/ NothingStored(r)
       \/ DatabaseFails(r)
       \/ \E incidents \in SUBSET Corpus, past \in {{}, History}, fit \in Fits :
            Prepare(r, incidents, past, fit)
       \/ ChainUnavailable(r)
       \/ \E m \in Range(Chain), reply \in Replies : \E author \in ServedBy[m] :
            ModelReplies(r, m, author, reply)
       \/ Save(r)
       \/ SaveFails(r)
       \/ Respond(r)

DiagnosisSpec == DiagnosisInit /\ [][DiagnosisNext]_diagnosisVars

---------------------------------------------------------------------------
(* Properties *)

\* Of what q read: the records that name s, and the evidence of the report.
RecordsNaming(s, q) ==
  {o.id : o \in {e \in {TheAnomaly} \cup q.related : s \in Range(e.services)}}
  \cup {i.id : i \in {j \in q.incidents : s \in j.services}}
  \cup {p.id : p \in {e \in q.past : s \in e.root}}
  \cup {d.id : d \in {e \in DeployRows : e.service = s}}
EvidenceRead(q) == {EvidenceId(e) : e \in UNION {EvidenceIn(p) : p \in ReportsOf(q, q.incidents)}}

\* The records call for action on s: a recent deploy of it, or its silence.
CalledFor(action, s, q) ==
  /\ action[1] = "rollback_deploy" =>
       \E d \in DeployRows : /\ d.id = action[2] /\ d.service = s
                            /\ TheAnomaly.onset - d.time \in DOMAIN DeployScore
                            /\ DeployScore[TheAnomaly.onset - d.time] >= RollbackMinScore
  /\ action[1] = "restart_service" =>
       \E o \in {TheAnomaly} \cup q.related :
         o.silent /\ action[2] = s /\ s \in Range(o.services)
WasDeployed(s) == \E d \in DeployRows : d.service = s /\ d.time <= TheAnomaly.onset

Stands(h, q) ==
  /\ h.cites \subseteq {RecordId(id) : id \in RecordsNaming(h.service, q) \cup {TheAnomaly.id}}
                      \cup EvidenceRead(q)
  /\ CalledFor(h.action, h.service, q)
  /\ h.claims => WasDeployed(h.service)

\* Whatever the models say, each hypothesis of an answer stands on what was
\* read: it cites the anomaly, records that name its own service, past outcomes
\* it was shown that confirmed its service, or evidence of the report; its
\* action is one the records call for; and no service comes up twice or out of
\* confidence order.
HypothesesAreSound ==
  \A r \in {s \in Requests : IsAt(s, "save")} :
    LET answer == request[r].answer
    IN \A i \in DOMAIN answer :
         /\ Stands(answer[i], request[r])
         /\ \A j \in 1..i - 1 : /\ answer[j].service # answer[i].service
                                /\ answer[j].confidence >= answer[i].confidence

\* Modes that score always answer: when the models are away, wrong or rejected,
\* and when the prompt does not fit, the whole ranking is returned, which the
\* guardrail has nothing to say against.
ScoredModesAnswer ==
  \A r \in {s \in Requests : IsAt(s, "save") /\ request[s].mode # "llm_only"} :
    /\ request[r].answer # <<>>
    /\ request[r].by # "llm" =>
         \E rep \in ReportsOf(request[r], request[r].incidents) :
           Len(request[r].answer) = Min({MaxHypotheses, Len(rep.candidates)})

\* A stored answer served for a model is one that model wrote, or the scorer
\* where no model is asked, in the same mode and under the fingerprint in force:
\* an answer of a fallback model is never served for the one that was asked.
\* Settings that are not in the fingerprint may have been others.
CacheHitsAreFaithful ==
  \A r \in {s \in Requests : IsAt(s, "hit")} :
    LET row == request[r].row
    IN /\ row.mode = request[r].mode
       /\ row.author = ModelVersionFor(row.mode)
       /\ row.fingerprint = fingerprint
       /\ row.by = IF row.mode = "deterministic" THEN "deterministic" ELSE "llm"

\* main.py: "A run made before the co-anomaly window closed may have missed
\* related anomalies that arrived later, so it is not served again."
ServedRunsMissNothing ==
  \A r \in {s \in Requests : IsAt(s, "hit")} : request[r].row.related = stored
=============================================================================
