---------------------------- MODULE MCDiagnosis ----------------------------
(***************************************************************************)
(* One anomaly on a front end and on a cart the graph does not know, whose *)
(* callees were deployed to before it; a staleness anomaly that may come   *)
(* late; incidents, one of them about no candidate; a confirmed and a      *)
(* rejected past outcome; two models, the first of which may be routed     *)
(* elsewhere.                                                              *)
(***************************************************************************)
EXTENDS DiagnosisService, TLC

CONSTANTS r1, r2
RequestsAlike == Permutations({r1, r2})

MCCallees == "frontend" :> {"orders", "user"} @@ "orders" :> {"user"} @@ "user" :> {}
MCAlphabet == <<"cart", "frontend", "orders", "user">>
MCWeight == [deploy |-> 40, graph |-> 25, co |-> 20, incident |-> 15]
MCDeployScore == [m \in 0..6 |-> 100 - 10 * m]
MCAnomaly == [id |-> "a1", services |-> <<"frontend", "cart">>, onset |-> 10, silent |-> FALSE]
MCLate == {[id |-> "a2", services |-> <<"orders">>, onset |-> 11, silent |-> TRUE]}
MCDeploys == {[id |-> "d1", service |-> "orders", time |-> 5],
              [id |-> "d2", service |-> "orders", time |-> 8],
              [id |-> "d3", service |-> "user", time |-> 4]}
MCCorpus == {[id |-> "i1", services |-> {"user"}, suits |-> TRUE, similarity |-> 70],
             [id |-> "i2", services |-> {"billing"}, suits |-> FALSE, similarity |-> 90],
             [id |-> "i3", services |-> {"frontend"}, suits |-> TRUE, similarity |-> 40],
             [id |-> "i4", services |-> {}, suits |-> TRUE, similarity |-> 30]}
MCHistory == {[id |-> "p1", root |-> {"user"}], [id |-> "p2", root |-> {}]}
MCChain == <<"gemini", "nemotron">>
MCServedBy == "gemini" :> {"gemini", "routed"} @@ "nemotron" :> {"nemotron"}

Says(rank, s, confidence, cites, action, claims) ==
  [rank |-> rank, service |-> s, confidence |-> confidence, cites |-> cites,
   action |-> action, claims |-> claims]
\* One that passes but is out of order, one about a service twice and citing
\* what nobody gave it, and one each that is wrong in a way of its own.
MCReplies ==
  LET a1 == RecordId("a1")
      blame == Says(1, "user", 60, {a1, RecordId("p1")}, NoAction, FALSE)
      rollback == Says(2, "orders", 90, {a1, RecordId("d2")}, Rollback("d2"), TRUE)
      again == Says(3, "orders", 95, {a1}, NoAction, FALSE)
      madeUp == Says(1, "frontend", 80, {RecordId("x9")}, NoAction, FALSE)
      borrowed == Says(1, "user", 70, {RecordId("d2")}, NoAction, FALSE)
      restart == Says(1, "orders", 70, {<<"anomaly", "a2">>}, Restart("orders"), FALSE)
  IN {Garbled, <<madeUp>>, <<borrowed>>, <<restart>>, <<blame, rollback>>,
      <<again, rollback, madeUp>>}
FewReplies == {r \in MCReplies : r # Garbled /\ Len(r) = 2}
=============================================================================
