--------------------- MODULE AnomalyDetectorProperties ---------------------
(***************************************************************************)
(* What the alerts of the anomaly detector promise, and what it may do     *)
(* with the signals in between.                                            *)
(***************************************************************************)
EXTENDS AnomalyDetector

\* Alerts of the current run that name a service, published or about to be.
Emitted == alerts \o outbox
About(s) == {k \in DOMAIN Emitted : Emitted[k].run = run /\ s \in ServicesOf(Emitted[k].signals)}

(***************************************************************************)
(* An ongoing fault does not alert again and again.  When a service opens  *)
(* an alert and an earlier alert of the same run named it, as the opener   *)
(* or as a member, then either a cooldown has passed since that one was    *)
(* flushed or the signal is an escalation.  Signals carry the time of      *)
(* their sample, so a mute set or lifted by a late sample may be off by    *)
(* the lag, once for each.                                                 *)
(***************************************************************************)
ReAlertSpacing ==
  \A k \in DOMAIN Emitted :
    LET opener == Emitted[k].signals[1]
        before == {j \in About(opener.svc) : j < k}
    IN Emitted[k].run = run /\ before # {} =>
         LET last == Emitted[Max(before)] IN
           \/ opener.at + 2 * Lag >= last.flushed + Cooldown
           \/ opener.score >= Escalation * PeakOf(last.signals, opener.svc)

(***************************************************************************)
(* "Without that, a minor alert can hide a major one": a signal that is in *)
(* no open group was muted by an alert about its own service, and is not   *)
(* Escalation times worse than that alert, or its site's open group is at  *)
(* its limit.                                                              *)
(***************************************************************************)
EscalationIsHeard ==
  signal # None =>
    LET open == group[SiteOf[signal.svc]]
        mine == About(signal.svc)
    IN \/ open # None /\ (\/ Len(open.signals) = MaxMembers
                          \/ \E k \in DOMAIN open.signals : open.signals[k] = signal)
       \/ /\ mine # {}
          /\ signal.score < Escalation * PeakOf(Emitted[Max(mine)].signals, signal.svc)

(***************************************************************************)
(* Every group that opens is published, unless the process is restarted    *)
(* before: also when no further sample arrives.  (The clock of the model   *)
(* ends at MaxTime; a group due later is not asked about.)                 *)
(***************************************************************************)
GroupIsPublished ==
  \A site \in Sites, n \in 1..MaxRuns :
    (group[site] # None /\ group[site].emit <= MaxTime /\ run = n) ~> (run # n \/ (group[site] = None /\ outbox = <<>>))

(***************************************************************************)
(* A service that was reporting regularly and then stopped is found        *)
(* silent, unless the process is restarted before.                         *)
(***************************************************************************)
SilenceIsNoticed ==
  \A s \in Services, n \in 1..MaxRuns :
    (seen[s] = MinSeen /\ run = n) ~> (s \in reported \/ run # n)

(***************************************************************************)
(* What the project's notes say of a service found silent: its silence is  *)
(* a signal in its own right and reaches an alert, unless it reports again *)
(* first or the process is restarted.                                      *)
(***************************************************************************)
SilenceIsAlerted ==
  \A s \in Services :
    (s \in reported /\ tick + Delay <= MaxTime) ~>
      \/ s \notin reported
      \/ \E k \in DOMAIN alerts : \E j \in DOMAIN alerts[k].signals :
           alerts[k].signals[j].svc = s /\ alerts[k].signals[j].liveness
=============================================================================
