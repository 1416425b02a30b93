---------------------- MODULE AnomalyDetectorInvariant ----------------------
(***************************************************************************)
(* The inductive invariant of the detector's loop: what the grouper knows  *)
(* about the alerts of this run, and how far the times that samples and    *)
(* mutes carry may be from the clock and from each other.                  *)
(***************************************************************************)
EXTENDS AnomalyDetectorProperties

Unread == (read + 1)..Len(raw)

\* Whatever the loop is told the time is from now on - by an unread sample, by
\* one still to come, or by the clock it has read - is at least t, but for
\* slack, and for the lag if a sample says so.
NotAhead(t, slack) ==
  /\ t <= clock + slack
  /\ \A k \in Unread : t <= raw[k].at + Lag + slack
  /\ pc = "silence" => t <= tick + slack

\* Samples come in the order they arrived in, stamped at most Lag earlier.
SamplesInOrder ==
  \A j \in DOMAIN raw :
    /\ raw[j].at <= clock
    /\ \A k \in DOMAIN raw : j <= k => raw[j].at <= raw[k].at + Lag

\* The end of the batch lies behind everything that has not been read by then.
TickIsPast ==
  /\ tick <= clock
  /\ pc # "poll" => NotAhead(tick, 0)
  /\ pc \in {"flush", "publish"} => signal = None

AlertsOfRuns ==
  \A k \in DOMAIN Emitted : Emitted[k].run <= run

Latest(s) == Emitted[Max(About(s))]

\* A service that may open an alert: nothing named it, a cooldown has passed
\* since that was flushed (give or take two lags), or it got much worse.
MayAlert(sig) ==
  About(sig.svc) # {} =>
    \/ sig.at + 2 * Lag >= Latest(sig.svc).flushed + Cooldown
    \/ sig.score >= Escalation * PeakOf(Latest(sig.svc).signals, sig.svc)

\* A group holds signals of its site, was opened by one that might, and stays
\* under the limit.
GroupOfSite(site) ==
  LET signals == group[site].signals IN
    /\ Len(signals) \in 1..MaxMembers
    /\ \A k \in DOMAIN signals : SiteOf[signals[k].svc] = site /\ signals[k].at <= clock
    /\ MayAlert(signals[1])

\* A mute belongs to the latest alert that named the service, and ends a
\* cooldown after its flush or later, but for the lag.  A mute that is gone
\* was lifted when its time was up.
MuteIsOwed(s) ==
  /\ cooling[s] # 0 => About(s) # {} /\ peak[s] = PeakOf(Latest(s).signals, s)
  /\ About(s) # {} =>
       /\ NotAhead(Latest(s).flushed, 0)
       /\ IF cooling[s] = 0 THEN NotAhead(Latest(s).flushed + Cooldown, Lag)
          ELSE Latest(s).flushed + Cooldown <= cooling[s] + Lag

LoopInv ==
  /\ TypeOK
  /\ SamplesInOrder
  /\ TickIsPast
  /\ AlertsOfRuns
  /\ \A site \in Sites : group[site] # None => GroupOfSite(site)
  /\ \A s \in Services : MuteIsOwed(s)
  /\ ReAlertSpacing
  /\ EscalationIsHeard
=============================================================================
