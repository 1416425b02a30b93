--------------------------- MODULE DriftDetector ---------------------------
(***************************************************************************)
(* One detector of the anomaly-detector service, that of one metric of one *)
(* service (detectors.py Detector), and the deploys of that service        *)
(* (deploy_window.py), which a thread of its own records.                  *)
(*                                                                         *)
(* The main loop first asks the tracker how many breaches in a row the     *)
(* sample needs, then feeds the sample to the detector; the other thread   *)
(* may record a deploy in between.  Whether a value breaches is the        *)
(* arithmetic of the four detectors (_evaluate), and is left open: any     *)
(* sample may.                                                             *)
(***************************************************************************)
EXTENDS Naturals, Sequences

CONSTANTS
  Deploys,     \* deploy ids of the service
  DeployAt,    \* the timestamp of each
  None,
  Warmup,      \* WARMUP_SAMPLES
  Required,    \* REQUIRED_BREACHES
  InWindow,    \* breaches_in_window
  Window,      \* window_seconds
  MaxFrozen,   \* max_frozen
  MaxSamples,  \* bound: samples of the metric
  Gaps         \* bound: seconds between a sample and the one before

ASSUME DeploysAssumption == DeployAt \in [Deploys -> Nat]
ASSUME NumbersAssumption ==
  /\ {Required, InWindow, MaxFrozen, Window} \subseteq Nat \ {0}
  /\ {Warmup, MaxSamples} \subseteq Nat
  /\ Gaps \subseteq Nat \ {0}

VARIABLES
  samples,   \* what was fed to the detector: when, and did it breach
  latest,    \* the tracker's latest deploy
  recorded,  \* deploys the thread has recorded
  asked,     \* the sample in hand and the tracker's answer, None between samples
  count,     \* _count, up to Warmup
  streak,    \* _consecutive_breaches
  frozen,    \* _frozen_for
  started,   \* _streak_started_at
  folded,    \* breaching samples of this streak the baseline has taken in
  signal     \* what update returned

gate == <<count, streak, frozen, started, folded, signal>>
vars == <<samples, latest, recorded, asked, gate>>

Sample == [at : Nat, breach : BOOLEAN]
Question == [at : Nat, needed : Nat, deploy : Deploys \cup {None}]
Signal == [at : Nat, onset : Nat, deploy : Deploys \cup {None}]

ASSUME NoneAssumption ==
  None \notin Deploys /\ None \notin Question /\ None \notin Signal

TypeOK ==
  /\ samples \in Seq(Sample)
  /\ Len(samples) <= MaxSamples
  /\ latest \in Deploys \cup {None}
  /\ recorded \subseteq Deploys
  /\ asked \in Question \cup {None}
  /\ count \in 0..Warmup
  /\ streak \in 0..MaxSamples
  /\ frozen \in 0..MaxFrozen
  /\ started \in Nat \cup {None}
  /\ folded \in 0..MaxSamples
  /\ signal \in Signal \cup {None}

Init ==
  /\ samples = <<>>
  /\ latest = None /\ recorded = {} /\ asked = None
  /\ count = 0 /\ streak = 0 /\ frozen = 0 /\ started = None /\ folded = 0
  /\ signal = None

-----------------------------------------------------------------------------
(***************************************************************************)
(* The tracker.  A sample older than the deploy counts as inside its       *)
(* window too: only the window's end is compared.                          *)
(***************************************************************************)
ActiveDeploy(now) ==
  IF latest # None /\ now <= DeployAt[latest] + Window THEN latest ELSE None

\* Slip: inside a window nothing fires.
HardMute(now) == IF ActiveDeploy(now) = None THEN Required ELSE MaxSamples + 1

NeededAt(now) ==
  IF ActiveDeploy(now) = None \/ InWindow <= Required THEN Required ELSE InWindow

\* The consumer thread: events arrive in any order, and may arrive again.
RecordDeploy(d) ==
  /\ latest' = IF latest = None THEN d
               ELSE IF DeployAt[d] >= DeployAt[latest] THEN d ELSE latest
  /\ recorded' = recorded \cup {d}
  /\ UNCHANGED <<samples, asked, gate>>

-----------------------------------------------------------------------------
Now == IF samples = <<>> THEN 0 ELSE samples[Len(samples)].at

\* main.py run: the next sample, and what the tracker says of its time.
Ask ==
  /\ asked = None
  /\ Len(samples) < MaxSamples
  /\ \E gap \in Gaps :
       asked' = [at |-> Now + gap, needed |-> NeededAt(Now + gap),
                 deploy |-> ActiveDeploy(Now + gap)]
  /\ UNCHANGED <<samples, latest, recorded, gate>>

(***************************************************************************)
(* main.py gives every detector the same Warmup; a default of the class's  *)
(* own (static has one: none) never applies.                               *)
(***************************************************************************)
Warm == count >= Warmup

WarmUp ==
  /\ ~ Warm
  /\ count' = count + 1
  /\ signal' = None
  /\ UNCHANGED <<streak, frozen, started, folded>>

\* Slip: the samples frozen out are counted over all streaks.
NormalKeepsFrozen ==
  /\ Warm
  /\ streak' = 0 /\ started' = None /\ folded' = 0
  /\ signal' = None
  /\ UNCHANGED <<count, frozen>>

\* Slip: a normal sample does not end the streak.
NormalKeepsStreak ==
  /\ Warm
  /\ frozen' = 0 /\ folded' = 0
  /\ signal' = None
  /\ UNCHANGED <<count, streak, started>>

\* Not a breach: the baseline takes the sample in.
Normal ==
  /\ Warm
  /\ streak' = 0 /\ frozen' = 0 /\ started' = None /\ folded' = 0
  /\ signal' = None
  /\ UNCHANGED count

\* A breach is kept out of the baseline, MaxFrozen times in a row.
Freeze ==
  IF frozen < MaxFrozen
  THEN frozen' = frozen + 1 /\ UNCHANGED folded
  ELSE folded' = folded + 1 /\ UNCHANGED frozen

Breach ==
  /\ Warm
  /\ streak' = streak + 1
  /\ started' = IF streak = 0 THEN asked.at ELSE started
  /\ Freeze
  /\ signal' = IF streak + 1 < asked.needed THEN None
               ELSE [at |-> asked.at, onset |-> started', deploy |-> asked.deploy]
  /\ UNCHANGED count

\* Detector.update
Update ==
  /\ asked # None
  /\ \E breach \in BOOLEAN :
       /\ samples' = Append(samples, [at |-> asked.at, breach |-> breach])
       /\ \/ WarmUp
          \/ breach /\ Breach
          \/ ~ breach /\ Normal
  /\ asked' = None
  /\ UNCHANGED <<latest, recorded>>

Next ==
  \/ \E d \in Deploys : RecordDeploy(d)
  \/ Ask
  \/ Update

Spec == Init /\ [][Next]_vars

-----------------------------------------------------------------------------
(***************************************************************************)
(* Properties.  They speak of the streak as one would find it in a log of  *)
(* the samples: the last n, all of them breaches.                          *)
(***************************************************************************)
Trailing(n, from) ==
  /\ n <= Len(samples) - from
  /\ \A k \in Len(samples) - n + 1 .. Len(samples) : samples[k].breach

\* Does a streak of exactly n breaches end the samples after the warm-up?
StreakIs(n) ==
  /\ Len(samples) >= Warmup + n
  /\ Trailing(n, Warmup)
  /\ ~ Trailing(n + 1, Warmup)

(***************************************************************************)
(* A deploy window "raises the evidence bar instead of closing the gate":  *)
(* a regression that lasts InWindow samples (Required, where that is more) *)
(* fires on every sample from there on, whatever deploys are recorded, and *)
(* whenever the other thread records them.                                 *)
(***************************************************************************)
RegressionFires ==
  Len(samples) > Warmup /\ Trailing(InWindow, Warmup) /\ Trailing(Required, Warmup)
    => signal # None

(***************************************************************************)
(* A signal says since when: its onset is the first sample of the streak   *)
(* it ends, and the streak is as long as the bar in force, which is the    *)
(* higher one where the signal names a deploy.                             *)
(***************************************************************************)
OnsetIsHonest ==
  signal # None =>
    \E n \in 1..Len(samples) :
      /\ StreakIs(n)
      /\ signal.onset = samples[Len(samples) - n + 1].at
      /\ n >= Required
      /\ signal.deploy # None => n >= InWindow

(***************************************************************************)
(* "A breaching sample normally must not pollute the baseline": each       *)
(* streak keeps its first MaxFrozen breaches out, also when many short     *)
(* ones came before it.                                                    *)
(***************************************************************************)
FaultIsNotTheNewNormal ==
  \A n \in 0..Len(samples) :
    StreakIs(n) => folded = IF n > MaxFrozen THEN n - MaxFrozen ELSE 0

\* The window is that of the newest deploy, in whatever order they arrive.
NewestDeployCounts ==
  IF recorded = {} THEN latest = None
  ELSE latest \in recorded /\ \A d \in recorded : DeployAt[d] <= DeployAt[latest]
=============================================================================
