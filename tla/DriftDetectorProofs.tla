------------------------ MODULE DriftDetectorProofs ------------------------
(***************************************************************************)
(* The safety properties of DriftDetector, for any deploys, bars, warm-up  *)
(* and number of samples.                                                  *)
(*                                                                         *)
(* The properties speak of the samples; the detector only has counters.    *)
(* The invariant ties the two together: streak is the length of the run of *)
(* breaches that ends the samples, and the other counters follow from it.  *)
(***************************************************************************)
EXTENDS DriftDetector, TLAPS

\* How many samples there were.
n == Len(samples)

\* The counter of warm-up samples, and the streak, against the samples.
CountersCount ==
  /\ count = IF n < Warmup THEN n ELSE Warmup
  /\ streak <= n - count
  /\ \A k \in (n - streak + 1)..n : samples[k].breach
  /\ n - streak > Warmup => ~ samples[n - streak].breach

\* What of the streak is kept out of the baseline, and when it began.
StreakIsKeptOut ==
  /\ frozen = IF streak < MaxFrozen THEN streak ELSE MaxFrozen
  /\ folded = IF streak < MaxFrozen THEN 0 ELSE streak - MaxFrozen
  /\ streak > 0 => started = samples[n - streak + 1].at

\* The bar the sample in hand has to take.
BarIsRaisedOnly ==
  asked # None =>
    /\ n < MaxSamples
    /\ asked.needed >= Required
    /\ asked.deploy # None => asked.needed >= InWindow
    /\ asked.needed \in {Required, InWindow}

\* The last signal against the streak.
SignalEndsStreak ==
  /\ signal # None =>
       /\ streak >= Required
       /\ signal.onset = started
       /\ signal.deploy # None => streak >= InWindow
  /\ streak >= Required /\ streak >= InWindow => signal # None

DInv ==
  /\ TypeOK
  /\ CountersCount
  /\ StreakIsKeptOut
  /\ BarIsRaisedOnly
  /\ SignalEndsStreak
  /\ NewestDeployCounts

-----------------------------------------------------------------------------
\* The assumptions on the constants, one by one.
LEMMA Constants ==
  /\ Required \in Nat /\ Required > 0 /\ InWindow \in Nat /\ InWindow > 0
  /\ MaxFrozen \in Nat /\ MaxFrozen > 0
  /\ Warmup \in Nat /\ MaxSamples \in Nat /\ Window \in Nat
  /\ \A gap \in Gaps : gap \in Nat
  /\ \A d \in Deploys : DeployAt[d] \in Nat /\ d # None
BY NumbersAssumption, DeploysAssumption, NoneAssumption

\* The bar is one of two numbers, never below Required.
LEMMA Bar ==
  ASSUME TypeOK, NEW now \in Nat
  PROVE  /\ NeededAt(now) \in {Required, InWindow}
         /\ NeededAt(now) >= Required
         /\ ActiveDeploy(now) \in Deploys \cup {None}
         /\ ActiveDeploy(now) # None => NeededAt(now) >= InWindow
BY Constants, NoneAssumption DEF TypeOK, NeededAt, ActiveDeploy

\* The start.
LEMMA InitDInv == Init => DInv
BY Constants, NoneAssumption
   DEF Init, DInv, TypeOK, CountersCount, StreakIsKeptOut, BarIsRaisedOnly, SignalEndsStreak,
       NewestDeployCounts, n

\* The other thread touches none of the detector's counters.
LEMMA RecordDeployStep ==
  ASSUME DInv, NEW d \in Deploys, RecordDeploy(d)
  PROVE  DInv'
<1>1. TypeOK'
  BY DEF DInv, TypeOK, RecordDeploy, gate
<1>2. NewestDeployCounts'
  BY Constants DEF DInv, TypeOK, RecordDeploy, NewestDeployCounts
<1>3. UNCHANGED <<samples, asked, count, streak, frozen, started, folded, signal>>
  BY DEF RecordDeploy, gate
<1> QED
  BY Constants, <1>1, <1>2, <1>3 DEF DInv, CountersCount, StreakIsKeptOut, BarIsRaisedOnly,
     SignalEndsStreak, n

\* Asking sets the bar for the sample in hand.
LEMMA AskStep ==
  ASSUME DInv, Ask
  PROVE  DInv'
<1>1. PICK gap \in Gaps : asked' = [at |-> Now + gap, needed |-> NeededAt(Now + gap),
                                    deploy |-> ActiveDeploy(Now + gap)]
  BY DEF Ask
<1>2. Now + gap \in Nat
  <2>1. samples # <<>> => samples[Len(samples)] \in Sample
    BY DEF DInv, TypeOK
  <2>2. Now \in Nat
    BY Constants, <2>1 DEF Now, Sample
  <2> QED
    BY Constants, <2>2
<1>3. BarIsRaisedOnly' /\ asked' \in Question
  BY Constants, <1>1, <1>2, Bar DEF DInv, TypeOK, Ask, BarIsRaisedOnly, Question, n
<1>4. UNCHANGED <<samples, latest, recorded, count, streak, frozen, started, folded, signal>>
  BY DEF Ask, gate
<1>5. TypeOK'
  BY Constants, <1>3, <1>4 DEF DInv, TypeOK
<1> QED
  BY Constants, <1>3, <1>4, <1>5 DEF DInv, CountersCount, StreakIsKeptOut, SignalEndsStreak,
     NewestDeployCounts, n

\* One sample more: what it does to the samples.
LEMMA OneMore ==
  ASSUME TypeOK, asked # None, NEW breach \in BOOLEAN, n < MaxSamples,
         samples' = Append(samples, [at |-> asked.at, breach |-> breach])
  PROVE  /\ n \in Nat
         /\ n' = n + 1
         /\ n' <= MaxSamples
         /\ samples' \in Seq(Sample)
         /\ samples'[n + 1].at = asked.at /\ samples'[n + 1].breach = breach
         /\ \A k \in 1..n : samples'[k] = samples[k]
         /\ asked.at \in Nat /\ asked.needed \in Nat /\ asked.deploy \in Deploys \cup {None}
BY Constants DEF TypeOK, Sample, Question, n

\* A sample of the warm-up counts for nothing but the warm-up.
LEMMA WarmUpStep ==
  ASSUME DInv, Update, WarmUp
  PROVE  DInv'
<1>1. PICK breach \in BOOLEAN : samples' = Append(samples, [at |-> asked.at, breach |-> breach])
  BY DEF Update
<1>2. asked # None /\ n < MaxSamples
  BY DEF Update, DInv, BarIsRaisedOnly
<1>3. TypeOK
  BY DEF DInv
<1>4. /\ n \in Nat /\ n' = n + 1 /\ n' <= MaxSamples /\ samples' \in Seq(Sample)
  BY Constants, <1>1, <1>2, <1>3, OneMore
<1>5. /\ asked' = None /\ UNCHANGED <<latest, recorded>>
      /\ count < Warmup /\ count' = count + 1
      /\ signal' = None
      /\ UNCHANGED <<streak, frozen, started, folded>>
  BY Constants DEF Update, WarmUp, Warm, TypeOK, DInv
<1>6. streak = 0 /\ count = n /\ n < Warmup
  BY Constants, <1>4, <1>5 DEF DInv, CountersCount, TypeOK
<1>7. TypeOK'
  BY Constants, <1>3, <1>4, <1>5, <1>6 DEF TypeOK, n
<1>8. CountersCount'
  BY Constants, <1>4, <1>5, <1>6 DEF CountersCount
<1>9. StreakIsKeptOut' /\ SignalEndsStreak' /\ BarIsRaisedOnly' /\ NewestDeployCounts'
  BY Constants, <1>5, <1>6 DEF DInv, StreakIsKeptOut, SignalEndsStreak, BarIsRaisedOnly, NewestDeployCounts
<1> QED
  BY Constants, <1>7, <1>8, <1>9 DEF DInv

\* A normal sample ends the streak.
LEMMA NormalStep ==
  ASSUME DInv, asked # None, Normal,
         samples' = Append(samples, [at |-> asked.at, breach |-> FALSE]),
         asked' = None, UNCHANGED <<latest, recorded>>
  PROVE  DInv'
<1>2. n < MaxSamples
  BY DEF DInv, BarIsRaisedOnly
<1>3. TypeOK
  BY DEF DInv
<1>4. /\ n \in Nat /\ n' = n + 1 /\ n' <= MaxSamples /\ samples' \in Seq(Sample)
      /\ ~ samples'[n + 1].breach
  BY Constants, <1>2, <1>3, OneMore
<1>5. /\ count >= Warmup /\ UNCHANGED count
      /\ streak' = 0 /\ frozen' = 0 /\ started' = None /\ folded' = 0 /\ signal' = None
  BY DEF Normal, Warm
<1>6. count = Warmup /\ n >= Warmup
  BY Constants, <1>3, <1>4, <1>5 DEF DInv, CountersCount, TypeOK
<1>7. TypeOK'
  BY Constants, <1>3, <1>4, <1>5 DEF TypeOK, n
<1>8. CountersCount'
  <2>1. n' - streak' = n + 1 /\ (n' - streak' + 1)..n' = {}
    BY Constants, <1>4, <1>5
  <2>2. ~ samples'[n' - streak'].breach
    BY <1>4, <2>1
  <2>3. count' = (IF n' < Warmup THEN n' ELSE Warmup) /\ streak' <= n' - count'
    BY Constants, <1>4, <1>5, <1>6
  <2> QED
    BY <2>1, <2>2, <2>3 DEF CountersCount
<1>9. StreakIsKeptOut' /\ SignalEndsStreak' /\ BarIsRaisedOnly' /\ NewestDeployCounts'
  BY Constants, <1>5 DEF DInv, StreakIsKeptOut, SignalEndsStreak, BarIsRaisedOnly, NewestDeployCounts
<1> QED
  BY Constants, <1>7, <1>8, <1>9 DEF DInv

\* A breach makes the streak one longer.
LEMMA BreachStep ==
  ASSUME DInv, asked # None, Breach,
         samples' = Append(samples, [at |-> asked.at, breach |-> TRUE]),
         asked' = None, UNCHANGED <<latest, recorded>>
  PROVE  DInv'
<1>2. n < MaxSamples
  BY DEF DInv, BarIsRaisedOnly
<1>3. TypeOK
  BY DEF DInv
<1>4. /\ n \in Nat /\ n' = n + 1 /\ n' <= MaxSamples /\ samples' \in Seq(Sample)
      /\ samples'[n + 1].at = asked.at /\ samples'[n + 1].breach
      /\ \A k \in 1..n : samples'[k] = samples[k]
      /\ asked.at \in Nat /\ asked.needed \in Nat /\ asked.deploy \in Deploys \cup {None}
  BY Constants, <1>2, <1>3, OneMore
<1>5. /\ count >= Warmup /\ UNCHANGED count /\ streak' = streak + 1
      /\ started' = IF streak = 0 THEN asked.at ELSE started
      /\ signal' = IF streak' < asked.needed THEN None
                   ELSE [at |-> asked.at, onset |-> started', deploy |-> asked.deploy]
  BY DEF Breach, Warm
<1>6. /\ count = Warmup /\ n >= Warmup /\ streak \in Nat /\ streak <= n - Warmup
      /\ \A k \in (n - streak + 1)..n : samples[k].breach
      /\ n - streak > Warmup => ~ samples[n - streak].breach
  BY Constants, <1>3, <1>4, <1>5 DEF DInv, CountersCount, TypeOK
<1>7. n' - streak' = n - streak
  BY Constants, <1>4, <1>5, <1>6
<1>8. CountersCount'
  <2>1. ASSUME NEW k \in (n - streak + 1)..(n + 1)
        PROVE  samples'[k].breach
    <3>1. CASE k = n + 1
      BY <1>4, <3>1
    <3>2. CASE k # n + 1
      <4>1. k \in (n - streak + 1)..n /\ k \in 1..n
        BY Constants, <1>4, <1>6, <3>2
      <4>2. samples'[k] = samples[k] /\ samples[k].breach
        BY <1>4, <1>6, <4>1
      <4> QED
        BY <4>2
    <3> QED
      BY <3>1, <3>2
  <2>2. n - streak > Warmup => ~ samples'[n - streak].breach
    <3>1. SUFFICES ASSUME n - streak > Warmup
                   PROVE  ~ samples'[n - streak].breach
      OBVIOUS
    <3>2. n - streak \in 1..n
      BY Constants, <1>4, <1>6, <3>1
    <3>3. samples'[n - streak] = samples[n - streak] /\ ~ samples[n - streak].breach
      BY <1>4, <1>6, <3>1, <3>2
    <3> QED
      BY <3>3
  <2>3. count' = IF n' < Warmup THEN n' ELSE Warmup
    BY Constants, <1>4, <1>5, <1>6
  <2>4. streak' <= n' - count'
    BY Constants, <1>4, <1>5, <1>6
  <2> QED
    BY Constants, <1>4, <1>7, <2>1, <2>2, <2>3, <2>4 DEF CountersCount
<1>9. StreakIsKeptOut'
  <2>1. /\ frozen' = IF streak' < MaxFrozen THEN streak' ELSE MaxFrozen
        /\ folded' = IF streak' < MaxFrozen THEN 0 ELSE streak' - MaxFrozen
    BY Constants, <1>5, <1>6 DEF Breach, Freeze, DInv, StreakIsKeptOut
  <2>2. started' = samples'[n - streak + 1].at
    <3>1. CASE streak = 0
      <4>1. n - streak + 1 = n + 1
        BY <1>4, <3>1
      <4> QED
        BY <1>4, <1>5, <3>1, <4>1
    <3>2. CASE streak # 0
      <4>1. started = samples[n - streak + 1].at /\ n - streak + 1 \in 1..n
        BY Constants, <1>4, <1>6, <3>2 DEF DInv, StreakIsKeptOut
      <4> QED
        BY Constants, <1>4, <1>5, <3>2, <4>1
    <3> QED
      BY Constants, <3>1, <3>2
  <2> QED
    BY Constants, <1>7, <2>1, <2>2 DEF StreakIsKeptOut
<1>10. started' \in Nat
  <2>1. CASE streak = 0
    BY Constants, <1>4, <1>5, <2>1
  <2>2. CASE streak # 0
    <3>1. started = samples[n - streak + 1].at /\ n - streak + 1 \in 1..n
      BY Constants, <1>4, <1>6, <2>2 DEF DInv, StreakIsKeptOut
    <3>2. samples[n - streak + 1] \in Sample
      BY Constants, <1>3, <3>1 DEF TypeOK, n
    <3> QED
      BY Constants, <1>5, <2>2, <3>1, <3>2 DEF Sample
  <2> QED
    BY Constants, <2>1, <2>2
<1>11. TypeOK'
  <2>1. signal' \in Signal \cup {None}
    BY Constants, <1>4, <1>5, <1>10 DEF Signal
  <2>2. frozen' \in 0..MaxFrozen /\ folded' \in 0..MaxSamples /\ streak' \in 0..MaxSamples
    BY Constants, <1>4, <1>5, <1>6, <1>9 DEF StreakIsKeptOut
  <2> QED
    BY Constants, <1>3, <1>4, <1>5, <1>10, <2>1, <2>2 DEF TypeOK, n
<1>12. SignalEndsStreak'
  <2>1. /\ asked.needed >= Required /\ asked.needed \in {Required, InWindow}
        /\ asked.deploy # None => asked.needed >= InWindow
    BY DEF DInv, BarIsRaisedOnly
  <2>2. CASE streak' < asked.needed
    BY Constants, <1>5, <1>6, <2>1, <2>2 DEF SignalEndsStreak
  <2>3. CASE streak' >= asked.needed
    <3>1. signal' = [at |-> asked.at, onset |-> started', deploy |-> asked.deploy]
      BY Constants, <1>4, <1>5, <1>6, <2>3
    <3>2. signal' # None
      BY Constants, <1>4, <1>10, <3>1, NoneAssumption DEF Signal
    <3>3. signal'.onset = started' /\ signal'.deploy = asked.deploy
      BY <3>1
    <3>4. streak' >= Required /\ (asked.deploy # None => streak' >= InWindow)
      BY Constants, <1>4, <1>5, <1>6, <2>1, <2>3
    <3> QED
      BY <3>2, <3>3, <3>4 DEF SignalEndsStreak
  <2> QED
    BY Constants, <1>4, <1>5, <1>6, <2>2, <2>3
<1>13. BarIsRaisedOnly' /\ NewestDeployCounts'
  BY DEF DInv, BarIsRaisedOnly, NewestDeployCounts
<1> QED
  BY Constants, <1>8, <1>9, <1>11, <1>12, <1>13 DEF DInv

-----------------------------------------------------------------------------
\* DInv is an invariant of the detector and its tracker.
THEOREM DriftInvariant == Spec => []DInv
<1>1. ASSUME DInv, [Next]_vars
      PROVE  DInv'
  <2>1. CASE \E d \in Deploys : RecordDeploy(d)
    BY <1>1, <2>1, RecordDeployStep
  <2>2. CASE Ask
    BY <1>1, <2>2, AskStep
  <2>3. CASE Update
    <3>1. PICK breach \in BOOLEAN :
            /\ samples' = Append(samples, [at |-> asked.at, breach |-> breach])
            /\ \/ WarmUp
               \/ breach /\ Breach
               \/ ~ breach /\ Normal
      BY <2>3 DEF Update
    <3>2. asked # None /\ asked' = None /\ UNCHANGED <<latest, recorded>>
      BY <2>3 DEF Update
    <3>3. CASE WarmUp
      BY <1>1, <2>3, <3>3, WarmUpStep
    <3>4. CASE breach /\ Breach
      <4>1. samples' = Append(samples, [at |-> asked.at, breach |-> TRUE])
        BY <3>1, <3>4
      <4> QED
        BY <1>1, <3>2, <3>4, <4>1, BreachStep
    <3>5. CASE ~ breach /\ Normal
      <4>1. samples' = Append(samples, [at |-> asked.at, breach |-> FALSE])
        BY <3>1, <3>5
      <4> QED
        BY <1>1, <3>2, <3>5, <4>1, NormalStep
    <3> QED
      BY <3>1, <3>3, <3>4, <3>5
  <2>4. CASE UNCHANGED vars
    BY <1>1, <2>4 DEF vars, gate, DInv, TypeOK, CountersCount, StreakIsKeptOut,
       BarIsRaisedOnly, SignalEndsStreak, NewestDeployCounts, n
  <2> QED
    BY <1>1, <2>1, <2>2, <2>3, <2>4 DEF Next
<1> QED
  BY <1>1, InitDInv, PTL DEF Spec

\* Every variable keeps its type.
THEOREM DriftTypes == Spec => []TypeOK
<1>1. DInv => TypeOK
  BY DEF DInv
<1> QED
  BY <1>1, DriftInvariant, PTL

\* The tracker holds the newest of the deploys recorded.
THEOREM NewestDeploy == Spec => []NewestDeployCounts
<1>1. DInv => NewestDeployCounts
  BY DEF DInv
<1> QED
  BY <1>1, DriftInvariant, PTL

\* The run of breaches that ends the samples is never longer than streak.
LEMMA StreakIsLongest ==
  ASSUME DInv, NEW m \in Nat, Trailing(m, Warmup), n >= Warmup
  PROVE  m <= streak
<1>1. /\ n \in Nat /\ streak \in Nat /\ count = Warmup /\ streak <= n - Warmup
      /\ n - streak > Warmup => ~ samples[n - streak].breach
  BY Constants DEF DInv, TypeOK, CountersCount, n
<1>2. m <= n - Warmup /\ \A k \in (n - m + 1)..n : samples[k].breach
  BY DEF Trailing, n
<1>3. SUFFICES ASSUME m > streak
               PROVE  FALSE
  BY <1>1
<1>4. n - streak > Warmup /\ n - streak \in (n - m + 1)..n
  BY Constants, <1>1, <1>2, <1>3
<1> QED
  BY <1>1, <1>2, <1>4

\* streak is the length of the run of breaches that ends the samples.
LEMMA StreakIsStreak ==
  ASSUME DInv, n >= Warmup
  PROVE  /\ StreakIs(streak)
         /\ \A m \in Nat : StreakIs(m) => m = streak
<1>1. /\ n \in Nat /\ streak \in Nat /\ count = Warmup /\ streak <= n - Warmup
      /\ \A k \in (n - streak + 1)..n : samples[k].breach
  BY Constants DEF DInv, TypeOK, CountersCount, n
<1>2. Trailing(streak, Warmup)
  BY Constants, <1>1 DEF Trailing, n
<1>3. ~ Trailing(streak + 1, Warmup)
  BY <1>1, StreakIsLongest
<1>4. n >= Warmup + streak
  BY Constants, <1>1
<1>5. ASSUME NEW m \in Nat, StreakIs(m)
      PROVE  m = streak
  <2>1. m <= streak /\ Trailing(m, Warmup) /\ ~ Trailing(m + 1, Warmup)
    BY <1>5, StreakIsLongest DEF StreakIs
  <2>2. m < streak => Trailing(m + 1, Warmup)
    BY Constants, <1>1, <2>1 DEF Trailing, n
  <2> QED
    BY <1>1, <2>1, <2>2
<1> QED
  BY <1>2, <1>3, <1>4, <1>5 DEF StreakIs, n

(***************************************************************************)
(* A deploy window raises the bar and never closes the gate.               *)
(***************************************************************************)
THEOREM RegressionsFire == Spec => []RegressionFires
<1>1. ASSUME DInv, Len(samples) > Warmup, Trailing(InWindow, Warmup), Trailing(Required, Warmup)
      PROVE  signal # None
  <2>1. n >= Warmup /\ streak \in Nat
    BY <1>1, Constants DEF n, DInv, TypeOK
  <2>2. InWindow <= streak /\ Required <= streak
    BY <1>1, <2>1, Constants, StreakIsLongest
  <2> QED
    BY <1>1, <2>1, <2>2, Constants DEF DInv, SignalEndsStreak
<1>2. DInv => RegressionFires
  BY <1>1 DEF RegressionFires
<1> QED
  BY <1>2, DriftInvariant, PTL

(***************************************************************************)
(* A signal's onset is the first breach of the streak it ends, and its     *)
(* streak is as long as the bar in force.                                  *)
(***************************************************************************)
THEOREM OnsetsAreHonest == Spec => []OnsetIsHonest
<1>1. ASSUME DInv, signal # None
      PROVE  \E m \in 1..Len(samples) :
               /\ StreakIs(m)
               /\ signal.onset = samples[Len(samples) - m + 1].at
               /\ m >= Required
               /\ signal.deploy # None => m >= InWindow
  <2>1. /\ streak >= Required /\ streak > 0 /\ signal.onset = started
        /\ signal.deploy # None => streak >= InWindow
    BY <1>1, Constants DEF DInv, SignalEndsStreak, TypeOK
  <2>2. n \in Nat /\ streak \in Nat /\ streak <= n /\ n >= Warmup
    BY <1>1, <2>1, Constants DEF DInv, CountersCount, TypeOK, n
  <2>3. started = samples[n - streak + 1].at
    BY <1>1, <2>1 DEF DInv, StreakIsKeptOut
  <2>4. StreakIs(streak)
    BY <1>1, <2>2, StreakIsStreak
  <2>5. streak \in 1..Len(samples)
    BY <2>1, <2>2 DEF n
  <2> QED
    BY <2>1, <2>3, <2>4, <2>5 DEF n
<1>2. DInv => OnsetIsHonest
  BY <1>1 DEF OnsetIsHonest
<1> QED
  BY <1>2, DriftInvariant, PTL

(***************************************************************************)
(* Each streak keeps its first MaxFrozen breaches out of the baseline.     *)
(***************************************************************************)
THEOREM FaultsStayFaults == Spec => []FaultIsNotTheNewNormal
<1>1. ASSUME DInv, NEW m \in 0..Len(samples), StreakIs(m)
      PROVE  folded = IF m > MaxFrozen THEN m - MaxFrozen ELSE 0
  <2>1. m \in Nat /\ n >= Warmup
    BY <1>1, Constants DEF StreakIs, n, DInv, TypeOK
  <2>2. m = streak
    BY <1>1, <2>1, StreakIsStreak
  <2> QED
    BY <1>1, <2>1, <2>2, Constants DEF DInv, StreakIsKeptOut
<1>2. DInv => FaultIsNotTheNewNormal
  BY <1>1 DEF FaultIsNotTheNewNormal
<1> QED
  BY <1>2, DriftInvariant, PTL
=============================================================================
