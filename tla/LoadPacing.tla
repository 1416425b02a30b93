----------------------------- MODULE LoadPacing -----------------------------
(***************************************************************************)
(* services/load-generator: the pace of the journeys.                      *)
(*                                                                         *)
(* Every request takes a slot of the shared RateLimiter, the workers that  *)
(* wait for an answer among them; the fetch of the catalogue does not, and *)
(* is limited by the time of the last attempt.  That time is read before   *)
(* the lock is taken, so an attempt may be recorded with an older one.     *)
(***************************************************************************)
EXTENDS Integers, Sequences

CONSTANTS
  Workers,
  Interval,      \* 1 / TARGET_RPS
  Refresh,       \* CATALOGUE_REFRESH_SECONDS
  EmptyRetry,    \* EMPTY_CATALOGUE_RETRY_SECONDS
  MaxClock,      \* bound
  MaxGrants      \* bound: slots handed out

ASSUME PacingAssumption ==
  /\ Interval \in Nat
  /\ Refresh \in Nat /\ EmptyRetry \in Nat
  /\ EmptyRetry <= Refresh
  /\ MaxClock \in Nat /\ MaxGrants \in Nat

VARIABLES
  clock,       \* time.monotonic()
  nextSlot,    \* RateLimiter._next_slot
  grants,      \* every slot handed out, with the time it was asked for
  worker,      \* what each worker is doing, and until when it sleeps
  stocked,     \* _catalogue_ids is not empty
  attempted,   \* _catalogue_attempted_at
  attempts     \* every fetch, with the ids there were

pacingVars == <<clock, nextSlot, grants, worker, stocked, attempted, attempts>>

Idle == [at |-> "browse", until |-> 0]

PacingTypeOK ==
  /\ clock \in 0..MaxClock
  /\ nextSlot \in Nat
  /\ grants \in Seq([asked : Nat, slot : Nat])
  /\ worker \in [Workers -> [at : {"browse", "send", "catalogue", "fetch", "buy"}, until : Nat]]
  /\ stocked \in BOOLEAN
  /\ attempted \in Int
  /\ attempts \in Seq([at : Int, stocked : BOOLEAN])

\* main fetches the catalogue once by force before any worker runs.
PacingInit ==
  /\ clock = 0
  /\ nextSlot = 0
  /\ grants = <<>>
  /\ worker = [w \in Workers |-> Idle]
  /\ stocked \in BOOLEAN
  /\ attempted = 0
  /\ attempts = <<[at |-> 0, stocked |-> FALSE]>>

At(w, p) == worker' = [worker EXCEPT ![w] = [at |-> p, until |-> 0]]

\* Mutant: slots missed behind a slow testbed are made up for.
AcquireBanked(w) ==
  /\ worker[w].at \in {"browse", "buy"}
  /\ Len(grants) < MaxGrants
  /\ Interval > 0
  /\ grants' = Append(grants, [asked |-> clock, slot |-> nextSlot])
  /\ nextSlot' = nextSlot + Interval
  /\ worker' = [worker EXCEPT ![w] = [at |-> "send", until |-> nextSlot]]
  /\ UNCHANGED <<clock, stocked, attempted, attempts>>

\* acquire: the time is read, the slot taken and the next one set in one lock.
Acquire(w) ==
  LET slot == IF nextSlot < clock THEN clock ELSE nextSlot IN
  /\ worker[w].at \in {"browse", "buy"}
  /\ Len(grants) < MaxGrants
  /\ IF Interval = 0
       THEN UNCHANGED <<nextSlot, grants>>
       ELSE /\ grants' = Append(grants, [asked |-> clock, slot |-> slot])
            /\ nextSlot' = slot + Interval
  /\ worker' = [worker EXCEPT ![w] =
       [at |-> "send", until |-> IF Interval = 0 THEN clock ELSE slot]]
  /\ UNCHANGED <<clock, stocked, attempted, attempts>>

\* call: the slot has come; the answer, a failure among them, ends the call.
\* The fourth call of a journey is followed by refresh_catalogue, which reads
\* the clock first.
Answer(w) ==
  /\ worker[w].at = "send"
  /\ clock >= worker[w].until
  /\ \E next \in {"browse", "catalogue"} :
       worker' = [worker EXCEPT ![w] = [at |-> next, until |-> clock]]
  /\ UNCHANGED <<clock, nextSlot, grants, stocked, attempted, attempts>>

\* What a journey does with the ids it has.
Journey(w) == At(w, IF stocked THEN "buy" ELSE "browse")

\* refresh_catalogue, under the lock: too early, or the attempt is on record
\* before it is made.
TryRefresh(w) ==
  LET wait == IF stocked THEN Refresh ELSE EmptyRetry IN
  /\ worker[w].at = "catalogue"
  /\ IF worker[w].until - attempted < wait
       THEN Journey(w) /\ UNCHANGED <<attempted, attempts>>
       ELSE /\ attempted' = worker[w].until
            /\ attempts' = Append(attempts, [at |-> worker[w].until, stocked |-> stocked])
            /\ At(w, "fetch")
  /\ UNCHANGED <<clock, nextSlot, grants, stocked>>

\* The fetch fails or finds no item, and the old ids stay; or it finds some.
Fetched(w) ==
  /\ worker[w].at = "fetch"
  /\ \/ stocked' = TRUE /\ At(w, "buy")
     \/ UNCHANGED stocked /\ Journey(w)
  /\ UNCHANGED <<clock, nextSlot, grants, attempted, attempts>>

PacingTick ==
  /\ clock < MaxClock
  /\ clock' = clock + 1
  /\ UNCHANGED <<nextSlot, grants, worker, stocked, attempted, attempts>>

PacingNext ==
  \/ \E w \in Workers : Acquire(w) \/ Answer(w) \/ TryRefresh(w) \/ Fetched(w)
  \/ PacingTick

PacingSpec == PacingInit /\ [][PacingNext]_pacingVars

-----------------------------------------------------------------------------
\* Slots are handed out at least an interval apart, however the workers race,
\* and none lies before the time it was asked for: a stall is never made up for.
SlotsAreSpaced ==
  \A j \in DOMAIN grants :
    /\ grants[j].slot >= grants[j].asked
    /\ \A i \in 1..(j - 1) : grants[j].slot >= grants[i].slot + Interval

\* Fetches are spaced by the time of the attempt, failed ones included.
FetchesAreSpaced ==
  \A i \in 2..Len(attempts) :
    attempts[i].at - attempts[i - 1].at
      >= IF attempts[i].stocked THEN Refresh ELSE EmptyRetry

\* The load offered stays flat while the testbed is sick: no burst of slots
\* after a stall, no storm of fetches while the catalogue is down, so that a
\* change in the metrics is the fault's.  (acquire, refresh_catalogue.)
OfferedLoadIsFlat == SlotsAreSpaced /\ FetchesAreSpaced
=============================================================================
