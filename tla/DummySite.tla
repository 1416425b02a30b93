----------------------------- MODULE DummySite -----------------------------
(***************************************************************************)
(* services/dummy-service: a site of small services that call one another. *)
(*                                                                         *)
(* Every request is served by a thread of its own, which works, calls its  *)
(* downstream services one after the other and answers.  A service may     *)
(* have a limited number of slots; a request waits for one.  The caller    *)
(* may give up before its callee does, and the callee then works on for    *)
(* nobody.  A fault stops a service, pauses it, or makes a host name point *)
(* at the caller.                                                          *)
(***************************************************************************)
EXTENDS Naturals, Sequences, FiniteSets

CONSTANTS
  SiteServices,
  Entry,         \* TARGET_URL
  Downstream,    \* DOWNSTREAM of each service: who it calls, in order
  Slots,         \* SLOTS of each service, 0 for unlimited
  MaxCalls,      \* bound: requests and calls
  MaxSiteFaults  \* bound: faults that strike or end

ASSUME SiteAssumption ==
  /\ Entry \in SiteServices
  /\ Downstream \in [SiteServices -> Seq(SiteServices)]
  /\ Slots \in [SiteServices -> Nat]
  /\ MaxCalls \in Nat /\ MaxSiteFaults \in Nat

VARIABLES
  calls,      \* every request so far
  held,       \* the calls that hold a slot
  health,     \* of each service: up, down, paused
  looped,     \* services whose host names point at themselves
  siteFaults

siteVars == <<calls, held, health, looped, siteFaults>>

\* caller 0 is dummy-traffic; next is the downstream service to call next.
Client == 0
Call == [service : SiteServices, caller : Nat, next : Nat \ {0}, status : Nat,
         at : {"arrived", "working", "waiting", "answered"}]
Calls == DOMAIN calls
CallsOf(c) == {k \in Calls : calls[k].caller = c}
Failed(status) == status >= 500

SiteTypeOK ==
  /\ calls \in Seq(Call)
  /\ held \subseteq Calls
  /\ health \in [SiteServices -> {"up", "down", "paused"}]
  /\ looped \subseteq SiteServices
  /\ siteFaults \in Nat

SiteInit ==
  /\ calls = <<>>
  /\ held = {}
  /\ health = [s \in SiteServices |-> "up"]
  /\ looped = {}
  /\ siteFaults = 0

Arrival(s, c) == [service |-> s, caller |-> c, next |-> 1, status |-> 0, at |-> "arrived"]
Moved(c, at, next, status) ==
  [service |-> calls[c].service, caller |-> calls[c].caller, next |-> next, status |-> status, at |-> at]
Move(c, at, next, status) == [calls EXCEPT ![c] = Moved(c, at, next, status)]
Step(c, at, next) == Move(c, at, next, calls[c].status)

\* work: the answer, and the slot given back in the finally.
AnswerCall(c, status) ==
  /\ calls' = Move(c, "answered", calls[c].next, status)
  /\ held' = held \ {c}

\* dummy-traffic sends on schedule and does not wait for answers.
SendRequest ==
  /\ Len(calls) < MaxCalls
  /\ health[Entry] # "down"
  /\ calls' = Append(calls, Arrival(Entry, Client))
  /\ UNCHANGED <<held, health, looped, siteFaults>>

\* CALLER_HEADER names the service itself.
CalledItself(c) ==
  calls[c].caller # Client /\ calls[calls[c].caller].service = calls[c].service

SlotFree(s) == Slots[s] = 0 \/ Cardinality({c \in held : calls[c].service = s}) < Slots[s]

Begin(c) ==
  /\ calls[c].at = "arrived"
  /\ health[calls[c].service] = "up"
  /\ IF CalledItself(c)
       THEN AnswerCall(c, 503)
       ELSE /\ SlotFree(calls[c].service)
            /\ calls' = Step(c, "working", 1)
            /\ held' = IF Slots[calls[c].service] = 0 THEN held ELSE held \cup {c}
  /\ UNCHANGED <<health, looped, siteFaults>>

\* acquire(timeout): no slot in time
NoFreeSlot(c) ==
  /\ calls[c].at = "arrived"
  /\ health[calls[c].service] = "up"
  /\ ~CalledItself(c)
  /\ ~SlotFree(calls[c].service)
  /\ AnswerCall(c, 503)
  /\ UNCHANGED <<health, looped, siteFaults>>

\* downstream_failure: the next call, which may not reach anybody.
CallNext(c) ==
  LET s == calls[c].service
      target == IF s \in looped THEN s ELSE Downstream[s][calls[c].next]
  IN /\ calls[c].at = "working"
     /\ health[s] = "up"
     /\ calls[c].next <= Len(Downstream[s])
     /\ Len(calls) < MaxCalls
     /\ IF health[target] = "down"
          THEN AnswerCall(c, 502)
          ELSE /\ calls' = Append(Step(c, "waiting", calls[c].next), Arrival(target, c))
               /\ UNCHANGED held
     /\ UNCHANGED <<health, looped, siteFaults>>

\* The latest of the calls of c is the one it waits for.
Awaited(c) == CHOOSE k \in CallsOf(c) : \A j \in CallsOf(c) : j <= k

\* Mutant: an answer is an answer.
DownstreamAnsweredAnything(c) ==
  /\ calls[c].at = "waiting"
  /\ health[calls[c].service] = "up"
  /\ calls[Awaited(c)].at = "answered"
  /\ calls' = Step(c, "working", calls[c].next + 1)
  /\ UNCHANGED <<held, health, looped, siteFaults>>

DownstreamAnswered(c) ==
  /\ calls[c].at = "waiting"
  /\ health[calls[c].service] = "up"
  /\ calls[Awaited(c)].at = "answered"
  /\ IF Failed(calls[Awaited(c)].status)
       THEN AnswerCall(c, 502)
       ELSE calls' = Step(c, "working", calls[c].next + 1) /\ UNCHANGED held
  /\ UNCHANGED <<health, looped, siteFaults>>

\* requests.Timeout: the callee does not notice
GiveUp(c) ==
  /\ calls[c].at = "waiting"
  /\ health[calls[c].service] = "up"
  /\ calls[Awaited(c)].at # "answered"
  /\ AnswerCall(c, 504)
  /\ UNCHANGED <<health, looped, siteFaults>>

\* Nobody failed: the configured error rate decides.
Succeed(c) ==
  /\ calls[c].at = "working"
  /\ health[calls[c].service] = "up"
  /\ calls[c].next > Len(Downstream[calls[c].service])
  /\ \E status \in {200, 500} : AnswerCall(c, status)
  /\ UNCHANGED <<health, looped, siteFaults>>

\* What the fault injector does.  A stopped service loses its threads, and the
\* callers see the connection close.
FaultStrikes(s) ==
  /\ siteFaults < MaxSiteFaults
  /\ siteFaults' = siteFaults + 1
  /\ \/ /\ health' = [health EXCEPT ![s] = "paused"]
        /\ UNCHANGED <<calls, held, looped>>
     \/ /\ health' = [health EXCEPT ![s] = "down"]
        /\ calls' = [c \in Calls |->
             IF calls[c].service = s /\ calls[c].at # "answered"
               THEN Moved(c, "answered", calls[c].next, 502) ELSE calls[c]]
        /\ held' = {c \in held : calls[c].service # s}
        /\ UNCHANGED looped
     \/ /\ looped' = looped \cup {s}
        /\ UNCHANGED <<calls, held, health>>

FaultEnds(s) ==
  /\ health[s] # "up" \/ s \in looped
  /\ health' = [health EXCEPT ![s] = "up"]
  /\ looped' = looped \ {s}
  /\ UNCHANGED <<calls, held, siteFaults>>

SiteStep(c) ==
  \/ Begin(c) \/ NoFreeSlot(c) \/ CallNext(c) \/ DownstreamAnswered(c)
  \/ GiveUp(c) \/ Succeed(c)

SiteNext ==
  \/ SendRequest
  \/ \E c \in Calls : SiteStep(c)
  \/ \E s \in SiteServices : FaultStrikes(s) \/ FaultEnds(s)

SiteSpec == SiteInit /\ [][SiteNext]_siteVars

-----------------------------------------------------------------------------
\* No failure is hidden on its way up: a request answered 200 made every one of
\* its downstream calls and each was answered below 500, whatever gave up,
\* was refused a slot, died or was pointed at itself on the way.
\* (downstream_failure: "slows or fails everything upstream of it".)
FailureReachesTheEntry ==
  \A c \in Calls : calls[c].status = 200 =>
    /\ Cardinality(CallsOf(c)) = Len(Downstream[calls[c].service])
    /\ \A k \in CallsOf(c) : calls[k].at = "answered" /\ ~Failed(calls[k].status)
=============================================================================
