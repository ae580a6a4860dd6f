---------------------------- MODULE CognitionCore ----------------------------
(***************************************************************************)
(* The tier ladder of CognitionCore: callers that generate or stream with  *)
(* failover, the recovery thread, and registrations that replace a tier    *)
(* while a call is in flight on the old one.                               *)
(*                                                                         *)
(* A caller works on the list of tiers it copied at its start; the active  *)
(* tier and its callback are under the lock, health and error counts are   *)
(* not.  A pass of the recovery thread holds the lock throughout, and the  *)
(* callers count, disable and revive between its steps.                    *)
(*                                                                         *)
(* An increment of a count is one step, and so are the assignments of      *)
(* record_success: no call is among them in which a thread is switched.    *)
(* A text is what a tier contributed, whatever its words.                  *)
(***************************************************************************)
EXTENDS FallbackConsciousness, FiniteSets, Sequences, SequencesExt, FiniteSetsExt

CONSTANTS
    Callers,
    Streamers,        \* the callers that stream; the others generate
    Checked,          \* tiers registered with a health_check
    DisableAt,        \* error_count that makes a tier unavailable (3)
    GiveUpAt,         \* error_count at which it is probed no more (10)
    MaxRegistrations, \* bound: calls of add_tier
    MinRegistered     \* bound: remove_tier leaves as many tiers

VARIABLES
    tiers,     \* the CognitionTier objects, in order of registration
    slot,      \* _tiers: the object registered under each name, or 0
    active,    \* _active_tier_name
    call,      \* the frame of each caller
    probe,     \* the pass of the recovery thread, which holds the lock unless it rests
    up,        \* environment: which checked backends answer
    announced  \* history: active was set by a tier change, not by add_tier

vars == <<tiers, slot, active, call, probe, up, announced, layer>>

Primary == 1
Echo == Cardinality(TierNames)
Backends == TierNames \ {Echo}

ASSUME CoreConstants ==
    /\ IsFiniteSet(TierNames) /\ TierNames = 1..Cardinality(TierNames) /\ TierNames # {}
    /\ IsFiniteSet(Callers)
    /\ Streamers \subseteq Callers /\ Checked \subseteq Backends
    /\ DisableAt \in Nat \ {0} /\ GiveUpAt \in Nat /\ DisableAt <= GiveUpAt
    /\ MaxRegistrations \in Nat /\ MinRegistered \in Nat

\* Errors are counted one past the most the properties allow.
MaxErrors == GiveUpAt + 2 * Cardinality(Callers)

CognitionTier == [name : Backends, available : BOOLEAN, errors : 0..MaxErrors]

Call == [stage : {"idle", "begun", "next", "switching", "calling", "disabling", "answered"},
         todo : SUBSET (0..MaxRegistrations), \* objects still to be tried; 0 is echo
         prev : TierNames,                    \* prev_tier_name
         at : 0..MaxRegistrations,            \* the object being called
         told : BOOLEAN]  \* the caller's prompt or stream speaks of the degradation

Pass == [stage : {"rest", "look", "revive", "check", "disable"},
         at : 0..MaxRegistrations,             \* the object being probed
         todo : SUBSET (1..MaxRegistrations)]  \* objects to be probed after it

Resting == [stage |-> "rest", at |-> 0, todo |-> {}]

Idle == [stage |-> "idle", todo |-> {}, prev |-> Echo, at |-> 0, told |-> FALSE]

TypeOK ==
    /\ tiers \in Seq(CognitionTier) /\ Len(tiers) <= MaxRegistrations
    /\ slot \in [Backends -> 0..Len(tiers)]
    /\ active \in TierNames
    /\ call \in [Callers -> Call]
    /\ probe \in Pass
    /\ up \in [Checked -> BOOLEAN]
    /\ announced \in BOOLEAN
    /\ LayerTypeOK

Init ==
    /\ tiers = <<>>
    /\ slot = [t \in Backends |-> 0]
    /\ active = Echo
    /\ call = [c \in Callers |-> Idle]
    /\ probe = Resting
    /\ up = [t \in Checked |-> TRUE]
    /\ announced = TRUE
    /\ LayerInit

NameOf(o) == IF o = 0 THEN Echo ELSE tiers[o].name

\* The echo tier has no health check and never fails.
IsHealthy(o) ==
    o # 0 => /\ tiers[o].available
             /\ tiers[o].name \in Checked => up[tiers[o].name]

\* Of the objects under their names, the one that the ladder has first.
Foremost(objects) == CHOOSE o \in objects : \A p \in objects : NameOf(o) <= NameOf(p)

\* The recovery thread does not hold the lock.
LockIsFree == probe.stage = "rest"

Registered == {slot[t] : t \in Backends} \ {0}

\* Mutant: the echo stub is forgotten.
BestOfRegistered(objects) ==
    Min({NameOf(o) : o \in {p \in objects : IsHealthy(p)}} \cup {Echo + 1})

BestAvailable(objects) == Min({NameOf(o) : o \in {p \in objects : IsHealthy(p)}} \cup {Echo})

\* Under the lock: the active tier, and the callback before anyone else.
Switch(from, to) ==
    /\ active' = to
    /\ announced' = TRUE
    /\ OnTierChange(from, to)

-----------------------------------------------------------------------------
(* Registration.                                                           *)

\* A new object: the errors of the one it replaces are forgotten.  No event.
AddTier(t) ==
    /\ LockIsFree
    /\ Len(tiers) < MaxRegistrations
    /\ tiers' = Append(tiers, [name |-> t, available |-> TRUE, errors |-> 0])
    /\ slot' = [slot EXCEPT ![t] = Len(tiers) + 1]
    /\ LET new == IF t \in Checked /\ ~up[t] THEN {} ELSE {t}
           old == BestAvailable(Registered \ {slot[t]})
       IN  active' = Min(new \cup {old})
    /\ announced' = FALSE
    /\ UNCHANGED <<call, probe, up, layer>>

\* The active tier may be the one that is removed, and stays.
RemoveTier(t) ==
    /\ LockIsFree
    /\ slot[t] # 0 /\ Cardinality(Registered) > MinRegistered
    /\ slot' = [slot EXCEPT ![t] = 0]
    /\ UNCHANGED <<tiers, active, call, probe, up, announced, layer>>

-----------------------------------------------------------------------------
(* A call, one tier after the other.                                       *)

Outside == <<slot, probe, up>>

\* stream_with_consciousness: the prefix now, the generator when iterated.
BeginStream(c) ==
    /\ LockIsFree
    /\ c \in Streamers /\ call[c].stage = "idle"
    /\ call' = [call EXCEPT ![c].stage = "begun", ![c].told = HasPrefix(active)]
    /\ UNCHANGED <<tiers, active, announced, layer, Outside>>

\* The copy of the ladder and the tier it is compared with later: a generator
\* does this when it is first iterated, generate() at once.
Start(c) ==
    /\ LockIsFree
    /\ call[c].stage = (IF c \in Streamers THEN "begun" ELSE "idle")
    /\ call' = [call EXCEPT ![c].stage = "next", ![c].todo = Registered \cup {0},
                            ![c].prev = active]
    /\ UNCHANGED <<tiers, active, announced, layer, Outside>>

Enter(c) ==
    /\ call[c].stage = "next"
    /\ LET o == Foremost({p \in call[c].todo : IsHealthy(p)})
           switches == c \in Streamers /\ NameOf(o) # call[c].prev
       IN  call' = [call EXCEPT ![c].stage = IF switches THEN "switching" ELSE "calling",
                               ![c].at = o,
                               ![c].todo = {p \in @ : NameOf(p) > NameOf(o)}]
    /\ UNCHANGED <<tiers, active, announced, layer, Outside>>

\* A stream that changes tiers says so first: to the core, and to its consumer.
Announce(c) ==
    /\ LockIsFree
    /\ call[c].stage = "switching"
    /\ Switch(call[c].prev, NameOf(call[c].at))
    /\ call' = [call EXCEPT ![c].stage = "calling", ![c].prev = NameOf(call[c].at),
                            ![c].told = TRUE]
    /\ UNCHANGED <<tiers, Outside>>

\* The outcome of a call: a checked backend fails when it is down, and nothing
\* is known of another.  The echo stub always answers.
MayAnswer(o) == NameOf(o) \in Checked => up[NameOf(o)]
MayFail(o) == o # 0 /\ (NameOf(o) \in Checked => ~up[NameOf(o)])

RecordSuccess(o) ==
    tiers' = IF o = 0 THEN tiers
             ELSE [tiers EXCEPT ![o].errors = 0, ![o].available = TRUE]

\* An event that is not the last.
Chunk(c) ==
    /\ call[c].stage = "calling" /\ c \in Streamers
    /\ call[c].at # 0 /\ MayAnswer(call[c].at)
    /\ RecordSuccess(call[c].at)
    /\ UNCHANGED <<call, active, announced, layer, Outside>>

LastEvent(c) ==
    /\ call[c].stage = "calling" /\ c \in Streamers
    /\ MayAnswer(call[c].at)
    /\ RecordSuccess(call[c].at)
    /\ call' = [call EXCEPT ![c] = Idle]
    /\ UNCHANGED <<active, announced, layer, Outside>>

\* Mutant: the tier is tried again.
RunOutAgain(c) ==
    /\ call[c].stage = "calling" /\ c \in Streamers
    /\ call[c].at # 0 /\ MayAnswer(call[c].at)
    /\ call' = [call EXCEPT ![c].stage = "next", ![c].at = 0,
                            ![c].todo = @ \cup {call[c].at}]
    /\ UNCHANGED <<tiers, active, announced, layer, Outside>>

\* The iterator ends without a last event: neither success nor failure, and
\* the next tier continues.
RunOut(c) ==
    /\ call[c].stage = "calling" /\ c \in Streamers
    /\ call[c].at # 0 /\ MayAnswer(call[c].at)
    /\ call' = [call EXCEPT ![c].stage = "next", ![c].at = 0]
    /\ UNCHANGED <<tiers, active, announced, layer, Outside>>

\* The consumer drops the generator at one of its events.
Abandon(c) ==
    /\ call[c].stage = "calling" /\ c \in Streamers
    /\ call' = [call EXCEPT ![c] = Idle]
    /\ UNCHANGED <<tiers, active, announced, layer, Outside>>

\* record_failure: the count, and in a second step what follows from it.
FailuresOf(o) == IF tiers[o].errors < MaxErrors THEN tiers[o].errors + 1 ELSE MaxErrors

Fail(c) ==
    /\ call[c].stage = "calling"
    /\ MayFail(call[c].at)
    /\ LET o == call[c].at
           n == FailuresOf(o)
       IN  /\ tiers' = [tiers EXCEPT ![o].errors = n]
           /\ call' = [call EXCEPT ![c].stage = IF n >= DisableAt THEN "disabling" ELSE "next",
                                   ![c].at = IF n >= DisableAt THEN @ ELSE 0]
    /\ UNCHANGED <<active, announced, layer, Outside>>

Disable(c) ==
    /\ call[c].stage = "disabling"
    /\ tiers' = [tiers EXCEPT ![call[c].at].available = FALSE]
    /\ call' = [call EXCEPT ![c].stage = "next", ![c].at = 0]
    /\ UNCHANGED <<active, announced, layer, Outside>>

Generated(c) ==
    /\ call[c].stage = "calling" /\ c \notin Streamers
    /\ MayAnswer(call[c].at)
    /\ RecordSuccess(call[c].at)
    /\ call' = [call EXCEPT ![c].stage = "answered"]
    /\ UNCHANGED <<active, announced, layer, Outside>>

\* The lock is taken again; the event is about the tier read at the start.
Conclude(c) ==
    /\ LockIsFree
    /\ call[c].stage = "answered"
    /\ LET t == NameOf(call[c].at)
       IN  IF active # t THEN Switch(call[c].prev, t) ELSE UNCHANGED <<active, announced, layer>>
    /\ call' = [call EXCEPT ![c] = Idle]
    /\ UNCHANGED <<tiers, Outside>>

-----------------------------------------------------------------------------
(* The recovery thread: a pass over the ladder, under the lock, one access *)
(* of a tier after the other.                                              *)

PassOver(objects) ==
    IF objects = {} THEN Resting
    ELSE [stage |-> "look", at |-> Foremost(objects), todo |-> objects \ {Foremost(objects)}]

ProbeNextTier == probe' = PassOver(probe.todo)

\* The next access of the same tier.
ThenProbe(stage) == probe' = [probe EXCEPT !.stage = stage]

Tentatively(available) == tiers' = [tiers EXCEPT ![probe.at].available = available]

BeginPass ==
    /\ LockIsFree
    /\ probe' = PassOver(Registered)
    /\ UNCHANGED <<tiers, active, announced, layer>>

\* The test of a tier: a candidate is revived in a later step.
LookAt(candidate) ==
    /\ probe.stage = "look"
    /\ IF candidate THEN ThenProbe("revive") ELSE ProbeNextTier
    /\ UNCHANGED <<tiers, active, announced, layer>>

\* Mutant: a tier is probed only before it fails.
LookTooFew == LookAt(~tiers[probe.at].available /\ tiers[probe.at].errors < DisableAt)

\* Mutant: no tier is ever given up.
LookAlways == LookAt(~tiers[probe.at].available)

Look == LookAt(~tiers[probe.at].available /\ tiers[probe.at].errors < GiveUpAt)

\* Whatever the count has become.  It is not reset: the next failure disables
\* the tier again.
Revive ==
    /\ probe.stage = "revive"
    /\ Tentatively(TRUE)
    /\ ThenProbe("check")
    /\ UNCHANGED <<active, announced, layer>>

CheckHealth ==
    /\ probe.stage = "check"
    /\ IF IsHealthy(probe.at)
       THEN /\ ProbeNextTier
            /\ IF NameOf(probe.at) < active
               THEN Switch(active, NameOf(probe.at))
               ELSE UNCHANGED <<active, announced, layer>>
       ELSE ThenProbe("disable") /\ UNCHANGED <<active, announced, layer>>
    /\ UNCHANGED tiers

\* Whatever a call has found out since.
DisableAgain ==
    /\ probe.stage = "disable"
    /\ Tentatively(FALSE)
    /\ ProbeNextTier
    /\ UNCHANGED <<active, announced, layer>>

Probe ==
    /\ BeginPass \/ Look \/ Revive \/ CheckHealth \/ DisableAgain
    /\ UNCHANGED <<slot, call, up>>

-----------------------------------------------------------------------------

Flip(t) ==
    /\ up' = [up EXCEPT ![t] = ~@]
    /\ UNCHANGED <<tiers, slot, active, call, probe, announced, layer>>

WaitForLock(c) == Announce(c) \/ Conclude(c)

Proceed(c) ==
    \/ Enter(c) \/ LastEvent(c) \/ RunOut(c)
    \/ Fail(c) \/ Disable(c) \/ Generated(c) \/ WaitForLock(c)

Next ==
    \/ \E t \in Backends : AddTier(t) \/ RemoveTier(t)
    \/ \E t \in Checked : Flip(t)
    \/ \E c \in Callers : BeginStream(c) \/ Start(c) \/ Proceed(c) \/ Chunk(c) \/ Abandon(c)
    \/ Probe

Spec == Init /\ [][Next]_vars

\* A call that has begun goes on, and the recovery thread comes round.  Between
\* its passes it sleeps for longer than a call waits for the lock.
FairSpec ==
    /\ Spec
    /\ \A c \in Callers : WF_vars(Proceed(c)) /\ SF_vars(WaitForLock(c))
    /\ WF_vars(Probe)

-----------------------------------------------------------------------------
(* Properties.                                                             *)

(* The world model names the tier that answers: whatever order callers and *)
(* the recovery thread switch in, the fact of the last switch is the last  *)
(* written.  A registration changes the tier without a word.               *)
WorldFollowsCore == announced /\ world.tier # NoTier => world.tier = active

(* A backend that never answers is left alone in the end.  A pass that has *)
(* read its count may still revive it when calls in flight have counted to *)
(* the limit since, but only that pass: each caller fails on it at most    *)
(* once before it is revived for the last time, and at most once after.    *)
DeadTierLeftAlone == \A o \in DOMAIN tiers : tiers[o].errors < GiveUpAt + 2 * Cardinality(Callers)

(* What is known of the tiers is so: in the core and in the world model.   *)
TiersAreTracked == WorldFollowsCore /\ DeadTierLeftAlone

(* Every call ends: with an answer, in the worst case of the echo stub, or *)
(* because its consumer gave up (or never iterated what it began).         *)
EveryCallEnds == \A c \in Callers : []<>(call[c].stage \in {"idle", "begun"})

(* "Primary tier will be restored automatically": while calls keep coming, *)
(* a primary that stays up and has not been given up serves again.         *)
PrimaryUsable ==
    /\ slot[Primary] # 0 /\ (Primary \in Checked => up[Primary])
    /\ tiers[slot[Primary]].available \/ tiers[slot[Primary]].errors < GiveUpAt
PrimaryReturns ==
    (<>[]PrimaryUsable /\ []<>(\E c \in Callers : call[c].stage = "next"))
        => []<>(active = Primary)

(* What the layer is for ("conscious rather than silent"): a stream below  *)
(* the primary tier carries the prefix or has shown a tier switch.  The    *)
(* code breaks it for a stream that is iterated after another call fell.   *)
NoSilentFallback ==
    \A c \in Callers :
        call[c].stage = "calling" /\ c \in Streamers /\ NameOf(call[c].at) # Primary
            => call[c].told
=============================================================================
