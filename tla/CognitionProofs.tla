----------------------------- MODULE CognitionProofs -----------------------------
(***************************************************************************)
(* Theorems about the cognition core and about a session that streams from *)
(* it: for any tiers, callers, thresholds and number of registrations, and *)
(* for streams of any length and any number of injections, redirects and   *)
(* pauses.                                                                 *)
(***************************************************************************)
EXTENDS CognitionCore, StreamSession, FiniteSetTheorems, SequenceTheorems, WellFoundedInduction, TLAPS

-----------------------------------------------------------------------------
(* The ladder: a call walks a list that ends in the echo stub.             *)

(* What a frame has still to try, and what it calls, are objects that were *)
(* registered; the stub is left to try unless it is the one being called.  *)
FrameIsSound(f, registered) ==
    /\ f.todo \subseteq 0..registered
    /\ f.at \in 0..registered
    /\ f.stage = "disabling" => f.at # 0
    /\ f.stage = "next" \/ (f.stage \in {"switching", "calling", "disabling"} /\ f.at # 0)
         => 0 \in f.todo

(* A pass of the recovery thread is over objects that were registered.     *)
PassIsSound(p, registered) ==
    /\ p.todo \subseteq 1..registered
    /\ p.stage # "rest" => p.at \in 1..registered

FramesInv ==
    /\ TypeOK
    /\ \A c \in Callers : FrameIsSound(call[c], Len(tiers))
    /\ PassIsSound(probe, Len(tiers))

(* The least element of a set of naturals is the one Min names.            *)
LEMMA MinOfNaturals ==
    ASSUME NEW S \in SUBSET Nat, S # {}
    PROVE  Min(S) \in S /\ \A s \in S : Min(S) <= s
<1>1. PICK m \in S : \A s \in S : ~(<<s, m>> \in OpToRel(<, Nat))
  BY NatLessThanWellFounded, WFMin
<1>2. \A s \in S : ~(s < m)
  BY <1>1 DEF OpToRel
<1>3. \A s \in S : m <= s
  BY <1>2
<1> QED
  BY <1>3 DEF Min

LEMMA LadderType ==
    /\ Echo \in Nat \ {0} /\ TierNames = 1..Echo /\ Echo \in TierNames
    /\ \A t \in Backends : t \in TierNames /\ t < Echo
    /\ MaxErrors \in Nat /\ MaxErrors = GiveUpAt + 2 * Cardinality(Callers)
    /\ Cardinality(Callers) \in Nat /\ GiveUpAt \in Nat \ {0}
<1>1. Cardinality(Callers) \in Nat /\ Echo \in Nat /\ TierNames = 1..Echo
  BY CoreConstants, FS_CardinalityType DEF Echo
<1>2. Echo # 0
  BY <1>1, CoreConstants
<1> HIDE DEF Echo
<1> QED
  BY <1>1, <1>2, CoreConstants DEF MaxErrors, Backends

(* Every object has a name on the ladder; only the stub has the last.      *)
LEMMA NamesAreTiers ==
    ASSUME TypeOK
    PROVE  /\ \A o \in 0..Len(tiers) : NameOf(o) \in TierNames
           /\ \A o \in DOMAIN tiers : tiers[o] \in CognitionTier /\ NameOf(o) < Echo
           /\ NameOf(0) = Echo /\ Len(tiers) \in Nat /\ DOMAIN tiers = 1..Len(tiers)
           /\ Registered \subseteq DOMAIN tiers
<1>1. /\ Len(tiers) \in Nat /\ DOMAIN tiers = 1..Len(tiers)
      /\ \A o \in DOMAIN tiers : tiers[o] \in CognitionTier
  BY LenProperties, ElementOfSeq DEF TypeOK
<1>2. \A o \in DOMAIN tiers : tiers[o].name \in Backends
  BY <1>1 DEF CognitionTier
<1>3. NameOf(0) = Echo
  BY DEF NameOf
<1>4. \A o \in DOMAIN tiers : NameOf(o) = tiers[o].name
  BY <1>1 DEF NameOf
<1>5. \A o \in DOMAIN tiers : NameOf(o) \in TierNames /\ NameOf(o) < Echo
  BY <1>2, <1>4, LadderType
<1>6. \A o \in 0..Len(tiers) : o = 0 \/ o \in DOMAIN tiers
  BY <1>1
<1>7. Registered \subseteq DOMAIN tiers
  BY <1>1 DEF Registered, TypeOK
<1> QED
  BY <1>1, <1>3, <1>5, <1>6, <1>7, LadderType

(* The best available tier is one of the ladder.                           *)
LEMMA BestIsATier ==
    ASSUME TypeOK, NEW objects \in SUBSET (0..Len(tiers))
    PROVE  BestAvailable(objects) \in TierNames
<1> DEFINE S == {NameOf(o) : o \in {p \in objects : IsHealthy(p)}} \cup {Echo}
<1>1. S \subseteq TierNames /\ S # {}
  BY NamesAreTiers, LadderType
<1>2. S \in SUBSET Nat
  <2> HIDE DEF S
  <2> QED
    BY <1>1, LadderType
<1>3. Min(S) \in S
  <2> HIDE DEF S
  <2> QED
    BY <1>1, <1>2, MinOfNaturals
<1> QED
  BY <1>1, <1>3 DEF BestAvailable

(* The foremost of some objects is one of them, and none is before it.     *)
LEMMA ForemostIs ==
    ASSUME TypeOK, NEW objects \in SUBSET (0..Len(tiers)), objects # {}
    PROVE  Foremost(objects) \in objects
<1> DEFINE S == {NameOf(o) : o \in objects}
<1>1. S \in SUBSET Nat /\ S # {}
  <2>1. \A o \in objects : NameOf(o) \in Nat
    BY NamesAreTiers, LadderType
  <2> QED
    BY <2>1
<1>2. Min(S) \in S /\ \A s \in S : Min(S) <= s
  <2> HIDE DEF S
  <2> QED
    BY <1>1, MinOfNaturals
<1>3. PICK o \in objects : NameOf(o) = Min(S)
  BY <1>2
<1>4. \A p \in objects : NameOf(o) <= NameOf(p)
  BY <1>2, <1>3
<1> QED
  BY <1>4 DEF Foremost

(* A change of tier keeps the core and its layer well formed.              *)
LEMMA SwitchType ==
    ASSUME TypeOK, NEW from \in TierNames, NEW to \in TierNames,
           Switch(from, to) \/ UNCHANGED <<active, announced, layer>>
    PROVE  active' \in TierNames /\ announced' \in BOOLEAN /\ LayerTypeOK'
<1>1. CASE Switch(from, to)
  <2>1. active' = to /\ announced' = TRUE /\ OnTierChange(from, to)
    BY <1>1 DEF Switch
  <2>2. /\ \E d \in BOOLEAN : world' = [tier |-> to, degraded |-> d]
        /\ episode' \in BOOLEAN
    BY <2>1 DEF OnTierChange, Degraded, Recovered, FactsOfRecovery
  <2>3. lessons' \in 0..MaxLessons
    BY <2>1 DEF OnTierChange, Degraded, Recovered, Learn, TypeOK, LayerTypeOK
  <2>4. world' \in [tier : TierNames \cup {NoTier}, degraded : BOOLEAN]
    BY <2>2
  <2> QED
    BY <2>1, <2>2, <2>3, <2>4 DEF LayerTypeOK
<1>2. CASE UNCHANGED <<active, announced, layer>>
  BY <1>2 DEF TypeOK, LayerTypeOK, layer
<1> QED
  BY <1>1, <1>2

LEMMA ExceptTier ==
    ASSUME TypeOK, NEW o \in DOMAIN tiers, NEW t \in CognitionTier
    PROVE  /\ [tiers EXCEPT ![o] = t] \in Seq(CognitionTier)
           /\ Len([tiers EXCEPT ![o] = t]) = Len(tiers)
<1>1. o \in 1..Len(tiers) /\ tiers \in Seq(CognitionTier)
  BY NamesAreTiers DEF TypeOK
<1> QED
  BY <1>1, ExceptSeq

LEMMA SuccessType ==
    ASSUME TypeOK, NEW o \in 0..Len(tiers), RecordSuccess(o)
    PROVE  tiers' \in Seq(CognitionTier) /\ Len(tiers') = Len(tiers)
<1>1. CASE o = 0
  BY <1>1 DEF RecordSuccess, TypeOK
<1>2. CASE o # 0
  <2> DEFINE t == [tiers[o] EXCEPT !.errors = 0, !.available = TRUE]
  <2>0. /\ o \in DOMAIN tiers
        /\ tiers' = [tiers EXCEPT ![o].errors = 0, ![o].available = TRUE]
    BY <1>2, NamesAreTiers DEF RecordSuccess
  <2>1. tiers' = [tiers EXCEPT ![o] = t]
    BY <2>0
  <2>2. t \in CognitionTier
    <3>1. tiers[o] \in CognitionTier /\ 0 \in 0..MaxErrors
      BY <2>0, NamesAreTiers, LadderType
    <3> QED
      BY <3>1 DEF CognitionTier
  <2> HIDE DEF t
  <2> QED
    <3>1. /\ [tiers EXCEPT ![o] = t] \in Seq(CognitionTier)
          /\ Len([tiers EXCEPT ![o] = t]) = Len(tiers)
      BY <2>0, <2>2, ExceptTier
    <3> QED
      BY <2>1, <3>1
<1> QED
  BY <1>1, <1>2

(* A step of one caller.                                                   *)
LEMMA MoveKeepsFrames ==
    ASSUME FramesInv, NEW c \in Callers, NEW f \in Call, call' = [call EXCEPT ![c] = f],
           FrameIsSound(f, Len(tiers)),
           tiers' \in Seq(CognitionTier), Len(tiers') = Len(tiers), UNCHANGED <<slot, probe, up>>,
           active' \in TierNames, announced' \in BOOLEAN, LayerTypeOK'
    PROVE  FramesInv'
<1>1. TypeOK'
  BY DEF FramesInv, TypeOK
<1>2. \A d \in Callers : FrameIsSound(call'[d], Len(tiers'))
  BY DEF FramesInv, TypeOK
<1> QED
  BY <1>1, <1>2 DEF FramesInv, FrameIsSound, PassIsSound

(* A step of none: the ladder may grow, and a pass go on.                  *)
LEMMA QuietKeepsFrames ==
    ASSUME FramesInv, call' = call,
           probe' = probe \/ (probe' \in Pass /\ PassIsSound(probe', Len(tiers))),
           tiers' \in Seq(CognitionTier), Len(tiers') \in Len(tiers)..MaxRegistrations,
           slot' \in [Backends -> 0..Len(tiers')], up' \in [Checked -> BOOLEAN],
           active' \in TierNames, announced' \in BOOLEAN, LayerTypeOK'
    PROVE  FramesInv'
<1>1. TypeOK'
  BY DEF FramesInv, TypeOK
<1>2. Len(tiers) \in Nat
  BY NamesAreTiers DEF FramesInv
<1>3. 0..Len(tiers) \subseteq 0..Len(tiers')
  BY <1>2
<1>4. \A d \in Callers : FrameIsSound(call'[d], Len(tiers'))
  BY <1>3 DEF FramesInv, FrameIsSound
<1>5. PassIsSound(probe', Len(tiers'))
  BY <1>2 DEF FramesInv, PassIsSound
<1> QED
  BY <1>1, <1>4, <1>5 DEF FramesInv, FrameIsSound, PassIsSound

(* A pass over registered objects begins with one of them.                 *)
LEMMA PassIsOver ==
    ASSUME TypeOK, NEW objects \in SUBSET (1..Len(tiers))
    PROVE  PassOver(objects) \in Pass /\ PassIsSound(PassOver(objects), Len(tiers))
<1>1. Len(tiers) \in Nat /\ Len(tiers) <= MaxRegistrations /\ MaxRegistrations \in Nat
  BY NamesAreTiers, CoreConstants DEF TypeOK
<1>2. CASE objects = {}
  BY <1>1, <1>2 DEF PassOver, Resting, Pass, PassIsSound
<1>3. CASE objects # {}
  <2>1. objects \in SUBSET (0..Len(tiers))
    BY <1>1
  <2>2. PICK o \in objects : o = Foremost(objects)
    BY <1>3, <2>1, ForemostIs
  <2>3. PassOver(objects) = [stage |-> "look", at |-> o, todo |-> objects \ {o}]
    BY <1>3, <2>2 DEF PassOver
  <2>4. o \in 1..Len(tiers) /\ objects \ {o} \in SUBSET (1..Len(tiers))
    BY <2>2
  <2>5. o \in 0..MaxRegistrations /\ objects \ {o} \in SUBSET (1..MaxRegistrations)
    BY <1>1, <2>4
  <2> HIDE <2>2
  <2> QED
    BY <2>3, <2>4, <2>5 DEF Pass, PassIsSound
<1> QED
  BY <1>2, <1>3

LEMMA FramesStep == FramesInv /\ [Next]_vars => FramesInv'
<1> SUFFICES ASSUME FramesInv, [Next]_vars PROVE FramesInv'
  OBVIOUS
<1>0. /\ TypeOK /\ Len(tiers) \in Nat /\ Len(tiers) <= MaxRegistrations
      /\ tiers \in Seq(CognitionTier) /\ slot \in [Backends -> 0..Len(tiers)]
      /\ active \in TierNames /\ announced \in BOOLEAN /\ LayerTypeOK
      /\ up \in [Checked -> BOOLEAN] /\ call \in [Callers -> Call]
      /\ \A c \in Callers : call[c] \in Call /\ FrameIsSound(call[c], Len(tiers))
      /\ probe \in Pass /\ PassIsSound(probe, Len(tiers))
  BY NamesAreTiers DEF FramesInv, TypeOK
<1>1. ASSUME UNCHANGED vars PROVE FramesInv'
  BY <1>0, <1>1, QuietKeepsFrames, CoreConstants DEF vars, layer, LayerTypeOK
<1>2. ASSUME NEW t \in Backends, AddTier(t) PROVE FramesInv'
  <2> DEFINE e == [name |-> t, available |-> TRUE, errors |-> 0]
             new == IF t \in Checked /\ ~up[t] THEN {} ELSE {t}
             old == BestAvailable(Registered \ {slot[t]})
  <2>1. /\ Len(tiers) < MaxRegistrations /\ tiers' = Append(tiers, e)
        /\ slot' = [slot EXCEPT ![t] = Len(tiers) + 1] /\ active' = Min(new \cup {old})
        /\ announced' = FALSE /\ UNCHANGED <<call, probe, up, layer>>
    BY <1>2 DEF AddTier
  <2>2. e \in CognitionTier
    BY LadderType DEF CognitionTier
  <2>3. tiers' \in Seq(CognitionTier) /\ Len(tiers') = Len(tiers) + 1
    <3> HIDE DEF e
    <3> QED
      BY <1>0, <2>1, <2>2, AppendProperties
  <2>4. slot' \in [Backends -> 0..Len(tiers')]
    BY <1>0, <2>1, <2>3
  <2>5. active' \in TierNames
    <3>1. old \in TierNames
      <4>1. Registered \ {slot[t]} \in SUBSET (0..Len(tiers))
        BY <1>0, NamesAreTiers
      <4> QED
        BY <1>0, <4>1, BestIsATier
    <3>2. new \cup {old} \in SUBSET Nat /\ new \cup {old} # {} /\ new \cup {old} \subseteq TierNames
      <4> HIDE DEF old
      <4> QED
        BY <3>1, LadderType
    <3> HIDE DEF new, old
    <3> QED
      BY <2>1, <3>2, MinOfNaturals
  <2>6. LayerTypeOK' /\ call' = call /\ probe' = probe /\ up' = up /\ announced' \in BOOLEAN
    BY <1>0, <2>1 DEF layer, LayerTypeOK
  <2>7. Len(tiers') \in Len(tiers)..MaxRegistrations
    BY <1>0, <2>1, <2>3, CoreConstants
  <2> HIDE DEF e, new, old
  <2> QED
    BY <1>0, <2>3, <2>4, <2>5, <2>6, <2>7, QuietKeepsFrames
<1>3. ASSUME NEW t \in Backends, RemoveTier(t) PROVE FramesInv'
  <2>1. /\ tiers' = tiers /\ slot' = [slot EXCEPT ![t] = 0] /\ call' = call /\ probe' = probe
        /\ active' = active /\ announced' = announced /\ up' = up /\ LayerTypeOK'
    BY <1>0, <1>3 DEF RemoveTier, layer, LayerTypeOK
  <2> QED
    BY <1>0, <2>1, QuietKeepsFrames, CoreConstants
<1>4. ASSUME NEW t \in Checked, Flip(t) PROVE FramesInv'
  <2>1. /\ tiers' = tiers /\ slot' = slot /\ call' = call /\ up' = [up EXCEPT ![t] = ~@]
        /\ probe' = probe
        /\ active' = active /\ announced' = announced /\ LayerTypeOK'
    BY <1>0, <1>4 DEF Flip, layer, LayerTypeOK
  <2> QED
    BY <1>0, <2>1, QuietKeepsFrames, CoreConstants
<1>5. ASSUME Probe PROVE FramesInv'
  <2>1. slot' = slot /\ call' = call /\ up' = up
    BY <1>5 DEF Probe
  <2>2. probe.todo \in SUBSET (1..Len(tiers)) /\ Registered \in SUBSET (1..Len(tiers))
    BY <1>0, NamesAreTiers DEF PassIsSound
  <2>3. PassOver(probe.todo) \in Pass /\ PassIsSound(PassOver(probe.todo), Len(tiers))
        /\ PassOver(Registered) \in Pass /\ PassIsSound(PassOver(Registered), Len(tiers))
    BY <1>0, <2>2, PassIsOver
  <2>4. ASSUME NEW stage \in {"revive", "check", "disable"}, probe.stage # "rest", ThenProbe(stage)
        PROVE  probe' \in Pass /\ PassIsSound(probe', Len(tiers))
    BY <1>0, <2>4 DEF ThenProbe, Pass, PassIsSound
  <2>5. ASSUME NEW available \in BOOLEAN, probe.stage # "rest", Tentatively(available)
        PROVE  tiers' \in Seq(CognitionTier) /\ Len(tiers') = Len(tiers)
    <3> DEFINE t == [tiers[probe.at] EXCEPT !.available = available]
    <3>1. probe.at \in DOMAIN tiers
      BY <1>0, <2>5, NamesAreTiers DEF PassIsSound
    <3>2. t \in CognitionTier
      BY <1>0, <3>1, NamesAreTiers DEF CognitionTier
    <3>3. tiers' = [tiers EXCEPT ![probe.at] = t]
      BY <2>5, <3>1 DEF Tentatively
    <3> HIDE DEF t
    <3>4. /\ [tiers EXCEPT ![probe.at] = t] \in Seq(CognitionTier)
          /\ Len([tiers EXCEPT ![probe.at] = t]) = Len(tiers)
      BY <1>0, <3>1, <3>2, ExceptTier
    <3> QED
      BY <3>3, <3>4
  <2>6. ASSUME tiers' \in Seq(CognitionTier), Len(tiers') = Len(tiers),
               probe' \in Pass /\ PassIsSound(probe', Len(tiers)),
               active' \in TierNames, announced' \in BOOLEAN, LayerTypeOK'
        PROVE  FramesInv'
    BY <1>0, <2>1, <2>6, QuietKeepsFrames, CoreConstants
  <2>7. ASSUME UNCHANGED <<active, announced, layer>>
        PROVE  active' \in TierNames /\ announced' \in BOOLEAN /\ LayerTypeOK'
    BY <1>0, <2>7 DEF layer, LayerTypeOK
  <2>8. CASE BeginPass
    BY <1>0, <2>3, <2>6, <2>7, <2>8 DEF BeginPass
  <2>9. CASE Look
    <3>1. probe' \in Pass /\ PassIsSound(probe', Len(tiers))
      BY <2>3, <2>4, <2>9 DEF Look, LookAt, ProbeNextTier
    <3> QED
      BY <1>0, <2>6, <2>7, <2>9, <3>1 DEF Look, LookAt
  <2>10. CASE Revive
    <3>1. probe' \in Pass /\ PassIsSound(probe', Len(tiers))
      BY <2>4, <2>10 DEF Revive
    <3> QED
      BY <2>5, <2>6, <2>7, <2>10, <3>1 DEF Revive
  <2>11. CASE CheckHealth
    <3>1. probe' \in Pass /\ PassIsSound(probe', Len(tiers))
      BY <2>3, <2>4, <2>11 DEF CheckHealth, ProbeNextTier
    <3>2. NameOf(probe.at) \in TierNames
      BY <1>0, <2>11, NamesAreTiers DEF CheckHealth, PassIsSound
    <3>3. Switch(active, NameOf(probe.at)) \/ UNCHANGED <<active, announced, layer>>
      BY <2>11 DEF CheckHealth
    <3>4. active' \in TierNames /\ announced' \in BOOLEAN /\ LayerTypeOK'
      BY <1>0, <3>2, <3>3, SwitchType
    <3> QED
      BY <1>0, <2>6, <2>11, <3>1, <3>4 DEF CheckHealth
  <2>12. CASE DisableAgain
    <3>1. probe' \in Pass /\ PassIsSound(probe', Len(tiers))
      BY <2>3, <2>12 DEF DisableAgain, ProbeNextTier
    <3> QED
      BY <2>5, <2>6, <2>7, <2>12, <3>1 DEF DisableAgain
  <2> QED
    BY <1>5, <2>8, <2>9, <2>10, <2>11, <2>12 DEF Probe
<1>6. ASSUME NEW c \in Callers, NEW f \in Call, call' = [call EXCEPT ![c] = f],
             FrameIsSound(f, Len(tiers)), UNCHANGED <<tiers, active, announced, layer, Outside>>
      PROVE  FramesInv'
  <2>1. /\ tiers' = tiers /\ slot' = slot /\ probe' = probe /\ up' = up /\ active' = active
        /\ announced' = announced /\ LayerTypeOK'
    BY <1>0, <1>6 DEF layer, LayerTypeOK, Outside
  <2> QED
    BY <1>0, <1>6, <2>1, MoveKeepsFrames
<1>7. Idle \in Call /\ FrameIsSound(Idle, Len(tiers))
  BY <1>0, LadderType, CoreConstants DEF Idle, Call, FrameIsSound
<1>8. ASSUME NEW c \in Callers, BeginStream(c) PROVE FramesInv'
  <2> DEFINE f == [call[c] EXCEPT !.stage = "begun", !.told = HasPrefix(active)]
  <2>1. call' = [call EXCEPT ![c] = f]
    BY <1>0, <1>8 DEF BeginStream
  <2>2. f \in Call /\ FrameIsSound(f, Len(tiers))
    BY <1>0 DEF Call, FrameIsSound, HasPrefix
  <2> HIDE DEF f
  <2> QED
    BY <1>6, <1>8, <2>1, <2>2 DEF BeginStream
<1>9. ASSUME NEW c \in Callers, Start(c) PROVE FramesInv'
  <2> DEFINE f == [call[c] EXCEPT !.stage = "next", !.todo = Registered \cup {0}, !.prev = active]
  <2>1. call' = [call EXCEPT ![c] = f]
    BY <1>0, <1>9 DEF Start
  <2>2. Registered \cup {0} \in SUBSET (0..Len(tiers))
        /\ Registered \cup {0} \in SUBSET (0..MaxRegistrations)
    BY <1>0, NamesAreTiers, CoreConstants
  <2>3. f \in Call /\ FrameIsSound(f, Len(tiers))
    BY <1>0, <2>2 DEF Call, FrameIsSound
  <2> HIDE DEF f
  <2> QED
    BY <1>6, <1>9, <2>1, <2>3 DEF Start
<1>10. ASSUME NEW c \in Callers, Chunk(c) PROVE FramesInv'
  <2>1. /\ call' = [call EXCEPT ![c] = call[c]] /\ RecordSuccess(call[c].at)
        /\ UNCHANGED <<slot, probe, up, active, announced>> /\ LayerTypeOK'
        /\ call[c].at \in 0..Len(tiers)
    BY <1>0, <1>10 DEF Chunk, layer, LayerTypeOK, Outside, FrameIsSound
  <2>2. tiers' \in Seq(CognitionTier) /\ Len(tiers') = Len(tiers)
    BY <1>0, <2>1, SuccessType
  <2> QED
    BY <1>0, <2>1, <2>2, MoveKeepsFrames
<1>11. ASSUME NEW c \in Callers, LastEvent(c) PROVE FramesInv'
  <2>1. /\ call' = [call EXCEPT ![c] = Idle] /\ RecordSuccess(call[c].at)
        /\ UNCHANGED <<slot, probe, up, active, announced>> /\ LayerTypeOK'
        /\ call[c].at \in 0..Len(tiers)
    BY <1>0, <1>11 DEF LastEvent, layer, LayerTypeOK, Outside, FrameIsSound
  <2>2. tiers' \in Seq(CognitionTier) /\ Len(tiers') = Len(tiers)
    BY <1>0, <2>1, SuccessType
  <2> QED
    BY <1>0, <1>7, <2>1, <2>2, MoveKeepsFrames
<1>12. ASSUME NEW c \in Callers, Generated(c) PROVE FramesInv'
  <2> DEFINE f == [call[c] EXCEPT !.stage = "answered"]
  <2>1. /\ call' = [call EXCEPT ![c] = f] /\ RecordSuccess(call[c].at)
        /\ UNCHANGED <<slot, probe, up, active, announced>> /\ LayerTypeOK'
        /\ call[c].at \in 0..Len(tiers)
    BY <1>0, <1>12 DEF Generated, layer, LayerTypeOK, Outside, FrameIsSound
  <2>2. f \in Call /\ FrameIsSound(f, Len(tiers))
    BY <1>0 DEF Call, FrameIsSound
  <2>3. tiers' \in Seq(CognitionTier) /\ Len(tiers') = Len(tiers)
    BY <1>0, <2>1, SuccessType
  <2> HIDE DEF f
  <2> QED
    BY <1>0, <2>1, <2>2, <2>3, MoveKeepsFrames
<1>13. ASSUME NEW c \in Callers, RunOut(c) PROVE FramesInv'
  <2> DEFINE f == [call[c] EXCEPT !.stage = "next", !.at = 0]
  <2>1. call' = [call EXCEPT ![c] = f] /\ call[c].stage = "calling" /\ call[c].at # 0
    BY <1>0, <1>13 DEF RunOut
  <2>2. f \in Call /\ FrameIsSound(f, Len(tiers))
    BY <1>0, <2>1, CoreConstants DEF Call, FrameIsSound
  <2> HIDE DEF f
  <2> QED
    BY <1>6, <1>13, <2>1, <2>2 DEF RunOut
<1>14. ASSUME NEW c \in Callers, Abandon(c) PROVE FramesInv'
  BY <1>6, <1>7, <1>14 DEF Abandon
<1>15. ASSUME NEW c \in Callers, Enter(c) PROVE FramesInv'
  <2> DEFINE healthy == {p \in call[c].todo : IsHealthy(p)}
             o == Foremost(healthy)
             t == NameOf(o)
             switches == c \in Streamers /\ t # call[c].prev
             stage == IF switches THEN "switching" ELSE "calling"
             todo == {p \in call[c].todo : NameOf(p) > t}
             f == [call[c] EXCEPT !.stage = stage, !.at = o, !.todo = todo]
  <2>1. call[c].stage = "next" /\ UNCHANGED <<tiers, active, announced, layer, Outside>>
    BY <1>15 DEF Enter
  <2>2. call' = [call EXCEPT ![c].stage = stage, ![c].at = o, ![c].todo = todo]
    BY <1>0, <1>15 DEF Enter
  <2>3. call' = [call EXCEPT ![c] = f]
    <3> HIDE DEF o, t, stage, todo
    <3> QED
      BY <1>0, <2>2
  <2>4. healthy \in SUBSET (0..Len(tiers)) /\ healthy # {}
    <3>1. 0 \in call[c].todo /\ IsHealthy(0)
      BY <1>0, <2>1 DEF FrameIsSound, IsHealthy
    <3> QED
      BY <1>0, <3>1 DEF FrameIsSound
  <2>5. o \in healthy
    <3> HIDE DEF healthy
    <3> QED
      BY <1>0, <2>4, ForemostIs
  <2>6. o \in 0..Len(tiers) /\ t \in TierNames /\ (o # 0 => t < Echo) /\ NameOf(0) = Echo
    <3>1. o \in 0..Len(tiers)
      BY <2>4, <2>5
    <3> HIDE DEF o
    <3> QED
      BY <1>0, <3>1, NamesAreTiers
  <2>7. todo \subseteq call[c].todo /\ (o # 0 => 0 \in todo)
    <3>1. 0 \in call[c].todo
      BY <1>0, <2>1 DEF FrameIsSound
    <3>2. o # 0 => NameOf(0) > t
      <4>1. t \in Nat /\ Echo \in Nat
        <5> HIDE DEF t, o
        <5> QED
          BY <2>6, LadderType
      <4> HIDE DEF t, o
      <4> QED
        BY <2>6, <4>1
    <3> HIDE DEF t, o
    <3> QED
      BY <3>1, <3>2
  <2>8. f \in Call /\ FrameIsSound(f, Len(tiers))
    <3>1. stage \in {"switching", "calling"}
      OBVIOUS
    <3> HIDE DEF o, t, stage, todo
    <3>2. o \in 0..MaxRegistrations /\ todo \subseteq 0..MaxRegistrations
          /\ todo \subseteq 0..Len(tiers)
      BY <1>0, <2>6, <2>7, CoreConstants DEF Call, FrameIsSound
    <3> QED
      BY <1>0, <2>6, <2>7, <3>1, <3>2 DEF Call, FrameIsSound
  <2> HIDE DEF f
  <2> QED
    BY <1>6, <2>1, <2>3, <2>8
<1>16. ASSUME NEW c \in Callers, Conclude(c) PROVE FramesInv'
  <2>1. /\ call' = [call EXCEPT ![c] = Idle] /\ UNCHANGED <<tiers, slot, probe, up>>
        /\ \/ Switch(call[c].prev, NameOf(call[c].at))
           \/ UNCHANGED <<active, announced, layer>>
    BY <1>16 DEF Conclude, Outside
  <2>2. NameOf(call[c].at) \in TierNames /\ call[c].prev \in TierNames
    BY <1>0, NamesAreTiers DEF Call, FrameIsSound
  <2>3. active' \in TierNames /\ announced' \in BOOLEAN /\ LayerTypeOK'
    BY <1>0, <2>1, <2>2, SwitchType
  <2> QED
    BY <1>0, <1>7, <2>1, <2>3, MoveKeepsFrames
<1>17. ASSUME NEW c \in Callers, Fail(c) PROVE FramesInv'
  <2> DEFINE o == call[c].at
             n == FailuresOf(o)
             t == [tiers[o] EXCEPT !.errors = n]
             stage == IF n >= DisableAt THEN "disabling" ELSE "next"
             at == IF n >= DisableAt THEN o ELSE 0
             f == [call[c] EXCEPT !.stage = stage, !.at = at]
  <2>1. /\ call[c].stage = "calling" /\ o # 0 /\ tiers' = [tiers EXCEPT ![o].errors = n]
        /\ call' = [call EXCEPT ![c].stage = stage, ![c].at = at]
        /\ UNCHANGED <<active, announced, layer, Outside>>
    BY <1>0, <1>17 DEF Fail, MayFail
  <2>2. o \in DOMAIN tiers /\ o \in 1..Len(tiers) /\ tiers[o] \in CognitionTier
    BY <1>0, <2>1, NamesAreTiers DEF FrameIsSound
  <2>3. n \in 0..MaxErrors
    <3> PICK m : m = MaxErrors
      OBVIOUS
    <3>1. m \in Nat
      BY LadderType
    <3>2. tiers[o].errors \in 0..m
      BY <2>2 DEF CognitionTier
    <3>3. PICK e \in 0..m : e = tiers[o].errors
      BY <3>2
    <3>4. n = IF e < m THEN e + 1 ELSE m
      BY <3>3 DEF FailuresOf
    <3> QED
      BY <3>1, <3>3, <3>4
  <2>4. tiers' \in Seq(CognitionTier) /\ Len(tiers') = Len(tiers)
    <3> HIDE DEF n, o
    <3>1. t \in CognitionTier
      BY <2>2, <2>3 DEF CognitionTier
    <3>2. tiers' = [tiers EXCEPT ![o] = t]
      BY <2>1, <2>2
    <3> HIDE DEF t
    <3>3. /\ [tiers EXCEPT ![o] = t] \in Seq(CognitionTier)
          /\ Len([tiers EXCEPT ![o] = t]) = Len(tiers)
      BY <1>0, <2>2, <3>1, ExceptTier
    <3> QED
      BY <3>2, <3>3
  <2>5. call' = [call EXCEPT ![c] = f]
    <3> HIDE DEF stage, at
    <3> QED
      BY <1>0, <2>1
  <2>6. f \in Call /\ FrameIsSound(f, Len(tiers))
    <3>1. /\ stage \in {"disabling", "next"} /\ at \in 0..Len(tiers) /\ at \in 0..MaxRegistrations
          /\ stage = "disabling" => at # 0
      BY <1>0, <2>1, <2>2, CoreConstants
    <3>2. 0 \in call[c].todo
      BY <1>0, <2>1 DEF FrameIsSound
    <3> HIDE DEF stage, at
    <3> QED
      BY <1>0, <3>1, <3>2 DEF Call, FrameIsSound
  <2>7. UNCHANGED <<slot, probe, up, active, announced>> /\ LayerTypeOK'
    BY <1>0, <2>1 DEF layer, LayerTypeOK, Outside
  <2> HIDE DEF f
  <2> QED
    BY <1>0, <2>4, <2>5, <2>6, <2>7, MoveKeepsFrames
<1>18. ASSUME NEW c \in Callers, Disable(c) PROVE FramesInv'
  <2> DEFINE o == call[c].at
             t == [tiers[o] EXCEPT !.available = FALSE]
             f == [call[c] EXCEPT !.stage = "next", !.at = 0]
  <2>1. /\ call[c].stage = "disabling" /\ tiers' = [tiers EXCEPT ![o].available = FALSE]
        /\ call' = [call EXCEPT ![c].stage = "next", ![c].at = 0]
        /\ UNCHANGED <<active, announced, layer, Outside>>
    BY <1>18 DEF Disable
  <2>2. o \in DOMAIN tiers /\ tiers[o] \in CognitionTier
    BY <1>0, <2>1, NamesAreTiers DEF FrameIsSound
  <2>3. tiers' \in Seq(CognitionTier) /\ Len(tiers') = Len(tiers)
    <3> HIDE DEF o
    <3>1. t \in CognitionTier
      BY <2>2 DEF CognitionTier
    <3>2. tiers' = [tiers EXCEPT ![o] = t]
      BY <2>1, <2>2
    <3> HIDE DEF t
    <3>3. /\ [tiers EXCEPT ![o] = t] \in Seq(CognitionTier)
          /\ Len([tiers EXCEPT ![o] = t]) = Len(tiers)
      BY <1>0, <2>2, <3>1, ExceptTier
    <3> QED
      BY <3>2, <3>3
  <2>4. call' = [call EXCEPT ![c] = f]
    BY <1>0, <2>1
  <2>5. f \in Call /\ FrameIsSound(f, Len(tiers))
    BY <1>0, <2>1, CoreConstants DEF Call, FrameIsSound
  <2>6. UNCHANGED <<slot, probe, up, active, announced>> /\ LayerTypeOK'
    BY <1>0, <2>1 DEF layer, LayerTypeOK, Outside
  <2> HIDE DEF f
  <2> QED
    BY <1>0, <2>3, <2>4, <2>5, <2>6, MoveKeepsFrames
<1>19. ASSUME NEW c \in Callers, Announce(c) PROVE FramesInv'
  <2> DEFINE t == NameOf(call[c].at)
             f == [call[c] EXCEPT !.stage = "calling", !.prev = t, !.told = TRUE]
  <2>1. /\ call[c].stage = "switching" /\ Switch(call[c].prev, t) /\ UNCHANGED <<tiers, Outside>>
        /\ call' = [call EXCEPT ![c].stage = "calling", ![c].prev = t, ![c].told = TRUE]
    BY <1>19 DEF Announce
  <2>2. t \in TierNames /\ call[c].prev \in TierNames
    BY <1>0, NamesAreTiers DEF Call, FrameIsSound
  <2> HIDE DEF t
  <2>3. call' = [call EXCEPT ![c] = f]
    BY <1>0, <2>1
  <2>4. f \in Call /\ FrameIsSound(f, Len(tiers))
    BY <1>0, <2>1, <2>2 DEF Call, FrameIsSound
  <2>5. active' \in TierNames /\ announced' \in BOOLEAN /\ LayerTypeOK'
    BY <1>0, <2>1, <2>2, SwitchType
  <2>6. UNCHANGED <<tiers, slot, probe, up>>
    BY <2>1 DEF Outside
  <2> HIDE DEF f
  <2> QED
    BY <1>0, <2>3, <2>4, <2>5, <2>6, MoveKeepsFrames
<1> QED
  BY <1>1, <1>2, <1>3, <1>4, <1>5, <1>8, <1>9, <1>10, <1>11, <1>12, <1>13, <1>14,
     <1>15, <1>16, <1>17, <1>18, <1>19 DEF Next, Proceed, WaitForLock

LEMMA FramesAlways == Spec => []FramesInv
<1>1. Init => FramesInv
  <2> SUFFICES ASSUME Init PROVE FramesInv
    OBVIOUS
  <2>1. tiers = <<>> /\ Len(tiers) = 0 /\ MaxRegistrations \in Nat
    BY CoreConstants DEF Init
  <2>2. Idle \in Call /\ FrameIsSound(Idle, 0)
    BY LadderType, CoreConstants DEF Idle, Call, FrameIsSound
  <2>3. LayerTypeOK
    <3>1. [tier |-> NoTier, degraded |-> FALSE] \in [tier : TierNames \cup {NoTier}, degraded : BOOLEAN]
      OBVIOUS
    <3>2. 0 \in 0..MaxLessons
      BY LayerConstants
    <3> QED
      BY <3>1, <3>2 DEF Init, LayerInit, LayerTypeOK
  <2>4. Resting \in Pass /\ PassIsSound(Resting, 0)
    BY CoreConstants DEF Resting, Pass, PassIsSound
  <2>5. TypeOK
    BY <2>1, <2>2, <2>3, <2>4, LadderType DEF Init, TypeOK
  <2> QED
    BY <2>1, <2>2, <2>4, <2>5 DEF Init, FramesInv
<1>2. FramesInv /\ [Next]_vars => FramesInv'
  BY FramesStep
<1> QED
  BY <1>1, <1>2, PTL DEF Spec

(* The state is well formed: in particular every caller that goes on finds *)
(* a tier to call, the echo stub in the worst case.                        *)
THEOREM TypeCorrect == Spec => []TypeOK
<1>1. FramesInv => TypeOK
  BY DEF FramesInv
<1> QED
  BY <1>1, FramesAlways, PTL

-----------------------------------------------------------------------------
(* A dead tier is left alone.  While it is available every failure at or   *)
(* past the limit belongs to a caller that has still to disable it; once   *)
(* it is not, the only failures to come are those of calls already in      *)
(* flight, and none of these has failed before.  The pass that is about to *)
(* revive a tier had read a count below the limit; after it every caller   *)
(* may fail once more, and no pass finds the tier a candidate again.       *)
On(stages, o) == {c \in Callers : call[c].stage \in stages /\ call[c].at = o}

Flying == {"switching", "calling"}
Failed == {"disabling"}

Allowance(o) ==
    IF probe.stage = "revive" /\ probe.at = o THEN GiveUpAt ELSE GiveUpAt + Cardinality(Callers)

IsLeftAlone(o) ==
    IF tiers[o].available
    THEN tiers[o].errors + 1 <= Allowance(o) + Cardinality(On(Failed, o))
    ELSE tiers[o].errors + 1 + Cardinality(On(Flying, o)) <= Allowance(o) + Cardinality(Callers)

TiersLeftAlone == \A o \in DOMAIN tiers : IsLeftAlone(o)

Indicator(b) == IF b THEN 1 ELSE 0

(* The callers at an object number one more or less with the one that      *)
(* moves; those calling and those disabling it are different callers.      *)
LEMMA OnStep ==
    ASSUME NEW c \in Callers, NEW stages, NEW o,
           \A d \in Callers \ {c} : call'[d] = call[d]
    PROVE  /\ Cardinality(On(stages, o)) \in Nat
           /\ Cardinality(On(stages, o)') =
                Cardinality(On(stages, o)) - Indicator(c \in On(stages, o))
                                          + Indicator(c \in On(stages, o)')
<1> DEFINE A == On(stages, o)
           B == On(stages, o)'
<1>1. A \subseteq Callers /\ IsFiniteSet(A) /\ IsFiniteSet(A \ {c})
  BY CoreConstants, FS_Subset DEF On
<1>2. B = IF c \in B THEN (A \ {c}) \cup {c} ELSE A \ {c}
  BY DEF On
<1> HIDE DEF A, B
<1>3. Cardinality(A) \in Nat /\ Cardinality(A \ {c}) = Cardinality(A) - Indicator(c \in A)
  BY <1>1, FS_RemoveElement, FS_CardinalityType DEF Indicator
<1>4. Cardinality((A \ {c}) \cup {c}) = Cardinality(A \ {c}) + 1
  BY <1>1, FS_AddElement
<1>5. Cardinality(B) = Cardinality(A) - Indicator(c \in A) + Indicator(c \in B)
  <2>1. PICK x \in {0, 1} : x = Indicator(c \in A)
    BY DEF Indicator
  <2>2. PICK n \in Nat : n = Cardinality(A)
    BY <1>3
  <2>3. CASE c \in B
    <3>1. Cardinality(B) = n - x + 1 /\ Indicator(c \in B) = 1
      BY <1>2, <1>3, <1>4, <2>1, <2>2, <2>3 DEF Indicator
    <3> QED
      BY <2>1, <2>2, <3>1
  <2>4. CASE c \notin B
    <3>1. Cardinality(B) = n - x /\ Indicator(c \in B) = 0
      BY <1>2, <1>3, <2>1, <2>2, <2>4 DEF Indicator
    <3> QED
      BY <2>1, <2>2, <3>1
  <2> QED
    BY <2>3, <2>4
<1> QED
  BY <1>3, <1>5 DEF A, B

LEMMA OnAreCallers ==
    ASSUME NEW o
    PROVE  /\ Cardinality(On(Flying, o)) \in Nat /\ Cardinality(On(Failed, o)) \in Nat
           /\ Cardinality(On(Flying, o)) + Cardinality(On(Failed, o)) <= Cardinality(Callers)
<1> DEFINE A == On(Flying, o)
           B == On(Failed, o)
<1>1. /\ A \subseteq Callers /\ B \subseteq Callers /\ A \cap B = {} /\ A \cup B \subseteq Callers
      /\ IsFiniteSet(A) /\ IsFiniteSet(B)
  BY CoreConstants, FS_Subset DEF On, Flying, Failed
<1> HIDE DEF A, B
<1>2. /\ Cardinality(A) \in Nat /\ Cardinality(B) \in Nat /\ Cardinality(A \cap B) = 0
      /\ Cardinality(A \cup B) = Cardinality(A) + Cardinality(B) - Cardinality(A \cap B)
  BY <1>1, FS_Union, FS_CardinalityType, FS_EmptySet
<1>3. Cardinality(A \cup B) <= Cardinality(Callers)
  BY <1>1, CoreConstants, FS_Subset
<1> QED
  BY <1>2, <1>3 DEF A, B

LEMMA AllowanceIs ==
    ASSUME NEW o
    PROVE  /\ Allowance(o) \in Nat /\ Allowance(o) >= GiveUpAt
           /\ Allowance(o) <= GiveUpAt + Cardinality(Callers)
           /\ Allowance(o)' \in Nat /\ Allowance(o)' >= GiveUpAt
           /\ Allowance(o)' <= GiveUpAt + Cardinality(Callers)
BY LadderType DEF Allowance

\* What a step of the caller c may do to the object o.
Spares(c, o) ==
    /\ tiers'[o].available = tiers[o].available /\ tiers'[o].errors = tiers[o].errors
    /\ c \notin On(Failed, o) /\ (tiers[o].available \/ c \notin On(Flying, o)' \/ c \in On(Flying, o))
Restores(o) == tiers'[o].available /\ tiers'[o].errors = 0
Counts(c, o) ==
    /\ tiers'[o].available = tiers[o].available /\ tiers'[o].errors <= tiers[o].errors + 1
    /\ c \in On(Flying, o) /\ c \notin On(Flying, o)'
    /\ c \in On(Failed, o)' \/ tiers'[o].errors < DisableAt
Disables(c, o) ==
    /\ ~tiers'[o].available /\ tiers'[o].errors = tiers[o].errors
    /\ c \notin On(Flying, o)'

LEMMA MoveKeepsLeftAlone ==
    ASSUME FramesInv, TiersLeftAlone, NEW c \in Callers, probe' = probe,
           \A d \in Callers \ {c} : call'[d] = call[d],
           NEW o \in DOMAIN tiers, tiers'[o] \in CognitionTier,
           Spares(c, o) \/ Restores(o) \/ Counts(c, o) \/ Disables(c, o)
    PROVE  IsLeftAlone(o)'
<1>1. PICK k \in Nat : k = Cardinality(On(Flying, o))
  BY OnAreCallers
<1>2. PICK d \in Nat : d = Cardinality(On(Failed, o))
  BY OnAreCallers
<1>3. PICK n \in Nat : n = Cardinality(Callers)
  BY LadderType
<1>4. k + d <= n
  BY <1>1, <1>2, <1>3, OnAreCallers
<1>5. PICK e \in Nat : e = tiers[o].errors
  BY NamesAreTiers, LadderType DEF FramesInv, CognitionTier
<1>6. PICK f \in Nat : f = tiers'[o].errors
  BY LadderType DEF CognitionTier
<1>7. /\ Cardinality(On(Flying, o)') = k - Indicator(c \in On(Flying, o))
                                            + Indicator(c \in On(Flying, o)')
      /\ Cardinality(On(Failed, o)') = d - Indicator(c \in On(Failed, o))
                                              + Indicator(c \in On(Failed, o)')
  BY <1>1, <1>2, OnStep
<1>17. PICK a \in Nat : a = Allowance(o) /\ a >= GiveUpAt
  BY AllowanceIs
<1>18. Allowance(o)' = a
  BY <1>17 DEF Allowance
<1>8. IF tiers[o].available THEN e + 1 <= a + d ELSE e + 1 + k <= a + n
  BY <1>1, <1>2, <1>3, <1>5, <1>17 DEF TiersLeftAlone, IsLeftAlone
<1>9. ASSUME NEW K \in Int, NEW D \in Int,
             K = Cardinality(On(Flying, o)'), D = Cardinality(On(Failed, o)'),
             IF tiers'[o].available THEN f + 1 <= a + D ELSE f + 1 + K <= a + n
      PROVE  IsLeftAlone(o)'
  BY <1>3, <1>6, <1>9, <1>18 DEF IsLeftAlone
<1>10. c \in On(Flying, o) => c \notin On(Failed, o)
  BY DEF On, Flying, Failed
<1>11. GiveUpAt \in Nat /\ GiveUpAt >= 1 /\ DisableAt \in Nat /\ DisableAt <= GiveUpAt
  BY LadderType, CoreConstants
<1>12. CASE Spares(c, o)
  <2>1. /\ f = e /\ tiers'[o].available = tiers[o].available
        /\ c \notin On(Failed, o) /\ (tiers[o].available \/ c \notin On(Flying, o)' \/ c \in On(Flying, o))
    BY <1>5, <1>6, <1>12 DEF Spares
  <2>2. CASE tiers[o].available
    <3>1. Indicator(c \in On(Failed, o)) = 0 /\ Indicator(c \in On(Failed, o)') \in {0, 1}
          /\ Indicator(c \in On(Flying, o)) \in {0, 1} /\ Indicator(c \in On(Flying, o)') \in {0, 1}
      BY <2>1 DEF Indicator
    <3> QED
      BY <1>7, <1>8, <1>9, <1>11, <1>17, <2>1, <2>2, <3>1
  <2>3. CASE ~tiers[o].available
    <3>1. Indicator(c \in On(Failed, o)) = 0 /\ Indicator(c \in On(Failed, o)') \in {0, 1}
      BY <2>1 DEF Indicator
    <3>2. ~tiers'[o].available /\ f + 1 + k <= a + n
      BY <1>8, <2>1, <2>3
    <3>6. \/ Indicator(c \in On(Flying, o)) = 1 /\ Indicator(c \in On(Flying, o)') \in {0, 1}
          \/ Indicator(c \in On(Flying, o)) = 0 /\ Indicator(c \in On(Flying, o)') = 0
      BY <2>1, <2>3 DEF Indicator
    <3>3. PICK K \in Int : K = Cardinality(On(Flying, o)') /\ K <= k
      BY <1>7, <3>6
    <3>4. PICK D \in Int : D = Cardinality(On(Failed, o)')
      BY <1>7, <3>1
    <3>5. f + 1 + K <= a + n
      BY <3>2, <3>3
    <3> QED
      BY <1>9, <3>2, <3>3, <3>4, <3>5
  <2> QED
    BY <2>2, <2>3
<1>13. /\ Indicator(c \in On(Failed, o)) \in {0, 1} /\ Indicator(c \in On(Failed, o)') \in {0, 1}
       /\ Indicator(c \in On(Flying, o)) \in {0, 1} /\ Indicator(c \in On(Flying, o)') \in {0, 1}
  BY DEF Indicator
<1>14. CASE Restores(o)
  <2>1. f = 0 /\ tiers'[o].available /\ Cardinality(On(Failed, o)') \in Nat
    <3>1. Cardinality(On(Failed, o)') \in Nat
      <4>1. IsFiniteSet(On(Failed, o)')
        BY CoreConstants, FS_Subset DEF On
      <4> QED
        BY <4>1, FS_CardinalityType
    <3> QED
      BY <1>6, <1>14, <3>1 DEF Restores
  <2> QED
    BY <1>7, <1>9, <1>11, <1>17, <1>13, <2>1
<1>15. CASE Counts(c, o)
  <2>1. /\ f <= e + 1 /\ tiers'[o].available = tiers[o].available
        /\ Indicator(c \in On(Flying, o)) = 1 /\ Indicator(c \in On(Flying, o)') = 0
        /\ Indicator(c \in On(Failed, o)) = 0
        /\ Indicator(c \in On(Failed, o)') = 1 \/ f < DisableAt
    BY <1>5, <1>6, <1>10, <1>15 DEF Counts, Indicator
  <2> QED
    BY <1>7, <1>8, <1>9, <1>11, <1>17, <1>13, <2>1
<1>16. CASE Disables(c, o)
  <2>1. f = e /\ ~tiers'[o].available /\ Indicator(c \in On(Flying, o)') = 0
    BY <1>5, <1>6, <1>16 DEF Disables, Indicator
  <2> QED
    BY <1>4, <1>7, <1>8, <1>9, <1>11, <1>17, <1>13, <2>1
<1> QED
  BY <1>12, <1>14, <1>15, <1>16

(* A step of no caller that leaves a tier as it is and does not revive it, *)
(* and takes the allowance of a pass only where the count allows it.       *)
LEMMA QuietKeepsLeftAlone ==
    ASSUME FramesInv, TiersLeftAlone, call' = call, NEW o \in DOMAIN tiers,
           tiers'[o].errors = tiers[o].errors,
           \/ tiers'[o].available = tiers[o].available /\ Allowance(o)' >= Allowance(o)
           \/ tiers'[o].available = tiers[o].available /\ ~tiers[o].available
                /\ tiers[o].errors < GiveUpAt
           \/ ~tiers'[o].available /\ Allowance(o)' = Allowance(o)
           \/ tiers'[o].available /\ Allowance(o) = GiveUpAt
                /\ Allowance(o)' = GiveUpAt + Cardinality(Callers)
    PROVE  IsLeftAlone(o)'
<1>1. \A stages : On(stages, o)' = On(stages, o)
  BY DEF On
<1>2. PICK e \in Nat : e = tiers[o].errors
  BY NamesAreTiers, LadderType DEF FramesInv, CognitionTier
<1>3. PICK k \in Nat : k = Cardinality(On(Flying, o)) /\ k = Cardinality(On(Flying, o)')
  BY <1>1, OnAreCallers
<1>4. PICK d \in Nat : d = Cardinality(On(Failed, o)) /\ d = Cardinality(On(Failed, o)')
  BY <1>1, OnAreCallers
<1>5. PICK n \in Nat : n = Cardinality(Callers)
  BY LadderType
<1>6. k + d <= n
  BY <1>3, <1>4, <1>5, OnAreCallers
<1>7. PICK a \in Nat : a = Allowance(o) /\ a >= GiveUpAt
  BY AllowanceIs
<1>8. PICK b \in Nat : b = Allowance(o)' /\ b >= GiveUpAt
  BY AllowanceIs
<1>9. IF tiers[o].available THEN e + 1 <= a + d ELSE e + 1 + k <= a + n
  BY <1>2, <1>3, <1>4, <1>5, <1>7 DEF TiersLeftAlone, IsLeftAlone
<1>10. GiveUpAt \in Nat
  BY LadderType
<1>11. IF tiers'[o].available THEN e + 1 <= b + d ELSE e + 1 + k <= b + n
  <2>1. CASE tiers'[o].available = tiers[o].available /\ b >= a
    BY <1>2, <1>3, <1>4, <1>5, <1>7, <1>8, <1>9, <2>1
  <2>2. CASE tiers'[o].available = tiers[o].available /\ ~tiers[o].available /\ e < GiveUpAt
    BY <1>2, <1>3, <1>4, <1>5, <1>6, <1>8, <1>10, <2>2
  <2>3. CASE ~tiers'[o].available /\ b = a
    BY <1>2, <1>3, <1>4, <1>5, <1>6, <1>7, <1>9, <2>3
  <2>4. CASE tiers'[o].available /\ a = GiveUpAt /\ b = GiveUpAt + n
    BY <1>2, <1>3, <1>4, <1>5, <1>6, <1>9, <1>10, <2>4
  <2> QED
    BY <1>2, <1>5, <1>7, <1>8, <2>1, <2>2, <2>3, <2>4
<1> QED
  BY <1>2, <1>3, <1>4, <1>5, <1>8, <1>11 DEF IsLeftAlone

LEMMA LeftAloneStep == FramesInv /\ TiersLeftAlone /\ [Next]_vars => TiersLeftAlone'
<1> SUFFICES ASSUME FramesInv, TiersLeftAlone, [Next]_vars PROVE TiersLeftAlone'
  OBVIOUS
<1>0. /\ TypeOK /\ Len(tiers) \in Nat /\ DOMAIN tiers = 1..Len(tiers)
      /\ call \in [Callers -> Call] /\ tiers \in Seq(CognitionTier)
      /\ \A o \in DOMAIN tiers : tiers[o] \in CognitionTier
      /\ \A c \in Callers : call[c] \in Call /\ FrameIsSound(call[c], Len(tiers))
      /\ probe \in Pass /\ PassIsSound(probe, Len(tiers))
  BY NamesAreTiers DEF FramesInv, TypeOK
<1>1. FramesInv'
  BY FramesStep
<1>2. \A o \in DOMAIN tiers' : tiers'[o] \in CognitionTier
  <2>1. tiers' \in Seq(CognitionTier)
    BY <1>1 DEF FramesInv, TypeOK
  <2> QED
    BY <2>1, LenProperties, ElementOfSeq
<1>3. ASSUME UNCHANGED <<tiers, call, probe>> PROVE TiersLeftAlone'
  <2>1. ASSUME NEW o \in DOMAIN tiers PROVE IsLeftAlone(o)'
    <3>1. Allowance(o)' = Allowance(o)
      BY <1>3 DEF Allowance
    <3> QED
      BY <1>3, <3>1, AllowanceIs, QuietKeepsLeftAlone, LadderType
  <2> QED
    BY <1>3, <2>1 DEF TiersLeftAlone
<1>4. ASSUME NEW t \in Backends, AddTier(t) PROVE TiersLeftAlone'
  <2> DEFINE e == [name |-> t, available |-> TRUE, errors |-> 0]
  <2>1. e \in CognitionTier /\ tiers' = Append(tiers, e) /\ UNCHANGED <<call, probe>>
    BY <1>4, LadderType DEF AddTier, CognitionTier
  <2>2. /\ DOMAIN tiers' = 1..(Len(tiers) + 1) /\ \A o \in 1..Len(tiers) : tiers'[o] = tiers[o]
        /\ tiers'[Len(tiers) + 1] = e
    <3> HIDE DEF e
    <3>1. /\ Len(tiers') = Len(tiers) + 1 /\ tiers' \in Seq(CognitionTier)
          /\ \A o \in 1..Len(tiers) : tiers'[o] = tiers[o]
          /\ tiers'[Len(tiers) + 1] = e
      BY <1>0, <2>1, AppendProperties
    <3> QED
      BY <3>1, LenProperties
  <2>3. \A o \in DOMAIN tiers : IsLeftAlone(o)'
    <3>1. \A o : Allowance(o)' = Allowance(o)
      BY <2>1 DEF Allowance
    <3> QED
      BY <1>0, <2>1, <2>2, <3>1, AllowanceIs, QuietKeepsLeftAlone, LadderType
  <2>4. PICK n : n = Len(tiers) + 1
    OBVIOUS
  <2>5. IsLeftAlone(n)'
    <3>1. IsFiniteSet(On(Failed, n)')
      BY CoreConstants, FS_Subset DEF On
    <3>2. PICK d \in Nat : d = Cardinality(On(Failed, n)')
      BY <3>1, FS_CardinalityType
    <3>3. tiers'[n].available /\ tiers'[n].errors = 0 /\ 0 + 1 <= Allowance(n)' + d
      BY <2>2, <2>4, <3>2, AllowanceIs, LadderType
    <3> QED
      BY <3>2, <3>3 DEF IsLeftAlone
  <2>6. ASSUME NEW o \in DOMAIN tiers' PROVE IsLeftAlone(o)'
    <3>1. o \in DOMAIN tiers \/ o = n
      BY <1>0, <2>2, <2>4
    <3> QED
      BY <2>3, <2>5, <3>1
  <2> QED
    BY <2>6 DEF TiersLeftAlone
<1>5. ASSUME Probe PROVE TiersLeftAlone'
  <2>1. call' = call /\ Cardinality(Callers) \in Nat /\ GiveUpAt \in Nat
    BY <1>5, LadderType DEF Probe
  <2>2. ASSUME probe.stage # "revive", tiers' = tiers, NEW o \in DOMAIN tiers,
               \/ probe'.stage # "revive" \/ probe'.at # o
               \/ ~tiers[o].available /\ tiers[o].errors < GiveUpAt
        PROVE  IsLeftAlone(o)'
    <3>1. Allowance(o) = GiveUpAt + Cardinality(Callers)
      BY <2>2 DEF Allowance
    <3>2. CASE probe'.stage # "revive" \/ probe'.at # o
      <4>1. Allowance(o)' = GiveUpAt + Cardinality(Callers)
        BY <3>2 DEF Allowance
      <4> QED
        BY <2>1, <2>2, <3>1, <4>1, QuietKeepsLeftAlone
    <3>3. CASE ~tiers[o].available /\ tiers[o].errors < GiveUpAt
      BY <2>1, <2>2, <3>3, QuietKeepsLeftAlone
    <3> QED
      BY <2>2, <3>2, <3>3
  <2>3. ASSUME NEW objects, probe' = PassOver(objects) PROVE probe'.stage # "revive"
    BY <2>3 DEF PassOver, Resting
  <2>4. ASSUME NEW stage, ThenProbe(stage) PROVE probe'.stage = stage /\ probe'.at = probe.at
    BY <1>0, <2>4 DEF ThenProbe, Pass
  <2>5. ASSUME NEW available \in BOOLEAN, probe.stage # "rest", Tentatively(available)
        PROVE  /\ DOMAIN tiers' = DOMAIN tiers
               /\ \A o \in DOMAIN tiers : tiers'[o].errors = tiers[o].errors
               /\ \A o \in DOMAIN tiers \ {probe.at} : tiers'[o].available = tiers[o].available
               /\ tiers'[probe.at].available = available
    <3>1. probe.at \in DOMAIN tiers /\ tiers[probe.at] \in CognitionTier
      BY <1>0, <2>5 DEF PassIsSound
    <3> QED
      BY <2>5, <3>1 DEF Tentatively, CognitionTier
  <2>6. CASE BeginPass
    <3>1. probe.stage # "revive" /\ tiers' = tiers /\ probe'.stage # "revive"
      BY <2>3, <2>6 DEF BeginPass, LockIsFree
    <3> QED
      BY <2>2, <3>1 DEF TiersLeftAlone
  <2>7. CASE Look
    <3>1. probe.stage = "look" /\ tiers' = tiers
      BY <2>7 DEF Look, LookAt
    <3>2. \/ probe'.stage # "revive"
          \/ probe'.at = probe.at /\ ~tiers[probe.at].available /\ tiers[probe.at].errors < GiveUpAt
      BY <2>3, <2>4, <2>7 DEF Look, LookAt, ProbeNextTier
    <3> QED
      BY <2>2, <3>1, <3>2 DEF TiersLeftAlone
  <2>8. CASE Revive
    <3>1. /\ probe.stage = "revive" /\ Tentatively(TRUE)
          /\ probe'.stage = "check" /\ probe'.at = probe.at
      BY <2>4, <2>8 DEF Revive
    <3>2. ASSUME NEW o \in DOMAIN tiers PROVE IsLeftAlone(o)'
      <4>1. Allowance(o)' = GiveUpAt + Cardinality(Callers)
        BY <3>1 DEF Allowance
      <4>2. CASE o = probe.at
        <5>1. /\ Allowance(o) = GiveUpAt /\ tiers'[o].available
              /\ tiers'[o].errors = tiers[o].errors
          BY <2>5, <3>1, <4>2 DEF Allowance
        <5> QED
          BY <2>1, <4>1, <5>1, QuietKeepsLeftAlone
      <4>3. CASE o # probe.at
        <5>1. /\ Allowance(o) = GiveUpAt + Cardinality(Callers)
              /\ tiers'[o].available = tiers[o].available /\ tiers'[o].errors = tiers[o].errors
          BY <2>5, <3>1, <4>3 DEF Allowance
        <5>2. Allowance(o)' >= Allowance(o)
          BY <2>1, <4>1, <5>1
        <5> QED
          BY <2>1, <5>1, <5>2, QuietKeepsLeftAlone
      <4> QED
        BY <4>2, <4>3
    <3> QED
      BY <2>5, <3>1, <3>2 DEF TiersLeftAlone
  <2>9. CASE CheckHealth
    <3>1. probe.stage = "check" /\ tiers' = tiers /\ probe'.stage # "revive"
      BY <2>3, <2>4, <2>9 DEF CheckHealth, ProbeNextTier
    <3> QED
      BY <2>2, <3>1 DEF TiersLeftAlone
  <2>10. CASE DisableAgain
    <3>1. probe.stage = "disable" /\ Tentatively(FALSE) /\ probe'.stage # "revive"
      BY <2>3, <2>10 DEF DisableAgain, ProbeNextTier
    <3>2. ASSUME NEW o \in DOMAIN tiers PROVE IsLeftAlone(o)'
      <4>1. /\ Allowance(o) = GiveUpAt + Cardinality(Callers)
            /\ Allowance(o)' = GiveUpAt + Cardinality(Callers)
        BY <3>1 DEF Allowance
      <4>2. /\ tiers'[o].errors = tiers[o].errors
            /\ tiers'[o].available = tiers[o].available \/ ~tiers'[o].available
        BY <2>5, <3>1
      <4>3. CASE tiers'[o].available = tiers[o].available
        BY <2>1, <4>1, <4>2, <4>3, QuietKeepsLeftAlone
      <4>4. CASE ~tiers'[o].available
        BY <2>1, <4>1, <4>2, <4>4, QuietKeepsLeftAlone
      <4> QED
        BY <4>2, <4>3, <4>4
    <3> QED
      BY <2>5, <3>1, <3>2 DEF TiersLeftAlone
  <2> QED
    BY <1>5, <2>6, <2>7, <2>8, <2>9, <2>10 DEF Probe
<1>6. ASSUME NEW c \in Callers, NEW f, call' = [call EXCEPT ![c] = f], probe' = probe,
             DOMAIN tiers' = DOMAIN tiers,
             \A o \in DOMAIN tiers : Spares(c, o) \/ Restores(o) \/ Counts(c, o) \/ Disables(c, o)
      PROVE  TiersLeftAlone'
  <2>1. \A d \in Callers \ {c} : call'[d] = call[d]
    BY <1>0, <1>6
  <2>2. ASSUME NEW o \in DOMAIN tiers' PROVE IsLeftAlone(o)'
    <3>1. o \in DOMAIN tiers /\ tiers'[o] \in CognitionTier
      BY <1>2, <1>6
    <3>2. Spares(c, o) \/ Restores(o) \/ Counts(c, o) \/ Disables(c, o)
      BY <1>6, <3>1
    <3> QED
      BY <1>6, <2>1, <3>1, <3>2, MoveKeepsLeftAlone
  <2> QED
    BY <2>2 DEF TiersLeftAlone
\* A caller that is not disabling a tier and does not come to call one.
<1>7. ASSUME NEW c \in Callers, NEW f, call' = [call EXCEPT ![c] = f], call[c].stage # "disabling",
             f.stage \notin Flying, tiers' = tiers, probe' = probe
      PROVE  TiersLeftAlone'
  <2>1. call'[c] = f
    BY <1>0, <1>7
  <2>2. \A o \in DOMAIN tiers : Spares(c, o)
    BY <1>7, <2>1 DEF Spares, On, Flying, Failed
  <2> QED
    BY <1>6, <1>7, <2>2
\* A caller that had an answer.
<1>8. ASSUME NEW c \in Callers, NEW f, call' = [call EXCEPT ![c] = f], call[c].stage = "calling",
             f.stage \notin Flying \/ f = call[c], RecordSuccess(call[c].at), probe' = probe
      PROVE  TiersLeftAlone'
  <2>1. call'[c] = f
    BY <1>0, <1>8
  <2>2. DOMAIN tiers' = DOMAIN tiers
    BY <1>8 DEF RecordSuccess
  <2>3. ASSUME NEW o \in DOMAIN tiers, o # call[c].at PROVE Spares(c, o)
    <3>1. tiers'[o] = tiers[o]
      BY <1>8, <2>3 DEF RecordSuccess
    <3> QED
      BY <1>8, <2>1, <2>3, <3>1 DEF Spares, On, Flying, Failed
  <2>4. ASSUME NEW o \in DOMAIN tiers, o = call[c].at PROVE Restores(o)
    <3>1. o # 0 /\ tiers[o] \in CognitionTier
      BY <1>0, <2>4
    <3>2. tiers' = [tiers EXCEPT ![o].errors = 0, ![o].available = TRUE]
      BY <1>8, <2>4, <3>1 DEF RecordSuccess
    <3>3. tiers'[o].errors = 0 /\ tiers'[o].available
      BY <2>4, <3>1, <3>2 DEF CognitionTier
    <3> QED
      BY <3>3 DEF Restores
  <2> QED
    BY <1>6, <1>8, <2>2, <2>3, <2>4
<1>9. ASSUME NEW c \in Callers, BeginStream(c) PROVE TiersLeftAlone'
  <2> DEFINE f == [call[c] EXCEPT !.stage = "begun", !.told = HasPrefix(active)]
  <2>1. /\ call' = [call EXCEPT ![c] = f] /\ f.stage = "begun" /\ call[c].stage = "idle"
        /\ tiers' = tiers /\ probe' = probe
    BY <1>0, <1>9 DEF BeginStream, Call, Outside
  <2> HIDE DEF f
  <2> QED
    BY <1>7, <2>1 DEF Flying
<1>10. ASSUME NEW c \in Callers, Start(c) PROVE TiersLeftAlone'
  <2> DEFINE f == [call[c] EXCEPT !.stage = "next", !.todo = Registered \cup {0}, !.prev = active]
  <2>1. /\ call' = [call EXCEPT ![c] = f] /\ f.stage = "next" /\ call[c].stage \in {"idle", "begun"}
        /\ tiers' = tiers /\ probe' = probe
    BY <1>0, <1>10 DEF Start, Call, Outside
  <2> HIDE DEF f
  <2> QED
    BY <1>7, <2>1 DEF Flying
<1>11. ASSUME NEW c \in Callers, Chunk(c) PROVE TiersLeftAlone'
  <2>1. call' = [call EXCEPT ![c] = call[c]]
    BY <1>0, <1>11 DEF Chunk
  <2> QED
    BY <1>8, <1>11, <2>1 DEF Chunk, Outside
<1>12. ASSUME NEW c \in Callers, LastEvent(c) PROVE TiersLeftAlone'
  <2>1. Idle.stage = "idle"
    BY DEF Idle
  <2> QED
    BY <1>8, <1>12, <2>1 DEF LastEvent, Flying, Outside
<1>13. ASSUME NEW c \in Callers, Generated(c) PROVE TiersLeftAlone'
  <2> DEFINE f == [call[c] EXCEPT !.stage = "answered"]
  <2>1. /\ call' = [call EXCEPT ![c] = f] /\ f.stage = "answered" /\ call[c].stage = "calling"
        /\ RecordSuccess(call[c].at) /\ probe' = probe
    BY <1>0, <1>13 DEF Generated, Call, Outside
  <2> HIDE DEF f
  <2> QED
    BY <1>8, <2>1 DEF Flying
<1>14. ASSUME NEW c \in Callers, RunOut(c) PROVE TiersLeftAlone'
  <2> DEFINE f == [call[c] EXCEPT !.stage = "next", !.at = 0]
  <2>1. /\ call' = [call EXCEPT ![c] = f] /\ f.stage = "next" /\ call[c].stage = "calling"
        /\ tiers' = tiers /\ probe' = probe
    BY <1>0, <1>14 DEF RunOut, Call, Outside
  <2> HIDE DEF f
  <2> QED
    BY <1>7, <2>1 DEF Flying
<1>15. ASSUME NEW c \in Callers, Abandon(c) \/ Conclude(c) PROVE TiersLeftAlone'
  <2>1. Idle.stage = "idle"
    BY DEF Idle
  <2>2. call' = [call EXCEPT ![c] = Idle] /\ call[c].stage \in {"calling", "answered"}
        /\ tiers' = tiers /\ probe' = probe
    BY <1>15 DEF Abandon, Conclude, Outside
  <2> QED
    BY <1>7, <2>1, <2>2 DEF Flying
<1>16. ASSUME NEW c \in Callers, Enter(c) PROVE TiersLeftAlone'
  <2> DEFINE healthy == {p \in call[c].todo : IsHealthy(p)}
             q == Foremost(healthy)
  <2>1. call[c].stage = "next" /\ tiers' = tiers /\ probe' = probe
    BY <1>16 DEF Enter, Outside
  <2>2. q \in healthy
    <3>1. 0 \in call[c].todo /\ IsHealthy(0) /\ call[c].todo \subseteq 0..Len(tiers)
      BY <1>0, <2>1 DEF FrameIsSound, IsHealthy
    <3>2. healthy \in SUBSET (0..Len(tiers)) /\ healthy # {}
      BY <3>1
    <3> HIDE DEF healthy
    <3> QED
      BY <1>0, <3>2, ForemostIs
  <2>3. \A o \in DOMAIN tiers : o = q => tiers[o].available
    BY <1>0, <2>2 DEF IsHealthy
  <2> HIDE DEF healthy
  <2>4. PICK stage, todo :
          call' = [call EXCEPT ![c].stage = stage, ![c].at = q, ![c].todo = todo]
    BY <1>16 DEF Enter, healthy
  <2> HIDE DEF q
  <2> DEFINE f == [call[c] EXCEPT !.stage = stage, !.at = q, !.todo = todo]
  <2>5. call' = [call EXCEPT ![c] = f] /\ f.at = q
    BY <1>0, <2>4 DEF Call
  <2> HIDE DEF f
  <2>6. \A o \in DOMAIN tiers : Spares(c, o)
    <3>1. call'[c].at = q
      BY <1>0, <2>5
    <3> QED
      BY <2>1, <2>3, <3>1 DEF Spares, On, Failed
  <2> QED
    BY <1>6, <2>1, <2>5, <2>6
<1>17. ASSUME NEW c \in Callers, Fail(c) PROVE TiersLeftAlone'
  <2>0. PICK q : q = call[c].at
    OBVIOUS
  <2> DEFINE n == FailuresOf(q)
             stage == IF n >= DisableAt THEN "disabling" ELSE "next"
             at == IF n >= DisableAt THEN q ELSE 0
             f == [call[c] EXCEPT !.stage = stage, !.at = at]
  <2>1. /\ call[c].stage = "calling" /\ q # 0 /\ tiers' = [tiers EXCEPT ![q].errors = n]
        /\ call' = [call EXCEPT ![c].stage = stage, ![c].at = at] /\ probe' = probe
    BY <1>0, <1>17, <2>0 DEF Fail, MayFail, Outside
  <2>2. q \in DOMAIN tiers /\ tiers[q] \in CognitionTier
    BY <1>0, <2>0, <2>1 DEF FrameIsSound
  <2>3. n \in Nat /\ n <= tiers[q].errors + 1
    <3>1. tiers[q].errors \in 0..MaxErrors /\ MaxErrors \in Nat
      BY <2>2, LadderType DEF CognitionTier
    <3> QED
      BY <3>1 DEF FailuresOf
  <2>4. call' = [call EXCEPT ![c] = f] /\ f.stage = stage /\ f.at = at
    <3> HIDE DEF stage, at
    <3> QED
      BY <1>0, <2>1 DEF Call
  <2>5. call'[c].stage = stage /\ call'[c].at = at
    <3> HIDE DEF f, stage, at
    <3> QED
      BY <1>0, <2>4
  <2>6. n >= DisableAt \/ n < DisableAt
    BY <2>3, CoreConstants
  <2> HIDE DEF n, f
  <2>7. /\ DOMAIN tiers' = DOMAIN tiers /\ \A o \in DOMAIN tiers \ {q} : tiers'[o] = tiers[o]
        /\ tiers'[q].errors = n /\ tiers'[q].available = tiers[q].available
    BY <2>1, <2>2 DEF CognitionTier
  <2>8. ASSUME NEW o \in DOMAIN tiers, o # q PROVE Spares(c, o)
    <3>1. c \notin On(Failed, o) /\ c \notin On(Flying, o)'
      BY <2>0, <2>1, <2>5, <2>8 DEF On, Flying, Failed
    <3> QED
      BY <2>7, <2>8, <3>1 DEF Spares
  <2>9. Counts(c, q)
    <3>1. c \in On(Flying, q) /\ c \notin On(Flying, q)'
      BY <2>0, <2>1, <2>5 DEF On, Flying
    <3>2. n >= DisableAt => c \in On(Failed, q)'
      BY <2>5 DEF On, Failed
    <3> QED
      BY <2>3, <2>6, <2>7, <3>1, <3>2 DEF Counts
  <2> QED
    BY <1>6, <2>1, <2>4, <2>7, <2>8, <2>9
<1>18. ASSUME NEW c \in Callers, Disable(c) PROVE TiersLeftAlone'
  <2> DEFINE q == call[c].at
             f == [call[c] EXCEPT !.stage = "next", !.at = 0]
  <2>1. /\ call[c].stage = "disabling" /\ tiers' = [tiers EXCEPT ![q].available = FALSE]
        /\ call' = [call EXCEPT ![c].stage = "next", ![c].at = 0] /\ probe' = probe
    BY <1>18 DEF Disable, Outside
  <2>2. q \in DOMAIN tiers /\ tiers[q] \in CognitionTier
    BY <1>0, <2>1 DEF FrameIsSound
  <2>3. call' = [call EXCEPT ![c] = f] /\ f.stage = "next"
    BY <1>0, <2>1 DEF Call
  <2> HIDE DEF f
  <2>4. call'[c].stage = "next"
    BY <1>0, <2>3
  <2>5. /\ DOMAIN tiers' = DOMAIN tiers /\ \A o \in DOMAIN tiers \ {q} : tiers'[o] = tiers[o]
        /\ tiers'[q].errors = tiers[q].errors /\ ~tiers'[q].available
    BY <2>1, <2>2 DEF CognitionTier
  <2>6. ASSUME NEW o \in DOMAIN tiers, o # q PROVE Spares(c, o)
    BY <2>1, <2>4, <2>5, <2>6 DEF Spares, On, Flying, Failed
  <2>7. ASSUME NEW o \in DOMAIN tiers, o = q PROVE Disables(c, o)
    BY <2>4, <2>5, <2>7 DEF Disables, On, Flying
  <2> QED
    BY <1>6, <2>1, <2>3, <2>5, <2>6, <2>7
<1>19. ASSUME NEW t \in Backends, RemoveTier(t) PROVE TiersLeftAlone'
  BY <1>3, <1>19 DEF RemoveTier
<1>20. ASSUME NEW t \in Checked, Flip(t) PROVE TiersLeftAlone'
  BY <1>3, <1>20 DEF Flip
<1>21. ASSUME UNCHANGED vars PROVE TiersLeftAlone'
  BY <1>3, <1>21 DEF vars
<1>22. ASSUME NEW c \in Callers, Announce(c) PROVE TiersLeftAlone'
  <2> DEFINE t == NameOf(call[c].at)
             f == [call[c] EXCEPT !.stage = "calling", !.prev = t, !.told = TRUE]
  <2>1. /\ call[c].stage = "switching" /\ tiers' = tiers /\ probe' = probe
        /\ call' = [call EXCEPT ![c].stage = "calling", ![c].prev = t, ![c].told = TRUE]
    BY <1>22 DEF Announce, Outside
  <2> HIDE DEF t
  <2>2. call' = [call EXCEPT ![c] = f] /\ f.stage = "calling" /\ f.at = call[c].at
    BY <1>0, <2>1 DEF Call
  <2> HIDE DEF f
  <2>3. call'[c].stage = "calling" /\ call'[c].at = call[c].at
    BY <1>0, <2>2
  <2>4. \A o \in DOMAIN tiers : Spares(c, o)
    BY <2>1, <2>3 DEF Spares, On, Flying, Failed
  <2> QED
    BY <1>6, <2>1, <2>2, <2>4
<1> QED
  BY <1>4, <1>5, <1>9, <1>10, <1>11, <1>12, <1>13, <1>14, <1>15, <1>16, <1>17, <1>18,
     <1>19, <1>20, <1>21, <1>22 DEF Next, Proceed, WaitForLock

(* What is known of the tiers is so, for any callers: the world model      *)
(* names the tier of the last switch, and a tier that never answers fails  *)
(* less than twice per caller past the limit, whatever callers count while *)
(* a pass of the recovery thread revives it.                               *)
THEOREM TiersTracked == Spec => []TiersAreTracked
<1>1. Init => TiersLeftAlone /\ WorldFollowsCore
  BY DEF Init, LayerInit, TiersLeftAlone, WorldFollowsCore
<1>2. FramesInv /\ TiersLeftAlone /\ [Next]_vars => TiersLeftAlone'
  BY LeftAloneStep
<1>3. WorldFollowsCore /\ [Next]_vars => WorldFollowsCore'
  <2> SUFFICES ASSUME WorldFollowsCore, [Next]_vars PROVE WorldFollowsCore'
    OBVIOUS
  <2>1. ASSUME NEW from, NEW to, Switch(from, to) PROVE WorldFollowsCore'
    <3>1. world'.tier = to /\ active' = to
      BY <2>1 DEF Switch, OnTierChange, Degraded, Recovered, FactsOfRecovery
    <3> QED
      BY <3>1 DEF WorldFollowsCore
  <2>2. ASSUME UNCHANGED <<active, announced, layer>> PROVE WorldFollowsCore'
    BY <2>2 DEF WorldFollowsCore, layer
  <2>3. ASSUME NEW t \in Backends, AddTier(t) PROVE WorldFollowsCore'
    BY <2>3 DEF AddTier, WorldFollowsCore
  <2>4. ASSUME NEW c \in Callers, Announce(c) PROVE WorldFollowsCore'
    BY <2>1, <2>4 DEF Announce
  <2>5. ASSUME NEW c \in Callers, Conclude(c) PROVE WorldFollowsCore'
    BY <2>1, <2>2, <2>5 DEF Conclude
  <2>6. ASSUME Probe PROVE WorldFollowsCore'
    BY <2>1, <2>2, <2>6 DEF Probe, BeginPass, Look, LookAt, Revive, CheckHealth, DisableAgain
  <2>7. ASSUME NEW c \in Callers, BeginStream(c) \/ Start(c) \/ Enter(c) \/ Chunk(c) \/ Abandon(c)
                                  \/ LastEvent(c) \/ RunOut(c) \/ Fail(c) \/ Disable(c) \/ Generated(c)
        PROVE  WorldFollowsCore'
    BY <2>2, <2>7 DEF BeginStream, Start, Enter, Chunk, Abandon, LastEvent, RunOut, Fail, Disable, Generated
  <2>8. ASSUME NEW t \in Backends, RemoveTier(t) PROVE WorldFollowsCore'
    BY <2>2, <2>8 DEF RemoveTier
  <2>9. ASSUME NEW t \in Checked, Flip(t) PROVE WorldFollowsCore'
    BY <2>2, <2>9 DEF Flip
  <2>10. ASSUME UNCHANGED vars PROVE WorldFollowsCore'
    BY <2>2, <2>10 DEF vars
  <2> QED
    BY <2>3, <2>4, <2>5, <2>6, <2>7, <2>8, <2>9, <2>10 DEF Next, Proceed, WaitForLock
<1>4. FramesInv /\ TiersLeftAlone => DeadTierLeftAlone
  <2> SUFFICES ASSUME FramesInv, TiersLeftAlone, NEW o \in DOMAIN tiers
               PROVE  tiers[o].errors < GiveUpAt + 2 * Cardinality(Callers)
    BY DEF DeadTierLeftAlone
  <2>1. PICK e \in Nat : e = tiers[o].errors
    BY NamesAreTiers, LadderType DEF FramesInv, CognitionTier
  <2>2. PICK k \in Nat : k = Cardinality(On(Flying, o))
    BY OnAreCallers
  <2>3. PICK d \in Nat : d = Cardinality(On(Failed, o))
    BY OnAreCallers
  <2>4. PICK n \in Nat : n = Cardinality(Callers)
    BY LadderType
  <2>5. k + d <= n
    BY <2>2, <2>3, <2>4, OnAreCallers
  <2>6. PICK a \in Nat : a = Allowance(o) /\ a <= GiveUpAt + n
    BY <2>4, AllowanceIs
  <2>7. e + 1 <= a + d \/ e + 1 + k <= a + n
    BY <2>1, <2>2, <2>3, <2>4, <2>6 DEF TiersLeftAlone, IsLeftAlone
  <2>8. e < GiveUpAt + 2 * n
    BY <2>5, <2>6, <2>7, LadderType
  <2> QED
    BY <2>1, <2>4, <2>8
<1> QED
  BY <1>1, <1>2, <1>3, <1>4, FramesAlways, PTL DEF Spec, TiersAreTracked

-----------------------------------------------------------------------------
(***************************************************************************)
(* The streaming session: three strengthenings of its type invariant.      *)
(***************************************************************************)

LEMMA StreamTypeOKInit == StreamInit => StreamTypeOK
<1> SUFFICES ASSUME StreamInit PROVE StreamTypeOK
  OBVIOUS
<1>0. 0 \in 0..MaxChunks /\ 0 \in 0..MaxInjects /\ 0 \in 0..MaxRedirects /\ 0 \in 0..MaxPauses
  BY SessionConstants
<1>1. gen \in Generator
  BY <1>0 DEF StreamInit, Generator, Running
<1>2. ops \in Operators
  BY <1>0 DEF StreamInit, Operators
<1>3. /\ gen.surfaced <= ops.injected /\ ops.logged <= ops.injected
      /\ gen.served <= ops.redirected
  BY DEF StreamInit
<1>4. since \in [stop : Nat, pause : Nat] /\ stop \in BOOLEAN /\ paused \in BOOLEAN
      /\ receipt \in Receipt \cup {NoReceipt}
  BY DEF StreamInit
<1> QED
  BY <1>1, <1>2, <1>3, <1>4 DEF StreamTypeOK

(* StreamTypeOK is inductive: one case for each action.                          *)
LEMMA StreamTypeOKStep == StreamTypeOK /\ [StreamNext]_streamVars => StreamTypeOK'
<1> SUFFICES ASSUME StreamTypeOK, [StreamNext]_streamVars PROVE StreamTypeOK'
  OBVIOUS
<1>0. /\ gen \in Generator /\ ops \in Operators
      /\ gen.chunks \in Nat /\ gen.surfaced \in Nat /\ gen.served \in Nat
      /\ gen.pulled \in Nat /\ gen.emitted \in Nat
      /\ ops.injected \in Nat /\ ops.redirected \in Nat /\ ops.logged \in Nat
  BY SessionConstants DEF StreamTypeOK, Generator, Operators
<1>1. CASE OpenStream
  <2>0. 0 \in 0..MaxChunks
    BY <1>0, <1>1, SessionConstants DEF OpenStream, StreamTypeOK, Generator, Operators
  <2>1. gen' \in Generator
    BY <2>0, <1>1 DEF OpenStream, StreamTypeOK, Generator, Running
  <2>2. gen'.surfaced <= ops.injected /\ gen'.served <= ops.redirected
    BY <1>0, <1>1 DEF OpenStream, StreamTypeOK, Generator
  <2>3. stop' \in BOOLEAN /\ since' \in [stop : Nat, pause : Nat] /\ UNCHANGED <<ops, paused, receipt>>
    BY <1>1 DEF OpenStream, StreamTypeOK, outside
  <2> QED
    BY <2>1, <2>2, <2>3 DEF StreamTypeOK
<1>2. CASE Pull
  <2>0. gen.chunks + 1 \in 0..MaxChunks /\ gen.pulled + 1 \in Nat
    BY <1>0, <1>2, SessionConstants DEF Pull, StreamTypeOK, Generator, Operators
  <2>1. gen' \in Generator
    BY <2>0, <1>2 DEF Pull, StreamTypeOK, Generator, Running
  <2>2. gen'.surfaced <= ops.injected /\ gen'.served <= ops.redirected
    BY <1>0, <1>2 DEF Pull, StreamTypeOK, Generator
  <2>3. stop' \in BOOLEAN /\ since' \in [stop : Nat, pause : Nat] /\ UNCHANGED <<ops, paused, receipt>>
    BY <1>2 DEF Pull, StreamTypeOK, outside
  <2> QED
    BY <2>1, <2>2, <2>3 DEF StreamTypeOK
<1>3. CASE Exhausted
  BY <1>3 DEF Exhausted, outside, StreamTypeOK, Generator, Running, Final
<1>4. CASE Raise
  BY <1>4 DEF Raise, outside, StreamTypeOK, Generator, Running, Final
<1>5. CASE Gate
  BY <1>5 DEF Gate, outside, StreamTypeOK, Generator, Running, Final
<1>6. CASE CheckStop
  BY <1>6 DEF CheckStop, outside, StreamTypeOK, Generator, Running, Final
<1>7. CASE CheckRedirect
  BY <1>7 DEF CheckRedirect, outside, StreamTypeOK, Generator, Running, Final
<1>8. CASE Surface
  <2>0. gen.surfaced + 1 \in 0..MaxInjects
    BY <1>0, <1>8, SessionConstants DEF Surface, StreamTypeOK, Generator, Operators
  <2>1. gen' \in Generator
    BY <2>0, <1>8 DEF Surface, StreamTypeOK, Generator, Running
  <2>2. gen'.surfaced <= ops.injected /\ gen'.served <= ops.redirected
    BY <1>0, <1>8 DEF Surface, StreamTypeOK, Generator
  <2>3. stop' \in BOOLEAN /\ since' \in [stop : Nat, pause : Nat] /\ UNCHANGED <<ops, paused, receipt>>
    BY <1>8 DEF Surface, StreamTypeOK, outside
  <2> QED
    BY <2>1, <2>2, <2>3 DEF StreamTypeOK
<1>9. CASE Emit
  <2>0. gen.emitted + 1 \in Nat
    BY <1>0, <1>9, SessionConstants DEF Emit, StreamTypeOK, Generator, Operators
  <2>1. gen' \in Generator
    BY <2>0, <1>9 DEF Emit, StreamTypeOK, Generator, Running
  <2>2. gen'.surfaced <= ops.injected /\ gen'.served <= ops.redirected
    BY <1>0, <1>9 DEF Emit, StreamTypeOK, Generator
  <2>3. stop' \in BOOLEAN /\ since' \in [stop : Nat, pause : Nat] /\ UNCHANGED <<ops, paused, receipt>>
    BY <1>9 DEF Emit, StreamTypeOK, outside
  <2> QED
    BY <2>1, <2>2, <2>3 DEF StreamTypeOK
<1>10. CASE Serve
  <2>0. gen.served + 1 \in 0..MaxRedirects
    BY <1>0, <1>10, SessionConstants DEF Serve, StreamTypeOK, Generator, Operators
  <2>1. gen' \in Generator
    BY <2>0, <1>10 DEF Serve, StreamTypeOK, Generator, Running
  <2>2. gen'.surfaced <= ops.injected /\ gen'.served <= ops.redirected
    BY <1>0, <1>10 DEF Serve, StreamTypeOK, Generator
  <2>3. stop' \in BOOLEAN /\ since' \in [stop : Nat, pause : Nat] /\ UNCHANGED <<ops, paused, receipt>>
    BY <1>10 DEF Serve, StreamTypeOK, outside
  <2> QED
    BY <2>1, <2>2, <2>3 DEF StreamTypeOK
<1>11. CASE ClearStop
  <2>1. gen' \in Generator
    BY <1>11 DEF ClearStop, StreamTypeOK, Generator, Running
  <2>2. gen'.surfaced <= ops.injected /\ gen'.served <= ops.redirected
    BY <1>0, <1>11 DEF ClearStop, StreamTypeOK, Generator
  <2>3. stop' \in BOOLEAN /\ since' \in [stop : Nat, pause : Nat] /\ UNCHANGED <<ops, paused, receipt>>
    BY <1>11 DEF ClearStop, StreamTypeOK, outside
  <2> QED
    BY <2>1, <2>2, <2>3 DEF StreamTypeOK
<1>12. CASE Leave
  BY <1>12 DEF Leave, outside, StreamTypeOK, Generator, Running, Final
<1>13. CASE ReadStop
  BY <1>13 DEF ReadStop, outside, StreamTypeOK, Generator, Running, Final
<1>14. CASE Publish
  <2>1. receipt' \in Receipt
    BY <1>0, <1>14 DEF Publish, Receipt, Generator, StreamTypeOK
  <2> QED
    BY <2>1, <1>14 DEF Publish, outside, StreamTypeOK, Generator, Final
<1>15. CASE Iterate
  BY <1>15 DEF Iterate, outside, StreamTypeOK, Generator, Running
<1>16. CASE AbandonStream
  BY <1>16 DEF AbandonStream, outside, StreamTypeOK, Generator, Final
<1>17. CASE Operate
  <2>1. CASE Inject
    <3>1. ops.injected + 1 \in 0..MaxInjects
      BY <1>0, <2>1, SessionConstants DEF Inject, Operators
    <3>2. ops' \in Operators /\ ops'.injected = ops.injected + 1
          /\ ops'.logged = ops.logged /\ ops'.redirected = ops.redirected
      BY <2>1, <3>1 DEF Inject, StreamTypeOK, Operators
    <3> QED
      BY <1>0, <2>1, <3>2 DEF Inject, StreamTypeOK
  <2>2. CASE LogInjection
    <3>1. ops.logged + 1 \in 0..MaxInjects /\ ops.logged + 1 <= ops.injected
      BY <1>0, <2>2, SessionConstants DEF LogInjection, Operators
    <3>2. ops' \in Operators /\ ops'.logged = ops.logged + 1
          /\ ops'.injected = ops.injected /\ ops'.redirected = ops.redirected
      BY <2>2, <3>1 DEF LogInjection, StreamTypeOK, Operators
    <3> QED
      BY <2>2, <3>1, <3>2 DEF LogInjection, StreamTypeOK
  <2>3. CASE Redirect
    <3>1. ops.redirected + 1 \in 0..MaxRedirects
      BY <1>0, <2>3, SessionConstants DEF Redirect, Operators
    <3>2. ops' \in Operators /\ ops'.redirected = ops.redirected + 1
          /\ ops'.injected = ops.injected /\ ops'.logged = ops.logged
      BY <2>3, <3>1 DEF Redirect, StreamTypeOK, Operators
    <3> QED
      BY <1>0, <2>3, <3>2 DEF Redirect, StreamTypeOK
  <2>4. CASE Interrupt
    BY <2>4 DEF Interrupt, StreamTypeOK, Operators
  <2>5. CASE Close
    BY <2>5 DEF Close, StreamTypeOK, Operators
  <2>6. CASE Displace
    BY <2>6 DEF Displace, StreamTypeOK, Operators
  <2>7. CASE Pause
    <3>1. ops.pauses + 1 \in 0..MaxPauses
      BY <2>7, SessionConstants DEF Pause, StreamTypeOK, Operators
    <3>2. ops' \in Operators /\ ops'.injected = ops.injected
          /\ ops'.logged = ops.logged /\ ops'.redirected = ops.redirected
      BY <2>7, <3>1 DEF Pause, StreamTypeOK, Operators
    <3>3. since' \in [stop : Nat, pause : Nat]
      BY <2>7 DEF Pause, StreamTypeOK
    <3> QED
      BY <2>7, <3>2, <3>3 DEF Pause, StreamTypeOK
  <2>8. CASE Resume
    BY <2>8 DEF Resume, StreamTypeOK
  <2> QED
    BY <1>17, <2>1, <2>2, <2>3, <2>4, <2>5, <2>6, <2>7, <2>8 DEF Operate
<1>18. CASE UNCHANGED streamVars
  BY <1>18 DEF streamVars, StreamTypeOK
<1> QED
  BY <1>1, <1>2, <1>3, <1>4, <1>5, <1>6, <1>7, <1>8, <1>9, <1>10, <1>11, <1>12, <1>13,
     <1>14, <1>15, <1>16, <1>17, <1>18 DEF StreamNext, Generate

(* The bounds, counters and records are well formed; no injection or       *)
(* redirect is taken that was not put.                                     *)
THEOREM StreamTypeCorrect == StreamSpec => []StreamTypeOK
BY StreamTypeOKInit, StreamTypeOKStep, PTL DEF StreamSpec

-----------------------------------------------------------------------------
(***************************************************************************)
(* Promptness.  One chunk can be past a check when the operator acts; once *)
(* it was yielded, the checks stand in the way of the next.                *)
(***************************************************************************)
PromptInv ==
    /\ StopIsPrompt /\ PauseIsPrompt
    /\ since.stop = 1 => stop /\ gen.stage \notin {"redirect_check", "inject_check"}
    /\ since.pause = 1 /\ paused
          => gen.stage \notin {"stop_check", "redirect_check", "inject_check"}

LEMMA PromptStep == StreamTypeOK /\ PromptInv /\ [StreamNext]_streamVars => PromptInv'
<1> SUFFICES ASSUME StreamTypeOK, PromptInv, [StreamNext]_streamVars PROVE PromptInv'
  OBVIOUS
<1>0. /\ gen \in Generator /\ ops \in Operators /\ since \in [stop : Nat, pause : Nat]
      /\ stop \in BOOLEAN /\ paused \in BOOLEAN
  BY DEF StreamTypeOK
<1> USE <1>0 DEF PromptInv, StopIsPrompt, PauseIsPrompt, Generator, outside
<1>1. CASE OpenStream \/ Pull \/ Exhausted \/ Raise
  <2>1. CASE OpenStream
    BY <2>1 DEF OpenStream
  <2>2. CASE Pull
    BY <2>2 DEF Pull
  <2>3. CASE Exhausted
    BY <2>3 DEF Exhausted
  <2>4. CASE Raise
    BY <2>4 DEF Raise
  <2> QED
    BY <1>1, <2>1, <2>2, <2>3, <2>4
<1>2. CASE Gate \/ CheckStop
  <2>1. CASE Gate
    BY <2>1 DEF Gate
  <2>2. CASE CheckStop
    BY <2>2 DEF CheckStop
  <2> QED
    BY <1>2, <2>1, <2>2
<1>3. CASE CheckRedirect \/ Surface
  BY <1>3 DEF CheckRedirect, Surface
<1>4. CASE Emit
  <2>1. since.stop = 0
    BY <1>4 DEF Emit
  <2>2. paused => since.pause = 0
    BY <1>4 DEF Emit
  <2>3. gen'.stage = "suspended"
    BY <1>4 DEF Emit
  <2>4. since'.stop \in {0, 1} /\ since'.pause \in {0, 1}
    BY <1>4, <2>1, <2>2 DEF Emit
  <2>5. since'.stop = 1 => stop'
    BY <1>4, <2>1 DEF Emit
  <2> QED
    BY <2>3, <2>4, <2>5
<1>5. CASE Serve \/ ClearStop \/ Leave \/ ReadStop \/ Publish
  <2>1. CASE Serve
    BY <2>1 DEF Serve
  <2>2. CASE ClearStop
    BY <2>2 DEF ClearStop
  <2>3. CASE Leave
    BY <2>3 DEF Leave
  <2>4. CASE ReadStop
    BY <2>4 DEF ReadStop
  <2>5. CASE Publish
    BY <2>5 DEF Publish
  <2> QED
    BY <1>5, <2>1, <2>2, <2>3, <2>4, <2>5
<1>6. CASE Iterate \/ AbandonStream
  <2>1. CASE Iterate
    BY <2>1 DEF Iterate
  <2>2. CASE AbandonStream
    BY <2>2 DEF AbandonStream
  <2> QED
    BY <1>6, <2>1, <2>2
<1>7. CASE Operate
  <2>1. CASE Inject
    BY <2>1 DEF Inject
  <2>2. CASE LogInjection
    BY <2>2 DEF LogInjection
  <2>3. CASE Redirect
    BY <2>3 DEF Redirect
  <2>4. CASE Interrupt
    BY <2>4 DEF Interrupt
  <2>5. CASE Close
    BY <2>5 DEF Close
  <2>6. CASE Displace
    BY <2>6 DEF Displace
  <2>7. CASE Pause
    BY <2>7 DEF Pause
  <2>8. CASE Resume
    BY <2>8 DEF Resume
  <2> QED
    BY <1>7, <2>1, <2>2, <2>3, <2>4, <2>5, <2>6, <2>7, <2>8 DEF Operate
<1>8. CASE UNCHANGED streamVars
  BY <1>8 DEF streamVars
<1> QED
  BY <1>1, <1>2, <1>3, <1>4, <1>5, <1>6, <1>7, <1>8 DEF StreamNext, Generate

LEMMA PromptAlways == StreamSpec => []PromptInv
<1>1. StreamInit => PromptInv
  BY DEF StreamInit, PromptInv, StopIsPrompt, PauseIsPrompt
<1> QED
  BY <1>1, StreamTypeCorrect, PromptStep, PTL DEF StreamSpec

(* After interrupt() at most one more chunk reaches the consumer while the *)
(* stop stands.                                                            *)
THEOREM StopPrompt == StreamSpec => []StopIsPrompt
<1>1. PromptInv => StopIsPrompt
  BY DEF PromptInv
<1> QED
  BY <1>1, PromptAlways, PTL

(* After pause() at most one more chunk reaches the consumer until         *)
(* resume().                                                               *)
THEOREM PausePrompt == StreamSpec => []PauseIsPrompt
<1>1. PromptInv => PauseIsPrompt
  BY DEF PromptInv
<1> QED
  BY <1>1, PromptAlways, PTL

-----------------------------------------------------------------------------
(***************************************************************************)
(* The receipt.  Why the last generation ended is still visible when the   *)
(* receipt is made: a stop is only cleared on the way to another           *)
(* generation, and a redirect that cut one short is still queued.          *)
(***************************************************************************)
Leaving == gen.stage \in {"outer", "closing", "publishing", "ended"}
           \/ (gen.stage = "suspended" /\ gen.resumeAt = "outer")

HonestInv ==
    /\ Leaving => gen.cause # "none"
    /\ Leaving /\ gen.cause = "stop" => stop \/ receipt # NoReceipt
    /\ gen.cause = "redirect" /\ gen.stage = "outer" => ops.redirected > gen.served
    /\ gen.stage \in {"closing", "publishing", "ended"} => gen.cause # "redirect"
    /\ Leaving /\ gen.stage = "suspended" => gen.cause # "redirect"
    /\ gen.stage = "publishing" /\ gen.sawStop => stop
    /\ receipt # NoReceipt => gen.stage = "ended"
    /\ ReceiptIsHonest

LEMMA HonestStep == StreamTypeOK /\ HonestInv /\ [StreamNext]_streamVars => HonestInv'
<1> SUFFICES ASSUME StreamTypeOK, HonestInv, [StreamNext]_streamVars PROVE HonestInv'
  OBVIOUS
<1>0. gen \in Generator /\ ops \in Operators /\ stop \in BOOLEAN
  BY DEF StreamTypeOK
<1> USE <1>0 DEF HonestInv, ReceiptIsHonest, Leaving, Generator, Operators, outside
<1>1. CASE OpenStream \/ Pull \/ Exhausted \/ Raise
  BY <1>1 DEF OpenStream, Pull, Exhausted, Raise
<1>2. CASE Gate \/ CheckStop
  BY <1>2 DEF Gate, CheckStop
<1>3. CASE CheckRedirect \/ Surface
  BY <1>3 DEF CheckRedirect, Surface
<1>4. CASE Emit
  BY <1>4 DEF Emit
<1>5. CASE Serve \/ ClearStop
  BY <1>5 DEF Serve, ClearStop
<1>6. CASE Leave \/ ReadStop
  <2>1. CASE Leave
    BY <2>1 DEF Leave
  <2>2. CASE ReadStop
    BY <2>2 DEF ReadStop
  <2> QED
    BY <1>6, <2>1, <2>2
<1>7. CASE Publish
  BY <1>7 DEF Publish
<1>8. CASE Iterate \/ AbandonStream
  <2>1. CASE Iterate
    BY <2>1 DEF Iterate
  <2>2. CASE AbandonStream
    BY <2>2 DEF AbandonStream
  <2> QED
    BY <1>8, <2>1, <2>2
<1>9. CASE Operate
  <2>1. CASE Inject
    BY <2>1 DEF Inject
  <2>2. CASE LogInjection
    BY <2>2 DEF LogInjection
  <2>3. CASE Redirect
    BY <2>3 DEF Redirect
  <2>4. CASE Interrupt
    BY <2>4 DEF Interrupt
  <2>5. CASE Close
    BY <2>5 DEF Close
  <2>6. CASE Displace
    BY <2>6 DEF Displace
  <2>7. CASE Pause
    BY <2>7 DEF Pause
  <2>8. CASE Resume
    BY <2>8 DEF Resume
  <2> QED
    BY <1>9, <2>1, <2>2, <2>3, <2>4, <2>5, <2>6, <2>7, <2>8 DEF Operate
<1>10. CASE UNCHANGED streamVars
  BY <1>10 DEF streamVars
<1> QED
  BY <1>1, <1>2, <1>3, <1>4, <1>5, <1>6, <1>7, <1>8, <1>9, <1>10 DEF StreamNext, Generate

LEMMA HonestAlways == StreamSpec => []HonestInv
<1>1. StreamInit => HonestInv
  BY DEF StreamInit, HonestInv, ReceiptIsHonest, Leaving
<1> QED
  BY <1>1, StreamTypeCorrect, HonestStep, PTL DEF StreamSpec

(* A receipt never reports a cut-off answer as complete, and its two       *)
(* accounts of an interrupt agree.                                         *)
THEOREM ReceiptHonest == StreamSpec => []ReceiptIsHonest
<1>1. HonestInv => ReceiptIsHonest
  BY DEF HonestInv
<1> QED
  BY <1>1, HonestAlways, PTL
-----------------------------------------------------------------------------
(***************************************************************************)
(* The chunks.  Between two chunks everything pulled was yielded or thrown *)
(* away: one for each injection, one for each redirect and one for the     *)
(* stop or redirect that is ending the generation.                         *)
(***************************************************************************)
InHand == IF gen.stage \in {"gate", "stop_check", "redirect_check", "inject_check"} THEN 1 ELSE 0
Cut == IF gen.cause \in {"stop", "redirect"} /\ (Leaving \/ gen.stage = "abandoned")
       THEN 1 ELSE 0

AccountInv ==
    /\ gen.emitted + gen.surfaced + InHand <= gen.pulled
    /\ gen.pulled <= gen.emitted + gen.surfaced + gen.served + InHand + Cut

LEMMA AccountStep == StreamTypeOK /\ AccountInv /\ [StreamNext]_streamVars => AccountInv'
<1> SUFFICES ASSUME StreamTypeOK, AccountInv, [StreamNext]_streamVars PROVE AccountInv'
  OBVIOUS
<1>0. /\ gen \in Generator
      /\ gen.surfaced \in Nat /\ gen.served \in Nat
      /\ gen.pulled \in Nat /\ gen.emitted \in Nat
  BY SessionConstants DEF StreamTypeOK, Generator
<1> USE <1>0 DEF AccountInv, InHand, Cut, Leaving, Generator
<1>1. CASE OpenStream
  BY <1>1 DEF OpenStream
<1>2. CASE Pull
  BY <1>2 DEF Pull
<1>3. CASE Exhausted
  BY <1>3 DEF Exhausted
<1>4. CASE Raise
  BY <1>4 DEF Raise
<1>5. CASE Gate
  BY <1>5 DEF Gate
<1>6. CASE CheckStop
  BY <1>6 DEF CheckStop
<1>7. CASE CheckRedirect
  BY <1>7 DEF CheckRedirect
<1>8. CASE Surface
  BY <1>8 DEF Surface
<1>9. CASE Emit
  BY <1>9 DEF Emit
<1>10. CASE Serve
  BY <1>10 DEF Serve
<1>11. CASE ClearStop
  BY <1>11 DEF ClearStop
<1>12. CASE Leave
  BY <1>12 DEF Leave
<1>13. CASE ReadStop
  BY <1>13 DEF ReadStop
<1>14. CASE Publish
  BY <1>14 DEF Publish
<1>15. CASE Iterate
  BY <1>15 DEF Iterate
<1>16. CASE AbandonStream
  BY <1>16 DEF AbandonStream
<1>17. CASE UNCHANGED gen
  BY <1>17
<1>18. Operate => UNCHANGED gen
  BY DEF Operate, Inject, LogInjection, Redirect, Interrupt, Close, Displace, Pause, Resume
<1> QED
  BY <1>1, <1>2, <1>3, <1>4, <1>5, <1>6, <1>7, <1>8, <1>9, <1>10, <1>11, <1>12, <1>13, <1>14, <1>15,
     <1>16, <1>17, <1>18 DEF StreamNext, Generate, streamVars

(* No chunk of the core is lost but to a control event: as many as there   *)
(* were injections, and at most one more for each redirect and for the     *)
(* interrupt that ended the session.                                       *)
THEOREM ChunksAccounted == StreamSpec => []ChunksAreAccounted
<1>1. StreamInit => AccountInv
  BY DEF StreamInit, AccountInv, InHand, Cut, Leaving
<1>2. StreamTypeOK /\ HonestInv /\ AccountInv => ChunksAreAccounted
  <2> SUFFICES ASSUME StreamTypeOK, HonestInv, AccountInv, receipt # NoReceipt
               PROVE  LET stopped == IF gen.cause = "stop" THEN 1 ELSE 0
                      IN gen.pulled - gen.emitted
                           \in gen.surfaced .. (gen.surfaced + gen.served + stopped)
    BY DEF ChunksAreAccounted
  <2>1. gen.stage = "ended" /\ gen.cause # "redirect"
    BY DEF HonestInv
  <2>2. InHand = 0 /\ Cut = (IF gen.cause = "stop" THEN 1 ELSE 0)
    BY <2>1 DEF InHand, Cut, Leaving
  <2>3. /\ gen.surfaced \in Nat /\ gen.served \in Nat
        /\ gen.pulled \in Nat /\ gen.emitted \in Nat
    BY SessionConstants DEF StreamTypeOK, Generator
  <2> QED
    BY <2>2, <2>3 DEF AccountInv
<1> QED
  BY <1>1, <1>2, StreamTypeCorrect, HonestAlways, AccountStep, PTL DEF StreamSpec

(* interrupt() and pause() are both prompt.                                *)
THEOREM ControlPrompt == StreamSpec => []ControlIsPrompt
BY StopPrompt, PausePrompt, PTL DEF ControlIsPrompt

(* The receipt is true and every chunk is accounted for.                   *)
THEOREM ReceiptsExact == StreamSpec => []ReceiptsAreExact
BY ChunksAccounted, ReceiptHonest, PTL DEF ReceiptsAreExact
=============================================================================
