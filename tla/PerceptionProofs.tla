------------------------- MODULE PerceptionProofs -------------------------
(***************************************************************************)
(* Theorems about the perception loop, for any sensors and alerts, any     *)
(* limit of the breaker and any length of the deduplication window, and    *)
(* about the voice bridge.                                                 *)
(***************************************************************************)
EXTENDS PerceptionLoop, PersonaPlex, FiniteSetTheorems, SequenceTheorems, TLAPS

(* A count of failures saturates at the breaker's limit.                   *)
LEMMA MoreIs ==
    ASSUME NEW n \in Counts
    PROVE  More(n) = IF n + 1 >= MaxErrors THEN MaxErrors ELSE n + 1
<1> USE PerceptionConstants
<1> DEFINE m == IF n + 1 >= MaxErrors THEN MaxErrors ELSE n + 1
<1>1. n \in Nat /\ m \in {n + 1, MaxErrors} /\ \A y \in {n + 1, MaxErrors} : m <= y
  BY DEF Counts
<1>2. \A x \in {n + 1, MaxErrors} : (\A y \in {n + 1, MaxErrors} : x <= y) => x = m
  BY <1>1
<1> HIDE DEF m
<1>3. More(n) = m
  BY <1>1, <1>2 DEF More, Min
<1> QED
  BY <1>3 DEF m

(* A new object is enabled or not, has no errors, and no one has touched it. *)
LEMMA NewSlot == /\ NoSlot \in SensorSlot /\ NoSlot.last = "caller"
                 /\ NoSlot.errors = NoSlot.streak
BY PerceptionConstants DEF NoSlot, SensorSlot, Counts

Slid(window, raised) ==
    LET longer == Append(window, raised)
    IN  IF Len(longer) > Window THEN Tail(longer) ELSE longer

(* What the window holds after a cycle was in it before or is of the cycle. *)
LEMMA WindowMoves ==
    ASSUME NEW S, NEW window \in Seq(SUBSET S), Len(window) <= Window, NEW raised \in SUBSET S
    PROVE  /\ Slid(window, raised) \in Seq(SUBSET S) /\ Len(Slid(window, raised)) <= Window
           /\ UNION Range(Slid(window, raised)) \subseteq (UNION Range(window)) \cup raised
<1> USE PerceptionConstants
<1> DEFINE longer == Append(window, raised)
<1>1. /\ longer \in Seq(SUBSET S) /\ Len(longer) = Len(window) + 1 /\ longer # <<>>
      /\ Len(window) \in Nat /\ DOMAIN longer = 1..(Len(window) + 1)
      /\ \A i \in 1..Len(window) : longer[i] = window[i]
      /\ longer[Len(window) + 1] = raised
  BY AppendProperties, LenProperties, EmptySeq
<1>2. Range(longer) \subseteq Range(window) \cup {raised}
  BY <1>1, LenProperties DEF Range
<1>3. /\ Tail(longer) \in Seq(SUBSET S) /\ Len(Tail(longer)) = Len(window)
      /\ Range(Tail(longer)) \subseteq Range(longer)
  <2> HIDE DEF longer
  <2>1. /\ Tail(longer) \in Seq(SUBSET S) /\ Len(Tail(longer)) = Len(longer) - 1
        /\ \A i \in 1..Len(Tail(longer)) : Tail(longer)[i] = longer[i + 1]
    BY <1>1, HeadTailProperties
  <2>2. \A i \in 1..Len(Tail(longer)) : i + 1 \in DOMAIN longer
    BY <1>1, <2>1
  <2> QED
    BY <1>1, <2>1, <2>2, LenProperties DEF Range
<1>4. CASE Len(longer) > Window
  BY <1>1, <1>2, <1>3, <1>4 DEF Slid
<1>5. CASE ~(Len(longer) > Window)
  BY <1>1, <1>2, <1>5 DEF Slid
<1> QED
  BY <1>4, <1>5
-----------------------------------------------------------------------------
(***************************************************************************)
(* The inductive invariant.  Before its fusion a tick has nothing to tell; *)
(* the error count of an object is its streak of failures; and a thread    *)
(* that lives on after stop() is either still waited for or was given up.  *)
(***************************************************************************)
TickIsStaged ==
    tick.step \in {"rest", "poll"} => tick.fresh = {}

ErrorsAreTheStreak == \A o \in Objects : slot[o].errors = slot[o].streak

StopIsWaitedFor ==
    /\ thread.alive /\ thread.stop /\ ~caller.gaveUp => caller.op = "stopping"
    /\ caller.op = "stopping" => ~caller.wants
    /\ caller.op = "ticking" => ~thread.alive

HeldAreNamed ==
    /\ \A n \in Names : slots[n] # 0 => slot[slots[n]].name \in Names
    /\ \A o \in tick.due : slot[o].name \in Names

LoopInv ==
    /\ TypeOK /\ HeldAreNamed /\ TickIsStaged /\ ErrorsAreTheStreak /\ StopIsWaitedFor
    /\ NoAlertLost /\ BreakerIsExact /\ StartedRuns

(* The steps of the table of slots leave the rest alone and the streaks    *)
(* what they were.                                                         *)
LEMMA TableKeeps ==
    ASSUME LoopInv, NEW n \in Names, Register(n) \/ Unregister(n) \/ Enable(n) \/ Disable(n)
    PROVE  LoopInv'
<1> USE PerceptionConstants DEF LoopInv
<1>0. /\ \A m \in Names : slots[m] # 0 => slots[m] \in Objects
      /\ slot \in [Objects -> SensorSlot] /\ slots \in [Names -> 0..MaxRegistrations]
  BY DEF Objects, TypeOK
<1>1. UNCHANGED <<thread, tick, recent, caller, world, told>>
  BY DEF Register, Unregister, Enable, Disable
<1>2. CASE Register(n)
  <2> DEFINE o == Cardinality(Registered) + 1
  <2>1. o \in Objects /\ slots' = [slots EXCEPT ![n] = o]
    BY <1>2 DEF Register
  <2> HIDE DEF o
  <2>2. PICK on \in BOOLEAN :
          slot' = [slot EXCEPT ![o] = [NoSlot EXCEPT !.name = n, !.enabled = on, !.ripe = TRUE]]
    BY <1>2 DEF Register, o
  <2>3. [NoSlot EXCEPT !.name = n, !.enabled = on, !.ripe = TRUE] \in SensorSlot
    BY NewSlot DEF SensorSlot
  <2>4. TypeOK'
    BY <1>0, <1>1, <2>1, <2>2, <2>3 DEF TypeOK, Objects
  <2>5. ErrorsAreTheStreak' /\ BreakerIsExact'
    BY <1>0, <2>1, <2>2, NewSlot DEF ErrorsAreTheStreak, BreakerIsExact
  <2>6. HeldAreNamed'
    BY <1>0, <1>1, <2>1, <2>2, NewSlot DEF HeldAreNamed, SensorSlot, TypeOK
  <2> QED
    BY <1>1, <2>4, <2>5, <2>6 DEF TickIsStaged, StopIsWaitedFor, NoAlertLost, StartedRuns, Past
<1>3. CASE Unregister(n)
  <2>1. TypeOK' /\ HeldAreNamed'
    BY <1>0, <1>1, <1>3 DEF Unregister, TypeOK, HeldAreNamed
  <2> QED
    BY <1>1, <1>3, <2>1 DEF Unregister, TickIsStaged, ErrorsAreTheStreak, StopIsWaitedFor, NoAlertLost,
              BreakerIsExact, StartedRuns, Past
<1>4. CASE Enable(n) \/ Disable(n)
  <2>1. PICK on \in BOOLEAN :
          slot' = [slot EXCEPT ![slots[n]] = [slot[slots[n]] EXCEPT !.enabled = on, !.last = "caller"]]
    BY <1>0, <1>4 DEF Enable, Disable
  <2>2. slots[n] \in Objects /\ UNCHANGED slots
    BY <1>0, <1>4 DEF Enable, Disable
  <2>3. slot' \in [Objects -> SensorSlot]
    BY <1>0, <2>1, <2>2 DEF SensorSlot
  <2>4. TypeOK' /\ HeldAreNamed'
    BY <1>0, <1>1, <2>1, <2>2, <2>3 DEF TypeOK, HeldAreNamed
  <2>5. ErrorsAreTheStreak' /\ BreakerIsExact'
    BY <1>0, <2>1, <2>2 DEF ErrorsAreTheStreak, BreakerIsExact
  <2> QED
    BY <1>1, <2>4, <2>5 DEF TickIsStaged, StopIsWaitedFor, NoAlertLost, StartedRuns, Past
<1> QED
  BY <1>2, <1>3, <1>4

LEMMA RipenKeeps ==
    ASSUME LoopInv, NEW o \in Objects, Ripen(o)
    PROVE  LoopInv'
<1> USE DEF LoopInv
<1>1. slot' = [slot EXCEPT ![o] = [slot[o] EXCEPT !.ripe = TRUE]] /\ slot \in [Objects -> SensorSlot]
  BY DEF Ripen, TypeOK
<1>2. slot' \in [Objects -> SensorSlot]
  BY <1>1 DEF SensorSlot
<1>3. TypeOK' /\ HeldAreNamed'
  BY <1>1, <1>2 DEF Ripen, TypeOK, HeldAreNamed
<1> QED
  BY <1>1, <1>3 DEF Ripen, TickIsStaged, ErrorsAreTheStreak, StopIsWaitedFor, NoAlertLost,
                    BreakerIsExact, StartedRuns, Past

(* The caller and the thread: which of them runs, stops and waits.         *)
LEMMA CallerKeeps ==
    ASSUME LoopInv,
           Start \/ Stop \/ StopReturns \/ LoopEnds \/ LoopTick \/ TickOnce
    PROVE  LoopInv'
<1> USE DEF LoopInv
<1>1. UNCHANGED <<slots, slot, recent, world, told>>
  BY DEF Start, Stop, StopReturns, LoopEnds, LoopTick, TickOnce
<1>2. \/ UNCHANGED tick
      \/ /\ tick.step = "rest" /\ tick' = [tick EXCEPT !.step = "poll", !.due = Due]
         /\ UNCHANGED thread
  BY DEF Start, Stop, StopReturns, LoopEnds, LoopTick, TickOnce, Collect
<1>3. Due \subseteq Objects /\ \A o \in Due : slot[o].name \in Names
  BY PerceptionConstants DEF Due, Objects, HeldAreNamed, TypeOK
<1>4. tick' \in [step : {"rest", "poll", "write", "tell"}, due : SUBSET Objects,
                 raised : SUBSET Raised, fresh : SUBSET Raised]
  BY <1>2, <1>3 DEF TypeOK
<1>5. thread' \in [alive : BOOLEAN, stop : BOOLEAN]
  <2>1. \/ UNCHANGED thread
        \/ thread' = [alive |-> TRUE, stop |-> FALSE]
        \/ thread' = [thread EXCEPT !.stop = TRUE]
        \/ thread' = [thread EXCEPT !.alive = FALSE]
    BY DEF Start, Stop, StopReturns, LoopEnds, LoopTick, TickOnce
  <2>2. thread \in [alive : BOOLEAN, stop : BOOLEAN]
    BY DEF TypeOK
  <2>3. CASE thread' = [alive |-> TRUE, stop |-> FALSE]
    BY <2>3
  <2>4. CASE thread' = [thread EXCEPT !.stop = TRUE]
    BY <2>2, <2>4
  <2>5. CASE thread' = [thread EXCEPT !.alive = FALSE]
    BY <2>2, <2>5
  <2> QED
    BY <2>1, <2>2, <2>3, <2>4, <2>5
<1>6. caller' \in [op : {"idle", "stopping", "ticking"}, wants : BOOLEAN, gaveUp : BOOLEAN]
  BY DEF TypeOK, Start, Stop, StopReturns, LoopEnds, LoopTick, TickOnce
<1>7. TypeOK'
  BY <1>1, <1>4, <1>5, <1>6 DEF TypeOK
<1>8. ErrorsAreTheStreak' /\ BreakerIsExact'
  BY <1>1 DEF ErrorsAreTheStreak, BreakerIsExact
<1>9. NoAlertLost' /\ TickIsStaged' /\ HeldAreNamed'
  BY <1>1, <1>2, <1>3 DEF NoAlertLost, TickIsStaged, HeldAreNamed, Past, TypeOK
<1>10. StopIsWaitedFor' /\ StartedRuns'
  <2> USE DEF TypeOK, StopIsWaitedFor, StartedRuns
  <2>1. CASE Start
    BY <2>1 DEF Start
  <2>2. CASE Stop
    BY <2>2 DEF Stop
  <2>3. CASE StopReturns
    BY <2>3 DEF StopReturns
  <2>4. CASE LoopEnds \/ LoopTick \/ TickOnce
    BY <2>4 DEF LoopEnds, LoopTick, TickOnce
  <2> QED
    BY <2>1, <2>2, <2>3, <2>4
<1> QED
  BY <1>7, <1>8, <1>9, <1>10

(* A poll charges or clears the object it holds, and no other.             *)
LEMMA PollKeeps ==
    ASSUME LoopInv, NEW o \in Objects, PollSucceeds(o) \/ PollFails(o)
    PROVE  LoopInv'
<1> USE PerceptionConstants DEF LoopInv
<1>1. /\ UNCHANGED <<slots, thread, recent, caller, world, told>>
      /\ tick.step = "poll" /\ o \in tick.due
      /\ slot \in [Objects -> SensorSlot] /\ slot[o].name \in Names
  BY DEF PollSucceeds, PollFails, TypeOK, HeldAreNamed
<1>2. PICK more \in SUBSET Raised : tick' = [tick EXCEPT !.due = @ \ {o}, !.raised = @ \cup more]
  <2>1. CASE PollSucceeds(o)
    BY <2>1 DEF PollSucceeds, Raised
  <2>2. CASE PollFails(o)
    BY <1>1, <2>2 DEF PollFails, Raised
  <2> QED
    BY <2>1, <2>2
<1>3. PICK n \in Counts, on \in BOOLEAN, last \in {"poll", "trip"} :
        /\ slot' = [slot EXCEPT ![o] = [slot[o] EXCEPT !.ripe = FALSE, !.errors = n, !.enabled = on,
                                                       !.streak = n, !.last = last]]
        /\ MaxErrors > 0 => /\ last = "trip" => n >= MaxErrors
                            /\ last = "poll" /\ on => n < MaxErrors
  <2>1. CASE PollSucceeds(o)
    <3>1. slot' = [slot EXCEPT ![o] = [slot[o] EXCEPT !.ripe = FALSE, !.errors = 0,
                                !.enabled = slot[o].enabled, !.streak = 0, !.last = "poll"]]
      BY <1>1, <2>1 DEF PollSucceeds, SensorSlot
    <3>2. 0 \in Counts /\ slot[o].enabled \in BOOLEAN
      BY <1>1 DEF Counts, SensorSlot
    <3> QED
      BY <3>1, <3>2
  <2>2. CASE PollFails(o)
    <3> DEFINE n == More(slot[o].errors)
               trips == MaxErrors > 0 /\ slot[o].errors + 1 >= MaxErrors
               on == slot[o].enabled /\ ~trips
    <3>1. slot[o].errors \in Counts /\ slot[o].streak = slot[o].errors /\ slot[o].enabled \in BOOLEAN
      BY <1>1 DEF ErrorsAreTheStreak, SensorSlot
    <3>2. n \in Counts /\ (n >= MaxErrors <=> slot[o].errors + 1 >= MaxErrors)
      BY <3>1, MoreIs DEF Counts
    <3>3. slot' = [slot EXCEPT ![o] = [slot[o] EXCEPT !.ripe = FALSE, !.errors = n, !.enabled = on,
                                            !.streak = n, !.last = IF trips THEN "trip" ELSE "poll"]]
      BY <1>1, <2>2, <3>1 DEF PollFails
    <3>4. on \in BOOLEAN
      BY <3>1
    <3> HIDE DEF n, on
    <3>5. CASE trips
      <4>1. n >= MaxErrors
        BY <3>2, <3>5
      <4>2. slot' = [slot EXCEPT ![o] = [slot[o] EXCEPT !.ripe = FALSE, !.errors = n, !.enabled = on,
                                                        !.streak = n, !.last = "trip"]]
        BY <3>3, <3>5
      <4> USE <3>2, <3>4
      <4> WITNESS n \in Counts, on \in BOOLEAN, "trip" \in {"poll", "trip"}
      <4> QED
        BY <4>1, <4>2
    <3>6. CASE ~trips
      <4>1. MaxErrors > 0 => n < MaxErrors
        BY <3>2, <3>6 DEF Counts
      <4>2. slot' = [slot EXCEPT ![o] = [slot[o] EXCEPT !.ripe = FALSE, !.errors = n, !.enabled = on,
                                                        !.streak = n, !.last = "poll"]]
        BY <3>3, <3>6
      <4> USE <3>2, <3>4
      <4> WITNESS n \in Counts, on \in BOOLEAN, "poll" \in {"poll", "trip"}
      <4> QED
        BY <4>1, <4>2
    <3> QED
      BY <3>5, <3>6
  <2> QED
    BY <2>1, <2>2
<1>4. slot' \in [Objects -> SensorSlot]
  BY <1>1, <1>3 DEF SensorSlot
<1>5. TypeOK'
  BY <1>1, <1>2, <1>4 DEF TypeOK
<1>8. HeldAreNamed'
  <2>1. \A p \in Objects : slot'[p].name = slot[p].name
    BY <1>1, <1>3 DEF SensorSlot
  <2>2. HeldAreNamed'
    <3>1. \A m \in Names : slots[m] # 0 => slots[m] \in Objects
      BY DEF TypeOK, Objects
    <3>2. tick'.due \subseteq tick.due /\ tick.due \subseteq Objects
      BY <1>2 DEF TypeOK
    <3> QED
      BY <1>1, <2>1, <3>1, <3>2 DEF HeldAreNamed
  <2> QED
    BY <2>2
<1>9. TickIsStaged'
  BY <1>1, <1>2 DEF TypeOK, TickIsStaged
<1>6. ErrorsAreTheStreak' /\ BreakerIsExact'
  BY <1>1, <1>3 DEF ErrorsAreTheStreak, BreakerIsExact
<1>7. StopIsWaitedFor' /\ NoAlertLost' /\ StartedRuns'
  BY <1>1, <1>2 DEF StopIsWaitedFor, NoAlertLost, StartedRuns, Past, TypeOK
<1> QED
  BY <1>5, <1>6, <1>7, <1>8, <1>9

(* The rest of a tick: fusion, the world model, the alerts.                *)
LEMMA FusionKeeps ==
    ASSUME LoopInv, Fuse
    PROVE  LoopInv'
<1> USE DEF LoopInv, TypeOK
<1>1. recent' \in Seq(SUBSET Raised) /\ Len(recent') <= Window /\ Past' \subseteq Past \cup tick.raised
  <2>1. recent \in Seq(SUBSET Raised) /\ Len(recent) <= Window /\ tick.raised \in SUBSET Raised
    OBVIOUS
  <2>2. recent' = Slid(recent, tick.raised)
    BY DEF Fuse, Slid
  <2> HIDE DEF LoopInv, TypeOK
  <2>3. \A window \in Seq(SUBSET Raised), raised \in SUBSET Raised :
           Len(window) <= Window =>
             /\ Slid(window, raised) \in Seq(SUBSET Raised) /\ Len(Slid(window, raised)) <= Window
             /\ UNION Range(Slid(window, raised)) \subseteq (UNION Range(window)) \cup raised
    BY WindowMoves, Zenon
  <2> QED
    BY <2>1, <2>2, <2>3, Zenon DEF Past
<1>2. told' = told \cap Past'
  BY DEF Fuse, Past
<1>3. /\ tick' = [tick EXCEPT !.step = "write", !.fresh = tick.raised \ Past]
      /\ world' = FALSE /\ UNCHANGED <<slots, slot, thread, caller>>
  BY DEF Fuse
<1>4. TypeOK' /\ HeldAreNamed'
  BY <1>1, <1>2, <1>3 DEF HeldAreNamed
<1>5. NoAlertLost'
  <2>1. Past \subseteq told
    BY DEF NoAlertLost, TickIsStaged, Fuse
  <2> QED
    BY <1>1, <1>2, <1>3, <2>1 DEF NoAlertLost
<1> QED
  BY <1>3, <1>4, <1>5 DEF TickIsStaged, ErrorsAreTheStreak, StopIsWaitedFor, BreakerIsExact, StartedRuns

LEMMA TellingKeeps ==
    ASSUME LoopInv, WriteWorldModel \/ EndTick \/ \E a \in Raised : HandleAlert(a)
    PROVE  LoopInv'
<1> USE DEF LoopInv, TypeOK, TickIsStaged
<1>1. UNCHANGED <<slots, slot, thread, recent>>
  BY DEF WriteWorldModel, EndTick, HandleAlert
<1>2. TypeOK' /\ HeldAreNamed'
  <2>1. CASE WriteWorldModel
    BY <1>1, <2>1 DEF WriteWorldModel, HeldAreNamed
  <2>2. CASE EndTick
    BY <1>1, <2>2 DEF EndTick, Idle, HeldAreNamed
  <2>3. ASSUME NEW a \in Raised, HandleAlert(a) PROVE TypeOK' /\ HeldAreNamed'
    BY <1>1, <2>3 DEF HandleAlert, HeldAreNamed
  <2> QED
    BY <2>1, <2>2, <2>3
<1>3. NoAlertLost' /\ TickIsStaged'
  BY <1>1 DEF NoAlertLost, Past, WriteWorldModel, EndTick, HandleAlert, Idle
<1>4. StopIsWaitedFor' /\ StartedRuns'
  BY <1>1 DEF StopIsWaitedFor, StartedRuns, WriteWorldModel, EndTick, HandleAlert
<1> QED
  BY <1>1, <1>2, <1>3, <1>4 DEF ErrorsAreTheStreak, BreakerIsExact

LEMMA LoopInvAlways == Spec => []LoopInv
<1>1. Init => LoopInv
  <2> SUFFICES ASSUME Init PROVE LoopInv
    OBVIOUS
  <2>1. recent \in Seq(SUBSET Raised) /\ Len(recent) = 0 /\ Past = {}
    BY EmptySeq DEF Init, Past, Range
  <2>2. TypeOK
    BY <2>1, PerceptionConstants DEF Init, TypeOK, Idle, NoSlot, Counts, SensorSlot
  <2> QED
    BY <2>1, <2>2 DEF Init, LoopInv, TickIsStaged, ErrorsAreTheStreak, StopIsWaitedFor,
                      NoAlertLost, BreakerIsExact, StartedRuns, Idle, NoSlot, HeldAreNamed
<1>2. LoopInv /\ [Next]_vars => LoopInv'
  <2> SUFFICES ASSUME LoopInv, [Next]_vars PROVE LoopInv'
    OBVIOUS
  <2>1. CASE UNCHANGED vars
    BY <2>1 DEF vars, LoopInv, TypeOK, TickIsStaged, ErrorsAreTheStreak, StopIsWaitedFor,
                NoAlertLost, BreakerIsExact, StartedRuns, Past, HeldAreNamed
  <2> QED
    BY <2>1, TableKeeps, RipenKeeps, CallerKeeps, PollKeeps, FusionKeeps, TellingKeeps
       DEF Next, TickGoesOn, Poll
<1> QED
  BY <1>1, <1>2, PTL DEF Spec

(* Types: in particular the window never grows past alert_dedup_window.    *)
THEOREM TypeCorrect == Spec => []TypeOK
<1>1. LoopInv => TypeOK
  BY DEF LoopInv
<1> QED
  BY <1>1, LoopInvAlways, PTL

(* What deduplication holds back was told, or is about to be, whatever the *)
(* length of the window.                                                   *)
THEOREM AlertsKept == Spec => []NoAlertLost
<1>1. LoopInv => NoAlertLost
  BY DEF LoopInv
<1> QED
  BY <1>1, LoopInvAlways, PTL

(* The breaker of a sensor trips at max_adapter_errors failures in a row   *)
(* of the slot object it disables, and not before.                         *)
THEOREM BreakerExact == Spec => []BreakerIsExact
<1>1. LoopInv => BreakerIsExact
  BY DEF LoopInv
<1> QED
  BY <1>1, LoopInvAlways, PTL

(* A start after a stop runs the loop, unless the stop gave up on a thread *)
(* in a poll.                                                              *)
THEOREM StartRuns == Spec => []StartedRuns
<1>1. LoopInv => StartedRuns
  BY DEF LoopInv
<1> QED
  BY <1>1, LoopInvAlways, PTL

-----------------------------------------------------------------------------
(***************************************************************************)
(* The voice bridge, for any number of connections and any sizes of its    *)
(* queues.                                                                 *)
(*                                                                         *)
(* As long as no wait for a thread has timed out, only the last thread may *)
(* be alive, and when no one waits its flag is up: so connect() is never   *)
(* called while it lives, and no other thread can lower its flag.          *)
(***************************************************************************)

Links == [reader : {"none", "opening", "talking", "closing", "gone"},
          writer : {"none", "writing", "gone"}]

Types ==
    /\ conn \in [Sessions -> Links]
    /\ flags \in [stop : BOOLEAN, connected : BOOLEAN]
    /\ queues \in [text : Seq({"old", "new"}), audio : Nat, in : Nat]
    /\ dialer \in [op : {"idle", "connecting", "joining"}, gaveUp : BOOLEAN]
    /\ role \in [ears : BOOLEAN, mouth : BOOLEAN, mind : {"idle", "flushing", "listening"},
                 heard : BOOLEAN, stale : BOOLEAN]

SessionsAreNumbered == Latest \in 0..MaxConnects /\ Used = 1..Latest

FlagIsOfTheLast ==
    ~dialer.gaveUp =>
        /\ \A k \in Sessions :
              Alive(k) => k = Latest /\ (dialer.op = "idle" => flags.connected)
        /\ \A k \in Sessions : conn[k].reader = "talking" => flags.connected

FlushedIsNew ==
    /\ ~role.stale
    /\ role.mind = "listening" => \A i \in DOMAIN queues.text : queues.text[i] = "new"

VoiceInv == Types /\ SessionsAreNumbered /\ FlagIsOfTheLast /\ FlushedIsNew

(* The number of sessions used is the number of the last one.              *)
LEMMA CountIs ==
    ASSUME NEW n \in Nat PROVE Cardinality(1..n) = n
BY FS_Interval

LEMMA QueueMoves ==
    ASSUME NEW q \in Seq({"old", "new"})
    PROVE  /\ Put(q, "new") \in Seq({"old", "new"})
           /\ (\A i \in DOMAIN q : q[i] = "new") =>
                  \A i \in DOMAIN Put(q, "new") : Put(q, "new")[i] = "new"
           /\ [i \in DOMAIN q |-> "old"] \in Seq({"old", "new"})
           /\ q # <<>> => /\ Tail(q) \in Seq({"old", "new"})
                          /\ (\A i \in DOMAIN q : q[i] = "new") =>
                                 /\ Head(q) = "new"
                                 /\ \A i \in DOMAIN Tail(q) : Tail(q)[i] = "new"
<1>1. /\ Append(q, "new") \in Seq({"old", "new"}) /\ Len(Append(q, "new")) = Len(q) + 1
      /\ Len(q) \in Nat /\ DOMAIN q = 1..Len(q)
      /\ \A i \in 1..Len(q) : Append(q, "new")[i] = q[i]
      /\ Append(q, "new")[Len(q) + 1] = "new" /\ DOMAIN Append(q, "new") = 1..(Len(q) + 1)
  BY AppendProperties, LenProperties
<1>2. ASSUME \A i \in DOMAIN q : q[i] = "new", NEW i \in DOMAIN Append(q, "new")
      PROVE  Append(q, "new")[i] = "new"
  <2>1. i \in 1..Len(q) \/ i = Len(q) + 1
    BY <1>1
  <2> QED
    BY <1>1, <1>2, <2>1
<1>3. [i \in DOMAIN q |-> "old"] \in Seq({"old", "new"})
  BY <1>1
<1>4. ASSUME q # <<>>
      PROVE  /\ Tail(q) \in Seq({"old", "new"}) /\ Head(q) = q[1] /\ 1 \in DOMAIN q
             /\ \A i \in DOMAIN Tail(q) : i + 1 \in DOMAIN q /\ Tail(q)[i] = q[i + 1]
  <2>1. /\ Tail(q) \in Seq({"old", "new"}) /\ Len(Tail(q)) = Len(q) - 1
        /\ \A i \in 1..Len(Tail(q)) : Tail(q)[i] = q[i + 1]
    BY <1>4, HeadTailProperties
  <2>2. DOMAIN Tail(q) = 1..Len(Tail(q)) /\ Len(q) # 0
    BY <1>4, <2>1, LenProperties, EmptySeq
  <2> QED
    BY <1>1, <2>1, <2>2
<1>5. Put(q, "new") = q \/ Put(q, "new") = Append(q, "new")
  BY DEF Put
<1> QED
  BY <1>1, <1>2, <1>3, <1>4, <1>5

LEMMA VoiceBegins == VoiceInit => VoiceInv
<1> SUFFICES ASSUME VoiceInit PROVE VoiceInv
  OBVIOUS
<1>1. Types
  BY DEF VoiceInit, Types, Links
<1>2. \A k \in Sessions : conn[k].reader = "none"
  BY DEF VoiceInit
<1>3. Used = 1..0
  BY <1>2 DEF Used
<1>4. Latest = 0
  BY <1>3, CountIs DEF Latest, Used
<1>5. SessionsAreNumbered
  BY <1>3, <1>4, VoiceConstants DEF SessionsAreNumbered
<1>6. FlagIsOfTheLast
  BY <1>2 DEF FlagIsOfTheLast, Alive, VoiceInit, Sessions
<1>7. FlushedIsNew
  BY DEF FlushedIsNew, VoiceInit
<1> QED
  BY <1>1, <1>5, <1>6, <1>7 DEF VoiceInv

LEMMA CallsKeep ==
    ASSUME VoiceInv,
           \/ Connect \/ ConnectReturns
           \/ Disconnect \/ DisconnectReturns
    PROVE  VoiceInv'
<1> USE VoiceConstants DEF VoiceInv
<1>1. Types'
  <2>1. ASSUME Connect PROVE conn' \in [Sessions -> Links]
    <3>1. Latest + 1 \in Sessions
      BY <2>1 DEF Connect, SessionsAreNumbered, Sessions
    <3> HIDE DEF Sessions
    <3> QED
      BY <2>1, <3>1 DEF Connect, Types, Links
  <2>2. conn' \in [Sessions -> Links]
    BY <2>1 DEF ConnectReturns, Disconnect, DisconnectReturns, Waited, Types
  <2>3. flags' \in [stop : BOOLEAN, connected : BOOLEAN]
    BY DEF Types, Connect, ConnectReturns, Disconnect, DisconnectReturns
  <2>4. dialer' \in [op : {"idle", "connecting", "joining"}, gaveUp : BOOLEAN]
    <3>1. CASE Connect \/ Disconnect
      BY <3>1 DEF Types, Connect, Disconnect
    <3>2. CASE ConnectReturns \/ DisconnectReturns
      <4>1. PICK e \in BOOLEAN : dialer' = [op |-> "idle", gaveUp |-> dialer.gaveUp \/ e]
        <5>1. /\ (~flags.connected /\ Alive(Latest)) \in BOOLEAN
              /\ (~~Alive(Latest) /\ Alive(Latest)) \in BOOLEAN
          OBVIOUS
        <5> QED
          BY <3>2, <5>1 DEF ConnectReturns, DisconnectReturns, Waited
      <4>2. (dialer.gaveUp \/ e) \in BOOLEAN
        OBVIOUS
      <4> QED
        BY <4>1, <4>2
    <3> QED
      BY <3>1, <3>2
  <2>5. queues' = queues /\ role' = role
    BY DEF Connect, ConnectReturns, Disconnect, DisconnectReturns, Waited
  <2> QED
    BY <2>2, <2>3, <2>4, <2>5 DEF Types
<1>2. FlushedIsNew'
  BY DEF FlushedIsNew, Connect, ConnectReturns, Disconnect,
         DisconnectReturns, Waited
<1>3. CASE Connect
  <2> PICK n : n = Latest
    OBVIOUS
  <2>1. /\ n \in 0..MaxConnects /\ n < MaxConnects /\ Used = 1..n /\ n + 1 \in Sessions
        /\ conn' = [conn EXCEPT ![n + 1].reader = "opening"]
    BY <1>3 DEF SessionsAreNumbered, Connect, Sessions
  <2>2. /\ conn'[n + 1].reader = "opening"
        /\ \A k \in Sessions : k # n + 1 => conn'[k] = conn[k]
    BY <2>1 DEF Types
  <2>3. Used' = Used \cup {n + 1}
    BY <2>1, <2>2 DEF Used
  <2>4. Used' = 1..(n + 1)
    BY <2>1, <2>3
  <2>5. Latest' = n + 1
    <3>1. Cardinality(1..(n + 1)) = n + 1
      BY <2>1, CountIs
    <3> QED
      BY <2>4, <3>1 DEF Latest, Used
  <2>6. SessionsAreNumbered'
    BY <2>1, <2>4, <2>5 DEF SessionsAreNumbered
  <2>7. FlagIsOfTheLast'
    <3> SUFFICES ASSUME ~dialer'.gaveUp, NEW k \in Sessions
                 PROVE  /\ Alive(k)' => k = n + 1 /\ dialer'.op # "idle"
                        /\ conn'[k].reader # "talking"
      BY <2>5 DEF FlagIsOfTheLast
    <3>1. ~dialer.gaveUp /\ dialer.op = "idle" /\ dialer'.op = "connecting" /\ ~flags.connected
      BY <1>3 DEF Connect, Types
    <3>2. ~Alive(k)
      BY <3>1 DEF FlagIsOfTheLast
    <3> QED
      BY <2>2, <3>1, <3>2 DEF Alive
  <2> QED
    BY <1>1, <1>2, <2>6, <2>7
<1>4. CASE ConnectReturns \/ Disconnect \/ DisconnectReturns
  <2>1. conn' = conn
    BY <1>4 DEF ConnectReturns, Disconnect, DisconnectReturns, Waited
  <2>2. /\ Used' = Used /\ Latest' = Latest
        /\ \A k \in Sessions : Alive(k)' = Alive(k)
    BY <2>1 DEF Used, Latest, Alive
  <2>3. SessionsAreNumbered'
    BY <2>2 DEF SessionsAreNumbered
  <2>4. FlagIsOfTheLast'
    <3> SUFFICES ASSUME ~dialer'.gaveUp, NEW k \in Sessions
                 PROVE  /\ Alive(k) => k = Latest /\ (dialer'.op = "idle" => flags'.connected)
                        /\ conn[k].reader = "talking" => flags'.connected
      BY <2>1, <2>2 DEF FlagIsOfTheLast
    <3>1. ~dialer.gaveUp
      BY <1>4 DEF ConnectReturns, Disconnect, DisconnectReturns, Waited, Types
    <3>2. /\ Alive(k) => k = Latest
          /\ conn[k].reader = "talking" => flags.connected /\ Alive(k)
      BY <3>1 DEF FlagIsOfTheLast, Alive
    <3>3. CASE ConnectReturns
      BY <3>2, <3>3 DEF ConnectReturns, Waited
    <3>4. CASE Disconnect
      BY <3>2, <3>4 DEF Disconnect, Types
    <3>5. CASE DisconnectReturns
      BY <3>2, <3>5 DEF DisconnectReturns, Waited
    <3> QED
      BY <1>4, <3>3, <3>4, <3>5
  <2> QED
    BY <1>1, <1>2, <2>3, <2>4
<1> QED
  BY <1>3, <1>4

LEMMA ThreadsKeep ==
    ASSUME VoiceInv, NEW k \in Sessions,
           \/ Open(k) \/ Refused(k) \/ Breaks(k)
           \/ StopReading(k) \/ EndThread(k)
           \/ Write(k) \/ EndWriter(k)
    PROVE  VoiceInv'
<1> USE VoiceConstants DEF VoiceInv
<1> USE DEF Open, Refused, Breaks, StopReading, EndThread,
            Close, Write, EndWriter, Threads
<1>1. Types'
  <2>1. conn' \in [Sessions -> Links]
    BY DEF Types, Links
  <2>2. flags' \in [stop : BOOLEAN, connected : BOOLEAN]
    BY DEF Types
  <2>3. queues' \in [text : Seq({"old", "new"}), audio : Nat, in : Nat]
    BY DEF Types
  <2> QED
    BY <2>1, <2>2, <2>3 DEF Types
<1>2. FlushedIsNew'
  BY DEF FlushedIsNew, Types
<1>3. /\ dialer' = dialer
      /\ \A j \in Sessions : j # k => conn'[j] = conn[j]
      /\ conn'[k].reader = "none" <=> conn[k].reader = "none"
      /\ Alive(k)' => Alive(k)
  <2>1. dialer' = dialer /\ \A j \in Sessions : j # k => conn'[j] = conn[j]
    BY DEF Types
  <2>2. conn[k] \in Links
    BY DEF Types
  <2>3. CASE Write(k) \/ EndWriter(k)
    <3>1. PICK w : conn' = [conn EXCEPT ![k].writer = w]
      BY <2>3
    <3>2. conn'[k].reader = conn[k].reader
      BY <2>2, <3>1 DEF Types, Links
    <3>3. Alive(k)' <=> Alive(k)
      BY <3>2 DEF Alive
    <3> HIDE DEF VoiceInv, Open, Refused, Breaks, StopReading,
                 EndThread, Close, Write, EndWriter
    <3> QED
      BY <2>1, <3>2, <3>3
  <2>4. CASE \/ Open(k) \/ Refused(k) \/ Breaks(k)
             \/ StopReading(k) \/ EndThread(k)
    <3>1. conn'[k].reader \in {"talking", "closing", "gone"}
      BY <2>2, <2>4 DEF Types, Links
    <3>2. conn[k].reader # "none" /\ Alive(k)
      BY <2>4 DEF Alive
    <3> HIDE DEF VoiceInv, Open, Refused, Breaks, StopReading,
                 EndThread, Close, Write, EndWriter
    <3> QED
      BY <2>1, <3>1, <3>2
  <2> QED
    BY <2>3, <2>4
<1>4. SessionsAreNumbered'
  <2>1. Used' = Used
    BY <1>3 DEF Used
  <2> QED
    BY <2>1 DEF SessionsAreNumbered, Latest
<1>5. Latest' = Latest
  <2>1. Used' = Used
    BY <1>3 DEF Used
  <2> QED
    BY <2>1 DEF Latest
<1>6. FlagIsOfTheLast'
  <2> SUFFICES ASSUME ~dialer.gaveUp, NEW j \in Sessions
               PROVE  /\ Alive(j)' => j = Latest /\ (dialer.op = "idle" => flags'.connected)
                      /\ conn'[j].reader = "talking" => flags'.connected
    BY <1>3, <1>5 DEF FlagIsOfTheLast
  <2>1. Alive(j)' => Alive(j)
    BY <1>3 DEF Alive
  <2>2. /\ Alive(j) => j = Latest /\ (dialer.op = "idle" => flags.connected)
        /\ conn[j].reader = "talking" => flags.connected
        /\ Alive(k) => k = Latest
    BY DEF FlagIsOfTheLast
  <2>3. CASE EndThread(k)
    <3>1. Alive(k) /\ ~Alive(k)'
      BY <2>3 DEF Types, Alive
    <3>2. ~Alive(j)'
      BY <2>1, <2>2, <3>1
    <3> QED
      BY <3>2 DEF Alive
  <2>4. CASE Open(k)
    <3>1. flags'.connected
      BY <2>4 DEF Types
    <3> QED
      BY <2>1, <2>2, <3>1
  <2>5. CASE \/ Refused(k) \/ Breaks(k) \/ StopReading(k)
             \/ Write(k) \/ EndWriter(k)
    <3>1. flags' = flags
      BY <2>5
    <3>2. CASE Write(k) \/ EndWriter(k)
      <4>1. PICK w : conn' = [conn EXCEPT ![k].writer = w]
        BY <3>2
      <4>2. conn'[j].reader = conn[j].reader
        BY <4>1 DEF Types, Links
      <4> QED
        BY <2>1, <2>2, <3>1, <4>2
    <3>3. CASE Refused(k) \/ Breaks(k) \/ StopReading(k)
      <4>1. conn'[j].reader = "talking" => conn[j].reader = "talking"
        BY <3>3 DEF Types, Links
      <4> QED
        BY <2>1, <2>2, <3>1, <4>1
    <3> QED
      BY <2>5, <3>2, <3>3
  <2> QED
    BY <2>3, <2>4, <2>5
<1> QED
  BY <1>1, <1>2, <1>4, <1>6

LEMMA QueuesKeep ==
    ASSUME VoiceInv, UNCHANGED <<conn, flags, dialer>>, Types', FlushedIsNew'
    PROVE  VoiceInv'
BY DEF VoiceInv, SessionsAreNumbered, FlagIsOfTheLast, Used, Latest, Alive

LEMMA FramesKeep ==
    ASSUME VoiceInv, NEW k \in Sessions, ReadText(k) \/ ReadAudio(k)
    PROVE  VoiceInv'
<1> USE DEF Threads
<1>1. UNCHANGED <<conn, flags, dialer>> /\ role' = role
  BY DEF ReadText, ReadAudio
<1>2. Types /\ FlushedIsNew
  BY DEF VoiceInv
<1> DEFINE q == queues.text
<1>3. q \in Seq({"old", "new"})
  BY <1>2 DEF Types
<1>4. CASE ReadText(k)
  <2>1. queues' = [queues EXCEPT !.text = Put(q, "new")]
    BY <1>4 DEF ReadText
  <2>2. Put(q, "new") \in Seq({"old", "new"})
    BY <1>3, QueueMoves
  <2>3. (\A i \in DOMAIN q : q[i] = "new") =>
           \A i \in DOMAIN Put(q, "new") : Put(q, "new")[i] = "new"
    BY <1>3, QueueMoves
  <2> PICK r : r = Put(q, "new")
    OBVIOUS
  <2>4. queues'.text = r
    BY <1>2, <2>1 DEF Types
  <2>5. Types'
    BY <1>1, <1>2, <2>1, <2>2 DEF Types
  <2>6. FlushedIsNew'
    BY <1>1, <1>2, <2>3, <2>4 DEF FlushedIsNew
  <2> QED
    BY <1>1, <2>5, <2>6, QueuesKeep
<1>5. CASE ReadAudio(k)
  <2>1. Types'
    BY <1>1, <1>2, <1>5 DEF Types, ReadAudio
  <2>2. queues'.text = queues.text
    BY <1>2, <1>5 DEF Types, ReadAudio
  <2>3. FlushedIsNew'
    BY <1>1, <1>2, <2>2 DEF FlushedIsNew
  <2> QED
    BY <1>1, <2>1, <2>3, QueuesKeep
<1> QED
  BY <1>4, <1>5

(* What is sent is counted, and touches no chunk.                          *)
LEMMA SendKeeps ==
    ASSUME NEW qs \in [text : Seq({"old", "new"}), audio : Nat, in : Nat]
    PROVE  /\ Send(qs) \in [text : Seq({"old", "new"}), audio : Nat, in : Nat]
           /\ Send(qs).text = qs.text
BY VoiceConstants DEF Send

LEMMA AdaptersKeep ==
    ASSUME VoiceInv,
           \/ Microphone \/ HearBegin \/ AskBegin \/ Leave \/ SpeakBegin
           \/ Mind \/ Ears \/ Mouth
    PROVE  VoiceInv'
<1> USE DEF Outside, Mind, Ears, Mouth
<1>1. UNCHANGED <<conn, flags, dialer>>
  BY DEF Microphone, HearBegin, AskBegin, Leave, SpeakBegin,
         Flush, Listen, AnswerEnds,
         Hear, HearEnd, Speak, SpeakEnd
<1>2. Types /\ FlushedIsNew
  BY DEF VoiceInv
<1> DEFINE q == queues.text
           Queues == [text : Seq({"old", "new"}), audio : Nat, in : Nat]
<1>3. q \in Seq({"old", "new"}) /\ queues \in Queues
  BY <1>2 DEF Types
<1>4. ASSUME q # <<>>, queues' = Take(queues)
      PROVE  /\ queues' \in Queues
             /\ (\A i \in DOMAIN q : q[i] = "new") =>
                    Head(q) = "new" /\ \A i \in DOMAIN queues'.text : queues'.text[i] = "new"
  <2> PICK r : r = Tail(q)
    OBVIOUS
  <2>1. r \in Seq({"old", "new"})
    BY <1>3, <1>4, QueueMoves
  <2>2. queues' = [queues EXCEPT !.text = r]
    BY <1>4 DEF Take
  <2>3. queues' \in Queues /\ queues'.text = r
    BY <1>3, <2>1, <2>2
  <2>4. (\A i \in DOMAIN q : q[i] = "new") => Head(q) = "new" /\ \A i \in DOMAIN r : r[i] = "new"
    BY <1>3, <1>4, QueueMoves
  <2> QED
    BY <2>3, <2>4
<1>5. CASE \/ Microphone \/ HearBegin \/ HearEnd \/ Leave
           \/ AnswerEnds \/ SpeakBegin \/ Speak \/ SpeakEnd
  <2>1. queues' \in Queues /\ queues'.text = q
    <3>1. CASE Microphone
      BY <1>3, <3>1, SendKeeps DEF Microphone
    <3>2. CASE HearBegin \/ HearEnd \/ Leave \/ AnswerEnds \/ SpeakEnd
      BY <1>3, <3>2 DEF HearBegin, HearEnd, Leave, AnswerEnds, SpeakEnd
    <3>3. CASE SpeakBegin
      <4>1. queues' = Send(Send(queues)) \/ queues' = Send(queues)
        BY <3>3 DEF SpeakBegin
      <4>2. Send(queues) \in Queues /\ Send(queues).text = q
        BY <1>3, SendKeeps
      <4>3. Send(Send(queues)) \in Queues /\ Send(Send(queues)).text = q
        BY <4>2, SendKeeps
      <4> QED
        BY <4>1, <4>2, <4>3
    <3>4. CASE Speak
      BY <1>3, <3>4 DEF Speak
    <3> QED
      BY <1>5, <3>1, <3>2, <3>3, <3>4
  <2>2. /\ role' \in [ears : BOOLEAN, mouth : BOOLEAN, mind : {"idle", "flushing", "listening"},
                      heard : BOOLEAN, stale : BOOLEAN]
        /\ role'.stale = role.stale /\ role'.mind \in {role.mind, "idle"}
    BY <1>2, <1>5 DEF Types, Microphone, HearBegin, HearEnd, Leave,
                      AnswerEnds, SpeakBegin, Speak, SpeakEnd
  <2>3. Types'
    BY <1>1, <1>2, <2>1, <2>2 DEF Types
  <2>4. FlushedIsNew'
    BY <1>2, <2>1, <2>2 DEF FlushedIsNew
  <2> QED
    BY <1>1, <2>3, <2>4, QueuesKeep
<1>6. CASE AskBegin
  <2> PICK r : r = [i \in DOMAIN q |-> "old"]
    OBVIOUS
  <2>1. queues' = [queues EXCEPT !.text = r] /\ role' = [role EXCEPT !.mind = "flushing"]
    BY <1>6 DEF AskBegin
  <2>2. r \in Seq({"old", "new"})
    BY <1>3, QueueMoves
  <2>3. Types'
    BY <1>1, <1>2, <2>1, <2>2 DEF Types
  <2>4. FlushedIsNew'
    BY <1>2, <2>1 DEF FlushedIsNew, Types
  <2> QED
    BY <1>1, <2>3, <2>4, QueuesKeep
<1>7. CASE Hear
  <2>1. q # <<>> /\ queues' = Take(queues) /\ role' = role
    BY <1>7 DEF Hear
  <2>2. Types'
    BY <1>1, <1>2, <1>4, <2>1 DEF Types
  <2>3. FlushedIsNew'
    BY <1>2, <1>4, <2>1 DEF FlushedIsNew
  <2> QED
    BY <1>1, <2>2, <2>3, QueuesKeep
<1>8. CASE Flush
  <2>1. CASE q # <<>>
    <3>1. queues' = Take(queues) /\ role' = role /\ role.mind # "listening"
      BY <1>8, <2>1 DEF Flush
    <3>2. Types'
      BY <1>1, <1>2, <1>4, <2>1, <3>1 DEF Types
    <3>3. FlushedIsNew'
      BY <1>2, <3>1 DEF FlushedIsNew
    <3> QED
      BY <1>1, <3>2, <3>3, QueuesKeep
  <2>2. CASE q = <<>>
    <3>1. queues' = Send(queues) /\ role' = [role EXCEPT !.mind = "listening"]
      BY <1>8, <2>2 DEF Flush
    <3>2. queues' \in Queues /\ queues'.text = <<>>
      BY <1>3, <2>2, <3>1, SendKeeps
    <3>3. Types'
      BY <1>1, <1>2, <3>1, <3>2 DEF Types
    <3>4. FlushedIsNew'
      BY <1>2, <3>1, <3>2 DEF FlushedIsNew, Types
    <3> QED
      BY <1>1, <3>3, <3>4, QueuesKeep
  <2> QED
    BY <2>1, <2>2
<1>9. CASE Listen
  <2>1. q # <<>> /\ queues' = Take(queues) /\ \A i \in DOMAIN q : q[i] = "new"
    BY <1>2, <1>9 DEF Listen, FlushedIsNew
  <2>2. Head(q) = "new"
    BY <1>4, <2>1
  <2>3. role' = [role EXCEPT !.heard = TRUE, !.stale = FALSE]
    BY <1>2, <1>9, <2>2 DEF Listen, FlushedIsNew
  <2>4. Types'
    BY <1>1, <1>2, <1>4, <2>1, <2>3 DEF Types
  <2>5. FlushedIsNew'
    BY <1>2, <1>4, <2>1, <2>3 DEF FlushedIsNew, Types
  <2> QED
    BY <1>1, <2>4, <2>5, QueuesKeep
<1> QED
  BY <1>5, <1>6, <1>7, <1>8, <1>9

LEMMA VoiceInvAlways == VoiceSpec => []VoiceInv
<1>1. VoiceInv /\ [VoiceNext]_voiceVars => VoiceInv'
  <2> SUFFICES ASSUME VoiceInv, [VoiceNext]_voiceVars PROVE VoiceInv'
    OBVIOUS
  <2>1. CASE UNCHANGED voiceVars
    BY <2>1 DEF voiceVars, VoiceInv, Types, SessionsAreNumbered, FlagIsOfTheLast, FlushedIsNew,
                Used, Latest, Alive
  <2>2. CASE VoiceNext
    BY <2>2, CallsKeep, ThreadsKeep, FramesKeep, AdaptersKeep DEF VoiceNext
  <2> QED
    BY <2>1, <2>2
<1> QED
  BY <1>1, VoiceBegins, PTL DEF VoiceSpec

(* As long as no wait for a thread has timed out, connect() and            *)
(* disconnect() keep one connection alive at a time, and its flag is up    *)
(* while it talks, however the threads of the earlier ones ended.          *)
THEOREM OneSession == VoiceSpec => []SessionsDoNotOverlap
<1>1. VoiceInv => SessionsDoNotOverlap
  BY DEF VoiceInv, FlagIsOfTheLast, SessionsDoNotOverlap
<1> QED
  BY <1>1, VoiceInvAlways, PTL

(* No chunk from before a stream is part of its answer: the queue that is  *)
(* shared with the ears is empty when the prompt is sent, and what is put  *)
(* into it from then on is new.                                            *)
THEOREM FreshAnswers == VoiceSpec => []AnswerIsFresh
<1>1. VoiceInv => AnswerIsFresh
  BY DEF VoiceInv, FlushedIsNew, AnswerIsFresh
<1> QED
  BY <1>1, VoiceInvAlways, PTL
=============================================================================
