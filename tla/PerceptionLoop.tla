--------------------------- MODULE PerceptionLoop ---------------------------
(***************************************************************************)
(* The perception loop and the fusion engine it feeds: a thread polls the  *)
(* sensors that are due, fuses what they raise, writes the fused facts to  *)
(* the world model and tells the new alerts to a callback.                 *)
(*                                                                         *)
(* A sensor is registered by making a slot object for its name.  Registering *)
(* the name again makes another object, while a tick may still hold the    *)
(* first, so objects are numbered and slots maps a name to its object.     *)
(* Only alerts are kept of what a sensor returns; the alert _safe_process  *)
(* makes of a sensor's exception is named by the sensor.                   *)
(***************************************************************************)
EXTENDS Integers, Sequences, FiniteSets, SequencesExt

CONSTANTS
    Names,            \* sensors
    Alerts,           \* alerts sensors raise
    MaxErrors,        \* max_adapter_errors
    Window,           \* alert_dedup_window
    MaxRegistrations, \* bound: calls of register()
    NoName            \* the name of an object that is not made yet

ASSUME PerceptionConstants ==
    /\ MaxErrors \in Nat /\ Window \in Nat /\ MaxRegistrations \in Nat
    /\ NoName \notin Names

VARIABLES
    slots,   \* _slots: the object of each name, 0 if none
    slot,    \* the slot objects
    thread,  \* the loop's thread and its stop event
    tick,    \* the tick under way: who runs it, what it holds
    recent,  \* the fusion engine's _recent_alerts
    caller,  \* who starts, stops and ticks by hand
    world,   \* whether the world model has the facts of the cycle fused last
    told     \* history: of the alerts in the window, those given to on_alert

vars == <<slots, slot, thread, tick, recent, caller, world, told>>

Objects == 1..MaxRegistrations
Registered == {o \in Objects : slot[o].name # NoName}
Raised == Alerts \cup Names
\* bound: counts of failures stay at MaxErrors
Counts == 0..MaxErrors
More(n) == Min({n + 1, MaxErrors})
Past == UNION Range(recent)

SensorSlot ==
    [name : Names \cup {NoName}, enabled : BOOLEAN, ripe : BOOLEAN, errors : Counts,
     streak : Counts,    \* history: its failing polls since a good one
     last : {"caller", "poll", "trip"}]  \* history: who touched it last

TypeOK ==
    /\ slots \in [Names -> 0..MaxRegistrations]
    /\ slot \in [Objects -> SensorSlot]
    /\ thread \in [alive : BOOLEAN, stop : BOOLEAN]
    /\ tick \in [step : {"rest", "poll", "write", "tell"}, due : SUBSET Objects,
                 raised : SUBSET Raised, fresh : SUBSET Raised]
    /\ recent \in Seq(SUBSET Raised) /\ Len(recent) <= Window
    /\ caller \in [op : {"idle", "stopping", "ticking"},
                   wants : BOOLEAN,   \* history: start was called after stop
                   gaveUp : BOOLEAN]  \* history: a stop timed out and no start took effect since
    /\ world \in BOOLEAN /\ told \subseteq Raised

Idle == [step |-> "rest", due |-> {}, raised |-> {}, fresh |-> {}]
NoSlot == [name |-> NoName, enabled |-> FALSE, ripe |-> FALSE, errors |-> 0,
           streak |-> 0, last |-> "caller"]

Init ==
    /\ slots = [n \in Names |-> 0]
    /\ slot = [o \in Objects |-> NoSlot]
    /\ thread = [alive |-> FALSE, stop |-> FALSE]
    /\ tick = Idle
    /\ recent = <<>>
    /\ caller = [op |-> "idle", wants |-> FALSE, gaveUp |-> FALSE]
    /\ world = TRUE /\ told = {}

-----------------------------------------------------------------------------
(* The table of slots, under the lock, by any thread.                      *)

Register(n) ==
    LET o == Cardinality(Registered) + 1 IN
    /\ o \in Objects
    /\ slots' = [slots EXCEPT ![n] = o]
    /\ \E on \in BOOLEAN :
          slot' = [slot EXCEPT ![o] = [NoSlot EXCEPT !.name = n, !.enabled = on, !.ripe = TRUE]]
    /\ UNCHANGED <<thread, tick, recent, caller, world, told>>

Unregister(n) ==
    /\ slots[n] # 0
    /\ slots' = [slots EXCEPT ![n] = 0]
    /\ UNCHANGED <<slot, thread, tick, recent, caller, world, told>>

\* The error count stays: one more failure disables the slot again.
Enable(n) ==
    /\ slots[n] # 0
    /\ slot' = [slot EXCEPT ![slots[n]].enabled = TRUE, ![slots[n]].last = "caller"]
    /\ UNCHANGED <<slots, thread, tick, recent, caller, world, told>>

Disable(n) ==
    /\ slots[n] # 0
    /\ slot' = [slot EXCEPT ![slots[n]].enabled = FALSE, ![slots[n]].last = "caller"]
    /\ UNCHANGED <<slots, thread, tick, recent, caller, world, told>>

\* The interval of a slot passes.
Ripen(o) ==
    /\ slot[o].name # NoName /\ ~slot[o].ripe
    /\ slot' = [slot EXCEPT ![o].ripe = TRUE]
    /\ UNCHANGED <<slots, thread, tick, recent, caller, world, told>>

-----------------------------------------------------------------------------
(* start, stop and tick_once.                                              *)

\* A thread that is alive is left alone, one that is told to stop as well.
Start ==
    /\ caller.op = "idle"
    /\ thread' = IF thread.alive THEN thread ELSE [alive |-> TRUE, stop |-> FALSE]
    /\ caller' = [caller EXCEPT !.wants = TRUE, !.gaveUp = @ /\ thread.alive]
    /\ UNCHANGED <<slots, slot, tick, recent, world, told>>

\* Mutant: the same without the wait for the thread.
StopAtOnce ==
    /\ caller.op = "idle"
    /\ thread' = [thread EXCEPT !.stop = TRUE]
    /\ caller' = [caller EXCEPT !.wants = FALSE]
    /\ UNCHANGED <<slots, slot, tick, recent, world, told>>

Stop ==
    /\ caller.op = "idle"
    /\ thread' = [thread EXCEPT !.stop = TRUE]
    /\ caller' = [caller EXCEPT !.wants = FALSE, !.op = "stopping"]
    /\ UNCHANGED <<slots, slot, tick, recent, world, told>>

\* join returns: the thread is gone, or it is in a poll or a callback that
\* takes longer than the timeout.
StopReturns ==
    /\ caller.op = "stopping"
    /\ \/ ~thread.alive
       \/ tick.step \in {"poll", "tell"}
    /\ caller' = [caller EXCEPT !.op = "idle", !.gaveUp = @ \/ thread.alive]
    /\ UNCHANGED <<slots, slot, thread, tick, recent, world, told>>

-----------------------------------------------------------------------------
(* A tick, by the thread or by hand.                                       *)

Due == {o \in {slots[n] : n \in Names} \ {0} : slot[o].enabled /\ slot[o].ripe}

Collect ==
    /\ tick.step = "rest" /\ Due # {}
    /\ tick' = [tick EXCEPT !.step = "poll", !.due = Due]

LoopTick ==
    /\ thread.alive /\ ~thread.stop
    /\ Collect
    /\ UNCHANGED <<slots, slot, thread, recent, caller, world, told>>

LoopEnds ==
    /\ thread.alive /\ thread.stop /\ tick.step = "rest"
    /\ thread' = [thread EXCEPT !.alive = FALSE]
    /\ UNCHANGED <<slots, slot, tick, recent, caller, world, told>>

\* For a program without the thread: it stops nothing and minds no stop.
TickOnce ==
    /\ caller.op = "idle" /\ ~thread.alive
    /\ Collect
    /\ caller' = [caller EXCEPT !.op = "ticking"]
    /\ UNCHANGED <<slots, slot, thread, recent, world, told>>

PollSucceeds(o) ==
    /\ tick.step = "poll" /\ o \in tick.due
    /\ \E raised \in SUBSET Alerts :
          tick' = [tick EXCEPT !.due = @ \ {o}, !.raised = @ \cup raised]
    /\ slot' = [slot EXCEPT ![o].ripe = FALSE, ![o].errors = 0,
                            ![o].streak = 0, ![o].last = "poll"]
    /\ UNCHANGED <<slots, thread, recent, caller, world, told>>

\* Mutant: the failure is charged to the object the name has by now.
PollFailsByName(o) ==
    LET c == slots[slot[o].name]
        trips == c # 0 /\ MaxErrors > 0 /\ slot[c].errors + 1 >= MaxErrors IN
    /\ tick.step = "poll" /\ o \in tick.due
    /\ tick' = [tick EXCEPT !.due = @ \ {o}, !.raised = @ \cup {slot[o].name}]
    /\ slot' = [p \in Objects |->
          LET polled == IF p # o THEN slot[p]
                        ELSE [slot[p] EXCEPT !.ripe = FALSE, !.streak = More(@), !.last = "poll"]
          IN IF p # c THEN polled
             ELSE [polled EXCEPT !.errors = More(@), !.enabled = @ /\ ~trips,
                                 !.last = IF trips THEN "trip" ELSE @]]
    /\ UNCHANGED <<slots, thread, recent, caller, world, told>>

\* Mutant: an exception of a sensor ends the thread.
PollKills(o) ==
    /\ tick.step = "poll" /\ o \in tick.due
    /\ tick' = Idle
    /\ thread' = [thread EXCEPT !.alive = FALSE]
    /\ UNCHANGED <<slots, slot, recent, caller, world, told>>

\* The slot object the tick holds is charged, whatever its name means by now.
PollFails(o) ==
    LET trips == MaxErrors > 0 /\ slot[o].errors + 1 >= MaxErrors IN
    /\ tick.step = "poll" /\ o \in tick.due
    /\ tick' = [tick EXCEPT !.due = @ \ {o}, !.raised = @ \cup {slot[o].name}]
    /\ slot' = [slot EXCEPT ![o].ripe = FALSE, ![o].errors = More(@),
                            ![o].enabled = @ /\ ~trips, ![o].streak = More(@),
                            ![o].last = IF trips THEN "trip" ELSE "poll"]
    /\ UNCHANGED <<slots, thread, recent, caller, world, told>>

\* Mutant: this cycle enters the window before its alerts are compared.
FuseAfterAppend ==
    /\ tick.step = "poll" /\ tick.due = {}
    /\ recent' = LET longer == Append(recent, tick.raised)
                 IN  IF Len(longer) > Window THEN Tail(longer) ELSE longer
    /\ tick' = [tick EXCEPT !.step = "write", !.fresh = tick.raised \ UNION Range(recent')]
    /\ told' = told \cap UNION Range(recent')
    /\ world' = FALSE
    /\ UNCHANGED <<slots, slot, thread, caller>>

\* Alerts of the last Window cycles are not new, those that were not new then
\* among them; an alert of this cycle that two sensors raise is told twice.
Fuse ==
    /\ tick.step = "poll" /\ tick.due = {}
    /\ tick' = [tick EXCEPT !.step = "write", !.fresh = tick.raised \ Past]
    /\ recent' = LET longer == Append(recent, tick.raised)
                 IN  IF Len(longer) > Window THEN Tail(longer) ELSE longer
    /\ told' = told \cap UNION Range(recent')
    /\ world' = FALSE
    /\ UNCHANGED <<slots, slot, thread, caller>>

WriteWorldModel ==
    /\ tick.step = "write"
    /\ tick' = [tick EXCEPT !.step = "tell"]
    /\ world' = TRUE
    /\ UNCHANGED <<slots, slot, thread, recent, caller, told>>

\* on_alert is called with each new alert; what it raises is swallowed.
HandleAlert(a) ==
    /\ tick.step = "tell" /\ a \in tick.fresh
    /\ tick' = [tick EXCEPT !.fresh = @ \ {a}]
    /\ told' = told \cup {a}
    /\ UNCHANGED <<slots, slot, thread, recent, caller, world>>

EndTick ==
    /\ tick.step = "tell" /\ tick.fresh = {}
    /\ tick' = Idle
    /\ caller' = [caller EXCEPT !.op = IF @ = "ticking" THEN "idle" ELSE @]
    /\ UNCHANGED <<slots, slot, thread, recent, world, told>>

-----------------------------------------------------------------------------
Poll == \E o \in Objects : PollSucceeds(o) \/ PollFails(o)
TickGoesOn == Poll \/ Fuse \/ WriteWorldModel \/ (\E a \in Raised : HandleAlert(a)) \/ EndTick

Next ==
    \/ \E n \in Names : Register(n) \/ Unregister(n) \/ Enable(n) \/ Disable(n)
    \/ \E o \in Objects : Ripen(o)
    \/ Start \/ Stop \/ StopReturns
    \/ LoopTick \/ LoopEnds \/ TickOnce \/ TickGoesOn

Spec == Init /\ [][Next]_vars

\* The thread runs, sensors and callbacks return, time passes.
FairSpec ==
    /\ Spec
    /\ WF_vars(LoopTick) /\ WF_vars(LoopEnds) /\ WF_vars(TickGoesOn)
    /\ WF_vars(StopReturns)

-----------------------------------------------------------------------------
(* Properties.                                                             *)

\* Deduplication loses nothing: an alert that is held back because the window
\* of the fusion engine has it was told to on_alert since it entered the
\* window, or is about to be.
NoAlertLost ==
    Past \subseteq told \cup tick.fresh

\* "on_alert: called on every new high-priority alert before the world model
\* is written."  The code breaks it: the facts are written first.
AlertsComeBeforeFacts ==
    tick.fresh # {} => ~world

\* The breaker counts failures in a row of the object it disables, also when
\* the name was registered again, or the slot enabled again, during the poll:
\* it trips for MaxErrors of them and not for fewer, and none that has failed
\* that often stays enabled.
BreakerIsExact ==
    MaxErrors > 0 =>
        \A o \in Objects :
            /\ slot[o].last = "trip" => slot[o].streak >= MaxErrors
            /\ slot[o].last = "poll" /\ slot[o].enabled => slot[o].streak < MaxErrors

\* A start that follows a stop starts the loop, unless the stop gave up on a
\* thread that was still in a poll: that start finds the thread alive.
StartedRuns ==
    caller.wants /\ ~caller.gaveUp => thread.alive /\ ~thread.stop

\* While the loop is wanted every sensor that is enabled and due is polled,
\* whatever the other sensors raise.
EnabledArePolled ==
    \A o \in Objects :
        LET Waiting == /\ \E n \in Names : slots[n] = o
                       /\ slot[o].enabled /\ slot[o].ripe
                       /\ caller.wants /\ ~caller.gaveUp
        IN  Waiting ~> ~Waiting
=============================================================================
