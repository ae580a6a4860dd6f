---------------------------- MODULE StreamSession ----------------------------
(***************************************************************************)
(* One StreamSession: the generator that streams from the cognition core,  *)
(* and the operator threads that inject, interrupt, redirect and pause it  *)
(* through two queues and two events, directly or through the manager.     *)
(*                                                                         *)
(* Texts are abstracted to their number: the queues are FIFO, so the k-th  *)
(* injection taken is the k-th one put.  A generation is a finite stream   *)
(* of chunks; the generator runs only while its consumer iterates it.      *)
(***************************************************************************)
EXTENDS Naturals

CONSTANTS
    MaxChunks,    \* bound: chunks of one generation
    MaxInjects,   \* bound: injections
    MaxRedirects, \* bound: redirects
    MaxPauses,    \* bound: pauses
    NoReceipt

ASSUME SessionConstants ==
    /\ MaxChunks \in Nat /\ MaxInjects \in Nat
    /\ MaxRedirects \in Nat /\ MaxPauses \in Nat

VARIABLES
    gen,     \* the generator's frame and what it has taken and yielded
    ops,     \* what the operators have put, and the manager's table
    stop,    \* _stop_event
    paused,  \* ~_pause_event
    receipt, \* _final_receipt
    since    \* history: chunks yielded since the stop was set, since pause()

streamVars == <<gen, ops, stop, paused, receipt, since>>

Running == {"opening", "pulling", "gate", "stop_check", "redirect_check", "inject_check",
            "suspended", "outer", "clear", "closing", "publishing"}
Final == {"ended", "raised", "abandoned"}

Generator ==
    [stage : Running \cup Final,
     resumeAt : {"opening", "pulling", "outer", "clear"}, \* after the pending yield
     chunks : 0..MaxChunks,       \* pulled in this generation
     last : BOOLEAN,              \* the done flag of the chunk in hand
     surfaced : 0..MaxInjects,    \* injections taken from the queue
     served : 0..MaxRedirects,    \* _redirect_count: redirects taken
     sawStop : BOOLEAN,           \* the receipt's first look at _stop_event
     pulled : Nat, emitted : Nat, \* history: chunks of all generations
     cause : {"none", "done", "stop", "redirect"}] \* history: how the last one ended

Operators ==
    [injected : 0..MaxInjects,    \* puts on _injection_queue
     logged : 0..MaxInjects,      \* Len(_injections): appended after the put
     redirected : 0..MaxRedirects,
     registered : BOOLEAN,        \* the manager finds the session under its id
     pauses : 0..MaxPauses,
     lastWord : {"none", "interrupt", "redirect"}] \* history

Receipt == [interrupted : BOOLEAN, injections : Nat, redirects : Nat,
            status : {"complete", "interrupted", "redirected"}]

StreamTypeOK ==
    /\ gen \in Generator
    /\ ops \in Operators
    /\ gen.surfaced <= ops.injected /\ ops.logged <= ops.injected
    /\ gen.served <= ops.redirected
    /\ stop \in BOOLEAN /\ paused \in BOOLEAN
    /\ receipt \in Receipt \cup {NoReceipt}
    /\ since \in [stop : Nat, pause : Nat]

StreamInit ==
    /\ gen = [stage |-> "opening", resumeAt |-> "opening", chunks |-> 0, last |-> FALSE,
              surfaced |-> 0, served |-> 0, sawStop |-> FALSE,
              pulled |-> 0, emitted |-> 0, cause |-> "none"]
    /\ ops = [injected |-> 0, logged |-> 0, redirected |-> 0, registered |-> TRUE,
              pauses |-> 0, lastWord |-> "none"]
    /\ stop = FALSE
    /\ paused = FALSE
    /\ receipt = NoReceipt
    /\ since = [stop |-> 0, pause |-> 0]

-----------------------------------------------------------------------------
(* The generator: stream() and _run_generation().  A yield hands control   *)
(* to the consumer, and the frame waits as "suspended".                    *)

outside == <<ops, paused>>

OpenStream ==
    /\ gen.stage = "opening"
    /\ gen' = [gen EXCEPT !.stage = "pulling", !.chunks = 0]
    /\ UNCHANGED <<stop, receipt, since, outside>>

Pull ==
    /\ gen.stage = "pulling"
    /\ gen.chunks < MaxChunks
    /\ \E last \in BOOLEAN :
          gen' = [gen EXCEPT !.stage = "gate", !.chunks = @ + 1, !.pulled = @ + 1,
                             !.last = last]
    /\ UNCHANGED <<stop, receipt, since, outside>>

\* Mutant: a stream that ends without a done chunk is waited for.
ExhaustedWhenDone ==
    /\ gen.stage = "pulling"
    /\ gen.last
    /\ gen' = [gen EXCEPT !.stage = "outer", !.cause = "done"]
    /\ UNCHANGED <<stop, receipt, since, outside>>

\* The core's stream ends without a done chunk.
Exhausted ==
    /\ gen.stage = "pulling"
    /\ gen' = [gen EXCEPT !.stage = "outer", !.cause = "done"]
    /\ UNCHANGED <<stop, receipt, since, outside>>

\* Every tier of the core failed: the exception leaves stream() as it is.
Raise ==
    /\ gen.stage = "pulling"
    /\ gen' = [gen EXCEPT !.stage = "raised"]
    /\ UNCHANGED <<stop, receipt, since, outside>>

\* Mutant: chunks are thrown away while paused.
GateDiscarding ==
    /\ gen.stage = "gate"
    /\ gen' = [gen EXCEPT !.stage = IF paused THEN "pulling" ELSE "stop_check"]
    /\ UNCHANGED <<stop, receipt, since, outside>>

\* _pause_event.wait()
Gate ==
    /\ gen.stage = "gate"
    /\ ~paused
    /\ gen' = [gen EXCEPT !.stage = "stop_check"]
    /\ UNCHANGED <<stop, receipt, since, outside>>

\* Mutant: the stop event is looked at only on the first chunk.
CheckStopOnce ==
    /\ gen.stage = "stop_check"
    /\ gen' = IF stop /\ gen.chunks = 1
              THEN [gen EXCEPT !.stage = "suspended", !.resumeAt = "outer", !.cause = "stop"]
              ELSE [gen EXCEPT !.stage = "redirect_check"]
    /\ UNCHANGED <<stop, receipt, since, outside>>

CheckStop ==
    /\ gen.stage = "stop_check"
    /\ gen' = IF stop
              THEN [gen EXCEPT !.stage = "suspended", !.resumeAt = "outer", !.cause = "stop"]
              ELSE [gen EXCEPT !.stage = "redirect_check"]
    /\ UNCHANGED <<stop, receipt, since, outside>>

CheckRedirect ==
    /\ gen.stage = "redirect_check"
    /\ gen' = IF ops.redirected > gen.served
              THEN [gen EXCEPT !.stage = "outer", !.cause = "redirect"]
              ELSE [gen EXCEPT !.stage = "inject_check"]
    /\ UNCHANGED <<stop, receipt, since, outside>>

\* An injection replaces the chunk in hand: the marker is yielded and the
\* rest of the session is a new generation from the rebuilt prompt.
Surface ==
    /\ gen.stage = "inject_check"
    /\ ops.injected > gen.surfaced
    /\ gen' = [gen EXCEPT !.stage = "suspended", !.resumeAt = "opening",
                          !.surfaced = @ + 1]
    /\ UNCHANGED <<stop, receipt, since, outside>>

Emit ==
    /\ gen.stage = "inject_check"
    /\ ops.injected = gen.surfaced
    /\ gen' = [gen EXCEPT !.stage = "suspended", !.emitted = @ + 1,
                          !.resumeAt = IF gen.last THEN "outer" ELSE "pulling",
                          !.cause = IF gen.last THEN "done" ELSE @]
    /\ since' = [stop |-> IF stop THEN since.stop + 1 ELSE 0,
                 pause |-> IF paused THEN since.pause + 1 ELSE 0]
    /\ UNCHANGED <<stop, receipt, outside>>

Serve ==
    /\ gen.stage = "outer"
    /\ ops.redirected > gen.served
    /\ gen' = [gen EXCEPT !.stage = "suspended", !.resumeAt = "clear", !.served = @ + 1]
    /\ UNCHANGED <<stop, receipt, since, outside>>

\* The event is cleared whatever set it, and whenever.
ClearStop ==
    /\ gen.stage = "clear"
    /\ stop' = FALSE
    /\ since' = [since EXCEPT !.stop = 0]
    /\ gen' = [gen EXCEPT !.stage = "opening"]
    /\ UNCHANGED <<receipt, outside>>

Leave ==
    /\ gen.stage = "outer"
    /\ ops.redirected = gen.served
    /\ gen' = [gen EXCEPT !.stage = "closing"]
    /\ UNCHANGED <<stop, receipt, since, outside>>

\* The receipt's arguments are evaluated one by one, _stop_event twice.
ReadStop ==
    /\ gen.stage = "closing"
    /\ gen' = [gen EXCEPT !.stage = "publishing", !.sawStop = stop]
    /\ UNCHANGED <<stop, receipt, since, outside>>

Publish ==
    /\ gen.stage = "publishing"
    /\ receipt' = [interrupted |-> gen.sawStop, injections |-> ops.logged,
                   redirects |-> gen.served,
                   status |-> IF stop THEN "interrupted"
                              ELSE IF gen.served > 0 THEN "redirected" ELSE "complete"]
    /\ gen' = [gen EXCEPT !.stage = "ended"]
    /\ UNCHANGED <<stop, since, outside>>

-----------------------------------------------------------------------------
(* The consumer: it asks for the next event, or drops the generator, which *)
(* unwinds at its yield.                                                   *)

Iterate ==
    /\ gen.stage = "suspended"
    /\ gen' = [gen EXCEPT !.stage = gen.resumeAt]
    /\ UNCHANGED <<stop, receipt, since, outside>>

AbandonStream ==
    /\ gen.stage = "suspended"
    /\ gen' = [gen EXCEPT !.stage = "abandoned"]
    /\ UNCHANGED <<stop, receipt, since, outside>>

-----------------------------------------------------------------------------
(* The operators' threads.  They hold the session, or reach it by its id   *)
(* while the manager has it; only close and begin need it registered.      *)

Inject ==
    /\ ops.injected < MaxInjects
    /\ ops' = [ops EXCEPT !.injected = @ + 1]
    /\ UNCHANGED <<gen, stop, paused, receipt, since>>

\* The second statement of inject(), in its own thread.
LogInjection ==
    /\ ops.logged < ops.injected
    /\ ops' = [ops EXCEPT !.logged = @ + 1]
    /\ UNCHANGED <<gen, stop, paused, receipt, since>>

Redirect ==
    /\ ops.redirected < MaxRedirects
    /\ ops' = [ops EXCEPT !.redirected = @ + 1, !.lastWord = "redirect"]
    /\ UNCHANGED <<gen, stop, paused, receipt, since>>

Interrupt ==
    /\ stop' = TRUE
    /\ ops' = [ops EXCEPT !.lastWord = "interrupt"]
    /\ UNCHANGED <<gen, paused, receipt, since>>

\* close() pops the session, interrupts it and returns the receipt there is.
Close ==
    /\ ops.registered
    /\ stop' = TRUE
    /\ ops' = [ops EXCEPT !.lastWord = "interrupt", !.registered = FALSE]
    /\ UNCHANGED <<gen, paused, receipt, since>>

\* begin() under the same id replaces the session in the manager's table.
Displace ==
    /\ ops.registered
    /\ ops' = [ops EXCEPT !.registered = FALSE]
    /\ UNCHANGED <<gen, stop, paused, receipt, since>>

Pause ==
    /\ ~paused
    /\ ops.pauses < MaxPauses
    /\ paused' = TRUE
    /\ ops' = [ops EXCEPT !.pauses = @ + 1]
    /\ since' = [since EXCEPT !.pause = 0]
    /\ UNCHANGED <<gen, stop, receipt>>

Resume == paused /\ paused' = FALSE /\ UNCHANGED <<gen, ops, stop, receipt, since>>

-----------------------------------------------------------------------------

Generate ==
    \/ OpenStream \/ Pull \/ Exhausted \/ Gate \/ CheckStop \/ CheckRedirect
    \/ Surface \/ Emit \/ Serve \/ ClearStop \/ Leave \/ ReadStop \/ Publish

Operate ==
    \/ Inject \/ LogInjection \/ Redirect \/ Interrupt \/ Close \/ Displace
    \/ Pause \/ Resume

StreamNext == Generate \/ Raise \/ Iterate \/ AbandonStream \/ Operate

StreamSpec == StreamInit /\ [][StreamNext]_streamVars

\* The generator's thread runs, and its consumer iterates or gives up.
FairStreamSpec == StreamSpec /\ WF_streamVars(Generate) /\ WF_streamVars(Iterate)

-----------------------------------------------------------------------------
(* Properties.                                                             *)

(* interrupt() is prompt: at most the chunk already past the check is      *)
(* still yielded, however many injections arrive meanwhile.                *)
StopIsPrompt == since.stop <= 1

(* So is pause(): "tokens stop flowing until resume() is called", but for  *)
(* the one chunk already past the gate.                                    *)
PauseIsPrompt == since.pause <= 1

(* Both kinds of control, interrupt() and pause().                         *)
ControlIsPrompt == StopIsPrompt /\ PauseIsPrompt

(* The session loses a chunk of the core only to a control event: one for  *)
(* each injection, at most one for each redirect and one for the interrupt *)
(* that ends it.                                                           *)
ChunksAreAccounted ==
    LET stopped == IF gen.cause = "stop" THEN 1 ELSE 0
    IN receipt # NoReceipt =>
           gen.pulled - gen.emitted \in gen.surfaced .. (gen.surfaced + gen.served + stopped)

(* A receipt never calls a cut-off answer complete: unless it says         *)
(* interrupted, in both its fields, the last generation reached its end,   *)
(* and a generation abandoned for a redirect was followed by it.           *)
ReceiptIsHonest ==
    receipt # NoReceipt =>
        /\ receipt.interrupted => receipt.status = "interrupted"
        /\ receipt.status # "interrupted" => gen.cause = "done"
        /\ receipt.redirects = gen.served /\ gen.cause # "redirect"

(* What a receipt says is so, and it says all that was lost.               *)
ReceiptsAreExact == ChunksAreAccounted /\ ReceiptIsHonest

(* Every session ends, with a receipt unless the core failed or the        *)
(* consumer gave up, if it is not left paused for ever.                    *)
SessionEnds == <>[]paused \/ <>(gen.stage \in Final)

(* What interrupt() promises ("stop generation cleanly"): the stop it asks *)
(* for is not taken back by anything but a redirect asked for later.  The  *)
(* code breaks it: the redirect served clears the stop that came after it. *)
InterruptIsKept == [][ops.lastWord = "interrupt" /\ stop => stop']_streamVars
=============================================================================
