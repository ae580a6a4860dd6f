--------------------------- MODULE LlamafileProcess ---------------------------
(***************************************************************************)
(* The managed llamafile server: LlamafileProcessManager starts it for the *)
(* first prompt, LlamafileBackend streams through it and stops it unless   *)
(* it is to be kept alive.  Several callers may stream at once; nothing is *)
(* locked.                                                                 *)
(*                                                                         *)
(* All servers of a manager are given one port: the first to bind it       *)
(* serves, a later one exits, and the readiness probe asks the port.       *)
(***************************************************************************)
EXTENDS Naturals, FiniteSets, Sequences

CONSTANTS
    Callers,
    Operator  \* the caller in the main thread, where Ctrl-C arrives

VARIABLES
    servers,   \* the processes started, in order
    handle,    \* _managed: the server remembered, or 0
    keepAlive, \* configuration
    frame,     \* each caller's stream_generate
    history    \* whether a start was given up, whether two callers met

manager == <<servers, handle, keepAlive, frame, history>>

ASSUME ManagerConstants == IsFiniteSet(Callers) /\ Operator \in Callers

Frame == [stage : {"out", "resolving", "waiting", "streaming", "finally", "forgetting"},
          proc : Nat,  \* the server this caller has started and waits for
          outcome : {"none", "done", "failed", "interrupted"}]

ManagerTypeOK ==
    /\ servers \in Seq({"starting", "serving", "dead"})
    /\ handle \in 0..Len(servers)
    /\ keepAlive \in BOOLEAN
    /\ frame \in [Callers -> Frame]
    /\ \A c \in Callers : frame[c].proc <= Len(servers)
    /\ history \in [abandoned : BOOLEAN, met : BOOLEAN]

NoFrame == [stage |-> "out", proc |-> 0, outcome |-> "none"]

ManagerInit ==
    /\ servers = <<>>
    /\ handle = 0
    /\ keepAlive \in BOOLEAN
    /\ frame = [c \in Callers |-> NoFrame]
    /\ history = [abandoned |-> FALSE, met |-> FALSE]

Alive(s) == servers[s] # "dead"
Serving == \E s \in DOMAIN servers : servers[s] = "serving"
InBackend == {c \in Callers : frame[c].stage # "out"}

-----------------------------------------------------------------------------
(* A caller.                                                               *)

\* The consumer asks the generator for its first event.
EnterBackend(c) ==
    /\ frame' = [frame EXCEPT ![c] = [NoFrame EXCEPT !.stage = "resolving"]]
    /\ history' = [history EXCEPT !.met = @ \/ InBackend # {}]
    /\ UNCHANGED <<servers, handle, keepAlive>>

Warm == handle # 0 /\ Alive(handle)

Reuse(c) ==
    /\ frame[c].stage = "resolving"
    /\ Warm
    /\ frame' = [frame EXCEPT ![c].stage = "streaming"]
    /\ UNCHANGED <<servers, handle, keepAlive, history>>

\* The new server is in no one's hands but this caller's.
Start(c) ==
    /\ frame[c].stage = "resolving"
    /\ ~Warm
    /\ servers' = Append(servers, "starting")
    /\ frame' = [frame EXCEPT ![c].stage = "waiting", ![c].proc = Len(servers) + 1]
    /\ UNCHANGED <<handle, keepAlive, history>>

\* Whoever answers on the port.
Ready(c) ==
    /\ frame[c].stage = "waiting"
    /\ Serving
    /\ handle' = frame[c].proc
    /\ frame' = [frame EXCEPT ![c].stage = "streaming", ![c].proc = 0]
    /\ UNCHANGED <<servers, keepAlive, history>>

\* The exception, or Ctrl-C, leaves the started server behind.
StartGivenUp(c, outcome) ==
    /\ frame[c].stage = "waiting"
    /\ frame' = [frame EXCEPT ![c] = [NoFrame EXCEPT !.outcome = outcome]]
    /\ history' = [history EXCEPT !.abandoned = TRUE]
    /\ UNCHANGED <<servers, handle, keepAlive>>

StartTimesOut(c) == ~Serving /\ StartGivenUp(c, "failed")

Leave(c, outcome) ==
    /\ frame[c].stage = "streaming"
    /\ frame' = [frame EXCEPT ![c].stage = "finally", ![c].outcome = outcome]
    /\ UNCHANGED <<servers, handle, keepAlive, history>>

\* Mutant: only a stream that reached its end comes to the finally clause.
LeaveUnfinished(c, outcome) ==
    /\ frame[c].stage = "streaming"
    /\ frame' = [frame EXCEPT ![c] = [NoFrame EXCEPT !.outcome = outcome]]
    /\ UNCHANGED <<servers, handle, keepAlive, history>>

\* The last event is made up when the lines end, however they end.
StreamEnds(c) == Leave(c, "done")

FailWithoutFinally(c) == LeaveUnfinished(c, "failed")

\* An HTTP error, a broken connection, or silence for stream_idle_timeout.
StreamFails(c) == Leave(c, "failed")

Interrupt(c) ==
    /\ c = Operator
    /\ Leave(c, "interrupted") \/ StartGivenUp(c, "interrupted")

Kept(c) ==
    /\ frame[c].stage = "finally"
    /\ keepAlive \/ handle = 0
    /\ frame' = [frame EXCEPT ![c].stage = "out"]
    /\ UNCHANGED <<servers, handle, keepAlive, history>>

\* stop(): the server of the handle ends, and some time later the handle,
\* whatever it is by then, is cleared.
Terminate(c) ==
    /\ frame[c].stage = "finally"
    /\ ~keepAlive /\ handle # 0
    /\ servers' = [servers EXCEPT ![handle] = "dead"]
    /\ frame' = [frame EXCEPT ![c].stage = "forgetting"]
    /\ UNCHANGED <<handle, keepAlive, history>>

Forget(c) ==
    /\ frame[c].stage = "forgetting"
    /\ handle' = 0
    /\ frame' = [frame EXCEPT ![c].stage = "out"]
    /\ UNCHANGED <<servers, keepAlive, history>>

Stream(c) ==
    \/ Reuse(c) \/ Start(c) \/ Ready(c) \/ StartTimesOut(c) \/ StreamEnds(c)
    \/ StreamFails(c) \/ Kept(c) \/ Terminate(c) \/ Forget(c)

-----------------------------------------------------------------------------
(* The servers.                                                            *)

Becomes(s, state) ==
    /\ servers' = [servers EXCEPT ![s] = state]
    /\ UNCHANGED <<handle, keepAlive, frame, history>>

Binds(s) == servers[s] = "starting" /\ ~Serving /\ Becomes(s, "serving")
PortTaken(s) == servers[s] = "starting" /\ Serving /\ Becomes(s, "dead")
Dies(s) == Alive(s) /\ Becomes(s, "dead")

Serve == \E s \in DOMAIN servers : Binds(s) \/ PortTaken(s) \/ Dies(s)

-----------------------------------------------------------------------------

Calm == ~history.abandoned /\ ~history.met

(* Servers are not started one beside the other: while no start has been   *)
(* given up and no two callers met, there is at most one, and it is the    *)
(* one remembered or the one being waited for.                             *)
OneServer ==
    Calm => \A s \in DOMAIN servers :
                Alive(s) => s = handle \/ \E c \in Callers : frame[c].proc = s

(* "Keep the process warm or stop it based on policy": under the same      *)
(* conditions a server that is not to be kept is gone once its prompt is.  *)
StoppedByPolicy ==
    Calm /\ ~keepAlive /\ InBackend = {} => \A s \in DOMAIN servers : ~Alive(s)

(* Servers are kept as the policy says: at most one beside the callers'    *)
(* own, and none for longer than it is wanted.                             *)
ServersAreKept == OneServer /\ StoppedByPolicy
=============================================================================
