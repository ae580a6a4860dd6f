----------------------------- MODULE PersonaPlex -----------------------------
(***************************************************************************)
(* The voice bridge: one PersonaPlexConnection and the three adapters that *)
(* share it.  Every connect() starts a reader thread of its own, which     *)
(* starts a writer thread; all of them share one stop event, one connected *)
(* flag and the queues.  The ears (perception) and the mind (cognition)    *)
(* take from the same text queue, the mouth (voice output) plays audio.    *)
(*                                                                         *)
(* A chunk of text is "new" if it came in since the mind's last stream was *)
(* begun and "old" otherwise.  Audio frames and what is sent are counted.  *)
(***************************************************************************)
EXTENDS Integers, Sequences, FiniteSets

CONSTANTS
    MaxConnects, \* bound: calls of connect()
    MaxText,     \* bound: text frames of the server, which then falls silent
    MaxAudio,    \* bound: its audio frames
    TextSize,    \* maxsize of _text_out_queue (256)
    InSize       \* maxsize of _audio_in_queue (64)

ASSUME VoiceConstants ==
    /\ {MaxConnects, MaxText, MaxAudio} \subseteq Nat
    /\ {TextSize, InSize} \subseteq Nat \ {0}

VARIABLES
    conn,    \* the threads of each connect(); its socket is open while the reader talks
    flags,   \* _stop_event, _connected
    queues,  \* text and audio from the server; what waits to be sent
    dialer,  \* who connects and disconnects
    role,    \* the three adapters
    server   \* environment: frames sent so far

voiceVars == <<conn, flags, queues, dialer, role, server>>

Sessions == 1..MaxConnects
Used == {k \in Sessions : conn[k].reader # "none"}
Latest == Cardinality(Used)
Alive(k) == conn[k].reader \notin {"none", "gone"}

VoiceTypeOK ==
    /\ conn \in [Sessions -> [reader : {"none", "opening", "talking", "closing", "gone"},
                              writer : {"none", "writing", "gone"}]]
    /\ flags \in [stop : BOOLEAN, connected : BOOLEAN]
    /\ queues.text \in Seq({"old", "new"}) /\ Len(queues.text) <= TextSize
    /\ queues.audio \in 0..MaxAudio /\ queues.in \in 0..InSize
    /\ dialer \in [op : {"idle", "connecting", "joining"},
                   gaveUp : BOOLEAN] \* history: a wait timed out on a living thread
    /\ role \in [ears : BOOLEAN, mouth : BOOLEAN,
                 mind : {"idle", "flushing", "listening"},
                 heard : BOOLEAN,    \* seq > 0
                 stale : BOOLEAN]    \* history: an old chunk in an answer
    /\ server \in [text : 0..MaxText, audio : 0..MaxAudio]

VoiceInit ==
    /\ conn = [k \in Sessions |-> [reader |-> "none", writer |-> "none"]]
    /\ flags = [stop |-> FALSE, connected |-> FALSE]
    /\ queues = [text |-> <<>>, audio |-> 0, in |-> 0]
    /\ dialer = [op |-> "idle", gaveUp |-> FALSE]
    /\ role = [ears |-> FALSE, mouth |-> FALSE, mind |-> "idle", heard |-> FALSE, stale |-> FALSE]
    /\ server = [text |-> 0, audio |-> 0]

-----------------------------------------------------------------------------
(* connect() and disconnect().                                             *)

\* Called by one who sees that there is no connection, whatever became of
\* the threads of the last one.
Connect ==
    /\ dialer.op = "idle" /\ ~flags.connected /\ Latest < MaxConnects
    /\ flags' = [flags EXCEPT !.stop = FALSE]
    /\ conn' = [conn EXCEPT ![Latest + 1].reader = "opening"]
    /\ dialer' = [dialer EXCEPT !.op = "connecting"]
    /\ UNCHANGED <<queues, role, server>>

Disconnect ==
    /\ dialer.op = "idle" /\ Latest > 0
    /\ flags' = [flags EXCEPT !.stop = TRUE]
    /\ dialer' = [dialer EXCEPT !.op = "joining"]
    /\ UNCHANGED <<conn, queues, role, server>>

\* The wait ends, or times out with the thread alive.
Waited(ended) ==
    /\ dialer' = [op |-> "idle", gaveUp |-> dialer.gaveUp \/ (~ended /\ Alive(Latest))]
    /\ UNCHANGED <<conn, queues, role, server>>

ConnectReturns ==
    /\ dialer.op = "connecting"
    /\ Waited(flags.connected)
    /\ UNCHANGED flags

\* Mutant: disconnect() does not wait for the thread.
DisconnectAtOnce ==
    /\ dialer.op = "joining"
    /\ Waited(TRUE)
    /\ flags' = [flags EXCEPT !.connected = FALSE]

DisconnectReturns ==
    /\ dialer.op = "joining"
    /\ Waited(~Alive(Latest))
    /\ flags' = [flags EXCEPT !.connected = FALSE]

-----------------------------------------------------------------------------
(* The threads of a connection.                                            *)

Threads == <<dialer, role>>

Open(k) ==
    /\ conn[k].reader = "opening"
    /\ conn' = [conn EXCEPT ![k] = [reader |-> "talking", writer |-> "writing"]]
    /\ flags' = [flags EXCEPT !.connected = TRUE]
    /\ UNCHANGED <<queues, server, Threads>>

Close(k) ==
    /\ conn' = [conn EXCEPT ![k].reader = "closing"]
    /\ UNCHANGED <<flags, queues, server, Threads>>

Refused(k) == conn[k].reader = "opening" /\ Close(k)

Breaks(k) == conn[k].reader = "talking" /\ Close(k)

\* The loop is left, the writer waited for or not.
StopReading(k) == conn[k].reader = "talking" /\ flags.stop /\ Close(k)

\* The finally clause: the flag is lowered, whoever raised it.
EndThread(k) ==
    /\ conn[k].reader = "closing"
    /\ conn' = [conn EXCEPT ![k].reader = "gone"]
    /\ flags' = [flags EXCEPT !.connected = FALSE]
    /\ UNCHANGED <<queues, server, Threads>>

\* put_nowait: a chunk that does not fit is dropped.
Put(queue, chunk) == IF Len(queue) < TextSize THEN Append(queue, chunk) ELSE queue

ReadText(k) ==
    /\ conn[k].reader = "talking" /\ server.text < MaxText
    /\ server' = [server EXCEPT !.text = @ + 1]
    /\ queues' = [queues EXCEPT !.text = Put(@, "new")]
    /\ UNCHANGED <<conn, flags, Threads>>

ReadAudio(k) ==
    /\ conn[k].reader = "talking" /\ server.audio < MaxAudio
    /\ server' = [server EXCEPT !.audio = @ + 1]
    /\ queues' = [queues EXCEPT !.audio = @ + 1]
    /\ UNCHANGED <<conn, flags, Threads>>

\* The stop event is looked at before the wait for a frame: one may still be
\* taken after it.  A writer whose socket is gone loses its frame, and ends.
Write(k) ==
    /\ conn[k].writer = "writing" /\ queues.in > 0
    /\ queues' = [queues EXCEPT !.in = @ - 1]
    /\ conn' = [conn EXCEPT ![k].writer =
                   IF conn[k].reader = "talking" /\ ~flags.stop THEN @ ELSE "gone"]
    /\ UNCHANGED <<flags, server, Threads>>

\* Mutant: a writer that waits for a frame does not look at the stop event.
EndIdleWriter(k) ==
    /\ conn[k].writer = "writing" /\ flags.stop /\ queues.in > 0
    /\ conn' = [conn EXCEPT ![k].writer = "gone"]
    /\ UNCHANGED <<flags, queues, server, Threads>>

EndWriter(k) ==
    /\ conn[k].writer = "writing" /\ flags.stop
    /\ conn' = [conn EXCEPT ![k].writer = "gone"]
    /\ UNCHANGED <<flags, queues, server, Threads>>

-----------------------------------------------------------------------------
(* The three adapters.                                                     *)

Outside == <<conn, flags, dialer, server>>

\* send_text and send_audio_frame: dropped when the queue is full.
Send(qs) == [qs EXCEPT !.in = IF @ < InSize THEN @ + 1 ELSE @]

Take(qs) == [qs EXCEPT !.text = Tail(@)]

\* A frame of the microphone, or a persona: that of perform is sent before
\* it finds no connection.
Microphone ==
    /\ queues.in < InSize
    /\ queues' = Send(queues)
    /\ UNCHANGED <<role, Outside>>

HearBegin ==
    /\ ~role.ears /\ flags.connected
    /\ role' = [role EXCEPT !.ears = TRUE]
    /\ UNCHANGED <<queues, Outside>>

\* Every chunk that is there, those that answer the mind among them.
Hear ==
    /\ role.ears /\ queues.text # <<>>
    /\ queues' = Take(queues)
    /\ UNCHANGED <<role, Outside>>

HearEnd ==
    /\ role.ears /\ queues.text = <<>>
    /\ role' = [role EXCEPT !.ears = FALSE]
    /\ UNCHANGED <<queues, Outside>>

\* Without a connection the stream is one last event with an apology.
AskBegin ==
    /\ role.mind = "idle" /\ flags.connected
    /\ role' = [role EXCEPT !.mind = "flushing"]
    /\ queues' = [queues EXCEPT !.text = [i \in DOMAIN @ |-> "old"]]
    /\ UNCHANGED Outside

\* Mutant: one chunk is flushed, not all.
FlushOne ==
    /\ role.mind = "flushing"
    /\ queues' = Send(IF queues.text = <<>> THEN queues ELSE Take(queues))
    /\ role' = [role EXCEPT !.mind = "listening"]
    /\ UNCHANGED Outside

\* Until the queue is empty; then the prompt is sent.
Flush ==
    /\ role.mind = "flushing"
    /\ IF queues.text # <<>>
       THEN queues' = Take(queues) /\ UNCHANGED role
       ELSE queues' = Send(queues) /\ role' = [role EXCEPT !.mind = "listening"]
    /\ UNCHANGED Outside

Listen ==
    /\ role.mind = "listening" /\ queues.text # <<>>
    /\ role' = [role EXCEPT !.heard = TRUE, !.stale = @ \/ Head(queues.text) = "old"]
    /\ queues' = Take(queues)
    /\ UNCHANGED Outside

\* Mutant: only the silence after some text ends a stream.
AnswerEndsAfterText ==
    /\ role.mind = "listening" /\ queues.text = <<>> /\ role.heard
    /\ role' = [role EXCEPT !.mind = "idle", !.heard = FALSE]
    /\ UNCHANGED <<queues, Outside>>

\* Silence after some text, or no text until the deadline: either is a last
\* event, and a success to the caller.
AnswerEnds ==
    /\ role.mind = "listening" /\ queues.text = <<>>
    /\ role' = [role EXCEPT !.mind = "idle", !.heard = FALSE]
    /\ UNCHANGED <<queues, Outside>>

\* The consumer of the stream closes it after an event.
Leave ==
    /\ role.mind = "listening" /\ role.heard
    /\ role' = [role EXCEPT !.mind = "idle", !.heard = FALSE]
    /\ UNCHANGED <<queues, Outside>>

\* perform: the text is sent, with a new persona before it or not.
SpeakBegin ==
    /\ ~role.mouth /\ flags.connected
    /\ \E persona \in BOOLEAN : queues' = IF persona THEN Send(Send(queues)) ELSE Send(queues)
    /\ role' = [role EXCEPT !.mouth = TRUE]
    /\ UNCHANGED Outside

Speak ==
    /\ role.mouth /\ queues.audio > 0
    /\ queues' = [queues EXCEPT !.audio = @ - 1]
    /\ UNCHANGED <<role, Outside>>

SpeakEnd ==
    /\ role.mouth /\ queues.audio = 0
    /\ role' = [role EXCEPT !.mouth = FALSE]
    /\ UNCHANGED <<queues, Outside>>

-----------------------------------------------------------------------------
Mind == Flush \/ Listen \/ AnswerEnds
Ears == Hear \/ HearEnd
Mouth == Speak \/ SpeakEnd

VoiceNext ==
    \/ Connect \/ ConnectReturns \/ Disconnect \/ DisconnectReturns
    \/ \E k \in Sessions : \/ Open(k) \/ Refused(k) \/ Breaks(k) \/ StopReading(k) \/ EndThread(k)
                           \/ ReadText(k) \/ ReadAudio(k) \/ Write(k) \/ EndWriter(k)
    \/ Microphone \/ HearBegin \/ AskBegin \/ Leave \/ SpeakBegin
    \/ Mind \/ Ears \/ Mouth

VoiceSpec == VoiceInit /\ [][VoiceNext]_voiceVars

\* A thread that can go on goes on, a handshake ends, waits time out.
FairVoiceSpec ==
    /\ VoiceSpec
    /\ WF_voiceVars(ConnectReturns) /\ WF_voiceVars(DisconnectReturns)
    /\ WF_voiceVars(Mind) /\ WF_voiceVars(Ears) /\ WF_voiceVars(Mouth)
    /\ \A k \in Sessions : /\ WF_voiceVars(Open(k) \/ Refused(k)) /\ WF_voiceVars(StopReading(k))
                           /\ WF_voiceVars(EndThread(k)) /\ WF_voiceVars(EndWriter(k))

-----------------------------------------------------------------------------
(* Properties.                                                             *)

\* The connected flag is lowered by whichever thread ends and the stop event
\* is cleared by the next connect(): as long as no wait for a thread has
\* timed out, one connection lives at a time and its flag is up.
SessionsDoNotOverlap ==
    ~dialer.gaveUp =>
        /\ \A j, k \in Sessions : Alive(j) /\ Alive(k) => j = k
        /\ \A k \in Sessions : conn[k].reader = "talking" => flags.connected

\* The ears and the mind share a queue, which is flushed before the prompt is
\* sent: no chunk from before the stream is part of its answer.
AnswerIsFresh == ~role.stale

\* disconnect() ends every thread of every connection, also one that was
\* still in its handshake, and the flag stays down, unless connect() follows.
DisconnectEndsThreads ==
    flags.stop ~> \/ ~flags.stop
                  \/ /\ \A k \in Sessions : ~Alive(k) /\ conn[k].writer # "writing"
                     /\ ~flags.connected

\* A stream ends although the ears took its answer, its prompt was dropped at
\* a full queue or lost by the writer of a broken connection, or the
\* connection is gone; so do the reports of the ears and the speech.
VoiceCallsEnd ==
    /\ role.mind # "idle" ~> role.mind = "idle"
    /\ role.ears ~> ~role.ears
    /\ role.mouth ~> ~role.mouth
=============================================================================
