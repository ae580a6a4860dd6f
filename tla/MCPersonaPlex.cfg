\* Two connections, queues smaller than what is put into them.
SPECIFICATION FairVoiceSpec
CONSTANTS
    MaxConnects = 2
    MaxText = 3
    MaxAudio = 1
    TextSize = 2
    InSize = 1
INVARIANTS
    SessionsDoNotOverlap
    AnswerIsFresh
PROPERTIES
    DisconnectEndsThreads
    VoiceCallsEnd
CHECK_DEADLOCK FALSE
