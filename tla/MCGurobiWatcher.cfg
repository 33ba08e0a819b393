SPECIFICATION PromptSpec

INVARIANT TypeOK
INVARIANT NoLostWakeup
INVARIANT NoStrayTerminate
PROPERTY AnswerNotHeldBack
PROPERTY ImplementsChunk
PROPERTY CtrlCStopsSearch
