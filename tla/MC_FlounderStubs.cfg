\* MAX_COUNT 12 (payload.c has 1000, empty.c 100): pages 1 to 11 are
\* printed, as pages 100 to 999 and 10 to 99 are.  argv[1] gives every
\* known benchmark type and one unknown one.  Init runs payload.c, empty.c
\* and empty.c built for Beehive.
CONSTANTS
    MaxCount = 12
    ArgTypes = {0, 1, 2, 3, 4, 5, 7}
    None = None
SPECIFICATION Spec
INVARIANT TypeOK
INVARIANT EachPageOneRoundTrip
INVARIANT HijackInStep
PROPERTY BenchmarkEnds
PROPERTY EchoLoopRuns
\* After the results are printed, or a domain aborted, both domains wait in
\* messages_handler_loop for messages that never come.
CHECK_DEADLOCK FALSE
