---------------------------- MODULE MCSessionStore ----------------------------
\* Instances of SessionStore for TLC: one calm environment, deep enough for a
\* crash during the repair of a crash, and shallower ones with the faults.
EXTENDS SessionStore

Peace == [polls |-> TRUE, overlap |-> FALSE, rewriteCrash |-> FALSE,
          ioFaults |-> FALSE, oddPayloads |-> FALSE,
          maxEvents |-> 5, maxCrashes |-> 2]

Faulty == [polls |-> TRUE, overlap |-> TRUE, rewriteCrash |-> TRUE,
           ioFaults |-> TRUE, oddPayloads |-> TRUE,
           maxEvents |-> 2, maxCrashes |-> 1]

\* Undo beside an unwinding turn, and writes that fail, each on its own and
\* on longer logs.
Overlapping == [Peace EXCEPT !.overlap = TRUE, !.maxEvents = 3, !.maxCrashes = 1]
Failing == [Peace EXCEPT !.ioFaults = TRUE, !.maxEvents = 3, !.maxCrashes = 1]

MCEnvironments == {Peace, Faulty, Overlapping, Failing}
===============================================================================
