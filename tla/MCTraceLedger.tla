---------------------------- MODULE MCTraceLedger ----------------------------
(* Instances of TraceLedger for TLC.                                        *)
EXTENDS TraceLedger

CONSTANTS a, b

Models == (a :> "m") @@ (b :> "n")

\* the gates of a call
Gates == [limit |-> 5, who |-> {a}, events |-> {"approval", "block"}, clock |-> 0, runs |-> 1,
          turns |-> 1, writes |-> 5, faults |-> 0, boots |-> 0]
\* times, waits, days and pruning
Times == [limit |-> 5, who |-> {a}, events |-> {"approval"}, clock |-> 1, runs |-> 1,
          turns |-> 1, writes |-> 4, faults |-> 0, boots |-> 0]
\* what else a request may hold, compactions by hand, and a restart
Notes == [limit |-> 5, who |-> {a}, events |-> {"question", "compaction", "config", "context"}, clock |-> 0,
          runs |-> 2, turns |-> 1, writes |-> 4, faults |-> 0, boots |-> 1]
\* runs of two sessions that are refused or end at once, page after page
Pages == [limit |-> 5, who |-> {a, b}, events |-> {}, clock |-> 1, runs |-> 3, turns |-> 0,
          writes |-> 5, faults |-> 0, boots |-> 0]
\* a queue shorter than a batch, and a storage that fails until the queue gives up
Faults == [limit |-> 1, who |-> {a}, events |-> {"block"}, clock |-> 0, runs |-> 2, turns |-> 1,
           writes |-> 4, faults |-> 2, boots |-> 0]
SomeScenarios == {Gates, Times, Notes, Pages, Faults}
==============================================================================
