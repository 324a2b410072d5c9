-------------------------- MODULE MCTelemetryView --------------------------
(* TelemetryView on small instances, each with room for one kind of trouble:  *)
(* blocks found while jobs change, rounds that change under the reporter,     *)
(* shares of a pool, two workers counting at once, workers that fail, and     *)
(* block flows of two sessions.                                               *)
EXTENDS TelemetryView, TLC

CONSTANTS w1, w2, a

Engine(mode, workers) ==
  [mode |-> mode, workers |-> workers, heights |-> {1}, pipe |-> 2, sessions |-> 1,
   installs |-> 1, flows |-> 0, hashes |-> 0, shares |-> 0, troubles |-> 0]

Blocks == [Engine("direct", {w1}) EXCEPT !.sessions = 2, !.installs = 2, !.shares = 1]
Rounds == [Engine("direct", {w1}) EXCEPT !.heights = {1, 2}, !.pipe = 1,
            !.installs = 3, !.hashes = 1]
Shares == [Engine("open pool", {w1}) EXCEPT !.pipe = 1, !.shares = 2, !.hashes = 1]
Counts == [Engine("direct", {w1, w2}) EXCEPT !.pipe = 1, !.shares = 2]
Health == [Engine("direct", {w1, w2}) EXCEPT !.pipe = 1, !.hashes = 1, !.troubles = 2]
Pool   == [Engine("pool", {w1}) EXCEPT !.pipe = 1, !.sessions = 2, !.installs = 2,
            !.troubles = 2]
Flows  == [Engine("direct", {w1}) EXCEPT !.sessions = 2, !.heights = {1, 2}, !.installs = 0,
             !.flows = 3]

MCScopes == {Blocks, Rounds, Shares, Counts, Health, Pool, Flows}
=============================================================================
