----------------------- MODULE MCTransportGenerations -----------------------
EXTENDS TransportGenerations, TLC

CONSTANTS read, write, c1

Situation(before, after, needs, own, lost, failed) ==
  [before |-> before, after |-> after, needs |-> needs, owner |-> own,
   revokes |-> FALSE, closes |-> FALSE, moves |-> IF before = after THEN 0 ELSE 1,
   lost |-> lost, failed |-> failed]

Nobody == << >>

\* What Auth grants grows, shrinks or stays; sockets are lost, openings and adoptions
\* fail; the session is retired; an owner attaches; the connection is closed.
Loads_MC ==
  {[Situation({read}, {read, write}, Nobody, "start", 1, 0) EXCEPT !.revokes = TRUE],
   [Situation({read}, {read, write}, Nobody, "start", 0, 0) EXCEPT !.moves = 2],
   Situation({read}, {read, write}, c1 :> write, "start", 0, 1),
   Situation({read, write}, {read}, c1 :> write, "none", 1, 0),
   Situation({read, write}, {read}, c1 :> read, "start", 0, 1),
   Situation({read}, {read}, Nobody, "start", 1, 1),
   Situation({read}, {read}, c1 :> read, "later", 1, 0),
   [Situation({read}, {read}, Nobody, "none", 2, 0) EXCEPT !.revokes = TRUE],
   [Situation({read}, {read}, c1 :> read, "start", 1, 0) EXCEPT !.revokes = TRUE],
   [Situation({read}, {read}, Nobody, "none", 1, 1) EXCEPT !.revokes = TRUE],
   [Situation({read}, {read}, Nobody, "none", 2, 0) EXCEPT !.closes = TRUE],
   [Situation({read}, {read, write}, c1 :> read, "start", 0, 0) EXCEPT !.closes = TRUE],
   [Situation({read}, {read, write}, c1 :> read, "later", 0, 0) EXCEPT !.closes = TRUE]}
=============================================================================
