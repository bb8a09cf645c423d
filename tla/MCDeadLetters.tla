--------------------------- MODULE MCDeadLetters ---------------------------
EXTENDS DeadLetters, TLC
CONSTANTS a, b, c1, c2, w1, w2

Replays(id, req) == [id |-> id, kind |-> "replay", req |-> req]
Dismisses(id, req) == [id |-> id, kind |-> "dismiss", req |-> req]
Situation(entries, commands, pulls) ==
  [entries |-> entries, commands |-> commands, workers |-> pulls]

\* A replay sent twice under one request, a replay with overlapping deliveries,
\* a replay beside a dismissal, two replays, and a replay beside another entry.
Situations ==
  {Situation({a}, c1 :> Replays(a, "r1") @@ c2 :> Replays(a, "r1"), {w1}),
   Situation({a}, c1 :> Replays(a, "r1"), {w1, w2}),
   Situation({a}, c1 :> Replays(a, "r1") @@ c2 :> Dismisses(a, "r2"), {w1}),
   Situation({a}, c1 :> Replays(a, "r1") @@ c2 :> Replays(a, "r2"), {w1}),
   Situation({a, b}, c1 :> Replays(a, "r1"), {w1})}
=============================================================================
