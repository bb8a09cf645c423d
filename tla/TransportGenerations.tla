------------------------ MODULE TransportGenerations ------------------------
(***************************************************************************)
(* The transport generations of one logical connection.  Every physical    *)
(* NATS connection is one immutable generation with the policy the broker  *)
(* admitted for it.  One worker opens, publishes, demotes and closes       *)
(* generations; callers lease them, the framework owner keeps its intake   *)
(* on them, a supervisor mirrors retirements over the published one, and   *)
(* the refresher promotes new authority, on an admitted carrier or on a    *)
(* private stage it opens itself.  Sockets are lost at any time.           *)
(*                                                                         *)
(* Three locks order the steps: `lock` is the reconcile mutex, held across *)
(* awaits; the own transition and the manager's state lock are held within *)
(* a step, and across the two steps of a publication and of a promotion on *)
(* a carrier (see StateFree).                                              *)
(***************************************************************************)
EXTENDS Integers, FiniteSets, FiniteSetsExt

CONSTANTS
  Grants,      \* what a policy may allow
  MaxGens,     \* bound on the generations opened
  Callers,     \* application calls
  Loads,       \* situations: [before, after, needs, owner, moves, revokes, closes, lost, failed]
  MaxFaults    \* bound on losses, on failures and on changes of the grant

Gens == 1..MaxGens
Policies == SUBSET Grants
NoGen == 0

ASSUME TransportAssumption ==
  /\ MaxGens \in Nat \ {0}
  /\ MaxFaults \in Nat
  /\ \A situation \in Loads : /\ situation.before \in Policies
                              /\ situation.after \in Policies
                              /\ DOMAIN situation.needs \subseteq Callers
                              /\ {situation.lost, situation.failed, situation.moves}
                                   \subseteq 0..MaxFaults

VARIABLES
  load,        \* the situation of this behaviour
  granted,     \* the policy Auth grants now
  authority,   \* the installed authority: [policy, valid, slot]
  gens,        \* generation -> its state, lease fences, intake and socket
  current,     \* the current generation
  draining,    \* the tracked generations that are not current
  opening,     \* the candidate being opened: [id, built]
  published,   \* the published identity of the current generation
  coverage,    \* [ready: application use allowed, changed: publication unseen]
  lock,        \* who holds the reconcile mutex
  work,        \* a request the worker has not seen
  worker,      \* the adoption worker and the locals of reconcile
  refresh,     \* the authorization refresher
  mirror,      \* the retirement mirror: [pc, active, next]
  owner,       \* the framework owner: [pc, gen, registered]
  calls,       \* caller -> [pc, gen]
  closed,      \* the logical connection was closed
  faults       \* [lost: sockets and sessions, failed: opens and adoptions, moved: grants]

vars == <<load, granted, authority, gens, current, draining, opening, published,
          coverage, lock, work, worker, refresh, mirror, owner, calls, closed, faults>>

outside == <<load, granted, closed>>
tracking == <<current, draining, opening, published>>
others == <<refresh, mirror, owner, calls>>

-----------------------------------------------------------------------------
(* One generation. *)

Unopened ==
  [state |-> "none", policy |-> {}, up |-> FALSE, events |-> 0, closing |-> FALSE,
   active |-> FALSE, shown |-> FALSE, disposing |-> FALSE, forced |-> FALSE,
   shut |-> FALSE, installed |-> 0, stopping |-> 0, waiting |-> 0, abandoned |-> 0]

\* A generation as open_generation builds it: draining, until it is promoted.
Built(policy) ==
  [Unopened EXCEPT !.state = "draining", !.policy = policy, !.up = TRUE, !.active = TRUE]

Fenced(gen) == gen.disposing \/ gen.forced \/ gen.shut
Leasable(gen) == ~Fenced(gen) /\ gen.state # "closed" /\ gen.up

\* admitted.classify(allowed): a generation is safe while authority covers what it
\* was admitted with, serves when it was admitted with all of it, and is current
\* when both hold.
Safe(g, policy) == gens[g].policy \subseteq policy
Serves(g, policy) == policy \subseteq gens[g].policy

\* take_intake and retire_handles: the installed intake is told to stop and handed to
\* a disposal sweep.  Only a sweep started by a forced reason latches the force.
Retired(gen, force) ==
  [gen EXCEPT !.active = FALSE, !.installed = 0, !.stopping = @ + gen.installed,
              !.forced = @ \/ (force /\ gen.installed > 0)]

Demoted(gen, force) ==
  [Retired(gen, force) EXCEPT !.state = IF @ = "closed" THEN @ ELSE "draining"]

\* close_generation also drains the socket.
Closed(gen, force) ==
  [Retired(gen, force) EXCEPT !.state = "closed", !.shut = TRUE, !.up = FALSE]

\* push_intake: a fenced generation disposes of the late handle by force.
Pushed(gen, handles) ==
  IF Fenced(gen) \/ gen.state = "closed"
  THEN [gen EXCEPT !.stopping = @ + handles, !.forced = @ \/ handles > 0]
  ELSE [gen EXCEPT !.installed = @ + handles, !.active = @ \/ handles > 0]

Loses == faults.lost < load.lost /\ faults' = [faults EXCEPT !.lost = @ + 1]
Fails == faults.failed < load.failed /\ faults' = [faults EXCEPT !.failed = @ + 1]

One(holds) == IF holds THEN 1 ELSE 0

\* Leases in force: calls, intake loops that have not drained, handles just adopted and
\* not yet installed, the mirrors and the refresher.
Live(g) ==
  gens[g].installed + gens[g].stopping + gens[g].abandoned
    + Cardinality({c \in DOMAIN calls : calls[c].pc = "holding" /\ calls[c].gen = g})
    + (IF worker.chosen = g THEN worker.prepared ELSE 0)
    + One(owner.gen = g) + One(refresh.gen = g) + One(mirror.active = g) + One(mirror.next = g)

\* Dropping one lease of g: the last one requests a reap.
Drops(g) == g # NoGen /\ Live(g) = 1

-----------------------------------------------------------------------------
(* The manager's state. *)

NoOpening == [id |-> NoGen, built |-> FALSE]

Known == draining \union ({current} \ {NoGen})

\* A promotion on a carrier is half done: the own authority is replaced, the
\* installation beside it not yet.
Torn == refresh.pc = "promote"

\* The state lock and the own transition are free: neither a publication nor a promotion
\* is half done.
StateFree == worker.pc # "promote" /\ ~Torn

\* own_transport_snapshot reads the two without a lock and fails when they differ.
Readable == authority.valid /\ ~Torn

\* alloc_id; an id whose connection was never built is used again.
FreeIds == {g \in Gens : gens[g].state = "none"}
NextId == Min(FreeIds)

ClearOpening(id) == opening' = IF opening.id = id THEN NoOpening ELSE opening

\* Variant: set_current fences application use without announcing the publication.
SetCurrentSilent(next) ==
  /\ current' = next
  /\ published' = next
  /\ coverage' = IF published = next THEN coverage ELSE [coverage EXCEPT !.ready = FALSE]
  /\ work' = (work \/ published # next)

\* set_current: a new identity is published and fences application use.
SetCurrent(next) ==
  /\ current' = next
  /\ published' = next
  /\ coverage' = IF published = next THEN coverage ELSE [ready |-> FALSE, changed |-> TRUE]
  /\ work' = (work \/ published # next)

\* acquire_published, and the checks of commit_published_if_current: the published
\* generation is the current one, physically current and safe.
PublishedOk(g) ==
  /\ ~closed /\ authority.valid
  /\ g # NoGen /\ g = current /\ g = published
  /\ gens[g].state = "current" /\ Safe(g, authority.policy)
Acquirable == PublishedOk(current) /\ Leasable(gens[current])

-----------------------------------------------------------------------------
(* The adoption worker. *)

Resting ==
  [pc |-> "idle", desired |-> {}, keep |-> {}, close |-> {}, chosen |-> NoGen,
   needs |-> FALSE, prepared |-> 0, cand |-> NoGen, replaces |-> FALSE,
   expects |-> FALSE, force |-> FALSE, after |-> "reap"]

Goto(pc) == worker' = [worker EXCEPT !.pc = pc]
Restart(pc) == worker' = [Resting EXCEPT !.pc = pc]

Wake ==
  /\ worker.pc = "idle" /\ work
  /\ Restart("start") /\ work' = FALSE
  /\ UNCHANGED <<outside, authority, gens, tracking, coverage, lock, others, faults>>

Lock ==
  /\ worker.pc = "start"
  /\ \/ closed /\ Restart("shutdown") /\ UNCHANGED lock
     \/ ~closed /\ lock = "free" /\ lock' = "worker" /\ Restart("snapshot")
  /\ UNCHANGED <<outside, authority, gens, tracking, coverage, work, others, faults>>

\* Variant: what a survivor lost is not adopted again.
DeadNever(g) == FALSE

\* A survivor whose intake was retired is adopted again before it is promoted.
DeadIntake(g) == g # NoGen /\ ~gens[g].active

\* The survivors that serve the desired policy.
Serving(able, policy) == {g \in able : Serves(g, policy)}

\* The generations kept and closed, and the survivor chosen: one that serves the
\* desired policy, the current one first, or else the newest.
Classify ==
  LET policy == authority.policy
      keep == {g \in Known : gens[g].state # "closed" /\ Safe(g, policy)}
      able == {g \in keep : ~Fenced(gens[g])}
      serving == Serving(able, policy) IN
  \E chosen \in IF current \in serving THEN {current}
                ELSE IF serving # {} THEN serving
                ELSE IF able # {} THEN {Max(able)} ELSE {NoGen} :
    worker' = [Resting EXCEPT
                 !.pc = IF DeadIntake(chosen) THEN "adopt" ELSE "decide",
                 !.desired = policy, !.keep = keep, !.close = Known \ keep,
                 !.chosen = chosen, !.needs = serving = {}]

\* reconcile starts over: the authority is read.  Where it cannot be, the credential for
\* a fresh admission is verified first.
Snapshot ==
  /\ worker.pc = "snapshot"
  /\ \/ closed /\ Restart("reap") /\ UNCHANGED faults
     \/ ~closed /\ Readable /\ Classify /\ UNCHANGED faults
     \/ ~closed /\ ~Readable /\ Fails /\ Restart("reap")
     \/ ~closed /\ ~Readable /\ Restart(IF Torn THEN "misread" ELSE "retire") /\ UNCHANGED faults
  /\ UNCHANGED <<outside, authority, gens, tracking, coverage, lock, work, others>>

\* A session taken for retired loses every generation and is replaced by a fresh
\* admission.  The authority is not read again under the locks.
Retire ==
  /\ worker.pc \in {"retire", "misread"} /\ StateFree
  /\ gens' = [g \in Gens |-> IF g \in Known THEN Closed(gens[g], TRUE) ELSE gens[g]]
  /\ draining' = {} /\ SetCurrent(NoGen) /\ UNCHANGED opening
  /\ worker' = [Resting EXCEPT !.pc = "open", !.replaces = TRUE]
  /\ UNCHANGED <<outside, authority, lock, others, faults>>

\* Registered owners install their intake on a generation, under a lease of it.
Handles == One(owner.registered)
Adoptable(g) == owner.registered => Leasable(gens[g])

\* A survivor's intake is installed again before it is promoted.  When an owner fails,
\* the handles of the owners before it are pushed and retired at once; so are all of
\* them when the authority has changed meanwhile.
Adopt ==
  LET stale == ~Readable \/ authority.policy # worker.desired
      back(handles) ==
        gens' = [gens EXCEPT ![worker.chosen] = Retired(Pushed(@, handles), FALSE)] IN
  /\ worker.pc = "adopt"
  /\ \/ /\ ~authority.valid
        /\ Restart("reap") /\ UNCHANGED <<gens, faults>>
     \/ /\ Adoptable(worker.chosen) /\ ~stale
        /\ worker' = [worker EXCEPT !.pc = "decide", !.prepared = Handles]
        /\ UNCHANGED <<gens, faults>>
     \/ /\ Adoptable(worker.chosen) /\ stale
        /\ back(Handles) /\ Restart("snapshot") /\ UNCHANGED faults
     \/ /\ owner.registered
        /\ IF Leasable(gens[worker.chosen]) THEN Fails ELSE UNCHANGED faults
        /\ \E partial \in {0, 1} : back(partial)
        /\ IF stale THEN Restart("snapshot")
           ELSE worker' = [worker EXCEPT !.pc = "decide", !.chosen = NoGen, !.needs = TRUE]
  /\ UNCHANGED <<outside, authority, tracking, coverage, lock, work, others>>


\* What reconcile found is still true under the transition and the state lock.
Confirmed ==
  /\ authority.policy = worker.desired
  /\ \A g \in worker.keep : gens[g].state # "closed"
  /\ \A g \in worker.close : gens[g].state = "closed" \/ ~Safe(g, authority.policy)

\* The survivor is given up: its intake is retired, whether it was installed again for
\* this or was active all along.
GiveUp(force) ==
  /\ gens' = IF worker.chosen = NoGen THEN gens
             ELSE [gens EXCEPT ![worker.chosen] = Retired(Pushed(@, worker.prepared), force)]
  /\ UNCHANGED <<tracking, coverage, work>>

\* The survivor is promoted and published, the others are demoted or closed.
Settle ==
  LET promoted == worker.chosen # NoGen /\ gens[worker.chosen].state # "closed"
                    /\ ~Fenced(gens[worker.chosen])
      next == IF promoted THEN worker.chosen ELSE NoGen IN
  /\ gens' = [g \in Gens |->
       CASE g = next -> [Pushed(gens[g], worker.prepared) EXCEPT !.state = "current",
                                                               !.shown = TRUE]
         [] g = worker.chosen /\ g # next ->
              Demoted(Pushed(gens[g], worker.prepared), FALSE)
         [] g \in worker.keep \ {worker.chosen} -> Demoted(gens[g], FALSE)
         [] g \in worker.close -> Closed(gens[g], TRUE)
         [] OTHER -> gens[g]]
  /\ SetCurrent(next)
  /\ draining' = worker.keep \ {next}
  /\ worker' = [Resting EXCEPT
                  !.pc = IF worker.needs \/ ~promoted THEN "open" ELSE "reap",
                  !.desired = worker.desired, !.expects = worker.keep # {}]
  /\ UNCHANGED opening

Decide ==
  /\ worker.pc = "decide" /\ StateFree
  /\ \/ ~authority.valid /\ GiveUp(FALSE) /\ Restart("reap")
     \/ authority.valid /\ ~Confirmed /\ GiveUp(FALSE) /\ Restart("snapshot")
     \/ authority.valid /\ Confirmed /\ closed /\ GiveUp(TRUE) /\ Restart("reap")
     \/ authority.valid /\ Confirmed /\ ~closed /\ Settle
  /\ UNCHANGED <<outside, authority, lock, others, faults>>

\* open_generation registers the candidate and connects.  Auth admits it with what it
\* grants now; when the caller expects a policy, anything else is refused.  Without one,
\* the admission installs the authority it read.
Open ==
  /\ worker.pc = "open" /\ StateFree /\ FreeIds # {}
  /\ opening' = [id |-> NextId, built |-> FALSE]
  /\ worker' = [worker EXCEPT !.pc = "connect", !.cand = NextId]
  /\ UNCHANGED <<outside, authority, gens, current, draining, published, coverage, lock,
                 work, others, faults>>

Connect ==
  /\ worker.pc = "connect" /\ StateFree /\ ~closed
  /\ worker.expects => granted = worker.desired
  /\ gens' = [gens EXCEPT ![worker.cand] = Built(granted)]
  /\ opening' = [id |-> worker.cand, built |-> TRUE]
  /\ Goto(IF worker.expects THEN "check" ELSE "install")
  /\ UNCHANGED <<outside, authority, current, draining, published, coverage, lock, work,
                 others, faults>>

ConnectFails ==
  /\ worker.pc = "connect" /\ StateFree
  /\ \/ worker.expects /\ granted # worker.desired /\ UNCHANGED faults
     \/ Fails
  /\ ClearOpening(worker.cand) /\ Restart("reap")
  /\ UNCHANGED <<outside, authority, gens, current, draining, published, coverage, lock,
                 work, others>>

\* The recovered carrier of a retired session only installs authority; it is closed.
Install ==
  LET cand == worker.cand IN
  /\ worker.pc = "install" /\ StateFree /\ ~closed
  /\ authority' = [policy |-> gens[cand].policy, valid |-> TRUE, slot |-> "none"]
  /\ work' = TRUE
  /\ IF worker.replaces
     THEN /\ ClearOpening(cand)
          /\ gens' = [gens EXCEPT ![cand] = Closed(@, FALSE)]
          /\ Restart("snapshot")
     ELSE Goto("check") /\ UNCHANGED <<gens, opening>>
  /\ UNCHANGED <<outside, current, draining, published, coverage, lock, others, faults>>

InstallFails ==
  /\ worker.pc = "install" /\ StateFree
  /\ IF gens[worker.cand].up THEN Fails ELSE UNCHANGED faults
  /\ gens' = [gens EXCEPT ![worker.cand] = Closed(@, FALSE)]
  /\ ClearOpening(worker.cand) /\ Restart("reap")
  /\ UNCHANGED <<outside, authority, current, draining, published, coverage, lock, work,
                 others>>

\* A candidate for a policy that is no longer desired is closed before the barrier.
CheckDesired ==
  LET stale == ~Readable \/ authority.policy # worker.desired IN
  /\ worker.pc = "check"
  /\ IF ~stale THEN Goto("barrier") /\ UNCHANGED <<gens, opening>>
     ELSE /\ ClearOpening(worker.cand)
          /\ gens' = [gens EXCEPT ![worker.cand] = Closed(@, FALSE)]
          /\ Restart(IF Readable THEN "snapshot" ELSE "reap")
  /\ UNCHANGED <<outside, authority, current, draining, published, coverage, lock, work,
                 others, faults>>

\* The readiness barrier: the owners install their intake on the candidate.
Barrier ==
  /\ worker.pc = "barrier" /\ Adoptable(worker.cand)
  /\ gens' = [gens EXCEPT ![worker.cand] = Pushed(@, Handles)]
  /\ Goto("publish")
  /\ UNCHANGED <<outside, authority, tracking, coverage, lock, work, others, faults>>

Untracked(force, after) ==
  worker' = [worker EXCEPT !.pc = "track", !.force = force, !.after = after]

\* Variant: the rejected candidate is only removed from the opening slot.
BarrierFailsDropping ==
  /\ worker.pc = "barrier" /\ StateFree /\ owner.registered
  /\ IF Leasable(gens[worker.cand]) THEN Fails ELSE UNCHANGED faults
  /\ \E partial \in {0, 1} : gens' = [gens EXCEPT ![worker.cand] = Pushed(@, partial)]
  /\ ClearOpening(worker.cand) /\ Restart("reap")
  /\ UNCHANGED <<outside, authority, current, draining, published, coverage, lock, work, others>>

BarrierFails ==
  /\ worker.pc = "barrier" /\ StateFree /\ owner.registered
  /\ IF Leasable(gens[worker.cand]) THEN Fails ELSE UNCHANGED faults
  /\ \E partial \in {0, 1} : gens' = [gens EXCEPT ![worker.cand] = Pushed(@, partial)]
  /\ ClearOpening(worker.cand) /\ Untracked(FALSE, "reap")
  /\ UNCHANGED <<outside, authority, current, draining, published, coverage, lock, work, others>>

\* Publication re-reads authority, the recorded loss and the logical close, then retires
\* the predecessor.  The locks are kept until the candidate is promoted.
Publish ==
  LET cand == worker.cand
      lost == closed \/ opening # [id |-> cand, built |-> TRUE] \/ gens[cand].state = "closed"
      still == authority.policy = worker.desired IN
  /\ worker.pc = "publish" /\ StateFree
  /\ \/ /\ ~authority.valid
        /\ ClearOpening(cand) /\ Untracked(FALSE, "reap") /\ UNCHANGED <<gens, current, draining>>
     \/ /\ authority.valid /\ ~still
        /\ ClearOpening(cand) /\ UNCHANGED <<current, draining>>
        /\ IF Safe(cand, authority.policy)
           THEN Untracked(FALSE, "snapshot") /\ UNCHANGED gens
           ELSE Restart("snapshot") /\ gens' = [gens EXCEPT ![cand] = Closed(@, TRUE)]
     \/ /\ authority.valid /\ still /\ lost
        /\ opening' = NoOpening /\ Untracked(TRUE, "reap") /\ UNCHANGED <<gens, current, draining>>
     \/ /\ authority.valid /\ still /\ ~lost
        /\ opening' = NoOpening /\ Goto("promote")
        /\ current' = NoGen
        /\ draining' = draining \union ({current} \ {NoGen})
        /\ gens' = IF current = NoGen THEN gens
                   ELSE [gens EXCEPT ![current] = Demoted(@, FALSE)]
  /\ UNCHANGED <<outside, authority, published, coverage, lock, work, others, faults>>

Promote ==
  LET cand == worker.cand IN
  /\ worker.pc = "promote"
  /\ IF Fenced(gens[cand]) \/ gens[cand].state = "closed"
     THEN Untracked(FALSE, "reap") /\ UNCHANGED <<gens, current, published, coverage, work>>
     ELSE /\ gens' = [gens EXCEPT ![cand].state = "current", ![cand].shown = TRUE]
          /\ SetCurrent(cand) /\ Restart("reap")
  /\ UNCHANGED <<outside, authority, draining, opening, lock, others, faults>>

\* track_draining: a rejected candidate keeps its accepted work and drains.
Track ==
  LET cand == worker.cand IN
  /\ worker.pc = "track" /\ StateFree
  /\ gens' = [gens EXCEPT ![cand] = Demoted(@, worker.force)]
  /\ draining' = IF gens[cand].state = "closed" THEN draining ELSE draining \union {cand}
  /\ work' = TRUE /\ Restart(worker.after)
  /\ UNCHANGED <<outside, authority, current, opening, published, coverage, lock, others, faults>>

\* A logical stop preempts reconcile at its awaits.
Preempt ==
  /\ closed /\ worker.pc \in {"adopt", "connect", "install", "barrier"}
  /\ Restart("reap")
  /\ UNCHANGED <<outside, authority, gens, tracking, coverage, lock, work, others, faults>>

\* Variant: a draining generation is closed although work is left on it.
IdleSoon(g) == gens[g].state = "draining" /\ gens[g].installed = 0

\* reap closes the draining generations without leases and without intake to dispose of.
Idle(g) == gens[g].state = "draining" /\ Live(g) = 0 /\ gens[g].waiting = 0

Reap ==
  LET done == {g \in draining : Idle(g)} IN
  /\ worker.pc = "reap" /\ StateFree
  /\ gens' = [g \in Gens |-> IF g \in done THEN Closed(gens[g], FALSE) ELSE gens[g]]
  /\ draining' = draining \ done
  /\ lock' = "free" /\ Restart(IF closed THEN "shutdown" ELSE "idle")
  /\ UNCHANGED <<outside, authority, current, opening, published, coverage, work, others, faults>>

Shutdown ==
  LET all == Known \union (IF opening.built THEN {opening.id} ELSE {}) IN
  /\ worker.pc = "shutdown" /\ StateFree
  /\ gens' = [g \in Gens |-> IF g \in all THEN Closed(gens[g], TRUE) ELSE gens[g]]
  /\ draining' = {} /\ opening' = NoOpening /\ SetCurrent(NoGen) /\ Restart("stopped")
  /\ UNCHANGED <<outside, authority, lock, others, faults>>

-----------------------------------------------------------------------------
(* The refresher: read what Auth grants now over the published generation, find a   *)
(* carrier admitted with exactly that, or open a private stage, and promote.        *)

Calm == [pc |-> "idle", policy |-> {}, gen |-> NoGen, staged |-> FALSE]

\* own_candidate_transport_snapshot_locked: the candidate is still the prepared one.
Prepared == ~closed /\ authority.valid /\ authority.slot = "refresh"

\* Renewal runs on a timer; it changes something when Auth grants a different policy or
\* no generation carries the installed one.
Due ==
  \/ granted # authority.policy
  \/ \A g \in Known : gens[g].state = "closed" \/ gens[g].policy # authority.policy

RefreshStart ==
  /\ refresh.pc = "idle" /\ Due /\ StateFree /\ Acquirable
  /\ refresh' = [Calm EXCEPT !.pc = "read", !.gen = current]
  /\ UNCHANGED <<outside, authority, gens, tracking, coverage, lock, work, worker, mirror,
                 owner, calls, faults>>

RefreshRead ==
  LET readable == ~closed /\ gens[refresh.gen].up /\ gens[refresh.gen].state # "closed" IN
  /\ refresh.pc = "read"
  /\ work' = (work \/ Drops(refresh.gen))
  /\ IF readable
     THEN /\ refresh' = [Calm EXCEPT !.pc = "prepare", !.policy = granted]
          /\ authority' = [authority EXCEPT !.slot = "refresh"]
     ELSE refresh' = Calm /\ UNCHANGED authority
  /\ UNCHANGED <<outside, gens, tracking, coverage, lock, worker, mirror, owner, calls, faults>>

\* try_prepare_admitted_carrier, before and again after waiting for the reconcile mutex.
Carriers == {g \in Known : Leasable(gens[g]) /\ gens[g].policy = refresh.policy}

LeaseCarrier ==
  \E g \in IF current \in Carriers THEN {current} ELSE Carriers :
    refresh' = [refresh EXCEPT !.pc = "commit", !.gen = g]

RefreshPrepare ==
  /\ refresh.pc \in {"prepare", "await"} /\ StateFree
  /\ refresh.pc = "await" => lock = "free"
  /\ \/ ~Prepared /\ refresh' = Calm /\ UNCHANGED <<opening, lock>>
     \/ Prepared /\ LeaseCarrier /\ UNCHANGED <<opening, lock>>
     \/ /\ Prepared /\ Carriers = {} /\ refresh.pc = "prepare"
        /\ refresh' = [refresh EXCEPT !.pc = "await"] /\ UNCHANGED <<opening, lock>>
     \/ /\ Prepared /\ Carriers = {} /\ refresh.pc = "await" /\ FreeIds # {}
        /\ lock' = "stage" /\ opening' = [id |-> NextId, built |-> FALSE]
        /\ refresh' = [refresh EXCEPT !.pc = "stage", !.staged = TRUE]
  /\ UNCHANGED <<outside, authority, gens, current, draining, published, coverage, work,
                 worker, mirror, owner, calls, faults>>

\* The stage connects; it keeps the reconcile mutex until it is finished or dropped.
Stage ==
  /\ refresh.pc = "stage" /\ StateFree
  /\ ~closed /\ granted = refresh.policy /\ opening.id # NoGen
  /\ gens' = [gens EXCEPT ![opening.id] = Built(granted)]
  /\ opening' = [opening EXCEPT !.built = TRUE]
  /\ refresh' = [refresh EXCEPT !.pc = "commit", !.gen = opening.id]
  /\ UNCHANGED <<outside, authority, current, draining, published, coverage, lock, work,
                 worker, mirror, owner, calls, faults>>

StageFails ==
  /\ refresh.pc = "stage" /\ StateFree
  /\ \/ (closed \/ granted # refresh.policy \/ opening.id = NoGen) /\ UNCHANGED faults
     \/ Fails
  /\ opening' = NoOpening /\ lock' = "free" /\ refresh' = Calm
  /\ UNCHANGED <<outside, authority, gens, current, draining, published, coverage, work,
                 worker, mirror, owner, calls>>

\* finish parks the stage as a draining survivor without intake; a stage that is no
\* longer the managed opening, or is lost, is closed and nothing else changes.
Finish ==
  LET g == refresh.gen
      ok == /\ Prepared /\ opening = [id |-> g, built |-> TRUE]
            /\ gens[g].state # "closed" /\ ~Fenced(gens[g]) IN
  /\ refresh.pc = "commit" /\ refresh.staged /\ StateFree
  /\ IF ok
     THEN /\ authority' = [policy |-> refresh.policy, valid |-> TRUE, slot |-> "none"]
          /\ gens' = [gens EXCEPT ![g] = Retired(@, FALSE)]
          /\ draining' = draining \union {g} /\ work' = TRUE
     ELSE /\ gens' = [gens EXCEPT ![g] = Closed(@, FALSE)]
          /\ work' = (work \/ Drops(g)) /\ UNCHANGED <<authority, draining>>
  /\ ClearOpening(g) /\ lock' = "free" /\ refresh' = Calm
  /\ UNCHANGED <<outside, current, published, coverage, worker, mirror, owner, calls, faults>>

\* On a carrier the authority is promoted without the reconcile mutex: first the own
\* authority is replaced, where the carrier still serves ...
CommitOnCarrier ==
  LET g == refresh.gen
      ok == /\ Prepared /\ g \in Known
            /\ gens[g].state # "closed" /\ ~Fenced(gens[g]) IN
  /\ refresh.pc = "commit" /\ ~refresh.staged /\ StateFree
  /\ refresh' = IF ok THEN [refresh EXCEPT !.pc = "promote"] ELSE Calm
  /\ work' = (work \/ (~ok /\ Drops(g)))
  /\ UNCHANGED <<outside, authority, gens, tracking, coverage, lock, worker, mirror, owner,
                 calls, faults>>

\* ... then the installation, and the worker is told.
InstallOnCarrier ==
  /\ Torn
  /\ authority' = [policy |-> refresh.policy, valid |-> TRUE, slot |-> "none"]
  /\ work' = TRUE /\ refresh' = Calm
  /\ UNCHANGED <<outside, gens, tracking, coverage, lock, worker, mirror, owner, calls, faults>>

-----------------------------------------------------------------------------
(* The mirror supervisor: application use is allowed once a complete retirement     *)
(* snapshot was read over the published generation.                                 *)

\* set_transport_ready wakes the worker through the availability watch.
Ready(ready, changed) ==
  coverage' = [ready |-> ready, changed |-> changed] /\ work' = TRUE

MirrorAcquire ==
  /\ mirror.pc = "off" /\ StateFree /\ Acquirable
  /\ mirror' = [mirror EXCEPT !.pc = "snapshot", !.next = current]
  /\ coverage' = [coverage EXCEPT !.changed = FALSE]
  /\ UNCHANGED <<outside, authority, gens, tracking, lock, work, worker, refresh, owner,
                 calls, faults>>

\* Without a published carrier the supervisor asks the worker for one and retries.
MirrorDemand ==
  /\ mirror.pc = "off" /\ StateFree /\ ~closed /\ authority.valid /\ ~Acquirable
  /\ Ready(FALSE, FALSE)
  /\ UNCHANGED <<outside, authority, gens, tracking, lock, worker, refresh, mirror, owner,
                 calls, faults>>

MirrorCommit ==
  /\ mirror.pc = "snapshot" /\ StateFree /\ ~coverage.changed /\ ~closed
  /\ IF PublishedOk(mirror.next)
     THEN mirror' = [pc |-> "serving", active |-> mirror.next, next |-> NoGen] /\ Ready(TRUE, FALSE)
     ELSE mirror' = [mirror EXCEPT !.pc = "off", !.next = NoGen] /\ Ready(FALSE, FALSE)
  /\ UNCHANGED <<outside, authority, gens, tracking, lock, worker, refresh, owner, calls, faults>>

\* A publication restarts the supervisor; the predecessor mirror is kept meanwhile.
MirrorRestart ==
  /\ mirror.pc \in {"snapshot", "serving"} /\ coverage.changed /\ ~closed
  /\ mirror' = [mirror EXCEPT !.pc = "off", !.next = NoGen] /\ Ready(FALSE, TRUE)
  /\ UNCHANGED <<outside, authority, gens, tracking, lock, worker, refresh, owner, calls, faults>>

\* A mirror ends with its socket.
Ended(g) == g # NoGen /\ (~gens[g].up \/ gens[g].state = "closed")

MirrorEnds ==
  /\ ~closed
  /\ \/ /\ Ended(mirror.next)
        /\ mirror' = [mirror EXCEPT !.pc = "off", !.next = NoGen]
     \/ /\ Ended(mirror.active)
        /\ mirror' = [mirror EXCEPT !.pc = IF @ = "serving" THEN "off" ELSE @, !.active = NoGen]
  /\ Ready(FALSE, coverage.changed)
  /\ UNCHANGED <<outside, authority, gens, tracking, lock, worker, refresh, owner, calls, faults>>

MirrorStop ==
  /\ closed /\ mirror.pc # "ended"
  /\ mirror' = [pc |-> "ended", active |-> NoGen, next |-> NoGen] /\ Ready(FALSE, coverage.changed)
  /\ UNCHANGED <<outside, authority, gens, tracking, lock, worker, refresh, owner, calls, faults>>

-----------------------------------------------------------------------------
(* The framework owner and the callers. *)

\* attach_intake: install on the current generation, and register only if that is still
\* current afterwards.
Attach ==
  /\ load.owner = "later" /\ owner.pc = "idle" /\ ~owner.registered
  /\ ~closed /\ StateFree /\ lock = "free" /\ current # NoGen /\ Leasable(gens[current])
  /\ lock' = "attach"
  /\ owner' = [owner EXCEPT !.pc = "adopted", !.gen = current]
  /\ UNCHANGED <<outside, authority, gens, tracking, coverage, work, worker, refresh, mirror,
                 calls, faults>>

Register ==
  LET g == owner.gen
      stale == closed \/ gens[g].state = "closed" \/ current # g IN
  /\ owner.pc = "adopted" /\ StateFree
  /\ gens' = [gens EXCEPT ![g] = IF stale THEN Retired(Pushed(@, 1), FALSE) ELSE Pushed(@, 1)]
  /\ owner' = [pc |-> "idle", gen |-> NoGen, registered |-> ~stale]
  /\ lock' = "free"
  /\ UNCHANGED <<outside, authority, tracking, coverage, work, worker, refresh, mirror, calls,
                 faults>>

Needs(c) == load.needs[c]

\* try_acquire_covering, for a caller whose authority and coverage are usable.
Covering(c) ==
  {g \in Known : /\ gens[g].shown /\ Leasable(gens[g])
                 /\ Safe(g, authority.policy) /\ Needs(c) \in gens[g].policy}

Usable == coverage.ready /\ authority.valid /\ ~closed

Ask(c) ==
  /\ calls[c].pc = "idle"
  /\ calls' = [calls EXCEPT ![c].pc = "waiting"]
  /\ UNCHANGED <<outside, authority, gens, tracking, coverage, lock, work, worker, refresh,
                 mirror, owner, faults>>

Acquire(c) ==
  /\ calls[c].pc = "waiting" /\ StateFree /\ Usable
  /\ \E g \in IF current \in Covering(c) THEN {current} ELSE Covering(c) :
       calls' = [calls EXCEPT ![c] = [pc |-> "holding", gen |-> g]]
  /\ UNCHANGED <<outside, authority, gens, tracking, coverage, lock, work, worker, refresh,
                 mirror, owner, faults>>

\* await_adoption: every retry asks the worker again.
Demand(c) ==
  /\ calls[c].pc = "waiting" /\ StateFree /\ ~closed
  /\ authority.valid /\ {mirror.active, mirror.next} # {NoGen}
  /\ ~(Usable /\ Covering(c) # {})
  /\ work' = TRUE
  /\ UNCHANGED <<outside, authority, gens, tracking, coverage, lock, worker, refresh, mirror,
                 owner, calls, faults>>

\* A caller is refused at once when the connection was closed, the own authority is
\* retired, or no mirror covers retirements.  A lost mirror may already count as gone.
Refuse(c) ==
  /\ calls[c].pc = "waiting" /\ StateFree
  /\ closed \/ ~authority.valid \/ mirror.active = NoGen \/ Ended(mirror.active)
  /\ calls' = [calls EXCEPT ![c].pc = "failed"]
  /\ UNCHANGED <<outside, authority, gens, tracking, coverage, lock, work, worker, refresh,
                 mirror, owner, faults>>

\* The deadline passes.
Fail(c) ==
  /\ calls[c].pc = "waiting"
  /\ calls' = [calls EXCEPT ![c].pc = "failed"]
  /\ UNCHANGED <<outside, authority, gens, tracking, coverage, lock, work, worker, refresh,
                 mirror, owner, faults>>

Release(c) ==
  /\ calls[c].pc = "holding"
  /\ calls' = [calls EXCEPT ![c] = [pc |-> "done", gen |-> NoGen]]
  /\ work' = (work \/ Drops(calls[c].gen))
  /\ UNCHANGED <<outside, authority, gens, tracking, coverage, lock, worker, refresh, mirror,
                 owner, faults>>

-----------------------------------------------------------------------------
(* Lost sockets and disposal sweeps. *)

\* A lost socket reports Disconnected and then Closed.
Lose(g) ==
  /\ gens[g].up /\ gens[g].state # "closed" /\ Loses
  /\ gens' = [gens EXCEPT ![g].up = FALSE, ![g].events = 2]
  /\ UNCHANGED <<outside, authority, tracking, coverage, lock, work, worker, others>>

\* mark_failed looks the generation up under the state lock and closes it afterwards.
Event(g) ==
  LET found == g \in Known \/ opening = [id |-> g, built |-> TRUE] IN
  /\ gens[g].events > 0 /\ ~gens[g].closing /\ StateFree
  /\ gens' = [gens EXCEPT ![g].events = @ - 1, ![g].closing = found]
  /\ coverage' = [coverage EXCEPT !.ready = @ /\ g # current]
  /\ work' = (work \/ ~found \/ g = current)
  /\ UNCHANGED <<outside, authority, tracking, lock, worker, others, faults>>

CloseLost(g) ==
  /\ gens[g].closing
  /\ gens' = [gens EXCEPT ![g] = [Closed(@, TRUE) EXCEPT !.closing = FALSE]]
  /\ work' = TRUE
  /\ UNCHANGED <<outside, authority, tracking, coverage, lock, worker, others, faults>>

\* A retired intake loop drains and drops its lease; its sweep then waits for the others.
Stop(g) ==
  /\ gens[g].stopping > 0
  /\ gens' = [gens EXCEPT ![g].stopping = @ - 1, ![g].waiting = @ + 1]
  /\ work' = (work \/ Drops(g))
  /\ UNCHANGED <<outside, authority, tracking, coverage, lock, worker, others, faults>>

\* The force latch lets a sweep dispose of a loop that is still draining.
Force(g) ==
  /\ gens[g].stopping > 0 /\ gens[g].forced
  /\ gens' = [gens EXCEPT ![g].stopping = @ - 1, ![g].abandoned = @ + 1]
  /\ work' = TRUE
  /\ UNCHANGED <<outside, authority, tracking, coverage, lock, worker, others, faults>>

Drain(g) ==
  /\ gens[g].abandoned > 0
  /\ gens' = [gens EXCEPT ![g].abandoned = @ - 1]
  /\ work' = (work \/ Drops(g))
  /\ UNCHANGED <<outside, authority, tracking, coverage, lock, worker, others, faults>>

\* Variant: a sweep disposes as soon as its own loop has stopped.
MayDisposeStopped(g) ==
  gens[g].forced \/ gens[g].disposing \/ gens[g].state = "draining"

\* wait_lease_idle: forced, already disposing, or draining without a lease.
MayDispose(g) ==
  gens[g].forced \/ gens[g].disposing \/ (gens[g].state = "draining" /\ Live(g) = 0)

\* DisposalGuard asks for a reap when the sweep ends.
Dispose(g) ==
  /\ gens[g].waiting > 0 /\ MayDispose(g)
  /\ gens' = [gens EXCEPT ![g].waiting = @ - 1,
                          ![g].disposing = @ \/ ~gens[g].forced]
  /\ work' = TRUE
  /\ UNCHANGED <<outside, authority, tracking, coverage, lock, worker, others, faults>>

-----------------------------------------------------------------------------
(* The environment. *)

\* Auth changes what it grants, and back.
Regrant ==
  /\ faults.moved < load.moves /\ faults' = [faults EXCEPT !.moved = @ + 1]
  /\ granted' = IF granted = load.before THEN load.after ELSE load.before
  /\ UNCHANGED <<load, authority, gens, tracking, coverage, lock, work, worker, others, closed>>

\* The own session is cut off: the installed authority is no longer valid.
Revoke ==
  /\ load.revokes /\ authority.valid /\ Loses
  /\ authority' = [authority EXCEPT !.valid = FALSE] /\ StateFree
  /\ Ready(FALSE, coverage.changed)
  /\ UNCHANGED <<outside, gens, tracking, lock, worker, others>>

Close ==
  /\ load.closes /\ ~closed /\ closed' = TRUE
  /\ Ready(FALSE, coverage.changed)
  /\ UNCHANGED <<load, granted, authority, gens, tracking, lock, worker, others, faults>>

-----------------------------------------------------------------------------
(* The specification. *)

Init ==
  /\ load \in Loads
  /\ granted = load.before /\ closed = FALSE /\ faults = [lost |-> 0, failed |-> 0, moved |-> 0]
  /\ authority = [policy |-> load.before, valid |-> TRUE, slot |-> "none"]
  /\ gens = [g \in Gens |->
       IF g # 1 THEN Unopened
       ELSE [Built(load.before) EXCEPT !.state = "current", !.shown = TRUE,
                                       !.installed = One(load.owner = "start")]]
  /\ current = 1 /\ draining = {} /\ opening = NoOpening /\ published = 1
  /\ coverage = [ready |-> FALSE, changed |-> TRUE]
  /\ lock = "free" /\ work = TRUE
  /\ worker = Resting /\ refresh = Calm
  /\ mirror = [pc |-> "off", active |-> NoGen, next |-> NoGen]
  /\ owner = [pc |-> "idle", gen |-> NoGen, registered |-> load.owner = "start"]
  /\ calls = [c \in DOMAIN load.needs |-> [pc |-> "idle", gen |-> NoGen]]

Worker ==
  \/ Wake \/ Lock \/ Snapshot \/ Retire \/ Adopt \/ Decide \/ Open \/ Connect \/ ConnectFails
  \/ Install \/ InstallFails \/ CheckDesired \/ Barrier \/ BarrierFails \/ Publish
  \/ Promote \/ Track \/ Preempt \/ Reap \/ Shutdown

Refresher ==
  \/ RefreshStart \/ RefreshRead \/ RefreshPrepare \/ Stage \/ StageFails \/ Finish
  \/ CommitOnCarrier \/ InstallOnCarrier

Mirror ==
  MirrorAcquire \/ MirrorDemand \/ MirrorCommit \/ MirrorRestart \/ MirrorEnds \/ MirrorStop

Owner == Attach \/ Register

Calls == \E c \in DOMAIN calls : Acquire(c) \/ Demand(c) \/ Refuse(c) \/ Release(c)

Events == \E g \in Gens : Event(g) \/ CloseLost(g)

Sweeps == \E g \in Gens : Stop(g) \/ Force(g) \/ Drain(g) \/ Dispose(g)

Environment ==
  \/ Regrant \/ Revoke \/ Close
  \/ \E g \in Gens : Lose(g)
  \/ \E c \in DOMAIN calls : Ask(c) \/ Fail(c)

Next ==
  Worker \/ Refresher \/ Mirror \/ Owner \/ Calls \/ Events \/ Sweeps \/ Environment

Spec == Init /\ [][Next]_vars

\* Every task is scheduled: the worker, the refresher with its timer, the mirror
\* supervisor and the mirror tasks, an attach in progress, the callers, the connection
\* event handlers and the disposal sweeps.  The reconcile mutex is a FIFO queue, so
\* nobody waits for it forever.
FairSpec ==
  /\ Spec
  /\ SF_vars(RefreshPrepare) /\ SF_vars(Lock)
  /\ WF_vars(Worker) /\ WF_vars(Refresher) /\ WF_vars(Mirror) /\ WF_vars(MirrorEnds)
  /\ WF_vars(Register) /\ WF_vars(Calls) /\ WF_vars(Events) /\ WF_vars(Sweeps)

-----------------------------------------------------------------------------
(* Properties. *)

Genset == Gens \union {NoGen}

\* The types, and that no generation holds the owner's intake twice: adopt_owners,
\* attach_intake and the readiness barrier never install a second time what is active.
TypeOK ==
  /\ load \in Loads /\ granted \in Policies
  /\ faults \in [lost : 0..MaxFaults, failed : 0..MaxFaults, moved : 0..MaxFaults]
  /\ authority \in [policy : Policies, valid : BOOLEAN, slot : {"none", "refresh"}]
  /\ \A g \in Gens :
       /\ gens[g].state \in {"none", "draining", "current", "closed"}
       /\ gens[g].policy \in Policies /\ gens[g].events \in 0..2
       /\ \A flag \in {"up", "closing", "active", "shown", "disposing", "forced", "shut"} :
            gens[g][flag] \in BOOLEAN
       /\ gens[g].installed \in 0..1
       /\ {gens[g].stopping, gens[g].waiting, gens[g].abandoned} \subseteq Nat
  /\ current \in Genset /\ draining \subseteq Gens /\ published \in Genset
  /\ opening \in [id : Genset, built : BOOLEAN]
  /\ coverage \in [ready : BOOLEAN, changed : BOOLEAN]
  /\ lock \in {"free", "worker", "stage", "attach"} /\ work \in BOOLEAN
  /\ closed \in BOOLEAN
  /\ \A c \in DOMAIN calls : calls[c].pc \in {"idle", "waiting", "holding", "done", "failed"}

\* No socket is forgotten: a generation that is not closed is current or draining, is
\* the managed opening, or is in the worker's hands (clear_opening, track_draining,
\* finish, shutdown and the drop guards hand it on).
NothingLeaks ==
  \A g \in Gens :
    gens[g].state \in {"draining", "current"} => g \in Known \union {opening.id, worker.cand}

\* When the worker rests, a registered owner has live intake on the current generation:
\* the barrier, the survivor's re-adoption and attach_intake leave no current with dead
\* intake.
IntakeServed ==
  /\ worker.pc = "idle" /\ ~work /\ authority.valid
  /\ owner.registered /\ owner.pc = "idle" /\ current # NoGen
  /\ gens[current].state = "current"
  => gens[current].installed = 1

\* Once a sweep observed a draining generation without leases and began to dispose of
\* its intake, the generation is never leased again and never current (lease,
\* promote_to_current and push_intake under the lease lock).
FenceHolds ==
  \A g \in Gens :
    gens[g].disposing => gens[g].state # "current" /\ (gens[g].forced \/ Live(g) = 0)

\* Work accepted on a generation: calls, and intake that has not been disposed of.
Accepted(g) ==
  \/ gens[g].installed + gens[g].stopping + gens[g].waiting > 0
  \/ \E c \in DOMAIN calls : calls[c].pc = "holding" /\ calls[c].gen = g

\* reconcile, reap and the drop guards close a generation that carries accepted work
\* only when its socket is lost, authority no longer covers it or is retired, or the
\* connection was closed; or else reconcile has read the authority in the midst of a
\* promotion on a carrier, which it takes for a retired session.
WorkKept ==
  [][\A g \in Gens :
       gens[g].state # "closed" /\ gens'[g].state = "closed" /\ Accepted(g)
         => \/ ~gens[g].up \/ closed
            \/ ~Safe(g, authority.policy) \/ ~authority.valid
            \/ worker.pc = "misread"]_vars


\* The connection comes to rest after losses, growth and reduction of what Auth grants:
\* superseded generations are reaped; a closed connection's worker has stopped;
\* otherwise the current generation is up, carries exactly what Auth grants and is open
\* for use, and acquire_for has served every call for what is granted.  A retired
\* session with nobody asking stays down (retries are demand-driven).
Converges ==
  []<>/\ draining = {}
      /\ \/ closed /\ worker.pc = "stopped"
         \/ ~authority.valid /\ \A c \in DOMAIN calls : calls[c].pc # "waiting"
         \/ /\ current # NoGen /\ coverage.ready
            /\ gens[current].up /\ gens[current].policy = granted
            /\ \A c \in DOMAIN calls : calls[c].pc = "waiting" => Needs(c) \notin granted
=============================================================================
