---------------------------- MODULE DeadLetters ----------------------------
(***************************************************************************)
(* The dead letters of event Consumers: the authoritative journal, the     *)
(* replay dispatcher, the loop that records exhausted deliveries, the SQL  *)
(* projection, the operators' commands and the participants that handle    *)
(* replayed events.  The first five run in the Events runtime, which stops *)
(* and starts as a whole; participants are processes of their own.         *)
(*                                                                         *)
(* The journal is a stream.  A transition is appended only behind the      *)
(* transition its author read last (expected last subject sequence).       *)
(* Nobody holds a lock between the read and the append, and one error of   *)
(* the broker leaves the author not knowing whether the append took place. *)
(***************************************************************************)
EXTENDS Integers, Sequences, FiniteSets, FiniteSetsExt

CONSTANTS
  Ids,         \* dead letters: one Consumer and one original event each
  Calls,       \* management requests operators send
  Loads,       \* situations: [entries, commands, workers], a command is [id, kind, req]
  Workers,     \* participants' pull loops on the replay Consumer
  MaxDeliver,  \* the Consumer's max_deliver
  MaxFaults    \* bound on broker errors, crashes and stalls

ASSUME DeadLettersAssumption ==
  /\ MaxDeliver \in Nat \ {0}
  /\ MaxFaults \in Nat
  /\ \A situation \in Loads : /\ situation.entries \subseteq Ids
                              /\ DOMAIN situation.commands \subseteq Calls
                              /\ situation.workers \subseteq Workers

VARIABLES
  load,        \* the situation of this behaviour
  journal,     \* the stream of transitions; a position is a stream sequence
  late,        \* appends whose author gave up and that the broker may still store
  expected,    \* command -> the revision it names, 0 before it is first sent
  calls,       \* call -> its progress in the management handler
  dispatcher,  \* the replay dispatcher
  dispatched,  \* positions the dispatcher has acknowledged
  replays,     \* the replay stream and its Consumer: <<id, generation>> -> message
  workers,     \* worker -> the delivery it handles
  advisories,  \* captured MAX_DELIVERIES advisories, generation 0 for the original
  recorder,    \* the advisory loop
  projection,  \* the projected rows, the checkpoint and the projector's backlog
  discarded,   \* advisories acknowledged as invalid
  gaps,        \* dead letters whose source expired before they were recorded
  serving,     \* the Events runtime is up
  faults

vars == <<load, journal, late, expected, calls, dispatcher, dispatched, replays,
          workers, advisories, recorder, projection, discarded, gaps, serving, faults>>

commanding == <<load, expected, calls>>
dispatching == <<dispatcher, dispatched>>
delivering == <<replays, workers>>
recording == <<advisories, recorder, discarded, gaps>>
writing == <<journal, late, faults>>

Sent == DOMAIN load.commands
Positions == 1..Len(journal)
Of(id) == {i \in Positions : journal[i].id = id}
Latest(id) == Max(Of(id) \cup {0})
Active == {"replayPending", "replaying"}
Free == [pc |-> "idle"]
Replay == [id : Ids, gen : 1..Cardinality(Calls)]

Fault == faults < MaxFaults /\ faults' = faults + 1

-----------------------------------------------------------------------------
(* The journal                                                             *)

\* The transition that follows position p: the next revision, without evidence.
Successor(p, state, cause, req, gen, deliveries) ==
  [id |-> journal[p].id, rev |-> journal[p].rev + 1, prev |-> p, state |-> state,
   cause |-> cause, req |-> req, gen |-> gen, deliveries |-> deliveries]

\* Revision one of an entry.  Its deliveries are the Consumer's max_deliver,
\* which is fixed when the Consumer is allocated, so that a later report for the
\* same event never has a count to correct.
Exhausted(id) ==
  [id |-> id, rev |-> 1, prev |-> 0, state |-> "dead", cause |-> "exhausted",
   req |-> "none", gen |-> 0, deliveries |-> MaxDeliver]

Stored(t) == Latest(t.id) = t.prev
SameRevision(t) == CHOOSE i \in Of(t.id) : journal[i].rev = t.rev

\* append: the broker stores the transition, and will refuse what is still on
\* its way behind the same position ...
Store(t) ==
  /\ Stored(t)
  /\ journal' = Append(journal, t)
  /\ late' = {u \in late : u.id # t.id}

Lands(t) == Store(t) /\ UNCHANGED faults

\* ... or refuses it, and the same transition is there already ...
Repeats(t) ==
  /\ ~Stored(t)
  /\ journal[SameRevision(t)] = t
  /\ UNCHANGED writing

\* ... or another one is ...
Conflicts(t) ==
  /\ ~Stored(t)
  /\ journal[SameRevision(t)] # t
  /\ UNCHANGED writing

\* ... or the publication fails, now or to be stored later.
Unavailable(t) ==
  /\ Stored(t)
  /\ Fault
  /\ late' \in {late, late \cup {t}}
  /\ UNCHANGED journal

Written(t) == Lands(t) \/ Repeats(t)

\* The broker serves a publication whose author no longer waits.
LateAppend ==
  \E t \in late :
    /\ Store(t)
    /\ UNCHANGED <<faults, commanding, dispatching, delivering, recording, projection, serving>>

-----------------------------------------------------------------------------
(* Operators' commands                                                     *)

Unheard == [pc |-> "unsent", at |-> 0]
Answered == [pc |-> "done", at |-> 0]

\* find_command: the first transition an earlier call with this request made.
Found(req) == \E i \in Positions : journal[i].req = req

\* An operator names the revision the projection shows, and keeps it on a retry:
\* the request's digest covers it.
Send(c) ==
  LET command == load.commands[c] IN
  /\ serving /\ calls[c].pc = "unsent" /\ projection.row[command.id] # 0
  /\ expected' = [expected EXCEPT ![command.req] =
                    IF @ = 0 THEN journal[projection.row[command.id]].rev ELSE @]
  /\ calls' = [calls EXCEPT ![c].pc = IF Found(command.req) THEN "done" ELSE "read"]
  /\ UNCHANGED <<load, writing, dispatching, delivering, recording, projection, serving>>

\* Variant: a replay is accepted in any settled state.
AllowedSettled(kind) == IF kind = "replay" THEN {"dead", "dismissed", "resolved"} ELSE {"dead"}

Allowed(kind) == IF kind = "replay" THEN {"dead", "dismissed"} ELSE {"dead"}

\* Variant: the revision the operator saw is not compared.
CheckState(c) ==
  LET command == load.commands[c]
      last == Latest(command.id)
  IN
  /\ calls[c].pc = "read"
  /\ calls' = [calls EXCEPT ![c] = IF journal[last].state \in Allowed(command.kind)
                                     THEN [pc |-> "append", at |-> last] ELSE Answered]
  /\ UNCHANGED <<load, expected, writing, dispatching, delivering, recording, projection, serving>>

\* request_replay and dismiss: the checks on the latest transition.
Check(c) ==
  LET command == load.commands[c]
      last == Latest(command.id)
      ok == /\ journal[last].rev = expected[command.req]
            /\ journal[last].state \in Allowed(command.kind)
  IN
  /\ calls[c].pc = "read"
  /\ calls' = [calls EXCEPT ![c] = IF ok THEN [pc |-> "append", at |-> last]
                                         ELSE Answered]
  /\ UNCHANGED <<load, expected, writing, dispatching, delivering, recording, projection, serving>>

Command(c) ==
  LET p == calls[c].at IN
  IF load.commands[c].kind = "replay"
  THEN Successor(p, "replayPending", "replayRequested", load.commands[c].req, journal[p].gen + 1, 0)
  ELSE Successor(p, "dismissed", "dismissed", load.commands[c].req, journal[p].gen, journal[p].deliveries)

\* The append; conflict and failure are answered alike, and change nothing more.
Commit(c) ==
  /\ calls[c].pc = "append"
  /\ Written(Command(c)) \/ Conflicts(Command(c)) \/ Unavailable(Command(c))
  /\ calls' = [calls EXCEPT ![c] = Answered]
  /\ UNCHANGED <<load, expected, dispatching, delivering, recording, projection, serving>>

-----------------------------------------------------------------------------
(* The Events runtime stops: every task in it is dropped.  When it starts, the *)
(* projector first applies what is after its checkpoint, in order; a           *)
(* transition it cannot apply fails the start.                                 *)

Reporting == {"check", "read", "append"}
Dropped(w) == IF workers[w].pc \in Reporting THEN Free ELSE workers[w]

\* project_dead_letter: transition i continues the row at position r.
Continues(i, r) ==
  LET next == journal[i] IN
  IF r = 0 THEN next.rev = 1 /\ next.prev = 0 /\ next.gen = 0 /\ next.state = "dead"
                /\ next.cause = "exhausted" /\ next.req = "none"
  ELSE LET row == journal[r] IN
    /\ next.rev = row.rev + 1
    /\ next.prev = r
    /\ (next.cause \in {"replayRequested", "dismissed"}) = (next.req # "none")
    /\ <<row.state, next.state, next.cause>> \in
         {<<"dead", "replayPending", "replayRequested">>,
          <<"dismissed", "replayPending", "replayRequested">>,
          <<"dead", "dismissed", "dismissed">>,
          <<"dead", "dead", "exhausted">>,
          <<"replayPending", "replaying", "replayDispatched">>}
         \cup (Active \X {"resolved"} \X {"replaySucceeded"})
         \cup (Active \X {"dead"} \X {"exhausted", "replayUnreplayable"})
    /\ next.gen = row.gen + (IF next.state = "replayPending" THEN 1 ELSE 0)

Ahead == {i \in Positions : i > projection.checkpoint}
RowBefore(i) ==
  LET earlier == {j \in Ahead : j < i /\ journal[j].id = journal[i].id}
  IN  IF earlier = {} THEN projection.row[journal[i].id] ELSE Max(earlier)
CaughtUp == \A i \in Ahead : Continues(i, RowBefore(i))

Stop ==
  /\ dispatcher' = Free
  /\ recorder' = Free
  /\ calls' = [c \in Sent |-> IF calls[c].pc \in {"read", "append"}
                                 THEN Answered ELSE calls[c]]
  /\ workers' = [w \in Workers |-> Dropped(w)]
  /\ serving' = FALSE
  /\ UNCHANGED <<load, expected, dispatched, replays, advisories, discarded, gaps, projection>>

Crash == serving /\ Fault /\ Stop /\ UNCHANGED <<journal, late>>

Start ==
  /\ ~serving /\ CaughtUp
  /\ serving' = TRUE
  /\ projection' = [projection EXCEPT
       !.row = [id \in Ids |-> Max({@[id]} \cup (Of(id) \cap Ahead))],
       !.checkpoint = Len(journal)]
  /\ UNCHANGED <<writing, commanding, dispatching, delivering, recording>>

-----------------------------------------------------------------------------
(* The dispatcher: it publishes the work of a requested replay, then records   *)
(* that it did.  An error ends the whole Events runtime.                       *)

Generation(i) == [id |-> journal[i].id, gen |-> journal[i].gen]
Pending(i) == Generation(Latest(journal[i].id)) = Generation(i)
              /\ journal[Latest(journal[i].id)].state = "replayPending"

\* Variant: the intent is acknowledged when it is taken.
DispatchAcking(i) ==
  /\ serving /\ dispatcher = Free
  /\ i \in Positions \ dispatched /\ journal[i].state = "replayPending"
  /\ dispatched' = dispatched \cup {i}
  /\ dispatcher' = IF Pending(i) THEN [pc |-> "publish", at |-> i] ELSE Free
  /\ UNCHANGED <<writing, commanding, delivering, recording, projection, serving>>

Dispatch(i) ==
  /\ serving /\ dispatcher = Free
  /\ i \in Positions \ dispatched /\ journal[i].state = "replayPending"
  /\ IF Pending(i) THEN dispatcher' = [pc |-> "publish", at |-> i] /\ UNCHANGED dispatched
                   ELSE dispatched' = dispatched \cup {i} /\ UNCHANGED dispatcher
  /\ UNCHANGED <<writing, commanding, delivering, recording, projection, serving>>

\* The replay stream keeps the first message of a subject and refuses the next
\* one; the dispatcher then finds its own work item there.
Publish ==
  /\ dispatcher.pc = "publish"
  /\ LET m == Generation(dispatcher.at) IN
     replays' = IF replays[m].state = "absent" THEN [replays EXCEPT ![m].state = "ready"]
                                               ELSE replays
  /\ dispatcher' = [dispatcher EXCEPT !.pc = "mark"]
  /\ UNCHANGED <<writing, commanding, dispatched, workers, recording, projection, serving>>

\* Nothing was stored, and nothing is there: the intent is delivered again later.
PublishFails ==
  /\ dispatcher.pc = "publish" /\ replays[Generation(dispatcher.at)].state = "absent"
  /\ Fault
  /\ dispatcher' = Free
  /\ UNCHANGED <<journal, late, commanding, dispatched, delivering, recording, projection, serving>>

\* mark_replaying reads again: the replay may have ended already.
Mark ==
  /\ dispatcher.pc = "mark"
  /\ dispatcher' = [dispatcher EXCEPT !.pc = IF Pending(dispatcher.at) THEN "append" ELSE "ack"]
  /\ UNCHANGED <<writing, commanding, dispatched, delivering, recording, projection, serving>>

Replaying(p) == Successor(p, "replaying", "replayDispatched", "none", journal[p].gen, 0)

MarkReplaying ==
  /\ dispatcher.pc = "append"
  /\ \/ /\ Written(Replaying(dispatcher.at))
        /\ dispatcher' = [dispatcher EXCEPT !.pc = "ack"]
        /\ UNCHANGED <<commanding, dispatched, delivering, recording, projection, serving>>
     \/ (Conflicts(Replaying(dispatcher.at)) \/ Unavailable(Replaying(dispatcher.at))) /\ Stop

AckIntent ==
  /\ dispatcher.pc = "ack"
  /\ dispatched' = dispatched \cup {dispatcher.at}
  /\ dispatcher' = Free
  /\ UNCHANGED <<writing, commanding, delivering, recording, projection, serving>>

-----------------------------------------------------------------------------
(* The replay Consumer and its participants                                    *)

\* A delivery that is not acknowledged: the broker offers the message again, or
\* after the last one emits the advisory that the capture stream keeps.
Returned(m) ==
  IF replays[m].state # "out" THEN UNCHANGED <<replays, advisories>>
  ELSE IF replays[m].count < MaxDeliver
  THEN replays' = [replays EXCEPT ![m].state = "ready"] /\ UNCHANGED advisories
  ELSE /\ replays' = [replays EXCEPT ![m].state = "spent"]
       /\ advisories' = advisories \cup {m}

Holders(m) == {w \in Workers : workers[w] # Free /\ workers[w].m = m}

\* ack_wait passes: nobody handles the message, or its handler's process stalls.
AckWait(m) ==
  /\ replays[m].state = "out"
  /\ IF Holders(m) = {} THEN UNCHANGED faults ELSE Fault
  /\ Returned(m)
  /\ UNCHANGED <<journal, late, commanding, dispatching, workers, recorder, discarded, gaps,
                 projection, serving>>

Take(w, m) ==
  /\ w \in load.workers /\ workers[w] = Free /\ replays[m].state = "ready"
  /\ replays' = [replays EXCEPT ![m] = [state |-> "out", count |-> @.count + 1]]
  /\ workers' = [workers EXCEPT ![w] =
       [pc |-> "inspect", m |-> m, count |-> replays[m].count + 1, cause |-> "none", at |-> 0]]
  /\ UNCHANGED <<writing, commanding, dispatching, recording, projection, serving>>

Nak(w) ==
  /\ Returned(workers[w].m)
  /\ workers' = [workers EXCEPT ![w] = Free]

Goes(w, pc) ==
  /\ workers' = [workers EXCEPT ![w].pc = pc]
  /\ UNCHANGED <<replays, advisories>>

\* DeadLetters.Inspect shows the projected row, which may be behind the replay.
Inspect(w) ==
  LET m == workers[w].m
      r == projection.row[m.id]
  IN
  /\ workers[w].pc = "inspect"
  /\ IF ~serving \/ r = 0 \/ journal[r].gen < m.gen THEN Nak(w)
     ELSE IF journal[r].gen = m.gen /\ journal[r].state \in Active THEN Goes(w, "handle")
     ELSE Goes(w, "settle")
  /\ UNCHANGED <<writing, commanding, dispatching, recorder, discarded, gaps, projection, serving>>

\* The event is verified and handled: it is handled, or rejected for good ...
Handle(w) ==
  /\ workers[w].pc = "handle"
  /\ \E cause \in {"replaySucceeded", "replayUnreplayable"} :
       workers' = [workers EXCEPT ![w].pc = "check", ![w].cause = cause]
  /\ UNCHANGED <<writing, commanding, dispatching, replays, recording, projection, serving>>

\* ... or a handler or a verification fails and the delivery is returned.
HandlerFails(w) ==
  /\ workers[w].pc = "handle"
  /\ Nak(w)
  /\ UNCHANGED <<writing, commanding, dispatching, recorder, discarded, gaps, projection, serving>>

Settle(w) ==
  LET m == workers[w].m IN
  /\ workers[w].pc = "settle"
  /\ replays' = [replays EXCEPT ![m].state = IF @ = "spent" THEN @ ELSE "settled"]
  /\ workers' = [workers EXCEPT ![w] = Free]
  /\ UNCHANGED <<writing, commanding, dispatching, recording, projection, serving>>

WorkerCrash(w) ==
  /\ workers[w] # Free
  /\ Fault
  /\ workers' = [workers EXCEPT ![w] = Free]
  /\ UNCHANGED <<journal, late, commanding, dispatching, replays, recording, projection, serving>>

-----------------------------------------------------------------------------
(* Reports of a replay's end, by participants and by the advisory loop.        *)
(* report_replay reads the entry, and report_replay_outcome reads it again.    *)

Ended(m) == LET current == journal[Latest(m.id)] IN
  current.gen > m.gen \/ (current.gen = m.gen /\ current.state \notin Active)
Superseded(m) == journal[Latest(m.id)].gen > m.gen

Outcome(p, cause, deliveries) ==
  Successor(p, IF cause = "replaySucceeded" THEN "resolved" ELSE "dead", cause, "none",
            journal[p].gen, deliveries)

\* A participant settles its delivery when the report is accepted or stale, and
\* leaves it to redelivery when the report fails.
ReportCheck(w) ==
  /\ workers[w].pc = "check"
  /\ workers' = [workers EXCEPT ![w] =
       IF ~serving THEN Free
       ELSE [@ EXCEPT !.pc = IF Ended(workers[w].m) THEN "settle" ELSE "read"]]
  /\ UNCHANGED <<writing, commanding, dispatching, replays, recording, projection, serving>>

ReportRead(w) ==
  LET m == workers[w].m IN
  /\ workers[w].pc = "read"
  /\ workers' = [workers EXCEPT ![w] =
       IF Superseded(m) THEN [@ EXCEPT !.pc = "settle"]
       ELSE IF Ended(m) THEN Free
       ELSE [@ EXCEPT !.pc = "append", !.at = Latest(m.id)]]
  /\ UNCHANGED <<writing, commanding, dispatching, replays, recording, projection, serving>>

\* Variant: a conflict counts as a report.
ReportAppendAnyway(w) ==
  LET t == Outcome(workers[w].at, workers[w].cause, workers[w].count) IN
  /\ workers[w].pc = "append"
  /\ \/ (Written(t) \/ Conflicts(t)) /\ workers' = [workers EXCEPT ![w].pc = "settle"]
     \/ Unavailable(t) /\ workers' = [workers EXCEPT ![w] = Free]
  /\ UNCHANGED <<commanding, dispatching, replays, recording, projection, serving>>

ReportAppend(w) ==
  LET t == Outcome(workers[w].at, workers[w].cause, workers[w].count) IN
  /\ workers[w].pc = "append"
  /\ \/ Written(t) /\ workers' = [workers EXCEPT ![w].pc = "settle"]
     \/ (Conflicts(t) \/ Unavailable(t)) /\ workers' = [workers EXCEPT ![w] = Free]
  /\ UNCHANGED <<commanding, dispatching, replays, recording, projection, serving>>

\* The advisory loop takes an advisory that is not acknowledged.
Record(m) ==
  /\ serving /\ recorder = Free /\ m \in advisories
  /\ recorder' = [pc |-> IF m.gen = 0 THEN "create" ELSE "check", m |-> m, at |-> 0]
  /\ UNCHANGED <<writing, commanding, dispatching, delivering, advisories, discarded, gaps,
                 projection, serving>>

Acknowledge(m) == advisories' = advisories \ {m} /\ recorder' = Free

RecorderGoes(pc, p) ==
  /\ recorder' = [recorder EXCEPT !.pc = pc, !.at = p]
  /\ UNCHANGED <<advisories, discarded>>

\* create_dead: an entry is created once, from the retained source event.
Create ==
  LET m == recorder.m IN
  /\ recorder.pc = "create"
  /\ \/ Of(m.id) # {} /\ Acknowledge(m) /\ UNCHANGED <<discarded, gaps, faults>>
     \/ Of(m.id) = {} /\ RecorderGoes("append", 0) /\ UNCHANGED <<gaps, faults>>
     \/ Fault /\ Acknowledge(m) /\ gaps' = gaps \cup {m.id} /\ UNCHANGED discarded
  /\ UNCHANGED <<journal, late, commanding, dispatching, delivering, projection, serving>>

RecordCheck ==
  LET m == recorder.m IN
  /\ recorder.pc = "check"
  /\ IF Ended(m) THEN Acknowledge(m) /\ UNCHANGED discarded ELSE RecorderGoes("read", 0)
  /\ UNCHANGED <<writing, commanding, dispatching, delivering, gaps, projection, serving>>

RecordRead ==
  LET m == recorder.m IN
  /\ recorder.pc = "read"
  /\ IF ~Ended(m) THEN RecorderGoes("append", Latest(m.id))
     ELSE Acknowledge(m) /\ discarded' = IF Superseded(m) THEN discarded ELSE discarded \cup {m}
  /\ UNCHANGED <<writing, commanding, dispatching, delivering, gaps, projection, serving>>

Evidence == IF recorder.m.gen = 0 THEN Exhausted(recorder.m.id)
                                  ELSE Outcome(recorder.at, "exhausted", MaxDeliver)

\* A conflict is taken for an invalid advisory, which is acknowledged; the
\* creation of an entry that now exists is not a conflict.
RecordAppend ==
  LET m == recorder.m IN
  /\ recorder.pc = "append"
  /\ \/ Written(Evidence) /\ Acknowledge(m) /\ UNCHANGED discarded
     \/ Conflicts(Evidence) /\ Acknowledge(m) /\ discarded' = discarded \cup {m}
     \/ Unavailable(Evidence) /\ recorder' = Free /\ UNCHANGED <<advisories, discarded>>
  /\ UNCHANGED <<commanding, dispatching, delivering, gaps, projection, serving>>

-----------------------------------------------------------------------------
(* The projector: its durable consumer delivers the journal in order, and      *)
(* again, after a delay, what was refused.                                     *)

Delivered(i) == i \in projection.refused \/ i = projection.cursor + 1

Accepted(i) ==
  LET r == projection.row[journal[i].id] IN
  IF i <= projection.checkpoint THEN i <= r ELSE Continues(i, r)

Project(i) ==
  /\ serving /\ i \in Positions /\ Delivered(i)
  /\ projection' =
       IF Accepted(i)
       THEN [row |-> [projection.row EXCEPT ![journal[i].id] = Max({@, i})],
             checkpoint |-> Max({projection.checkpoint, i}),
             cursor |-> Max({projection.cursor, i}),
             refused |-> projection.refused \ {i}]
       ELSE [projection EXCEPT !.cursor = Max({@, i}), !.refused = @ \cup {i}]
  /\ UNCHANGED <<writing, commanding, dispatching, delivering, recording, serving>>

StoreFails(i) ==
  /\ serving /\ i \in Positions /\ i = projection.cursor + 1
  /\ Fault
  /\ projection' = [projection EXCEPT !.cursor = i, !.refused = @ \cup {i}]
  /\ UNCHANGED <<journal, late, commanding, dispatching, delivering, recording, serving>>

-----------------------------------------------------------------------------
Init ==
  /\ load \in Loads
  /\ journal = <<>> /\ late = {}
  /\ expected = [r \in {load.commands[c].req : c \in Sent} |-> 0]
  /\ calls = [c \in Sent |-> Unheard]
  /\ dispatcher = Free /\ dispatched = {}
  /\ replays = [m \in Replay |-> [state |-> "absent", count |-> 0]]
  /\ workers = [w \in Workers |-> Free]
  /\ advisories = [id : load.entries, gen : {0}]
  /\ recorder = Free /\ discarded = {} /\ gaps = {}
  /\ projection = [row |-> [id \in Ids |-> 0], checkpoint |-> 0, cursor |-> 0, refused |-> {}]
  /\ serving = TRUE
  /\ faults = 0

Management == \E c \in Sent : Check(c) \/ Commit(c)
Dispatcher == (\E i \in Positions : Dispatch(i)) \/ Publish \/ Mark \/ MarkReplaying \/ AckIntent
Recorder == (\E m \in advisories : Record(m)) \/ Create \/ RecordCheck \/ RecordRead \/ RecordAppend
Projector == \E i \in Positions : Project(i)
Worker(w) ==
  \/ \E m \in Replay : Take(w, m)
  \/ Inspect(w) \/ Handle(w) \/ HandlerFails(w) \/ Settle(w)
  \/ ReportCheck(w) \/ ReportRead(w) \/ ReportAppend(w)
Advance ==
  \/ Management \/ Dispatcher \/ Recorder \/ Projector \/ Start
  \/ \E m \in Replay : AckWait(m)
  \/ \E w \in Workers : Worker(w)
Failure ==
  \/ Crash \/ PublishFails
  \/ \E w \in Workers : WorkerCrash(w)
  \/ \E i \in Positions : StoreFails(i)

Next == Advance \/ Failure \/ LateAppend \/ \E c \in Sent : Send(c)

Spec == Init /\ [][Next]_vars

\* Tokio runs every task that can proceed, the supervisor restarts the runtime,
\* the broker redelivers, and handlers return.  Nothing obliges an operator to
\* send a command, or the broker to store a publication its author gave up.
FairSpec == Spec /\ WF_vars(Advance)

-----------------------------------------------------------------------------
(* Properties                                                                  *)

Transition ==
  [id : Ids, rev : Nat \ {0}, prev : Nat, gen : 0..Cardinality(Calls),
   state : Active \cup {"dead", "resolved", "dismissed"},
   cause : {"exhausted", "replayRequested", "replayDispatched", "replaySucceeded",
            "replayUnreplayable", "dismissed"},
   req : DOMAIN expected \cup {"none"}, deliveries : 0..MaxDeliver]

\* Every variable keeps its type; no message is delivered more than max_deliver times.
TypeOK ==
  /\ load \in Loads
  /\ \A i \in Positions : journal[i] \in Transition
  /\ late \subseteq Transition
  /\ \A r \in DOMAIN expected : expected[r] \in Nat
  /\ calls \in [Sent -> [pc : {"unsent", "read", "append", "done"}, at : 0..Len(journal)]]
  /\ dispatcher \in {Free} \cup [pc : {"publish", "mark", "append", "ack"}, at : Positions]
  /\ dispatched \subseteq Positions
  /\ replays \in [Replay -> [state : {"absent", "ready", "out", "settled", "spent"},
                             count : 0..MaxDeliver]]
  /\ \A w \in Workers : workers[w] \in {Free} \cup
       [pc : {"inspect", "handle", "settle"} \cup Reporting, m : Replay, count : 1..MaxDeliver,
        cause : {"none", "replaySucceeded", "replayUnreplayable"}, at : 0..Len(journal)]
  /\ advisories \cup discarded \subseteq [id : Ids, gen : 0..Cardinality(Calls)]
  /\ recorder \in {Free} \cup [pc : {"create"} \cup Reporting, m : advisories, at : 0..Len(journal)]
  /\ projection \in [row : [Ids -> 0..Len(journal)], checkpoint : 0..Len(journal),
                     cursor : 0..Len(journal), refused : SUBSET Positions]
  /\ gaps \subseteq Ids /\ serving \in BOOLEAN /\ faults \in 0..MaxFaults

\* A request takes effect once: however often it is sent, and whichever of its
\* appends the broker stores late, the journal holds one transition of it.
CommandOnce ==
  \A i, j \in Positions : journal[i].req # "none" /\ journal[i].req = journal[j].req => i = j

\* Whatever operators, dispatcher, advisory loop and participants append in
\* turns, every transition continues the one before it as project_dead_letter
\* demands: no authoritative transition is one the projection refuses.
JournalLegal ==
  \A i \in Positions : Continues(i, Max({j \in Of(journal[i].id) : j < i} \cup {0}))

Concluded(m) ==
  \E i \in Of(m.id) : \/ journal[i].gen > m.gen
                      \/ journal[i].gen = m.gen /\ journal[i].state \notin Active

\* A participant acknowledges a replay only when the journal says how it ended:
\* its report is durable before ACK or TERM, and a projection that lags never
\* makes it settle work that is still wanted.
ReportedFirst == \A m \in Replay : replays[m].state = "settled" => Concluded(m)

\* A store failure let the checkpoint pass a transition of one entry because the
\* next transition was another entry's.
Skipped == \E i \in Positions :
  i <= projection.checkpoint /\ i > projection.row[journal[i].id]

Unfinished == {m \in Replay : /\ \E i \in Positions : Generation(i) = m
                              /\ ~Concluded(m) /\ m \notin discarded}

\* After the last command and fault everything comes to rest, through crashes, lost
\* publications, a dispatcher that stops the runtime and participants that give up:
\* every exhausted event is an entry, or a recorded gap when its source is no longer
\* retained; every requested replay has ended, unless its advisory was discarded; and
\* the projection shows every entry's last transition, unless it has lost its place.
Converges ==
  []<>\/ Skipped
      \/ /\ \A id \in load.entries : Of(id) # {} \/ id \in gaps
         /\ Unfinished = {}
         /\ \A i \in Positions : i <= projection.row[journal[i].id]
=============================================================================
