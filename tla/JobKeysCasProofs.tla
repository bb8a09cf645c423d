-------------------------- MODULE JobKeysCasProofs ---------------------------
(***************************************************************************)
(* The compare-and-set loop implements the atomic operations of JobKeys,   *)
(* for any number of clients, jobs, tokens and clock readings.             *)
(***************************************************************************)
EXTENDS JobKeysCas, TLAPS

\* What a caller was entitled to when it called stays true until it is done.
Entitled(c) ==
  LET r == call[c].req
  IN  /\ r \in Requests
      /\ r.op = "acquire" => /\ owner[r.slot.token] = NoJob
                             /\ r.at < r.slot.lease
                             /\ \A d \in Clients : Acquiring(d, r.slot.token) => d = c
      /\ r.op = "renew" => owner[r.slot.token] = r.slot.job
      /\ r.op = "release" => owner[r.token] = r.job
      /\ r.op = "restore" => /\ r.pair \in replacing
                             /\ \A d \in Clients : Restoring(d, r.pair) => d = c

\* A write in progress was computed from the revision it names.
Computed(c) ==
  call[c].phase = "write" =>
    /\ call[c].rev \in Nat /\ call[c].rev <= entry.rev
    /\ call[c].out.kind \in JK!Persisted
    /\ call[c].rev = entry.rev => call[c].out = Reduce(call[c].req, entry.state)

CasInv ==
  /\ DOMAIN entry = {"rev", "state"}
  /\ entry.rev \in Nat
  /\ DOMAIN call = Clients
  /\ \A c \in Clients : call[c] = Idle \/ call[c].phase \in {"read", "write"}
  /\ \A c \in Clients : call[c] # Idle => Entitled(c) /\ Computed(c)
  /\ owner \in [Tokens -> Jobs \union {NoJob}]

\* The parts of a request have the types of the operation it asks for.
LEMMA RequestTypes ==
  ASSUME NEW r \in Requests
  PROVE  /\ r.op \in {"admit", "acquire", "renew", "release", "remove_queued", "cleanup", "restore"}
         /\ r.op = "admit" => r.job \in Jobs /\ r.whenFull \in WhenFull
         /\ r.op = "acquire" => r.slot \in JK!Slot /\ r.at \in Times
         /\ r.op = "renew" => r.slot \in JK!Slot
         /\ r.op = "release" => r.job \in Jobs /\ r.token \in Tokens
         /\ r.op \in {"remove_queued", "cleanup"} => r.job \in Jobs
         /\ r.op = "restore" => r.pair \in Jobs \X Jobs
BY DEF Requests

\* A slot is its job, its token and its lease.
LEMMA SlotParts ==
  ASSUME NEW slot \in JK!Slot
  PROVE  /\ slot.job \in Jobs /\ slot.token \in Tokens /\ slot.lease \in Times
         /\ slot = [job |-> slot.job, token |-> slot.token, lease |-> slot.lease]
BY DEF JK!Slot

LEMMA InitCasInv == Init => CasInv
BY DEF Init, CasInv, Idle

\* A write that goes through is one whole operation of JobKeys.
LEMMA WriteIsOperation ==
  ASSUME CasInv, NEW c \in Clients, Write(c)
  PROVE  JK!Next
<1> DEFINE r == call[c].req
           out == call[c].out
<1>1. call[c] # Idle /\ Entitled(c) /\ Computed(c)
  BY DEF CasInv, Write, Idle
<1>2. /\ r \in Requests
      /\ out = Reduce(r, entry.state)
      /\ out.kind \in JK!Persisted
  BY <1>1 DEF Entitled, Computed, Write
<1>3. /\ entry'.state = out.state
      /\ JK!NextState(entry.state, out) = out.state
  BY <1>2 DEF Write, Apply, JK!NextState
<1>4. Apply(r, out) /\ MayApply(out)
  BY DEF Write
<1>5. Entitled(c)
  BY <1>1
<1> HIDE DEF out
<1>6. CASE r.op = "admit"
  <2>1. out = JK!AdmitJob(entry.state, r.whenFull, r.job)
    BY <1>2, <1>6 DEF Reduce
  <2>2. JK!Admit(r.job, r.whenFull)
    BY <1>3, <1>4, <1>6, <2>1 DEF JK!Admit, Apply, MayApply
  <2> QED
    BY <1>2, <1>6, <2>2, RequestTypes DEF JK!Next
<1>7. CASE r.op = "acquire"
  <2>1. out = JK!AcquireActiveSlot(entry.state, r.slot, r.at)
    BY <1>2, <1>7 DEF Reduce
  <2>2. r.slot \in JK!Slot /\ r.at \in Times
    BY <1>2, <1>7, RequestTypes
  <2>3. owner[r.slot.token] = NoJob /\ r.at < r.slot.lease
    BY <1>5, <1>7 DEF Entitled
  <2>4. JK!Acquire(r.slot.job, r.slot.token, r.at, r.slot.lease)
    BY <1>3, <1>4, <1>7, <2>1, <2>2, <2>3, SlotParts DEF JK!Acquire, Apply
  <2> QED
    BY <2>2, <2>4, SlotParts DEF JK!Next
<1>8. CASE r.op = "renew"
  <2>1. out = JK!RenewActiveSlot(entry.state, r.slot)
    BY <1>2, <1>8 DEF Reduce
  <2>2. r.slot \in JK!Slot /\ owner[r.slot.token] = r.slot.job
    BY <1>2, <1>5, <1>8, RequestTypes DEF Entitled
  <2>3. JK!Renew(r.slot.token, r.slot.lease)
    BY <1>3, <1>4, <1>8, <2>1, <2>2, SlotParts, NoJobAssumption DEF JK!Renew, Apply
  <2> QED
    BY <2>2, <2>3, SlotParts DEF JK!Next
<1>9. CASE r.op = "release"
  <2>1. out = JK!ReleaseActiveSlot(entry.state, r.job, r.token)
    BY <1>2, <1>9 DEF Reduce
  <2>2. r.job \in Jobs /\ r.token \in Tokens /\ owner[r.token] = r.job
    BY <1>2, <1>5, <1>9, RequestTypes DEF Entitled
  <2>3. JK!Release(r.token)
    BY <1>3, <1>4, <1>9, <2>1, <2>2, NoJobAssumption DEF JK!Release, Apply
  <2> QED
    BY <2>2, <2>3 DEF JK!Next
<1>10. CASE r.op = "remove_queued"
  <2>1. out = JK!RemoveQueuedEntry(entry.state, r.job)
    BY <1>2, <1>10 DEF Reduce
  <2>2. JK!RemoveQueued(r.job)
    BY <1>3, <1>4, <1>10, <2>1 DEF JK!RemoveQueued, Apply
  <2> QED
    BY <1>2, <1>10, <2>2, RequestTypes DEF JK!Next
<1>11. CASE r.op = "cleanup"
  <2>1. out = JK!CleanupTerminal(entry.state, r.job)
    BY <1>2, <1>11 DEF Reduce
  <2>2. JK!Cleanup(r.job)
    BY <1>3, <1>4, <1>11, <2>1 DEF JK!Cleanup, Apply
  <2> QED
    BY <1>2, <1>11, <2>2, RequestTypes DEF JK!Next
<1>12. CASE r.op = "restore"
  <2>1. out = JK!RestoreReplaced(entry.state, r.pair[1], r.pair[2])
    BY <1>2, <1>12 DEF Reduce
  <2>2. r.pair \in replacing /\ r.pair \in Jobs \X Jobs
    BY <1>2, <1>5, <1>12, RequestTypes DEF Entitled
  <2>3. JK!Restore(r.pair)
    BY <1>3, <1>4, <1>12, <2>1, <2>2 DEF JK!Restore, Apply
  <2> QED
    BY <2>2, <2>3 DEF JK!Next
<1> QED
  BY <1>2, <1>6, <1>7, <1>8, <1>9, <1>10, <1>11, <1>12, RequestTypes

\* A client that is not involved keeps what it holds when a call ends or begins.
LEMMA NextCasInv == CasInv /\ [Next]_vars => CasInv'
<1> SUFFICES ASSUME CasInv, [Next]_vars PROVE CasInv'
  OBVIOUS
<1> USE DEF CasInv
<1>1. ASSUME NEW c \in Clients, NEW r \in Requests, Call(c, r)
      PROVE  CasInv'
  <2>1. call'[c] = Reading(r) /\ \A d \in Clients : d # c => call'[d] = call[d]
    BY <1>1 DEF Call
  <2>2. DOMAIN call' = Clients /\ UNCHANGED <<entry, owner, replacing>>
    BY <1>1 DEF Call
  <2>3. MayCall(r) /\ call[c] = Idle
    BY <1>1 DEF Call
  <2>4. r.op \in {"admit", "acquire", "renew", "release", "remove_queued", "cleanup", "restore"}
    BY RequestTypes
  <2>5. Entitled(c)' /\ Computed(c)'
    <3>1. Computed(c)'
      BY <2>1 DEF Computed, Reading
    <3>2. call'[c].req = r
      BY <2>1 DEF Reading
    <3>3. \A d \in Clients : d # c =>
            /\ \A t : Acquiring(d, t)' = Acquiring(d, t)
            /\ \A p : Restoring(d, p)' = Restoring(d, p)
      BY <2>1 DEF Acquiring, Restoring
    <3>4. CASE r.op = "acquire"
      <4>1. /\ owner[r.slot.token] = NoJob
            /\ r.at < r.slot.lease
            /\ \A d \in Clients : ~Acquiring(d, r.slot.token)
        BY <2>3, <3>4 DEF MayCall
      <4> QED
        BY <2>2, <3>1, <3>2, <3>3, <3>4, <4>1 DEF Entitled
    <3>5. CASE r.op = "restore"
      <4>1. r.pair \in replacing /\ \A d \in Clients : ~Restoring(d, r.pair)
        BY <2>3, <3>5 DEF MayCall
      <4> QED
        BY <2>2, <3>1, <3>2, <3>3, <3>5, <4>1 DEF Entitled
    <3>6. CASE r.op \notin {"acquire", "restore"}
      <4>1. /\ r.op = "renew" => owner[r.slot.token] = r.slot.job
            /\ r.op = "release" => owner[r.token] = r.job
        BY <2>3, <3>6 DEF MayCall
      <4> QED
        BY <2>2, <3>1, <3>2, <3>6, <4>1 DEF Entitled
    <3> QED
      BY <3>4, <3>5, <3>6
  <2>6. ASSUME NEW d \in Clients, d # c, call[d] # Idle
        PROVE  Entitled(d)' /\ Computed(d)'
    <3>1. Computed(d)'
      BY <2>1, <2>2, <2>6 DEF Computed
    <3>2. call[d].req.op = "acquire" => ~Acquiring(c, call[d].req.slot.token)'
      BY <2>1, <2>3, <2>6 DEF Acquiring, MayCall, Reading, Idle
    <3>3. call[d].req.op = "restore" => ~Restoring(c, call[d].req.pair)'
      BY <2>1, <2>3, <2>6 DEF Restoring, MayCall, Reading, Idle
    <3> QED
      BY <2>1, <2>2, <2>6, <3>1, <3>2, <3>3 DEF Entitled, Acquiring, Restoring
  <2> QED
    BY <2>1, <2>2, <2>5, <2>6 DEF Reading
<1>2. ASSUME NEW c \in Clients, UNCHANGED <<entry, owner, replacing>>,
             NEW new, call' = [call EXCEPT ![c] = new],
             \/ new = Idle
             \/ /\ call[c] # Idle /\ new.phase \in {"read", "write"}
                /\ new # Idle /\ new.req = call[c].req
                /\ new.phase = "write" => /\ new.rev = entry.rev
                                          /\ new.out = Reduce(new.req, entry.state)
                                          /\ new.out.kind \in JK!Persisted
      PROVE  CasInv'
  <2>1. call'[c] = new /\ \A d \in Clients : d # c => call'[d] = call[d]
    BY <1>2
  <2>2. \A d \in Clients : \A t : Acquiring(d, t)' => Acquiring(d, t)
    BY <1>2, <2>1 DEF Acquiring
  <2>3. \A d \in Clients : \A p : Restoring(d, p)' => Restoring(d, p)
    BY <1>2, <2>1 DEF Restoring
  <2>4. ASSUME NEW d \in Clients, call'[d] # Idle
        PROVE  Entitled(d)'
    <3>1. call[d] # Idle /\ call'[d].req = call[d].req
      BY <1>2, <2>1, <2>4
    <3> QED
      BY <1>2, <2>2, <2>3, <3>1 DEF Entitled
  <2>5. ASSUME NEW d \in Clients, call'[d] # Idle
        PROVE  Computed(d)'
    <3>1. CASE d = c
      BY <1>2, <2>1, <2>5, <3>1 DEF Computed
    <3>2. CASE d # c
      BY <1>2, <2>1, <2>5, <3>2 DEF Computed
    <3> QED
      BY <3>1, <3>2
  <2> QED
    BY <1>2, <2>1, <2>4, <2>5
<1>3. ASSUME NEW c \in Clients, Read(c)
      PROVE  CasInv'
  <2> DEFINE r == call[c].req
             out == Reduce(r, entry.state)
             new == IF out.kind \in JK!Persisted THEN Writing(r, entry.rev, out) ELSE Idle
  <2>1. call[c] # Idle
    BY <1>3 DEF Read, Idle
  <2>2. call' = [call EXCEPT ![c] = new] /\ UNCHANGED <<entry, owner, replacing>>
    BY <1>3 DEF Read
  <2>3. \/ new = Idle
        \/ /\ new.phase = "write" /\ new.req = r /\ new.rev = entry.rev /\ new.out = out
           /\ new # Idle /\ out.kind \in JK!Persisted
    BY DEF Writing, Idle
  <2> HIDE DEF new
  <2> QED
    BY <1>2, <2>1, <2>2, <2>3
<1>4. ASSUME NEW c \in Clients, Write(c)
      PROVE  CasInv'
  <2> DEFINE r == call[c].req
  <2>1. call'[c] = Idle /\ \A d \in Clients : d # c => call'[d] = call[d]
    BY <1>4 DEF Write
  <2>2. /\ DOMAIN call' = Clients /\ entry'.rev = entry.rev + 1
        /\ DOMAIN entry' = {"rev", "state"}
    BY <1>4 DEF Write, Apply
  <2>3. Entitled(c) /\ r \in Requests
    BY <1>4 DEF Write, Idle, Entitled
  <2>4. Apply(r, call[c].out)
    BY <1>4 DEF Write
  <2>5. owner' \in [Tokens -> Jobs \union {NoJob}]
    <3>1. CASE r.op = "acquire"
      <4>1. r.slot.token \in Tokens /\ r.slot.job \in Jobs
        BY <2>3, <3>1, RequestTypes, SlotParts
      <4> QED
        BY <2>4, <3>1, <4>1 DEF Apply
    <3>2. CASE r.op # "acquire"
      BY <2>4, <3>2 DEF Apply
    <3> QED
      BY <3>1, <3>2
  <2>6. ASSUME NEW d \in Clients, d # c, call[d] # Idle
        PROVE  Computed(d)'
    BY <2>1, <2>2, <2>6 DEF Computed
  <2>7. ASSUME NEW d \in Clients, d # c, call[d] # Idle
        PROVE  Entitled(d)'
    <3> DEFINE q == call[d].req
    <3>1. Entitled(d) /\ call'[d] = call[d] /\ q \in Requests
      BY <2>1, <2>7 DEF Entitled
    <3>2. \A e \in Clients : \A t : Acquiring(e, t)' => Acquiring(e, t)
      BY <2>1 DEF Acquiring
    <3>3. \A e \in Clients : \A p : Restoring(e, p)' => Restoring(e, p)
      BY <2>1 DEF Restoring
    <3>4. \A t \in Tokens : owner[t] # NoJob => owner'[t] = owner[t]
      BY <2>3, <2>4 DEF Apply, Entitled
    <3>5. CASE q.op = "acquire"
      <4>1. r.op = "acquire" => r.slot.token # q.slot.token
        <5>1. ASSUME r.op = "acquire", r.slot.token = q.slot.token
              PROVE  FALSE
          <6>1. Acquiring(c, q.slot.token)
            BY <1>4, <5>1 DEF Acquiring, Write, Idle
          <6> QED
            BY <2>7, <3>1, <3>5, <6>1 DEF Entitled
        <5> QED
          BY <5>1
      <4>2. owner'[q.slot.token] = NoJob
        BY <2>4, <3>1, <3>5, <4>1 DEF Apply, Entitled
      <4> QED
        BY <3>1, <3>2, <3>5, <4>2 DEF Entitled
    <3>6. CASE q.op = "renew"
      <4>1. q.slot.token \in Tokens /\ q.slot.job \in Jobs
        BY <3>1, <3>6, RequestTypes, SlotParts
      <4> QED
        BY <3>1, <3>4, <3>6, <4>1, NoJobAssumption DEF Entitled
    <3>7. CASE q.op = "release"
      <4>1. q.token \in Tokens /\ q.job \in Jobs
        BY <3>1, <3>7, RequestTypes
      <4> QED
        BY <3>1, <3>4, <3>7, <4>1, NoJobAssumption DEF Entitled
    <3>8. CASE q.op = "restore"
      <4>1. r.op = "restore" => r.pair # q.pair
        <5>1. ASSUME r.op = "restore", r.pair = q.pair
              PROVE  FALSE
          <6>1. Restoring(c, q.pair)
            BY <1>4, <5>1 DEF Restoring, Write, Idle
          <6> QED
            BY <2>7, <3>1, <3>8, <6>1 DEF Entitled
        <5> QED
          BY <5>1
      <4>2. q.pair \in replacing'
        BY <2>4, <3>1, <3>8, <4>1 DEF Apply, Entitled
      <4> QED
        BY <3>1, <3>3, <3>8, <4>2 DEF Entitled
    <3>9. CASE q.op \in {"admit", "remove_queued", "cleanup"}
      BY <3>1, <3>9 DEF Entitled
    <3> QED
      BY <3>1, <3>5, <3>6, <3>7, <3>8, <3>9, RequestTypes
  <2> QED
    BY <2>1, <2>2, <2>5, <2>6, <2>7
<1>5. ASSUME NEW c \in Clients, Mismatch(c)
      PROVE  CasInv'
  <2> DEFINE new == Reading(call[c].req)
  <2>1. new.phase = "read" /\ new # Idle /\ new.req = call[c].req
    BY DEF Reading, Idle
  <2>2. /\ call[c] # Idle /\ call' = [call EXCEPT ![c] = new]
        /\ UNCHANGED <<entry, owner, replacing>>
    BY <1>5 DEF Mismatch, Idle
  <2> HIDE DEF new
  <2> QED
    BY <1>2, <2>1, <2>2
<1>6. ASSUME NEW c \in Clients, GiveUp(c)
      PROVE  CasInv'
  BY <1>2, <1>6 DEF GiveUp
<1>7. ASSUME NEW pair \in Jobs \X Jobs, Settle(pair)
      PROVE  CasInv'
  <2>1. UNCHANGED <<entry, call, owner>>
    BY <1>7 DEF Settle
  <2>2. ASSUME NEW d \in Clients, call[d] # Idle
        PROVE  Entitled(d)' /\ Computed(d)'
    <3>1. Computed(d)'
      BY <2>1, <2>2 DEF Computed
    <3>2. call[d].req.op = "restore" => call[d].req.pair # pair
      BY <1>7, <2>2 DEF Settle, Restoring
    <3> QED
      BY <1>7, <2>1, <2>2, <3>1, <3>2 DEF Entitled, Settle, Acquiring, Restoring
  <2> QED
    BY <2>1, <2>2
<1>8. CASE UNCHANGED vars
  <2>1. UNCHANGED <<entry, call, owner, replacing>>
    BY <1>8 DEF vars
  <2>2. ASSUME NEW d \in Clients, call[d] # Idle
        PROVE  Entitled(d)' /\ Computed(d)'
    BY <2>1, <2>2 DEF Entitled, Computed, Acquiring, Restoring
  <2> QED
    BY <2>1, <2>2
<1> QED
  BY <1>1, <1>3, <1>4, <1>5, <1>6, <1>7, <1>8 DEF Next

\* A write whose revision still matches holds the reduction of the current record.
THEOREM FreshWrites == Spec => []WritesFresh
<1>1. CasInv => WritesFresh
  BY DEF CasInv, Computed, WritesFresh, Idle
<1> QED
  BY <1>1, InitCasInv, NextCasInv, PTL DEF Spec

\* The compare-and-set loop implements the atomic key record.
THEOREM CoordinatorAtomic == Spec => Atomic
<1>1. Init => JK!Init
  BY DEF Init, JK!Init
<1>2. ASSUME CasInv, [Next]_vars
      PROVE  [JK!Next]_(JK!vars)
  <2>1. ASSUME NEW c \in Clients, Write(c)
        PROVE  JK!Next
    BY <1>2, <2>1, WriteIsOperation
  <2>2. ASSUME NEW pair \in Jobs \X Jobs, Settle(pair)
        PROVE  JK!Next
    BY <2>2 DEF Settle, JK!Settle, JK!Next
  <2>3. ASSUME UNCHANGED <<entry, owner, replacing>>
        PROVE  UNCHANGED JK!vars
    BY <2>3 DEF JK!vars
  <2> QED
    BY <1>2, <2>1, <2>2, <2>3 DEF Next, Call, Read, Mismatch, GiveUp, vars
<1> QED
  BY <1>1, <1>2, InitCasInv, NextCasInv, PTL DEF Spec, Atomic, JK!Spec
=============================================================================
