---------------------------- MODULE JobKeysProofs ----------------------------
(***************************************************************************)
(* Proofs about JobKeys, for every set of jobs, tokens and clock readings  *)
(* and every policy.                                                       *)
(***************************************************************************)
EXTENDS JobKeys, SequenceTheorems, WellFoundedInduction, TLAPS

(***************************************************************************)
(* Sequences                                                               *)
(***************************************************************************)

\* What RemoveAt leaves: one element less, the others in their order.
LEMMA RemoveAtProperties ==
  ASSUME NEW S, NEW s \in Seq(S), NEW p \in DOMAIN s
  PROVE  /\ RemoveAt(s, p) \in Seq(S)
         /\ Len(RemoveAt(s, p)) = Len(s) - 1
         /\ DOMAIN RemoveAt(s, p) = 1..(Len(s) - 1)
         /\ \A i \in 1..(Len(s) - 1) :
              RemoveAt(s, p)[i] = IF i < p THEN s[i] ELSE s[i + 1]
<1> DEFINE left == SubSeq(s, 1, p - 1)
           right == SubSeq(s, p + 1, Len(s))
<1>1. p \in 1..Len(s) /\ Len(s) \in Nat
  BY LenProperties
<1>2. /\ left \in Seq(S)
      /\ Len(left) = p - 1
      /\ \A i \in 1..(p - 1) : left[i] = s[i]
  <2>1. \A i \in 1..(p - 1) : s[i] \in S
    BY <1>1, ElementOfSeq
  <2> HIDE DEF left
  <2> QED
    BY <1>1, <2>1, SubSeqProperties DEF left
<1>3. /\ right \in Seq(S)
      /\ Len(right) = Len(s) - p
      /\ \A i \in 1..(Len(s) - p) : right[i] = s[p + i]
  <2>1. \A i \in (p + 1)..Len(s) : s[i] \in S
    BY <1>1, ElementOfSeq
  <2>2. /\ right \in Seq(S)
        /\ Len(right) = IF p + 1 <= Len(s) THEN Len(s) - (p + 1) + 1 ELSE 0
        /\ \A i \in 1..(Len(s) - (p + 1) + 1) : right[i] = s[(p + 1) + i - 1]
    BY <1>1, <2>1, SubSeqProperties
  <2> HIDE DEF right
  <2> QED
    BY <1>1, <2>2
<1>4. RemoveAt(s, p) = left \o right
  BY DEF RemoveAt
<1> HIDE DEF left, right
<1> DEFINE rest == left \o right
<1>5. /\ rest \in Seq(S)
      /\ Len(rest) = Len(left) + Len(right)
      /\ \A i \in 1..(Len(left) + Len(right)) :
           rest[i] = IF i <= Len(left) THEN left[i] ELSE right[i - Len(left)]
  BY <1>2, <1>3, ConcatProperties
<1> HIDE DEF rest
<1>6. Len(left) + Len(right) = Len(s) - 1
  BY <1>1, <1>2, <1>3
<1>7. Len(rest) = Len(s) - 1 /\ DOMAIN rest = 1..(Len(s) - 1)
  BY <1>5, <1>6, LenProperties
<1>8. ASSUME NEW i \in 1..(Len(s) - 1)
      PROVE  rest[i] = IF i < p THEN s[i] ELSE s[i + 1]
  <2>1. CASE i < p
    <3>1. i \in 1..(p - 1) /\ i <= Len(left)
      BY <1>1, <1>2, <2>1
    <3>2. rest[i] = left[i]
      BY <1>5, <1>6, <3>1
    <3> QED
      BY <1>2, <2>1, <3>1, <3>2
  <2>2. CASE ~(i < p)
    <3>1. /\ ~(i <= Len(left)) /\ i - Len(left) \in 1..(Len(s) - p)
          /\ p + (i - Len(left)) = i + 1
      BY <1>1, <1>2, <2>2
    <3>2. rest[i] = right[i - Len(left)]
      BY <1>5, <1>6, <3>1
    <3>3. right[i - Len(left)] = s[i + 1]
      BY <1>3, <3>1
    <3> QED
      BY <2>2, <3>2, <3>3
  <2> QED
    BY <2>1, <2>2
<1>9. RemoveAt(s, p) = rest
  BY <1>4 DEF rest
<1> QED
  BY <1>5, <1>7, <1>8, <1>9

\* The elements that stay come from distinct places other than the removed one.
LEMMA RemoveAtPlaces ==
  ASSUME NEW S, NEW s \in Seq(S), NEW p \in DOMAIN s
  PROVE  \E from \in [DOMAIN RemoveAt(s, p) -> DOMAIN s \ {p}] :
           /\ \A i \in DOMAIN RemoveAt(s, p) : RemoveAt(s, p)[i] = s[from[i]]
           /\ \A i, k \in DOMAIN RemoveAt(s, p) : i # k => from[i] # from[k]
<1> DEFINE n == Len(s) - 1
           from == [i \in 1..n |-> IF i < p THEN i ELSE i + 1]
<1>1. p \in 1..Len(s) /\ Len(s) \in Nat /\ DOMAIN s = 1..Len(s)
  BY LenProperties
<1>2. /\ DOMAIN RemoveAt(s, p) = 1..n
      /\ \A i \in 1..n : RemoveAt(s, p)[i] = IF i < p THEN s[i] ELSE s[i + 1]
  BY RemoveAtProperties
<1>3. from \in [1..n -> DOMAIN s \ {p}]
  BY <1>1
<1>4. \A i, k \in 1..n : i # k => from[i] # from[k]
  BY <1>1
<1>5. \A i \in 1..n : RemoveAt(s, p)[i] = s[from[i]]
  BY <1>1, <1>2
<1> HIDE DEF from, n
<1>6. from \in [DOMAIN RemoveAt(s, p) -> DOMAIN s \ {p}]
  BY <1>2, <1>3
<1> WITNESS from \in [DOMAIN RemoveAt(s, p) -> DOMAIN s \ {p}]
<1> QED
  BY <1>2, <1>4, <1>5

\* Every other element stays.
LEMMA RemoveAtKeeps ==
  ASSUME NEW S, NEW s \in Seq(S), NEW p \in DOMAIN s, NEW k \in DOMAIN s, k # p
  PROVE  \E i \in DOMAIN RemoveAt(s, p) : RemoveAt(s, p)[i] = s[k]
<1>1. p \in 1..Len(s) /\ k \in 1..Len(s) /\ Len(s) \in Nat
  BY LenProperties
<1>2. /\ DOMAIN RemoveAt(s, p) = 1..(Len(s) - 1)
      /\ \A i \in 1..(Len(s) - 1) : RemoveAt(s, p)[i] = IF i < p THEN s[i] ELSE s[i + 1]
  BY RemoveAtProperties
<1>3. CASE k < p
  <2>1. k \in 1..(Len(s) - 1)
    BY <1>1, <1>3
  <2> QED
    BY <1>2, <1>3, <2>1
<1>4. CASE ~(k < p)
  <2>1. k - 1 \in 1..(Len(s) - 1) /\ ~(k - 1 < p) /\ (k - 1) + 1 = k
    BY <1>1, <1>4
  <2>2. RemoveAt(s, p)[k - 1] = s[k]
    BY <1>2, <2>1
  <2> QED
    BY <1>2, <2>1, <2>2
<1> QED
  BY <1>3, <1>4

\* A nonempty set of naturals has a least element.
LEMMA LeastNat ==
  ASSUME NEW T, T \subseteq Nat, T # {}
  PROVE  \E x \in T : \A y \in T : ~(y < x)
<1>1. \E x \in T : \A y \in T : ~(<<y, x>> \in OpToRel(<, Nat))
  BY NatLessThanWellFounded, WFMin, Zenon
<1>2. \A x, y \in Nat : y < x => <<y, x>> \in OpToRel(<, Nat)
  BY DEF OpToRel
<1> QED
  BY <1>1, <1>2
(***************************************************************************)
(* The reducers.  A record is well formed for a token book when it has the *)
(* invariants of the specification and every slot carries a token that was *)
(* generated for its job.  The last conjunct is what makes the others      *)
(* inductive: it is why a fresh token cannot already be in the record.     *)
(***************************************************************************)
ActiveOK(active, own) ==
  /\ active \in Seq(Slot)
  /\ Len(active) <= MaxActive
  /\ \A i, k \in DOMAIN active : i # k => active[i].job # active[k].job
  /\ \A i \in DOMAIN active : own[active[i].token] = active[i].job

QueueOK(queued) ==
  /\ queued \in Seq(Jobs)
  /\ \A i, k \in DOMAIN queued : i # k => queued[i] # queued[k]

WellFormed(ks, own) ==
  /\ ks \in KeyState
  /\ ActiveOK(ks.active, own)
  /\ QueueOK(ks.queued)

\* Removing any slot keeps the slots in order.
LEMMA ActiveRemove ==
  ASSUME NEW own, NEW active, ActiveOK(active, own), NEW p \in DOMAIN active
  PROVE  /\ ActiveOK(RemoveAt(active, p), own)
         /\ Len(RemoveAt(active, p)) = Len(active) - 1
         /\ \A i \in DOMAIN RemoveAt(active, p) : RemoveAt(active, p)[i].job # active[p].job
<1> DEFINE rest == RemoveAt(active, p)
<1>1. active \in Seq(Slot) /\ Len(active) \in Nat
  BY LenProperties DEF ActiveOK
<1>2. rest \in Seq(Slot) /\ Len(rest) = Len(active) - 1
  BY <1>1, RemoveAtProperties
<1>3. PICK from \in [DOMAIN rest -> DOMAIN active \ {p}] :
        /\ \A i \in DOMAIN rest : rest[i] = active[from[i]]
        /\ \A i, k \in DOMAIN rest : i # k => from[i] # from[k]
  BY <1>1, RemoveAtPlaces
<1> HIDE DEF rest
<1>4. Len(rest) <= MaxActive
  BY <1>1, <1>2, PolicyAssumption DEF ActiveOK
<1>5. \A i, k \in DOMAIN rest : i # k => rest[i].job # rest[k].job
  BY <1>3 DEF ActiveOK
<1>6. \A i \in DOMAIN rest :
        own[rest[i].token] = rest[i].job /\ rest[i].job # active[p].job
  BY <1>3 DEF ActiveOK
<1>7. ActiveOK(rest, own)
  BY <1>2, <1>4, <1>5, <1>6 DEF ActiveOK
<1> QED
  BY <1>2, <1>6, <1>7 DEF rest

\* Adding a slot of a job that has none, below the limit, keeps them in order.
LEMMA ActiveAppend ==
  ASSUME NEW own, NEW active, ActiveOK(active, own), NEW slot \in Slot,
         Len(active) < MaxActive, own[slot.token] = slot.job,
         \A i \in DOMAIN active : active[i].job # slot.job
  PROVE  ActiveOK(Append(active, slot), own)
<1> DEFINE more == Append(active, slot)
<1>1. active \in Seq(Slot) /\ Len(active) \in Nat /\ DOMAIN active = 1..Len(active)
  BY LenProperties DEF ActiveOK
<1>2. /\ more \in Seq(Slot)
      /\ Len(more) = Len(active) + 1
      /\ DOMAIN more = 1..(Len(active) + 1)
      /\ \A i \in 1..Len(active) : more[i] = active[i]
      /\ more[Len(active) + 1] = slot
  BY <1>1, AppendProperties, LenProperties
<1> HIDE DEF more
<1>3. Len(more) <= MaxActive
  BY <1>1, <1>2, PolicyAssumption
<1>4. ASSUME NEW i \in DOMAIN more, NEW k \in DOMAIN more, i # k
      PROVE  more[i].job # more[k].job
  BY <1>1, <1>2, <1>4 DEF ActiveOK
<1>5. ASSUME NEW i \in DOMAIN more
      PROVE  own[more[i].token] = more[i].job
  BY <1>1, <1>2 DEF ActiveOK
<1> QED
  BY <1>2, <1>3, <1>4, <1>5 DEF ActiveOK, more

\* Rewriting a slot in place with the same job and token keeps them in order.
LEMMA ActiveReplace ==
  ASSUME NEW own, NEW active, ActiveOK(active, own), NEW slot \in Slot,
         NEW p \in DOMAIN active, own[slot.token] = slot.job, active[p].job = slot.job
  PROVE  ActiveOK([active EXCEPT ![p] = slot], own)
<1> DEFINE new == [active EXCEPT ![p] = slot]
<1>1. active \in Seq(Slot) /\ Len(active) \in Nat /\ DOMAIN active = 1..Len(active)
  BY LenProperties DEF ActiveOK
<1>2. /\ new \in Seq(Slot)
      /\ Len(new) = Len(active)
      /\ DOMAIN new = DOMAIN active
      /\ \A i \in DOMAIN active : new[i] = IF i = p THEN slot ELSE active[i]
  BY <1>1, ExceptSeq
<1> HIDE DEF new
<1>3. ASSUME NEW i \in DOMAIN new, NEW k \in DOMAIN new, i # k
      PROVE  new[i].job # new[k].job
  BY <1>1, <1>2, <1>3 DEF ActiveOK
<1>4. ASSUME NEW i \in DOMAIN new
      PROVE  own[new[i].token] = new[i].job
  BY <1>1, <1>2 DEF ActiveOK
<1> QED
  BY <1>2, <1>3, <1>4 DEF ActiveOK, new

\* Removing a place of the queue keeps the queue free of duplicates.
LEMMA QueueRemove ==
  ASSUME NEW queued, QueueOK(queued), NEW p \in DOMAIN queued
  PROVE  /\ QueueOK(RemoveAt(queued, p))
         /\ \A i \in DOMAIN RemoveAt(queued, p) :
              \E k \in DOMAIN queued \ {p} : RemoveAt(queued, p)[i] = queued[k]
<1> DEFINE rest == RemoveAt(queued, p)
<1>1. queued \in Seq(Jobs)
  BY DEF QueueOK
<1>2. rest \in Seq(Jobs)
  BY <1>1, RemoveAtProperties
<1>3. PICK from \in [DOMAIN rest -> DOMAIN queued \ {p}] :
        /\ \A i \in DOMAIN rest : rest[i] = queued[from[i]]
        /\ \A i, k \in DOMAIN rest : i # k => from[i] # from[k]
  BY <1>1, RemoveAtPlaces
<1> HIDE DEF rest
<1>4. QueueOK(rest)
  BY <1>2, <1>3 DEF QueueOK
<1>5. \A i \in DOMAIN rest : \E k \in DOMAIN queued \ {p} : rest[i] = queued[k]
  BY <1>3
<1> QED
  BY <1>4, <1>5 DEF rest

\* Appending a job that is not queued keeps the queue free of duplicates.
LEMMA QueueAppend ==
  ASSUME NEW queued, QueueOK(queued), NEW j \in Jobs,
         \A i \in DOMAIN queued : queued[i] # j
  PROVE  QueueOK(Append(queued, j))
<1>1. queued \in Seq(Jobs) /\ Len(queued) \in Nat /\ DOMAIN queued = 1..Len(queued)
  BY LenProperties DEF QueueOK
<1>2. /\ Append(queued, j) \in Seq(Jobs)
      /\ DOMAIN Append(queued, j) = 1..(Len(queued) + 1)
      /\ \A i \in 1..Len(queued) : Append(queued, j)[i] = queued[i]
      /\ Append(queued, j)[Len(queued) + 1] = j
  BY <1>1, AppendProperties, LenProperties
<1> QED
  BY <1>1, <1>2 DEF QueueOK

\* So does putting such a job at the front, as the rollback of a replacement does.
LEMMA QueuePrepend ==
  ASSUME NEW queued, QueueOK(queued), NEW j \in Jobs,
         \A i \in DOMAIN queued : queued[i] # j
  PROVE  QueueOK(<<j>> \o queued)
<1>1. queued \in Seq(Jobs) /\ Len(queued) \in Nat /\ DOMAIN queued = 1..Len(queued)
  BY LenProperties DEF QueueOK
<1>2. <<j>> \in Seq(Jobs) /\ Len(<<j>>) = 1 /\ <<j>>[1] = j
  OBVIOUS
<1>3. /\ <<j>> \o queued \in Seq(Jobs)
      /\ Len(<<j>> \o queued) = 1 + Len(queued)
      /\ \A i \in 1..(1 + Len(queued)) :
           (<<j>> \o queued)[i] = IF i <= 1 THEN <<j>>[i] ELSE queued[i - 1]
  BY <1>1, <1>2, ConcatProperties
<1>4. DOMAIN (<<j>> \o queued) = 1..(1 + Len(queued))
  BY <1>3, LenProperties
<1> DEFINE all == <<j>> \o queued
<1>5. all[1] = j /\ \A i \in 2..(1 + Len(queued)) : all[i] = queued[i - 1]
  BY <1>1, <1>2, <1>3
<1> HIDE DEF all
<1>6. ASSUME NEW i \in 1..(1 + Len(queued)), NEW k \in 1..(1 + Len(queued)), i # k
      PROVE  all[i] # all[k]
  <2>1. CASE i = 1
    <3>1. k \in 2..(1 + Len(queued)) /\ k - 1 \in DOMAIN queued
      BY <1>1, <1>6, <2>1
    <3> QED
      BY <1>5, <2>1, <3>1
  <2>2. CASE k = 1
    <3>1. i \in 2..(1 + Len(queued)) /\ i - 1 \in DOMAIN queued
      BY <1>1, <1>6, <2>2
    <3> QED
      BY <1>5, <2>2, <3>1
  <2>3. CASE i # 1 /\ k # 1
    <3>1. /\ i \in 2..(1 + Len(queued)) /\ i - 1 \in DOMAIN queued
          /\ k \in 2..(1 + Len(queued)) /\ k - 1 \in DOMAIN queued
          /\ i - 1 # k - 1
      BY <1>1, <1>6, <2>3
    <3> QED
      BY <1>5, <3>1 DEF QueueOK
  <2> QED
    BY <2>1, <2>2, <2>3
<1>7. all \in Seq(Jobs) /\ DOMAIN all = 1..(1 + Len(queued))
  BY <1>3, <1>4 DEF all
<1>8. QueueOK(all)
  BY <1>6, <1>7 DEF QueueOK
<1> QED
  BY <1>8 DEF all

\* DropSlot takes the job's slot out and touches nothing else.
LEMMA DropSlotProperties ==
  ASSUME NEW own, NEW ks, WellFormed(ks, own), NEW j
  PROVE  /\ WellFormed(DropSlot(ks, j), own)
         /\ ~HoldsSlot(DropSlot(ks, j), j)
         /\ DropSlot(ks, j).queued = ks.queued
         /\ DropSlot(ks, j).cleanup = ks.cleanup
<1>1. CASE ~HoldsSlot(ks, j)
  BY <1>1 DEF DropSlot
<1>2. CASE HoldsSlot(ks, j)
  <2> DEFINE p == SlotIndex(ks, j)
             rest == RemoveAt(ks.active, p)
             new == [ks EXCEPT !.active = rest]
  <2>1. p \in DOMAIN ks.active /\ ks.active[p].job = j
    BY <1>2 DEF HoldsSlot, SlotIndex
  <2>2. /\ ActiveOK(rest, own)
        /\ \A i \in DOMAIN rest : rest[i].job # j
    BY <2>1, ActiveRemove DEF WellFormed
  <2>3. DropSlot(ks, j) = new
    BY <1>2 DEF DropSlot
  <2> HIDE DEF rest, p
  <2>4. new.active = rest /\ new.queued = ks.queued /\ new.cleanup = ks.cleanup
    BY DEF WellFormed, KeyState
  <2>5. new \in KeyState
    BY <2>2 DEF WellFormed, KeyState, ActiveOK
  <2> HIDE DEF new
  <2> QED
    BY <2>2, <2>3, <2>4, <2>5 DEF WellFormed, HoldsSlot
<1> QED
  BY <1>1, <1>2

\* Dequeue takes the job's reservation out and touches nothing else.
LEMMA DequeueProperties ==
  ASSUME NEW own, NEW ks, WellFormed(ks, own), NEW j
  PROVE  /\ WellFormed(Dequeue(ks, j), own)
         /\ ~IsQueued(Dequeue(ks, j), j)
         /\ \A o : IsQueued(Dequeue(ks, j), o) => IsQueued(ks, o)
         /\ Dequeue(ks, j).active = ks.active
         /\ Dequeue(ks, j).cleanup = ks.cleanup
<1>1. CASE ~IsQueued(ks, j)
  BY <1>1 DEF Dequeue
<1>2. CASE IsQueued(ks, j)
  <2> DEFINE p == QueueIndex(ks, j)
             rest == RemoveAt(ks.queued, p)
             new == [ks EXCEPT !.queued = rest]
  <2>1. p \in DOMAIN ks.queued /\ ks.queued[p] = j
    BY <1>2 DEF IsQueued, QueueIndex
  <2>2. /\ QueueOK(rest)
        /\ \A i \in DOMAIN rest : \E k \in DOMAIN ks.queued \ {p} : rest[i] = ks.queued[k]
    BY <2>1, QueueRemove DEF WellFormed
  <2>3. Dequeue(ks, j) = new
    BY <1>2 DEF Dequeue
  <2> HIDE DEF rest, p
  <2>4. new.queued = rest /\ new.active = ks.active /\ new.cleanup = ks.cleanup
    BY DEF WellFormed, KeyState
  <2>5. new \in KeyState
    BY <2>2 DEF WellFormed, KeyState, QueueOK
  <2> HIDE DEF new
  <2>6. ~IsQueued(new, j) /\ \A o : IsQueued(new, o) => IsQueued(ks, o)
    BY <2>1, <2>2, <2>4 DEF IsQueued, WellFormed, QueueOK
  <2> QED
    BY <2>2, <2>3, <2>4, <2>5, <2>6 DEF WellFormed
<1> QED
  BY <1>1, <1>2

\* PushSlot below the limit, for a job without a slot.
LEMMA PushSlotProperties ==
  ASSUME NEW own, NEW ks, WellFormed(ks, own), NEW slot \in Slot,
         Len(ks.active) < MaxActive, own[slot.token] = slot.job, ~HoldsSlot(ks, slot.job)
  PROVE  WellFormed(PushSlot(ks, slot), own)
<1> DEFINE more == Append(ks.active, slot)
           new == [ks EXCEPT !.active = more]
<1>1. ActiveOK(more, own)
  BY ActiveAppend DEF WellFormed, HoldsSlot
<1>2. PushSlot(ks, slot) = new
  BY DEF PushSlot
<1> HIDE DEF more
<1>3. new.active = more /\ new.queued = ks.queued /\ new \in KeyState
  BY <1>1, SMTT(20) DEF WellFormed, KeyState, ActiveOK
<1> HIDE DEF new
<1> QED
  BY <1>1, <1>2, <1>3 DEF WellFormed

\* When some slot is expired, FirstExpired is the place of an expired slot.
LEMMA FirstExpiredProperties ==
  ASSUME NEW ks, NEW own, WellFormed(ks, own), NEW at, SomeExpired(ks, at)
  PROVE  FirstExpired(ks, at) \in DOMAIN ks.active
<1> DEFINE T == {i \in DOMAIN ks.active : LeaseExpired(ks.active[i], at)}
<1>1. DOMAIN ks.active = 1..Len(ks.active) /\ Len(ks.active) \in Nat
  BY LenProperties DEF WellFormed, ActiveOK
<1>2. T \subseteq Nat /\ T # {}
  BY <1>1 DEF SomeExpired
<1>3. PICK x \in T : \A y \in T : ~(y < x)
  BY <1>2, LeastNat, Zenon
<1>4. \A k \in 1..(x - 1) : ~LeaseExpired(ks.active[k], at)
  BY <1>1, <1>3
<1> QED
  BY <1>3, <1>4 DEF FirstExpired

(***************************************************************************)
(* Each reducer keeps a well-formed record well formed.                    *)
(***************************************************************************)

LEMMA NextStateProperties ==
  ASSUME NEW own, NEW ks, WellFormed(ks, own), NEW kind, NEW new, WellFormed(new, own)
  PROVE  WellFormed(NextState(ks, Outcome(kind, new)), own)
BY DEF NextState, Outcome

\* Admission: already present, room in the queue, or full.
LEMMA AdmitJobWellFormed ==
  ASSUME NEW own, NEW ks, WellFormed(ks, own), NEW j \in Jobs, NEW w
  PROVE  WellFormed(NextState(ks, AdmitJob(ks, w, j)), own)
<1> DEFINE in == HoldsSlot(ks, j) \/ IsQueued(ks, j)
<1>1. CASE in
  <2>1. AdmitJob(ks, w, j) = Outcome("accepted", ks)
    BY <1>1 DEF AdmitJob
  <2> QED
    BY <2>1, NextStateProperties
<1>2. CASE ~in /\ ~QueueFull(ks)
  <2> DEFINE new == [ks EXCEPT !.queued = Append(@, j)]
  <2>1. AdmitJob(ks, w, j) = Outcome("accepted", new)
    BY <1>2 DEF AdmitJob
  <2>2. QueueOK(Append(ks.queued, j))
    BY <1>2, QueueAppend DEF WellFormed, IsQueued
  <2>3. WellFormed(new, own)
    BY <2>2 DEF WellFormed, KeyState, QueueOK
  <2> QED
    BY <2>1, <2>3, NextStateProperties
<1>3. CASE ~in /\ QueueFull(ks)
  <2> DEFINE new == [ks EXCEPT !.queued = Append(Tail(@), j)]
  <2>1. \/ AdmitJob(ks, w, j) = Outcome("coalesced", ks)
        \/ AdmitJob(ks, w, j) = Outcome("rejected", ks)
        \/ ks.queued # <<>> /\ AdmitJob(ks, w, j) = Outcome("replaced", new)
    BY <1>3, Zenon DEF AdmitJob
  <2>2. ASSUME ks.queued # <<>>
        PROVE  WellFormed(new, own)
    <3>1. /\ ks.queued \in Seq(Jobs) /\ Len(ks.queued) \in Nat
          /\ DOMAIN ks.queued = 1..Len(ks.queued)
      BY LenProperties DEF WellFormed, QueueOK
    <3>2. /\ Tail(ks.queued) \in Seq(Jobs)
          /\ DOMAIN Tail(ks.queued) = 1..(Len(ks.queued) - 1)
          /\ \A i \in 1..(Len(ks.queued) - 1) : Tail(ks.queued)[i] = ks.queued[i + 1]
      BY <2>2, <3>1, HeadTailProperties, LenProperties
    <3>3. \A i \in 1..(Len(ks.queued) - 1) : i + 1 \in DOMAIN ks.queued
      BY <3>1
    <3> DEFINE rest == Tail(ks.queued)
    <3> HIDE DEF rest
    <3>4. \A i \in DOMAIN rest : rest[i] # j
      BY <1>3, <3>1, <3>2, <3>3 DEF IsQueued, rest
    <3>5. \A i, k \in DOMAIN rest : i # k => i + 1 # k + 1
      BY <3>1, <3>2 DEF rest
    <3>6. QueueOK(rest)
      BY <3>1, <3>2, <3>3, <3>5 DEF WellFormed, QueueOK, rest
    <3>7. QueueOK(Append(Tail(ks.queued), j))
      BY <3>4, <3>6, QueueAppend DEF rest
    <3> QED
      BY <3>7 DEF WellFormed, KeyState, QueueOK
  <2> QED
    BY <2>1, <2>2, NextStateProperties
<1> QED
  BY <1>1, <1>2, <1>3

\* A slot is taken below the limit or in the place of an expired one.
LEMMA TakeSlotWellFormed ==
  ASSUME NEW own, NEW ks, WellFormed(ks, own), NEW slot \in Slot, NEW at,
         own[slot.token] = slot.job, ~HoldsSlot(ks, slot.job)
  PROVE  \E kind, new :
           /\ TakeSlot(ks, slot, at) = Outcome(kind, new)
           /\ WellFormed(new, own)
<1>1. CASE Len(ks.active) < MaxActive
  BY <1>1, PushSlotProperties DEF TakeSlot
<1>2. CASE ~(Len(ks.active) < MaxActive) /\ SomeExpired(ks, at) /\ StalePolicy = "fail-stale"
  <2> DEFINE p == FirstExpired(ks, at)
             rest == RemoveAt(ks.active, p)
             mid == [ks EXCEPT !.active = rest, !.cleanup = @ \union {ks.active[p].job}]
  <2>1. p \in DOMAIN ks.active
    BY <1>2, FirstExpiredProperties
  <2>2. ActiveOK(rest, own) /\ Len(rest) = Len(ks.active) - 1
    BY <2>1, ActiveRemove DEF WellFormed
  <2>3. \A i \in DOMAIN rest : rest[i].job # slot.job
    <3>1. PICK from \in [DOMAIN rest -> DOMAIN ks.active \ {p}] :
            \A i \in DOMAIN rest : rest[i] = ks.active[from[i]]
      BY <2>1, RemoveAtPlaces DEF WellFormed, ActiveOK
    <3> HIDE DEF rest, p
    <3> QED
      BY <3>1 DEF HoldsSlot
  <2>4. TakeSlot(ks, slot, at) = Outcome("acquired", PushSlot(mid, slot))
    BY <1>2 DEF TakeSlot
  <2>5. Len(ks.active) \in Nat /\ Len(ks.active) <= MaxActive
    BY LenProperties DEF WellFormed, ActiveOK
  <2>6. ks.active[p].job \in Jobs
    <3>1. ks.active \in Seq(Slot)
      BY DEF WellFormed, ActiveOK
    <3>2. ks.active[p] \in Slot
      BY <2>1, <3>1, ElementOfSeq, LenProperties
    <3> QED
      BY <3>2 DEF Slot
  <2> HIDE DEF rest, p
  <2>7. mid.active = rest /\ mid.queued = ks.queued /\ mid \in KeyState
    BY <2>2, <2>6 DEF WellFormed, KeyState, ActiveOK
  <2> HIDE DEF mid
  <2>8. WellFormed(mid, own) /\ Len(mid.active) < MaxActive /\ ~HoldsSlot(mid, slot.job)
    BY <2>2, <2>3, <2>5, <2>7, PolicyAssumption DEF WellFormed, HoldsSlot
  <2>9. WellFormed(PushSlot(mid, slot), own)
    BY <2>8, PushSlotProperties
  <2> QED
    BY <2>4, <2>9
<1>3. CASE ~(Len(ks.active) < MaxActive) /\ ~(SomeExpired(ks, at) /\ StalePolicy = "fail-stale")
  BY <1>3 DEF TakeSlot
<1> QED
  BY <1>1, <1>2, <1>3

\* Acquisition: own live slot, blocked, or taken.
LEMMA AcquireWellFormed ==
  ASSUME NEW own, NEW ks, WellFormed(ks, own), NEW slot \in Slot, NEW at,
         own[slot.token] = slot.job
  PROVE  WellFormed(NextState(ks, AcquireActiveSlot(ks, slot, at)), own)
<1> DEFINE free == DropSlot(Dequeue(ks, slot.job), slot.job)
<1>1. \/ AcquireActiveSlot(ks, slot, at) = Outcome("acquired", Dequeue(ks, slot.job))
      \/ AcquireActiveSlot(ks, slot, at) = Outcome("blocked", ks)
      \/ AcquireActiveSlot(ks, slot, at) = TakeSlot(free, slot, at)
  BY DEF AcquireActiveSlot
<1>2. WellFormed(Dequeue(ks, slot.job), own)
  BY DequeueProperties
<1>3. WellFormed(free, own) /\ ~HoldsSlot(free, slot.job)
  BY <1>2, DropSlotProperties
<1> HIDE DEF free
<1>4. PICK kind, new : TakeSlot(free, slot, at) = Outcome(kind, new) /\ WellFormed(new, own)
  BY <1>3, TakeSlotWellFormed
<1> QED
  BY <1>1, <1>2, <1>4, NextStateProperties

LEMMA RenewWellFormed ==
  ASSUME NEW own, NEW ks, WellFormed(ks, own), NEW slot \in Slot, own[slot.token] = slot.job
  PROVE  WellFormed(NextState(ks, RenewActiveSlot(ks, slot)), own)
<1>1. CASE ~HoldsSlotAs(ks, slot.job, slot.token)
  BY <1>1, NextStateProperties DEF RenewActiveSlot
<1>2. CASE HoldsSlotAs(ks, slot.job, slot.token)
  <2> DEFINE p == SlotIndex(ks, slot.job)
             new == [ks EXCEPT !.active[p] = slot]
  <2>1. p \in DOMAIN ks.active /\ ks.active[p].job = slot.job
    BY <1>2 DEF HoldsSlotAs, SlotIndex
  <2>2. ActiveOK([ks.active EXCEPT ![p] = slot], own)
    BY <2>1, ActiveReplace DEF WellFormed
  <2>3. RenewActiveSlot(ks, slot) = Outcome("renewed", new)
    BY <1>2 DEF RenewActiveSlot
  <2> HIDE DEF p
  <2>4. WellFormed(new, own)
    BY <2>2, ZenonT(30) DEF WellFormed, KeyState, ActiveOK
  <2> QED
    BY <2>3, <2>4, NextStateProperties
<1> QED
  BY <1>1, <1>2

LEMMA ReleaseWellFormed ==
  ASSUME NEW own, NEW ks, WellFormed(ks, own), NEW j, NEW t
  PROVE  WellFormed(NextState(ks, ReleaseActiveSlot(ks, j, t)), own)
BY DropSlotProperties, NextStateProperties DEF ReleaseActiveSlot

LEMMA RemoveQueuedWellFormed ==
  ASSUME NEW own, NEW ks, WellFormed(ks, own), NEW j
  PROVE  WellFormed(NextState(ks, RemoveQueuedEntry(ks, j)), own)
BY DequeueProperties, NextStateProperties DEF RemoveQueuedEntry

\* The rollback of a replacement puts the replaced job back in front.
LEMMA RestoreWellFormed ==
  ASSUME NEW own, NEW ks, WellFormed(ks, own), NEW old \in Jobs, NEW new \in Jobs
  PROVE  WellFormed(NextState(ks, RestoreReplaced(ks, old, new)), own)
<1> DEFINE rest == Dequeue(Dequeue(ks, new), old).queued
           back == [ks EXCEPT !.queued = <<old>> \o rest]
<1>1. WellFormed(Dequeue(ks, new), own)
  BY DequeueProperties
<1>2. QueueOK(rest) /\ \A i \in DOMAIN rest : rest[i] # old
  <2>1. /\ WellFormed(Dequeue(Dequeue(ks, new), old), own)
        /\ ~IsQueued(Dequeue(Dequeue(ks, new), old), old)
    BY <1>1, DequeueProperties
  <2> QED
    BY <2>1 DEF WellFormed, IsQueued
<1>3. RestoreReplaced(ks, old, new) = Outcome("restored", back)
  BY DEF RestoreReplaced
<1> HIDE DEF rest
<1>4. QueueOK(<<old>> \o rest)
  BY <1>2, QueuePrepend
<1>5. WellFormed(back, own)
  BY <1>4 DEF WellFormed, KeyState, QueueOK
<1> QED
  BY <1>3, <1>5, NextStateProperties

LEMMA CleanupWellFormed ==
  ASSUME NEW own, NEW ks, WellFormed(ks, own), NEW j
  PROVE  WellFormed(NextState(ks, CleanupTerminal(ks, j)), own)
<1> DEFINE mid == DropSlot(Dequeue(ks, j), j)
           new == [mid EXCEPT !.cleanup = @ \ {j}]
<1>1. WellFormed(mid, own)
  BY DequeueProperties, DropSlotProperties
<1>2. CleanupTerminal(ks, j) = Outcome("removed", new)
  BY DEF CleanupTerminal
<1> HIDE DEF mid
<1>3. WellFormed(new, own)
  BY <1>1 DEF WellFormed, KeyState
<1> QED
  BY <1>2, <1>3, NextStateProperties

(***************************************************************************)
(* The invariant of the specification.                                     *)
(***************************************************************************)
IInv == TypeOK /\ WellFormed(key, owner)

\* Recording a token for a job it is free for, or already recorded for, disowns
\* no slot of the record.
LEMMA OwnerExtended ==
  ASSUME IInv, NEW j \in Jobs, NEW t \in Tokens, owner[t] \in {NoJob, j}
  PROVE  WellFormed(key, [owner EXCEPT ![t] = j])
<1> DEFINE new == [owner EXCEPT ![t] = j]
<1>1. ASSUME NEW i \in DOMAIN key.active
      PROVE  new[key.active[i].token] = key.active[i].job
  <2>1. key.active \in Seq(Slot) /\ owner[key.active[i].token] = key.active[i].job
    BY DEF IInv, WellFormed, ActiveOK
  <2>2. key.active[i] \in Slot
    BY <2>1, ElementOfSeq, LenProperties
  <2>3. key.active[i].token \in Tokens /\ key.active[i].job \in Jobs
    BY <2>2 DEF Slot
  <2> QED
    BY <2>1, <2>3, PolicyAssumption DEF IInv, TypeOK
<1> QED
  BY <1>1 DEF IInv, WellFormed, ActiveOK

LEMMA InitIInv == Init => IInv
<1> SUFFICES ASSUME Init PROVE IInv
  OBVIOUS
<1>1. <<>> \in Seq(Slot) /\ <<>> \in Seq(Jobs) /\ Len(<<>>) = 0
  OBVIOUS
<1>2. key \in KeyState /\ key.active = <<>> /\ key.queued = <<>>
  BY <1>1 DEF Init, NewKeyState, KeyState
<1>3. TypeOK
  BY <1>2 DEF Init, TypeOK
<1>4. ActiveOK(key.active, owner) /\ QueueOK(key.queued)
  BY <1>1, <1>2, PolicyAssumption DEF ActiveOK, QueueOK
<1> QED
  BY <1>2, <1>3, <1>4 DEF IInv, WellFormed

LEMMA NextIInv == IInv /\ [Next]_vars => IInv'
<1> SUFFICES ASSUME IInv, [Next]_vars PROVE IInv'
  OBVIOUS
<1>0. WellFormed(key, owner) /\ TypeOK
  BY DEF IInv
<1>1. ASSUME NEW j \in Jobs, NEW w \in WhenFull, Admit(j, w)
      PROVE  IInv'
  <2>1. WellFormed(key', owner)
    BY <1>0, <1>1, AdmitJobWellFormed DEF Admit
  <2>2. (replacing \subseteq Jobs \X Jobs)'
    <3>1. CASE AdmitJob(key, w, j).kind = "replaced"
      <4>1. key.queued # <<>>
        BY <3>1 DEF AdmitJob, Outcome
      <4>2. Head(key.queued) \in Jobs
        BY <1>0, <4>1, HeadTailProperties DEF WellFormed, QueueOK
      <4> QED
        BY <1>0, <1>1, <4>2 DEF Admit, TypeOK
    <3>2. CASE AdmitJob(key, w, j).kind # "replaced"
      BY <1>0, <1>1, <3>2 DEF Admit, TypeOK
    <3> QED
      BY <3>1, <3>2
  <2> QED
    BY <1>0, <1>1, <2>1, <2>2 DEF Admit, IInv, TypeOK, WellFormed
<1>2. ASSUME NEW j \in Jobs, NEW t \in Tokens, NEW at \in Times, NEW lease \in Times,
             Acquire(j, t, at, lease)
      PROVE  IInv'
  <2> DEFINE slot == [job |-> j, token |-> t, lease |-> lease]
             own == [owner EXCEPT ![t] = j]
  <2>1. slot \in Slot /\ own[slot.token] = slot.job
    BY <1>0 DEF Slot, TypeOK
  <2>2. WellFormed(key, own)
    BY <1>2, OwnerExtended DEF Acquire
  <2>3. WellFormed(key', own)
    <3> HIDE DEF own
    <3> QED
      BY <1>2, <2>1, <2>2, AcquireWellFormed DEF Acquire
  <2> QED
    BY <1>0, <1>2, <2>3 DEF Acquire, IInv, TypeOK, WellFormed
<1>3. ASSUME NEW t \in Tokens, NEW lease \in Times, Renew(t, lease)
      PROVE  IInv'
  <2> DEFINE slot == [job |-> owner[t], token |-> t, lease |-> lease]
  <2>1. slot \in Slot /\ owner[slot.token] = slot.job
    BY <1>0, <1>3 DEF Slot, TypeOK, Renew
  <2>2. WellFormed(key', owner)
    BY <1>0, <1>3, <2>1, RenewWellFormed DEF Renew
  <2> QED
    BY <1>0, <1>3, <2>2 DEF Renew, IInv, TypeOK, WellFormed
<1>4. ASSUME NEW t \in Tokens, Release(t)
      PROVE  IInv'
  <2>1. WellFormed(key', owner)
    BY <1>0, <1>4, ReleaseWellFormed DEF Release
  <2> QED
    BY <1>0, <1>4, <2>1 DEF Release, IInv, TypeOK, WellFormed
<1>5. ASSUME NEW j \in Jobs, RemoveQueued(j)
      PROVE  IInv'
  <2>1. WellFormed(key', owner)
    BY <1>0, <1>5, RemoveQueuedWellFormed DEF RemoveQueued
  <2> QED
    BY <1>0, <1>5, <2>1 DEF RemoveQueued, IInv, TypeOK, WellFormed
<1>6. ASSUME NEW j \in Jobs, Cleanup(j)
      PROVE  IInv'
  <2>1. WellFormed(key', owner)
    BY <1>0, <1>6, CleanupWellFormed DEF Cleanup
  <2> QED
    BY <1>0, <1>6, <2>1 DEF Cleanup, IInv, TypeOK, WellFormed
<1>7. ASSUME NEW pair \in Jobs \X Jobs, Restore(pair)
      PROVE  IInv'
  <2>1. pair[1] \in Jobs /\ pair[2] \in Jobs
    OBVIOUS
  <2>2. WellFormed(key', owner)
    BY <1>0, <1>7, <2>1, RestoreWellFormed DEF Restore
  <2> QED
    BY <1>0, <1>7, <2>2 DEF Restore, IInv, TypeOK, WellFormed
<1>8. ASSUME NEW pair \in Jobs \X Jobs, Settle(pair)
      PROVE  IInv'
  BY <1>0, <1>8 DEF Settle, IInv, TypeOK, WellFormed
<1>9. CASE UNCHANGED vars
  BY <1>0, <1>9 DEF vars, IInv, TypeOK, WellFormed
<1> QED
  BY <1>1, <1>2, <1>3, <1>4, <1>5, <1>6, <1>7, <1>8, <1>9, SMTT(20) DEF Next

THEOREM Invariance == Spec => []IInv
BY InitIInv, NextIInv, PTL DEF Spec

\* The record keeps its shape (the first deserialization of a stored record by
\* validate_key_state can only fail on a foreign write).
THEOREM TypeCorrect == Spec => []TypeOK
<1>1. IInv => TypeOK
  BY DEF IInv
<1> QED
  BY <1>1, Invariance, PTL

\* Mutual exclusion by the key: never more than max_active slots.
THEOREM ConcurrencyLimit == Spec => []SlotsBounded
<1>1. IInv => SlotsBounded
  BY DEF IInv, WellFormed, ActiveOK, SlotsBounded
<1> QED
  BY <1>1, Invariance, PTL

\* No job has two slots and no two slots share a token.
THEOREM Fencing == Spec => [](SlotsDistinct /\ TokensOwned)
<1>1. IInv => SlotsDistinct /\ TokensOwned
  BY DEF IInv, WellFormed, ActiveOK, SlotsDistinct, TokensOwned
<1> QED
  BY <1>1, Invariance, PTL

\* No job has two reservations.
THEOREM OneReservation == Spec => []QueuedOnce
<1>1. IInv => QueuedOnce
  BY DEF IInv, WellFormed, QueueOK, QueuedOnce
<1> QED
  BY <1>1, Invariance, PTL

(***************************************************************************)
(* What a step may never do to the slots and the cleanup obligations.      *)
(***************************************************************************)

\* Every job with a slot keeps one or is left a cleanup obligation, and no
\* obligation is dropped.
Preserves(ks, new) ==
  /\ \A o : HoldsSlot(ks, o) => HoldsSlot(new, o) \/ o \in new.cleanup
  /\ ks.cleanup \subseteq new.cleanup

LEMMA DropSlotKeepsOthers ==
  ASSUME NEW own, NEW ks, WellFormed(ks, own), NEW j, NEW o, o # j, HoldsSlot(ks, o)
  PROVE  HoldsSlot(DropSlot(ks, j), o)
<1>1. CASE ~HoldsSlot(ks, j)
  BY <1>1 DEF DropSlot
<1>2. CASE HoldsSlot(ks, j)
  <2> DEFINE p == SlotIndex(ks, j)
             rest == RemoveAt(ks.active, p)
  <2>1. p \in DOMAIN ks.active /\ ks.active[p].job = j
    BY <1>2 DEF HoldsSlot, SlotIndex
  <2>2. PICK k \in DOMAIN ks.active : ks.active[k].job = o
    BY DEF HoldsSlot
  <2>3. \E i \in DOMAIN rest : rest[i] = ks.active[k]
    BY <2>1, <2>2, RemoveAtKeeps DEF WellFormed, ActiveOK
  <2>4. DropSlot(ks, j).active = rest
    BY <1>2 DEF DropSlot, WellFormed, KeyState
  <2> HIDE DEF rest, p
  <2> QED
    BY <2>2, <2>3, <2>4 DEF HoldsSlot
<1> QED
  BY <1>1, <1>2

LEMMA PushSlotKeeps ==
  ASSUME NEW own, NEW ks, WellFormed(ks, own), NEW slot \in Slot
  PROVE  /\ \A o : HoldsSlot(ks, o) => HoldsSlot(PushSlot(ks, slot), o)
         /\ HoldsSlot(PushSlot(ks, slot), slot.job)
         /\ PushSlot(ks, slot).cleanup = ks.cleanup
<1> DEFINE more == Append(ks.active, slot)
<1>1. ks.active \in Seq(Slot) /\ Len(ks.active) \in Nat /\ DOMAIN ks.active = 1..Len(ks.active)
  BY LenProperties DEF WellFormed, ActiveOK
<1>2. /\ DOMAIN more = 1..(Len(ks.active) + 1)
      /\ \A i \in 1..Len(ks.active) : more[i] = ks.active[i]
      /\ more[Len(ks.active) + 1] = slot
  BY <1>1, AppendProperties, LenProperties
<1>3. PushSlot(ks, slot).active = more /\ PushSlot(ks, slot).cleanup = ks.cleanup
  BY DEF PushSlot, WellFormed, KeyState
<1> HIDE DEF more
<1>4. Len(ks.active) + 1 \in DOMAIN more /\ \A i \in DOMAIN ks.active : i \in DOMAIN more
  BY <1>1, <1>2
<1> QED
  BY <1>1, <1>2, <1>3, <1>4 DEF HoldsSlot

\* A takeover leaves the displaced job an obligation.
LEMMA TakeSlotPreserves ==
  ASSUME NEW own, NEW ks, WellFormed(ks, own), NEW slot \in Slot, NEW at,
         TakeSlot(ks, slot, at).kind = "acquired"
  PROVE  /\ Preserves(ks, TakeSlot(ks, slot, at).state)
         /\ HoldsSlot(TakeSlot(ks, slot, at).state, slot.job)
<1>1. CASE Len(ks.active) < MaxActive
  <2>1. TakeSlot(ks, slot, at).state = PushSlot(ks, slot)
    BY <1>1 DEF TakeSlot, Outcome
  <2> QED
    BY <2>1, PushSlotKeeps DEF Preserves
<1>2. CASE ~(Len(ks.active) < MaxActive)
  <2> DEFINE p == FirstExpired(ks, at)
             rest == RemoveAt(ks.active, p)
             mid == [ks EXCEPT !.active = rest, !.cleanup = @ \union {ks.active[p].job}]
  <2>1. SomeExpired(ks, at) /\ TakeSlot(ks, slot, at) = Outcome("acquired", PushSlot(mid, slot))
    BY <1>2, Zenon DEF TakeSlot, Outcome
  <2>2. p \in DOMAIN ks.active
    BY <2>1, FirstExpiredProperties
  <2>3. ActiveOK(rest, own)
    BY <2>2, ActiveRemove DEF WellFormed
  <2>4. \A k \in DOMAIN ks.active : k # p => \E i \in DOMAIN rest : rest[i] = ks.active[k]
    BY <2>2, RemoveAtKeeps DEF WellFormed, ActiveOK
  <2>5. ks.active[p].job \in Jobs
    <3>1. ks.active \in Seq(Slot)
      BY DEF WellFormed, ActiveOK
    <3>2. ks.active[p] \in Slot
      BY <2>2, <3>1, ElementOfSeq, LenProperties
    <3> QED
      BY <3>2 DEF Slot
  <2> HIDE DEF rest, p
  <2>6. /\ mid.active = rest
        /\ mid.queued = ks.queued
        /\ mid.cleanup = ks.cleanup \union {ks.active[p].job}
        /\ mid \in KeyState
    BY <2>3, <2>5 DEF WellFormed, KeyState, ActiveOK
  <2> HIDE DEF mid
  <2>7. WellFormed(mid, own) /\ Preserves(ks, mid)
    BY <2>3, <2>4, <2>6 DEF WellFormed, Preserves, HoldsSlot
  <2>8. TakeSlot(ks, slot, at).state = PushSlot(mid, slot)
    BY <2>1 DEF Outcome
  <2> QED
    BY <2>7, <2>8, PushSlotKeeps DEF Preserves
<1> QED
  BY <1>1, <1>2

LEMMA AcquirePreserves ==
  ASSUME NEW own, NEW ks, WellFormed(ks, own), NEW slot \in Slot, NEW at
  PROVE  Preserves(ks, NextState(ks, AcquireActiveSlot(ks, slot, at)))
<1> DEFINE mid == Dequeue(ks, slot.job)
           free == DropSlot(mid, slot.job)
           out == AcquireActiveSlot(ks, slot, at)
<1>1. \/ out = Outcome("acquired", mid)
      \/ out = Outcome("blocked", ks)
      \/ out = TakeSlot(free, slot, at)
  BY DEF AcquireActiveSlot
<1>2. WellFormed(mid, own) /\ mid.active = ks.active /\ mid.cleanup = ks.cleanup
  BY DequeueProperties
<1>3. WellFormed(free, own) /\ free.cleanup = mid.cleanup
  BY <1>2, DropSlotProperties
<1>4. \A o : HoldsSlot(ks, o) /\ o # slot.job => HoldsSlot(free, o)
  <2>1. \A o : HoldsSlot(ks, o) => HoldsSlot(mid, o)
    BY <1>2 DEF HoldsSlot
  <2> QED
    BY <1>2, <2>1, DropSlotKeepsOthers
<1> HIDE DEF mid, free, out
<1>5. CASE out = Outcome("acquired", mid) \/ out = Outcome("blocked", ks)
  BY <1>2, <1>5 DEF out, NextState, Outcome, Persisted, Preserves, HoldsSlot
<1>6. CASE out = TakeSlot(free, slot, at)
  <2>1. CASE TakeSlot(free, slot, at).kind = "acquired"
    <3> DEFINE new == TakeSlot(free, slot, at).state
    <3>1. Preserves(free, new) /\ HoldsSlot(new, slot.job)
      BY <1>3, <2>1, TakeSlotPreserves
    <3>2. NextState(ks, out) = new
      BY <1>6, <2>1 DEF NextState, Persisted
    <3> HIDE DEF new
    <3>3. Preserves(ks, new)
      BY <1>2, <1>3, <1>4, <3>1 DEF Preserves
    <3> QED
      BY <3>2, <3>3 DEF out
  <2>2. CASE TakeSlot(free, slot, at).kind # "acquired"
    <3>1. TakeSlot(free, slot, at).kind = "blocked"
      BY <2>2 DEF TakeSlot, Outcome
    <3>2. NextState(ks, out) = ks
      BY <1>6, <3>1 DEF NextState, Persisted
    <3> QED
      BY <3>2 DEF out, Preserves
  <2> QED
    BY <2>1, <2>2
<1> QED
  BY <1>1, <1>5, <1>6

LEMMA RenewPreserves ==
  ASSUME NEW own, NEW ks, WellFormed(ks, own), NEW slot \in Slot
  PROVE  Preserves(ks, NextState(ks, RenewActiveSlot(ks, slot)))
<1>1. CASE ~HoldsSlotAs(ks, slot.job, slot.token)
  BY <1>1 DEF RenewActiveSlot, NextState, Outcome, Persisted, Preserves
<1>2. CASE HoldsSlotAs(ks, slot.job, slot.token)
  <2> DEFINE p == SlotIndex(ks, slot.job)
             new == [ks EXCEPT !.active[p] = slot]
  <2>1. p \in DOMAIN ks.active /\ ks.active[p].job = slot.job
    BY <1>2 DEF HoldsSlotAs, SlotIndex
  <2>2. NextState(ks, RenewActiveSlot(ks, slot)) = new
    BY <1>2 DEF RenewActiveSlot, NextState, Outcome, Persisted
  <2>3. ks \in KeyState
    BY DEF WellFormed
  <2> HIDE DEF p
  <2>4. /\ new.cleanup = ks.cleanup
        /\ DOMAIN new.active = DOMAIN ks.active
        /\ \A i \in DOMAIN ks.active : new.active[i] = IF i = p THEN slot ELSE ks.active[i]
    BY <2>1, <2>3 DEF KeyState
  <2> HIDE DEF new
  <2> QED
    BY <2>1, <2>2, <2>4 DEF Preserves, HoldsSlot
<1> QED
  BY <1>1, <1>2

\* Admissions and the two queue repairs touch neither slots nor obligations.
LEMMA QueueStepsPreserve ==
  ASSUME NEW own, NEW ks, WellFormed(ks, own), NEW j, NEW w, NEW o
  PROVE  /\ Preserves(ks, NextState(ks, AdmitJob(ks, w, j)))
         /\ Preserves(ks, NextState(ks, RemoveQueuedEntry(ks, j)))
         /\ Preserves(ks, NextState(ks, RestoreReplaced(ks, o, j)))
<1>1. ASSUME NEW new, new.active = ks.active, new.cleanup = ks.cleanup, NEW kind
      PROVE  Preserves(ks, NextState(ks, Outcome(kind, new)))
  BY <1>1 DEF Preserves, HoldsSlot, NextState, Outcome
<1>2. ASSUME NEW q
      PROVE  /\ [ks EXCEPT !.queued = q].active = ks.active
             /\ [ks EXCEPT !.queued = q].cleanup = ks.cleanup
  BY DEF WellFormed, KeyState
<1>3. Preserves(ks, NextState(ks, AdmitJob(ks, w, j)))
  <2>1. \E kind, q : \/ AdmitJob(ks, w, j) = Outcome(kind, ks)
                     \/ AdmitJob(ks, w, j) = Outcome(kind, [ks EXCEPT !.queued = q])
    BY Zenon DEF AdmitJob
  <2> QED
    BY <1>1, <1>2, <2>1
<1>4. Preserves(ks, NextState(ks, RemoveQueuedEntry(ks, j)))
  BY <1>1, DequeueProperties DEF RemoveQueuedEntry
<1>5. Preserves(ks, NextState(ks, RestoreReplaced(ks, o, j)))
  BY <1>1, <1>2, ZenonT(30) DEF RestoreReplaced
<1> QED
  BY <1>3, <1>4, <1>5

\* Every step but a release and a settlement preserves; a release takes out the
\* slot with its own token, a settlement the slot and the obligation of its job.
LEMMA StepPreserves ==
  ASSUME IInv, [Next]_vars
  PROVE  \/ Preserves(key, key')
         \/ \E t \in Tokens :
              /\ Release(t)
              /\ key'.cleanup = key.cleanup
              /\ \A i \in DOMAIN key.active :
                   key.active[i].token # t => HoldsSlot(key', key.active[i].job)
         \/ \E j \in Jobs :
              /\ Cleanup(j)
              /\ key'.cleanup = key.cleanup \ {j}
              /\ \A o : HoldsSlot(key, o) /\ o # j => HoldsSlot(key', o)
<1>0. WellFormed(key, owner) /\ TypeOK
  BY DEF IInv
<1>1. ASSUME NEW j \in Jobs, NEW w \in WhenFull, Admit(j, w)
      PROVE  Preserves(key, key')
  BY <1>0, <1>1, QueueStepsPreserve DEF Admit
<1>2. ASSUME NEW j \in Jobs, NEW t \in Tokens, NEW at \in Times, NEW lease \in Times,
             Acquire(j, t, at, lease)
      PROVE  Preserves(key, key')
  <2>1. [job |-> j, token |-> t, lease |-> lease] \in Slot
    BY DEF Slot
  <2> QED
    BY <1>0, <1>2, <2>1, AcquirePreserves DEF Acquire
<1>3. ASSUME NEW t \in Tokens, NEW lease \in Times, Renew(t, lease)
      PROVE  Preserves(key, key')
  <2>1. [job |-> owner[t], token |-> t, lease |-> lease] \in Slot
    BY <1>0, <1>3 DEF Slot, TypeOK, Renew
  <2> QED
    BY <1>0, <1>3, <2>1, RenewPreserves DEF Renew
<1>4. ASSUME NEW t \in Tokens, Release(t)
      PROVE  /\ key'.cleanup = key.cleanup
             /\ \A i \in DOMAIN key.active :
                  key.active[i].token # t => HoldsSlot(key', key.active[i].job)
  <2>1. CASE ~HoldsSlotAs(key, owner[t], t)
    <3>1. key' = key
      BY <1>4, <2>1 DEF Release, ReleaseActiveSlot, NextState, Outcome, Persisted
    <3> QED
      BY <3>1 DEF HoldsSlot
  <2>2. CASE HoldsSlotAs(key, owner[t], t)
    <3>1. key' = DropSlot(key, owner[t])
      BY <1>4, <2>2 DEF Release, ReleaseActiveSlot, NextState, Outcome, Persisted
    <3>2. PICK k \in DOMAIN key.active : key.active[k].job = owner[t] /\ key.active[k].token = t
      BY <2>2 DEF HoldsSlotAs
    <3>3. ASSUME NEW i \in DOMAIN key.active, key.active[i].token # t
          PROVE  HoldsSlot(key', key.active[i].job)
      <4>1. key.active[i].job # owner[t]
        BY <1>0, <3>2, <3>3 DEF WellFormed, ActiveOK
      <4>2. HoldsSlot(key, key.active[i].job)
        BY DEF HoldsSlot
      <4> QED
        BY <1>0, <3>1, <4>1, <4>2, DropSlotKeepsOthers
    <3> QED
      BY <1>0, <3>1, <3>3, DropSlotProperties
  <2> QED
    BY <2>1, <2>2
<1>5. ASSUME NEW j \in Jobs, RemoveQueued(j)
      PROVE  Preserves(key, key')
  BY <1>0, <1>5, QueueStepsPreserve DEF RemoveQueued
<1>6. ASSUME NEW j \in Jobs, Cleanup(j)
      PROVE  /\ key'.cleanup = key.cleanup \ {j}
             /\ \A o : HoldsSlot(key, o) /\ o # j => HoldsSlot(key', o)
  <2> DEFINE mid == Dequeue(key, j)
             rest == DropSlot(mid, j)
  <2>1. WellFormed(mid, owner) /\ mid.active = key.active /\ mid.cleanup = key.cleanup
    BY <1>0, DequeueProperties
  <2>2. WellFormed(rest, owner) /\ rest.cleanup = mid.cleanup
    BY <2>1, DropSlotProperties
  <2>3. \A o : HoldsSlot(key, o) /\ o # j => HoldsSlot(rest, o)
    <3>1. \A o : HoldsSlot(key, o) => HoldsSlot(mid, o)
      BY <2>1 DEF HoldsSlot
    <3> QED
      BY <2>1, <3>1, DropSlotKeepsOthers
  <2>4. key' = [rest EXCEPT !.cleanup = @ \ {j}]
    BY <1>6 DEF Cleanup, CleanupTerminal, NextState, Outcome, Persisted
  <2> HIDE DEF rest, mid
  <2>5. key'.active = rest.active /\ key'.cleanup = rest.cleanup \ {j}
    BY <2>2, <2>4 DEF WellFormed, KeyState
  <2> QED
    BY <2>1, <2>2, <2>3, <2>5 DEF HoldsSlot
<1>7. ASSUME NEW pair \in Jobs \X Jobs, Restore(pair)
      PROVE  Preserves(key, key')
  BY <1>0, <1>7, QueueStepsPreserve DEF Restore
<1>8. ASSUME NEW pair \in Jobs \X Jobs, Settle(pair)
      PROVE  Preserves(key, key')
  BY <1>8 DEF Settle, Preserves
<1>9. CASE UNCHANGED vars
  BY <1>9 DEF vars, Preserves
<1> QED
  BY <1>1, <1>2, <1>3, <1>4, <1>5, <1>6, <1>7, <1>8, <1>9 DEF Next

\* Fail-stale takeovers: a slot goes by its own token's release, by the settlement
\* of its job, or leaves its job the cleanup obligation.
THEOREM DisplacementRecorded == Spec => NoSilentDisplacement
<1> DEFINE Recorded == \A i \in DOMAIN key.active :
                         LET slot == key.active[i]
                         IN  \/ HoldsSlot(key', slot.job)
                             \/ slot.job \in key'.cleanup
                             \/ Release(slot.token) \/ Cleanup(slot.job)
<1>1. ASSUME IInv, [Next]_vars
      PROVE  Recorded
  <2> SUFFICES ASSUME NEW i \in DOMAIN key.active
               PROVE  \/ HoldsSlot(key', key.active[i].job)
                      \/ key.active[i].job \in key'.cleanup
                      \/ Release(key.active[i].token) \/ Cleanup(key.active[i].job)
    OBVIOUS
  <2>1. HoldsSlot(key, key.active[i].job)
    BY DEF HoldsSlot
  <2> QED
    BY <1>1, <2>1, StepPreserves DEF Preserves
<1> QED
  BY <1>1, Invariance, PTL DEF Spec, NoSilentDisplacement

\* A recorded obligation goes only by the settlement of its own job.
THEOREM ObligationsPersist == Spec => ObligationKept
<1> DEFINE Kept == \A j \in key.cleanup : j \in key'.cleanup \/ Cleanup(j)
<1>1. ASSUME IInv, [Next]_vars
      PROVE  Kept
  BY <1>1, StepPreserves DEF Preserves
<1> QED
  BY <1>1, Invariance, PTL DEF Spec, ObligationKept
=============================================================================
