----------------------------- MODULE PoolProofs -----------------------------
(***************************************************************************)
(* concurrent.Pool keeps its limits and its books for any number of        *)
(* requests and any configuration.                                         *)
(*                                                                         *)
(* The limits hold because every request accounts for its own tokens, and  *)
(* the counters are exact because each is the number of requests between   *)
(* the step that adds one and the step that takes it back.                 *)
(***************************************************************************)
EXTENDS Pool, FiniteSetTheorems, SequenceTheorems, TLAPS

\* Who holds a token of the slots channel.
SlotHolders ==
  /\ \A r \in slots : at[r] \in {"count", "leave", "unqueue", "running"}
  /\ \A r \in Reqs : at[r] = "count" \/ (at[r] = "running" /\ ~IsUnbounded) => r \in slots

\* Who holds a token of the queue channel.
QueueHolders ==
  /\ \A r \in queue : at[r] \in {"enter", "wait", "parked", "count", "leave"}
  /\ \A r \in Reqs : /\ at[r] \in {"enter", "leave"} => r \in queue
                     /\ at[r] \in {"wait", "parked"} /\ conf.policy # "wait" => r \in queue

\* The blocked senders of the slots channel are the parked requests, each once.
Parked == {r \in Reqs : at[r] = "parked"}
Line == IsInjective(waiters) /\ ToSet(waiters) = Parked

\* Neither channel holds more tokens than it has room for.
Room == Cardinality(slots) <= conf.max /\ Cardinality(queue) <= conf.queue

\* The callers of an unbounded pool never get into Acquire.
NoGate ==
  IsUnbounded => slots = {} /\ \A r \in Reqs : at[r] \in {"idle", "new", "running", "served"}

\* The requests each counter counts.
ActiveReqs == {r \in Reqs : (r \in slots /\ at[r] # "count") \/ at[r] = "uncount"}
QueuedReqs == {r \in Reqs : (r \in queue /\ at[r] # "enter") \/ at[r] = "unqueue"}
RejectedReqs == {r \in Reqs : at[r] = "overloaded"}
Counts ==
  /\ active = Cardinality(ActiveReqs)
  /\ queued = Cardinality(QueuedReqs)
  /\ rejected = Cardinality(RejectedReqs)

PoolInv ==
  /\ PoolTypeOK
  /\ SlotHolders
  /\ QueueHolders
  /\ Line
  /\ Room
  /\ NoGate
  /\ NoIdleSlot
  /\ Counts

-----------------------------------------------------------------------------
(* Sequences without repetition. *)

\* Appending a new element.
LEMMA LineAppend ==
  ASSUME NEW S, NEW s \in Seq(S), NEW e \in S, IsInjective(s), e \notin ToSet(s)
  PROVE  /\ Append(s, e) \in Seq(S)
         /\ IsInjective(Append(s, e))
         /\ ToSet(Append(s, e)) = ToSet(s) \cup {e}
BY DEF IsInjective, ToSet

\* What is in a sequence.
LEMMA InLine ==
  ASSUME NEW S, NEW s \in Seq(S)
  PROVE  \A x : x \in ToSet(s) <=> \E i \in 1..Len(s) : x = s[i]
BY DEF ToSet

\* Taking the first element.
LEMMA LineTail ==
  ASSUME NEW S, NEW s \in Seq(S), s # <<>>, IsInjective(s)
  PROVE  /\ Head(s) \in ToSet(s)
         /\ Tail(s) \in Seq(S)
         /\ IsInjective(Tail(s))
         /\ ToSet(Tail(s)) = ToSet(s) \ {Head(s)}
<1>1. /\ Len(s) \in Nat /\ Len(s) >= 1 /\ DOMAIN s = 1..Len(s) /\ Head(s) = s[1]
      /\ Tail(s) \in Seq(S) /\ DOMAIN Tail(s) = 1..(Len(s) - 1)
      /\ Len(Tail(s)) = Len(s) - 1
      /\ \A i \in 1..(Len(s) - 1) : Tail(s)[i] = s[i + 1]
  OBVIOUS
<1>2. IsInjective(Tail(s))
  BY <1>1 DEF IsInjective
<1>3. ASSUME NEW x \in ToSet(Tail(s)) PROVE x \in ToSet(s) /\ x # Head(s)
  <2>0. PICK i \in DOMAIN Tail(s) : x = Tail(s)[i]
    BY <1>3 DEF ToSet
  <2>1. x = s[i + 1]
    BY <1>1, <2>0
  <2>2. i + 1 \in 1..Len(s) /\ i + 1 # 1
    BY <1>1
  <2>3. QED
    BY <1>1, <2>1, <2>2, InLine DEF IsInjective
<1>4. ASSUME NEW x \in ToSet(s), x # Head(s) PROVE x \in ToSet(Tail(s))
  <2>1. PICK i \in 1..Len(s) : x = s[i]
    BY <1>4, InLine
  <2>2. i - 1 \in 1..(Len(s) - 1) /\ Tail(s)[i - 1] = x
    BY <1>1, <1>4, <2>1
  <2>3. QED
    BY <1>1, <2>2, InLine
<1>5. Head(s) \in ToSet(s)
  BY <1>1, InLine
<1>6. QED
  BY <1>1, <1>2, <1>3, <1>4, <1>5

\* Taking an element from somewhere in the line.
LEMMA LineRemove ==
  ASSUME NEW S, NEW s \in Seq(S), NEW k \in DOMAIN s, IsInjective(s)
  PROVE  /\ RemoveAt(s, k) \in Seq(S)
         /\ IsInjective(RemoveAt(s, k))
         /\ ToSet(RemoveAt(s, k)) = ToSet(s) \ {s[k]}
<1> DEFINE a == SubSeq(s, 1, k - 1)
           b == SubSeq(s, k + 1, Len(s))
           t == RemoveAt(s, k)
<1>1. /\ Len(s) \in Nat /\ DOMAIN s = 1..Len(s) /\ k \in 1..Len(s)
      /\ \A i \in 1..Len(s) : s[i] \in S
  OBVIOUS
<1>2. /\ a \in Seq(S) /\ Len(a) = k - 1
      /\ \A i \in 1..(k - 1) : a[i] = s[i]
  <2>1. 1 \in Int /\ k - 1 \in Int /\ \A i \in 1..(k - 1) : s[i] \in S
    BY <1>1
  <2>2. /\ SubSeq(s, 1, k - 1) \in Seq(S)
        /\ Len(SubSeq(s, 1, k - 1)) = IF 1 <= k - 1 THEN (k - 1) - 1 + 1 ELSE 0
        /\ \A i \in 1..((k - 1) - 1 + 1) : SubSeq(s, 1, k - 1)[i] = s[1 + i - 1]
    BY <2>1, SubSeqProperties
  <2>3. QED
    BY <1>1, <2>2
<1>3. /\ b \in Seq(S) /\ Len(b) = Len(s) - k
      /\ \A i \in 1..(Len(s) - k) : b[i] = s[k + i]
  <2>1. k + 1 \in Int /\ Len(s) \in Int /\ \A i \in (k + 1)..Len(s) : s[i] \in S
    BY <1>1
  <2>2. /\ SubSeq(s, k + 1, Len(s)) \in Seq(S)
        /\ Len(SubSeq(s, k + 1, Len(s))) = IF k + 1 <= Len(s) THEN Len(s) - (k + 1) + 1 ELSE 0
        /\ \A i \in 1..(Len(s) - (k + 1) + 1) : SubSeq(s, k + 1, Len(s))[i] = s[(k + 1) + i - 1]
    BY <2>1, SubSeqProperties
  <2>3. Len(b) = Len(s) - k
    BY <1>1, <2>2
  <2>4. ASSUME NEW i \in 1..(Len(s) - k) PROVE b[i] = s[k + i]
    <3>1. i \in 1..(Len(s) - (k + 1) + 1) /\ (k + 1) + i - 1 = k + i
      BY <1>1
    <3>2. QED
      BY <2>2, <3>1
  <2>5. QED
    BY <2>2, <2>3, <2>4
<1>4. t = a \o b
  BY DEF RemoveAt
<1> HIDE DEF a, b, t
<1>5. /\ t \in Seq(S) /\ Len(t) = Len(s) - 1 /\ DOMAIN t = 1..(Len(s) - 1)
      /\ \A i \in 1..(Len(s) - 1) : t[i] = IF i < k THEN s[i] ELSE s[i + 1]
  <2>1. /\ t \in Seq(S) /\ Len(t) = Len(a) + Len(b)
        /\ \A i \in 1..(Len(a) + Len(b)) :
             t[i] = IF i <= Len(a) THEN a[i] ELSE b[i - Len(a)]
    BY <1>2, <1>3, <1>4, ConcatProperties
  <2>2. Len(t) = Len(s) - 1 /\ DOMAIN t = 1..(Len(s) - 1)
    BY <1>1, <1>2, <1>3, <2>1
  <2>3. ASSUME NEW i \in 1..(Len(s) - 1), i < k PROVE t[i] = s[i]
    BY <1>1, <1>2, <1>3, <2>1, <2>3
  <2>4. ASSUME NEW i \in 1..(Len(s) - 1), ~(i < k) PROVE t[i] = s[i + 1]
    <3>1. i - (k - 1) \in 1..(Len(s) - k) /\ k + (i - (k - 1)) = i + 1
      BY <1>1, <2>4
    <3>2. t[i] = b[i - (k - 1)]
      BY <1>1, <1>2, <1>3, <2>1, <2>4
    <3>3. QED
      BY <1>3, <3>1, <3>2
  <2>5. QED
    BY <2>1, <2>2, <2>3, <2>4
<1>6. IsInjective(t)
  BY SMTT(30), <1>1, <1>5 DEF IsInjective
<1>7. ASSUME NEW x \in ToSet(t) PROVE x \in ToSet(s) /\ x # s[k]
  <2>1. PICK i \in 1..(Len(s) - 1) : x = IF i < k THEN s[i] ELSE s[i + 1]
    BY <1>5, <1>7, InLine
  <2>2. PICK j \in 1..Len(s) : x = s[j] /\ j # k
    BY <1>1, <2>1
  <2>3. QED
    BY <1>1, <2>2, InLine DEF IsInjective
<1>8. ASSUME NEW x \in ToSet(s), x # s[k] PROVE x \in ToSet(t)
  <2>1. PICK i \in 1..Len(s) : x = s[i]
    BY <1>8, InLine
  <2>2. PICK j \in 1..(Len(s) - 1) : t[j] = x
    <3>1. CASE i < k
      BY <1>1, <1>5, <2>1, <3>1
    <3>2. CASE i > k
      <4>1. i - 1 \in 1..(Len(s) - 1) /\ t[i - 1] = x
        BY <1>1, <1>5, <2>1, <3>2
      <4>2. QED
        BY <4>1
    <3>3. QED
      BY <1>1, <1>8, <2>1, <3>1, <3>2
  <2>3. QED
    BY <1>5, <2>2, InLine
<1>9. QED
  BY <1>5, <1>6, <1>7, <1>8 DEF t

-----------------------------------------------------------------------------
(* Counting requests. *)

\* A set of requests has a number of elements.
LEMMA CardType ==
  ASSUME NEW S \in SUBSET Reqs
  PROVE  IsFiniteSet(S) /\ Cardinality(S) \in Nat
BY PoolAssumption, FS_Subset, FS_CardinalityType

\* One more request.
LEMMA CardAdd ==
  ASSUME NEW S \in SUBSET Reqs, NEW r \in Reqs, r \notin S
  PROVE  Cardinality(S \cup {r}) = Cardinality(S) + 1
BY CardType, FS_AddElement

\* One request less.
LEMMA CardRemove ==
  ASSUME NEW S \in SUBSET Reqs, NEW r \in S
  PROVE  Cardinality(S \ {r}) = Cardinality(S) - 1
BY CardType, FS_RemoveElement

\* The counters are numbers when the types of the rest are right.
LEMMA CountsType ==
  Counts => active \in Nat /\ queued \in Nat /\ rejected \in Nat
<1>1. /\ ActiveReqs \in SUBSET Reqs
      /\ QueuedReqs \in SUBSET Reqs
      /\ RejectedReqs \in SUBSET Reqs
  BY DEF ActiveReqs, QueuedReqs, RejectedReqs
<1>2. QED
  BY <1>1, CardType DEF Counts

\* What the assumption says of the configuration in use.
LEMMA ConfType ==
  PoolTypeOK => conf.max \in Nat /\ conf.queue \in Nat
BY PoolAssumption DEF PoolTypeOK

\* A slot that is free and is taken: nobody was blocked, and there was room.
LEMMA TakeSlot ==
  ASSUME PoolTypeOK, Room, NoIdleSlot, NEW r \in Reqs, r \notin slots, SlotFree,
         slots' = slots \cup {r}, UNCHANGED <<conf, queue, waiters>>
  PROVE  Room' /\ NoIdleSlot'
<1>1. Cardinality(slots') = Cardinality(slots) + 1 /\ Cardinality(slots) \in Nat
  BY CardAdd, CardType DEF PoolTypeOK
<1>2. QED
  BY <1>1, ConfType DEF Room, NoIdleSlot, SlotFree

-----------------------------------------------------------------------------
(* One lemma for each step of a request. *)

\* The first select of Acquire.
LEMMA AcquireFastInv ==
  ASSUME PoolInv, NEW r \in Reqs, AcquireFast(r)
  PROVE  PoolInv'
<1> USE DEF PoolInv
<1>0. at[r] = "new" /\ r \notin slots /\ r \notin queue
  BY DEF AcquireFast, SlotHolders, QueueHolders
<1>1. PoolTypeOK'
  BY DEF AcquireFast, PoolTypeOK, Goto, Ats, Outcomes
<1>2. SlotHolders' /\ QueueHolders' /\ NoGate'
  BY <1>0 DEF AcquireFast, PoolTypeOK, Goto, SlotHolders, QueueHolders, NoGate, IsUnbounded
<1>3. Line'
  <2>1. Parked' = Parked
    BY <1>0 DEF AcquireFast, PoolTypeOK, Goto, Parked
  <2>2. QED
    BY <2>1 DEF AcquireFast, Line
<1>4. Room' /\ NoIdleSlot'
  BY <1>0, TakeSlot DEF AcquireFast, Room, NoIdleSlot, SlotFree
<1>5. Counts'
  <2>1. ActiveReqs' = ActiveReqs /\ QueuedReqs' = QueuedReqs /\ RejectedReqs' = RejectedReqs
    BY <1>0 DEF AcquireFast, PoolTypeOK, Goto, ActiveReqs, QueuedReqs, RejectedReqs
  <2>2. QED
    BY <2>1 DEF AcquireFast, Counts
<1>6. QED
  BY <1>1, <1>2, <1>3, <1>4, <1>5

\* No slot: wait for one, be refused, or enter the queue.
LEMMA AcquireFullInv ==
  ASSUME PoolInv, NEW r \in Reqs, AcquireFull(r)
  PROVE  PoolInv'
<1> USE DEF PoolInv
<1>0. at[r] = "full" /\ r \notin slots /\ r \notin queue
  BY DEF AcquireFull, SlotHolders, QueueHolders
<1>1. PoolTypeOK'
  BY DEF AcquireFull, PoolTypeOK, Goto, Ats, Outcomes
<1>2. SlotHolders' /\ QueueHolders' /\ NoGate'
  BY <1>0 DEF AcquireFull, PoolTypeOK, Goto, SlotHolders, QueueHolders, NoGate, IsUnbounded
<1>3. Line'
  <2>1. Parked' = Parked
    BY <1>0 DEF AcquireFull, PoolTypeOK, Goto, Parked
  <2>2. QED
    BY <2>1 DEF AcquireFull, Line
<1>4. Room' /\ NoIdleSlot'
  <2>1. CASE UNCHANGED queue
    BY <2>1 DEF AcquireFull, Room, NoIdleSlot, SlotFree
  <2>2. CASE QueueFree /\ queue' = queue \cup {r}
    <3>1. Cardinality(queue') = Cardinality(queue) + 1 /\ Cardinality(queue) \in Nat
      BY <1>0, <2>2, CardAdd, CardType DEF PoolTypeOK
    <3>2. QED
      BY <2>2, <3>1, ConfType DEF AcquireFull, Room, NoIdleSlot, SlotFree, QueueFree
  <2>3. QED
    BY <2>1, <2>2 DEF AcquireFull
<1>5. Counts'
  <2>1. ActiveReqs' = ActiveReqs /\ QueuedReqs' = QueuedReqs
    BY <1>0 DEF AcquireFull, PoolTypeOK, Goto, ActiveReqs, QueuedReqs
  <2>2. rejected' = Cardinality(RejectedReqs')
    <3>1. CASE rejected' = rejected + 1 /\ Goto(r, "overloaded")
      <4>1. /\ RejectedReqs' = RejectedReqs \cup {r}
            /\ RejectedReqs \in SUBSET Reqs /\ r \notin RejectedReqs
        BY <1>0, <3>1 DEF PoolTypeOK, Goto, RejectedReqs
      <4>2. QED
        BY <3>1, <4>1, CardAdd DEF Counts
    <3>2. CASE UNCHANGED rejected /\ (Goto(r, "wait") \/ Goto(r, "enter"))
      <4>1. RejectedReqs' = RejectedReqs
        BY <1>0, <3>2 DEF PoolTypeOK, Goto, RejectedReqs
      <4>2. QED
        BY <3>2, <4>1 DEF Counts
    <3>3. QED
      BY <3>1, <3>2 DEF AcquireFull
  <2>3. QED
    BY <2>1, <2>2 DEF AcquireFull, Counts
<1>6. QED
  BY <1>1, <1>2, <1>3, <1>4, <1>5

\* A request in the queue is counted.
LEMMA CountQueuedInv ==
  ASSUME PoolInv, NEW r \in Reqs, CountQueued(r)
  PROVE  PoolInv'
<1> USE DEF PoolInv
<1>0. at[r] = "enter" /\ r \notin slots /\ r \in queue
  BY DEF CountQueued, SlotHolders, QueueHolders
<1>1. PoolTypeOK'
  BY DEF CountQueued, PoolTypeOK, Goto, Ats, Outcomes
<1>2. SlotHolders' /\ QueueHolders' /\ NoGate'
  BY <1>0 DEF CountQueued, PoolTypeOK, Goto, SlotHolders, QueueHolders, NoGate, IsUnbounded
<1>3. Line'
  <2>1. Parked' = Parked
    BY <1>0 DEF CountQueued, PoolTypeOK, Goto, Parked
  <2>2. QED
    BY <2>1 DEF CountQueued, Line
<1>4. Room' /\ NoIdleSlot'
  BY DEF CountQueued, Room, NoIdleSlot, SlotFree
<1>5. Counts'
  <2>1. ActiveReqs' = ActiveReqs /\ RejectedReqs' = RejectedReqs
    BY <1>0 DEF CountQueued, PoolTypeOK, Goto, ActiveReqs, RejectedReqs
  <2>2. QueuedReqs' = QueuedReqs \cup {r} /\ QueuedReqs \in SUBSET Reqs /\ r \notin QueuedReqs
    BY <1>0 DEF CountQueued, PoolTypeOK, Goto, QueuedReqs
  <2>3. QED
    BY <2>1, <2>2, CardAdd DEF CountQueued, Counts
<1>6. QED
  BY <1>1, <1>2, <1>3, <1>4, <1>5

\* The blocking select: a slot, the context, or a place among the blocked senders.
LEMMA AcquireSelectInv ==
  ASSUME PoolInv, NEW r \in Reqs, AcquireSelect(r)
  PROVE  PoolInv'
<1> USE DEF PoolInv
<1>0. at[r] = "wait" /\ r \notin slots
  BY DEF AcquireSelect, SlotHolders
<1>1. PoolTypeOK'
  BY SMTT(30) DEF AcquireSelect, PoolTypeOK, Goto, GiveUp, Ats, Outcomes
<1>2. SlotHolders' /\ QueueHolders' /\ NoGate'
  BY <1>0 DEF AcquireSelect, PoolTypeOK, Goto, GiveUp, SlotHolders, QueueHolders, NoGate,
              IsUnbounded
<1>3. Line'
  <2>1. CASE waiters' = Append(waiters, r) /\ Goto(r, "parked")
    <3>1. Parked' = Parked \cup {r} /\ r \notin Parked
      BY <1>0, <2>1 DEF PoolTypeOK, Goto, Parked
    <3>2. QED
      BY <2>1, <3>1, LineAppend DEF PoolTypeOK, Line
  <2>2. CASE UNCHANGED waiters /\ (Goto(r, "count") \/ Goto(r, GiveUp(r)))
    <3>1. Parked' = Parked
      BY <1>0, <2>2 DEF PoolTypeOK, Goto, GiveUp, Parked
    <3>2. QED
      BY <2>2, <3>1 DEF Line
  <2>3. QED
    BY <2>1, <2>2 DEF AcquireSelect
<1>4. Room' /\ NoIdleSlot'
  BY <1>0, TakeSlot DEF AcquireSelect, Room, NoIdleSlot, SlotFree
<1>5. Counts'
  <2>1. ActiveReqs' = ActiveReqs /\ QueuedReqs' = QueuedReqs /\ RejectedReqs' = RejectedReqs
    BY <1>0 DEF AcquireSelect, PoolTypeOK, Goto, GiveUp, ActiveReqs, QueuedReqs, RejectedReqs
  <2>2. QED
    BY <2>1 DEF AcquireSelect, Counts
<1>6. QED
  BY <1>1, <1>2, <1>3, <1>4, <1>5

\* A blocked request whose context ends leaves the line.
LEMMA WaitCancelledInv ==
  ASSUME PoolInv, NEW r \in Reqs, WaitCancelled(r)
  PROVE  PoolInv'
<1> USE DEF PoolInv
<1>0. at[r] = "parked" /\ r \notin slots
  BY DEF WaitCancelled, SlotHolders
<1>k. PICK k \in DOMAIN waiters : waiters[k] = r /\ waiters' = RemoveAt(waiters, k)
  BY DEF WaitCancelled
<1>l. /\ waiters' \in Seq(Reqs) /\ IsInjective(waiters')
      /\ ToSet(waiters') = ToSet(waiters) \ {r}
  BY <1>k, LineRemove DEF PoolTypeOK, Line
<1>1. PoolTypeOK'
  BY <1>l DEF WaitCancelled, PoolTypeOK, Goto, GiveUp, Ats, Outcomes
<1>2. SlotHolders' /\ QueueHolders' /\ NoGate'
  BY <1>0 DEF WaitCancelled, PoolTypeOK, Goto, GiveUp, SlotHolders, QueueHolders, NoGate,
              IsUnbounded
<1>3. Line'
  <2>1. Parked' = Parked \ {r}
    BY <1>0 DEF WaitCancelled, PoolTypeOK, Goto, GiveUp, Parked
  <2>2. QED
    BY <1>l, <2>1 DEF Line
<1>4. Room' /\ NoIdleSlot'
  <2>1. waiters # <<>>
    BY <1>k
  <2>2. QED
    BY <2>1 DEF WaitCancelled, Room, NoIdleSlot, SlotFree
<1>5. Counts'
  <2>1. ActiveReqs' = ActiveReqs /\ QueuedReqs' = QueuedReqs /\ RejectedReqs' = RejectedReqs
    BY <1>0 DEF WaitCancelled, PoolTypeOK, Goto, GiveUp, ActiveReqs, QueuedReqs, RejectedReqs
  <2>2. QED
    BY <2>1 DEF WaitCancelled, Counts
<1>6. QED
  BY <1>1, <1>2, <1>3, <1>4, <1>5

\* A slot is counted; a queued request has still to leave the queue.
LEMMA CountActiveInv ==
  ASSUME PoolInv, NEW r \in Reqs, CountActive(r)
  PROVE  PoolInv'
<1> USE DEF PoolInv
<1>0. at[r] = "count" /\ r \in slots
  BY DEF CountActive, SlotHolders
<1>1. PoolTypeOK'
  BY DEF CountActive, PoolTypeOK, Goto, Ats, Outcomes
<1>2. SlotHolders' /\ QueueHolders' /\ NoGate'
  BY <1>0 DEF CountActive, PoolTypeOK, Goto, SlotHolders, QueueHolders, NoGate, IsUnbounded
<1>3. Line'
  <2>1. Parked' = Parked
    BY <1>0 DEF CountActive, PoolTypeOK, Goto, Parked
  <2>2. QED
    BY <2>1 DEF CountActive, Line
<1>4. Room' /\ NoIdleSlot'
  BY DEF CountActive, Room, NoIdleSlot, SlotFree
<1>5. Counts'
  <2>1. QueuedReqs' = QueuedReqs /\ RejectedReqs' = RejectedReqs
    BY <1>0 DEF CountActive, PoolTypeOK, Goto, QueueHolders, QueuedReqs, RejectedReqs
  <2>2. ActiveReqs' = ActiveReqs \cup {r} /\ ActiveReqs \in SUBSET Reqs /\ r \notin ActiveReqs
    BY <1>0 DEF CountActive, PoolTypeOK, Goto, ActiveReqs
  <2>3. QED
    BY <2>1, <2>2, CardAdd DEF CountActive, Counts
<1>6. QED
  BY <1>1, <1>2, <1>3, <1>4, <1>5

\* The deferred function gives the queue token back.
LEMMA LeaveQueueInv ==
  ASSUME PoolInv, NEW r \in Reqs, LeaveQueue(r)
  PROVE  PoolInv'
<1> USE DEF PoolInv
<1>0. at[r] = "leave" /\ r \in queue
  BY DEF LeaveQueue, QueueHolders
<1>1. PoolTypeOK'
  BY DEF LeaveQueue, PoolTypeOK, Goto, Ats, Outcomes
<1>2. SlotHolders' /\ QueueHolders' /\ NoGate'
  BY <1>0 DEF LeaveQueue, PoolTypeOK, Goto, SlotHolders, QueueHolders, NoGate, IsUnbounded
<1>3. Line'
  <2>1. Parked' = Parked
    BY <1>0 DEF LeaveQueue, PoolTypeOK, Goto, Parked
  <2>2. QED
    BY <2>1 DEF LeaveQueue, Line
<1>4. Room' /\ NoIdleSlot'
  <2>1. Cardinality(queue') = Cardinality(queue) - 1 /\ Cardinality(queue) \in Nat
    BY <1>0, CardRemove, CardType DEF LeaveQueue, PoolTypeOK
  <2>2. QED
    BY <2>1, ConfType DEF LeaveQueue, Room, NoIdleSlot, SlotFree
<1>5. Counts'
  <2>1. ActiveReqs' = ActiveReqs /\ QueuedReqs' = QueuedReqs /\ RejectedReqs' = RejectedReqs
    BY <1>0 DEF LeaveQueue, PoolTypeOK, Goto, ActiveReqs, QueuedReqs, RejectedReqs
  <2>2. QED
    BY <2>1 DEF LeaveQueue, Counts
<1>6. QED
  BY <1>1, <1>2, <1>3, <1>4, <1>5

\* And then takes the request out of the count; it runs if it has a slot.
LEMMA UncountQueuedInv ==
  ASSUME PoolInv, NEW r \in Reqs, UncountQueued(r)
  PROVE  PoolInv'
<1> USE DEF PoolInv
<1>0. at[r] = "unqueue" /\ r \notin queue
  BY DEF UncountQueued, QueueHolders
<1>2. SlotHolders' /\ QueueHolders' /\ NoGate'
  BY <1>0 DEF UncountQueued, PoolTypeOK, Goto, SlotHolders, QueueHolders, NoGate, IsUnbounded
<1>3. Line'
  <2>1. Parked' = Parked
    BY <1>0 DEF UncountQueued, PoolTypeOK, Goto, Parked
  <2>2. QED
    BY <2>1 DEF UncountQueued, Line
<1>4. Room' /\ NoIdleSlot'
  BY DEF UncountQueued, Room, NoIdleSlot, SlotFree
<1>5. Counts'
  <2>1. ActiveReqs' = ActiveReqs /\ RejectedReqs' = RejectedReqs
    BY <1>0 DEF UncountQueued, PoolTypeOK, Goto, ActiveReqs, RejectedReqs
  <2>2. QueuedReqs' = QueuedReqs \ {r} /\ QueuedReqs \in SUBSET Reqs /\ r \in QueuedReqs
    BY <1>0 DEF UncountQueued, PoolTypeOK, Goto, QueuedReqs
  <2>3. QED
    BY <2>1, <2>2, CardRemove DEF UncountQueued, Counts
<1>1. PoolTypeOK'
  <2>1. queued' \in Nat
    <3>1. QueuedReqs' \in SUBSET Reqs
      BY DEF QueuedReqs
    <3>2. QED
      BY <1>5, <3>1, CardType DEF Counts
  <2>2. QED
    BY <2>1 DEF UncountQueued, PoolTypeOK, Goto, Ats, Outcomes
<1>6. QED
  BY <1>1, <1>2, <1>3, <1>4, <1>5

\* Release gives the slot to the first blocked request, or frees it.
LEMMA ReleaseInv ==
  ASSUME PoolInv, NEW r \in Reqs, Release(r)
  PROVE  PoolInv'
<1> USE DEF PoolInv
<1>0. at[r] = "running" /\ r \notin queue /\ (~IsUnbounded => r \in slots)
  BY DEF Release, SlotHolders, QueueHolders
<1>a. CASE IsUnbounded /\ Goto(r, "served") /\ UNCHANGED <<slots, waiters>>
  <2>1. PoolTypeOK'
    BY <1>a DEF Release, PoolTypeOK, Goto, Ats, Outcomes
  <2>2. SlotHolders' /\ QueueHolders' /\ NoGate'
    BY <1>0, <1>a DEF Release, PoolTypeOK, Goto, SlotHolders, QueueHolders, NoGate, IsUnbounded
  <2>3. Line'
    <3>1. Parked' = Parked
      BY <1>0, <1>a DEF PoolTypeOK, Goto, Parked
    <3>2. QED
      BY <1>a, <3>1 DEF Line
  <2>4. Room' /\ NoIdleSlot'
    BY <1>a DEF Release, Room, NoIdleSlot, SlotFree
  <2>5. Counts'
    <3>1. ActiveReqs' = ActiveReqs /\ QueuedReqs' = QueuedReqs /\ RejectedReqs' = RejectedReqs
      BY <1>0, <1>a DEF Release, PoolTypeOK, Goto, NoGate, ActiveReqs, QueuedReqs, RejectedReqs
    <3>2. QED
      BY <3>1 DEF Release, Counts
  <2>6. QED
    BY <2>1, <2>2, <2>3, <2>4, <2>5
<1>b. CASE ~IsUnbounded /\ waiters = <<>> /\ slots' = slots \ {r} /\ Goto(r, "uncount")
           /\ UNCHANGED waiters
  <2>1. PoolTypeOK'
    BY <1>b DEF Release, PoolTypeOK, Goto, Ats, Outcomes
  <2>2. SlotHolders' /\ QueueHolders' /\ NoGate'
    BY <1>0, <1>b DEF Release, PoolTypeOK, Goto, SlotHolders, QueueHolders, NoGate, IsUnbounded
  <2>3. Line'
    <3>1. Parked' = Parked
      BY <1>0, <1>b DEF PoolTypeOK, Goto, Parked
    <3>2. QED
      BY <1>b, <3>1 DEF Line
  <2>4. Room' /\ NoIdleSlot'
    <3>1. Cardinality(slots') = Cardinality(slots) - 1 /\ Cardinality(slots) \in Nat
      BY <1>0, <1>b, CardRemove, CardType DEF PoolTypeOK
    <3>2. QED
      BY <1>b, <3>1, ConfType DEF Release, Room, NoIdleSlot, SlotFree
  <2>5. Counts'
    <3>1. ActiveReqs' = ActiveReqs /\ QueuedReqs' = QueuedReqs /\ RejectedReqs' = RejectedReqs
      BY <1>0, <1>b DEF Release, PoolTypeOK, Goto, ActiveReqs, QueuedReqs, RejectedReqs
    <3>2. QED
      BY <3>1 DEF Release, Counts
  <2>6. QED
    BY <2>1, <2>2, <2>3, <2>4, <2>5
<1>c. CASE /\ ~IsUnbounded /\ waiters # <<>>
           /\ slots' = (slots \ {r}) \cup {Head(waiters)}
           /\ waiters' = Tail(waiters)
           /\ at' = [at EXCEPT ![r] = "uncount", ![Head(waiters)] = "count"]
  <2> DEFINE h == Head(waiters)
  <2>0. /\ h \in ToSet(waiters) /\ waiters' \in Seq(Reqs) /\ IsInjective(waiters')
        /\ ToSet(waiters') = ToSet(waiters) \ {h}
    BY <1>c, LineTail DEF PoolTypeOK, Line
  <2>h. h \in Reqs /\ at[h] = "parked" /\ h # r /\ h \notin slots
    BY <1>0, <2>0 DEF Line, Parked, SlotHolders
  <2> HIDE DEF h
  <2>c. /\ slots' = (slots \ {r}) \cup {h}
        /\ at' \in [Reqs -> Ats]
        /\ \A q \in Reqs : at'[q] = IF q = h THEN "count" ELSE IF q = r THEN "uncount" ELSE at[q]
    BY <1>c, <2>h DEF PoolTypeOK, Ats, Outcomes, h
  <2>1. PoolTypeOK'
    BY <2>0, <2>h, <2>c DEF Release, PoolTypeOK
  <2>2. SlotHolders' /\ QueueHolders' /\ NoGate'
    BY <1>0, <1>c, <2>h, <2>c
       DEF Release, PoolTypeOK, SlotHolders, QueueHolders, NoGate, IsUnbounded
  <2>3. Line'
    <3>1. Parked' = Parked \ {h}
      BY <1>0, <2>h, <2>c DEF Parked
    <3>2. QED
      BY <2>0, <3>1 DEF Line
  <2>4. Room' /\ NoIdleSlot'
    <3>1. slots \ {r} \in SUBSET Reqs /\ h \notin slots \ {r}
      BY <2>h DEF PoolTypeOK
    <3>2. /\ Cardinality(slots \ {r}) = Cardinality(slots) - 1
          /\ Cardinality(slots \ {r}) \in Nat /\ Cardinality(slots) \in Nat
      BY <1>0, <1>c, <3>1, CardRemove, CardType DEF PoolTypeOK
    <3>3. Cardinality(slots') = Cardinality(slots \ {r}) + 1
      BY <2>h, <2>c, <3>1, CardAdd
    <3>4. Cardinality(slots') = Cardinality(slots)
      BY <3>2, <3>3
    <3>5. QED
      BY <1>c, <3>4 DEF Release, Room, NoIdleSlot, SlotFree
  <2>5. Counts'
    <3>1. ActiveReqs' = ActiveReqs /\ QueuedReqs' = QueuedReqs /\ RejectedReqs' = RejectedReqs
      BY <1>0, <1>c, <2>h, <2>c DEF Release, PoolTypeOK, ActiveReqs, QueuedReqs, RejectedReqs
    <3>2. QED
      BY <3>1 DEF Release, Counts
  <2>6. QED
    BY <2>1, <2>2, <2>3, <2>4, <2>5
<1>d. QED
  BY <1>a, <1>b, <1>c DEF Release

\* The rest of Release takes the slot out of the count.
LEMMA UncountActiveInv ==
  ASSUME PoolInv, NEW r \in Reqs, UncountActive(r)
  PROVE  PoolInv'
<1> USE DEF PoolInv
<1>0. at[r] = "uncount" /\ r \notin queue /\ r \notin slots
  BY DEF UncountActive, SlotHolders, QueueHolders
<1>2. SlotHolders' /\ QueueHolders' /\ NoGate'
  BY <1>0 DEF UncountActive, PoolTypeOK, Goto, SlotHolders, QueueHolders, NoGate, IsUnbounded
<1>3. Line'
  <2>1. Parked' = Parked
    BY <1>0 DEF UncountActive, PoolTypeOK, Goto, Parked
  <2>2. QED
    BY <2>1 DEF UncountActive, Line
<1>4. Room' /\ NoIdleSlot'
  BY DEF UncountActive, Room, NoIdleSlot, SlotFree
<1>5. Counts'
  <2>1. QueuedReqs' = QueuedReqs /\ RejectedReqs' = RejectedReqs
    BY <1>0 DEF UncountActive, PoolTypeOK, Goto, QueuedReqs, RejectedReqs
  <2>2. ActiveReqs' = ActiveReqs \ {r} /\ ActiveReqs \in SUBSET Reqs /\ r \in ActiveReqs
    BY <1>0 DEF UncountActive, PoolTypeOK, Goto, ActiveReqs
  <2>3. QED
    BY <2>1, <2>2, CardRemove DEF UncountActive, Counts
<1>1. PoolTypeOK'
  <2>1. active' \in Nat
    <3>1. ActiveReqs' \in SUBSET Reqs
      BY DEF ActiveReqs
    <3>2. QED
      BY <1>5, <3>1, CardType DEF Counts
  <2>2. QED
    BY <2>1 DEF UncountActive, PoolTypeOK, Goto, Ats, Outcomes
<1>6. QED
  BY <1>1, <1>2, <1>3, <1>4, <1>5

\* A request arrives, or its context ends.
LEMMA ClientInv ==
  ASSUME PoolInv, NEW r \in Reqs, Arrive(r) \/ Disconnect(r)
  PROVE  PoolInv'
<1> USE DEF PoolInv
<1>0. \/ UNCHANGED at
      \/ at[r] = "idle" /\ Goto(r, "new") /\ r \notin slots /\ r \notin queue
  BY DEF Arrive, Disconnect, SlotHolders, QueueHolders
<1>u. UNCHANGED <<conf, slots, queue, waiters, active, queued, rejected>>
  BY DEF Arrive, Disconnect
<1>1. PoolTypeOK'
  BY DEF Arrive, Disconnect, PoolTypeOK, Goto, Ats, Outcomes
<1>2. SlotHolders' /\ QueueHolders' /\ NoGate'
  BY <1>0, <1>u DEF PoolTypeOK, Goto, SlotHolders, QueueHolders, NoGate, IsUnbounded
<1>3. Line'
  <2>1. Parked' = Parked
    BY <1>0 DEF PoolTypeOK, Goto, Parked
  <2>2. QED
    BY <1>u, <2>1 DEF Line
<1>4. Room' /\ NoIdleSlot'
  BY <1>u DEF Room, NoIdleSlot, SlotFree
<1>5. Counts'
  <2>1. ActiveReqs' = ActiveReqs /\ QueuedReqs' = QueuedReqs /\ RejectedReqs' = RejectedReqs
    BY <1>0, <1>u DEF PoolTypeOK, Goto, ActiveReqs, QueuedReqs, RejectedReqs
  <2>2. QED
    BY <1>u, <2>1 DEF Counts
<1>6. QED
  BY <1>1, <1>2, <1>3, <1>4, <1>5

\* The steps of Acquire and of the end of Release together.
LEMMA PoolStepInv ==
  ASSUME PoolInv, NEW r \in Reqs, PoolStep(r)
  PROVE  PoolInv'
BY AcquireFastInv, AcquireFullInv, CountQueuedInv, AcquireSelectInv, WaitCancelledInv,
   CountActiveInv, LeaveQueueInv, UncountQueuedInv, UncountActiveInv DEF PoolStep

\* A new pool is empty.
LEMMA PoolInitInv == PoolInit => PoolInv
<1> SUFFICES ASSUME PoolInit PROVE PoolInv
  OBVIOUS
<1>1. PoolTypeOK
  BY DEF PoolInit, PoolTypeOK, Ats
<1>2. SlotHolders /\ QueueHolders /\ NoGate /\ NoIdleSlot
  BY DEF PoolInit, SlotHolders, QueueHolders, NoGate, NoIdleSlot, IsUnbounded
<1>3. Line
  BY DEF PoolInit, Line, Parked, IsInjective, ToSet
<1>4. Room
  BY <1>1, ConfType, FS_EmptySet DEF PoolInit, Room
<1>5. Counts
  <2>1. ActiveReqs = {} /\ QueuedReqs = {} /\ RejectedReqs = {}
    BY DEF PoolInit, ActiveReqs, QueuedReqs, RejectedReqs
  <2>2. QED
    BY <2>1, FS_EmptySet DEF PoolInit, Counts
<1>6. QED
  BY <1>1, <1>2, <1>3, <1>4, <1>5 DEF PoolInv

\* A step that leaves the pool alone.
LEMMA PoolStutter == PoolInv /\ UNCHANGED poolVars => PoolInv'
BY DEF poolVars, PoolInv, PoolTypeOK, SlotHolders, QueueHolders, Line, Parked, Room, NoGate,
       NoIdleSlot, Counts, ActiveReqs, QueuedReqs, RejectedReqs, IsUnbounded, SlotFree

-----------------------------------------------------------------------------
\* Tokens, line and counters agree with where the requests are, whatever the
\* requests and their clients do.
THEOREM PoolInvariant == PoolSpec => []PoolInv
<1>1. PoolInit => PoolInv
  BY PoolInitInv
<1>2. PoolInv /\ [PoolNext]_poolVars => PoolInv'
  BY PoolStepInv, ReleaseInv, ClientInv, PoolStutter DEF PoolNext, Request
<1>3. QED
  BY <1>1, <1>2, PTL DEF PoolSpec

\* The pool's state stays well typed; no counter of Stats goes below zero.
THEOREM PoolTypes == PoolSpec => []PoolTypeOK
<1>1. PoolInv => PoolTypeOK
  BY DEF PoolInv
<1>2. QED
  BY <1>1, PoolInvariant, PTL

\* Never more handlers than maxConcurrent, never more queued requests than
\* queueSize.
THEOREM CappedHolds == PoolSpec => []Capped
<1>1. PoolInv => Capped
  <2> SUFFICES ASSUME PoolInv, ~IsUnbounded
               PROVE  /\ Cardinality(Running) <= conf.max
                      /\ conf.policy # "wait" => Cardinality(Parked) <= conf.queue
    BY DEF Capped, Parked
  <2>1. slots \in SUBSET Reqs /\ queue \in SUBSET Reqs
    BY DEF PoolInv, PoolTypeOK
  <2>2. /\ IsFiniteSet(slots) /\ Cardinality(slots) \in Nat
        /\ IsFiniteSet(queue) /\ Cardinality(queue) \in Nat
    BY <2>1, CardType
  <2>3. Cardinality(Running) <= conf.max
    <3>1. Running \in SUBSET slots
      BY DEF PoolInv, SlotHolders, Running
    <3>2. Cardinality(Running) <= Cardinality(slots) /\ Cardinality(Running) \in Nat
      BY <2>2, <3>1, FS_Subset, FS_CardinalityType
    <3>3. QED
      BY <2>2, <3>2, ConfType DEF PoolInv, Room
  <2>4. ASSUME conf.policy # "wait" PROVE Cardinality(Parked) <= conf.queue
    <3>1. Parked \in SUBSET queue
      BY <2>4 DEF PoolInv, QueueHolders, Parked
    <3>2. Cardinality(Parked) <= Cardinality(queue) /\ Cardinality(Parked) \in Nat
      BY <2>2, <3>1, FS_Subset, FS_CardinalityType
    <3>3. QED
      BY <2>2, <3>2, ConfType DEF PoolInv, Room
  <2>5. QED
    BY <2>3, <2>4
<1>2. QED
  BY <1>1, PoolInvariant, PTL

\* No lost wake-up: nobody is blocked on a slot while one is free.
THEOREM NoIdleSlotHolds == PoolSpec => []NoIdleSlot
<1>1. PoolInv => NoIdleSlot
  BY DEF PoolInv
<1>2. QED
  BY <1>1, PoolInvariant, PTL

\* With no request in flight the pool is as it was made, and rejected is exact.
LEMMA QuietPool == PoolInv => Balanced
<1> SUFFICES ASSUME PoolInv, Quiescent
             PROVE  /\ slots = {} /\ queue = {} /\ waiters = <<>>
                    /\ active = 0 /\ queued = 0
                    /\ rejected = Cardinality(RejectedReqs)
  BY DEF Balanced, RejectedReqs
<1> USE DEF Quiescent, Outcomes
<1>1. slots = {} /\ queue = {}
  BY DEF PoolInv, PoolTypeOK, SlotHolders, QueueHolders
<1>2. ActiveReqs = {} /\ QueuedReqs = {}
  BY <1>1 DEF ActiveReqs, QueuedReqs
<1>3. active = 0 /\ queued = 0 /\ rejected = Cardinality(RejectedReqs)
  BY <1>2, FS_EmptySet DEF PoolInv, Counts
<1>4. waiters = <<>>
  <2>1. ToSet(waiters) = {}
    BY DEF PoolInv, Line, Parked
  <2>2. waiters \in Seq(Reqs)
    BY DEF PoolInv, PoolTypeOK
  <2>3. QED
    BY <2>1, <2>2, LineTail DEF PoolInv, Line
<1>5. QED
  BY <1>1, <1>3, <1>4

\* Whatever rejections, cancellations and hand-overs there were, a pool with no
\* request in flight has all its tokens back and its counters at rest.
THEOREM BalancedHolds == PoolSpec => []Balanced
BY QuietPool, PoolInvariant, PTL
=============================================================================
