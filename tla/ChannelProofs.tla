--------------------------- MODULE ChannelProofs ----------------------------
(***************************************************************************)
(* close never meets a sender inside a channel, leaves nobody blocked on   *)
(* it, and a null from recv is the end of what was sent, for any number of *)
(* goroutines and channels, any buffer sizes and any programs.             *)
(***************************************************************************)
EXTENDS Channel, SequenceTheorems, WellFoundedInduction, TLAPS

(***************************************************************************)
(* Induction over the natural numbers, in terms of sets.                   *)
(***************************************************************************)
\* A set of natural numbers that is not empty has a least element.
LEMMA Least ==
  ASSUME NEW T, T \subseteq Nat, T # {}
  PROVE  \E x \in T : \A y \in T : x <= y
<1> DEFINE R == {ss \in Nat \X Nat : ss[1] < ss[2]}
<1>1. IsWellFoundedOn(R, Nat)
  BY NatLessThanWellFounded, Zenon DEF OpToRel
<1>2. \E x \in T : \A y \in T : ~ (<<y, x>> \in R)
  <2> HIDE DEF R
  <2> QED
    BY <1>1, WFMin, Zenon
<1>3. PICK x \in T : \A y \in T : ~ (<<y, x>> \in R)
  BY <1>2
<1>4. \A y \in T : ~ (y < x)
  BY <1>3
<1>5. QED
  BY <1>4

\* A set that holds 0 and, with every number, its successor holds them all.
LEMMA SetInduction ==
  ASSUME NEW S, S \subseteq Nat, 0 \in S, \A n \in S : n + 1 \in S
  PROVE  S = Nat
<1> SUFFICES ASSUME S # Nat PROVE FALSE
  OBVIOUS
<1>1. PICK x \in Nat \ S : \A y \in Nat \ S : x <= y
  BY Least
<1>2. x # 0 /\ x - 1 \in Nat /\ x - 1 \in S
  BY <1>1
<1>3. QED
  BY <1>1, <1>2

-----------------------------------------------------------------------------
(***************************************************************************)
(* The queue without some goroutines.                                      *)
(***************************************************************************)
Kept(q, gone, F, n) ==
  [i \in 0..n |-> IF i = 0 THEN <<>> ELSE IF q[i] \in gone THEN F[i - 1] ELSE Append(F[i - 1], q[i])]

\* The recursive function in Leave exists.
LEMMA KeptExists ==
  ASSUME NEW q, NEW gone, NEW m \in Nat
  PROVE  \E F : F = Kept(q, gone, F, m)
<1> DEFINE S == {n \in Nat : \E F : F = Kept(q, gone, F, n)}
<1>1. 0 \in S
  <2>1. [i \in 0..0 |-> <<>>] = Kept(q, gone, [i \in 0..0 |-> <<>>], 0)
    BY DEF Kept
  <2>2. QED
    BY <2>1
<1>2. ASSUME NEW n \in S PROVE n + 1 \in S
  <2>1. PICK F : F = Kept(q, gone, F, n)
    BY <1>2
  <2> DEFINE next == IF q[n + 1] \in gone THEN F[n] ELSE Append(F[n], q[n + 1])
             G == [i \in 0..(n + 1) |-> IF i <= n THEN F[i] ELSE next]
  <2>2. n \in Nat /\ n + 1 \in Nat
    OBVIOUS
  <2>3. G = Kept(q, gone, G, n + 1)
    <3>1. ASSUME NEW i \in 0..(n + 1)
          PROVE  G[i] = IF i = 0 THEN <<>> ELSE IF q[i] \in gone THEN G[i - 1] ELSE Append(G[i - 1], q[i])
      <4>1. CASE i <= n
        <5>1. i \in 0..n /\ G[i] = F[i] /\ (i # 0 => i - 1 \in 0..(n + 1) /\ G[i - 1] = F[i - 1])
          BY <2>2, <4>1
        <5>2. F[i] = IF i = 0 THEN <<>> ELSE IF q[i] \in gone THEN F[i - 1] ELSE Append(F[i - 1], q[i])
          BY <2>1, <5>1 DEF Kept
        <5>3. QED
          BY <5>1, <5>2
      <4>2. CASE ~(i <= n)
        <5>1. i = n + 1 /\ i # 0 /\ i - 1 = n
          BY <2>2, <4>2
        <5>2. G[i] = next /\ G[n] = F[n]
          BY <2>2, <4>2, <5>1
        <5>3. QED
          BY <5>1, <5>2
      <4>3. QED
        BY <4>1, <4>2
    <3>2. QED
      BY <3>1 DEF Kept
  <2>4. QED
    BY <2>2, <2>3
<1>3. S = Nat
  <2> HIDE DEF S
  <2>1. S \subseteq Nat
    BY DEF S
  <2>2. QED
    BY <1>1, <1>2, <2>1, SetInduction
<1>4. QED
  BY <1>3

\* Leave returns the members of the queue that are not in gone, and no others.
LEMMA LeaveMembers ==
  ASSUME NEW T, NEW q \in Seq(T), NEW gone
  PROVE  /\ Leave(q, gone) \in Seq(T)
         /\ \A j \in DOMAIN Leave(q, gone) :
              Leave(q, gone)[j] \notin gone /\ \E i \in DOMAIN q : q[i] = Leave(q, gone)[j]
         /\ \A i \in DOMAIN q :
              q[i] \notin gone => \E j \in DOMAIN Leave(q, gone) : Leave(q, gone)[j] = q[i]
<1> DEFINE F == CHOOSE f : f = Kept(q, gone, f, Len(q))
           Members(i) ==
             /\ F[i] \in Seq(T)
             /\ \A j \in DOMAIN F[i] : F[i][j] \notin gone /\ \E k \in 1..i : q[k] = F[i][j]
             /\ \A k \in 1..i : q[k] \notin gone => \E j \in DOMAIN F[i] : F[i][j] = q[k]
           S == {i \in Nat : i <= Len(q) => Members(i)}
<1>0. Len(q) \in Nat /\ DOMAIN q = 1..Len(q) /\ \A i \in 1..Len(q) : q[i] \in T
  OBVIOUS
<1>1. F = Kept(q, gone, F, Len(q))
  <2>1. \E f : f = Kept(q, gone, f, Len(q))
    BY <1>0, KeptExists
  <2>2. QED
    BY <2>1, Zenon
<1>2. Leave(q, gone) = F[Len(q)]
  BY DEF Leave, Kept
<1> HIDE DEF F
<1>3. 0 \in S
  <2>0. F[0] = Kept(q, gone, F, Len(q))[0]
    BY <1>1
  <2>1. F[0] = <<>>
    <3>1. 0 \in 0..Len(q)
      BY <1>0
    <3>2. QED
      BY <2>0, <3>1 DEF Kept
  <2>2. <<>> \in Seq(T)
    BY EmptySeq
  <2>3. DOMAIN F[0] = {} /\ \A k \in 1..0 : FALSE
    BY <2>1
  <2>4. Members(0)
    BY <2>1, <2>2, <2>3, Zenon
  <2>5. QED
    BY <2>4
<1>4. ASSUME NEW i \in S PROVE i + 1 \in S
  <2> SUFFICES ASSUME i + 1 <= Len(q) PROVE Members(i + 1)
    OBVIOUS
  <2>1. i \in Nat /\ Members(i) /\ i + 1 \in 1..Len(q)
    BY <1>0
  <2>2. F[i + 1] = IF q[i + 1] \in gone THEN F[i] ELSE Append(F[i], q[i + 1])
    <3>1. F[i + 1] = Kept(q, gone, F, Len(q))[i + 1]
      BY <1>1
    <3>2. i + 1 \in 0..Len(q) /\ i + 1 # 0 /\ (i + 1) - 1 = i
      BY <1>0, <2>1
    <3>3. QED
      BY <3>1, <3>2 DEF Kept
  <2>3. q[i + 1] \in T /\ \A k \in 1..(i + 1) : k \in 1..i \/ k = i + 1
    BY <1>0, <2>1
  <2>4. CASE q[i + 1] \in gone
    BY <2>1, <2>2, <2>3, <2>4
  <2>5. CASE q[i + 1] \notin gone
    <3>1. /\ F[i + 1] = Append(F[i], q[i + 1]) /\ F[i + 1] \in Seq(T)
          /\ DOMAIN F[i + 1] = DOMAIN F[i] \cup {Len(F[i]) + 1}
          /\ F[i + 1][Len(F[i]) + 1] = q[i + 1]
          /\ \A j \in DOMAIN F[i] : F[i + 1][j] = F[i][j]
      BY <2>1, <2>2, <2>3, <2>5
    <3>2. ASSUME NEW j \in DOMAIN F[i + 1]
          PROVE  F[i + 1][j] \notin gone /\ \E k \in 1..(i + 1) : q[k] = F[i + 1][j]
      <4>1. CASE j \in DOMAIN F[i]
        <5>1. F[i][j] \notin gone /\ \E k \in 1..i : q[k] = F[i][j]
          BY <2>1, <4>1
        <5>2. QED
          BY <2>1, <3>1, <4>1, <5>1
      <4>2. CASE j = Len(F[i]) + 1
        BY <2>1, <2>5, <3>1, <4>2
      <4>3. QED
        BY <3>1, <4>1, <4>2
    <3>3. ASSUME NEW k \in 1..(i + 1), q[k] \notin gone
          PROVE  \E j \in DOMAIN F[i + 1] : F[i + 1][j] = q[k]
      <4>1. CASE k \in 1..i
        <5>1. PICK j \in DOMAIN F[i] : F[i][j] = q[k]
          BY <2>1, <3>3, <4>1
        <5>2. QED
          BY <3>1, <5>1
      <4>2. CASE k = i + 1
        BY <3>1, <4>2
      <4>3. QED
        BY <2>3, <4>1, <4>2
    <3>4. QED
      BY <3>1, <3>2, <3>3
  <2>6. QED
    BY <2>4, <2>5
<1>5. S = Nat
  <2> HIDE DEF S
  <2>1. S \subseteq Nat
    BY DEF S
  <2>2. QED
    BY <1>3, <1>4, <2>1, SetInduction
<1>6. Members(Len(q))
  BY <1>0, <1>5
<1>7. QED
  <2>1. F[Len(q)] \in Seq(T)
    BY <1>6
  <2>2. \A j \in DOMAIN F[Len(q)] : F[Len(q)][j] \notin gone /\ \E i \in DOMAIN q : q[i] = F[Len(q)][j]
    BY <1>0, <1>6
  <2>3. \A i \in DOMAIN q : q[i] \notin gone => \E j \in DOMAIN F[Len(q)] : F[Len(q)][j] = q[i]
    BY <1>0, <1>6
  <2>4. QED
    BY <1>2, <2>1, <2>2, <2>3, Zenon

\* An empty queue stays empty, and a queue whose members all leave becomes empty.
LEMMA LeaveEmpty ==
  ASSUME NEW T, NEW q \in Seq(T), NEW gone, \A i \in DOMAIN q : q[i] \in gone
  PROVE  Leave(q, gone) = <<>>
<1>1. Leave(q, gone) \in Seq(T) /\ DOMAIN Leave(q, gone) = {}
  BY LeaveMembers
<1> HIDE DEF Leave
<1>2. Len(Leave(q, gone)) = 0
  BY <1>1
<1>3. QED
  BY <1>1, <1>2, EmptySeq

-----------------------------------------------------------------------------
(***************************************************************************)
(* The inductive invariant.                                                *)
(***************************************************************************)
Labels == {"idle", "rlock", "chan", "parked", "lock", "drain"}
Tags == {"none", "sent", "got", "end", "closedErr", "full", "empty", "closed", "default"}
Outs == [tag : Tags, ch : Chans \cup {NoChan}]

\* Types of the channels and of the calls in flight.  No outcome is a panic.
HandleTypes ==
  /\ buf \in [Chans -> Seq(Vals)]
  /\ closed \in [Chans -> BOOLEAN]
  /\ writer \in [Chans -> Procs \cup {NoProc}]
  /\ sent \in [Chans -> Seq(Vals)]
  /\ rcvd \in [Chans -> Seq(Vals)]
CallTypes ==
  /\ readers \in [Chans -> SUBSET Procs]
  /\ sendq \in [Chans -> Seq(Procs)]
  /\ recvq \in [Chans -> Seq(Procs)]
  /\ at \in [Procs -> Labels]
  /\ op \in [Procs -> Ops \cup {NoOp}]
  /\ ret \in [Procs -> Outs]
  /\ todo \in [Procs -> Seq(Ops)]

\* Where a goroutine is tells which operation it is in.
Placed ==
  \A p \in Procs :
    /\ (at[p] = "idle") <=> (op[p] = NoOp)
    /\ at[p] = "rlock" => op[p].name \in {"send", "trySend"}
    /\ at[p] \in {"lock", "drain"} => op[p].name = "close"
    /\ at[p] \in {"chan", "parked"} => op[p].name \notin {"trySend", "close"}

\* The read lock of a channel is held by the senders that are inside it.
Sending(p, c) == op[p].name = "send" /\ at[p] \in {"chan", "parked"} /\ c \in op[p].to
Inside == \A c \in Chans, p \in Procs : p \in readers[c] <=> Sending(p, c)

\* The goroutines in a queue are parked, in an operation on that channel.
Queued ==
  \A c \in Chans :
    /\ \A i \in DOMAIN sendq[c] : at[sendq[c][i]] = "parked" /\ c \in op[sendq[c][i]].to
    /\ \A i \in DOMAIN recvq[c] : at[recvq[c][i]] = "parked" /\ c \in op[recvq[c][i]].from

CallInv == CallTypes /\ Placed /\ Inside /\ Queued

\* A closed channel has no sender inside it and nobody waiting.
Shut == \A c \in Chans : closed[c] => readers[c] = {} /\ sendq[c] = <<>> /\ recvq[c] = <<>>

\* What was sent was received or is in the buffer; a receiver waits only when that
\* is empty.
Flow ==
  \A c \in Chans :
    /\ Len(buf[c]) <= Cap[c]
    /\ sent[c] = rcvd[c] \o buf[c]
    /\ recvq[c] # <<>> => buf[c] = <<>>

\* After the null of a receive the channel is closed and its buffer empty.
Ends ==
  \A p \in Procs :
    ret[p].tag = "end" => ret[p].ch \in Chans /\ closed[ret[p].ch] /\ buf[ret[p].ch] = <<>>

ChanInv == HandleTypes /\ CallInv /\ Shut /\ Flow /\ Ends

\* What is known of an operation by its name.
LEMMA OpFacts ==
  ASSUME NEW o \in Ops \cup {NoOp}
  PROVE  /\ o.to \subseteq Chans /\ o.from \subseteq Chans
         /\ o.to # {} /\ o.name # "close" => o.val \in Vals
         /\ o.name = "send" => \E c \in Chans : o.to = {c}
         /\ o.name \in {"send", "trySend", "close"} => o.from = {}
         /\ o = NoOp <=> o.name = "none"
BY DEF Ops, One, NoOp, Op

\* The goroutines that return leave the queues and the read locks.
LEMMA ReturnCalls ==
  ASSUME CallInv, NEW f, DOMAIN f \subseteq Procs, \A x \in DOMAIN f : f[x] \in Outs, Return(f)
  PROVE  /\ CallInv'
         /\ \A c \in Chans : /\ readers[c] = {} => readers'[c] = {}
                             /\ sendq[c] = <<>> => sendq'[c] = <<>>
                             /\ recvq[c] = <<>> => recvq'[c] = <<>>
<1> USE DEF CallInv
<1>1. \A c \in Chans : /\ sendq'[c] = Leave(sendq[c], DOMAIN f)
                       /\ recvq'[c] = Leave(recvq[c], DOMAIN f)
                       /\ readers'[c] = readers[c] \ DOMAIN f
                       /\ sendq[c] \in Seq(Procs) /\ recvq[c] \in Seq(Procs)
  BY DEF Return, CallTypes
<1>2. \A c \in Chans :
        /\ sendq'[c] \in Seq(Procs)
        /\ \A j \in DOMAIN sendq'[c] :
             sendq'[c][j] \notin DOMAIN f /\ \E i \in DOMAIN sendq[c] : sendq[c][i] = sendq'[c][j]
  BY <1>1, LeaveMembers
<1>3. \A c \in Chans :
        /\ recvq'[c] \in Seq(Procs)
        /\ \A j \in DOMAIN recvq'[c] :
             recvq'[c][j] \notin DOMAIN f /\ \E i \in DOMAIN recvq[c] : recvq[c][i] = recvq'[c][j]
  BY <1>1, LeaveMembers
<1>4. CallTypes'
  <2>1. sendq' \in [Chans -> Seq(Procs)] /\ recvq' \in [Chans -> Seq(Procs)]
    BY <1>2, <1>3 DEF Return
  <2>2. ret' \in [Procs -> Outs]
    BY DEF Return, CallTypes
  <2>3. QED
    BY <2>1, <2>2 DEF Return, CallTypes, Labels
<1>5. \A p \in Procs : /\ p \in DOMAIN f => at'[p] = "idle" /\ op'[p] = NoOp
                       /\ p \notin DOMAIN f => at'[p] = at[p] /\ op'[p] = op[p]
  BY DEF Return
<1>6. NoOp.name = "none"
  BY DEF NoOp, Op
<1>7. Placed'
  BY <1>5 DEF Placed
<1>8. Inside'
  BY <1>1, <1>5, <1>6 DEF Inside, Sending
<1>9. Queued'
  <2>1. ASSUME NEW c \in Chans, NEW j \in DOMAIN sendq'[c]
        PROVE  at'[sendq'[c][j]] = "parked" /\ c \in op'[sendq'[c][j]].to
    <3>1. PICK i \in DOMAIN sendq[c] : sendq[c][i] = sendq'[c][j]
      BY <1>2
    <3>2. sendq[c][i] \in Procs /\ sendq[c][i] \notin DOMAIN f
      BY <1>1, <1>2, <3>1
    <3>3. QED
      BY <1>5, <3>1, <3>2 DEF Queued
  <2>2. ASSUME NEW c \in Chans, NEW j \in DOMAIN recvq'[c]
        PROVE  at'[recvq'[c][j]] = "parked" /\ c \in op'[recvq'[c][j]].from
    <3>1. PICK i \in DOMAIN recvq[c] : recvq[c][i] = recvq'[c][j]
      BY <1>3
    <3>2. recvq[c][i] \in Procs /\ recvq[c][i] \notin DOMAIN f
      BY <1>1, <1>3, <3>1
    <3>3. QED
      BY <1>5, <3>1, <3>2 DEF Queued
  <2>3. QED
    BY <2>1, <2>2 DEF Queued
<1>10. ASSUME NEW c \in Chans
       PROVE  /\ readers[c] = {} => readers'[c] = {}
              /\ sendq[c] = <<>> => sendq'[c] = <<>>
              /\ recvq[c] = <<>> => recvq'[c] = <<>>
  <2>1. sendq[c] = <<>> => \A i \in DOMAIN sendq[c] : sendq[c][i] \in DOMAIN f
    OBVIOUS
  <2>2. recvq[c] = <<>> => \A i \in DOMAIN recvq[c] : recvq[c][i] \in DOMAIN f
    OBVIOUS
  <2>3. QED
    BY <1>1, <2>1, <2>2, LeaveEmpty
<1>11. QED
  BY <1>4, <1>7, <1>8, <1>9, <1>10

\* A goroutine that returns with an error or with nothing.
LEMMA FailInv ==
  ASSUME ChanInv, NEW p \in Procs, NEW c \in Chans \cup {NoChan}, NEW why \in Tags \ {"end"}, Fail(p, c, why)
  PROVE  ChanInv'
<1> DEFINE f == Outcome(p, Out(why, c))
<1>1. Return(f) /\ UNCHANGED <<buf, closed, writer, sent, rcvd>>
  BY DEF Fail
<1>2. DOMAIN f = {p} /\ f[p] = Out(why, c) /\ Out(why, c) \in Outs
  BY DEF Outcome, Out, Outs
<1>3. /\ CallInv'
      /\ \A d \in Chans : /\ readers[d] = {} => readers'[d] = {}
                          /\ sendq[d] = <<>> => sendq'[d] = <<>>
                          /\ recvq[d] = <<>> => recvq'[d] = <<>>
  <2> HIDE DEF f
  <2> QED
    BY <1>1, <1>2, ReturnCalls DEF ChanInv
<1>4. HandleTypes' /\ Shut' /\ Flow'
  BY <1>1, <1>3 DEF ChanInv, HandleTypes, Shut, Flow
<1>5. \A q \in Procs : ret'[q].tag = "end" => ret'[q] = ret[q]
  BY <1>1, <1>2 DEF Return, Out
<1>6. Ends'
  BY <1>1, <1>5 DEF ChanInv, Ends
<1>7. QED
  BY <1>3, <1>4, <1>6 DEF ChanInv

\* The values received and those in the line, after the first of the line is taken.
LEMMA TakeFirst ==
  ASSUME NEW S, NEW r \in Seq(S), NEW l \in Seq(S), l # <<>>
  PROVE  /\ Append(r, Head(l)) \o Tail(l) = r \o l
         /\ Append(r, Head(l)) \in Seq(S)
         /\ Tail(l) \in Seq(S) /\ Len(Tail(l)) = Len(l) - 1
<1>1. /\ Head(l) \in S /\ Tail(l) \in Seq(S) /\ Len(Tail(l)) = Len(l) - 1 /\ Len(l) > 0
      /\ Head(l) = l[1] /\ \A i \in 1..(Len(l) - 1) : Tail(l)[i] = l[i + 1]
  OBVIOUS
<1>2. /\ Append(r, Head(l)) \in Seq(S) /\ Len(Append(r, Head(l))) = Len(r) + 1
      /\ Append(r, Head(l))[Len(r) + 1] = Head(l)
      /\ \A i \in 1..Len(r) : Append(r, Head(l))[i] = r[i]
  BY <1>1
<1> DEFINE a == Append(r, Head(l))
           t == Tail(l)
<1>3. a \in Seq(S) /\ t \in Seq(S)
  BY <1>1, <1>2
<1>4. /\ a \o t \in Seq(S) /\ r \o l \in Seq(S)
      /\ Len(a \o t) = Len(a) + Len(t) /\ Len(r \o l) = Len(r) + Len(l)
      /\ \A i \in 1..Len(a \o t) : (a \o t)[i] = IF i <= Len(a) THEN a[i] ELSE t[i - Len(a)]
      /\ \A i \in 1..Len(r \o l) : (r \o l)[i] = IF i <= Len(r) THEN r[i] ELSE l[i - Len(r)]
  <2> HIDE DEF a, t
  <2> QED
    BY <1>3, ConcatProperties
<1>5. Len(a \o t) = Len(r \o l)
  BY <1>1, <1>2, <1>4
<1>6. ASSUME NEW i \in 1..Len(r \o l) PROVE (a \o t)[i] = (r \o l)[i]
  <2>1. i \in Nat /\ Len(r) \in Nat /\ Len(l) \in Nat /\ i <= Len(r) + Len(l) /\ i >= 1
    BY <1>4
  <2>2. CASE i <= Len(r)
    BY <1>2, <1>4, <1>5, <2>1, <2>2
  <2>3. CASE i = Len(r) + 1
    BY <1>1, <1>2, <1>4, <1>5, <2>1, <2>3
  <2>4. CASE i > Len(r) + 1
    <3>1. (a \o t)[i] = t[i - (Len(r) + 1)]
      BY <1>2, <1>4, <1>5, <2>1, <2>4
    <3>2. i - (Len(r) + 1) \in 1..(Len(l) - 1)
      BY <2>1, <2>4
    <3>3. t[i - (Len(r) + 1)] = l[(i - (Len(r) + 1)) + 1]
      BY <1>1, <3>2
    <3>4. (r \o l)[i] = l[i - Len(r)] /\ (i - (Len(r) + 1)) + 1 = i - Len(r)
      BY <1>4, <2>1, <2>4
    <3>5. QED
      BY <3>1, <3>3, <3>4
  <2>5. QED
    BY <2>1, <2>2, <2>3, <2>4
<1>7. a \o t = r \o l
  <2> HIDE DEF a, t
  <2> QED
    BY <1>4, <1>5, <1>6, SeqEqual
<1>8. QED
  BY <1>1, <1>2, <1>7

\* A value that joins the line.
LEMMA JoinLine ==
  \A r, b \in Seq(Vals), v \in Vals :
    /\ Append(r \o b, v) = r \o Append(b, v)
    /\ Append(b, v) \in Seq(Vals) /\ Append(r \o b, v) \in Seq(Vals)
    /\ Len(Append(b, v)) = Len(b) + 1
OBVIOUS

\* An empty buffer adds nothing to what was received.
LEMMA NothingBuffered ==
  ASSUME NEW S, NEW r \in Seq(S)
  PROVE  r \o <<>> = r
OBVIOUS

\* What the outcomes of two goroutines are.
LEMMA OutcomeFacts ==
  ASSUME NEW p \in Procs, NEW q \in Procs, NEW o, NEW oq
  PROVE  /\ DOMAIN Outcome(p, o) = {p} /\ Outcome(p, o)[p] = o
         /\ DOMAIN Outcomes(p, o, q, oq) = {p, q}
         /\ \A x \in {p, q} : Outcomes(p, o, q, oq)[x] \in {o, oq}
BY DEF Outcome, Outcomes

\* A send that meets a waiting receiver or finds room.
LEMMA GoSendInv ==
  ASSUME ChanInv, NEW p \in Procs, NEW c \in Chans, c \in op[p].to, at[p] \in {"rlock", "chan"},
         GoSend(p, c)
  PROVE  ChanInv'
<1> DEFINE v == op[p].val
<1>1. v \in Vals
  BY OpFacts DEF ChanInv, CallInv, CallTypes, Placed
<1>t. buf[c] \in Seq(Vals) /\ sent[c] \in Seq(Vals) /\ rcvd[c] \in Seq(Vals) /\ Cap[c] \in Nat
  BY ChannelAssumption DEF ChanInv, HandleTypes
<1>2. ~closed[c] /\ UNCHANGED <<closed, writer>> /\ sent' = [sent EXCEPT ![c] = Append(@, v)]
  BY DEF GoSend
<1>3. Out("sent", c) \in Outs /\ Out("got", c) \in Outs
      /\ Out("sent", c).tag # "end" /\ Out("got", c).tag # "end"
  BY DEF Out, Outs, Tags
<1>4. CASE /\ recvq[c] # <<>>
           /\ Return(Outcomes(p, Out("sent", c), Head(recvq[c]), Out("got", c)))
           /\ rcvd' = [rcvd EXCEPT ![c] = Append(@, v)]
           /\ UNCHANGED buf
  <2> DEFINE q == Head(recvq[c])
             f == Outcomes(p, Out("sent", c), q, Out("got", c))
  <2>1. recvq[c] \in Seq(Procs) /\ q \in Procs
    BY <1>4 DEF ChanInv, CallInv, CallTypes
  <2>2. DOMAIN f = {p, q} /\ \A x \in {p, q} : f[x] \in Outs /\ f[x].tag # "end"
    BY <1>3, <2>1 DEF Outcomes
  <2> HIDE DEF f
  <2>3. /\ CallInv'
        /\ \A d \in Chans : /\ readers[d] = {} => readers'[d] = {}
                            /\ sendq[d] = <<>> => sendq'[d] = <<>>
                            /\ recvq[d] = <<>> => recvq'[d] = <<>>
    BY <1>4, <2>1, <2>2, ReturnCalls DEF ChanInv, f
  <2>4. HandleTypes'
    BY <1>1, <1>t, <1>2, <1>4 DEF ChanInv, HandleTypes
  <2>5. Shut'
    BY <1>2, <2>3 DEF ChanInv, Shut
  <2>6. Flow'
    <3>1. buf[c] = <<>> /\ sent[c] = rcvd[c] \o buf[c]
      BY <1>4 DEF ChanInv, Flow
    <3>2. sent[c] = rcvd[c]
      BY <1>t, <3>1, NothingBuffered
    <3>3. Append(rcvd[c], v) \o <<>> = Append(rcvd[c], v)
      BY <1>1, <1>t, NothingBuffered
    <3>4. sent'[c] = rcvd'[c] \o buf'[c]
      BY <1>2, <1>4, <3>1, <3>2, <3>3 DEF ChanInv, HandleTypes
    <3>5. \A d \in Chans : d # c => sent'[d] = sent[d] /\ rcvd'[d] = rcvd[d]
      BY <1>2, <1>4 DEF ChanInv, HandleTypes
    <3>6. QED
      BY <1>4, <2>3, <3>4, <3>5 DEF ChanInv, Flow
  <2>7. Ends'
    <3>1. \A x \in Procs : ret'[x].tag = "end" => ret'[x] = ret[x]
      BY <1>4, <2>2 DEF Return, f
    <3>2. QED
      BY <1>2, <1>4, <3>1 DEF ChanInv, Ends
  <2>8. QED
    BY <2>3, <2>4, <2>5, <2>6, <2>7 DEF ChanInv
<1>5. CASE /\ recvq[c] = <<>>
           /\ Return(Outcome(p, Out("sent", c)))
           /\ buf' = [buf EXCEPT ![c] = Append(@, v)]
           /\ UNCHANGED rcvd
  <2> DEFINE f == Outcome(p, Out("sent", c))
  <2>1. DOMAIN f = {p} /\ f[p] = Out("sent", c)
    BY OutcomeFacts
  <2> HIDE DEF f
  <2>2. /\ CallInv'
        /\ \A d \in Chans : /\ readers[d] = {} => readers'[d] = {}
                            /\ sendq[d] = <<>> => sendq'[d] = <<>>
                            /\ recvq[d] = <<>> => recvq'[d] = <<>>
    BY <1>3, <1>5, <2>1, ReturnCalls DEF ChanInv, f
  <2>3. HandleTypes'
    BY <1>1, <1>t, <1>2, <1>5 DEF ChanInv, HandleTypes
  <2>4. Shut'
    BY <1>2, <2>2 DEF ChanInv, Shut
  <2>5. Flow'
    <3>1. Len(buf[c]) < Cap[c]
      BY <1>2, <1>5 DEF GoSend, CanSend
    <3>2. sent[c] = rcvd[c] \o buf[c]
      BY DEF ChanInv, Flow
    <3>3. sent'[c] = Append(sent[c], v) /\ buf'[c] = Append(buf[c], v) /\ rcvd'[c] = rcvd[c]
      BY <1>2, <1>5 DEF ChanInv, HandleTypes
    <3>4. sent'[c] = rcvd'[c] \o buf'[c] /\ Len(buf'[c]) <= Cap[c]
      <4>1. /\ Append(rcvd[c] \o buf[c], v) = rcvd[c] \o Append(buf[c], v)
            /\ Len(Append(buf[c], v)) = Len(buf[c]) + 1
        <5> HIDE DEF v
        <5> QED
          BY <1>1, <1>t, JoinLine, Zenon
      <4>2. Len(buf[c]) \in Nat
        BY <1>t
      <4>3. sent'[c] = rcvd'[c] \o buf'[c]
        BY <3>2, <3>3, <4>1
      <4>4. Len(buf'[c]) = Len(buf[c]) + 1
        BY <3>3, <4>1
      <4>5. QED
        BY <1>t, <3>1, <4>2, <4>3, <4>4
    <3>5. \A d \in Chans : d # c => sent'[d] = sent[d] /\ rcvd'[d] = rcvd[d] /\ buf'[d] = buf[d]
      BY <1>2, <1>5 DEF ChanInv, HandleTypes
    <3>6. QED
      BY <1>5, <2>2, <3>4, <3>5 DEF ChanInv, Flow
  <2>6. Ends'
    <3>1. \A x \in Procs : ret'[x].tag = "end" => ret'[x] = ret[x]
      BY <1>3, <1>5, <2>1 DEF Return, f
    <3>2. \A d \in Chans : closed[d] => buf'[d] = buf[d]
      BY <1>2, <1>5 DEF ChanInv, HandleTypes
    <3>3. QED
      BY <1>2, <3>1, <3>2 DEF ChanInv, Ends
  <2>7. QED
    BY <2>2, <2>3, <2>4, <2>5, <2>6 DEF ChanInv
<1>6. QED
  BY <1>4, <1>5 DEF GoSend

\* A receive that finds a value, a parked sender or the end.
LEMMA GoRecvInv ==
  ASSUME ChanInv, NEW p \in Procs, NEW c \in Chans, at[p] = "chan", GoRecv(p, c)
  PROVE  ChanInv'
<1> DEFINE q == Head(sendq[c])
           line == IF sendq[c] = <<>> THEN buf[c] ELSE Append(buf[c], op[q].val)
<1>t. /\ buf[c] \in Seq(Vals) /\ sent[c] \in Seq(Vals) /\ rcvd[c] \in Seq(Vals) /\ Cap[c] \in Nat
      /\ sendq[c] \in Seq(Procs)
  BY ChannelAssumption DEF ChanInv, HandleTypes, CallInv, CallTypes
<1>1. UNCHANGED <<closed, writer>> /\ CanRecv(c)
  BY DEF GoRecv
<1>2. \A tag \in {"end", "got", "sent"} : Out(tag, c) \in Outs /\ Out(tag, c).tag = tag /\ Out(tag, c).ch = c
  BY DEF Out, Outs, Tags
<1>3. CASE line = <<>> /\ Return(Outcome(p, Out("end", c))) /\ UNCHANGED <<buf, sent, rcvd>>
  <2>1. sendq[c] = <<>> /\ buf[c] = <<>>
    BY <1>3, <1>t
  <2>2. closed[c]
    BY <1>1, <2>1 DEF CanRecv
  <2> DEFINE f == Outcome(p, Out("end", c))
  <2>3. DOMAIN f = {p} /\ f[p] = Out("end", c)
    BY OutcomeFacts
  <2> HIDE DEF f
  <2>4. /\ CallInv'
        /\ \A d \in Chans : /\ readers[d] = {} => readers'[d] = {}
                            /\ sendq[d] = <<>> => sendq'[d] = <<>>
                            /\ recvq[d] = <<>> => recvq'[d] = <<>>
    BY <1>2, <1>3, <2>3, ReturnCalls DEF ChanInv, f
  <2>5. HandleTypes' /\ Shut' /\ Flow'
    BY <1>1, <1>3, <2>4 DEF ChanInv, HandleTypes, Shut, Flow
  <2>6. \A x \in Procs : ret'[x] = ret[x] \/ ret'[x] = Out("end", c)
    BY <1>3, <2>3 DEF Return, f
  <2>7. Ends'
    BY <1>1, <1>2, <1>3, <2>1, <2>2, <2>6 DEF ChanInv, Ends
  <2>8. QED
    BY <2>4, <2>5, <2>7 DEF ChanInv
<1>4. CASE /\ line # <<>>
           /\ buf' = [buf EXCEPT ![c] = Tail(line)]
           /\ rcvd' = [rcvd EXCEPT ![c] = Append(@, Head(line))]
           /\ sendq[c] = <<>> /\ Return(Outcome(p, Out("got", c))) /\ UNCHANGED sent
  <2>1. line = buf[c]
    BY <1>4
  <2> DEFINE f == Outcome(p, Out("got", c))
  <2>2. DOMAIN f = {p} /\ f[p] = Out("got", c)
    BY OutcomeFacts
  <2> HIDE DEF f
  <2>3. /\ CallInv'
        /\ \A d \in Chans : /\ readers[d] = {} => readers'[d] = {}
                            /\ sendq[d] = <<>> => sendq'[d] = <<>>
                            /\ recvq[d] = <<>> => recvq'[d] = <<>>
    BY <1>2, <1>4, <2>2, ReturnCalls DEF ChanInv, f
  <2>4. /\ Append(rcvd[c], Head(line)) \o Tail(line) = rcvd[c] \o line
        /\ Append(rcvd[c], Head(line)) \in Seq(Vals)
        /\ Tail(line) \in Seq(Vals) /\ Len(Tail(line)) = Len(line) - 1
    <3>1. line \in Seq(Vals) /\ line # <<>>
      BY <1>t, <1>4, <2>1
    <3> HIDE DEF line
    <3>2. QED
      BY <1>t, <3>1, TakeFirst
  <2>5. HandleTypes'
    BY <1>1, <1>4, <2>4 DEF ChanInv, HandleTypes
  <2>6. Shut'
    BY <1>1, <2>3 DEF ChanInv, Shut
  <2>7. Flow'
    <3>1. Len(buf[c]) <= Cap[c] /\ sent[c] = rcvd[c] \o buf[c] /\ recvq[c] = <<>>
      BY <1>4, <2>1 DEF ChanInv, Flow
    <3>2. buf'[c] = Tail(line) /\ rcvd'[c] = Append(rcvd[c], Head(line)) /\ sent'[c] = sent[c]
      BY <1>4 DEF ChanInv, HandleTypes
    <3>3. sent'[c] = rcvd'[c] \o buf'[c]
      BY <2>1, <2>4, <3>1, <3>2
    <3>4. Len(buf'[c]) <= Cap[c]
      BY <1>t, <2>1, <2>4, <3>1, <3>2
    <3>5. \A d \in Chans : d # c => sent'[d] = sent[d] /\ rcvd'[d] = rcvd[d] /\ buf'[d] = buf[d]
      BY <1>4 DEF ChanInv, HandleTypes
    <3>6. QED
      BY <2>3, <3>1, <3>3, <3>4, <3>5 DEF ChanInv, Flow
  <2>8. Ends'
    <3>1. \A x \in Procs : ret'[x].tag = "end" => ret'[x] = ret[x]
      BY <1>2, <1>4, <2>2 DEF Return, f
    <3>2. \A d \in Chans : buf[d] = <<>> => buf'[d] = buf[d]
      BY <1>4, <2>1 DEF ChanInv, HandleTypes
    <3>3. QED
      BY <1>1, <3>1, <3>2 DEF ChanInv, Ends
  <2>9. QED
    BY <2>3, <2>5, <2>6, <2>7, <2>8 DEF ChanInv
<1>5. CASE /\ line # <<>>
           /\ buf' = [buf EXCEPT ![c] = Tail(line)]
           /\ rcvd' = [rcvd EXCEPT ![c] = Append(@, Head(line))]
           /\ sendq[c] # <<>> /\ Return(Outcomes(p, Out("got", c), q, Out("sent", c)))
           /\ sent' = [sent EXCEPT ![c] = Append(@, op[q].val)]
  <2>1. q \in Procs /\ \E i \in DOMAIN sendq[c] : sendq[c][i] = q
    BY <1>5, <1>t
  <2>2. at[q] = "parked" /\ c \in op[q].to /\ op[q].name # "close" /\ op[q] \in Ops \cup {NoOp}
    BY <2>1 DEF ChanInv, CallInv, CallTypes, Queued, Placed
  <2>3. op[q].val \in Vals
    BY <2>2, OpFacts
  <2>4. ~closed[c]
    BY <1>5 DEF ChanInv, HandleTypes, Shut
  <2>5. /\ line = Append(buf[c], op[q].val) /\ line \in Seq(Vals) /\ Len(line) = Len(buf[c]) + 1
        /\ Append(rcvd[c] \o buf[c], op[q].val) = rcvd[c] \o line
        /\ Append(rcvd[c] \o buf[c], op[q].val) \in Seq(Vals)
    <3>1. line = Append(buf[c], op[q].val)
      BY <1>5
    <3>2. /\ Append(rcvd[c] \o buf[c], op[q].val) = rcvd[c] \o Append(buf[c], op[q].val)
          /\ Append(buf[c], op[q].val) \in Seq(Vals)
          /\ Append(rcvd[c] \o buf[c], op[q].val) \in Seq(Vals)
          /\ Len(Append(buf[c], op[q].val)) = Len(buf[c]) + 1
      <4> HIDE DEF q
      <4> QED
        BY <1>t, <2>3, JoinLine, Zenon
    <3> HIDE DEF line
    <3>3. QED
      BY <3>1, <3>2
  <2>6. /\ Append(rcvd[c], Head(line)) \o Tail(line) = rcvd[c] \o line
        /\ Append(rcvd[c], Head(line)) \in Seq(Vals)
        /\ Tail(line) \in Seq(Vals) /\ Len(Tail(line)) = Len(line) - 1
    <3>1. line \in Seq(Vals) /\ line # <<>>
      BY <1>5, <2>5
    <3> HIDE DEF line
    <3>2. QED
      BY <1>t, <3>1, TakeFirst
  <2> DEFINE f == Outcomes(p, Out("got", c), q, Out("sent", c))
  <2>7. DOMAIN f = {p, q} /\ \A x \in {p, q} : f[x] \in Outs /\ f[x].tag # "end"
    BY <1>2, <2>1 DEF Outcomes
  <2> HIDE DEF f, line, q
  <2>8. /\ CallInv'
        /\ \A d \in Chans : /\ readers[d] = {} => readers'[d] = {}
                            /\ sendq[d] = <<>> => sendq'[d] = <<>>
                            /\ recvq[d] = <<>> => recvq'[d] = <<>>
    BY <1>5, <2>1, <2>7, ReturnCalls DEF ChanInv, f
  <2>9. /\ buf'[c] = Tail(line) /\ rcvd'[c] = Append(rcvd[c], Head(line))
        /\ sent'[c] = Append(sent[c], op[q].val)
        /\ \A d \in Chans : d # c => sent'[d] = sent[d] /\ rcvd'[d] = rcvd[d] /\ buf'[d] = buf[d]
    BY <1>5 DEF ChanInv, HandleTypes
  <2>10. HandleTypes'
    <3>1. Append(sent[c], op[q].val) \in Seq(Vals)
      BY <1>t, <2>3
    <3>2. QED
      BY <1>1, <1>5, <2>6, <3>1 DEF ChanInv, HandleTypes
  <2>11. Shut'
    BY <1>1, <2>8 DEF ChanInv, Shut
  <2>12. Flow'
    <3>1. Len(buf[c]) <= Cap[c] /\ sent[c] = rcvd[c] \o buf[c] /\ (recvq[c] # <<>> => buf[c] = <<>>)
      BY DEF ChanInv, Flow
    <3>2. sent'[c] = rcvd'[c] \o buf'[c]
      BY <2>5, <2>6, <2>9, <3>1
    <3>3. Len(buf'[c]) = Len(buf[c])
      BY <1>t, <2>5, <2>6, <2>9
    <3>4. Len(buf'[c]) <= Cap[c]
      BY <3>1, <3>3
    <3>5. recvq'[c] # <<>> => buf'[c] = <<>>
      <4>1. buf[c] = <<>> => Len(buf'[c]) = 0
        BY <3>3
      <4>2. buf'[c] \in Seq(Vals)
        BY <2>6, <2>9
      <4>3. QED
        BY <2>8, <3>1, <4>1, <4>2, EmptySeq
    <3>6. QED
      BY <2>8, <2>9, <3>2, <3>4, <3>5 DEF ChanInv, Flow
  <2>13. Ends'
    <3>1. \A x \in Procs : ret'[x].tag = "end" => ret'[x] = ret[x]
      BY <1>5, <2>7 DEF Return, f
    <3>2. \A d \in Chans : closed[d] => buf'[d] = buf[d]
      BY <2>4, <2>9
    <3>3. QED
      BY <1>1, <3>1, <3>2 DEF ChanInv, Ends
  <2>14. QED
    BY <2>8, <2>10, <2>11, <2>12, <2>13 DEF ChanInv
<1>6. QED
  BY <1>3, <1>4, <1>5 DEF GoRecv

\* The members of a queue that one more goroutine has joined.
LEMMA JoinQueue ==
  ASSUME NEW q \in Seq(Procs), NEW p \in Procs
  PROVE  /\ Append(q, p) \in Seq(Procs)
         /\ \A j \in DOMAIN Append(q, p) :
              \/ j \in DOMAIN q /\ Append(q, p)[j] = q[j] /\ q[j] \in Procs
              \/ Append(q, p)[j] = p
OBVIOUS

\* The members of the queues are goroutines.
LEMMA QueueMembers ==
  ASSUME CallTypes, NEW c \in Chans
  PROVE  /\ \A i \in DOMAIN sendq[c] : sendq[c][i] \in Procs
         /\ \A i \in DOMAIN recvq[c] : recvq[c][i] \in Procs
<1>1. sendq[c] \in Seq(Procs) /\ recvq[c] \in Seq(Procs)
  BY DEF CallTypes
<1>2. QED
  BY <1>1, ElementOfSeq

\* A goroutine that blocks joins the queues of channels on which nothing is ready.
LEMMA ParkInv ==
  ASSUME ChanInv, NEW p \in Procs, at[p] = "chan", Park(p)
  PROVE  ChanInv'
<1>1. /\ UNCHANGED <<buf, closed, readers, writer, op, ret, sent, rcvd, todo>>
      /\ at' = [at EXCEPT ![p] = "parked"]
      /\ op[p] \in Ops \cup {NoOp} /\ op[p] # NoOp
  BY DEF Park, ChanInv, CallInv, CallTypes, Placed
<1>2. \A c \in Chans : /\ sendq[c] \in Seq(Procs) /\ recvq[c] \in Seq(Procs)
                       /\ sendq'[c] = IF c \in op[p].to THEN Append(sendq[c], p) ELSE sendq[c]
                       /\ recvq'[c] = IF c \in op[p].from THEN Append(recvq[c], p) ELSE recvq[c]
  BY DEF Park, ChanInv, CallInv, CallTypes
<1>3. \A c \in Chans : /\ c \in op[p].to => ~closed[c]
                       /\ c \in op[p].from => ~closed[c] /\ buf[c] = <<>>
  BY DEF Park, NoneReady, CanSend, CanRecv
<1>4. CallTypes'
  <2>1. \A c \in Chans : Append(sendq[c], p) \in Seq(Procs) /\ Append(recvq[c], p) \in Seq(Procs)
    BY <1>2
  <2>2. sendq' \in [Chans -> Seq(Procs)] /\ recvq' \in [Chans -> Seq(Procs)]
    BY <1>2, <2>1 DEF Park
  <2>3. QED
    BY <1>1, <2>2 DEF ChanInv, CallInv, CallTypes, Labels
<1>5. Placed' /\ Inside'
  BY <1>1 DEF ChanInv, CallInv, CallTypes, Placed, Inside, Sending
<1>6. Queued'
  <2>1. ASSUME NEW c \in Chans, NEW j \in DOMAIN sendq'[c]
        PROVE  at'[sendq'[c][j]] = "parked" /\ c \in op'[sendq'[c][j]].to
    <3>1. \/ j \in DOMAIN sendq[c] /\ sendq'[c][j] = sendq[c][j] /\ sendq[c][j] \in Procs
          \/ c \in op[p].to /\ sendq'[c][j] = p
      <4>1. CASE c \in op[p].to
        <5>1. sendq[c] \in Seq(Procs) /\ sendq'[c] = Append(sendq[c], p)
          BY <1>2, <4>1
        <5>2. j \in DOMAIN Append(sendq[c], p)
          BY <5>1
        <5>3. \/ j \in DOMAIN sendq[c] /\ Append(sendq[c], p)[j] = sendq[c][j] /\ sendq[c][j] \in Procs
              \/ Append(sendq[c], p)[j] = p
          BY <5>1, <5>2, JoinQueue
        <5>4. QED
          BY <4>1, <5>1, <5>3
      <4>2. CASE c \notin op[p].to
        <5>1. sendq'[c] = sendq[c]
          BY <1>2, <4>2
        <5>2. QED
          BY <5>1, QueueMembers DEF ChanInv, CallInv
      <4>3. QED
        BY <4>1, <4>2
    <3>2. \A x \in Procs : (at[x] = "parked" \/ x = p) => at'[x] = "parked" /\ op'[x] = op[x]
      BY <1>1 DEF ChanInv, CallInv, CallTypes
    <3>3. j \in DOMAIN sendq[c] => at[sendq[c][j]] = "parked" /\ c \in op[sendq[c][j]].to
      BY DEF ChanInv, CallInv, Queued
    <3>4. QED
      BY <3>1, <3>2, <3>3
  <2>2. ASSUME NEW c \in Chans, NEW j \in DOMAIN recvq'[c]
        PROVE  at'[recvq'[c][j]] = "parked" /\ c \in op'[recvq'[c][j]].from
    <3>1. \/ j \in DOMAIN recvq[c] /\ recvq'[c][j] = recvq[c][j] /\ recvq[c][j] \in Procs
          \/ c \in op[p].from /\ recvq'[c][j] = p
      <4>1. CASE c \in op[p].from
        <5>1. recvq[c] \in Seq(Procs) /\ recvq'[c] = Append(recvq[c], p)
          BY <1>2, <4>1
        <5>2. j \in DOMAIN Append(recvq[c], p)
          BY <5>1
        <5>3. \/ j \in DOMAIN recvq[c] /\ Append(recvq[c], p)[j] = recvq[c][j] /\ recvq[c][j] \in Procs
              \/ Append(recvq[c], p)[j] = p
          BY <5>1, <5>2, JoinQueue
        <5>4. QED
          BY <4>1, <5>1, <5>3
      <4>2. CASE c \notin op[p].from
        <5>1. recvq'[c] = recvq[c]
          BY <1>2, <4>2
        <5>2. QED
          BY <5>1, QueueMembers DEF ChanInv, CallInv
      <4>3. QED
        BY <4>1, <4>2
    <3>2. \A x \in Procs : (at[x] = "parked" \/ x = p) => at'[x] = "parked" /\ op'[x] = op[x]
      BY <1>1 DEF ChanInv, CallInv, CallTypes
    <3>3. j \in DOMAIN recvq[c] => at[recvq[c][j]] = "parked" /\ c \in op[recvq[c][j]].from
      BY DEF ChanInv, CallInv, Queued
    <3>4. QED
      BY <3>1, <3>2, <3>3
  <2>3. QED
    BY <2>1, <2>2 DEF Queued
<1>7. HandleTypes' /\ Ends'
  BY <1>1 DEF ChanInv, HandleTypes, Ends
<1>8. Shut' /\ Flow'
  BY <1>1, <1>2, <1>3 DEF ChanInv, Shut, Flow
<1>9. QED
  BY <1>4, <1>5, <1>6, <1>7, <1>8 DEF ChanInv, CallInv

\* sendChannel enters the channel under the read lock, if it is open.
LEMMA SendRLockInv ==
  ASSUME ChanInv, NEW p \in Procs, SendRLock(p)
  PROVE  ChanInv'
<1>1. PICK c \in op[p].to :
        /\ writer[c] = NoProc
        /\ \/ /\ closed[c]
              /\ Fail(p, c, "closedErr")
           \/ /\ ~closed[c]
              /\ readers' = [readers EXCEPT ![c] = @ \cup {p}]
              /\ at' = [at EXCEPT ![p] = "chan"]
              /\ UNCHANGED <<buf, closed, writer, sendq, recvq, op, ret, sent, rcvd, todo>>
  BY DEF SendRLock
<1>2. at[p] = "rlock" /\ op[p].name = "send" /\ op[p].to = {c} /\ c \in Chans /\ op[p] # NoOp
  BY <1>1, OpFacts DEF SendRLock, ChanInv, CallInv, CallTypes, Placed
<1>3. CASE Fail(p, c, "closedErr")
  BY <1>2, <1>3, FailInv DEF Tags
<1>4. CASE /\ ~closed[c]
           /\ readers' = [readers EXCEPT ![c] = @ \cup {p}]
           /\ at' = [at EXCEPT ![p] = "chan"]
           /\ UNCHANGED <<buf, closed, writer, sendq, recvq, op, ret, sent, rcvd, todo>>
  <2>1. CallTypes' /\ Placed'
    BY <1>2, <1>4 DEF ChanInv, CallInv, CallTypes, Placed, Labels
  <2>2. Inside'
    BY <1>2, <1>4 DEF ChanInv, CallInv, CallTypes, Inside, Sending
  <2>3. Queued'
    <3>2. \A x \in Procs : at[x] = "parked" => at'[x] = "parked"
      BY <1>2, <1>4 DEF ChanInv, CallInv, CallTypes
    <3>3. \A d \in Chans : /\ \A i \in DOMAIN sendq[d] : sendq[d][i] \in Procs
                           /\ \A i \in DOMAIN recvq[d] : recvq[d][i] \in Procs
      BY QueueMembers DEF ChanInv, CallInv
    <3>4. Queued /\ UNCHANGED <<sendq, recvq, op>>
      BY <1>4 DEF ChanInv, CallInv
    <3>5. QED
      BY <3>2, <3>3, <3>4 DEF Queued
  <2>4. HandleTypes' /\ Shut' /\ Flow' /\ Ends'
    BY <1>2, <1>4 DEF ChanInv, CallInv, CallTypes, HandleTypes, Shut, Flow, Ends
  <2>5. QED
    BY <2>1, <2>2, <2>3, <2>4 DEF ChanInv, CallInv
<1>5. QED
  BY <1>1, <1>3, <1>4

\* A step of a goroutine that changes nothing but its own place.
LEMMA MoveInv ==
  ASSUME ChanInv, NEW p \in Procs, NEW l \in Labels, NEW o \in Ops,
         at[p] \notin {"parked", "chan"}, l \notin {"idle", "parked"},
         at' = [at EXCEPT ![p] = l], op' = [op EXCEPT ![p] = o],
         l = "rlock" => o.name \in {"send", "trySend"},
         l \in {"lock", "drain"} => o.name = "close",
         l = "chan" => o.name \notin {"send", "trySend", "close"},
         todo' \in [Procs -> Seq(Ops)], writer' \in [Chans -> Procs \cup {NoProc}],
         UNCHANGED <<buf, closed, readers, sendq, recvq, ret, sent, rcvd>>
  PROVE  ChanInv'
<1>1. CallTypes'
  BY DEF ChanInv, CallInv, CallTypes
<1>2. o # NoOp
  BY DEF Ops, NoOp, Op
<1>3. Placed'
  BY <1>2 DEF ChanInv, CallInv, CallTypes, Placed
<1>4. Inside'
  BY DEF ChanInv, CallInv, CallTypes, Placed, Inside, Sending
<1>5. Queued'
  <2>1. \A x \in Procs : at[x] = "parked" => at'[x] = "parked" /\ op'[x] = op[x]
    BY DEF ChanInv, CallInv, CallTypes
  <2>3. \A d \in Chans : /\ \A i \in DOMAIN sendq[d] : sendq[d][i] \in Procs
                         /\ \A i \in DOMAIN recvq[d] : recvq[d][i] \in Procs
    BY QueueMembers DEF ChanInv, CallInv
  <2>4. QED
    BY <2>1, <2>3 DEF ChanInv, CallInv, Queued
<1>6. HandleTypes' /\ Shut' /\ Flow' /\ Ends'
  BY DEF ChanInv, HandleTypes, Shut, Flow, Ends
<1>7. QED
  BY <1>1, <1>3, <1>4, <1>5, <1>6 DEF ChanInv, CallInv

\* Who is woken by close, and with what: no sender is inside the channel.
LEMMA WokenFacts ==
  ASSUME ChanInv, NEW p \in Procs, NEW c \in Chans, readers[c] = {}
  PROVE  /\ DOMAIN Woken(p, c) \subseteq Procs
         /\ \A x \in DOMAIN Woken(p, c) :
              /\ Woken(p, c)[x] \in Outs
              /\ Woken(p, c)[x].tag = "end" => Woken(p, c)[x].ch = c /\ recvq[c] # <<>>
         /\ \A i \in DOMAIN sendq[c] : sendq[c][i] \in DOMAIN Woken(p, c)
         /\ \A i \in DOMAIN recvq[c] : recvq[c][i] \in DOMAIN Woken(p, c)
<1> DEFINE rs == {q \in Procs : \E i \in DOMAIN recvq[c] : recvq[c][i] = q}
           ss == {q \in Procs : \E i \in DOMAIN sendq[c] : sendq[c][i] = q}
           lost(q) == Out(IF op[q].name = "send" THEN "panic" ELSE "closedErr", c)
<1>1. /\ \A i \in DOMAIN sendq[c] : sendq[c][i] \in Procs
      /\ \A i \in DOMAIN recvq[c] : recvq[c][i] \in Procs
  BY QueueMembers DEF ChanInv, CallInv
<1>2. Woken(p, c) = [q \in {p} \cup rs \cup ss |->
                      IF q = p THEN Out("closed", c) ELSE IF q \in rs THEN Out("end", c) ELSE lost(q)]
  BY DEF Woken
<1>3. \A q \in ss : lost(q) = Out("closedErr", c)
  <2> SUFFICES ASSUME NEW q \in ss PROVE op[q].name # "send"
    OBVIOUS
  <2>1. at[q] = "parked" /\ c \in op[q].to
    BY DEF ChanInv, CallInv, Queued
  <2>2. q \notin readers[c]
    OBVIOUS
  <2>3. QED
    BY <2>1, <2>2 DEF ChanInv, CallInv, Inside, Sending
<1>4. rs # {} => recvq[c] # <<>>
  OBVIOUS
<1>5. \A tag \in {"closed", "end", "closedErr"} :
        Out(tag, c) \in Outs /\ Out(tag, c).tag = tag /\ Out(tag, c).ch = c
  BY DEF Out, Outs, Tags
<1> HIDE DEF rs, lost
<1>6. DOMAIN Woken(p, c) = {p} \cup rs \cup ss
  BY <1>2
<1>7. \A x \in DOMAIN Woken(p, c) :
        Woken(p, c)[x] \in {Out("closed", c), Out("closedErr", c)} \/ (x \in rs /\ Woken(p, c)[x] = Out("end", c))
  <2> HIDE DEF ss
  <2> QED
    BY <1>2, <1>3, <1>6
<1>8. \A x \in DOMAIN Woken(p, c) :
        /\ Woken(p, c)[x] \in Outs
        /\ Woken(p, c)[x].tag = "end" => Woken(p, c)[x].ch = c /\ recvq[c] # <<>>
  BY <1>4, <1>5, <1>7
<1>9. rs \subseteq Procs /\ ss \subseteq Procs
  BY DEF rs
<1>10. /\ \A i \in DOMAIN sendq[c] : sendq[c][i] \in ss
       /\ \A i \in DOMAIN recvq[c] : recvq[c][i] \in rs
  BY <1>1 DEF rs
<1>11. QED
  BY <1>6, <1>8, <1>9, <1>10

\* close with the write lock held.
LEMMA CloseInv ==
  ASSUME ChanInv, NEW p \in Procs, CloseChannel(p)
  PROVE  ChanInv'
<1>1. PICK c \in op[p].to :
        /\ readers[c] = {}
        /\ writer' = [writer EXCEPT ![c] = NoProc]
        /\ \/ /\ closed[c]
              /\ Return(Outcome(p, Out("closedErr", c)))
              /\ UNCHANGED closed
           \/ /\ ~closed[c]
              /\ Return(Woken(p, c))
              /\ closed' = [closed EXCEPT ![c] = TRUE]
  BY DEF CloseChannel
<1>2. c \in Chans /\ UNCHANGED <<buf, sent, rcvd>>
  BY <1>1, OpFacts DEF CloseChannel, ChanInv, CallInv, CallTypes
<1>3. CASE closed[c] /\ Return(Outcome(p, Out("closedErr", c))) /\ UNCHANGED closed
  <2> DEFINE f == Outcome(p, Out("closedErr", c))
  <2>1. DOMAIN f = {p} /\ f[p] \in Outs /\ f[p].tag # "end"
    BY <1>2 DEF Outcome, Out, Outs, Tags
  <2> HIDE DEF f
  <2>2. /\ CallInv'
        /\ \A d \in Chans : /\ readers[d] = {} => readers'[d] = {}
                            /\ sendq[d] = <<>> => sendq'[d] = <<>>
                            /\ recvq[d] = <<>> => recvq'[d] = <<>>
    BY <1>3, <2>1, ReturnCalls DEF ChanInv, f
  <2>3. HandleTypes'
    BY <1>1, <1>2, <1>3 DEF ChanInv, HandleTypes
  <2>4. Shut' /\ Flow'
    BY <1>2, <1>3, <2>2 DEF ChanInv, Shut, Flow
  <2>5. \A x \in Procs : ret'[x].tag = "end" => ret'[x] = ret[x]
    BY <1>3, <2>1 DEF Return, f
  <2>6. Ends'
    BY <1>2, <1>3, <2>5 DEF ChanInv, Ends
  <2>7. QED
    BY <2>2, <2>3, <2>4, <2>6 DEF ChanInv
<1>4. CASE ~closed[c] /\ Return(Woken(p, c)) /\ closed' = [closed EXCEPT ![c] = TRUE]
  <2> DEFINE f == Woken(p, c)
  <2>1. /\ DOMAIN f \subseteq Procs
        /\ \A x \in DOMAIN f : f[x] \in Outs /\ (f[x].tag = "end" => f[x].ch = c /\ recvq[c] # <<>>)
        /\ \A i \in DOMAIN sendq[c] : sendq[c][i] \in DOMAIN f
        /\ \A i \in DOMAIN recvq[c] : recvq[c][i] \in DOMAIN f
    BY <1>1, <1>2, WokenFacts
  <2> HIDE DEF f
  <2>2. /\ CallInv'
        /\ \A d \in Chans : /\ readers[d] = {} => readers'[d] = {}
                            /\ sendq[d] = <<>> => sendq'[d] = <<>>
                            /\ recvq[d] = <<>> => recvq'[d] = <<>>
    BY <1>4, <2>1, ReturnCalls DEF ChanInv, f
  <2>3. sendq'[c] = <<>> /\ recvq'[c] = <<>>
    <3>1. sendq[c] \in Seq(Procs) /\ recvq[c] \in Seq(Procs)
      BY <1>2 DEF ChanInv, CallInv, CallTypes
    <3>2. Leave(sendq[c], DOMAIN f) = <<>> /\ Leave(recvq[c], DOMAIN f) = <<>>
      BY <2>1, <3>1, LeaveEmpty
    <3>3. QED
      BY <1>2, <1>4, <3>2 DEF Return, f
  <2>4. HandleTypes'
    BY <1>1, <1>2, <1>4 DEF ChanInv, HandleTypes
  <2>5. \A d \in Chans : closed'[d] <=> (closed[d] \/ d = c)
    BY <1>2, <1>4 DEF ChanInv, HandleTypes
  <2>6. Shut' /\ Flow'
    BY <1>1, <1>2, <2>2, <2>3, <2>5 DEF ChanInv, Shut, Flow
  <2>7. \A x \in Procs : ret'[x].tag = "end" =>
          ret'[x] = ret[x] \/ (ret'[x].ch = c /\ recvq[c] # <<>>)
    BY <1>4, <2>1 DEF Return, f
  <2>8. recvq[c] # <<>> => buf[c] = <<>>
    BY <1>2 DEF ChanInv, Flow
  <2>9. Ends'
    BY <1>2, <2>5, <2>7, <2>8 DEF ChanInv, Ends
  <2>10. QED
    BY <2>2, <2>4, <2>6, <2>9 DEF ChanInv
<1>5. QED
  BY <1>1, <1>3, <1>4

\* A goroutine starts its next operation, or close announces itself.
LEMMA StartInv ==
  ASSUME ChanInv, NEW p \in Procs, Start(p) \/ CloseLock(p)
  PROVE  ChanInv'
<1>1. CASE Start(p)
  <2> DEFINE o == Head(todo[p])
             l == CASE o.name \in {"send", "trySend"} -> "rlock" [] o.name = "close" -> "lock" [] OTHER -> "chan"
  <2>1. todo[p] \in Seq(Ops) /\ todo[p] # <<>>
    BY <1>1 DEF Start, ChanInv, CallInv, CallTypes
  <2>2. o \in Ops /\ Tail(todo[p]) \in Seq(Ops)
    BY <2>1
  <2>3. at[p] = "idle" /\ at' = [at EXCEPT ![p] = l] /\ op' = [op EXCEPT ![p] = o]
        /\ UNCHANGED <<buf, closed, readers, writer, sendq, recvq, ret, sent, rcvd>>
    BY <1>1 DEF Start
  <2>4. todo' \in [Procs -> Seq(Ops)]
    BY <1>1, <2>2 DEF Start, ChanInv, CallInv, CallTypes
  <2>5. writer' \in [Chans -> Procs \cup {NoProc}]
    BY <2>3 DEF ChanInv, HandleTypes
  <2>6. /\ l \in {"rlock", "lock", "chan"}
        /\ l = "rlock" => o.name \in {"send", "trySend"}
        /\ l = "lock" => o.name = "close"
        /\ l = "chan" => o.name \notin {"send", "trySend", "close"}
    OBVIOUS
  <2> HIDE DEF l, o
  <2>7. QED
    BY <2>2, <2>3, <2>4, <2>5, <2>6, MoveInv DEF Labels
<1>2. CASE CloseLock(p)
  <2>1. at[p] = "lock" /\ op[p].name = "close" /\ op[p] \in Ops
    BY <1>2 DEF CloseLock, ChanInv, CallInv, CallTypes, Placed
  <2>2. writer' \in [Chans -> Procs \cup {NoProc}]
    BY <1>2 DEF CloseLock, ChanInv, HandleTypes
  <2>3. op' = [op EXCEPT ![p] = op[p]] /\ todo' \in [Procs -> Seq(Ops)]
    BY <1>2 DEF CloseLock, ChanInv, CallInv, CallTypes
  <2>4. /\ at' = [at EXCEPT ![p] = "drain"]
        /\ UNCHANGED <<buf, closed, readers, sendq, recvq, ret, sent, rcvd>>
    BY <1>2 DEF CloseLock
  <2>5. QED
    BY <2>1, <2>2, <2>3, <2>4, MoveInv DEF Labels
<1>3. QED
  BY <1>1, <1>2

\* The channels an operation names, and where its goroutine is.
LEMMA OpChans ==
  ASSUME ChanInv, NEW p \in Procs
  PROVE  op[p].to \subseteq Chans /\ op[p].from \subseteq Chans
BY OpFacts DEF ChanInv, CallInv, CallTypes

\* A sender inside a channel keeps it open.
LEMMA OpenInside ==
  ASSUME ChanInv, NEW p \in Procs, at[p] \in {"chan", "parked"}, op[p].name = "send", NEW c \in op[p].to
  PROVE  ~closed[c]
BY OpChans DEF ChanInv, CallInv, Inside, Sending, Shut

\* Every step of a goroutine keeps the invariant.
LEMMA StepInv ==
  ASSUME ChanInv, NEW p \in Procs, System(p) \/ Start(p)
  PROVE  ChanInv'
<1>0. op[p].to \subseteq Chans /\ op[p].from \subseteq Chans
  BY OpChans
<1>1. CASE SendRLock(p)
  BY <1>1, SendRLockInv
<1>2. CASE SendChannel(p)
  <2>1. at[p] = "chan" /\ op[p].name = "send"
    BY <1>2 DEF SendChannel
  <2>2. PICK c \in op[p].to : closed[c] \/ GoSend(p, c) \/ Park(p)
    BY <1>2 DEF SendChannel
  <2>3. ~closed[c]
    BY <2>1, OpenInside
  <2>4. QED
    BY <1>0, <2>1, <2>2, <2>3, GoSendInv, ParkInv
<1>3. CASE TrySendChannel(p)
  <2>1. PICK c \in op[p].to : Fail(p, c, "closedErr") \/ GoSend(p, c) \/ Fail(p, c, "full")
    BY <1>3 DEF TrySendChannel
  <2>2. QED
    BY <1>0, <1>3, <2>1, GoSendInv, FailInv DEF TrySendChannel, Tags
<1>4. CASE RecvChannel(p)
  BY <1>0, <1>4, GoRecvInv, ParkInv DEF RecvChannel
<1>5. CASE TryRecvChannel(p)
  <2>1. PICK c \in op[p].from : GoRecv(p, c) \/ Fail(p, c, "empty")
    BY <1>5 DEF TryRecvChannel
  <2>2. QED
    BY <1>0, <1>5, <2>1, GoRecvInv, FailInv DEF TryRecvChannel, Tags
<1>6. CASE CloseLock(p) \/ Start(p)
  BY <1>6, StartInv
<1>7. CASE CloseChannel(p)
  BY <1>7, CloseInv
<1>8. CASE SelectChannels(p)
  <2>0. at[p] = "chan"
    BY <1>8 DEF SelectChannels
  <2>1. CASE \E c \in op[p].to : GoSend(p, c) \/ Fail(p, c, "closedErr")
    BY <1>0, <2>0, <2>1, GoSendInv, FailInv DEF Tags
  <2>2. CASE \E c \in op[p].from : GoRecv(p, c)
    BY <1>0, <2>0, <2>2, GoRecvInv
  <2>3. CASE Park(p)
    BY <2>0, <2>3, ParkInv
  <2>4. CASE Fail(p, NoChan, "default")
    BY <2>4, FailInv DEF Tags
  <2>5. QED
    BY <1>8, <2>1, <2>2, <2>3, <2>4 DEF SelectChannels
<1>9. QED
  BY <1>1, <1>2, <1>3, <1>4, <1>5, <1>6, <1>7, <1>8 DEF System

\* The invariant holds at the start: the channels are open and empty.
LEMMA InitInv == Init => ChanInv
<1> SUFFICES ASSUME Init PROVE ChanInv
  OBVIOUS
<1>1. \A S : <<>> \in Seq(S)
  BY EmptySeq
<1>2. HandleTypes
  BY <1>1 DEF Init, HandleTypes
<1>3. CallTypes
  <2>1. readers \in [Chans -> SUBSET Procs] /\ at \in [Procs -> Labels] /\ op \in [Procs -> Ops \cup {NoOp}]
    BY DEF Init, Labels
  <2>2. sendq \in [Chans -> Seq(Procs)] /\ recvq \in [Chans -> Seq(Procs)]
    BY <1>1 DEF Init
  <2>3. ret \in [Procs -> Outs]
    BY DEF Init, Outs, Out, Tags
  <2>4. todo \in [Procs -> Seq(Ops)]
    BY ChannelAssumption DEF Init
  <2>5. QED
    BY <2>1, <2>2, <2>3, <2>4 DEF CallTypes
<1>4. Placed /\ Inside /\ Queued
  BY DEF Init, Placed, Inside, Sending, Queued, NoOp, Op
<1>5. Shut
  BY DEF Init, Shut
<1>6. Flow
  <2>1. \A c \in Chans : Cap[c] \in Nat
    BY ChannelAssumption
  <2>2. <<>> \o <<>> = <<>> /\ Len(<<>>) = 0
    OBVIOUS
  <2>3. \A c \in Chans : buf[c] = <<>> /\ sent[c] = <<>> /\ rcvd[c] = <<>>
    BY DEF Init
  <2>4. \A c \in Chans : Len(buf[c]) = 0 /\ sent[c] = rcvd[c] \o buf[c]
    BY <2>2, <2>3
  <2>5. ASSUME NEW c \in Chans PROVE Len(buf[c]) <= Cap[c]
    <3>1. Len(buf[c]) = 0 /\ Cap[c] \in Nat
      BY <2>1, <2>4
    <3> DEFINE n == Len(buf[c])
               m == Cap[c]
    <3> HIDE DEF n, m
    <3>2. n = 0 /\ m \in Nat
      BY <3>1 DEF n, m
    <3>3. n <= m
      BY <3>2
    <3>4. QED
      BY <3>3 DEF n, m
  <2>6. QED
    BY <2>3, <2>4, <2>5 DEF Flow
<1>7. Ends
  BY DEF Init, Ends, Out
<1>8. QED
  BY <1>2, <1>3, <1>4, <1>5, <1>6, <1>7 DEF ChanInv, CallInv

\* The locks, the queues, the buffers and the outcomes of the calls agree.
THEOREM ChanInvariant == Spec => []ChanInv
<1>1. ChanInv /\ [Next]_vars => ChanInv'
  <2> SUFFICES ASSUME ChanInv, [Next]_vars PROVE ChanInv'
    OBVIOUS
  <2>1. CASE UNCHANGED vars
    BY <2>1 DEF vars, ChanInv, HandleTypes, CallInv, CallTypes, Placed, Inside, Sending, Queued, Shut, Flow, Ends
  <2>2. CASE Next
    BY <2>2, StepInv DEF Next
  <2>3. QED
    BY <2>1, <2>2
<1>2. QED
  BY <1>1, InitInv, PTL DEF Spec

\* The handles' state stays well typed, the buffers within their sizes.
THEOREM ChanTypesHold == Spec => []TypeOK
<1>1. ChanInv => TypeOK
  <2> SUFFICES ASSUME ChanInv PROVE TypeOK
    OBVIOUS
  <2>1. \A c \in Chans : Len(buf[c]) <= Cap[c] /\ readers[c] \subseteq {p \in Procs : op[p].name = "send"}
    BY DEF ChanInv, CallInv, CallTypes, Inside, Sending, Flow
  <2>2. \A p \in Procs : (at[p] = "idle") <=> (op[p] = NoOp)
    BY DEF ChanInv, CallInv, Placed
  <2>3. QED
    BY <2>1, <2>2 DEF ChanInv, HandleTypes, CallInv, CallTypes, Labels, TypeOK
<1>2. QED
  BY <1>1, ChanInvariant, PTL

\* send and trySend never panic: close waits until no sender is inside the channel,
\* and a sender enters only an open one.
THEOREM NoSendPanicHolds == Spec => []NoSendPanic
<1>1. ChanInv => NoSendPanic
  <2> SUFFICES ASSUME ChanInv, NEW p \in Procs
               PROVE  /\ ret[p].tag # "panic"
                      /\ op[p].name = "send" /\ at[p] \in {"chan", "parked"} => \A c \in op[p].to : ~closed[c]
    BY DEF NoSendPanic
  <2>1. ret[p] \in Outs
    BY DEF ChanInv, CallInv, CallTypes
  <2>2. ret[p].tag # "panic"
    BY <2>1 DEF Outs, Tags
  <2>3. QED
    BY <2>2, OpenInside
<1>2. QED
  BY <1>1, ChanInvariant, PTL

\* A null from recv means that every value sent has been received.
THEOREM EndIsFinalHolds == Spec => []EndIsFinal
<1>1. ChanInv => EndIsFinal
  <2> SUFFICES ASSUME ChanInv, NEW p \in Procs, ret[p].tag = "end"
               PROVE  closed[ret[p].ch] /\ sent[ret[p].ch] = rcvd[ret[p].ch]
    BY DEF EndIsFinal
  <2> DEFINE c == ret[p].ch
  <2>1. c \in Chans /\ closed[c] /\ buf[c] = <<>>
    BY DEF ChanInv, Ends
  <2> HIDE DEF c
  <2>2. sent[c] = rcvd[c] \o buf[c] /\ rcvd[c] \in Seq(Vals)
    BY <2>1 DEF ChanInv, HandleTypes, Flow
  <2>3. rcvd[c] \o <<>> = rcvd[c]
    BY <2>2, NothingBuffered
  <2>4. closed[c] /\ sent[c] = rcvd[c]
    BY <2>1, <2>2, <2>3
  <2>5. QED
    BY <2>4 DEF c
<1>2. QED
  BY <1>1, ChanInvariant, PTL

\* close leaves nobody blocked on the channel.
THEOREM CloseWakesAllHolds == Spec => []CloseWakesAll
<1>1. ChanInv => CloseWakesAll
  BY DEF ChanInv, Shut, CloseWakesAll
<1>2. QED
  BY <1>1, ChanInvariant, PTL
=============================================================================
