-------------------------- MODULE GeneratorProofs ---------------------------
(***************************************************************************)
(* runtime.Generator tells the truth about its end, and done() loses no    *)
(* value as long as one goroutine calls it, for any number of goroutines,  *)
(* any bodies and any programs.                                            *)
(***************************************************************************)
EXTENDS Generator, TLAPS

Labels == {"idle", "peek", "check", "pull", "recv", "fail", "keep", "store", "close", "stop"}
Outs == {"none", "value", "more", "end", "error", "closed"}

\* Types of the generator and of the calls in flight.
ObjectTypes ==
  /\ body \in Bodies
  /\ bpc \in {"unstarted", "run", "yield", "throw", "ended"}
  /\ made \in Nat /\ made <= body.yields
  /\ prefetched \in Nat /\ prefetched <= made
  /\ doneCh \in BOOLEAN /\ closed \in BOOLEAN
  /\ exhausted \in BOOLEAN /\ pendingErr \in BOOLEAN
CallTypes ==
  /\ at \in [Procs -> Labels]
  /\ op \in [Procs -> Ops \cup {"none"}]
  /\ held \in [Procs -> Nat]
  /\ ret \in [Procs -> Outs]
  /\ delivered \in Seq(Nat)
  /\ todo \in [Procs -> Seq(Ops)]
GenTypes == ObjectTypes /\ CallTypes

\* A value that done() has taken is one the producer has made, and the producer
\* offers values from number one on.
Offered ==
  /\ \A p \in Procs : held[p] <= made /\ ((held[p] # None) <=> (at[p] = "store"))
  /\ bpc = "yield" => made > 0

\* What the flags say of the producer.  Only close() stops a body before its end, so
\* until then an ended body has made all its values and its error is with somebody.
Ended ==
  /\ doneCh => closed
  /\ \A p \in Procs : at[p] = "stop" => closed
  /\ exhausted => bpc = "ended"
  /\ \A p \in Procs : at[p] \in {"fail", "keep"} => bpc = "ended"
  /\ ~doneCh =>
       /\ bpc \in {"throw", "ended"} => made = body.yields
       /\ bpc = "throw" => body.ends = "throw"
       /\ bpc = "ended" /\ body.ends = "throw" =>
            pendingErr \/ \E q \in Procs : at[q] \in {"fail", "keep"}
  /\ \A p \in Procs : ret[p] = "end" /\ ~closed => bpc = "ended"

GenInv == GenTypes /\ Offered /\ Ended

\* What the assumption says of the body in use.
LEMMA BodyType == GenTypes => body.yields \in Nat /\ body.ends \in {"return", "throw"}
BY GeneratorAssumption DEF GenTypes, ObjectTypes

\* What a call may do to its own record.
LEMMA CallMoves ==
  ASSUME CallTypes, NEW p \in Procs,
         \/ \E l \in Labels : Goto(p, l)
         \/ \E o \in Outs : Finish(p, o)
         \/ \E v \in Nat : Obtain(p, v)
  PROVE  CallTypes'
<1>1. CASE \E l \in Labels : Goto(p, l)
  BY <1>1 DEF CallTypes, Goto
<1>2. CASE \E o \in Outs : Finish(p, o)
  BY <1>2 DEF CallTypes, Finish, Return, Labels, None
<1>3. CASE \E v \in Nat : Obtain(p, v)
  <2>1. PICK v \in Nat : Obtain(p, v)
    BY <1>3
  <2>2. CASE Return(p, "value") /\ delivered' = Append(delivered, v)
    BY <2>2 DEF CallTypes, Return, Labels, Outs, None
  <2>3. CASE /\ at' = [at EXCEPT ![p] = "store"]
             /\ held' = [held EXCEPT ![p] = v]
             /\ UNCHANGED <<op, ret, delivered, todo>>
    BY <2>3 DEF CallTypes, Labels
  <2>4. QED
    BY <2>1, <2>2, <2>3 DEF Obtain
<1>4. QED
  BY <1>1, <1>2, <1>3

\* A goroutine starts its next operation.
LEMMA StartInv ==
  ASSUME GenInv, NEW p \in Procs, Start(p)
  PROVE  GenInv'
<1> USE DEF GenInv
<1>1. Head(todo[p]) \in Ops /\ Tail(todo[p]) \in Seq(Ops)
  BY DEF Start, GenTypes, CallTypes
<1>2. GenTypes'
  BY <1>1 DEF Start, GenTypes, ObjectTypes, CallTypes, genVars, Ops, Labels
<1>3. Offered' /\ Ended'
  BY <1>1 DEF Start, GenTypes, ObjectTypes, CallTypes, Offered, Ended, genVars, Ops
<1>4. QED
  BY <1>2, <1>3

\* The steps of next() and done().
LEMMA NextInv ==
  ASSUME GenInv, NEW p \in Procs,
         PeekDone(p) \/ Next_(p) \/ Pull(p) \/ ReceiveValue(p) \/ StorePrefetch(p)
  PROVE  GenInv'
<1> USE DEF GenInv
<1>1. CASE PeekDone(p)
  <2>1. GenTypes'
    <3>1. CallTypes'
      BY <1>1, CallMoves DEF PeekDone, GenTypes, ObjectTypes, Labels, Outs
    <3>2. ObjectTypes'
      BY <1>1 DEF PeekDone, GenTypes, ObjectTypes, Offered, CallTypes, genVars, None
    <3>3. QED
      BY <3>1, <3>2 DEF GenTypes
  <2>2. Offered' /\ Ended'
    BY <1>1 DEF PeekDone, Finish, Return, Goto, GenTypes, ObjectTypes, CallTypes, Offered, Ended, genVars, None
  <2>3. QED
    BY <2>1, <2>2
<1>2. CASE Next_(p)
  <2>1. GenTypes'
    <3>1. CallTypes'
      BY <1>2, CallMoves DEF Next_, GenTypes, ObjectTypes, Labels, Outs
    <3>2. ObjectTypes'
      BY <1>2 DEF Next_, GenTypes, ObjectTypes, Offered, CallTypes, None
    <3>3. QED
      BY <3>1, <3>2 DEF GenTypes
  <2>2. Offered' /\ Ended'
    BY <1>2 DEF Next_, Obtain, Finish, Return, Goto, GenTypes, ObjectTypes, CallTypes, Offered, Ended, None
  <2>3. QED
    BY <2>1, <2>2
<1>3. CASE Pull(p)
  <2>1. GenTypes'
    <3>1. CallTypes'
      BY <1>3, CallMoves DEF Pull, GenTypes, ObjectTypes, Labels, Outs
    <3>2. ObjectTypes'
      BY <1>3 DEF Pull, GenTypes, ObjectTypes, Offered, CallTypes, None
    <3>3. QED
      BY <3>1, <3>2 DEF GenTypes
  <2>2. Offered' /\ Ended'
    BY <1>3 DEF Pull, Finish, Return, Goto, GenTypes, ObjectTypes, CallTypes, Offered, Ended, None
  <2>3. QED
    BY <2>1, <2>2
<1>4. CASE ReceiveValue(p)
  <2>1. GenTypes'
    <3>1. CallTypes'
      BY <1>4, CallMoves DEF ReceiveValue, GenTypes, ObjectTypes, Labels, Outs
    <3>2. ObjectTypes'
      BY <1>4 DEF ReceiveValue, GenTypes, ObjectTypes, Offered, CallTypes, None
    <3>3. QED
      BY <3>1, <3>2 DEF GenTypes
  <2>2. Offered' /\ Ended'
    BY <1>4 DEF ReceiveValue, Obtain, Return, GenTypes, ObjectTypes, CallTypes, Offered, Ended, None
  <2>3. QED
    BY <2>1, <2>2
<1>5. CASE StorePrefetch(p)
  <2>1. GenTypes'
    <3>1. CallTypes'
      BY <1>5, CallMoves DEF StorePrefetch, GenTypes, ObjectTypes, CallTypes, Labels, Outs
    <3>2. ObjectTypes'
      BY <1>5 DEF StorePrefetch, GenTypes, ObjectTypes, Offered, CallTypes, None
    <3>3. QED
      BY <3>1, <3>2 DEF GenTypes
  <2>2. Offered' /\ Ended'
    BY <1>5 DEF StorePrefetch, Finish, Return, GenTypes, ObjectTypes, CallTypes, Offered, Ended, None
  <2>3. QED
    BY <2>1, <2>2
<1>6. QED
  BY <1>1, <1>2, <1>3, <1>4, <1>5

\* The steps at the end of a body.
LEMMA EndInv ==
  ASSUME GenInv, NEW p \in Procs,
         ReceiveError(p) \/ MarkExhausted(p) \/ KeepError(p) \/ ReceiveEnd(p)
  PROVE  GenInv'
<1> USE DEF GenInv
<1>1. CASE ReceiveError(p)
  <2>1. GenTypes'
    <3>1. CallTypes'
      BY <1>1, CallMoves DEF ReceiveError, GenTypes, ObjectTypes, Labels, Outs
    <3>2. ObjectTypes'
      BY <1>1 DEF ReceiveError, GenTypes, ObjectTypes, Offered, CallTypes, None
    <3>3. QED
      BY <3>1, <3>2 DEF GenTypes
  <2>2. Offered' /\ Ended'
    BY <1>1 DEF ReceiveError, Goto, GenTypes, ObjectTypes, CallTypes, Offered, Ended, None
  <2>3. QED
    BY <2>1, <2>2
<1>2. CASE MarkExhausted(p)
  <2>1. GenTypes'
    <3>1. CallTypes'
      BY <1>2, CallMoves DEF MarkExhausted, GenTypes, ObjectTypes, Labels, Outs
    <3>2. ObjectTypes'
      BY <1>2 DEF MarkExhausted, GenTypes, ObjectTypes, Offered, CallTypes, None
    <3>3. QED
      BY <3>1, <3>2 DEF GenTypes
  <2>2. Offered' /\ Ended'
    BY <1>2 DEF MarkExhausted, Goto, GenTypes, ObjectTypes, CallTypes, Offered, Ended, None
  <2>3. QED
    BY <2>1, <2>2
<1>3. CASE KeepError(p)
  <2>1. GenTypes'
    <3>1. CallTypes'
      BY <1>3, CallMoves DEF KeepError, GenTypes, ObjectTypes, Labels, Outs
    <3>2. ObjectTypes'
      BY <1>3 DEF KeepError, GenTypes, ObjectTypes, Offered, CallTypes, None
    <3>3. QED
      BY <3>1, <3>2 DEF GenTypes
  <2>2. Offered' /\ Ended'
    BY <1>3 DEF KeepError, Finish, Return, GenTypes, ObjectTypes, CallTypes, Offered, Ended, None
  <2>3. QED
    BY <2>1, <2>2
<1>4. CASE ReceiveEnd(p)
  <2>1. GenTypes'
    <3>1. CallTypes'
      BY <1>4, CallMoves DEF ReceiveEnd, GenTypes, ObjectTypes, Labels, Outs
    <3>2. ObjectTypes'
      BY <1>4 DEF ReceiveEnd, GenTypes, ObjectTypes, Offered, CallTypes, None
    <3>3. QED
      BY <3>1, <3>2 DEF GenTypes
  <2>2. Offered' /\ Ended'
    BY <1>4 DEF ReceiveEnd, Finish, Return, GenTypes, ObjectTypes, CallTypes, Offered, Ended, None
  <2>3. QED
    BY <2>1, <2>2
<1>5. QED
  BY <1>1, <1>2, <1>3, <1>4

\* The steps of close().
LEMMA CloseInv ==
  ASSUME GenInv, NEW p \in Procs, Close(p) \/ CloseDone(p)
  PROVE  GenInv'
<1> USE DEF GenInv
<1>1. GenTypes'
  <2>1. CallTypes'
    BY CallMoves DEF Close, CloseDone, GenTypes, Labels, Outs
  <2>2. ObjectTypes'
    BY DEF Close, CloseDone, GenTypes, ObjectTypes
  <2>3. QED
    BY <2>1, <2>2 DEF GenTypes
<1>2. Offered' /\ Ended'
  BY DEF Close, CloseDone, Finish, Return, Goto, GenTypes, ObjectTypes, CallTypes, Offered, Ended, None
<1>3. QED
  BY <1>1, <1>2

\* The steps of the producer.
LEMMA ProducerInv ==
  ASSUME GenInv, Producer
  PROVE  GenInv'
<1> USE DEF GenInv
<1>0. body.yields \in Nat /\ body.ends \in {"return", "throw"}
  BY BodyType
<1>1. GenTypes'
  BY <1>0 DEF Producer, BodyRuns, BodyStops, GenTypes, ObjectTypes, CallTypes
<1>2. Offered' /\ Ended'
  BY <1>0 DEF Producer, BodyRuns, BodyStops, GenTypes, ObjectTypes, CallTypes, Offered, Ended
<1>3. QED
  BY <1>1, <1>2

\* The flags, the producer and the calls in flight agree.
THEOREM GenInvariant == Spec => []GenInv
<1>1. Init => GenInv
  <2> SUFFICES ASSUME Init PROVE GenInv
    OBVIOUS
  <2>1. GenTypes
    <3>1. ObjectTypes
      <4>1. body \in Bodies /\ body.yields \in Nat
        BY GeneratorAssumption DEF Init
      <4>2. made \in Nat /\ made <= body.yields /\ prefetched \in Nat /\ prefetched <= made
        BY <4>1 DEF Init, None
      <4>3. QED
        BY <4>1, <4>2 DEF Init, ObjectTypes
    <3>2. CallTypes
      BY GeneratorAssumption DEF Init, CallTypes, Labels, Outs, None
    <3>3. QED
      BY <3>1, <3>2 DEF GenTypes
  <2>2. Offered /\ Ended
    BY DEF Init, Offered, Ended, None
  <2>3. QED
    BY <2>1, <2>2 DEF GenInv
<1>2. GenInv /\ [Next]_vars => GenInv'
  <2> SUFFICES ASSUME GenInv, [Next]_vars PROVE GenInv'
    OBVIOUS
  <2>1. CASE UNCHANGED vars
    BY <2>1 DEF vars, genVars, GenInv, GenTypes, ObjectTypes, CallTypes, Offered, Ended
  <2>2. CASE Producer
    BY <2>2, ProducerInv
  <2>3. CASE \E p \in Procs : Consumer(p) \/ Start(p)
    BY <2>3, StartInv, NextInv, EndInv, CloseInv DEF Consumer
  <2>4. QED
    BY <2>1, <2>2, <2>3 DEF Next
<1>3. QED
  BY <1>1, <1>2, PTL DEF Spec

\* The generator's state stays well typed.
THEOREM GenTypesHold == Spec => []TypeOK
<1>1. GenInv => TypeOK
  BY BodyType DEF GenInv, GenTypes, ObjectTypes, CallTypes, Offered, TypeOK, Labels
<1>2. QED
  BY <1>1, GenInvariant, PTL

\* An end that next() or done() reports of a generator nobody closed is the end of
\* the body, with all its values made and its error, if it threw, with somebody.
THEOREM EndIsTrueHolds == Spec => []EndIsTrue
<1>1. GenInv => EndIsTrue
  BY DEF GenInv, Ended, EndIsTrue
<1>2. QED
  BY <1>1, GenInvariant, PTL

-----------------------------------------------------------------------------
(***************************************************************************)
(* Values.  Two concurrent done() calls overwrite each other's prefetched  *)
(* value, so the rest is about programs in which one goroutine at most     *)
(* calls done().                                                           *)
(***************************************************************************)
HasDone(ops) == \E i \in DOMAIN ops : ops[i] = "done"
OneStepper == \A s \in Scripts : \A p, q \in Procs : HasDone(s[p]) /\ HasDone(s[q]) => p = q

\* While a done() is past its test of hasPrefetch, nothing is prefetched.
Steps(p) == op[p] = "done" \/ HasDone(todo[p])
Stepper ==
  /\ \A p, q \in Procs : Steps(p) /\ Steps(q) => p = q
  /\ \A p \in Procs :
       /\ at[p] = "idle" => op[p] = "none"
       /\ at[p] \in {"peek", "store"} => op[p] = "done"
       /\ op[p] = "done" /\ at[p] # "peek" => prefetched = None

\* Every value the producer has handed over is in one place.
Accounted ==
  /\ \A i \in DOMAIN delivered : delivered[i] \in Handed
  /\ prefetched # None => prefetched \in Handed
  /\ \A p \in Procs : held[p] # None => held[p] \in Handed
  /\ \A i, j \in DOMAIN delivered : i # j => delivered[i] # delivered[j]
  /\ \A i \in DOMAIN delivered :
       delivered[i] # prefetched /\ \A p \in Procs : delivered[i] # held[p]
  /\ ~doneCh => \A v \in Handed : \/ v = prefetched
                                  \/ \E p \in Procs : v = held[p]
                                  \/ \E i \in DOMAIN delivered : v = delivered[i]

ValueInv == Stepper /\ Accounted

\* A step that moves no value, and hands one over only if the generator is closed.
LEMMA NoValueMoves ==
  ASSUME Accounted, UNCHANGED <<prefetched, held, delivered>>,
         doneCh => doneCh', Handed \subseteq Handed', ~doneCh' => Handed' = Handed
  PROVE  Accounted'
BY DEF Accounted

\* An operation that is started is one of the program's.
LEMMA StartValues ==
  ASSUME GenInv, ValueInv, NEW p \in Procs, Start(p)
  PROVE  ValueInv'
<1> USE DEF GenInv, ValueInv, GenTypes, CallTypes
<1>1. Accounted'
  <2>1. Handed' = Handed /\ UNCHANGED <<prefetched, held, delivered, doneCh>>
    BY DEF Start, Handed, genVars
  <2>2. QED
    BY <2>1, NoValueMoves
<1>2. Head(todo[p]) = "done" => HasDone(todo[p])
  BY DEF Start, HasDone
<1>3. HasDone(Tail(todo[p])) => HasDone(todo[p])
  BY DEF Start, HasDone
<1>4. \A q \in Procs : Steps(q)' => Steps(q)
  BY <1>2, <1>3 DEF Start, Steps
<1>5. Stepper'
  <2>1. \A q \in Procs : /\ at'[q] = "idle" => op'[q] = "none"
                         /\ at'[q] \in {"peek", "store"} => op'[q] = "done"
                         /\ op'[q] = "done" /\ at'[q] # "peek" => prefetched' = None
    BY DEF Start, Stepper, genVars, Ops
  <2>2. QED
    BY <1>4, <2>1 DEF Stepper
<1>6. QED
  BY <1>1, <1>5

\* A call that moves on, or returns without a value.
LEMMA CallValues ==
  ASSUME GenInv, ValueInv, NEW p \in Procs, at[p] # "store",
         \/ \E l \in Labels \ {"peek", "store", "idle"} :
              Goto(p, l) /\ (at[p] = "peek" => prefetched = None)
         \/ \E o \in Outs : Finish(p, o),
         UNCHANGED prefetched, Handed' = Handed, doneCh => doneCh'
  PROVE  ValueInv'
<1> USE DEF GenInv, ValueInv, GenTypes, CallTypes
<1>1. UNCHANGED <<held, delivered>>
  BY DEF Goto, Finish, Return, Offered, None
<1>2. Accounted'
  BY <1>1, NoValueMoves
<1>3. \A q \in Procs : Steps(q)' => Steps(q)
  BY DEF Goto, Finish, Return, Steps
<1>4. \A q \in Procs : /\ at'[q] = "idle" => op'[q] = "none"
                       /\ at'[q] \in {"peek", "store"} => op'[q] = "done"
                       /\ op'[q] = "done" /\ at'[q] # "peek" => prefetched' = None
  BY DEF Goto, Finish, Return, Stepper
<1>5. QED
  BY <1>2, <1>3, <1>4 DEF Stepper

\* next() returns a value that was kept or is handed over, or done() takes it.
LEMMA ObtainValues ==
  ASSUME GenInv, ValueInv, NEW p \in Procs, NEW v \in Nat \ {None},
         at[p] \in {"check", "recv"}, Obtain(p, v), UNCHANGED doneCh,
         \/ prefetched = v /\ prefetched' = None /\ Handed' = Handed
         \/ UNCHANGED prefetched /\ v \notin Handed /\ Handed' = Handed \cup {v}
  PROVE  ValueInv'
<1> USE DEF GenInv, ValueInv, GenTypes, CallTypes
<1>0. held[p] = None /\ \A q \in Procs : prefetched # None => held[q] = None
  BY DEF Offered, Stepper
<1>s. prefetched' = None \/ UNCHANGED prefetched
  OBVIOUS
<1>h. None \notin Handed /\ v # None
  BY DEF Handed, None
<1>v. v # prefetched'
  BY <1>h DEF Accounted
<1>1. CASE op[p] = "next" /\ Return(p, "value") /\ delivered' = Append(delivered, v)
  <2>1. held' = held /\ at'[p] = "idle" /\ op'[p] = "none" /\ UNCHANGED todo
        /\ \A q \in Procs : q # p => at'[q] = at[q] /\ op'[q] = op[q]
    BY <1>0, <1>1 DEF Return, None
  <2>2. Stepper'
    <3>1. \A q \in Procs : Steps(q)' => Steps(q)
      BY <2>1 DEF Steps
    <3>2. QED
      BY <1>s, <2>1, <3>1 DEF Stepper
  <2>3. /\ DOMAIN delivered' = DOMAIN delivered \cup {Len(delivered) + 1}
        /\ Len(delivered) + 1 \notin DOMAIN delivered
        /\ delivered'[Len(delivered) + 1] = v
        /\ \A i \in DOMAIN delivered : delivered'[i] = delivered[i]
    BY <1>1
  <2>4. /\ \A i \in DOMAIN delivered : delivered[i] # v
        /\ \A q \in Procs : held[q] # v
        /\ v \in Handed'
    BY <1>0 DEF Accounted
  <2>5. Accounted'
    <3>1. \A i \in DOMAIN delivered' : delivered'[i] \in Handed'
      BY <2>3, <2>4 DEF Accounted
    <3>2. /\ prefetched' # None => prefetched' \in Handed'
          /\ \A q \in Procs : held'[q] # None => held'[q] \in Handed'
      BY <2>1 DEF Accounted
    <3>3. \A i, j \in DOMAIN delivered' : i # j => delivered'[i] # delivered'[j]
      BY <2>3, <2>4 DEF Accounted
    <3>4. \A i \in DOMAIN delivered' :
            delivered'[i] # prefetched' /\ \A q \in Procs : delivered'[i] # held'[q]
      <4>1. ASSUME NEW i \in DOMAIN delivered
            PROVE  delivered[i] # prefetched' /\ \A q \in Procs : delivered[i] # held'[q]
        <5>1. delivered[i] \in Handed /\ delivered[i] # prefetched
              /\ \A q \in Procs : delivered[i] # held[q]
          BY DEF Accounted
        <5>2. QED
          BY <1>h, <1>s, <2>1, <5>1
      <4>2. QED
        BY <1>v, <2>1, <2>3, <2>4, <4>1
    <3>5. ASSUME ~doneCh', NEW x \in Handed'
          PROVE  \/ x = prefetched'
                 \/ \E q \in Procs : x = held'[q]
                 \/ \E i \in DOMAIN delivered' : x = delivered'[i]
      <4>1. CASE x = v
        BY <2>3, <4>1
      <4>2. CASE x # v
        <5>1. x \in Handed /\ ~doneCh
          BY <3>5, <4>2
        <5>2. \/ x = prefetched
              \/ \E q \in Procs : x = held[q]
              \/ \E i \in DOMAIN delivered : x = delivered[i]
          BY <5>1 DEF Accounted
        <5>3. x = prefetched => x = prefetched'
          BY <4>2
        <5>4. QED
          BY <2>1, <2>3, <5>2, <5>3
      <4>3. QED
        BY <4>1, <4>2
    <3>6. QED
      BY <3>1, <3>2, <3>3, <3>4, <3>5 DEF Accounted
  <2>6. QED
    BY <2>2, <2>5
<1>2. CASE /\ op[p] = "done"
           /\ at' = [at EXCEPT ![p] = "store"]
           /\ held' = [held EXCEPT ![p] = v]
           /\ UNCHANGED <<op, ret, delivered, todo>>
  <2>0. prefetched = None /\ UNCHANGED prefetched /\ v \notin Handed /\ Handed' = Handed \cup {v}
    BY <1>2 DEF Stepper
  <2>1. held'[p] = v /\ \A q \in Procs : q # p => held'[q] = held[q]
    BY <1>2
  <2>2. Stepper'
    BY <1>2, <2>0 DEF Stepper, Steps
  <2>3. Accounted'
    <3>1. /\ \A i \in DOMAIN delivered' : delivered'[i] \in Handed'
          /\ prefetched' # None => prefetched' \in Handed'
          /\ \A i, j \in DOMAIN delivered' : i # j => delivered'[i] # delivered'[j]
      BY <1>2, <2>0 DEF Accounted
    <3>2. \A q \in Procs : held'[q] # None => held'[q] \in Handed'
      BY <2>0, <2>1 DEF Accounted
    <3>3. ASSUME NEW i \in DOMAIN delivered'
          PROVE  delivered'[i] # prefetched' /\ \A q \in Procs : delivered'[i] # held'[q]
      <4>1. i \in DOMAIN delivered /\ delivered'[i] = delivered[i]
        BY <1>2
      <4>2. delivered[i] \in Handed /\ delivered[i] # prefetched
            /\ \A q \in Procs : delivered[i] # held[q]
        BY <4>1 DEF Accounted
      <4>3. QED
        BY <2>0, <2>1, <4>1, <4>2
    <3>4. ASSUME ~doneCh', NEW x \in Handed'
          PROVE  \/ x = prefetched'
                 \/ \E q \in Procs : x = held'[q]
                 \/ \E i \in DOMAIN delivered' : x = delivered'[i]
      <4>1. CASE x = v
        BY <2>1, <4>1
      <4>2. CASE x # v
        <5>1. x \in Handed /\ ~doneCh
          BY <2>0, <3>4, <4>2
        <5>2. \/ x = prefetched
              \/ \E q \in Procs : x = held[q]
              \/ \E i \in DOMAIN delivered : x = delivered[i]
          BY <5>1 DEF Accounted
        <5>3. x # held[p]
          BY <1>0, <1>h, <5>1
        <5>4. QED
          BY <1>2, <2>0, <2>1, <5>2, <5>3
      <4>3. QED
        BY <4>1, <4>2
    <3>5. QED
      BY <3>1, <3>2, <3>3, <3>4 DEF Accounted
  <2>4. QED
    BY <2>2, <2>3
<1>3. QED
  BY <1>1, <1>2 DEF Obtain

\* done() keeps its value as the prefetched one, in an empty place.
LEMMA StoreValues ==
  ASSUME GenInv, ValueInv, NEW p \in Procs, StorePrefetch(p)
  PROVE  ValueInv'
<1> USE DEF GenInv, ValueInv, GenTypes, CallTypes
<1>0. op[p] = "done" /\ prefetched = None
  BY DEF StorePrefetch, Stepper
<1>1. /\ prefetched' = held[p] /\ held'[p] = None
      /\ \A q \in Procs : q # p => held'[q] = held[q]
      /\ at'[p] = "idle" /\ op'[p] = "none"
      /\ \A q \in Procs : q # p => at'[q] = at[q] /\ op'[q] = op[q]
      /\ UNCHANGED <<delivered, todo, doneCh>> /\ Handed' = Handed
  BY DEF StorePrefetch, Finish, Return, Handed
<1>2. \A q \in Procs : Steps(q)' => Steps(q)
  BY <1>1 DEF Steps
<1>3. Stepper'
  <2>1. \A q \in Procs : q # p => op'[q] # "done"
    BY <1>0, <1>1 DEF Stepper, Steps
  <2>2. QED
    BY <1>1, <1>2, <2>1 DEF Stepper
<1>4. Accounted'
  <2>1. None \notin Handed
    BY DEF Handed, None
  <2>2. /\ \A i \in DOMAIN delivered' : delivered'[i] \in Handed'
        /\ prefetched' # None => prefetched' \in Handed'
        /\ \A q \in Procs : held'[q] # None => held'[q] \in Handed'
        /\ \A i, j \in DOMAIN delivered' : i # j => delivered'[i] # delivered'[j]
    BY <1>1 DEF Accounted
  <2>3. ASSUME NEW i \in DOMAIN delivered'
        PROVE  delivered'[i] # prefetched' /\ \A q \in Procs : delivered'[i] # held'[q]
    <3>1. i \in DOMAIN delivered /\ delivered'[i] = delivered[i]
      BY <1>1
    <3>2. delivered[i] \in Handed /\ \A q \in Procs : delivered[i] # held[q]
      BY <3>1 DEF Accounted
    <3>3. QED
      BY <1>1, <2>1, <3>1, <3>2
  <2>4. ASSUME ~doneCh', NEW x \in Handed'
        PROVE  \/ x = prefetched'
               \/ \E q \in Procs : x = held'[q]
               \/ \E i \in DOMAIN delivered' : x = delivered'[i]
    <3>1. x \in Handed /\ ~doneCh
      BY <1>1, <2>4
    <3>2. \/ x = prefetched
          \/ \E q \in Procs : x = held[q]
          \/ \E i \in DOMAIN delivered : x = delivered[i]
      BY <3>1 DEF Accounted
    <3>3. QED
      BY <1>0, <1>1, <2>1, <3>1, <3>2
  <2>5. QED
    BY <2>2, <2>3, <2>4 DEF Accounted
<1>5. QED
  BY <1>3, <1>4

\* The producer makes the next value, or stops.
LEMMA ProducerValues ==
  ASSUME GenInv, ValueInv, Producer
  PROVE  ValueInv'
<1> USE DEF GenInv, ValueInv
<1>1. /\ UNCHANGED <<prefetched, held, delivered, at, op, todo, doneCh>>
      /\ Handed \subseteq Handed' /\ (~doneCh => Handed' = Handed)
  BY BodyType DEF Producer, BodyRuns, BodyStops, Handed, GenTypes, ObjectTypes
<1>2. Accounted'
  BY <1>1, NoValueMoves
<1>3. Stepper'
  BY <1>1 DEF Stepper, Steps
<1>4. QED
  BY <1>2, <1>3

\* A step of the program keeps the values accounted for.
LEMMA StepValues ==
  ASSUME GenInv, ValueInv, [Next]_vars
  PROVE  ValueInv'
<1>1. CASE UNCHANGED vars
  BY <1>1 DEF vars, genVars, ValueInv, Stepper, Steps, Accounted, Handed
<1>2. CASE Producer
  BY <1>2, ProducerValues
<1>3. ASSUME NEW p \in Procs, Start(p) PROVE ValueInv'
  BY <1>3, StartValues
<1>4. ASSUME NEW p \in Procs, Consumer(p) PROVE ValueInv'
  <2>1. CASE PeekDone(p)
    <3>1. UNCHANGED <<prefetched, doneCh, bpc, made>> /\ Handed' = Handed /\ at[p] # "store"
      BY <2>1 DEF PeekDone, genVars, Handed
    <3>2. QED
      BY <2>1, <3>1, CallValues DEF PeekDone, Labels, Outs
  <2>2. CASE Next_(p)
    <3>1. UNCHANGED <<doneCh, bpc, made>> /\ Handed' = Handed /\ at[p] = "check"
      BY <2>2 DEF Next_, Handed
    <3>2. CASE prefetched # None /\ Obtain(p, prefetched) /\ prefetched' = None
      <4>1. prefetched \in Nat \ {None}
        BY <3>2 DEF GenInv, GenTypes, ObjectTypes
      <4>2. QED
        BY <3>1, <3>2, <4>1, ObtainValues
    <3>3. CASE \/ Finish(p, "end") /\ UNCHANGED prefetched
               \/ Goto(p, "pull") /\ UNCHANGED prefetched
      BY <3>1, <3>3, CallValues DEF Labels, Outs
    <3>4. QED
      BY <2>2, <3>2, <3>3 DEF Next_
  <2>3. CASE Pull(p)
    <3>1. UNCHANGED <<prefetched, doneCh, made>> /\ Handed' = Handed /\ at[p] = "pull"
      BY <2>3 DEF Pull, Handed
    <3>2. QED
      BY <2>3, <3>1, CallValues DEF Pull, Labels, Outs
  <2>4. CASE ReceiveValue(p)
    <3>1. made \in Nat \ {None} /\ made \notin Handed /\ Handed' = Handed \cup {made}
      BY <2>4 DEF ReceiveValue, Handed, None, GenInv, GenTypes, ObjectTypes, Offered
    <3>2. UNCHANGED <<prefetched, doneCh>> /\ at[p] = "recv" /\ Obtain(p, made)
      BY <2>4 DEF ReceiveValue
    <3>3. QED
      BY <3>1, <3>2, ObtainValues
  <2>5. CASE ReceiveError(p)
    <3>1. UNCHANGED <<prefetched, doneCh>> /\ Handed' = Handed /\ at[p] = "recv"
      BY <2>5 DEF ReceiveError, Handed
    <3>2. QED
      BY <2>5, <3>1, CallValues DEF ReceiveError, Labels, Outs
  <2>6. CASE MarkExhausted(p) \/ KeepError(p) \/ ReceiveEnd(p)
    <3>1. UNCHANGED <<prefetched, doneCh>> /\ Handed' = Handed /\ at[p] \in {"fail", "keep", "recv"}
      BY <2>6 DEF MarkExhausted, KeepError, ReceiveEnd, Handed
    <3>2. QED
      BY <2>6, <3>1, CallValues DEF MarkExhausted, KeepError, ReceiveEnd, Labels, Outs
  <2>7. CASE StorePrefetch(p)
    BY <2>7, StoreValues
  <2>8. CASE Close(p) \/ CloseDone(p)
    <3>1. UNCHANGED prefetched /\ (doneCh => doneCh') /\ Handed' = Handed /\ at[p] \in {"close", "stop"}
      BY <2>8 DEF Close, CloseDone, Handed
    <3>2. QED
      BY <2>8, <3>1, CallValues DEF Close, CloseDone, Labels, Outs
  <2>9. QED
    BY <1>4, <2>1, <2>2, <2>3, <2>4, <2>5, <2>6, <2>7, <2>8 DEF Consumer
<1>5. QED
  BY <1>1, <1>2, <1>3, <1>4 DEF Next

\* Every value is in one place at the start: there is none.
LEMMA InitValues ==
  ASSUME OneStepper, Init
  PROVE  ValueInv
<1>1. Stepper
  BY DEF Init, Stepper, Steps, OneStepper, None
<1>2. delivered = <<>> /\ DOMAIN delivered = {} /\ Handed = {}
  BY DEF Init, Handed
<1>3. Accounted
  BY <1>2 DEF Accounted, Init, None
<1>4. QED
  BY <1>1, <1>3 DEF ValueInv

\* When one goroutine at most calls done(), every value the producer has handed over
\* was returned by one next(), or is kept for the next one; none is returned twice.
THEOREM NothingLostHolds ==
  ASSUME OneStepper
  PROVE  Spec => []NothingLost
<1>1. Init => ValueInv
  BY InitValues
<1>2. GenInv /\ ValueInv /\ [Next]_vars => ValueInv'
  BY StepValues
<1>3. GenInv /\ ValueInv => NothingLost
  <2> SUFFICES ASSUME GenInv, ValueInv PROVE NothingLost
    OBVIOUS
  <2>1. \A i, j \in DOMAIN delivered : i # j => delivered[i] # delivered[j]
    BY DEF ValueInv, Accounted
  <2>2. \A i \in DOMAIN delivered : delivered[i] \notin Kept
    BY DEF ValueInv, Accounted, Kept
  <2>3. ASSUME ~doneCh
        PROVE  Handed = {delivered[i] : i \in DOMAIN delivered} \cup (Kept \ {None})
    <3>1. ASSUME NEW v \in Handed
          PROVE  v \in {delivered[i] : i \in DOMAIN delivered} \cup (Kept \ {None})
      <4>1. v # None
        BY DEF Handed, None
      <4>2. \/ v = prefetched
            \/ \E p \in Procs : v = held[p]
            \/ \E i \in DOMAIN delivered : v = delivered[i]
        BY <2>3 DEF ValueInv, Accounted
      <4>3. QED
        BY <4>1, <4>2 DEF Kept
    <3>2. {delivered[i] : i \in DOMAIN delivered} \cup (Kept \ {None}) \subseteq Handed
      BY DEF ValueInv, Accounted, Kept
    <3>3. QED
      BY <3>1, <3>2
  <2>4. QED
    BY <2>1, <2>2, <2>3 DEF NothingLost
<1>4. QED
  BY <1>1, <1>2, <1>3, GenInvariant, PTL DEF Spec
=============================================================================
