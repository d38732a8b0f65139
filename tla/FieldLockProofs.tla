-------------------------- MODULE FieldLockProofs ---------------------------
(***************************************************************************)
(* The field accessors never race with each other in scripts without       *)
(* generators, for any number of async tasks and instances.                *)
(***************************************************************************)
EXTENDS FieldLock, FiniteSetTheorems, TLAPS

\* Counted is a finite set, so that its cardinality is a number.
LEMMA CountedFinite == IsFiniteSet(Counted) /\ Cardinality(Counted) \in Nat
<1>1. Counted \subseteq Tasks
  BY DEF Counted
<1>2. QED
  BY <1>1, FieldLockAssumption, FS_Subset, FS_CardinalityType

\* asyncDepth is zero only when no task is alive or about to be started.
LEMMA DepthZero ==
  ASSUME LockInv, depth = 0
  PROVE  Counted = {}
BY CountedFinite, FS_EmptySet DEF LockInv

\* A goroutine that executes script code in a script without generators is the
\* script's own or a counted task.
LEMMA WhoRuns ==
  ASSUME LockInv, NoGenerator, NEW p \in Procs, st[p] \notin {"unborn", "ended"}
  PROVE  p = Main \/ p \in Counted
BY DEF NoGenerator, Counted, Procs

\* In the initial state only the script runs and nothing is counted.
LEMMA InitInv == Init => LockInv
<1> SUFFICES ASSUME Init PROVE LockInv
  OBVIOUS
<1>1. TypeOK
  BY DEF Init, TypeOK, Procs, Sts
<1>2. Counted = {}
  BY FieldLockAssumption DEF Init, Counted, Procs
<1>3. depth = Cardinality(Counted)
  BY <1>2, FS_EmptySet DEF Init
<1>4. QED
  BY <1>1, <1>3, FieldLockAssumption DEF Init, LockInv, NoGenerator, Procs

\* Counting a task in and out, and starting it, keep the counter exact.
LEMMA EnterInv ==
  ASSUME LockInv, NEW p \in Procs, NEW t \in Tasks, AsyncEnter(p, t)
  PROVE  LockInv'
<1> USE DEF AsyncEnter, Fresh
<1>t. t \in Procs /\ p # t
  BY DEF Procs
<1>1. TypeOK'
  BY <1>t DEF LockInv, TypeOK, Sts
<1>2. t \notin Counted /\ Counted' = Counted \cup {t}
  BY <1>t DEF LockInv, TypeOK, Counted
<1>3. depth' = Cardinality(Counted')
  BY <1>2, CountedFinite, FS_AddElement DEF LockInv
<1>4. NoGenerator' => \A q \in Procs : st'[q] \in {"bare", "inMap"} => q = Main /\ depth' = 0
  <2> SUFFICES ASSUME NoGenerator', NEW q \in Procs, st'[q] \in {"bare", "inMap"} PROVE FALSE
    OBVIOUS
  <2>1. NoGenerator
    BY DEF NoGenerator, LockInv, TypeOK, Procs
  <2>2. q # p /\ st[q] \in {"bare", "inMap"}
    BY DEF LockInv, TypeOK
  <2>3. q = Main /\ depth = 0
    BY <2>1, <2>2 DEF LockInv
  <2>4. p \in Counted
    BY <2>1, <2>2, <2>3, WhoRuns
  <2>5. QED
    BY <2>3, <2>4, DepthZero
<1>5. QED
  BY <1>t, <1>1, <1>3, <1>4 DEF LockInv, TypeOK

\* The go statement turns the counted, unborn task into a running one.
LEMMA GoInv ==
  ASSUME LockInv, NEW p \in Procs, Go(p)
  PROVE  LockInv'
<1>t. /\ peer[p] \in Tasks /\ peer[p] \in Procs /\ peer[p] # p
      /\ st[p] = "spawn" /\ st[peer[p]] = "unborn"
      /\ UNCHANGED <<depth, peer, inst, writes>>
  BY DEF LockInv, Procs, Go
<1>1. TypeOK'
  BY <1>t DEF LockInv, TypeOK, Sts, Go
<1>s. \A q \in Procs : st'[q] = IF q = p \/ q = peer[p] THEN "idle" ELSE st[q]
  BY <1>t DEF LockInv, TypeOK, Go
<1>2. Counted' = Counted
  <2>2. \A t \in Tasks : t \in Procs
    BY DEF Procs
  <2>3. ASSUME NEW t \in Tasks PROVE t \in Counted' <=> t \in Counted
    <3>1. CASE t = p \/ t = peer[p]
      <4>1. st'[t] = "idle"
        BY <1>s, <2>2, <3>1
      <4>2. st[t] = "spawn" \/ t = peer[p]
        BY <1>t, <3>1
      <4>3. QED
        BY <1>t, <4>1, <4>2 DEF Counted
    <3>2. CASE t # p /\ t # peer[p]
      <4>1. st'[t] = st[t]
        BY <1>s, <2>2, <3>2
      <4>2. (\E q \in Procs : st'[q] = "spawn" /\ peer'[q] = t)
              <=> (\E q \in Procs : st[q] = "spawn" /\ peer[q] = t)
        <5>1. \A q \in Procs : peer[q] = t => q # p
          BY <3>2
        <5>2. \A q \in Procs : peer[q] = t => (st'[q] = "spawn" <=> st[q] = "spawn")
          BY <1>t, <1>s, <5>1
        <5>3. QED
          BY <1>t, <5>2
      <4>3. QED
        BY <4>1, <4>2 DEF Counted
    <3>3. QED
      BY <3>1, <3>2
  <2>4. QED
    BY <2>3 DEF Counted
<1>3. NoGenerator' => NoGenerator
  BY <1>t, <1>s, FieldLockAssumption DEF NoGenerator, Procs
<1>4. \A q \in Procs : st'[q] = "spawn" => peer'[q] \in Tasks /\ st'[peer'[q]] = "unborn"
  <2> SUFFICES ASSUME NEW q \in Procs, st'[q] = "spawn"
               PROVE  peer[q] \in Tasks /\ st'[peer[q]] = "unborn"
    BY <1>t
  <2>1. st[q] = "spawn" /\ q # p
    BY <1>s
  <2>2. peer[q] \in Tasks /\ st[peer[q]] = "unborn" /\ peer[q] # peer[p]
    BY <1>t, <2>1 DEF LockInv
  <2>3. QED
    BY <1>t, <1>s, <2>2 DEF Procs
<1>5. \A q \in Procs : st'[q] = "next" => peer'[q] \in Gens /\ st'[peer'[q]] # "unborn"
  BY <1>t, <1>s DEF LockInv, Procs
<1>6. QED
  BY <1>t, <1>1, <1>s, <1>2, <1>3, <1>4, <1>5 DEF LockInv

\* A task that ends is counted out in the same step.
LEMMA LeaveInv ==
  ASSUME LockInv, NEW t \in Tasks, AsyncLeave(t)
  PROVE  LockInv'
<1> USE DEF AsyncLeave
<1>t. t \in Procs /\ t \notin Gens /\ t # Main
  BY FieldLockAssumption DEF Procs
<1>2. t \in Counted /\ Counted' = Counted \ {t}
  BY <1>t DEF LockInv, TypeOK, Counted
<1>3. depth' = Cardinality(Counted') /\ depth' \in Nat
  <2>1. IsFiniteSet(Counted') /\ Cardinality(Counted') = Cardinality(Counted) - 1
    BY <1>2, CountedFinite, FS_RemoveElement
  <2>2. Cardinality(Counted') \in Nat
    BY <2>1, FS_CardinalityType
  <2>3. QED
    BY <2>1, <2>2 DEF LockInv
<1>1. TypeOK'
  BY <1>t, <1>3 DEF LockInv, TypeOK, Sts
<1>4. NoGenerator' => NoGenerator
  BY <1>t DEF NoGenerator, LockInv, TypeOK
<1>5. depth # 0
  BY <1>2, DepthZero
<1>6. QED
  BY <1>t, <1>1, <1>3, <1>4, <1>5 DEF LockInv, TypeOK

\* The steps of generators and of their consumers.
LEMMA GeneratorInv ==
  ASSUME LockInv,
         \/ \E p \in Procs, g \in Gens : CallNext(p, g)
         \/ \E p \in Procs : HandOver(p) \/ NextEnds(p)
         \/ \E g \in Gens : Yield(g) \/ ProducerEnds(g)
  PROVE  LockInv'
<1>0. UNCHANGED <<depth, inst, writes>>
  BY DEF CallNext, HandOver, NextEnds, Yield, ProducerEnds
<1>1. TypeOK'
  BY DEF LockInv, TypeOK, Sts, Procs, CallNext, HandOver, NextEnds, Yield, ProducerEnds
<1>2. Counted' = Counted
  BY FieldLockAssumption
     DEF LockInv, TypeOK, Counted, Procs, CallNext, HandOver, NextEnds, Yield, ProducerEnds
<1>3. ~NoGenerator'
  BY FieldLockAssumption
     DEF LockInv, TypeOK, NoGenerator, Procs, CallNext, HandOver, NextEnds, Yield, ProducerEnds
<1>4. \A p \in Procs :
        /\ st'[p] \in {"spawn", "locked"} => st'[p] = st[p] /\ peer'[p] = peer[p]
        /\ st[p] = "unborn" /\ p \in Tasks => st'[p] = "unborn"
        /\ st'[p] = "next" => peer'[p] \in Gens /\ st'[peer'[p]] # "unborn"
  BY FieldLockAssumption
     DEF LockInv, TypeOK, Procs, CallNext, HandOver, NextEnds, Yield, ProducerEnds
<1>5. QED
  BY <1>0, <1>1, <1>2, <1>3, <1>4 DEF LockInv, Procs

\* The steps of the accessors, and of the code that goes past them.
LEMMA AccessInv ==
  ASSUME LockInv, NEW p \in Procs,
         \/ \E i \in Insts, w \in BOOLEAN : Access(p, i, w) \/ Direct(p, i, w)
         \/ Lock(p) \/ Touch(p) \/ Finish(p)
  PROVE  LockInv'
<1>0. UNCHANGED <<depth, peer>>
  BY DEF Access, Direct, Lock, Touch, Finish
<1>1. TypeOK'
  BY DEF LockInv, TypeOK, Sts, Access, Direct, Lock, Touch, Finish
<1>s. /\ st[p] \notin {"unborn", "ended", "spawn", "next"}
      /\ st'[p] \notin {"unborn", "ended", "spawn", "next"}
      /\ \A q \in Procs : q # p => st'[q] = st[q] /\ inst'[q] = inst[q]
  BY DEF LockInv, TypeOK, asyncActive, Access, Direct, Lock, Touch, Finish
<1>2. Counted' = Counted
  BY <1>0, <1>s DEF LockInv, Counted, Procs
<1>3. NoGenerator' => NoGenerator
  BY <1>s DEF NoGenerator, LockInv, Procs
<1>4. \A q, r \in Procs :
        st'[q] = "locked" /\ st'[r] = "locked" /\ inst'[q] = inst'[r] => q = r
  BY <1>s DEF LockInv, TypeOK, asyncActive, Access, Direct, Lock, Touch, Finish
<1>5. ASSUME NoGenerator, NEW q \in Procs, st'[q] \in {"bare", "inMap"}
      PROVE  q = Main /\ depth = 0
  <2>1. CASE q # p
    BY <1>5, <1>s, <2>1 DEF LockInv
  <2>2. CASE q = p /\ st[p] \in {"bare", "inMap"}
    BY <1>5, <2>2 DEF LockInv
  <2>3. CASE q = p /\ st[p] \notin {"bare", "inMap"}
    <3>1. depth = 0
      BY <1>5, <2>3 DEF LockInv, TypeOK, asyncActive, Access, Direct, Lock, Touch, Finish
    <3>2. p = Main \/ p \in Counted
      BY <1>5, <1>s, WhoRuns
    <3>3. QED
      BY <2>3, <3>1, <3>2, DepthZero
  <2>4. QED
    BY <2>1, <2>2, <2>3
<1>6. QED
  BY <1>0, <1>1, <1>s, <1>2, <1>3, <1>4, <1>5 DEF LockInv, Procs

\* asyncDepth counts exactly the live tasks, and only the script, alone, ever
\* touches a field map without its lock.
THEOREM LockInvariant == Spec => []LockInv
<1>1. Init => LockInv
  BY InitInv
<1>2. LockInv /\ [Next]_vars => LockInv'
  <2> SUFFICES ASSUME LockInv, [Next]_vars PROVE LockInv'
    OBVIOUS
  <2>1. CASE \E p \in Procs, t \in Tasks : AsyncEnter(p, t)
    BY <2>1, EnterInv
  <2>2. CASE \E p \in Procs : Go(p)
    BY <2>2, GoInv
  <2>3. CASE \E t \in Tasks : AsyncLeave(t)
    BY <2>3, LeaveInv
  <2>4. CASE \/ \E p \in Procs, g \in Gens : CallNext(p, g)
             \/ \E p \in Procs : HandOver(p) \/ NextEnds(p)
             \/ \E g \in Gens : Yield(g) \/ ProducerEnds(g)
    BY <2>4, GeneratorInv
  <2>5. CASE \E p \in Procs :
               \/ \E i \in Insts, w \in BOOLEAN : Access(p, i, w) \/ Direct(p, i, w)
               \/ Lock(p) \/ Touch(p) \/ Finish(p)
    BY <2>5, AccessInv
  <2>6. CASE UNCHANGED vars
    BY <2>6 DEF vars, LockInv, TypeOK, Counted, NoGenerator
  <2>7. QED
    BY <2>1, <2>2, <2>3, <2>4, <2>5, <2>6 DEF Next
<1>3. QED
  BY <1>1, <1>2, PTL DEF Spec

\* asyncDepth is a natural number and every goroutine is in a known place.
THEOREM FieldLockTypes == Spec => []TypeOK
<1>1. LockInv => TypeOK
  BY DEF LockInv
<1>2. QED
  BY <1>1, LockInvariant, PTL

\* The accessors of a script and its async tasks never race on a field map, however many
\* they are and whatever uses the map past them.
THEOREM AccessorsNeverRaceHolds == Spec => []AccessorsNeverRace
<1>1. LockInv => AccessorsNeverRace
  <2> SUFFICES ASSUME LockInv, NoGenerator, NEW p \in Procs, NEW q \in Procs,
                      InAccessor(p), InAccessor(q), Collide(p, q)
               PROVE  FALSE
    BY DEF AccessorsNeverRace, AccessorRace
  <2>1. st[p] = "inMap" \/ st[q] = "inMap"
    BY DEF LockInv, InAccessor, Collide
  <2>2. depth = 0 /\ Counted = {}
    BY <2>1, DepthZero DEF LockInv
  <2>3. p = Main /\ q = Main
    BY <2>2, WhoRuns DEF InAccessor
  <2>4. QED
    BY <2>3 DEF Collide
<1>2. QED
  BY <1>1, LockInvariant, PTL
=============================================================================
