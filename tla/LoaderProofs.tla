---------------------------- MODULE LoaderProofs ----------------------------
(***************************************************************************)
(* Proofs about Loader: the load state always belongs to the loads in      *)
(* progress, a file is never loaded in two places, a published module is   *)
(* whole, and a worker VM serves one chain of calls at a time, for every   *)
(* import graph, any number of goroutines and any calls between modules.   *)
(***************************************************************************)
EXTENDS Loader, FiniteSetTheorems, SequenceTheorems, NaturalsInduction, WellFoundedInduction, TLAPS

-----------------------------------------------------------------------------
(* The inductive invariant. *)

\* Frames whose workers, and the globals and dirty slots of whose derived VMs, are in V.
DerivedVMs(V) == [on : BOOLEAN, globals : V, dirty : V]
Frames(V) == [k : {"wait", "load", "call"}, m : Modules, vm : V, own : BOOLEAN, at : Nat \ {0},
              callVM : DerivedVMs(V)]
Stacks(V) == [Goroutines -> Seq(Frames(V))]

Files == {Path[m] : m \in Sources}

LoadTypes ==
  /\ imports \in [Modules -> Seq(Modules)]
  /\ records \in [Modules -> {None, "native", "full"}]
  /\ loading \subseteq Files
  /\ paths \in Seq(Files)
  /\ lock \in [owner : Goroutines \cup {None}, count : Nat]
  /\ bad \in [Goroutines -> BOOLEAN]
  /\ \E V : stack \in Stacks(V)

\* No file is loaded inside itself, and no name under which one is being loaded is
\* published.
PathsOnce == \A i, j \in 1..Len(paths) : paths[i] = paths[j] => i = j
LoadingUnpublished ==
  \A g \in Goroutines : \A i \in FramesOf(g, "load") : records[stack[g][i].m] # "full"

\* The error or the frame above that frame i of g, which imports m, still has to see.
Pending(g, i, m) ==
  \/ i = Len(stack[g]) /\ bad[g]
  \/ i < Len(stack[g]) /\ stack[g][i + 1].k \in {"wait", "load"} /\ stack[g][i + 1].m = m

\* The imports a body has passed are recorded, but for the last of them while it is
\* pending.
ImportsPassed(g, i) ==
  \A n \in 1..(stack[g][i].at - 1) :
    /\ n \in DOMAIN imports[stack[g][i].m]
    /\ \/ records[imports[stack[g][i].m][n]] # None
       \/ n = stack[g][i].at - 1 /\ Pending(g, i, imports[stack[g][i].m][n])
BodiesInOrder == \A g \in Goroutines : \A i \in FramesOf(g, "load") : ImportsPassed(g, i)

LoadInv ==
  LoadTypes /\ LoadStateClean /\ PathsOnce /\ LoadingUnpublished /\ PublishedWhole /\ BodiesInOrder

-----------------------------------------------------------------------------
(* Counting and sequences. *)

\* A frame on top of all the others is the first from the top, and every other one is
\* one further from it.
LEMMA CountAbove ==
  ASSUME NEW n \in Nat, NEW S \in SUBSET (1..(n - 1))
  PROVE  /\ Cardinality(S \cup {n}) = Cardinality(S) + 1
         /\ Cardinality({j \in S \cup {n} : j >= n}) = 1
         /\ \A i \in S : Cardinality({j \in S \cup {n} : j >= i}) = Cardinality({j \in S : j >= i}) + 1
         /\ Cardinality(S) \in Nat
<1>1. IsFiniteSet(1..(n - 1)) BY FS_Interval
<1>2. IsFiniteSet(S) BY <1>1, FS_Subset
<1>3. n \notin S OBVIOUS
<1>4. {j \in S \cup {n} : j >= n} = {n}
  <2>1. \A j \in S : j \in Int /\ ~(j >= n) OBVIOUS
  <2>2. n >= n OBVIOUS
  <2> QED BY <2>1, <2>2, Zenon
<1>5. Cardinality({n}) = 1 BY FS_Singleton
<1>6. ASSUME NEW i \in S
      PROVE  Cardinality({j \in S \cup {n} : j >= i}) = Cardinality({j \in S : j >= i}) + 1
  <2> DEFINE T == {j \in S : j >= i}
  <2>1. {j \in S \cup {n} : j >= i} = T \cup {n} OBVIOUS
  <2>2. IsFiniteSet(T) BY <1>2, FS_Subset
  <2>3. n \notin T BY <1>3
  <2>4. Cardinality(T \cup {n}) = Cardinality(T) + 1 BY <2>2, <2>3, FS_AddElement
  <2> QED BY <2>1, <2>4
<1>7. Cardinality(S \cup {n}) = Cardinality(S) + 1 BY <1>2, <1>3, FS_AddElement
<1>8. Cardinality(S) \in Nat BY <1>2, FS_CardinalityType
<1> QED BY <1>4, <1>5, <1>6, <1>7, <1>8

\* Two frames are never equally far from the top, and none is further than there are
\* frames.
LEMMA CountInjective ==
  ASSUME NEW n \in Nat, NEW S \in SUBSET (1..n)
  PROVE  /\ \A i \in S : Cardinality({j \in S : j >= i}) \in 1..Cardinality(S)
         /\ \A i, k \in S : Cardinality({j \in S : j >= i}) = Cardinality({j \in S : j >= k}) => i = k
<1> DEFINE A(i) == {j \in S : j >= i}
<1>0. \A i \in S : i \in Int /\ i >= i OBVIOUS
<1>1. IsFiniteSet(S)
  <2>1. IsFiniteSet(1..n) BY FS_Interval
  <2> QED BY <2>1, FS_Subset
<1>2. ASSUME NEW i \in S PROVE IsFiniteSet(A(i)) /\ Cardinality(A(i)) \in Nat
  BY <1>1, FS_Subset, FS_CardinalityType
<1>3. ASSUME NEW i \in S PROVE Cardinality(A(i)) \in 1..Cardinality(S)
  <2>1. Cardinality(A(i)) <= Cardinality(S) /\ Cardinality(S) \in Nat
    BY <1>1, <1>2, FS_Subset, FS_CardinalityType
  <2>2. i \in A(i) BY <1>0
  <2>3. Cardinality(A(i)) # 0 BY <1>2, <2>2, FS_EmptySet
  <2> QED BY <1>2, <2>1, <2>3
<1>4. ASSUME NEW i \in S, NEW k \in S, i < k PROVE Cardinality(A(k)) < Cardinality(A(i))
  <2>0. ~(i >= k) /\ i >= i /\ \A j \in S : j >= k => j >= i BY <1>0, <1>4
  <2>1. i \notin A(k) /\ A(k) \cup {i} \subseteq A(i) BY <2>0, Zenon
  <2>2. Cardinality(A(k) \cup {i}) = Cardinality(A(k)) + 1 BY <1>2, <2>1, FS_AddElement
  <2>3. Cardinality(A(k) \cup {i}) <= Cardinality(A(i)) BY <1>2, <2>1, FS_Subset
  <2> QED BY <1>2, <2>2, <2>3
<1>5. ASSUME NEW i \in S, NEW k \in S, Cardinality(A(i)) = Cardinality(A(k)) PROVE i = k
  <2>1. ~(i < k) BY <1>2, <1>4, <1>5
  <2>2. ~(k < i) BY <1>2, <1>4, <1>5
  <2> QED BY <2>1, <2>2
<1> HIDE DEF A
<1>6. \A i \in S : Cardinality(A(i)) \in 1..Cardinality(S) BY <1>3
<1>7. \A i, k \in S : Cardinality(A(i)) = Cardinality(A(k)) => i = k BY <1>5
<1> QED BY <1>6, <1>7 DEF A

\* The first n elements of a sequence.
LEMMA Prefix ==
  ASSUME NEW S, NEW s, NEW n \in Nat, \A i \in 1..n : s[i] \in S
  PROVE  /\ SubSeq(s, 1, n) \in Seq(S) /\ Len(SubSeq(s, 1, n)) = n
         /\ \A i \in 1..n : SubSeq(s, 1, n)[i] = s[i]
<1>1. 1 \in Int /\ n \in Int OBVIOUS
<1>2. SubSeq(s, 1, n) \in Seq(S) BY <1>1, SubSeqProperties
<1>3. Len(SubSeq(s, 1, n)) = IF 1 <= n THEN n - 1 + 1 ELSE 0 BY <1>1, SubSeqProperties
<1>4. \A i \in 1..(n - 1 + 1) : SubSeq(s, 1, n)[i] = s[1 + i - 1] BY <1>1, SubSeqProperties
<1>5. ASSUME NEW i \in 1..n PROVE SubSeq(s, 1, n)[i] = s[i]
  <2>1. i \in 1..(n - 1 + 1) /\ 1 + i - 1 = i OBVIOUS
  <2> QED BY <1>4, <2>1
<1>6. Len(SubSeq(s, 1, n)) = n BY <1>3
<1> QED BY <1>2, <1>5, <1>6

\* What Front, Last and Append do to a sequence.
LEMMA FrontLast ==
  ASSUME NEW S, NEW s \in Seq(S), s # <<>>
  PROVE  /\ Front(s) \in Seq(S) /\ Len(Front(s)) = Len(s) - 1 /\ Len(s) \in Nat \ {0}
         /\ \A i \in 1..(Len(s) - 1) : Front(s)[i] = s[i]
         /\ Last(s) = s[Len(s)] /\ Last(s) \in S
<1>1. Len(s) \in Nat \ {0} BY EmptySeq
<1>2. /\ Front(s) \in Seq(S) /\ Len(Front(s)) = Len(s) - 1
      /\ \A i \in 1..(Len(s) - 1) : Front(s)[i] = s[i]
  <2>1. Len(s) - 1 \in Nat /\ \A i \in 1..(Len(s) - 1) : s[i] \in S BY <1>1, ElementOfSeq
  <2> DEFINE n == Len(s) - 1
  <2> HIDE DEF n
  <2>2. n \in Nat /\ \A i \in 1..n : s[i] \in S BY <2>1 DEF n
  <2>3. /\ SubSeq(s, 1, n) \in Seq(S) /\ Len(SubSeq(s, 1, n)) = n
        /\ \A i \in 1..n : SubSeq(s, 1, n)[i] = s[i]
    BY <2>2, Prefix
  <2>4. Front(s) = SubSeq(s, 1, n) BY DEF Front, n
  <2>5. /\ Front(s) \in Seq(S) /\ Len(Front(s)) = n
        /\ \A i \in 1..n : Front(s)[i] = s[i]
    BY <2>3, <2>4
  <2> QED BY <2>5 DEF n
<1>3. Last(s) = s[Len(s)] BY DEF Last
<1>4. s[Len(s)] \in S BY <1>1, ElementOfSeq
<1> QED BY <1>1, <1>2, <1>3, <1>4

\* The same for Append.
LEMMA Appending ==
  ASSUME NEW S, NEW s \in Seq(S), NEW e \in S
  PROVE  /\ Append(s, e) \in Seq(S) /\ Len(Append(s, e)) = Len(s) + 1 /\ Len(s) \in Nat
         /\ \A i \in 1..Len(s) : Append(s, e)[i] = s[i]
         /\ Append(s, e)[Len(s) + 1] = e
OBVIOUS

-----------------------------------------------------------------------------
(* What a step does to the stacks. *)

\* The other goroutines' stacks are left alone.
OthersKeep(g) == \A h \in Goroutines \ {g} : stack'[h] = stack[h]

\* More workers, same stacks.
LEMMA Widen ==
  ASSUME NEW V, NEW W, V \subseteq W, NEW st \in Stacks(V)
  PROVE  st \in Stacks(W)
<1>1. Frames(V) \subseteq Frames(W) BY DEF Frames, DerivedVMs
<1>2. Seq(Frames(V)) \subseteq Seq(Frames(W)) BY <1>1
<1> QED BY <1>2 DEF Stacks

\* A frame is pushed.
LEMMA Pushed ==
  ASSUME NEW V, stack \in Stacks(V), NEW g \in Goroutines, NEW f \in Frames(V),
         stack' = [stack EXCEPT ![g] = Append(stack[g], f)]
  PROVE  /\ stack' \in Stacks(V) /\ OthersKeep(g)
         /\ Len(stack[g]) \in Nat /\ Len(stack'[g]) = Len(stack[g]) + 1
         /\ \A i \in 1..Len(stack[g]) : stack'[g][i] = stack[g][i]
         /\ stack'[g][Len(stack[g]) + 1] = f
<1>1. stack[g] \in Seq(Frames(V)) BY DEF Stacks
<1>2. stack'[g] = Append(stack[g], f) /\ OthersKeep(g) BY DEF Stacks, OthersKeep
<1>3. Append(stack[g], f) \in Seq(Frames(V)) BY <1>1, Appending
<1>4. stack' \in Stacks(V) BY <1>3 DEF Stacks
<1> QED BY <1>1, <1>2, <1>4, Appending

\* The innermost frame ends.
LEMMA Popped ==
  ASSUME NEW V, stack \in Stacks(V), NEW g \in Goroutines, stack[g] # <<>>, Pop(g)
  PROVE  /\ stack' \in Stacks(V) /\ OthersKeep(g)
         /\ Len(stack[g]) \in Nat \ {0} /\ Len(stack'[g]) = Len(stack[g]) - 1
         /\ \A i \in 1..(Len(stack[g]) - 1) : stack'[g][i] = stack[g][i]
         /\ Top(g) = stack[g][Len(stack[g])]
<1>1. stack[g] \in Seq(Frames(V)) BY DEF Stacks
<1>2. stack'[g] = Front(stack[g]) /\ OthersKeep(g) BY DEF Stacks, OthersKeep, Pop
<1>3. Front(stack[g]) \in Seq(Frames(V)) BY <1>1, FrontLast
<1>4. stack' \in Stacks(V) BY <1>3 DEF Stacks, Pop
<1> QED BY <1>1, <1>2, <1>4, FrontLast DEF Top

\* The innermost frame becomes another one.
LEMMA Replaced ==
  ASSUME NEW V, stack \in Stacks(V), NEW g \in Goroutines, stack[g] # <<>>,
         NEW f \in Frames(V), Replace(g, f)
  PROVE  /\ stack' \in Stacks(V) /\ OthersKeep(g)
         /\ Len(stack[g]) \in Nat \ {0} /\ Len(stack'[g]) = Len(stack[g])
         /\ \A i \in 1..(Len(stack[g]) - 1) : stack'[g][i] = stack[g][i]
         /\ stack'[g][Len(stack[g])] = f
         /\ Top(g) = stack[g][Len(stack[g])]
<1>1. stack[g] \in Seq(Frames(V)) BY DEF Stacks
<1>2. stack'[g] = Append(Front(stack[g]), f) /\ OthersKeep(g) BY DEF Stacks, OthersKeep, Replace
<1>3. /\ Front(stack[g]) \in Seq(Frames(V)) /\ Len(stack[g]) \in Nat \ {0}
      /\ Len(Front(stack[g])) = Len(stack[g]) - 1 /\ Top(g) = stack[g][Len(stack[g])]
      /\ \A i \in 1..(Len(stack[g]) - 1) : Front(stack[g])[i] = stack[g][i]
  BY <1>1, FrontLast DEF Top
<1>4. Append(Front(stack[g]), f) \in Seq(Frames(V)) BY <1>3, Appending
<1>5. stack' \in Stacks(V) BY <1>4 DEF Stacks, Replace
<1>6. /\ Len(stack'[g]) = (Len(stack[g]) - 1) + 1 /\ stack'[g][(Len(stack[g]) - 1) + 1] = f
      /\ \A i \in 1..(Len(stack[g]) - 1) : stack'[g][i] = Front(stack[g])[i]
  BY <1>2, <1>3, Appending
<1>7. (Len(stack[g]) - 1) + 1 = Len(stack[g]) BY <1>3
<1> QED BY <1>2, <1>3, <1>5, <1>6, <1>7

\* A frame is one of the load frames when it is on the stack and a load; likewise calls.
LEMMA LoadFrames ==
  ASSUME NEW V, stack \in Stacks(V), NEW g \in Goroutines
  PROVE  /\ Len(stack[g]) \in Nat /\ DOMAIN stack[g] = 1..Len(stack[g])
         /\ FramesOf(g, "load") = {i \in 1..Len(stack[g]) : stack[g][i].k = "load"}
         /\ FramesOf(g, "call") = {i \in 1..Len(stack[g]) : stack[g][i].k = "call"}
         /\ \A i \in 1..Len(stack[g]) : stack[g][i] \in Frames(V)
<1>1. stack[g] \in Seq(Frames(V)) BY DEF Stacks
<1>2. Len(stack[g]) \in Nat /\ DOMAIN stack[g] = 1..Len(stack[g]) BY <1>1, LenProperties
<1>3. \A i \in 1..Len(stack[g]) : stack[g][i] \in Frames(V) BY <1>1, ElementOfSeq
<1> QED BY <1>2, <1>3 DEF FramesOf

\* Two frames of one call: the globals of its derived VM are left out.
SameCall(e, f) == e.m = f.m /\ e.vm = f.vm /\ e.own = f.own /\ e.callVM.on = f.callVM.on

\* The calls in progress are the same, in the same places.
SameCalls ==
  \A h \in Goroutines :
    /\ FramesOf(h, "call")' = FramesOf(h, "call")
    /\ \A i \in FramesOf(h, "call") : SameCall(stack'[h][i], stack[h][i])

\* A step that changes one stack above all its calls leaves the calls alone.
LEMMA CallsBelow ==
  ASSUME NEW V, stack \in Stacks(V), NEW W, stack' \in Stacks(W), NEW g \in Goroutines,
         OthersKeep(g), NEW n \in Nat, n <= Len(stack[g]), n <= Len(stack'[g]),
         \A i \in 1..n : stack'[g][i] = stack[g][i],
         \A i \in 1..Len(stack[g]) : i > n => stack[g][i].k # "call",
         \A i \in 1..Len(stack'[g]) : i > n => stack'[g][i].k # "call"
  PROVE  SameCalls
<1>1. /\ Len(stack[g]) \in Nat
      /\ FramesOf(g, "call") = {i \in 1..Len(stack[g]) : stack[g][i].k = "call"}
  BY LoadFrames
<1>2. /\ Len(stack'[g]) \in Nat
      /\ FramesOf(g, "call")' = {i \in 1..Len(stack'[g]) : stack'[g][i].k = "call"}
  <2>1. stack'[g] \in Seq(Frames(W)) BY DEF Stacks
  <2>2. Len(stack'[g]) \in Nat /\ DOMAIN stack'[g] = 1..Len(stack'[g]) BY <2>1, LenProperties
  <2> QED BY <2>2 DEF FramesOf
<1>3. \A i \in FramesOf(g, "call") : i \in 1..n BY <1>1
<1>4. \A i \in FramesOf(g, "call")' : i \in 1..n BY <1>2
<1>5. ASSUME NEW i \in FramesOf(g, "call") PROVE i \in FramesOf(g, "call")'
  BY <1>1, <1>2, <1>3
<1>6. ASSUME NEW i \in FramesOf(g, "call")' PROVE i \in FramesOf(g, "call")
  BY <1>1, <1>2, <1>4
<1>7. FramesOf(g, "call")' = FramesOf(g, "call") BY <1>5, <1>6
<1>8. ASSUME NEW h \in Goroutines, h # g
      PROVE  FramesOf(h, "call")' = FramesOf(h, "call") /\ stack'[h] = stack[h]
  BY <1>8 DEF OthersKeep, FramesOf
<1>9. ASSUME NEW h \in Goroutines, NEW i \in FramesOf(h, "call") PROVE stack'[h][i] = stack[h][i]
  BY <1>3, <1>8
<1> QED BY <1>7, <1>8, <1>9 DEF SameCalls, SameCall

-----------------------------------------------------------------------------
(* Steps that neither start nor end a load. *)

\* They leave every goroutine the loads it has.
SameLoads ==
  \A h \in Goroutines :
    /\ FramesOf(h, "load")' = FramesOf(h, "load")
    /\ \A i \in FramesOf(h, "load") : stack'[h][i].m = stack[h][i].m

\* The load state is then as clean as it was.
LEMMA SameLoadsClean ==
  ASSUME LoadStateClean, PathsOnce, SameLoads, UNCHANGED <<loading, paths, lock>>
  PROVE  LoadStateClean' /\ PathsOnce'
<1>1. PathsOnce' BY DEF PathsOnce
<1>2. ASSUME NEW h \in Goroutines, NEW i \in FramesOf(h, "load")
      PROVE  FromTop(h, i)' = FromTop(h, i)
  BY DEF SameLoads, FromTop
<1>3. (lock.owner = None => loading = {} /\ paths = <<>> /\ lock.count = 0)'
  BY DEF LoadStateClean
<1>4. ASSUME NEW h \in Goroutines, lock.owner' = h
      PROVE  /\ lock.count' = Len(paths') /\ Len(paths') = Cardinality(FramesOf(h, "load")')
             /\ \A i \in FramesOf(h, "load")' : paths'[FromTop(h, i)'] = Path[stack'[h][i].m]
             /\ loading' = ToSet(paths')
  <2>1. /\ lock.count = Len(paths) /\ Len(paths) = Cardinality(FramesOf(h, "load"))
        /\ \A i \in FramesOf(h, "load") : paths[FromTop(h, i)] = Path[stack[h][i].m]
        /\ loading = ToSet(paths)
    BY <1>4 DEF LoadStateClean
  <2>2. /\ FramesOf(h, "load")' = FramesOf(h, "load")
        /\ \A i \in FramesOf(h, "load") : stack'[h][i].m = stack[h][i].m
    BY DEF SameLoads
  <2> QED BY <1>2, <2>1, <2>2
<1>5. ASSUME NEW h \in Goroutines, lock.owner' # h PROVE FramesOf(h, "load")' = {}
  BY <1>5 DEF LoadStateClean, SameLoads
<1> QED BY <1>1, <1>3, <1>4, <1>5 DEF LoadStateClean

\* Nothing that is being loaded is published, if nothing is published.
LEMMA SameLoadsUnpublished ==
  ASSUME LoadInv, SameLoads, \A m \in Modules : records'[m] = "full" => records[m] = "full"
  PROVE  LoadingUnpublished'
<1>1. PICK V : stack \in Stacks(V) BY DEF LoadInv, LoadTypes
<1>2. SUFFICES ASSUME NEW g \in Goroutines, NEW i \in FramesOf(g, "load")'
               PROVE  records'[stack'[g][i].m] # "full"
  BY DEF LoadingUnpublished
<1>3. i \in FramesOf(g, "load") /\ stack'[g][i].m = stack[g][i].m BY DEF SameLoads
<1>4. stack[g][i].m \in Modules BY <1>1, <1>3, LoadFrames DEF Frames
<1>5. records[stack[g][i].m] # "full" BY <1>3 DEF LoadInv, LoadingUnpublished
<1> QED BY <1>3, <1>4, <1>5

\* A frame that is still there, and whose pending import is still pending or recorded,
\* has passed its imports.
LEMMA StillPassed ==
  ASSUME NEW h \in Goroutines, NEW i, ImportsPassed(h, i), UNCHANGED imports,
         stack'[h][i].m = stack[h][i].m, stack'[h][i].at = stack[h][i].at,
         \A m \in Modules : records[m] # None => records'[m] # None,
         imports[stack[h][i].m] \in Seq(Modules),
         \A m \in Modules : Pending(h, i, m) => Pending(h, i, m)' \/ records'[m] # None
  PROVE  ImportsPassed(h, i)'
<1> DEFINE want == imports[stack[h][i].m]
<1>1. SUFFICES ASSUME NEW n \in 1..(stack[h][i].at - 1)
               PROVE  /\ n \in DOMAIN want
                      /\ \/ records'[want[n]] # None
                         \/ n = stack[h][i].at - 1 /\ Pending(h, i, want[n])'
  BY DEF ImportsPassed
<1>2. /\ n \in DOMAIN want
      /\ records[want[n]] # None \/ (n = stack[h][i].at - 1 /\ Pending(h, i, want[n]))
  BY DEF ImportsPassed
<1>3. want[n] \in Modules
  <2>1. DOMAIN want = 1..Len(want) BY LenProperties
  <2> QED BY <1>2, <2>1, ElementOfSeq
<1>4. PICK m \in Modules : m = want[n] /\ m = (want[n])' BY <1>3
<1>5. records'[m] # None \/ (n = stack[h][i].at - 1 /\ Pending(h, i, m)')
  <2>1. records[m] # None \/ (n = stack[h][i].at - 1 /\ Pending(h, i, m)) BY <1>2, <1>4
  <2> QED BY <2>1
<1>6. CASE records'[m] # None BY <1>2, <1>4, <1>6
<1>7. CASE n = stack[h][i].at - 1 /\ Pending(h, i, m)'
  <2>1. Pending(h, i, want[n])' BY <1>4, <1>7 DEF Pending
  <2> QED BY <1>2, <1>7, <2>1
<1> QED BY <1>5, <1>6, <1>7

\* The goroutines that do not take the step.
LEMMA OthersPassed ==
  ASSUME LoadInv, NEW g \in Goroutines, OthersKeep(g), UNCHANGED imports,
         \A m \in Modules : records[m] # None => records'[m] # None,
         \A h \in Goroutines \ {g} : bad'[h] = bad[h]
  PROVE  /\ \A h \in Goroutines \ {g} : FramesOf(h, "load")' = FramesOf(h, "load")
         /\ \A h \in Goroutines \ {g} : \A i \in FramesOf(h, "load")' : ImportsPassed(h, i)'
<1>1. PICK V : stack \in Stacks(V) BY DEF LoadInv, LoadTypes
<1>2. ASSUME NEW h \in Goroutines \ {g} PROVE FramesOf(h, "load")' = FramesOf(h, "load")
  BY DEF OthersKeep, FramesOf
<1>3. ASSUME NEW h \in Goroutines \ {g}, NEW i \in FramesOf(h, "load")
      PROVE  ImportsPassed(h, i)'
  <2>1. i \in 1..Len(stack[h]) /\ stack[h][i] \in Frames(V) BY <1>1, LoadFrames
  <2>2. imports[stack[h][i].m] \in Seq(Modules) BY <2>1 DEF LoadInv, LoadTypes, Frames
  <2>3. stack'[h] = stack[h] /\ bad'[h] = bad[h] BY DEF OthersKeep
  <2>4. \A m \in Modules : Pending(h, i, m) => Pending(h, i, m)' BY <2>3 DEF Pending
  <2>5. ImportsPassed(h, i) BY DEF LoadInv, BodiesInOrder
  <2> QED BY <2>2, <2>3, <2>4, <2>5, StillPassed
<1> QED BY <1>2, <1>3

\* A published module stays whole while records only fill up and none becomes full.
LEMMA StillWhole ==
  ASSUME LoadInv, UNCHANGED <<imports, failing>>,
         \A m \in Modules : records[m] # None => records'[m] # None,
         \A m \in Modules : records'[m] = "full" => records[m] = "full"
  PROVE  PublishedWhole'
<1>1. SUFFICES ASSUME NEW m \in Modules, records'[m] = "full"
               PROVE  m \notin failing /\ \A i \in DOMAIN imports[m] : records'[imports[m][i]] # None
  BY DEF PublishedWhole
<1>2. m \notin failing /\ \A i \in DOMAIN imports[m] : records[imports[m][i]] # None
  BY <1>1 DEF LoadInv, PublishedWhole
<1>3. imports[m] \in Seq(Modules) BY DEF LoadInv, LoadTypes
<1>4. ASSUME NEW i \in DOMAIN imports[m] PROVE imports[m][i] \in Modules
  <2>1. DOMAIN imports[m] = 1..Len(imports[m]) BY <1>3, LenProperties
  <2> QED BY <1>3, <2>1, ElementOfSeq
<1> QED BY <1>2, <1>4

\* A step that changes no stack, and no error that a load waits for.
LEMMA StackKept ==
  ASSUME LoadInv, UNCHANGED <<imports, failing, records, loading, paths, lock, stack>>,
         bad' \in [Goroutines -> BOOLEAN],
         \A g \in Goroutines : bad'[g] = bad[g] \/ Len(stack[g]) \notin FramesOf(g, "load")
  PROVE  LoadInv'
<1>1. LoadTypes' BY DEF LoadInv, LoadTypes
<1>2. SameLoads BY DEF SameLoads, FramesOf
<1>3. LoadStateClean' /\ PathsOnce' BY <1>2, SameLoadsClean DEF LoadInv
<1>4. LoadingUnpublished' BY <1>2, SameLoadsUnpublished
<1>5. PublishedWhole' BY DEF LoadInv, PublishedWhole
<1>6. PICK V : stack \in Stacks(V) BY DEF LoadInv, LoadTypes
<1>7. ASSUME NEW h \in Goroutines, NEW i \in FramesOf(h, "load")' PROVE ImportsPassed(h, i)'
  <2>1. i \in FramesOf(h, "load") /\ stack[h][i] \in Frames(V)
    BY <1>2, <1>6, LoadFrames DEF SameLoads
  <2>2. imports[stack[h][i].m] \in Seq(Modules) BY <2>1 DEF LoadInv, LoadTypes, Frames
  <2>3. \A m \in Modules : Pending(h, i, m) => Pending(h, i, m)' BY <2>1 DEF Pending
  <2>4. ImportsPassed(h, i) BY <2>1 DEF LoadInv, BodiesInOrder
  <2> QED BY <2>2, <2>3, <2>4, StillPassed
<1> QED BY <1>1, <1>3, <1>4, <1>5, <1>7 DEF LoadInv, BodiesInOrder

\* A step that puts a wait or a call on a stack that no error has reached.
LEMMA FramePushed ==
  ASSUME LoadInv, UNCHANGED <<imports, failing, records, loading, paths, lock, bad>>,
         NEW g \in Goroutines, ~bad[g],
         NEW k \in {"wait", "call"}, NEW m \in Modules, NEW vm, NEW own \in BOOLEAN,
         NEW C, NEW callVM \in DerivedVMs(C),
         stack' = [stack EXCEPT ![g] = Append(stack[g], Frame(k, m, vm, own, callVM))]
  PROVE  LoadInv' /\ (k = "wait" => SameCalls)
<1>1. PICK V : stack \in Stacks(V) BY DEF LoadInv, LoadTypes
<1> DEFINE W == V \cup C \cup {vm}
           f == Frame(k, m, vm, own, callVM)
           n == Len(stack[g])
<1>2. stack \in Stacks(W) BY <1>1, Widen
<1>3. f \in Frames(W) /\ f.k = k
  <2>1. callVM \in DerivedVMs(W) BY DEF DerivedVMs
  <2> QED BY <2>1 DEF Frames, Frame
<1> HIDE DEF W, f
<1>4. /\ stack' \in Stacks(W) /\ OthersKeep(g)
      /\ n \in Nat /\ Len(stack'[g]) = n + 1
      /\ \A i \in 1..n : stack'[g][i] = stack[g][i]
      /\ stack'[g][n + 1] = f
  BY <1>2, <1>3, Pushed DEF f
<1>5. LoadTypes' BY <1>4 DEF LoadInv, LoadTypes
<1>6. /\ FramesOf(g, "load") = {i \in 1..n : stack[g][i].k = "load"}
      /\ FramesOf(g, "load")' = {i \in 1..(n + 1) : stack'[g][i].k = "load"}
  <2>1. FramesOf(g, "load") = {i \in 1..n : stack[g][i].k = "load"} BY <1>1, LoadFrames
  <2>2. DOMAIN stack'[g] = 1..(n + 1)
    <3>1. stack'[g] \in Seq(Frames(W)) BY <1>4 DEF Stacks
    <3> QED BY <1>4, <3>1, LenProperties
  <2> QED BY <2>1, <2>2 DEF FramesOf
<1>7. FramesOf(g, "load")' = FramesOf(g, "load")
  <2>1. stack'[g][n + 1].k # "load" BY <1>3, <1>4
  <2>2. \A i \in 1..(n + 1) : i \in 1..n \/ i = n + 1 BY <1>4
  <2>3. \A i \in 1..n : i \in 1..(n + 1) BY <1>4
  <2>4. ASSUME NEW i \in FramesOf(g, "load")' PROVE i \in FramesOf(g, "load")
    BY <1>4, <1>6, <2>1, <2>2
  <2>5. ASSUME NEW i \in FramesOf(g, "load") PROVE i \in FramesOf(g, "load")'
    BY <1>4, <1>6, <2>3
  <2> QED BY <2>4, <2>5
<1>8. /\ \A h \in Goroutines \ {g} : FramesOf(h, "load")' = FramesOf(h, "load")
      /\ \A h \in Goroutines \ {g} : \A i \in FramesOf(h, "load")' : ImportsPassed(h, i)'
  BY <1>4, OthersPassed
<1>9. SameLoads
  <2>1. ASSUME NEW h \in Goroutines PROVE FramesOf(h, "load")' = FramesOf(h, "load")
    BY <1>7, <1>8
  <2>2. ASSUME NEW h \in Goroutines, NEW i \in FramesOf(h, "load") PROVE stack'[h][i] = stack[h][i]
    BY <1>4, <1>6 DEF OthersKeep
  <2> QED BY <2>1, <2>2 DEF SameLoads
<1>10. LoadStateClean' /\ PathsOnce' BY <1>9, SameLoadsClean DEF LoadInv
<1>11. LoadingUnpublished' BY <1>9, SameLoadsUnpublished
<1>12. PublishedWhole' BY DEF LoadInv, PublishedWhole
<1>13. ASSUME NEW i \in FramesOf(g, "load")' PROVE ImportsPassed(g, i)'
  <2>1. i \in FramesOf(g, "load") /\ i \in 1..n /\ stack[g][i] \in Frames(V)
    BY <1>1, <1>6, <1>7, LoadFrames
  <2>2. imports[stack[g][i].m] \in Seq(Modules) BY <2>1 DEF LoadInv, LoadTypes, Frames
  <2>3. ASSUME NEW mm \in Modules, Pending(g, i, mm) PROVE Pending(g, i, mm)'
    <3>1. i < n /\ stack[g][i + 1].k \in {"wait", "load"} /\ stack[g][i + 1].m = mm
      BY <2>3 DEF Pending
    <3>2. stack'[g][i + 1] = stack[g][i + 1] /\ i < n + 1 BY <1>4, <2>1, <3>1
    <3> QED BY <1>4, <3>1, <3>2 DEF Pending
  <2>4. ImportsPassed(g, i) BY <2>1 DEF LoadInv, BodiesInOrder
  <2>5. stack'[g][i] = stack[g][i] BY <1>4, <2>1
  <2> QED BY <2>2, <2>3, <2>4, <2>5, StillPassed
<1>14. BodiesInOrder' BY <1>8, <1>13 DEF BodiesInOrder
<1>15. ASSUME k = "wait" PROVE SameCalls
  <2>1. \A i \in 1..(n + 1) : i > n => i = n + 1 BY <1>4
  <2>2. \A i \in 1..Len(stack'[g]) : i > n => stack'[g][i].k # "call" BY <1>3, <1>4, <1>15, <2>1
  <2>3. \A i \in 1..n : ~(i > n) BY <1>4
  <2>4. n <= n /\ n <= Len(stack'[g]) BY <1>4
  <2> HIDE DEF n
  <2>5. n = Len(stack[g]) BY DEF n
  <2> QED BY <1>1, <1>4, <2>2, <2>3, <2>4, <2>5, CallsBelow
<1> QED BY <1>15, <1>5, <1>10, <1>11, <1>12, <1>14 DEF LoadInv

\* What a frame leaves to the load frame below it when it ends.
LEMMA BelowPassed ==
  ASSUME LoadInv, UNCHANGED imports, NEW g \in Goroutines, stack[g] # <<>>, Pop(g),
         \A m \in Modules : records[m] # None => records'[m] # None,
         Top(g).k # "call" => bad'[g] \/ records'[Top(g).m] # None,
         NEW i \in FramesOf(g, "load"), i < Len(stack[g])
  PROVE  ImportsPassed(g, i)'
<1>1. PICK V : stack \in Stacks(V) BY DEF LoadInv, LoadTypes
<1> DEFINE n == Len(stack[g])
<1>2. /\ n \in Nat \ {0} /\ Len(stack'[g]) = n - 1
      /\ \A j \in 1..(n - 1) : stack'[g][j] = stack[g][j]
      /\ Top(g) = stack[g][n]
  BY <1>1, Popped
<1>3. i \in 1..(n - 1) /\ stack[g][i] \in Frames(V) BY <1>1, <1>2, LoadFrames
<1>4. imports[stack[g][i].m] \in Seq(Modules) BY <1>3 DEF LoadInv, LoadTypes, Frames
<1>5. ASSUME NEW m \in Modules, Pending(g, i, m) PROVE Pending(g, i, m)' \/ records'[m] # None
  <2>1. i < n /\ stack[g][i + 1].k \in {"wait", "load"} /\ stack[g][i + 1].m = m
    BY <1>2, <1>3, <1>5 DEF Pending
  <2>2. CASE i = n - 1
    <3>1. i + 1 = n BY <1>2, <2>2
    <3>2. Top(g).k # "call" /\ Top(g).m = m BY <1>2, <2>1, <3>1
    <3>3. CASE bad'[g] BY <1>2, <2>2, <3>3 DEF Pending
    <3>4. CASE records'[m] # None BY <3>4
    <3> QED BY <3>2, <3>3, <3>4
  <2>3. CASE i # n - 1
    <3>1. i < n - 1 /\ stack'[g][i + 1] = stack[g][i + 1] BY <1>2, <1>3, <2>3
    <3> QED BY <1>2, <2>1, <3>1 DEF Pending
  <2> QED BY <2>2, <2>3
<1>6. ImportsPassed(g, i) BY DEF LoadInv, BodiesInOrder
<1>7. stack'[g][i] = stack[g][i] BY <1>2, <1>3
<1> QED BY <1>4, <1>5, <1>6, <1>7, StillPassed

\* A step that takes a wait or a call off a stack: the import a load frame below was
\* waiting for is recorded, or its error is there.
LEMMA FramePopped ==
  ASSUME LoadInv, UNCHANGED <<imports, failing, loading, paths, lock>>,
         NEW g \in Goroutines, stack[g] # <<>>, Top(g).k \in {"wait", "call"}, Pop(g),
         records' \in [Modules -> {None, "native", "full"}],
         \A m \in Modules : records[m] # None => records'[m] # None,
         \A m \in Modules : records'[m] = "full" => records[m] = "full",
         bad' \in [Goroutines -> BOOLEAN], \A h \in Goroutines \ {g} : bad'[h] = bad[h],
         Top(g).k = "wait" => bad'[g] \/ records'[Top(g).m] # None
  PROVE  LoadInv'
<1>1. PICK V : stack \in Stacks(V) BY DEF LoadInv, LoadTypes
<1> DEFINE n == Len(stack[g])
<1>2. /\ stack' \in Stacks(V) /\ OthersKeep(g)
      /\ n \in Nat \ {0} /\ Len(stack'[g]) = n - 1
      /\ \A i \in 1..(n - 1) : stack'[g][i] = stack[g][i]
      /\ Top(g) = stack[g][n]
  BY <1>1, Popped
<1>3. LoadTypes' BY <1>2 DEF LoadInv, LoadTypes
<1>4. /\ FramesOf(g, "load") = {i \in 1..n : stack[g][i].k = "load"}
      /\ FramesOf(g, "load")' = {i \in 1..(n - 1) : stack'[g][i].k = "load"}
  <2>1. FramesOf(g, "load") = {i \in 1..n : stack[g][i].k = "load"} BY <1>1, LoadFrames
  <2>2. DOMAIN stack'[g] = 1..(n - 1)
    <3>1. stack'[g] \in Seq(Frames(V)) BY <1>2 DEF Stacks
    <3> QED BY <1>2, <3>1, LenProperties
  <2> QED BY <2>1, <2>2 DEF FramesOf
<1>5. FramesOf(g, "load")' = FramesOf(g, "load")
  <2>1. stack[g][n].k # "load" BY <1>2
  <2>2. \A i \in 1..n : i \in 1..(n - 1) \/ i = n BY <1>2
  <2>3. \A i \in 1..(n - 1) : i \in 1..n BY <1>2
  <2>4. ASSUME NEW i \in FramesOf(g, "load")' PROVE i \in FramesOf(g, "load")
    BY <1>2, <1>4, <2>3
  <2>5. ASSUME NEW i \in FramesOf(g, "load") PROVE i \in FramesOf(g, "load")'
    BY <1>2, <1>4, <2>1, <2>2
  <2> QED BY <2>4, <2>5
<1>6. /\ \A h \in Goroutines \ {g} : FramesOf(h, "load")' = FramesOf(h, "load")
      /\ \A h \in Goroutines \ {g} : \A i \in FramesOf(h, "load")' : ImportsPassed(h, i)'
  BY <1>2, OthersPassed
<1>7. SameLoads
  <2>1. ASSUME NEW h \in Goroutines PROVE FramesOf(h, "load")' = FramesOf(h, "load")
    BY <1>5, <1>6
  <2>2. ASSUME NEW h \in Goroutines, NEW i \in FramesOf(h, "load") PROVE stack'[h][i] = stack[h][i]
    BY SMTT(30), <1>2, <1>4, <1>5 DEF OthersKeep
  <2> QED BY <2>1, <2>2 DEF SameLoads
<1>8. LoadStateClean' /\ PathsOnce' BY <1>7, SameLoadsClean DEF LoadInv
<1>9. LoadingUnpublished' BY <1>7, SameLoadsUnpublished
<1>10. PublishedWhole' BY StillWhole
<1>11. ASSUME NEW i \in FramesOf(g, "load")' PROVE ImportsPassed(g, i)'
  <2>1. i \in FramesOf(g, "load") /\ i < n BY <1>2, <1>4, <1>5
  <2> QED BY <2>1, BelowPassed
<1>12. BodiesInOrder' BY <1>6, <1>11 DEF BodiesInOrder
<1> QED BY <1>3, <1>8, <1>9, <1>10, <1>12 DEF LoadInv

-----------------------------------------------------------------------------
(* An import of a body. *)

\* A load frame moves on to its next import.
LEMMA Advanced ==
  ASSUME NEW V, NEW f \in Frames(V)
  PROVE  LET e == [f EXCEPT !.at = @ + 1]
         IN  e \in Frames(V) /\ e.k = f.k /\ e.m = f.m /\ e.at = f.at + 1
<1>1. f.at + 1 \in Nat \ {0} BY DEF Frames
<1> QED BY <1>1 DEF Frames

\* The frame has passed one import more, which is recorded, or pending in the new frame
\* on top of it.
LEMMA BodyImportsStep ==
  ASSUME LoadInv, NEW g \in Goroutines, BodyImports(g)
  PROVE  LoadInv' /\ SameCalls
<1>1. PICK V : stack \in Stacks(V) BY DEF LoadInv, LoadTypes
<1> DEFINE W == V \cup {NoVM, NoCallVM.globals, NoCallVM.dirty}
           n == Len(stack[g])
           f == stack[g][n]
           im == imports[f.m][f.at]
           e == [f EXCEPT !.at = @ + 1]
           w == Frame("wait", im, NoVM, FALSE, NoCallVM)
           rest == Append(Front(stack[g]), e)
<1>2. stack \in Stacks(W) /\ stack[g] \in Seq(Frames(W)) /\ stack[g] # <<>>
  <2>1. stack \in Stacks(W) BY <1>1, Widen
  <2> QED BY <2>1 DEF Stacks, BodyImports, In
<1>3. /\ Front(stack[g]) \in Seq(Frames(W)) /\ Len(Front(stack[g])) = n - 1 /\ n \in Nat \ {0}
      /\ \A i \in 1..(n - 1) : Front(stack[g])[i] = stack[g][i]
      /\ Top(g) = f /\ f \in Frames(W)
  BY <1>2, FrontLast DEF Top
<1>4. /\ f.k = "load" /\ ~bad[g] /\ f.at <= Len(imports[f.m])
      /\ stack' = [stack EXCEPT ![g] = IF records[im] # None THEN rest ELSE Append(rest, w)]
      /\ UNCHANGED <<imports, failing, records, loading, paths, lock, bad>>
  BY <1>3 DEF BodyImports, In, Import, loadVars
<1>5. f.m \in Modules /\ f.at \in Nat \ {0} /\ imports[f.m] \in Seq(Modules)
  BY <1>3 DEF Frames, LoadInv, LoadTypes
<1>6. f.at \in 1..Len(imports[f.m]) /\ DOMAIN imports[f.m] = 1..Len(imports[f.m]) /\ im \in Modules
  <2>1. DOMAIN imports[f.m] = 1..Len(imports[f.m]) /\ Len(imports[f.m]) \in Nat
    BY <1>5, LenProperties
  <2>2. f.at \in 1..Len(imports[f.m]) BY <1>4, <1>5, <2>1
  <2> QED BY <1>5, <2>1, <2>2, ElementOfSeq
<1>7. e \in Frames(W) /\ e.k = "load" /\ e.m = f.m /\ e.at = f.at + 1
  BY <1>3, <1>4, Advanced
<1>8. w \in Frames(W) /\ w.k = "wait" /\ w.m = im
  <2>1. NoCallVM \in DerivedVMs(W) BY DEF NoCallVM, Derived, DerivedVMs
  <2> QED BY <1>6, <2>1 DEF Frames, Frame
<1> HIDE DEF W, e, w
<1>9. /\ rest \in Seq(Frames(W)) /\ Len(rest) = n /\ rest[n] = e
      /\ \A i \in 1..(n - 1) : rest[i] = stack[g][i]
  <2>1. /\ rest \in Seq(Frames(W)) /\ Len(rest) = (n - 1) + 1 /\ rest[(n - 1) + 1] = e
        /\ \A i \in 1..(n - 1) : rest[i] = Front(stack[g])[i]
    BY <1>3, <1>7, Appending
  <2>2. (n - 1) + 1 = n BY <1>3
  <2> QED BY <1>3, <2>1, <2>2
<1> HIDE DEF rest
<1>10. /\ Append(rest, w) \in Seq(Frames(W)) /\ Len(Append(rest, w)) = n + 1
       /\ Append(rest, w)[n + 1] = w
       /\ \A i \in 1..n : Append(rest, w)[i] = rest[i]
  BY <1>8, <1>9, Appending
<1>11. stack'[g] = IF records[im] # None THEN rest ELSE Append(rest, w)
  BY <1>2, <1>4 DEF Stacks
<1>12. /\ stack'[g] \in Seq(Frames(W))
       /\ \A i \in 1..(n - 1) : stack'[g][i] = stack[g][i]
       /\ stack'[g][n] = e
       /\ \/ records[im] # None /\ Len(stack'[g]) = n
          \/ records[im] = None /\ Len(stack'[g]) = n + 1 /\ stack'[g][n + 1] = w
  <2>1. CASE records[im] # None BY <1>9, <1>11, <2>1
  <2>2. CASE records[im] = None
    <3>1. \A i \in 1..(n - 1) : i \in 1..n BY <1>3
    <3>2. n \in 1..n BY <1>3
    <3> QED BY <1>9, <1>10, <1>11, <2>2, <3>1, <3>2
  <2> QED BY <2>1, <2>2
<1>13. stack' \in Stacks(W) /\ OthersKeep(g) BY <1>2, <1>4, <1>11, <1>12 DEF Stacks, OthersKeep
<1>14. LoadTypes' BY <1>4, <1>13 DEF LoadInv, LoadTypes
<1>15. FramesOf(g, "load")' = FramesOf(g, "load")
  <2>1. FramesOf(g, "load") = {i \in 1..n : stack[g][i].k = "load"} BY <1>1, LoadFrames
  <2>2. DOMAIN stack'[g] = 1..Len(stack'[g]) BY <1>12, LenProperties
  <2>3. FramesOf(g, "load")' = {i \in 1..Len(stack'[g]) : stack'[g][i].k = "load"}
    BY <2>2 DEF FramesOf
  <2>4. \A i \in 1..n : i \in 1..(n - 1) \/ i = n BY <1>3
  <2>5. \A i \in 1..n : stack'[g][i].k = stack[g][i].k BY <1>4, <1>7, <1>12, <2>4
  <2>6. \A i \in 1..n : i \in 1..Len(stack'[g]) BY <1>3, <1>12
  <2>7. \A i \in 1..Len(stack'[g]) : i \in 1..n \/ stack'[g][i].k = "wait" BY <1>3, <1>8, <1>12
  <2>8. ASSUME NEW i \in FramesOf(g, "load")' PROVE i \in FramesOf(g, "load")
    BY <2>1, <2>3, <2>5, <2>7
  <2>9. ASSUME NEW i \in FramesOf(g, "load") PROVE i \in FramesOf(g, "load")'
    BY <2>1, <2>3, <2>5, <2>6
  <2> QED BY <2>8, <2>9
<1>16. /\ \A h \in Goroutines \ {g} : FramesOf(h, "load")' = FramesOf(h, "load")
       /\ \A h \in Goroutines \ {g} : \A i \in FramesOf(h, "load")' : ImportsPassed(h, i)'
  BY <1>4, <1>13, OthersPassed
<1>17. \A i \in FramesOf(g, "load") : i \in 1..(n - 1) \/ i = n
  BY <1>1, <1>3, LoadFrames
<1>18. SameLoads
  <2>1. ASSUME NEW h \in Goroutines PROVE FramesOf(h, "load")' = FramesOf(h, "load")
    BY <1>15, <1>16
  <2>2. ASSUME NEW i \in FramesOf(g, "load") PROVE stack'[g][i].m = stack[g][i].m
    BY <1>7, <1>12, <1>17
  <2>3. ASSUME NEW h \in Goroutines, NEW i \in FramesOf(h, "load") PROVE stack'[h][i].m = stack[h][i].m
    BY <1>13, <2>2 DEF OthersKeep
  <2> QED BY <2>1, <2>3 DEF SameLoads
<1>19. LoadStateClean' /\ PathsOnce' BY <1>4, <1>18, SameLoadsClean DEF LoadInv
<1>20. LoadingUnpublished' BY <1>4, <1>18, SameLoadsUnpublished
<1>21. PublishedWhole' BY <1>4 DEF LoadInv, PublishedWhole
<1>22. ASSUME NEW i \in FramesOf(g, "load"), i \in 1..(n - 1) PROVE ImportsPassed(g, i)'
  <2>1. stack[g][i] \in Frames(V) BY <1>1, LoadFrames
  <2>2. imports[stack[g][i].m] \in Seq(Modules) BY <2>1 DEF LoadInv, LoadTypes, Frames
  <2>3. ASSUME NEW m \in Modules, Pending(g, i, m) PROVE Pending(g, i, m)'
    <3>1. i < n /\ stack[g][i + 1].k \in {"wait", "load"} /\ stack[g][i + 1].m = m
      BY <1>3, <1>22, <2>3 DEF Pending
    <3>2. i < Len(stack'[g]) BY <1>3, <1>12, <1>22
    <3>3. stack'[g][i + 1].k = stack[g][i + 1].k /\ stack'[g][i + 1].m = stack[g][i + 1].m
      <4>1. i + 1 \in 1..(n - 1) \/ i + 1 = n BY <1>3, <1>22
      <4> QED BY <1>4, <1>7, <1>12, <4>1
    <3> QED BY <3>1, <3>2, <3>3 DEF Pending
  <2>4. ImportsPassed(g, i) BY DEF LoadInv, BodiesInOrder
  <2>5. stack'[g][i] = stack[g][i] BY <1>12, <1>22
  <2> QED BY <1>4, <2>2, <2>3, <2>4, <2>5, StillPassed
<1>23. ASSUME NEW c, c = n PROVE ImportsPassed(g, c)'
  <2>1. c \in FramesOf(g, "load") BY <1>1, <1>3, <1>4, <1>23, LoadFrames
  <2>2. ImportsPassed(g, c) BY <2>1 DEF LoadInv, BodiesInOrder
  <2>3. \A m \in Modules : ~Pending(g, c, m) BY <1>3, <1>4, <1>23 DEF Pending
  <2>4. ASSUME NEW q \in 1..(f.at - 1) PROVE records[imports[f.m][q]] # None
    <3>1. /\ q \in DOMAIN imports[f.m]
          /\ records[imports[f.m][q]] # None \/ Pending(g, c, imports[f.m][q])
      BY <1>23, <2>2 DEF ImportsPassed
    <3>2. imports[f.m][q] \in Modules BY <1>5, <1>6, <3>1, ElementOfSeq
    <3> QED BY <2>3, <3>1, <3>2
  <2>5. stack'[g][c].m = f.m /\ stack'[g][c].at - 1 = f.at /\ imports' = imports /\ records' = records
    <3>1. stack'[g][c] = e BY <1>12, <1>23
    <3>2. (f.at + 1) - 1 = f.at BY <1>5
    <3>3. imports' = imports /\ records' = records BY <1>4
    <3> QED BY <1>7, <3>1, <3>2, <3>3
  <2>6. ASSUME NEW q \in 1..f.at, NEW x, x = imports[f.m][q]
        PROVE  q \in DOMAIN imports[f.m] /\ (records[x] # None \/ (q = f.at /\ Pending(g, c, x)'))
    <3>1. q \in DOMAIN imports[f.m] BY <1>6
    <3>2. CASE q # f.at
      <4>1. q \in 1..(f.at - 1) BY <1>5, <3>2
      <4> QED BY <2>4, <2>6, <3>1, <4>1
    <3>3. CASE q = f.at
      <4>1. CASE records[im] # None BY <2>6, <3>1, <3>3, <4>1
      <4>2. CASE records[im] = None
        <5>1. Len(stack'[g]) = n + 1 /\ stack'[g][n + 1] = w BY <1>12, <4>2
        <5>2. c < Len(stack'[g]) /\ stack'[g][c + 1].k = "wait" /\ stack'[g][c + 1].m = x
          BY <1>3, <1>8, <1>23, <2>6, <3>3, <5>1
        <5>3. Pending(g, c, x)' BY <5>2 DEF Pending
        <5> QED BY <3>1, <3>3, <5>3
      <4> QED BY <4>1, <4>2
    <3> QED BY <3>2, <3>3
  <2>7. SUFFICES ASSUME NEW q \in 1..f.at
                 PROVE  /\ q \in DOMAIN imports[f.m]
                        /\ \/ records[imports[f.m][q]] # None
                           \/ q = f.at /\ Pending(g, c, imports[stack[g][c].m][q])'
    BY <2>5 DEF ImportsPassed
  <2>8. PICK x : x = imports[f.m][q] OBVIOUS
  <2>9. x = (imports[stack[g][c].m][q])' BY <2>5, <2>8
  <2>10. q \in DOMAIN imports[f.m] /\ (records[x] # None \/ (q = f.at /\ Pending(g, c, x)'))
    BY <2>6, <2>8
  <2>11. Pending(g, c, x)' => Pending(g, c, imports[stack[g][c].m][q])' BY <2>9 DEF Pending
  <2> QED BY <2>8, <2>10, <2>11
<1>24. ASSUME NEW i \in FramesOf(g, "load")' PROVE ImportsPassed(g, i)'
  <2>1. i \in 1..(n - 1) \/ i = n BY <1>15, <1>17
  <2>2. CASE i \in 1..(n - 1) BY <1>15, <1>22, <2>2
  <2>3. CASE i = n BY <1>23, <2>3
  <2> QED BY <2>1, <2>2, <2>3
<1>25. BodiesInOrder' BY <1>16, <1>24 DEF BodiesInOrder
<1>26. SameCalls
  <2>1. \A i \in 1..n : i > n - 1 => i = n BY <1>3
  <2>2. \A i \in 1..n : i > n - 1 => stack[g][i].k # "call" BY <1>4, <2>1
  <2>3. \A i \in 1..Len(stack'[g]) : i > n - 1 => i = n \/ (i = n + 1 /\ Len(stack'[g]) = n + 1)
    BY <1>3, <1>12
  <2>4. \A i \in 1..Len(stack'[g]) : i > n - 1 => stack'[g][i].k # "call"
    BY <1>3, <1>7, <1>8, <1>12, <2>3
  <2>5. n - 1 \in Nat /\ n - 1 <= n /\ n - 1 <= Len(stack'[g]) BY <1>3, <1>12
  <2> QED BY <1>1, <1>12, <1>13, <2>2, <2>4, <2>5, CallsBelow
<1> QED BY <1>26, <1>14, <1>19, <1>20, <1>21, <1>25 DEF LoadInv

-----------------------------------------------------------------------------
(* A load starts, or ends. *)

\* A module directory is put in front of modulePaths.
LEMMA Prepended ==
  ASSUME NEW S, NEW s \in Seq(S), NEW e \in S
  PROVE  LET q == <<e>> \o s
         IN  /\ q \in Seq(S) /\ Len(q) = Len(s) + 1 /\ q[1] = e
             /\ \A i \in 1..Len(s) : q[i + 1] = s[i]
             /\ ToSet(q) = ToSet(s) \cup {e}
<1> DEFINE q == <<e>> \o s
<1>1. <<e>> \in Seq(S) /\ Len(<<e>>) = 1 /\ <<e>>[1] = e OBVIOUS
<1>2. Len(s) \in Nat /\ DOMAIN s = 1..Len(s) BY LenProperties
<1>3. /\ q \in Seq(S) /\ Len(q) = 1 + Len(s)
      /\ \A i \in 1..(1 + Len(s)) : q[i] = IF i <= 1 THEN <<e>>[i] ELSE s[i - 1]
  BY <1>1, ConcatProperties
<1> HIDE DEF q
<1>4. q[1] = e
  <2>1. 1 \in 1..(1 + Len(s)) BY <1>2
  <2> QED BY <1>1, <1>3, <2>1
<1>5. ASSUME NEW i \in 1..Len(s) PROVE q[i + 1] = s[i]
  <2>1. i + 1 \in 1..(1 + Len(s)) /\ ~(i + 1 <= 1) /\ (i + 1) - 1 = i BY <1>2
  <2> QED BY <1>3, <2>1
<1>6. DOMAIN q = 1..(Len(s) + 1) BY <1>2, <1>3, LenProperties
<1>7. ToSet(q) \subseteq ToSet(s) \cup {e}
  <2>1. SUFFICES ASSUME NEW j \in 1..(Len(s) + 1) PROVE q[j] \in ToSet(s) \cup {e}
    BY <1>6 DEF ToSet
  <2>2. CASE j = 1 BY <1>4, <2>2
  <2>3. CASE j # 1
    <3>1. j - 1 \in 1..Len(s) /\ (j - 1) + 1 = j BY <1>2, <2>3
    <3>2. q[j] = s[j - 1] BY <1>5, <3>1
    <3> QED BY <1>2, <3>1, <3>2 DEF ToSet
  <2> QED BY <2>2, <2>3
<1>8. e \in ToSet(q)
  <2>1. 1 \in DOMAIN q BY <1>2, <1>6
  <2> QED BY <1>4, <2>1 DEF ToSet
<1>9. ToSet(s) \subseteq ToSet(q)
  <2>1. SUFFICES ASSUME NEW j \in 1..Len(s) PROVE s[j] \in ToSet(q) BY <1>2 DEF ToSet
  <2>2. j + 1 \in DOMAIN q BY <1>2, <1>6
  <2> QED BY <1>5, <2>2 DEF ToSet
<1> QED BY <1>2, <1>3, <1>4, <1>5, <1>7, <1>8, <1>9 DEF q

\* The first module directory is taken off again; no other one is the same.
LEMMA Tailed ==
  ASSUME NEW S, NEW s \in Seq(S), s # <<>>
  PROVE  /\ Tail(s) \in Seq(S) /\ Len(Tail(s)) = Len(s) - 1 /\ Len(s) \in Nat \ {0}
         /\ \A i \in 1..(Len(s) - 1) : Tail(s)[i] = s[i + 1]
         /\ (\A i, j \in 1..Len(s) : s[i] = s[j] => i = j) => ToSet(Tail(s)) = ToSet(s) \ {s[1]}
<1>1. Len(s) \in Nat \ {0} /\ DOMAIN s = 1..Len(s) BY EmptySeq, LenProperties
<1>2. /\ Tail(s) \in Seq(S) /\ Len(Tail(s)) = Len(s) - 1
      /\ \A i \in 1..Len(Tail(s)) : Tail(s)[i] = s[i + 1]
  BY HeadTailProperties
<1>3. DOMAIN Tail(s) = 1..(Len(s) - 1) BY <1>2, LenProperties
<1>4. ASSUME \A i, j \in 1..Len(s) : s[i] = s[j] => i = j
      PROVE  ToSet(Tail(s)) = ToSet(s) \ {s[1]}
  <2>1. ASSUME NEW j \in 1..(Len(s) - 1) PROVE Tail(s)[j] \in ToSet(s) \ {s[1]}
    <3>1. j + 1 \in 1..Len(s) /\ 1 \in 1..Len(s) /\ j + 1 # 1 BY <1>1
    <3>2. Tail(s)[j] = s[j + 1] /\ s[j + 1] # s[1] BY <1>2, <1>4, <3>1
    <3> QED BY <1>1, <3>1, <3>2 DEF ToSet
  <2>2. ASSUME NEW j \in 1..Len(s), s[j] # s[1] PROVE s[j] \in ToSet(Tail(s))
    <3>1. j - 1 \in 1..(Len(s) - 1) /\ (j - 1) + 1 = j BY <1>1, <2>2
    <3>2. Tail(s)[j - 1] = s[j] BY <1>2, <3>1
    <3> QED BY <1>3, <3>1, <3>2 DEF ToSet
  <2>3. ToSet(Tail(s)) \subseteq ToSet(s) \ {s[1]} BY <1>3, <2>1 DEF ToSet
  <2>4. ToSet(s) \ {s[1]} \subseteq ToSet(Tail(s)) BY <1>1, <2>2 DEF ToSet
  <2> QED BY <2>3, <2>4
<1> QED BY <1>1, <1>2, <1>4

\* Whoever may take the lock has the loads in progress, if there are any.
LEMMA HolderHasLoads ==
  ASSUME LoadInv, NEW g \in Goroutines, CanLock(g)
  PROVE  /\ lock.count = Len(paths) /\ Len(paths) = Cardinality(FramesOf(g, "load"))
         /\ \A i \in FramesOf(g, "load") : paths[FromTop(g, i)] = Path[stack[g][i].m]
         /\ loading = ToSet(paths)
         /\ \A h \in Goroutines \ {g} : FramesOf(h, "load") = {}
<1>1. lock.owner = None \/ lock.owner = g BY DEF CanLock
<1>2. CASE lock.owner = None
  <2>1. loading = {} /\ paths = <<>> /\ lock.count = 0 BY <1>2 DEF LoadInv, LoadStateClean
  <2>2. \A h \in Goroutines : lock.owner # h BY <1>2, LoaderAssumption
  <2>3. \A h \in Goroutines : FramesOf(h, "load") = {} BY <2>2 DEF LoadInv, LoadStateClean
  <2>4. Len(paths) = 0 /\ ToSet(paths) = {} BY <2>1 DEF ToSet
  <2>5. Cardinality({}) = 0 BY FS_EmptySet
  <2> QED BY <2>1, <2>3, <2>4, <2>5
<1>3. CASE lock.owner = g
  <2>1. \A h \in Goroutines \ {g} : FramesOf(h, "load") = {} BY <1>3 DEF LoadInv, LoadStateClean
  <2> QED BY <1>3, <2>1 DEF LoadInv, LoadStateClean
<1> QED BY <1>1, <1>2, <1>3

\* The frame that waited becomes the innermost load, and its file the first in
\* modulePaths.
LEMMA LoadStartsStep ==
  ASSUME LoadInv, NEW g \in Goroutines, LoadStarts(g)
  PROVE  LoadInv' /\ SameCalls
<1>1. PICK V : stack \in Stacks(V) BY DEF LoadInv, LoadTypes
<1>2. PICK n, m : n = Len(stack[g]) /\ m = Top(g).m OBVIOUS
<1> DEFINE W == V \cup {NoVM, NoCallVM.globals, NoCallVM.dirty}
           f == Frame("load", m, NoVM, FALSE, NoCallVM)
<1>3. /\ stack[g] # <<>> /\ Top(g).k = "wait" /\ CanLock(g) /\ records[m] = None
      /\ m \in Sources /\ Path[m] \notin loading
      /\ loading' = loading \cup {Path[m]} /\ paths' = <<Path[m]>> \o paths
      /\ Replace(g, f) /\ lock' = [owner |-> g, count |-> lock.count + 1]
      /\ UNCHANGED <<imports, failing, records, bad>>
  BY <1>2 DEF LoadStarts, Waiting, In, Locked, InProgress
<1>4. m \in Modules /\ Path[m] \in Files BY <1>3, LoaderAssumption DEF Files
<1>5. stack \in Stacks(W) BY <1>1, Widen
<1>6. f \in Frames(W) /\ f.k = "load" /\ f.m = m /\ f.at = 1
  <2>1. NoCallVM \in DerivedVMs(W) BY DEF NoCallVM, Derived, DerivedVMs
  <2> QED BY <1>4, <2>1 DEF Frames, Frame
<1> HIDE DEF W, f
<1>7. /\ stack' \in Stacks(W) /\ OthersKeep(g)
      /\ n \in Nat \ {0} /\ Len(stack'[g]) = n
      /\ \A i \in 1..(n - 1) : stack'[g][i] = stack[g][i]
      /\ stack'[g][n] = f
      /\ Top(g) = stack[g][n]
  <2>1. /\ stack' \in Stacks(W) /\ OthersKeep(g)
        /\ Len(stack[g]) \in Nat \ {0} /\ Len(stack'[g]) = Len(stack[g])
        /\ \A i \in 1..(Len(stack[g]) - 1) : stack'[g][i] = stack[g][i]
        /\ stack'[g][Len(stack[g])] = f
        /\ Top(g) = stack[g][Len(stack[g])]
    <3>1. stack[g] # <<>> /\ Replace(g, f) /\ f \in Frames(W) BY <1>3, <1>6
    <3> QED BY ONLY <3>1, <1>5, g \in Goroutines, Replaced
  <2> QED BY <1>2, <2>1
<1> DEFINE S == FramesOf(g, "load")
<1>8. S \in SUBSET (1..(n - 1)) /\ S = {i \in 1..(n - 1) : stack[g][i].k = "load"}
  <2>1. S = {i \in 1..n : stack[g][i].k = "load"} BY <1>1, <1>2, LoadFrames
  <2>2. stack[g][n].k # "load" BY <1>3, <1>7
  <2>3. \A i \in 1..n : i \in 1..(n - 1) \/ i = n BY <1>7
  <2>4. \A i \in 1..(n - 1) : i \in 1..n BY <1>7
  <2> QED BY <2>1, <2>2, <2>3, <2>4
<1>9. S' = S \cup {n}
  <2>1. S' = {i \in 1..n : stack'[g][i].k = "load"}
    <3>1. stack'[g] \in Seq(Frames(W)) BY <1>7 DEF Stacks
    <3>2. DOMAIN stack'[g] = 1..n BY <1>7, <3>1, LenProperties
    <3> QED BY <3>2 DEF FramesOf
  <2>2. \A i \in 1..n : i \in 1..(n - 1) \/ i = n BY <1>7
  <2>3. \A i \in 1..(n - 1) : i \in 1..n BY <1>7
  <2>4. n \in 1..n BY <1>7
  <2>5. ASSUME NEW i \in S' PROVE i \in S \cup {n} BY <1>7, <1>8, <2>1, <2>2
  <2>6. ASSUME NEW i \in S \cup {n} PROVE i \in S' BY <1>6, <1>7, <1>8, <2>1, <2>3, <2>4
  <2> QED BY <2>5, <2>6
<1>10. /\ lock.count = Len(paths) /\ Len(paths) = Cardinality(S)
       /\ \A i \in S : paths[FromTop(g, i)] = Path[stack[g][i].m]
       /\ loading = ToSet(paths)
       /\ \A h \in Goroutines \ {g} : FramesOf(h, "load") = {}
  BY <1>3, HolderHasLoads
<1>11. /\ paths' \in Seq(Files) /\ Len(paths') = Len(paths) + 1 /\ paths'[1] = Path[m]
       /\ \A i \in 1..Len(paths) : paths'[i + 1] = paths[i]
       /\ ToSet(paths') = ToSet(paths) \cup {Path[m]}
       /\ Len(paths) \in Nat
  <2>1. paths \in Seq(Files) BY DEF LoadInv, LoadTypes
  <2> QED BY <1>3, <1>4, <2>1, Prepended
<1>12. LoadTypes'
  <2>1. lock' \in [owner : Goroutines \cup {None}, count : Nat]
    <3>1. lock.count + 1 \in Nat BY <1>10, <1>11
    <3> QED BY <1>3, <3>1
  <2>2. loading' \subseteq Files BY <1>3, <1>4 DEF LoadInv, LoadTypes
  <2>3. \E U : stack' \in Stacks(U) BY <1>7
  <2> QED BY <1>3, <1>11, <2>1, <2>2, <2>3 DEF LoadInv, LoadTypes
<1>13. /\ Cardinality(S') = Cardinality(S) + 1 /\ FromTop(g, n)' = 1
       /\ \A i \in S : FromTop(g, i)' = FromTop(g, i) + 1
  <2>1. n \in Nat BY <1>7
  <2>2. /\ Cardinality(S \cup {n}) = Cardinality(S) + 1
        /\ Cardinality({j \in S \cup {n} : j >= n}) = 1
        /\ \A i \in S : Cardinality({j \in S \cup {n} : j >= i}) = Cardinality({j \in S : j >= i}) + 1
    BY <1>8, <2>1, CountAbove
  <2> QED BY <1>9, <2>2 DEF FromTop
<1>14. \A i \in S : FromTop(g, i) \in 1..Len(paths)
  <2>1. n - 1 \in Nat BY <1>7
  <2>2. \A i \in S : Cardinality({j \in S : j >= i}) \in 1..Cardinality(S) BY <1>8, <2>1, CountInjective
  <2> QED BY <1>10, <2>2 DEF FromTop
<1>15. \A i \in S' : paths'[FromTop(g, i)'] = Path[stack'[g][i].m]
  <2>1. paths'[FromTop(g, n)'] = Path[stack'[g][n].m] BY <1>6, <1>7, <1>11, <1>13
  <2>2. ASSUME NEW i \in S PROVE paths'[FromTop(g, i)'] = Path[stack'[g][i].m]
    <3>1. stack'[g][i] = stack[g][i] BY <1>7, <1>8
    <3>2. paths'[FromTop(g, i) + 1] = paths[FromTop(g, i)] BY <1>11, <1>14
    <3> QED BY <1>10, <1>13, <3>1, <3>2
  <2> QED BY <1>9, <2>1, <2>2
<1>16. \A h \in Goroutines \ {g} : FramesOf(h, "load")' = {}
  BY <1>7, <1>10 DEF OthersKeep, FramesOf
<1>17. LoadStateClean'
  <2>1. lock'.owner = g /\ lock'.count = lock.count + 1 BY <1>3
  <2>2. lock'.owner # None BY <2>1, LoaderAssumption
  <2>3. loading' = ToSet(paths') BY <1>3, <1>10, <1>11
  <2>4. lock'.count = Len(paths') /\ Len(paths') = Cardinality(S') BY <1>10, <1>11, <1>13, <2>1
  <2>5. \A h \in Goroutines : h # g => FramesOf(h, "load")' = {} BY <1>16
  <2> QED BY <1>15, <2>1, <2>2, <2>3, <2>4, <2>5 DEF LoadStateClean
<1>18. PathsOnce'
  <2>1. SUFFICES ASSUME NEW i \in 1..Len(paths'), NEW j \in 1..Len(paths'), paths'[i] = paths'[j]
                 PROVE  i = j
    BY DEF PathsOnce
  <2>2. paths \in Seq(Files) /\ Path[m] \notin ToSet(paths) BY <1>3, <1>10 DEF LoadInv, LoadTypes
  <2>3. ASSUME NEW a \in 1..Len(paths'), a # 1
        PROVE  a - 1 \in 1..Len(paths) /\ paths'[a] = paths[a - 1] /\ paths'[a] # Path[m]
    <3>1. a - 1 \in 1..Len(paths) /\ (a - 1) + 1 = a BY <1>11, <2>3
    <3>2. paths'[a] = paths[a - 1] BY <1>11, <3>1
    <3>3. DOMAIN paths = 1..Len(paths) BY <2>2, LenProperties
    <3>4. paths[a - 1] \in ToSet(paths) BY <3>1, <3>3 DEF ToSet
    <3> QED BY <2>2, <3>1, <3>2, <3>4
  <2>4. CASE i = 1 \/ j = 1 BY <1>11, <2>1, <2>3, <2>4
  <2>5. CASE i # 1 /\ j # 1
    <3>1. i - 1 = j - 1 BY <2>1, <2>3, <2>5 DEF LoadInv, PathsOnce
    <3> QED BY <1>11, <3>1
  <2> QED BY <2>4, <2>5
<1>19. LoadingUnpublished'
  <2>1. records'[stack'[g][n].m] # "full" BY <1>3, <1>6, <1>7 DEF None
  <2>2. ASSUME NEW i \in S PROVE records'[stack'[g][i].m] # "full"
    <3>1. stack'[g][i] = stack[g][i] BY <1>7, <1>8
    <3> QED BY <1>3, <3>1 DEF LoadInv, LoadingUnpublished
  <2>3. \A i \in S' : records'[stack'[g][i].m] # "full" BY <1>9, <2>1, <2>2
  <2>4. \A h \in Goroutines : h # g => FramesOf(h, "load")' = {} BY <1>16
  <2> QED BY <2>3, <2>4 DEF LoadingUnpublished
<1>20. PublishedWhole' BY <1>3 DEF LoadInv, PublishedWhole
<1>21. \A h \in Goroutines \ {g} : \A i \in FramesOf(h, "load")' : ImportsPassed(h, i)' BY <1>16
<1>22. ImportsPassed(g, n)'
  <2>1. stack'[g][n].at - 1 = 0 BY <1>6, <1>7
  <2> QED BY <2>1 DEF ImportsPassed
<1>23. ASSUME NEW i \in S PROVE ImportsPassed(g, i)'
  <2>1. i \in 1..(n - 1) /\ stack[g][i] \in Frames(V) BY <1>1, <1>8, LoadFrames
  <2>2. imports[stack[g][i].m] \in Seq(Modules) BY <2>1 DEF LoadInv, LoadTypes, Frames
  <2>3. ASSUME NEW x \in Modules, Pending(g, i, x) PROVE Pending(g, i, x)'
    <3>1. i < n /\ stack[g][i + 1].k \in {"wait", "load"} /\ stack[g][i + 1].m = x
      BY <1>2, <1>7, <2>1, <2>3 DEF Pending
    <3>2. stack'[g][i + 1].k \in {"wait", "load"} /\ stack'[g][i + 1].m = x
      <4>1. CASE i + 1 = n BY <1>2, <1>6, <1>7, <3>1, <4>1
      <4>2. CASE i + 1 # n
        <5>1. i + 1 \in 1..(n - 1) BY <1>7, <2>1, <4>2
        <5> QED BY <1>7, <3>1, <5>1
      <4> QED BY <4>1, <4>2
    <3> QED BY <1>7, <3>1, <3>2 DEF Pending
  <2>4. ImportsPassed(g, i) BY DEF LoadInv, BodiesInOrder
  <2>5. stack'[g][i] = stack[g][i] BY <1>7, <2>1
  <2> QED BY <1>3, <2>2, <2>3, <2>4, <2>5, StillPassed
<1>24. \A i \in S' : ImportsPassed(g, i)' BY <1>9, <1>22, <1>23
<1>25. BodiesInOrder' BY <1>21, <1>24 DEF BodiesInOrder
<1>26. SameCalls
  <2>1. \A i \in 1..n : i > n - 1 => i = n BY <1>7
  <2>2. \A i \in 1..n : i > n - 1 => stack[g][i].k # "call" /\ stack'[g][i].k # "call"
    BY <1>3, <1>6, <1>7, <2>1
  <2>3. n - 1 \in Nat /\ n - 1 <= n BY <1>7
  <2> QED BY <1>1, <1>2, <1>7, <2>2, <2>3, CallsBelow
<1> QED BY <1>26, <1>12, <1>17, <1>18, <1>19, <1>20, <1>25 DEF LoadInv

\* Two loads of one file would be two places of it in modulePaths.
LEMMA CleanIsOneLoad ==
  ASSUME LoadInv
  PROVE  OneLoad
<1>1. PICK V : stack \in Stacks(V) BY DEF LoadInv, LoadTypes
<1>2. ASSUME NEW g \in Goroutines, NEW i \in FramesOf(g, "load")
      PROVE  /\ lock.owner = g /\ FromTop(g, i) \in 1..Len(paths)
             /\ paths[FromTop(g, i)] = Path[stack[g][i].m]
             /\ records[stack[g][i].m] # "full"
  <2>1. lock.owner = g BY DEF LoadInv, LoadStateClean
  <2>2. /\ Len(paths) = Cardinality(FramesOf(g, "load")) 
        /\ paths[FromTop(g, i)] = Path[stack[g][i].m]
    BY <2>1 DEF LoadInv, LoadStateClean
  <2>3. Len(stack[g]) \in Nat /\ FramesOf(g, "load") \in SUBSET (1..Len(stack[g]))
    BY <1>1, LoadFrames
  <2>4. FromTop(g, i) \in 1..Len(paths) BY <2>2, <2>3, CountInjective DEF FromTop
  <2> QED BY <2>1, <2>2, <2>4 DEF LoadInv, LoadingUnpublished
<1>3. ASSUME NEW g \in Goroutines, NEW i \in FramesOf(g, "load"), NEW h \in Goroutines,
             NEW j \in FramesOf(h, "load"), Path[stack[g][i].m] = Path[stack[h][j].m]
      PROVE  g = h /\ i = j
  <2>1. g = h BY <1>2
  <2>2. FromTop(g, i) = FromTop(g, j) BY <1>2, <1>3, <2>1 DEF LoadInv, PathsOnce
  <2>3. Len(stack[g]) \in Nat /\ FramesOf(g, "load") \in SUBSET (1..Len(stack[g]))
    BY <1>1, LoadFrames
  <2>4. i = j BY <2>1, <2>2, <2>3, CountInjective DEF FromTop
  <2> QED BY <2>1, <2>4
<1> QED BY <1>2, <1>3 DEF OneLoad

\* The deferred clean-up of LoadModule, whether the body has ended well or not.
LEMMA LoadEnded ==
  ASSUME LoadInv, NEW g \in Goroutines, In(g, "load"), Pop(g),
         loading' = loading \ {Path[Top(g).m]}, paths' = Tail(paths), lock' = Unlocked,
         UNCHANGED imports,
         records' \in [Modules -> {None, "native", "full"}],
         \A m \in Modules : records[m] # None => records'[m] # None,
         \A m \in Modules : records'[m] = "full" => records[m] = "full" \/ m = Top(g).m,
         bad' \in [Goroutines -> BOOLEAN], \A h \in Goroutines \ {g} : bad'[h] = bad[h],
         bad'[g] \/ records'[Top(g).m] # None, PublishedWhole'
  PROVE  LoadInv'
<1>1. PICK V : stack \in Stacks(V) BY DEF LoadInv, LoadTypes
<1>2. PICK n, m : n = Len(stack[g]) /\ m = Top(g).m OBVIOUS
<1>3. stack[g] # <<>> /\ Top(g).k = "load" BY DEF In
<1>4. /\ stack' \in Stacks(V) /\ OthersKeep(g)
      /\ n \in Nat \ {0} /\ Len(stack'[g]) = n - 1
      /\ \A i \in 1..(n - 1) : stack'[g][i] = stack[g][i]
      /\ Top(g) = stack[g][n]
  BY <1>1, <1>2, <1>3, Popped
<1> DEFINE S == FramesOf(g, "load")
<1>5. S = {i \in 1..n : stack[g][i].k = "load"} /\ n \in S
  <2>1. S = {i \in 1..n : stack[g][i].k = "load"} BY <1>1, <1>2, LoadFrames
  <2>2. n \in 1..n BY <1>4
  <2> QED BY <1>3, <1>4, <2>1, <2>2
<1>6. PICK T : T = S \ {n} OBVIOUS
<1>7. S' = T
  <2>1. S' = {i \in 1..(n - 1) : stack'[g][i].k = "load"}
    <3>1. stack'[g] \in Seq(Frames(V)) BY <1>4 DEF Stacks
    <3>2. DOMAIN stack'[g] = 1..(n - 1) BY <1>4, <3>1, LenProperties
    <3> QED BY <3>2 DEF FramesOf
  <2>2. \A i \in 1..n : i \in 1..(n - 1) \/ i = n BY <1>4
  <2>3. \A i \in 1..(n - 1) : i \in 1..n /\ i # n BY <1>4
  <2>4. ASSUME NEW i \in S' PROVE i \in T BY <1>4, <1>5, <1>6, <2>1, <2>3
  <2>5. ASSUME NEW i \in T PROVE i \in S' BY <1>4, <1>5, <1>6, <2>1, <2>2
  <2> QED BY <2>4, <2>5
<1>8. T \in SUBSET (1..(n - 1)) /\ S = T \cup {n}
  <2>1. \A i \in 1..n : i \in 1..(n - 1) \/ i = n BY <1>4
  <2> QED BY <1>5, <1>6, <2>1
<1>9. lock.owner = g BY <1>5 DEF LoadInv, LoadStateClean
<1>10. /\ lock.count = Len(paths) /\ Len(paths) = Cardinality(S)
       /\ \A i \in S : paths[FromTop(g, i)] = Path[stack[g][i].m]
       /\ loading = ToSet(paths)
       /\ \A h \in Goroutines \ {g} : FramesOf(h, "load") = {}
  BY <1>9, HolderHasLoads DEF CanLock
<1>11. /\ Cardinality(S) = Cardinality(T) + 1 /\ Cardinality(T) \in Nat
       /\ FromTop(g, n) = 1
       /\ \A i \in T : FromTop(g, i) = FromTop(g, i)' + 1
  <2>1. n \in Nat BY <1>4
  <2>2. /\ Cardinality(T \cup {n}) = Cardinality(T) + 1 /\ Cardinality(T) \in Nat
        /\ Cardinality({j \in T \cup {n} : j >= n}) = 1
        /\ \A i \in T : Cardinality({j \in T \cup {n} : j >= i}) = Cardinality({j \in T : j >= i}) + 1
    BY <1>8, <2>1, CountAbove
  <2> QED BY <1>7, <1>8, <2>2 DEF FromTop
<1>12. \A i \in T : FromTop(g, i)' \in 1..Cardinality(T)
  <2>1. n - 1 \in Nat BY <1>4
  <2>2. \A i \in T : Cardinality({j \in T : j >= i}) \in 1..Cardinality(T) BY <1>8, <2>1, CountInjective
  <2> QED BY <1>7, <2>2 DEF FromTop
<1>13. paths[1] = Path[m] BY <1>2, <1>4, <1>5, <1>10, <1>11
<1>14. paths \in Seq(Files) /\ paths # <<>>
  <2>1. paths \in Seq(Files) BY DEF LoadInv, LoadTypes
  <2>2. Len(paths) # 0 BY <1>10, <1>11
  <2> QED BY <2>1, <2>2, EmptySeq
<1>15. /\ paths' \in Seq(Files) /\ Len(paths') = Len(paths) - 1 /\ Len(paths) \in Nat \ {0}
       /\ \A i \in 1..(Len(paths) - 1) : paths'[i] = paths[i + 1]
       /\ ToSet(paths') = ToSet(paths) \ {Path[m]}
  <2>1. \A i, j \in 1..Len(paths) : paths[i] = paths[j] => i = j BY DEF LoadInv, PathsOnce
  <2> QED BY <1>13, <1>14, <2>1, Tailed
<1>16. lock' = IF lock.count = 1 THEN [owner |-> None, count |-> 0]
               ELSE [lock EXCEPT !.count = @ - 1]
  BY DEF Unlocked
<1>17. lock \in [owner : Goroutines \cup {None}, count : Nat] BY DEF LoadInv, LoadTypes
<1>18. /\ lock' \in [owner : Goroutines \cup {None}, count : Nat]
       /\ lock'.count = lock.count - 1
       /\ lock'.owner = IF lock.count = 1 THEN None ELSE g
  <2>1. lock.count - 1 \in Nat BY <1>10, <1>15
  <2>2. CASE lock.count = 1 BY <1>16, <2>2
  <2>3. CASE lock.count # 1 BY <1>9, <1>16, <1>17, <2>1, <2>3
  <2> QED BY <2>2, <2>3
<1>19. LoadTypes'
  <2>1. loading' \subseteq Files BY DEF LoadInv, LoadTypes
  <2>2. \E U : stack' \in Stacks(U) BY <1>4
  <2> QED BY <1>15, <1>18, <2>1, <2>2 DEF LoadInv, LoadTypes
<1>20. loading' = ToSet(paths') BY <1>2, <1>10, <1>15
<1>21. lock'.count = Len(paths') /\ Len(paths') = Cardinality(T)
  BY <1>10, <1>11, <1>15, <1>18
<1>22. \A i \in T : paths'[FromTop(g, i)'] = Path[stack'[g][i].m]
  <2>1. SUFFICES ASSUME NEW i \in T PROVE paths'[FromTop(g, i)'] = Path[stack'[g][i].m] OBVIOUS
  <2>2. FromTop(g, i)' \in 1..(Len(paths) - 1) BY <1>12, <1>15, <1>21
  <2>3. paths'[FromTop(g, i)'] = paths[FromTop(g, i)] BY <1>11, <1>15, <2>2
  <2>4. i \in S /\ stack'[g][i] = stack[g][i] BY <1>4, <1>8
  <2> QED BY <1>10, <2>3, <2>4
<1>23. \A h \in Goroutines \ {g} : FramesOf(h, "load")' = {}
  BY <1>4, <1>10 DEF OthersKeep, FramesOf
<1>24. LoadStateClean'
  <2>1. CASE lock.count = 1
    <3>0. lock' = [owner |-> None, count |-> 0] BY <1>16, <2>1
    <3>1. lock'.owner = None /\ Len(paths') = 0 BY <1>21, <3>0
    <3>2. lock'.count = 0 /\ paths' = <<>> BY <1>15, <1>21, <3>1, EmptySeq
    <3>3. loading' = {} BY <1>20, <3>2 DEF ToSet
    <3>4. S' = {}
      <4>1. IsFiniteSet(1..(n - 1)) BY <1>4, FS_Interval
      <4>2. IsFiniteSet(T) BY <1>8, <4>1, FS_Subset
      <4> QED BY <1>7, <1>21, <3>1, <4>2, FS_EmptySet
    <3>5. \A h \in Goroutines : FramesOf(h, "load")' = {} /\ lock'.owner # h
      BY <1>23, <3>1, <3>4, LoaderAssumption
    <3> QED BY <3>1, <3>2, <3>3, <3>5 DEF LoadStateClean
  <2>2. CASE lock.count # 1
    <3>1. lock'.owner = g /\ lock'.owner # None BY <1>18, <2>2, LoaderAssumption
    <3>2. \A h \in Goroutines : h # g => FramesOf(h, "load")' = {} BY <1>23
    <3>3. ASSUME NEW h \in Goroutines
          PROVE  IF lock'.owner = h
                 THEN /\ lock'.count = Len(paths') /\ Len(paths') = Cardinality(FramesOf(h, "load")')
                      /\ \A i \in FramesOf(h, "load")' : paths'[FromTop(h, i)'] = Path[stack'[h][i].m]
                      /\ loading' = ToSet(paths')
                 ELSE FramesOf(h, "load")' = {}
      <4>1. CASE h = g
        <5>1. /\ FramesOf(h, "load")' = S' /\ stack'[h] = stack'[g]
              /\ \A i : FromTop(h, i)' = FromTop(g, i)'
          BY <4>1 DEF FromTop, FramesOf
        <5> QED BY <1>7, <1>20, <1>21, <1>22, <3>1, <4>1, <5>1
      <4>2. CASE h # g BY <3>1, <3>2, <4>2
      <4> QED BY <4>1, <4>2
    <3> QED BY <3>1, <3>3 DEF LoadStateClean
  <2> QED BY <2>1, <2>2
<1>25. PathsOnce'
  <2>1. SUFFICES ASSUME NEW i \in 1..Len(paths'), NEW j \in 1..Len(paths'), paths'[i] = paths'[j]
                 PROVE  i = j
    BY DEF PathsOnce
  <2>2. i \in 1..(Len(paths) - 1) /\ j \in 1..(Len(paths) - 1) BY <1>15
  <2>3. paths[i + 1] = paths[j + 1] BY <1>15, <2>1, <2>2
  <2>4. i + 1 \in 1..Len(paths) /\ j + 1 \in 1..Len(paths) BY <1>15, <2>2
  <2>5. i + 1 = j + 1 BY <2>3, <2>4 DEF LoadInv, PathsOnce
  <2> QED BY <2>2, <2>5
\* No other load is of the same file, nor then under the same name.
<1>26. LoadingUnpublished'
  <2>1. ASSUME NEW i \in T PROVE records'[stack'[g][i].m] # "full"
    <3>1. i \in S /\ i # n /\ stack'[g][i] = stack[g][i] BY <1>4, <1>6, <1>8
    <3>2. stack[g][i].m # m BY <1>2, <1>4, <1>5, <3>1, CleanIsOneLoad DEF OneLoad
    <3>3. stack[g][i].m \in Modules BY <1>1, <3>1, LoadFrames DEF Frames
    <3>4. records[stack[g][i].m] # "full" BY <3>1 DEF LoadInv, LoadingUnpublished
    <3> QED BY <1>2, <3>1, <3>2, <3>3, <3>4
  <2>2. \A h \in Goroutines : h # g => FramesOf(h, "load")' = {} BY <1>23
  <2> QED BY <1>7, <2>1, <2>2 DEF LoadingUnpublished
<1>27. \A h \in Goroutines \ {g} : \A i \in FramesOf(h, "load")' : ImportsPassed(h, i)' BY <1>23
<1>28. ASSUME NEW i \in T PROVE ImportsPassed(g, i)'
  <2>1. i \in S /\ i < Len(stack[g]) BY <1>2, <1>4, <1>8
  <2> QED BY <1>3, <2>1, BelowPassed
<1>29. BodiesInOrder' BY <1>7, <1>27, <1>28 DEF BodiesInOrder
<1> QED BY <1>19, <1>24, <1>25, <1>26, <1>29 DEF LoadInv

-----------------------------------------------------------------------------
(* The invariant. *)

\* Nothing is loaded, recorded or running at the start.
LEMMA LoadInit ==
  ASSUME Init
  PROVE  LoadInv
<1> USE DEF Init
<1>1. stack \in Stacks({})
  <2>1. <<>> \in Seq(Frames({})) OBVIOUS
  <2> QED BY <2>1 DEF Stacks
<1>2. LoadTypes
  <2>1. imports \in [Modules -> Seq(Modules)] BY LoaderAssumption
  <2>2. records \in [Modules -> {None, "native", "full"}] OBVIOUS
  <2>3. paths \in Seq(Files) OBVIOUS
  <2> QED BY <1>1, <2>1, <2>2, <2>3 DEF LoadTypes
<1>3. \A g \in Goroutines : FramesOf(g, "load") = {} BY DEF FramesOf
<1>4. \A g \in Goroutines : lock.owner # g BY LoaderAssumption
<1>5. LoadStateClean BY <1>3, <1>4 DEF LoadStateClean
<1>6. PathsOnce BY DEF PathsOnce
<1>7. LoadingUnpublished BY <1>3 DEF LoadingUnpublished
<1>8. PublishedWhole BY DEF PublishedWhole, None
<1>9. BodiesInOrder BY <1>3 DEF BodiesInOrder
<1> QED BY <1>2, <1>5, <1>6, <1>7, <1>8, <1>9 DEF LoadInv

\* The frame that a call puts on the stack.
Enters(g, m, vm, own) ==
  \E C : \E callVM \in DerivedVMs(C) :
    stack' = [stack EXCEPT ![g] = Append(stack[g], Frame("call", m, vm, own, callVM))]

\* moduleVM takes worker v of m for a call of g.
Takes(g, m, v) ==
  /\ vms' = [vms EXCEPT ![v] = [@ EXCEPT !.m = m, !.globals = globals[m],
                                         !.host = Caller(g), !.active = TRUE]]
  /\ pools' = IF pools[m] # <<>> THEN [pools EXCEPT ![m] = Front(@)] ELSE pools

\* The VMs that a function may run on.
LEMMA DerivedType ==
  ASSUME NEW on \in BOOLEAN, NEW given
  PROVE  Derived(on, given) \in DerivedVMs({given, {}})
BY DEF Derived, DerivedVMs

\* A call borrows a worker, or takes one.
LEMMA CallEnters ==
  ASSUME NEW g, NEW m, Call(g, m, stack[g])
  PROVE  \/ /\ ActiveWorker(m, Caller(g)) # NoVM /\ Enters(g, m, ActiveWorker(m, Caller(g)), FALSE)
            /\ UNCHANGED <<vms, pools>>
         \/ /\ ActiveWorker(m, Caller(g)) = NoVM /\ Enters(g, m, NextWorker(m), TRUE)
            /\ HasWorker(m) /\ Takes(g, m, NextWorker(m))
<1> DEFINE enters(vm, own, given) ==
             \E callVM \in {NoCallVM} \cup (IF m \in Wrapped THEN {Derived(TRUE, given)} ELSE {}) :
               stack' = [stack EXCEPT ![g] = Append(stack[g], Frame("call", m, vm, own, callVM))]
<1>1. ASSUME NEW vm, NEW own, NEW given, enters(vm, own, given) PROVE Enters(g, m, vm, own)
  <2>1. PICK callVM \in {NoCallVM} \cup (IF m \in Wrapped THEN {Derived(TRUE, given)} ELSE {}) :
               stack' = [stack EXCEPT ![g] = Append(stack[g], Frame("call", m, vm, own, callVM))]
    BY <1>1
  <2>2. callVM = NoCallVM \/ callVM = Derived(TRUE, given) OBVIOUS
  <2>3. \E C : callVM \in DerivedVMs(C) BY <2>2, DerivedType, Zenon DEF NoCallVM
  <2> QED BY <2>1, <2>3 DEF Enters
<1> HIDE DEF enters
<1>2. CASE ActiveWorker(m, Caller(g)) # NoVM
  <2>1. PICK vm : vm = ActiveWorker(m, Caller(g)) OBVIOUS
  <2>2. enters(vm, FALSE, vms[vm].globals) /\ UNCHANGED <<vms, pools>>
    BY <1>2, <2>1 DEF Call, enters
  <2> QED BY <1>1, <1>2, <2>1, <2>2
<1>3. CASE ~(ActiveWorker(m, Caller(g)) # NoVM)
  <2>1. PICK vm : vm = NextWorker(m) OBVIOUS
  <2>2. enters(vm, TRUE, globals[m]) /\ HasWorker(m) /\ Takes(g, m, vm)
    BY <1>3, <2>1 DEF Call, enters, Takes
  <2> QED BY <1>1, <1>3, <2>1, <2>2
<1> QED BY <1>2, <1>3

\* A call puts a frame on the stack and leaves the load state alone.
LEMMA CallStep ==
  ASSUME LoadInv, NEW g \in Goroutines, ~bad[g], NEW m \in Callable, Call(g, m, stack[g])
  PROVE  LoadInv'
<1>1. UNCHANGED <<imports, failing, records, loading, paths, lock, bad>> BY DEF Call, loadVars
<1>2. m \in Modules BY LoaderAssumption
<1>3. PICK vm, own : own \in BOOLEAN /\ Enters(g, m, vm, own) BY CallEnters
<1>4. PICK C : \E callVM \in DerivedVMs(C) :
        stack' = [stack EXCEPT ![g] = Append(stack[g], Frame("call", m, vm, own, callVM))]
  BY <1>3 DEF Enters
<1>5. PICK callVM \in DerivedVMs(C) :
        stack' = [stack EXCEPT ![g] = Append(stack[g], Frame("call", m, vm, own, callVM))]
  BY <1>4
<1> QED BY <1>1, <1>2, <1>3, <1>5, FramePushed

\* So does an import, by a script or a function, of a module that is not recorded.
LEMMA ImportStep ==
  ASSUME LoadInv, NEW g \in Goroutines, ~bad[g], NEW m \in Modules, Import(g, m, stack[g])
  PROVE  LoadInv' /\ SameCalls
<1>1. UNCHANGED <<imports, failing, records, loading, paths, lock, bad>> BY DEF Import, loadVars
<1>2. CASE records[m] # None
  <2>1. stack' = stack
    <3>1. stack' = [stack EXCEPT ![g] = stack[g]] BY <1>2 DEF Import
    <3>2. PICK V : stack \in Stacks(V) BY DEF LoadInv, LoadTypes
    <3> QED BY <3>1, <3>2 DEF Stacks
  <2>2. SameCalls BY <2>1 DEF SameCalls, SameCall, FramesOf
  <2> QED BY <1>1, <2>1, <2>2, StackKept DEF LoadInv, LoadTypes
<1>3. CASE records[m] = None
  <2>1. stack' = [stack EXCEPT ![g] = Append(stack[g], Frame("wait", m, NoVM, FALSE, NoCallVM))]
    BY <1>3 DEF Import
  <2>2. NoCallVM \in DerivedVMs({NoCallVM.globals, NoCallVM.dirty}) BY DEF NoCallVM, Derived, DerivedVMs
  <2> QED BY <1>1, <2>1, <2>2, FramePushed
<1> QED BY <1>2, <1>3

\* The function of the innermost call assigns to a global of its derived VM.
LEMMA DerivedWrites ==
  ASSUME LoadInv, NEW g \in Goroutines, In(g, "call"),
         NEW C, NEW c \in DerivedVMs(C), c.on = Top(g).callVM.on,
         Replace(g, [Top(g) EXCEPT !.callVM = c]),
         UNCHANGED <<imports, failing, records, loading, paths, lock, bad>>
  PROVE  LoadInv' /\ SameCalls
<1>1. PICK V : stack \in Stacks(V) BY DEF LoadInv, LoadTypes
<1>2. PICK n, f : n = Len(stack[g]) /\ f = [Top(g) EXCEPT !.callVM = c] OBVIOUS
<1>3. PICK W : W = V \cup C OBVIOUS
<1>4. stack \in Stacks(W) BY <1>1, <1>3, Widen
<1>5. /\ f \in Frames(W) /\ f.k = "call" /\ Top(g).k = "call"
      /\ SameCall(f, Top(g))
  <2>1. stack[g] \in Seq(Frames(W)) /\ stack[g] # <<>> /\ Top(g).k = "call" BY <1>4 DEF Stacks, In
  <2>2. Top(g) \in Frames(W) BY <2>1, FrontLast DEF Top
  <2>3. c \in DerivedVMs(W) BY <1>3 DEF DerivedVMs
  <2>4. f \in Frames(W) /\ f.k = "call" BY <1>2, <2>1, <2>2, <2>3 DEF Frames
  <2>5. f.m = Top(g).m /\ f.vm = Top(g).vm /\ f.own = Top(g).own /\ f.callVM = c
    BY <1>2, <2>2 DEF Frames
  <2> QED BY <2>1, <2>4, <2>5 DEF SameCall
<1>6. /\ stack' \in Stacks(W) /\ OthersKeep(g)
      /\ n \in Nat \ {0} /\ Len(stack'[g]) = n
      /\ \A i \in 1..(n - 1) : stack'[g][i] = stack[g][i]
      /\ stack'[g][n] = f
      /\ Top(g) = stack[g][n]
  <2>1. stack[g] # <<>> /\ Replace(g, f) BY <1>2 DEF In
  <2>2. /\ stack' \in Stacks(W) /\ OthersKeep(g)
        /\ Len(stack[g]) \in Nat \ {0} /\ Len(stack'[g]) = Len(stack[g])
        /\ \A i \in 1..(Len(stack[g]) - 1) : stack'[g][i] = stack[g][i]
        /\ stack'[g][Len(stack[g])] = f
        /\ Top(g) = stack[g][Len(stack[g])]
    BY <1>4, <1>5, <2>1, Replaced
  <2> QED BY <1>2, <2>2
<1>7. \A i \in 1..n : i = n \/ i \in 1..(n - 1) BY <1>6
<1>8. /\ FramesOf(g, "load") = {i \in 1..n : stack[g][i].k = "load"}
      /\ FramesOf(g, "call") = {i \in 1..n : stack[g][i].k = "call"}
      /\ FramesOf(g, "load")' = {i \in 1..n : stack'[g][i].k = "load"}
      /\ FramesOf(g, "call")' = {i \in 1..n : stack'[g][i].k = "call"}
  <2>1. /\ FramesOf(g, "load") = {i \in 1..n : stack[g][i].k = "load"}
        /\ FramesOf(g, "call") = {i \in 1..n : stack[g][i].k = "call"}
    BY <1>1, <1>2, LoadFrames
  <2>2. DOMAIN stack'[g] = 1..n
    <3>1. stack'[g] \in Seq(Frames(W)) BY <1>6 DEF Stacks
    <3> QED BY <1>6, <3>1, LenProperties
  <2> QED BY <2>1, <2>2 DEF FramesOf
<1>9. \A i \in 1..n : stack'[g][i].k = stack[g][i].k BY <1>5, <1>6, <1>7
<1>10. /\ FramesOf(g, "load")' = FramesOf(g, "load") /\ FramesOf(g, "call")' = FramesOf(g, "call")
       /\ \A i \in FramesOf(g, "load") : i \in 1..(n - 1)
  <2>1. FramesOf(g, "load")' = FramesOf(g, "load")
    <3>1. \A i \in 1..n : stack'[g][i].k = "load" <=> stack[g][i].k = "load" BY <1>9
    <3>2. {i \in 1..n : stack'[g][i].k = "load"} = {i \in 1..n : stack[g][i].k = "load"} BY <3>1
    <3> QED BY <1>8, <3>2
  <2>2. FramesOf(g, "call")' = FramesOf(g, "call")
    <3>1. \A i \in 1..n : stack'[g][i].k = "call" <=> stack[g][i].k = "call" BY <1>9
    <3>2. {i \in 1..n : stack'[g][i].k = "call"} = {i \in 1..n : stack[g][i].k = "call"} BY <3>1
    <3> QED BY <1>8, <3>2
  <2>3. stack[g][n].k # "load" BY <1>5, <1>6
  <2>4. \A i \in FramesOf(g, "load") : i \in 1..(n - 1) BY <1>7, <1>8, <2>3
  <2> QED BY <2>1, <2>2, <2>4
<1>11. /\ \A h \in Goroutines \ {g} : FramesOf(h, "load")' = FramesOf(h, "load")
       /\ \A h \in Goroutines \ {g} : \A i \in FramesOf(h, "load")' : ImportsPassed(h, i)'
  BY <1>6, OthersPassed
<1>12. SameLoads
  <2>1. ASSUME NEW h \in Goroutines PROVE FramesOf(h, "load")' = FramesOf(h, "load")
    BY <1>10, <1>11
  <2>2. ASSUME NEW h \in Goroutines, NEW i \in FramesOf(h, "load") PROVE stack'[h][i] = stack[h][i]
    BY <1>6, <1>10 DEF OthersKeep
  <2> QED BY <2>1, <2>2 DEF SameLoads
<1>13. LoadStateClean' /\ PathsOnce' BY <1>12, SameLoadsClean DEF LoadInv
<1>14. LoadingUnpublished' BY <1>12, SameLoadsUnpublished
<1>15. PublishedWhole' BY DEF LoadInv, PublishedWhole
<1>16. LoadTypes' BY <1>6 DEF LoadInv, LoadTypes
<1>17. ASSUME NEW i \in FramesOf(g, "load")' PROVE ImportsPassed(g, i)'
  <2>1. i \in FramesOf(g, "load") /\ i \in 1..(n - 1) /\ stack[g][i] \in Frames(V)
    BY <1>1, <1>10, LoadFrames
  <2>2. imports[stack[g][i].m] \in Seq(Modules) BY <2>1 DEF LoadInv, LoadTypes, Frames
  <2>3. ASSUME NEW x \in Modules, Pending(g, i, x) PROVE Pending(g, i, x)'
    <3>1. i < n /\ stack[g][i + 1].k \in {"wait", "load"} /\ stack[g][i + 1].m = x
      BY <1>2, <1>6, <2>1, <2>3 DEF Pending
    <3>2. i + 1 # n BY <1>5, <1>6, <3>1
    <3>3. i + 1 \in 1..(n - 1) BY <1>6, <2>1, <3>2
    <3>4. stack'[g][i + 1] = stack[g][i + 1] BY <1>6, <3>3
    <3> QED BY <1>6, <3>1, <3>4 DEF Pending
  <2>4. ImportsPassed(g, i) BY <2>1 DEF LoadInv, BodiesInOrder
  <2>5. stack'[g][i] = stack[g][i] BY <1>6, <2>1
  <2> QED BY <2>2, <2>3, <2>4, <2>5, StillPassed
<1>18. BodiesInOrder' BY <1>11, <1>17 DEF BodiesInOrder
<1>19. SameCalls
  <2>1. ASSUME NEW i \in FramesOf(g, "call") PROVE SameCall(stack'[g][i], stack[g][i])
    <3>1. CASE i = n BY <1>5, <1>6, <3>1
    <3>2. CASE i \in 1..(n - 1) BY <1>6, <3>2 DEF SameCall
    <3> QED BY <1>7, <1>8, <3>1, <3>2
  <2>2. ASSUME NEW h \in Goroutines, h # g
        PROVE  FramesOf(h, "call")' = FramesOf(h, "call") /\ stack'[h] = stack[h]
    BY <1>6, <2>2 DEF OthersKeep, FramesOf
  <2>3. ASSUME NEW h \in Goroutines PROVE FramesOf(h, "call")' = FramesOf(h, "call")
    BY <1>10, <2>2
  <2>4. ASSUME NEW h \in Goroutines, NEW i \in FramesOf(h, "call")
        PROVE  SameCall(stack'[h][i], stack[h][i])
    BY <2>1, <2>2 DEF SameCall
  <2> QED BY <2>3, <2>4 DEF SameCalls
<1> QED BY <1>13, <1>14, <1>15, <1>16, <1>18, <1>19 DEF LoadInv

\* Where a function's assignment goes: to its derived VM, or to its worker.
LEMMA SetGlobalWrites ==
  ASSUME LoadInv, NEW g \in Goroutines, SetGlobal(g)
  PROVE  /\ In(g, "call") /\ UNCHANGED <<imports, failing, records, loading, paths, lock, bad>>
         /\ UNCHANGED <<globals, pools>>
         /\ \/ /\ UNCHANGED vms
               /\ \E C : \E c \in DerivedVMs(C) :
                    c.on = Top(g).callVM.on /\ Replace(g, [Top(g) EXCEPT !.callVM = c])
            \/ /\ UNCHANGED stack
               /\ \E s \in Slots : vms' = [vms EXCEPT ![Top(g).vm] = Assigned(@, s)]
<1>1. /\ In(g, "call") /\ UNCHANGED <<imports, failing, records, loading, paths, lock, bad>>
      /\ UNCHANGED <<globals, pools>>
  BY DEF SetGlobal, loadVars
<1>2. CASE Top(g).callVM.on
  <2>1. PICK s \in Slots : Replace(g, [Top(g) EXCEPT !.callVM = Assigned(@, s)]) /\ UNCHANGED vms
    BY <1>2 DEF SetGlobal
  <2>2. PICK c : c = Assigned(Top(g).callVM, s) OBVIOUS
  <2>3. Replace(g, [Top(g) EXCEPT !.callVM = c]) BY <2>1, <2>2
  <2>4. PICK V : stack \in Stacks(V) BY DEF LoadInv, LoadTypes
  <2>5. stack[g] \in Seq(Frames(V)) /\ stack[g] # <<>> BY <1>1, <2>4 DEF Stacks, In
  <2>6. Top(g).callVM \in DerivedVMs(V)
    <3>1. Top(g) \in Frames(V) BY <2>5, FrontLast DEF Top
    <3> QED BY <3>1 DEF Frames
  <2>7. c.on = Top(g).callVM.on /\ c \in DerivedVMs({c.globals, c.dirty})
    BY <2>2, <2>6 DEF Assigned, DerivedVMs
  <2> QED BY <1>1, <2>1, <2>3, <2>7
<1>3. CASE ~Top(g).callVM.on
  BY <1>1, <1>3 DEF SetGlobal
<1> QED BY <1>2, <1>3

\* Every step keeps the invariant.
LEMMA LoadNext ==
  ASSUME LoadInv, [Next]_vars
  PROVE  LoadInv'
<1>1. CASE UNCHANGED vars
  <2>1. /\ UNCHANGED <<imports, failing, records, loading, paths, lock, stack>> /\ bad' = bad
    BY <1>1 DEF vars
  <2> QED BY <2>1, StackKept DEF LoadInv, LoadTypes
<1>2. SUFFICES ASSUME NEW g \in Goroutines,
                      ScriptImports(g) \/ ScriptCalls(g) \/ Continue(g)
               PROVE  LoadInv'
  BY <1>1 DEF Next
<1>3. CASE ScriptImports(g)
  <2>1. PICK m \in Entry : Import(g, m, stack[g]) BY <1>3 DEF ScriptImports
  <2>2. m \in Modules /\ ~bad[g] BY <1>3, LoaderAssumption DEF ScriptImports
  <2> QED BY <2>1, <2>2, ImportStep
<1>4. CASE FunctionImports(g)
  <2>1. PICK m \in FunImports : Import(g, m, stack[g]) BY <1>4 DEF FunctionImports
  <2>2. m \in Modules /\ ~bad[g] BY <1>4, LoaderAssumption DEF FunctionImports
  <2> QED BY <2>1, <2>2, ImportStep
<1>5. CASE BodyImports(g) BY <1>5, BodyImportsStep
<1>6. CASE ScriptCalls(g)
  <2>1. PICK m \in Callable : Call(g, m, stack[g]) BY <1>6 DEF ScriptCalls
  <2>2. ~bad[g] BY <1>6 DEF ScriptCalls
  <2> QED BY <2>1, <2>2, CallStep
<1>7. CASE FunctionCalls(g)
  <2>1. PICK m \in Callable : Call(g, m, stack[g]) BY <1>7 DEF FunctionCalls
  <2>2. ~bad[g] BY <1>7 DEF FunctionCalls
  <2> QED BY <2>1, <2>2, CallStep
<1>8. CASE BodyCalls(g)
  <2>1. PICK m \in Callable : Call(g, m, stack[g]) BY <1>8 DEF BodyCalls
  <2>2. ~bad[g] BY <1>8 DEF BodyCalls
  <2> QED BY <2>1, <2>2, CallStep
<1>9. CASE LoadFound(g)
  <2>1. /\ stack[g] # <<>> /\ Top(g).k = "wait" /\ Pop(g) /\ records[Top(g).m] # None
        /\ UNCHANGED <<imports, failing, records, loading, paths, lock, bad>>
    BY <1>9 DEF LoadFound, Waiting, In, loadVars
  <2> QED BY <2>1, FramePopped DEF LoadInv, LoadTypes
<1>10. CASE LoadBuiltin(g)
  <2>1. PICK m : m = Top(g).m OBVIOUS
  <2>2. /\ stack[g] # <<>> /\ Top(g).k = "wait" /\ Pop(g) /\ records[m] = None /\ m \in Builtins
        /\ records' = [records EXCEPT ![m] = "native"]
        /\ UNCHANGED <<imports, failing, loading, paths, lock, bad>>
    BY <1>10, <2>1 DEF LoadBuiltin, Waiting, In
  <2>3. m \in Modules /\ records \in [Modules -> {None, "native", "full"}]
    BY <2>2, LoaderAssumption DEF LoadInv, LoadTypes
  <2>4. /\ records' \in [Modules -> {None, "native", "full"}] /\ records'[m] # None
        /\ \A x \in Modules : records[x] # None => records'[x] # None
        /\ \A x \in Modules : records'[x] = "full" => records[x] = "full"
    BY <2>2, <2>3 DEF None
  <2> QED BY <2>1, <2>2, <2>4, FramePopped DEF LoadInv, LoadTypes
<1>11. CASE LoadRefused(g)
  <2>1. /\ stack[g] # <<>> /\ Top(g).k = "wait" /\ Pop(g) /\ bad' = [bad EXCEPT ![g] = TRUE]
        /\ UNCHANGED <<imports, failing, records, loading, paths, lock>>
    BY <1>11 DEF LoadRefused, Waiting, In, loadVars
  <2>2. /\ bad' \in [Goroutines -> BOOLEAN] /\ bad'[g]
        /\ \A h \in Goroutines \ {g} : bad'[h] = bad[h]
    BY <2>1 DEF LoadInv, LoadTypes
  <2> QED BY <2>1, <2>2, FramePopped DEF LoadInv, LoadTypes
<1>12. CASE LoadStarts(g) BY <1>12, LoadStartsStep
<1>13. CASE LoadPublishes(g)
  <2>1. PICK m : m = Top(g).m OBVIOUS
  <2>2. PICK V : stack \in Stacks(V) BY DEF LoadInv, LoadTypes
  <2>3. /\ In(g, "load") /\ Pop(g) /\ Top(g).at > Len(imports[m]) /\ ~bad[g] /\ m \notin failing
        /\ records' = [records EXCEPT ![m] = "full"]
        /\ loading' = loading \ {Path[Top(g).m]} /\ paths' = Tail(paths) /\ lock' = Unlocked
        /\ UNCHANGED <<imports, failing, bad>>
    BY <1>13, <2>1 DEF LoadPublishes, BodyDone
  <2>4. /\ Len(stack[g]) \in Nat \ {0} /\ Top(g) = stack[g][Len(stack[g])]
        /\ Top(g) \in Frames(V) /\ Len(stack[g]) \in FramesOf(g, "load")
    <3>1. stack[g] # <<>> /\ Top(g).k = "load" BY <2>3 DEF In
    <3>2. stack[g] \in Seq(Frames(V)) BY <2>2 DEF Stacks
    <3>3. /\ Len(stack[g]) \in Nat \ {0} /\ Top(g) = stack[g][Len(stack[g])] /\ Top(g) \in Frames(V)
      BY <3>1, <3>2, FrontLast DEF Top
    <3> QED BY <2>2, <3>1, <3>3, LoadFrames
  <2>5. m \in Modules /\ Top(g).at \in Nat \ {0} BY <2>1, <2>4 DEF Frames
  <2>6. records \in [Modules -> {None, "native", "full"}] /\ imports[m] \in Seq(Modules)
    BY <2>5 DEF LoadInv, LoadTypes
  <2>7. /\ records' \in [Modules -> {None, "native", "full"}] /\ records'[m] # None
        /\ \A x \in Modules : records[x] # None => records'[x] # None
        /\ \A x \in Modules : records'[x] = "full" => records[x] = "full" \/ x = m
    BY <2>3, <2>5, <2>6 DEF None
  <2>8. ASSUME NEW i \in DOMAIN imports[m] PROVE imports[m][i] \in Modules /\ records[imports[m][i]] # None
    <3>1. DOMAIN imports[m] = 1..Len(imports[m]) /\ Len(imports[m]) \in Nat BY <2>6, LenProperties
    <3>2. imports[m][i] \in Modules BY <2>6, <3>1, ElementOfSeq
    <3>3. i \in 1..(Top(g).at - 1) BY <2>3, <2>5, <3>1
    <3>4. ImportsPassed(g, Len(stack[g])) BY <2>4 DEF LoadInv, BodiesInOrder
    <3>5. records[imports[m][i]] # None \/ Pending(g, Len(stack[g]), imports[m][i])
      BY <2>1, <2>4, <3>3, <3>4 DEF ImportsPassed
    <3>6. ~Pending(g, Len(stack[g]), imports[m][i]) BY <2>3, <2>4 DEF Pending
    <3> QED BY <3>2, <3>5, <3>6
  <2>9. PublishedWhole'
    <3>1. SUFFICES ASSUME NEW x \in Modules, records'[x] = "full"
                   PROVE  x \notin failing /\ \A i \in DOMAIN imports[x] : records'[imports[x][i]] # None
      BY <2>3 DEF PublishedWhole
    <3>2. CASE x = m BY <2>3, <2>7, <2>8, <3>2
    <3>3. CASE x # m
      <4>1. /\ x \notin failing /\ \A i \in DOMAIN imports[x] : records[imports[x][i]] # None
        BY <2>7, <3>1, <3>3 DEF LoadInv, PublishedWhole
      <4>2. imports[x] \in Seq(Modules) BY DEF LoadInv, LoadTypes
      <4>3. \A i \in DOMAIN imports[x] : imports[x][i] \in Modules BY <4>2, LenProperties, ElementOfSeq
      <4> QED BY <2>7, <4>1, <4>3
    <3> QED BY <3>2, <3>3
  <2>10. bad' \in [Goroutines -> BOOLEAN] /\ bad' = bad BY <2>3 DEF LoadInv, LoadTypes
  <2> QED BY <2>1, <2>3, <2>7, <2>9, <2>10, LoadEnded
<1>14. CASE LoadFails(g)
  <2>1. /\ In(g, "load") /\ Pop(g) /\ bad' = [bad EXCEPT ![g] = TRUE]
        /\ loading' = loading \ {Path[Top(g).m]} /\ paths' = Tail(paths) /\ lock' = Unlocked
        /\ UNCHANGED <<imports, failing, records>>
    BY <1>14 DEF LoadFails, BodyFails
  <2>2. /\ bad' \in [Goroutines -> BOOLEAN] /\ bad'[g]
        /\ \A h \in Goroutines \ {g} : bad'[h] = bad[h]
    BY <2>1 DEF LoadInv, LoadTypes
  <2>3. PublishedWhole' BY <2>1 DEF LoadInv, PublishedWhole
  <2>4. records' \in [Modules -> {None, "native", "full"}] BY <2>1 DEF LoadInv, LoadTypes
  <2> QED BY <2>1, <2>2, <2>3, <2>4, LoadEnded
<1>15. CASE SetGlobal(g)
  <2>1. In(g, "call") /\ UNCHANGED <<imports, failing, records, loading, paths, lock, bad>>
    BY <1>15, SetGlobalWrites
  <2>2. CASE UNCHANGED stack BY <2>1, <2>2, StackKept DEF LoadInv, LoadTypes
  <2>3. CASE \E C : \E c \in DerivedVMs(C) :
               c.on = Top(g).callVM.on /\ Replace(g, [Top(g) EXCEPT !.callVM = c])
    BY <2>1, <2>3, DerivedWrites
  <2> QED BY <1>15, <2>2, <2>3, SetGlobalWrites
<1>16. CASE IncGlobalInt(g) \/ NoteEscape(g)
  <2>1. /\ UNCHANGED <<imports, failing, records, loading, paths, lock, stack>> /\ bad' = bad
    BY <1>16 DEF IncGlobalInt, NoteEscape, loadVars
  <2> QED BY <2>1, StackKept DEF LoadInv, LoadTypes
<1>17. CASE CallEnds(g)
  <2>1. /\ stack[g] # <<>> /\ Top(g).k = "call" /\ Pop(g)
        /\ UNCHANGED <<imports, failing, records, loading, paths, lock>>
    BY <1>17 DEF CallEnds, In, loadVars
  <2>2. PICK err \in BOOLEAN : bad' = [bad EXCEPT ![g] = err] BY <1>17 DEF CallEnds
  <2>3. bad' \in [Goroutines -> BOOLEAN] /\ \A h \in Goroutines \ {g} : bad'[h] = bad[h]
    BY <2>2 DEF LoadInv, LoadTypes
  <2> QED BY <2>1, <2>3, FramePopped DEF LoadInv, LoadTypes
<1>18. CASE Catch(g)
  <2>2. bad' = [bad EXCEPT ![g] = FALSE] BY <1>18 DEF Catch
  <2>3. bad' \in [Goroutines -> BOOLEAN] /\ \A h \in Goroutines \ {g} : bad'[h] = bad[h]
    BY <2>2 DEF LoadInv, LoadTypes
  <2>4. Len(stack[g]) \notin FramesOf(g, "load")
    <3>1. CASE stack[g] = <<>> BY <3>1 DEF FramesOf
    <3>2. CASE In(g, "call") BY <3>2 DEF FramesOf, In, Top, Last
    <3> QED BY <1>18, <3>1, <3>2 DEF Catch
  <2>5. UNCHANGED <<imports, failing, records, loading, paths, lock, stack>>
    BY <1>18 DEF Catch, loadVars
  <2> QED BY <2>3, <2>4, <2>5, StackKept
<1> QED BY <1>2, <1>3, <1>4, <1>5, <1>6, <1>7, <1>8, <1>9, <1>10, <1>11, <1>12, <1>13, <1>14,
           <1>15, <1>16, <1>17, <1>18 DEF Continue

\* The invariant holds throughout, for every import graph.
THEOREM LoaderInvariant == Spec => []LoadInv
BY LoadInit, LoadNext, PTL DEF Spec

\* The two shared pieces of load state, modulePaths and the cycle set, list the loads in
\* progress and nothing else, all of them in the goroutine that holds loadLock, after any
\* mix of loads that ended well and loads that failed.
THEOREM LoadStateCleanHolds == Spec => []LoadStateClean
<1>1. LoadInv => LoadStateClean BY DEF LoadInv
<1> QED BY <1>1, LoaderInvariant, PTL

\* A module is published only when its body did not fail and each of its imports is
\* recorded, through import cycles and failed imports.
THEOREM PublishedWholeHolds == Spec => []PublishedWhole
<1>1. LoadInv => PublishedWhole BY DEF LoadInv
<1> QED BY <1>1, LoaderInvariant, PTL

\* No file's body is ever run in two places, under whatever names, nor again under a name
\* that is published.
THEOREM OneLoadHolds == Spec => []OneLoad
BY LoaderInvariant, CleanIsOneLoad, PTL

-----------------------------------------------------------------------------
(* The worker VMs. *)

Workers == 1..MaxVMs
VMs(G) == [m : Modules \cup {None}, globals : G, dirty : G,
           active : BOOLEAN, host : 0..MaxVMs, escaped : BOOLEAN]
WorkTypes ==
  /\ \E G : vms \in [Workers -> VMs(G)] /\ globals \in [Modules -> G]
  /\ pools \in [Modules -> Seq(Workers)]

\* Frame i of g owns worker v.
Owns(g, i, v) == i \in FramesOf(g, "call") /\ stack[g][i].own /\ stack[g][i].vm = v

\* A call runs on an active worker of its module, which it or a call further out owns.
CallsOnWorkers ==
  \A g \in Goroutines : \A i \in FramesOf(g, "call") :
    /\ stack[g][i].vm \in Workers
    /\ vms[stack[g][i].vm].active /\ vms[stack[g][i].vm].m = stack[g][i].m
    /\ \E k \in FramesOf(g, "call") : k <= i /\ Owns(g, k, stack[g][i].vm)

OneOwner ==
  \A g, h \in Goroutines : \A i \in FramesOf(g, "call"), j \in FramesOf(h, "call") :
    \A v \in Workers : Owns(g, i, v) /\ Owns(h, j, v) => g = h /\ i = j

\* The re-entry host of a worker is the worker of the call just below its owner, if that
\* call's function runs on the worker itself.
OnWorker(g, i) == i \in FramesOf(g, "call") /\ ~stack[g][i].callVM.on
Below(g, i) == IF OnWorker(g, i - 1) THEN stack[g][i - 1].vm ELSE NoVM
HostsBelow ==
  \A g \in Goroutines : \A i \in FramesOf(g, "call") : \A v \in Workers :
    Owns(g, i, v) => vms[v].host = Below(g, i)

\* An active worker has an owner, and one that is not has no host.
ActiveOwned ==
  \A v \in Workers :
    IF vms[v].active THEN \E g \in Goroutines : \E i \in FramesOf(g, "call") : Owns(g, i, v)
    ELSE vms[v].host = NoVM

PoolsIdle ==
  \A m \in Modules : \A i \in DOMAIN pools[m] :
    LET v == pools[m][i]
    IN  /\ vms[v].m = m /\ ~vms[v].active /\ ~vms[v].escaped /\ vms[v].dirty = {}
        /\ \A j \in DOMAIN pools[m] : pools[m][j] = v => i = j

WorkInv == WorkTypes /\ CallsOnWorkers /\ OneOwner /\ HostsBelow /\ ActiveOwned /\ PoolsIdle

-----------------------------------------------------------------------------
(* The walk along the hosts: it ends, and stays in its chain of calls.       *)

\* A set of natural numbers that is not empty has a least element.
LEMMA LeastOf ==
  ASSUME NEW T, T \subseteq Nat, T # {}
  PROVE  \E x \in T : \A y \in T : x <= y
<1> DEFINE R == {p \in Nat \X Nat : p[1] < p[2]}
<1>1. IsWellFoundedOn(R, Nat) BY NatLessThanWellFounded, Zenon DEF OpToRel
<1> HIDE DEF R
<1>2. PICK x \in T : \A y \in T : ~(<<y, x>> \in R) BY <1>1, WFMin, Zenon
<1>3. \A y \in T : ~(y < x) BY <1>2 DEF R
<1> QED BY <1>3

\* Induction, in terms of a set.
LEMMA AllNat ==
  ASSUME NEW S, S \subseteq Nat, 0 \in S, \A n \in S : n + 1 \in S
  PROVE  S = Nat
<1> SUFFICES ASSUME S # Nat PROVE FALSE OBVIOUS
<1>1. PICK x \in Nat \ S : \A y \in Nat \ S : x <= y BY LeastOf
<1>2. x # 0 /\ x - 1 \in Nat /\ x - 1 \in S BY <1>1
<1> QED BY <1>1, <1>2

Hit(m, v) == v = NoVM \/ (vms[v].active /\ vms[v].m = m)

\* The workers that no frame further in than the k-th of its stack owns.
Within(k) ==
  {v \in 0..MaxVMs : \A g \in Goroutines : \A i \in FramesOf(g, "call") : Owns(g, i, v) => i <= k}

Hop(m, v, f) == IF Hit(m, v) THEN v ELSE f[vms[v].host]

\* No frame owns the worker that is none; the positions of frames are numbers.
LEMMA FramesAt ==
  ASSUME LoadInv, WorkInv, NEW g \in Goroutines, NEW i \in FramesOf(g, "call")
  PROVE  /\ i \in Nat \ {0} /\ ~Owns(g, i, NoVM)
         /\ stack[g][i].vm \in Workers /\ stack[g][i].m \in Modules
<1>1. PICK V : stack \in Stacks(V) BY DEF LoadInv, LoadTypes
<1>2. i \in Nat \ {0} BY <1>1, LoadFrames
<1>3. stack[g][i].vm \in Workers BY DEF WorkInv, CallsOnWorkers
<1>4. NoVM \notin Workers BY DEF NoVM, Workers
<1>5. stack[g][i].m \in Modules BY <1>1, LoadFrames DEF Frames
<1> QED BY <1>2, <1>3, <1>4, <1>5 DEF Owns

\* One step of the walk goes to a worker further out.
LEMMA HostWithin ==
  ASSUME LoadInv, WorkInv, NEW k \in Nat, NEW v \in Workers, v \in Within(k + 1)
  PROVE  vms[v].host \in Within(k)
<1>1. MaxVMs \in Nat BY LoaderAssumption
<1>2. NoVM \in Within(k)
  <2>1. NoVM \in 0..MaxVMs BY <1>1 DEF NoVM
  <2> QED BY <2>1, FramesAt DEF Within
<1>3. CASE ~vms[v].active BY <1>2, <1>3 DEF WorkInv, ActiveOwned
<1>4. CASE vms[v].active
  <2>1. PICK g \in Goroutines : \E i \in FramesOf(g, "call") : Owns(g, i, v)
    BY <1>4 DEF WorkInv, ActiveOwned
  <2>2. PICK i \in FramesOf(g, "call") : Owns(g, i, v) BY <2>1
  <2>3. i \in Nat \ {0} /\ i <= k + 1 BY <2>2, FramesAt DEF Within
  <2>4. vms[v].host = Below(g, i) BY <2>2 DEF WorkInv, HostsBelow
  <2>5. CASE ~OnWorker(g, i - 1) BY <1>2, <2>4, <2>5 DEF Below
  <2>6. CASE OnWorker(g, i - 1)
    <3>0. i - 1 \in FramesOf(g, "call") BY <2>6 DEF OnWorker
    <3> DEFINE u == stack[g][i - 1].vm
    <3>1. vms[v].host = u /\ u \in Workers BY <2>4, <2>6, <3>0, FramesAt DEF Below
    <3>2. PICK j \in FramesOf(g, "call") : j <= i - 1 /\ Owns(g, j, u)
      BY <3>0 DEF WorkInv, CallsOnWorkers
    <3> HIDE DEF u
    <3>3. ASSUME NEW h \in Goroutines, NEW l \in FramesOf(h, "call"), Owns(h, l, u) PROVE l <= k
      <4>1. l = j BY <3>1, <3>2, <3>3 DEF WorkInv, OneOwner
      <4>2. j \in Nat BY FramesAt
      <4> QED BY <2>3, <3>2, <4>1, <4>2
    <3>4. u \in 0..MaxVMs BY <1>1, <3>1 DEF Workers
    <3> QED BY <3>1, <3>3, <3>4 DEF Within
  <2> QED BY <2>5, <2>6
<1> QED BY <1>3, <1>4

\* A frame further out than one bound is further out than the next.
LEMMA WithinGrows ==
  ASSUME LoadInv, WorkInv, NEW k \in Nat
  PROVE  Within(k) \subseteq Within(k + 1)
<1>1. \A g \in Goroutines : \A i \in FramesOf(g, "call") : i \in Nat BY FramesAt
<1>2. \A i \in Nat : i <= k => i <= k + 1 OBVIOUS
<1> QED BY <1>1, <1>2 DEF Within

\* Every worker is within some distance, and so are all of them.
LEMMA AllWithin ==
  ASSUME LoadInv, WorkInv
  PROVE  \E k \in Nat : 0..MaxVMs \subseteq Within(k)
<1>1. MaxVMs \in Nat BY LoaderAssumption
<1>2. \A g \in Goroutines : \A i \in FramesOf(g, "call") : i \in Nat BY FramesAt
<1>3. ASSUME NEW v \in 0..MaxVMs PROVE \E k \in Nat : v \in Within(k)
  <2>1. CASE \E g \in Goroutines : \E i \in FramesOf(g, "call") : Owns(g, i, v)
    <3>1. PICK g \in Goroutines : \E i \in FramesOf(g, "call") : Owns(g, i, v) BY <2>1
    <3>2. PICK i \in FramesOf(g, "call") : Owns(g, i, v) BY <3>1
    <3>3. v \in Workers /\ i \in Nat /\ i <= i BY <3>2, FramesAt DEF Owns
    <3>4. ASSUME NEW h \in Goroutines, NEW j \in FramesOf(h, "call"), Owns(h, j, v) PROVE j <= i
      BY <3>2, <3>3, <3>4 DEF WorkInv, OneOwner
    <3> QED BY <3>3, <3>4 DEF Within
  <2>2. CASE ~\E g \in Goroutines : \E i \in FramesOf(g, "call") : Owns(g, i, v)
    BY <2>2 DEF Within
  <2> QED BY <2>1, <2>2
<1> DEFINE S == {n \in Nat : n <= MaxVMs => \E k \in Nat : 0..n \subseteq Within(k)}
<1>4. ASSUME NEW k \in Nat, NEW l \in Nat, k <= l PROVE Within(k) \subseteq Within(l)
  <2>1. \A i \in Nat : i <= k => i <= l BY <1>4
  <2> QED BY <1>2, <2>1 DEF Within
<1>5. 0 \in S
  <2>1. 0 \in 0..MaxVMs BY <1>1
  <2>2. PICK k \in Nat : 0 \in Within(k) BY <1>3, <2>1
  <2>3. 0..0 \subseteq Within(k) BY <2>2
  <2> QED BY <2>3
<1>6. ASSUME NEW n \in S PROVE n + 1 \in S
  <2>1. SUFFICES ASSUME n + 1 <= MaxVMs PROVE \E k \in Nat : 0..(n + 1) \subseteq Within(k) OBVIOUS
  <2>2. n <= MaxVMs BY <1>1, <2>1
  <2>3. PICK k \in Nat : 0..n \subseteq Within(k) BY <2>2
  <2>4. n + 1 \in 0..MaxVMs BY <1>1, <2>1
  <2>5. PICK l \in Nat : n + 1 \in Within(l) BY <1>3, <2>4
  <2>6. k + l \in Nat /\ k <= k + l /\ l <= k + l OBVIOUS
  <2>7. Within(k) \subseteq Within(k + l) /\ Within(l) \subseteq Within(k + l) BY <1>4, <2>6
  <2>8. \A x \in 0..(n + 1) : x \in 0..n \/ x = n + 1 OBVIOUS
  <2>9. 0..(n + 1) \subseteq Within(k + l) BY <2>3, <2>5, <2>7, <2>8
  <2> QED BY <2>6, <2>9
<1>7. S = Nat
  <2>1. S \subseteq Nat OBVIOUS
  <2> HIDE DEF S
  <2> QED BY <1>5, <1>6, <2>1, AllNat
<1>8. MaxVMs \in S BY <1>1, <1>7
<1> QED BY <1>1, <1>8

\* The walk of moduleVM is defined from every worker.
LEMMA WalkExists ==
  ASSUME LoadInv, WorkInv, NEW m
  PROVE  \E f : f = [v \in 0..MaxVMs |-> Hop(m, v, f)]
<1>1. MaxVMs \in Nat BY LoaderAssumption
<1>2. \A v \in 0..MaxVMs : ~Hit(m, v) => v \in Workers BY <1>1 DEF Hit, NoVM, Workers
<1>3. \A v \in 0..MaxVMs : ~Hit(m, v) => vms[v].host \in 0..MaxVMs
  BY <1>2 DEF WorkInv, WorkTypes, VMs
<1> DEFINE S == {k \in Nat : \E f \in [0..MaxVMs -> 0..MaxVMs] : \A v \in Within(k) : f[v] = Hop(m, v, f)}
<1>4. 0 \in S
  <2> DEFINE f == [v \in 0..MaxVMs |-> IF Hit(m, v) THEN v ELSE NoVM]
  <2>1. NoVM \in 0..MaxVMs /\ Hit(m, NoVM) BY <1>1 DEF NoVM, Hit
  <2>2. f \in [0..MaxVMs -> 0..MaxVMs] /\ f[NoVM] = NoVM BY <2>1
  <2>3. ASSUME NEW v \in Within(0) PROVE f[v] = Hop(m, v, f)
    <3>1. v \in 0..MaxVMs BY DEF Within
    <3>2. CASE Hit(m, v) BY <3>1, <3>2 DEF Hop
    <3>3. CASE ~Hit(m, v)
      <4>1. v \in Workers BY <1>2, <3>1, <3>3
      <4>2. ASSUME NEW g \in Goroutines, NEW i \in FramesOf(g, "call") PROVE ~Owns(g, i, v)
        <5>1. i \in Nat \ {0} BY FramesAt
        <5>2. ~(i <= 0) BY <5>1
        <5> QED BY <5>2 DEF Within
      <4>3. vms[v].host = NoVM BY <4>1, <4>2 DEF WorkInv, ActiveOwned
      <4> QED BY <2>2, <3>1, <3>3, <4>3 DEF Hop
    <3> QED BY <3>2, <3>3
  <2> HIDE DEF f
  <2> QED BY <2>2, <2>3
<1>5. ASSUME NEW k \in S PROVE k + 1 \in S
  <2>0. k \in Nat /\ k + 1 \in Nat OBVIOUS
  <2>1. PICK f \in [0..MaxVMs -> 0..MaxVMs] : \A v \in Within(k) : f[v] = Hop(m, v, f) OBVIOUS
  <2> DEFINE w == [v \in 0..MaxVMs |-> IF v \in Within(k) THEN f[v] ELSE Hop(m, v, f)]
  <2>2. w \in [0..MaxVMs -> 0..MaxVMs]
    <3>1. \A v \in 0..MaxVMs : Hop(m, v, f) \in 0..MaxVMs BY <1>3 DEF Hop
    <3> QED BY <3>1
  <2>3. ASSUME NEW v \in Within(k + 1) PROVE w[v] = Hop(m, v, w)
    <3>1. v \in 0..MaxVMs BY DEF Within
    <3>2. w[v] = Hop(m, v, f) BY <2>1, <3>1
    <3>3. CASE Hit(m, v) BY <3>2, <3>3 DEF Hop
    <3>4. CASE ~Hit(m, v)
      <4>1. v \in Workers BY <1>2, <3>1, <3>4
      <4>2. vms[v].host \in Within(k) BY <2>0, <4>1, HostWithin
      <4>3. vms[v].host \in 0..MaxVMs BY <4>2 DEF Within
      <4>4. w[vms[v].host] = f[vms[v].host] BY <4>2, <4>3
      <4> HIDE DEF w
      <4> QED BY <3>2, <3>4, <4>4 DEF Hop
    <3> QED BY <3>3, <3>4
  <2> HIDE DEF w
  <2> QED BY <2>0, <2>2, <2>3
<1>6. S = Nat
  <2>1. S \subseteq Nat OBVIOUS
  <2> HIDE DEF S
  <2> QED BY <1>4, <1>5, <2>1, AllNat
<1>7. PICK k \in Nat : 0..MaxVMs \subseteq Within(k) BY AllWithin
<1>8. PICK f \in [0..MaxVMs -> 0..MaxVMs] : \A v \in Within(k) : f[v] = Hop(m, v, f)
  <2>1. k \in S BY <1>6
  <2> QED BY <2>1
<1>9. f = [v \in 0..MaxVMs |-> f[v]] OBVIOUS
<1>10. \A v \in 0..MaxVMs : f[v] = Hop(m, v, f) BY <1>7, <1>8
<1>11. f = [v \in 0..MaxVMs |-> Hop(m, v, f)] BY <1>9, <1>10, Zenon
<1> QED BY <1>11

\* From the worker of a call the walk ends nowhere, or at a worker of the module that a
\* call of the same goroutine runs on.
LEMMA BorrowedInChain ==
  ASSUME LoadInv, WorkInv, NEW m, NEW g \in Goroutines, NEW c,
         c = NoVM \/ \E i \in FramesOf(g, "call") : c = stack[g][i].vm
  PROVE  \/ ActiveWorker(m, c) = NoVM
         \/ \E j \in FramesOf(g, "call") : ActiveWorker(m, c) = stack[g][j].vm /\ stack[g][j].m = m
<1>1. MaxVMs \in Nat BY LoaderAssumption
<1> DEFINE W == CHOOSE f : f = [v \in 0..MaxVMs |-> Hop(m, v, f)]
           Fine(x) == x = NoVM \/ \E j \in FramesOf(g, "call") : x = stack[g][j].vm /\ stack[g][j].m = m
<1>2. ActiveWorker(m, c) = W[c] BY DEF ActiveWorker, Hop, Hit
<1>3. W = [v \in 0..MaxVMs |-> Hop(m, v, W)] BY WalkExists
<1> HIDE DEF W
<1>4. \A v \in 0..MaxVMs : W[v] = Hop(m, v, W) BY <1>3
<1>5. NoVM \in 0..MaxVMs /\ W[NoVM] = NoVM BY <1>1, <1>4 DEF NoVM, Hop, Hit
<1> DEFINE S == {k \in Nat : \A i \in FramesOf(g, "call") : stack[g][i].vm \in Within(k) => Fine(W[stack[g][i].vm])}
<1>6. ASSUME NEW k \in Nat, NEW i \in FramesOf(g, "call"), NEW v, v = stack[g][i].vm,
             v \in Within(k + 1),
             \A l \in FramesOf(g, "call") : stack[g][l].vm \in Within(k) => Fine(W[stack[g][l].vm])
      PROVE  Fine(W[v])
  <2>1. v \in Workers /\ vms[v].active /\ vms[v].m = stack[g][i].m BY <1>6 DEF WorkInv, CallsOnWorkers
  <2>2. W[v] = Hop(m, v, W) BY <1>1, <1>4, <2>1 DEF Workers
  <2>3. CASE Hit(m, v)
    <3>1. W[v] = v BY <2>2, <2>3 DEF Hop
    <3>2. v # NoVM BY <2>1 DEF Workers, NoVM
    <3>3. stack[g][i].m = m BY <2>1, <2>3, <3>2 DEF Hit
    <3> QED BY <1>6, <3>1, <3>3
  <2>4. CASE ~Hit(m, v)
    <3>1. W[v] = W[vms[v].host] BY <2>2, <2>4 DEF Hop
    <3>2. vms[v].host \in Within(k) BY <1>6, <2>1, HostWithin
    <3>3. PICK l \in FramesOf(g, "call") : Owns(g, l, v) BY <1>6 DEF WorkInv, CallsOnWorkers
    <3>4. vms[v].host = Below(g, l) BY <2>1, <3>3 DEF WorkInv, HostsBelow
    <3>5. CASE OnWorker(g, l - 1)
      <4>1. l - 1 \in FramesOf(g, "call") /\ vms[v].host = stack[g][l - 1].vm
        BY <3>4, <3>5 DEF Below, OnWorker
      <4> QED BY <1>6, <3>1, <3>2, <4>1
    <3>6. CASE ~OnWorker(g, l - 1) BY <1>5, <3>1, <3>4, <3>6 DEF Below
    <3> QED BY <3>5, <3>6
  <2> QED BY <2>3, <2>4
<1>7. 0 \in S
  <2>1. ASSUME NEW i \in FramesOf(g, "call") PROVE stack[g][i].vm \notin Within(0)
    <3>1. PICK l \in FramesOf(g, "call") : Owns(g, l, stack[g][i].vm)
      BY DEF WorkInv, CallsOnWorkers
    <3>2. l \in Nat \ {0} BY FramesAt
    <3>3. ~(l <= 0) BY <3>2
    <3> QED BY <3>1, <3>3 DEF Within
  <2> QED BY <2>1
<1>8. ASSUME NEW k \in S PROVE k + 1 \in S
  <2>1. k \in Nat /\ k + 1 \in Nat OBVIOUS
  <2>2. \A l \in FramesOf(g, "call") : stack[g][l].vm \in Within(k) => Fine(W[stack[g][l].vm]) OBVIOUS
  <2>3. ASSUME NEW i \in FramesOf(g, "call"), stack[g][i].vm \in Within(k + 1)
        PROVE  Fine(W[stack[g][i].vm])
    BY <1>6, <2>1, <2>2, <2>3
  <2> HIDE DEF Fine
  <2> QED BY <2>1, <2>3
<1>9. S = Nat
  <2>1. S \subseteq Nat OBVIOUS
  <2> HIDE DEF S
  <2> QED BY <1>7, <1>8, <2>1, AllNat
<1>10. PICK k \in Nat : 0..MaxVMs \subseteq Within(k) BY AllWithin
<1>11. ASSUME NEW i \in FramesOf(g, "call") PROVE Fine(W[stack[g][i].vm])
  <2>1. k \in S BY <1>9
  <2>2. stack[g][i].vm \in Workers BY FramesAt
  <2>3. stack[g][i].vm \in Within(k) BY <1>1, <1>10, <2>2 DEF Workers
  <2> HIDE DEF Fine
  <2> QED BY <2>1, <2>3
<1>12. Fine(W[c]) BY <1>5, <1>11
<1> QED BY <1>2, <1>12

-----------------------------------------------------------------------------
(* What a step does to the calls in progress. *)

\* The calls of the other goroutines.
OthersCall(g) ==
  \A h \in Goroutines \ {g} : FramesOf(h, "call")' = FramesOf(h, "call") /\ stack'[h] = stack[h]

\* Frame f, a call, is put on g's stack as its n-th.
PushedAt(g, n, f) ==
  /\ n \in Nat \ {0}
  /\ OthersCall(g)
  /\ FramesOf(g, "call")' = FramesOf(g, "call") \cup {n}
  /\ \A i \in FramesOf(g, "call") : i \in Nat \ {0} /\ i < n /\ stack'[g][i] = stack[g][i]
  /\ stack'[g][n] = f
  /\ Caller(g) = Below(g, n)

\* A call is put on a stack, above the call it comes from, if there is one.
LEMMA CallPushed ==
  ASSUME LoadInv, NEW g \in Goroutines, NEW m \in Modules, NEW vm, NEW own \in BOOLEAN,
         Enters(g, m, vm, own)
  PROVE  \E n, f : PushedAt(g, n, f) /\ f.m = m /\ f.vm = vm /\ f.own = own
<1>1. PICK V : stack \in Stacks(V) BY DEF LoadInv, LoadTypes
<1>a. PICK C : \E callVM \in DerivedVMs(C) :
        stack' = [stack EXCEPT ![g] = Append(stack[g], Frame("call", m, vm, own, callVM))]
  BY DEF Enters
<1>b. PICK callVM \in DerivedVMs(C) :
        stack' = [stack EXCEPT ![g] = Append(stack[g], Frame("call", m, vm, own, callVM))]
  BY <1>a
<1>2. PICK f : f = Frame("call", m, vm, own, callVM) OBVIOUS
<1>3. PICK l : l = Len(stack[g]) OBVIOUS
<1> DEFINE W == V \cup C \cup {vm}
<1>4. stack \in Stacks(W) BY <1>1, Widen
<1>5. f \in Frames(W) /\ f.k = "call" /\ f.m = m /\ f.vm = vm /\ f.own = own
  <2>1. callVM \in DerivedVMs(W) BY DEF DerivedVMs
  <2> QED BY <1>2, <2>1 DEF Frames, Frame
<1> HIDE DEF W
<1>6. /\ stack' \in Stacks(W) /\ OthersKeep(g)
      /\ l \in Nat /\ Len(stack'[g]) = l + 1
      /\ \A i \in 1..l : stack'[g][i] = stack[g][i]
      /\ stack'[g][l + 1] = f
  <2>1. stack' = [stack EXCEPT ![g] = Append(stack[g], f)] BY <1>b, <1>2
  <2>2. /\ stack' \in Stacks(W) /\ OthersKeep(g)
        /\ Len(stack[g]) \in Nat /\ Len(stack'[g]) = Len(stack[g]) + 1
        /\ \A i \in 1..Len(stack[g]) : stack'[g][i] = stack[g][i]
        /\ stack'[g][Len(stack[g]) + 1] = f
    BY <1>4, <1>5, <2>1, Pushed
  <2> QED BY <1>3, <2>2
<1>7. FramesOf(g, "call") = {i \in 1..l : stack[g][i].k = "call"} BY <1>1, <1>3, LoadFrames
<1>8. FramesOf(g, "call")' = {i \in 1..(l + 1) : stack'[g][i].k = "call"}
  <2>1. stack'[g] \in Seq(Frames(W)) BY <1>6 DEF Stacks
  <2>2. DOMAIN stack'[g] = 1..(l + 1) BY <1>6, <2>1, LenProperties
  <2> QED BY <2>2 DEF FramesOf
<1>9. \A i \in 1..l : i \in 1..(l + 1) /\ i \in Nat \ {0} /\ i < l + 1 BY <1>6
<1>10. \A i \in 1..(l + 1) : i \in 1..l \/ i = l + 1 BY <1>6
<1>11. l + 1 \in 1..(l + 1) /\ l + 1 \in Nat \ {0} /\ (l + 1) - 1 = l BY <1>6
<1>12. FramesOf(g, "call")' = FramesOf(g, "call") \cup {l + 1}
  <2>1. ASSUME NEW i \in FramesOf(g, "call")' PROVE i \in FramesOf(g, "call") \cup {l + 1}
    BY <1>6, <1>7, <1>8, <1>10
  <2>2. ASSUME NEW i \in FramesOf(g, "call") \cup {l + 1} PROVE i \in FramesOf(g, "call")'
    BY <1>5, <1>6, <1>7, <1>8, <1>9, <1>11
  <2> QED BY <2>1, <2>2
<1>13. Caller(g) = Below(g, l + 1)
  <2>1. stack[g] \in Seq(Frames(V)) BY <1>1 DEF Stacks
  <2>2. CASE stack[g] = <<>>
    <3>1. l = 0 BY <1>3, <2>2
    <3>2. l \notin FramesOf(g, "call") BY <1>7, <3>1
    <3> QED BY <1>11, <2>2, <3>2 DEF Caller, In, Below, OnWorker
  <2>3. CASE stack[g] # <<>>
    <3>1. Last(stack[g]) = stack[g][Len(stack[g])] /\ Len(stack[g]) \in Nat \ {0}
      BY <2>1, <2>3, FrontLast
    <3>2. Top(g) = stack[g][l] /\ l \in 1..l BY <1>3, <3>1 DEF Top
    <3> QED BY <1>7, <1>11, <2>3, <3>2 DEF Caller, In, Below, OnWorker
  <2> QED BY <2>2, <2>3
<1>14. OthersCall(g) BY <1>6 DEF OthersCall, OthersKeep, FramesOf
<1>15. PushedAt(g, l + 1, f) BY <1>6, <1>7, <1>9, <1>11, <1>12, <1>13, <1>14 DEF PushedAt
<1> QED BY <1>5, <1>15

\* The innermost frame, a call, ends.
LEMMA CallPopped ==
  ASSUME LoadInv, NEW g \in Goroutines, In(g, "call"), Pop(g)
  PROVE  \E n \in FramesOf(g, "call") :
           /\ OthersCall(g) /\ Top(g) = stack[g][n]
           /\ FramesOf(g, "call")' = FramesOf(g, "call") \ {n}
           /\ \A i \in FramesOf(g, "call") \ {n} : i < n /\ stack'[g][i] = stack[g][i]
<1>1. PICK V : stack \in Stacks(V) BY DEF LoadInv, LoadTypes
<1>2. PICK n : n = Len(stack[g]) OBVIOUS
<1>3. stack[g] # <<>> /\ Top(g).k = "call" BY DEF In
<1>4. /\ stack' \in Stacks(V) /\ OthersKeep(g)
      /\ n \in Nat \ {0} /\ Len(stack'[g]) = n - 1
      /\ \A i \in 1..(n - 1) : stack'[g][i] = stack[g][i]
      /\ Top(g) = stack[g][n]
  BY <1>1, <1>2, <1>3, Popped
<1>5. FramesOf(g, "call") = {i \in 1..n : stack[g][i].k = "call"} BY <1>1, <1>2, LoadFrames
<1>6. FramesOf(g, "call")' = {i \in 1..(n - 1) : stack'[g][i].k = "call"}
  <2>1. stack'[g] \in Seq(Frames(V)) BY <1>4 DEF Stacks
  <2>2. DOMAIN stack'[g] = 1..(n - 1) BY <1>4, <2>1, LenProperties
  <2> QED BY <2>2 DEF FramesOf
<1>7. \A i \in 1..n : i = n \/ (i \in 1..(n - 1) /\ i < n) BY <1>4
<1>8. \A i \in 1..(n - 1) : i \in 1..n /\ i # n BY <1>4
<1>9. n \in FramesOf(g, "call")
  <2>1. n \in 1..n BY <1>4
  <2> QED BY <1>3, <1>4, <1>5, <2>1
<1>10. FramesOf(g, "call")' = FramesOf(g, "call") \ {n}
  <2>1. ASSUME NEW i \in FramesOf(g, "call")' PROVE i \in FramesOf(g, "call") \ {n}
    BY <1>4, <1>5, <1>6, <1>8
  <2>2. ASSUME NEW i \in FramesOf(g, "call") \ {n} PROVE i \in FramesOf(g, "call")'
    BY <1>4, <1>5, <1>6, <1>7
  <2> QED BY <2>1, <2>2
<1>11. \A i \in FramesOf(g, "call") \ {n} : i < n /\ stack'[g][i] = stack[g][i]
  BY <1>4, <1>5, <1>7
<1>12. OthersCall(g) BY <1>4 DEF OthersCall, OthersKeep, FramesOf
<1> QED BY <1>4, <1>9, <1>10, <1>11, <1>12

\* Steps between calls, and what a call does to its own worker while it runs.
LEMMA WorkKept ==
  ASSUME LoadInv, WorkInv, SameCalls, UNCHANGED pools, WorkTypes',
         \A v \in Workers : /\ vms'[v].m = vms[v].m /\ vms'[v].active = vms[v].active
                            /\ vms'[v].host = vms[v].host
                            /\ vms[v].active \/ vms'[v] = vms[v]
  PROVE  WorkInv'
<1>1. \A g \in Goroutines : FramesOf(g, "call")' = FramesOf(g, "call") BY DEF SameCalls
<1>2. \A g \in Goroutines : \A i \in FramesOf(g, "call") :
        /\ stack'[g][i].m = stack[g][i].m /\ stack'[g][i].vm = stack[g][i].vm
        /\ stack'[g][i].own = stack[g][i].own /\ stack'[g][i].callVM.on = stack[g][i].callVM.on
  BY DEF SameCalls, SameCall
<1>3. ASSUME NEW g \in Goroutines, NEW i \in FramesOf(g, "call"), NEW v
      PROVE  Owns(g, i, v)' <=> Owns(g, i, v)
  BY <1>1, <1>2 DEF Owns
<1>4. \A g \in Goroutines : \A i \in FramesOf(g, "call") : Below(g, i)' = Below(g, i)
  BY <1>1, <1>2 DEF Below, OnWorker
<1>5. CallsOnWorkers'
  <2>1. SUFFICES ASSUME NEW g \in Goroutines, NEW i \in FramesOf(g, "call")
        PROVE /\ stack'[g][i].vm \in Workers
              /\ vms'[stack'[g][i].vm].active /\ vms'[stack'[g][i].vm].m = stack'[g][i].m
              /\ \E k \in FramesOf(g, "call")' : k <= i /\ Owns(g, k, stack[g][i].vm)'
    BY <1>1, <1>2 DEF CallsOnWorkers, Owns
  <2>2. PICK k \in FramesOf(g, "call") : k <= i /\ Owns(g, k, stack[g][i].vm) BY DEF WorkInv, CallsOnWorkers
  <2>3. Owns(g, k, stack[g][i].vm)' BY <1>1, <1>2, <2>2 DEF Owns
  <2> QED BY <1>1, <1>2, <2>2, <2>3 DEF WorkInv, CallsOnWorkers
<1>6. OneOwner' BY <1>1, <1>3 DEF WorkInv, OneOwner, Workers
<1>7. HostsBelow' BY <1>1, <1>3, <1>4 DEF WorkInv, HostsBelow, Workers
<1>8. ActiveOwned'
  <2>1. SUFFICES ASSUME NEW v \in Workers
        PROVE IF vms'[v].active THEN \E g \in Goroutines : \E i \in FramesOf(g, "call")' : Owns(g, i, v)'
              ELSE vms'[v].host = NoVM
    BY DEF ActiveOwned, Workers
  <2>2. CASE vms[v].active
    <3>1. PICK g \in Goroutines : \E i \in FramesOf(g, "call") : Owns(g, i, v) BY <2>2 DEF WorkInv, ActiveOwned
    <3>2. PICK i \in FramesOf(g, "call") : Owns(g, i, v) BY <3>1
    <3> QED BY <1>1, <1>3, <2>2, <3>2
  <2>3. CASE ~vms[v].active BY <2>3 DEF WorkInv, ActiveOwned
  <2> QED BY <2>2, <2>3
<1>9. PoolsIdle'
  <2>1. SUFFICES ASSUME NEW m \in Modules, NEW i \in DOMAIN pools[m], NEW v, v = pools[m][i]
                 PROVE  vms'[v] = vms[v]
    BY DEF WorkInv, PoolsIdle
  <2>2. v \in Workers BY <2>1, LenProperties, ElementOfSeq DEF WorkInv, WorkTypes
  <2>3. ~vms[v].active BY <2>1 DEF WorkInv, PoolsIdle
  <2> QED BY <2>2, <2>3
<1> QED BY <1>5, <1>6, <1>7, <1>8, <1>9 DEF WorkInv

\* The innermost frame, when it is a call, is one of the goroutine's calls.
LEMMA TopIsFrame ==
  ASSUME LoadInv, NEW g \in Goroutines, In(g, "call")
  PROVE  \E i \in FramesOf(g, "call") : Top(g) = stack[g][i]
<1>1. PICK V : stack \in Stacks(V) BY DEF LoadInv, LoadTypes
<1>2. stack[g] \in Seq(Frames(V)) /\ stack[g] # <<>> /\ Top(g).k = "call" BY <1>1 DEF Stacks, In
<1>3. Top(g) = stack[g][Len(stack[g])] /\ Len(stack[g]) \in Nat \ {0} BY <1>2, FrontLast DEF Top
<1>4. Len(stack[g]) \in 1..Len(stack[g]) BY <1>3
<1>5. FramesOf(g, "call") = {i \in 1..Len(stack[g]) : stack[g][i].k = "call"} BY <1>1, LoadFrames
<1> QED BY <1>2, <1>3, <1>4, <1>5

\* CallsOnWorkers in the next state, call by call.
LEMMA CallsOnWorkersNext ==
  ASSUME \A h \in Goroutines : \A i \in FramesOf(h, "call")' :
           \E w \in Workers :
             /\ w = stack'[h][i].vm /\ vms'[w].active /\ vms'[w].m = stack'[h][i].m
             /\ \E k \in FramesOf(h, "call")' : k <= i /\ Owns(h, k, w)'
  PROVE  CallsOnWorkers'
<1>1. ASSUME NEW h \in Goroutines, NEW i \in FramesOf(h, "call")'
      PROVE  /\ stack'[h][i].vm \in Workers /\ vms'[stack'[h][i].vm].active
             /\ vms'[stack'[h][i].vm].m = stack'[h][i].m
             /\ \E k \in FramesOf(h, "call")' : k <= i /\ Owns(h, k, stack[h][i].vm)'
  <2>1. PICK w \in Workers :
             /\ w = stack'[h][i].vm /\ vms'[w].active /\ vms'[w].m = stack'[h][i].m
             /\ \E k \in FramesOf(h, "call")' : k <= i /\ Owns(h, k, w)'
    OBVIOUS
  <2>2. ASSUME NEW k, Owns(h, k, w)' PROVE Owns(h, k, stack[h][i].vm)' BY <2>1, <2>2 DEF Owns
  <2> QED BY <2>1, <2>2
<1> QED BY <1>1 DEF CallsOnWorkers, Workers

\* The frames of a step that puts a call on the stack, in the words of the invariant.
Added(g, n, own, vm) ==
  /\ n \in Nat /\ n \notin FramesOf(g, "call") /\ n \in FramesOf(g, "call")'
  /\ \A h \in Goroutines : \A i \in FramesOf(h, "call")' : i \in FramesOf(h, "call") \/ (h = g /\ i = n)
  /\ \A h \in Goroutines : \A i \in FramesOf(h, "call") :
       /\ i \in FramesOf(h, "call")' /\ stack'[h][i] = stack[h][i]
       /\ \A u \in Workers : Owns(h, i, u)' <=> Owns(h, i, u)
       /\ Below(h, i)' = Below(h, i)
  /\ \A u \in Workers : Owns(g, n, u)' <=> own /\ vm = u
  /\ Below(g, n)' = Caller(g)
  /\ \A i \in FramesOf(g, "call") : i <= n

\* Pushing a call adds its frame and changes nothing for the others.
LEMMA CallAdded ==
  ASSUME LoadInv, NEW g \in Goroutines, NEW m \in Modules, NEW vm, NEW own \in BOOLEAN,
         Enters(g, m, vm, own)
  PROVE  \E n : Added(g, n, own, vm) /\ stack'[g][n].m = m /\ stack'[g][n].vm = vm
<1>0. PICK n, f : PushedAt(g, n, f) /\ f.m = m /\ f.vm = vm /\ f.own = own BY CallPushed
<1>1. /\ n \in Nat \ {0} /\ OthersCall(g)
      /\ FramesOf(g, "call")' = FramesOf(g, "call") \cup {n}
      /\ \A i \in FramesOf(g, "call") : i \in Nat \ {0} /\ i < n /\ stack'[g][i] = stack[g][i]
      /\ stack'[g][n] = f
      /\ Caller(g) = Below(g, n)
  BY <1>0 DEF PushedAt
<1>2. n \notin FramesOf(g, "call") /\ n \in FramesOf(g, "call")' BY <1>1
<1>3. ASSUME NEW h \in Goroutines, NEW i \in FramesOf(h, "call")'
      PROVE  i \in FramesOf(h, "call") \/ (h = g /\ i = n)
  BY <1>1 DEF OthersCall
<1>4. ASSUME NEW h \in Goroutines, NEW i \in FramesOf(h, "call")
      PROVE  i \in FramesOf(h, "call")' /\ stack'[h][i] = stack[h][i]
  BY <1>1 DEF OthersCall
<1>5. ASSUME NEW h \in Goroutines, NEW i \in FramesOf(h, "call"), NEW u \in Workers
      PROVE  Owns(h, i, u)' <=> Owns(h, i, u)
  BY <1>4 DEF Owns, Workers
<1>6. ASSUME NEW h \in Goroutines, NEW i \in FramesOf(h, "call") PROVE Below(h, i)' = Below(h, i)
  <2>1. CASE h # g BY <1>1, <2>1 DEF OthersCall, Below, OnWorker
  <2>2. CASE h = g
    <3>1. i - 1 # n BY <1>1, <2>2
    <3>2. i - 1 \in FramesOf(g, "call")' <=> i - 1 \in FramesOf(g, "call") BY <1>1, <3>1
    <3>3. Below(g, i)' = IF i - 1 \in FramesOf(g, "call")' /\ ~stack'[g][i - 1].callVM.on
                          THEN stack'[g][i - 1].vm ELSE NoVM
      BY DEF Below, OnWorker, NoVM
    <3>4. i - 1 \in FramesOf(g, "call") => stack'[g][i - 1] = stack[g][i - 1] BY <1>4
    <3>5. Below(g, i) = IF i - 1 \in FramesOf(g, "call") /\ ~stack[g][i - 1].callVM.on
                         THEN stack[g][i - 1].vm ELSE NoVM
      BY DEF Below, OnWorker
    <3>6. i \in Nat BY <1>1, <2>2
    <3>7. Below(g, i)' = Below(g, i) BY <3>2, <3>3, <3>4, <3>5, <3>6
    <3>8. Below(h, i)' = Below(g, i)' BY <2>2 DEF Below, OnWorker, FramesOf
    <3> QED BY <2>2, <3>7, <3>8
  <2> QED BY <2>1, <2>2
<1>7. ASSUME NEW u \in Workers PROVE Owns(g, n, u)' <=> own /\ vm = u
  <2>1. stack'[g][n].vm = vm /\ stack'[g][n].own = own BY <1>0, <1>1
  <2>2. Owns(g, n, u)' <=> n \in FramesOf(g, "call")' /\ stack'[g][n].own /\ stack'[g][n].vm = u
    BY DEF Owns, Workers
  <2> QED BY <1>2, <2>1, <2>2, Zenon
<1>8. Below(g, n)' = Caller(g)
  <2>1. n - 1 # n BY <1>1
  <2>2. n - 1 \in FramesOf(g, "call")' <=> n - 1 \in FramesOf(g, "call") BY <1>1, <2>1
  <2>3. Below(g, n)' = IF n - 1 \in FramesOf(g, "call")' /\ ~stack'[g][n - 1].callVM.on
                       THEN stack'[g][n - 1].vm ELSE NoVM
    BY DEF Below, OnWorker, NoVM
  <2>4. Below(g, n) = IF n - 1 \in FramesOf(g, "call") /\ ~stack[g][n - 1].callVM.on
                      THEN stack[g][n - 1].vm ELSE NoVM
    BY DEF Below, OnWorker
  <2> QED BY <1>1, <1>4, <2>2, <2>3, <2>4
<1>9. \A i \in FramesOf(g, "call") : i <= n BY <1>1
<1>10. Added(g, n, own, vm) BY <1>1, <1>2, <1>3, <1>4, <1>5, <1>6, <1>7, <1>8, <1>9 DEF Added
<1> QED BY <1>0, <1>1, <1>10

\* A call on a borrowed worker.
LEMMA BorrowStep ==
  ASSUME LoadInv, WorkInv, NEW g \in Goroutines, NEW m \in Modules, NEW v,
         \E j \in FramesOf(g, "call") : v = stack[g][j].vm /\ stack[g][j].m = m,
         NEW own \in BOOLEAN, ~own, Enters(g, m, v, own), UNCHANGED <<globals, vms, pools>>
  PROVE  WorkInv'
<1>1. PICK n : Added(g, n, own, v) /\ stack'[g][n].m = m /\ stack'[g][n].vm = v
  <2>1. own \in BOOLEAN /\ m \in Modules /\ g \in Goroutines /\ LoadInv OBVIOUS
  <2>2. Enters(g, m, v, own) OBVIOUS
  <2> QED BY ONLY <2>1, <2>2, CallAdded
<1>2. PICK j \in FramesOf(g, "call") : v = stack[g][j].vm /\ stack[g][j].m = m OBVIOUS
<1>3. v \in Workers /\ vms[v].active /\ vms[v].m = m BY <1>2 DEF WorkInv, CallsOnWorkers
<1>4. stack'[g][n].vm = v /\ stack'[g][n].m = m BY <1>1
<1>5. WorkTypes' BY DEF WorkInv, WorkTypes, Workers, VMs
<1>6. CallsOnWorkers'
  <2>1. ASSUME NEW h \in Goroutines, NEW i \in FramesOf(h, "call")', NEW w, w = stack'[h][i].vm
        PROVE /\ w \in Workers /\ vms'[w].active /\ vms'[w].m = stack'[h][i].m
              /\ \E k \in FramesOf(h, "call")' : k <= i /\ Owns(h, k, w)'
    <3>1. CASE i \in FramesOf(h, "call")
      <4>1. w = stack[h][i].vm /\ stack'[h][i] = stack[h][i] BY <1>1, <2>1, <3>1 DEF Added
      <4>2. PICK k \in FramesOf(h, "call") : k <= i /\ Owns(h, k, w)
        BY <3>1, <4>1 DEF WorkInv, CallsOnWorkers
      <4>3. /\ w \in Workers /\ vms[w].active /\ vms[w].m = stack'[h][i].m
        <5>1. /\ stack[h][i].vm \in Workers /\ vms[stack[h][i].vm].active
              /\ vms[stack[h][i].vm].m = stack[h][i].m
          BY <3>1 DEF WorkInv, CallsOnWorkers
        <5> QED BY <4>1, <5>1
      <4> QED BY <1>1, <4>2, <4>3 DEF Added
    <3>2. CASE h = g /\ i = n
      <4>1. w = v BY <1>4, <2>1, <3>2
      <4>2. PICK k \in FramesOf(g, "call") : k <= j /\ Owns(g, k, v)
        BY <1>2 DEF WorkInv, CallsOnWorkers
      <4>3. k <= n BY <1>1 DEF Added
      <4>4. k \in FramesOf(g, "call")' /\ Owns(g, k, v)' BY <1>1, <1>3, <4>2 DEF Added
      <4> QED BY <1>3, <1>4, <3>2, <4>1, <4>3, <4>4
    <3> QED BY <1>1, <3>1, <3>2 DEF Added
  <2> QED BY <2>1, CallsOnWorkersNext
<1>7. ASSUME NEW h \in Goroutines, NEW i \in FramesOf(h, "call")', NEW u \in Workers, Owns(h, i, u)'
      PROVE  i \in FramesOf(h, "call") /\ Owns(h, i, u)
  BY <1>1, <1>7 DEF Added
<1>8. OneOwner'
  <2>1. SUFFICES ASSUME NEW a \in Goroutines, NEW b \in Goroutines, NEW i \in FramesOf(a, "call")',
                        NEW l \in FramesOf(b, "call")', NEW u \in Workers, Owns(a, i, u)', Owns(b, l, u)'
                 PROVE  a = b /\ i = l
    BY DEF OneOwner, Workers
  <2> QED BY <1>7, <2>1 DEF WorkInv, OneOwner
<1>9. HostsBelow'
  <2>1. SUFFICES ASSUME NEW h \in Goroutines, NEW i \in FramesOf(h, "call")', NEW u \in Workers, Owns(h, i, u)'
                 PROVE  vms[u].host = Below(h, i)'
    BY DEF HostsBelow, Workers
  <2>2. i \in FramesOf(h, "call") /\ Owns(h, i, u) BY <1>7, <2>1
  <2>3. Below(h, i)' = Below(h, i) BY <1>1, <2>2 DEF Added
  <2> QED BY <2>2, <2>3 DEF WorkInv, HostsBelow
<1>10. ActiveOwned'
  <2>1. SUFFICES ASSUME NEW u \in Workers
        PROVE IF vms[u].active THEN \E h \in Goroutines : \E i \in FramesOf(h, "call")' : Owns(h, i, u)'
              ELSE vms[u].host = NoVM
    BY DEF ActiveOwned, Workers, NoVM
  <2>2. CASE vms[u].active
    <3>1. PICK h \in Goroutines : \E i \in FramesOf(h, "call") : Owns(h, i, u) BY <2>2 DEF WorkInv, ActiveOwned
    <3>2. PICK i \in FramesOf(h, "call") : Owns(h, i, u) BY <3>1
    <3> QED BY <1>1, <2>2, <3>2 DEF Added
  <2>3. CASE ~vms[u].active BY <2>3 DEF WorkInv, ActiveOwned
  <2> QED BY <2>2, <2>3
<1>11. PoolsIdle' BY DEF WorkInv, PoolsIdle
<1> QED BY <1>5, <1>6, <1>8, <1>9, <1>10, <1>11 DEF WorkInv

\* The worker that moduleVM takes is idle, and no longer in a pool.
LEMMA NextIdle ==
  ASSUME LoadInv, WorkInv, NEW m \in Modules, HasWorker(m), NEW v, v = NextWorker(m),
         pools' = IF pools[m] # <<>> THEN [pools EXCEPT ![m] = Front(@)] ELSE pools
  PROVE  /\ v \in Workers /\ ~vms[v].active
         /\ pools' \in [Modules -> Seq(Workers)]
         /\ \A x \in Modules : \A i \in DOMAIN pools'[x] :
              i \in DOMAIN pools[x] /\ pools'[x][i] = pools[x][i] /\ pools[x][i] # v
<1>1. pools \in [Modules -> Seq(Workers)] BY DEF WorkInv, WorkTypes
<1>2. None \notin Modules /\ MaxVMs \in Nat BY LoaderAssumption
<1>3. CASE pools[m] # <<>>
  <2>1. PICK p : p = pools[m] OBVIOUS
  <2>2. p \in Seq(Workers) /\ p # <<>> BY <1>1, <1>3, <2>1
  <2>3. /\ Front(p) \in Seq(Workers) /\ Len(Front(p)) = Len(p) - 1 /\ Len(p) \in Nat \ {0}
        /\ \A i \in 1..(Len(p) - 1) : Front(p)[i] = p[i]
        /\ Last(p) = p[Len(p)] /\ Last(p) \in Workers
    BY <2>2, FrontLast
  <2>4. v = p[Len(p)] /\ v \in Workers BY <1>3, <2>1, <2>3 DEF NextWorker
  <2>5. pools' = [pools EXCEPT ![m] = Front(p)] BY <1>3, <2>1
  <2>6. pools' \in [Modules -> Seq(Workers)] BY <1>1, <2>3, <2>5
  <2>7. DOMAIN p = 1..Len(p) /\ DOMAIN Front(p) = 1..(Len(p) - 1) BY <2>2, <2>3, LenProperties
  <2>8. Len(p) \in DOMAIN p BY <2>3, <2>7
  <2>9. vms[v].m = m /\ ~vms[v].active BY <2>1, <2>4, <2>8 DEF WorkInv, PoolsIdle
  <2>10. ASSUME NEW x \in Modules, NEW i \in DOMAIN pools'[x]
         PROVE  i \in DOMAIN pools[x] /\ pools'[x][i] = pools[x][i] /\ pools[x][i] # v
    <3>1. CASE x # m
      <4>1. pools'[x] = pools[x] BY <1>1, <2>5, <3>1
      <4>2. vms[pools[x][i]].m = x BY <4>1 DEF WorkInv, PoolsIdle
      <4> QED BY <2>9, <3>1, <4>1, <4>2
    <3>2. CASE x = m
      <4>1. pools'[x] = Front(p) BY <1>1, <2>5, <3>2
      <4>2. i \in 1..(Len(p) - 1) BY <2>7, <4>1
      <4>3. i \in DOMAIN p /\ i # Len(p) BY <2>3, <2>7, <4>2
      <4>4. Front(p)[i] = p[i] BY <2>3, <4>2
      <4>5. p[i] # v BY <2>1, <2>4, <2>8, <4>3 DEF WorkInv, PoolsIdle
      <4> QED BY <2>1, <3>2, <4>1, <4>3, <4>4, <4>5
    <3> QED BY <3>1, <3>2
  <2> QED BY <2>4, <2>6, <2>9, <2>10
<1>4. CASE pools[m] = <<>>
  <2>1. Unmade # {} /\ Unmade \subseteq Workers /\ Unmade \subseteq Nat
    BY <1>2, <1>4 DEF HasWorker, Unmade, Workers
  <2>2. \E x \in Unmade : \A w \in Unmade : x <= w BY <2>1, LeastOf
  <2>3. v = CHOOSE x \in Unmade : \A w \in Unmade : x <= w BY <1>4 DEF NextWorker
  <2>4. v \in Unmade BY <2>2, <2>3
  <2>5. v \in Workers /\ vms[v].m = None BY <2>1, <2>4 DEF Unmade
  <2>6. ~vms[v].active
    <3>1. SUFFICES ASSUME vms[v].active PROVE FALSE OBVIOUS
    <3>2. PICK g \in Goroutines : \E i \in FramesOf(g, "call") : Owns(g, i, v)
      BY <2>5, <3>1 DEF WorkInv, ActiveOwned
    <3>3. PICK i \in FramesOf(g, "call") : stack[g][i].vm = v BY <3>2 DEF Owns
    <3>4. stack[g][i].m = None BY <2>5, <3>3 DEF WorkInv, CallsOnWorkers
    <3> QED BY <1>2, <3>4, FramesAt
  <2>7. pools' = pools BY <1>4
  <2>8. ASSUME NEW x \in Modules, NEW i \in DOMAIN pools[x] PROVE pools[x][i] # v
    <3>1. vms[pools[x][i]].m = x BY DEF WorkInv, PoolsIdle
    <3> QED BY <1>2, <2>5, <3>1
  <2> QED BY <1>1, <2>5, <2>6, <2>7, <2>8
<1> QED BY <1>3, <1>4

\* What it takes for a call on a worker of its own to keep the invariant.
LEMMA Taken ==
  ASSUME LoadInv, WorkInv, NEW g \in Goroutines, NEW m \in Modules, NEW v \in Workers, NEW n, NEW own \in BOOLEAN, own,
         ~vms[v].active, WorkTypes',
         Added(g, n, own, v), stack'[g][n].vm = v, stack'[g][n].m = m,
         vms'[v].m = m, vms'[v].active, vms'[v].host = Caller(g),
         \A u \in Workers : u # v => vms'[u] = vms[u],
         \A x \in Modules : \A i \in DOMAIN pools'[x] :
           i \in DOMAIN pools[x] /\ pools'[x][i] = pools[x][i] /\ pools[x][i] # v
  PROVE  WorkInv'
\* No frame was on v.
<1>1. ASSUME NEW h \in Goroutines, NEW i \in FramesOf(h, "call")
      PROVE  stack[h][i].vm # v /\ ~Owns(h, i, v)
  BY DEF WorkInv, CallsOnWorkers, Owns
<1>2. CallsOnWorkers'
  <2>1. ASSUME NEW h \in Goroutines, NEW i \in FramesOf(h, "call")', NEW w, w = stack'[h][i].vm
        PROVE /\ w \in Workers /\ vms'[w].active /\ vms'[w].m = stack'[h][i].m
              /\ \E k \in FramesOf(h, "call")' : k <= i /\ Owns(h, k, w)'
    <3>1. CASE i \in FramesOf(h, "call")
      <4>1. w = stack[h][i].vm /\ stack'[h][i] = stack[h][i] BY <2>1, <3>1 DEF Added
      <4>2. PICK k \in FramesOf(h, "call") : k <= i /\ Owns(h, k, w)
        BY <3>1, <4>1 DEF WorkInv, CallsOnWorkers
      <4>3. /\ w \in Workers /\ vms[w].active /\ vms[w].m = stack'[h][i].m
        BY <3>1, <4>1 DEF WorkInv, CallsOnWorkers
      <4>4. vms'[w] = vms[w] BY <1>1, <3>1, <4>1, <4>3
      <4> QED BY <4>2, <4>3, <4>4 DEF Added
    <3>2. CASE h = g /\ i = n
      <4>1. w = v BY <2>1, <3>2
      <4>2. n \in FramesOf(g, "call")' /\ Owns(g, n, v)' BY DEF Added
      <4>3. n \in Nat /\ n <= n BY DEF Added
      <4> QED BY <3>2, <4>1, <4>2, <4>3
    <3> QED BY <3>1, <3>2 DEF Added
  <2> QED BY <2>1, CallsOnWorkersNext
<1>3. ASSUME NEW h \in Goroutines, NEW i \in FramesOf(h, "call")', NEW u \in Workers, Owns(h, i, u)'
       PROVE  \/ u # v /\ i \in FramesOf(h, "call") /\ Owns(h, i, u)
              \/ u = v /\ h = g /\ i = n
  <2>1. CASE i \in FramesOf(h, "call") BY <1>1, <1>3, <2>1 DEF Added
  <2>2. CASE h = g /\ i = n
    <3>1. Owns(g, n, u)' BY <1>3, <2>2 DEF Owns, FramesOf
    <3> QED BY <2>2, <3>1 DEF Added
  <2> QED BY <2>1, <2>2 DEF Added
<1>4. OneOwner'
  <2>1. SUFFICES ASSUME NEW a \in Goroutines, NEW b \in Goroutines, NEW i \in FramesOf(a, "call")',
                        NEW l \in FramesOf(b, "call")', NEW u \in Workers, Owns(a, i, u)', Owns(b, l, u)'
                 PROVE  a = b /\ i = l
    BY DEF OneOwner, Workers
  <2> QED BY <1>3, <2>1 DEF WorkInv, OneOwner
<1>5. HostsBelow'
  <2>1. SUFFICES ASSUME NEW h \in Goroutines, NEW i \in FramesOf(h, "call")', NEW u \in Workers, Owns(h, i, u)'
                 PROVE  vms'[u].host = Below(h, i)'
    BY DEF HostsBelow, Workers
  <2>2. CASE u # v /\ i \in FramesOf(h, "call") /\ Owns(h, i, u)
    <3>1. Below(h, i)' = Below(h, i) BY <2>2 DEF Added
    <3> QED BY <2>2, <3>1 DEF WorkInv, HostsBelow
  <2>3. CASE u = v /\ h = g /\ i = n
    <3>1. Below(g, n)' = Caller(g) BY DEF Added
    <3>2. Below(h, i)' = Below(g, n)' BY <2>3 DEF Below, OnWorker, FramesOf
    <3> QED BY <2>3, <3>1, <3>2
  <2> QED BY <1>3, <2>1, <2>2, <2>3
<1>6. ActiveOwned'
  <2>1. SUFFICES ASSUME NEW u \in Workers
        PROVE IF vms'[u].active THEN \E h \in Goroutines : \E i \in FramesOf(h, "call")' : Owns(h, i, u)'
              ELSE vms'[u].host = NoVM
    BY DEF ActiveOwned, Workers, NoVM
  <2>2. CASE u = v
    <3>1. n \in FramesOf(g, "call")' /\ Owns(g, n, v)' BY DEF Added
    <3> QED BY <2>2, <3>1
  <2>3. CASE u # v /\ vms[u].active
    <3>1. PICK h \in Goroutines : \E i \in FramesOf(h, "call") : Owns(h, i, u) BY <2>3 DEF WorkInv, ActiveOwned
    <3>2. PICK i \in FramesOf(h, "call") : Owns(h, i, u) BY <3>1
    <3> QED BY <2>3, <3>2 DEF Added
  <2>4. CASE u # v /\ ~vms[u].active BY <2>4 DEF WorkInv, ActiveOwned
  <2> QED BY <2>2, <2>3, <2>4
<1>7. PoolsIdle'
  <2> SUFFICES ASSUME NEW x \in Modules, NEW i \in DOMAIN pools'[x]
               PROVE  LET w == pools'[x][i]
                      IN  /\ vms'[w].m = x /\ ~vms'[w].active /\ ~vms'[w].escaped /\ vms'[w].dirty = {}
                          /\ \A l \in DOMAIN pools'[x] : pools'[x][l] = w => i = l
    BY Zenon DEF PoolsIdle
  <2>1. PICK w : w = pools'[x][i] OBVIOUS
  <2>2. i \in DOMAIN pools[x] /\ w = pools[x][i] /\ w # v BY <2>1
  <2>3. w \in Workers BY <2>2, LenProperties, ElementOfSeq DEF WorkInv, WorkTypes
  <2>4. vms'[w] = vms[w] BY <2>2, <2>3
  <2>5. /\ vms[w].m = x /\ ~vms[w].active /\ ~vms[w].escaped /\ vms[w].dirty = {}
        /\ \A l \in DOMAIN pools[x] : pools[x][l] = w => i = l
    BY <2>2 DEF WorkInv, PoolsIdle
  <2> QED BY <2>1, <2>4, <2>5
<1> QED BY <1>2, <1>4, <1>5, <1>6, <1>7 DEF WorkInv

\* A call on a worker of its own.
LEMMA TakeStep ==
  ASSUME LoadInv, WorkInv, NEW g \in Goroutines, NEW m \in Modules, HasWorker(m),
         NEW v, v = NextWorker(m), NEW own \in BOOLEAN, own,
         Enters(g, m, v, own), Takes(g, m, v), UNCHANGED globals
  PROVE  WorkInv'
<1>1. PICK n : Added(g, n, own, v) /\ stack'[g][n].m = m /\ stack'[g][n].vm = v
  <2>1. own \in BOOLEAN /\ m \in Modules /\ g \in Goroutines /\ LoadInv OBVIOUS
  <2>2. Enters(g, m, v, own) OBVIOUS
  <2> QED BY ONLY <2>1, <2>2, CallAdded
<1>2. /\ v \in Workers /\ ~vms[v].active
      /\ pools' \in [Modules -> Seq(Workers)]
      /\ \A x \in Modules : \A i \in DOMAIN pools'[x] :
           i \in DOMAIN pools[x] /\ pools'[x][i] = pools[x][i] /\ pools[x][i] # v
  BY SMTT(30), NextIdle DEF Takes
<1>3. stack'[g][n].vm = v /\ stack'[g][n].m = m BY <1>1
<1>4. PICK G : vms \in [Workers -> VMs(G)] /\ globals \in [Modules -> G]
  BY DEF WorkInv, WorkTypes
<1>5. Caller(g) \in 0..MaxVMs
  <2>1. MaxVMs \in Nat /\ NoVM \in 0..MaxVMs BY LoaderAssumption DEF NoVM
  <2>2. Below(g, n)' = Caller(g) /\ n \notin FramesOf(g, "call") BY <1>1 DEF Added
  <2>3. CASE In(g, "call")
    <3>1. PICK i \in FramesOf(g, "call") : Top(g) = stack[g][i] BY <2>3, TopIsFrame
    <3>2. Top(g).vm \in Workers BY <3>1 DEF WorkInv, CallsOnWorkers
    <3> QED BY <2>1, <2>3, <3>2 DEF Caller, Workers
  <2>4. CASE ~In(g, "call") BY <2>1, <2>4 DEF Caller
  <2> QED BY <2>3, <2>4
<1>6. /\ vms' \in [Workers -> VMs(G)]
      /\ vms'[v].m = m /\ vms'[v].active /\ vms'[v].host = Caller(g)
      /\ \A u \in Workers : u # v => vms'[u] = vms[u]
  <2>1. vms[v] \in VMs(G) /\ globals[m] \in G BY <1>2, <1>4
  <2>2. PICK r : r = [vms[v] EXCEPT !.m = m, !.globals = globals[m], !.host = Caller(g), !.active = TRUE]
    OBVIOUS
  <2>3. r \in VMs(G) /\ r.m = m /\ r.active /\ r.host = Caller(g) BY <1>5, <2>1, <2>2 DEF VMs
  <2>4. vms' = [vms EXCEPT ![v] = r] BY <2>2 DEF Takes
  <2> QED BY <1>2, <1>4, <2>3, <2>4
<1>7. WorkTypes' BY <1>2, <1>4, <1>6 DEF WorkTypes, Workers, VMs
<1>8. /\ v \in Workers /\ ~vms[v].active /\ Added(g, n, own, v)
      /\ stack'[g][n].vm = v /\ stack'[g][n].m = m
      /\ vms'[v].m = m /\ vms'[v].active /\ vms'[v].host = Caller(g)
      /\ \A u \in Workers : u # v => vms'[u] = vms[u]
  BY <1>1, <1>2, <1>3, <1>6
<1> QED BY <1>2, <1>7, <1>8, Taken

\* The frames of a step that takes the innermost call off the stack.
Removed(g, n) ==
  /\ n \in FramesOf(g, "call")
  /\ \A h \in Goroutines : \A i \in FramesOf(h, "call") : i \in FramesOf(h, "call")' \/ (h = g /\ i = n)
  /\ \A h \in Goroutines : \A i \in FramesOf(h, "call")' :
       /\ i \in FramesOf(h, "call") /\ ~(h = g /\ i = n) /\ stack'[h][i] = stack[h][i]
       /\ \A u \in Workers : Owns(h, i, u)' <=> Owns(h, i, u)
       /\ Below(h, i)' = Below(h, i)
  /\ \A i \in FramesOf(g, "call") \ {n} : i < n

\* Popping a call removes its frame and changes nothing for the others.
LEMMA CallRemoved ==
  ASSUME LoadInv, WorkInv, NEW g \in Goroutines, In(g, "call"), Pop(g)
  PROVE  \E n : Removed(g, n) /\ Top(g) = stack[g][n]
<1>1. PICK n \in FramesOf(g, "call") :
           /\ OthersCall(g) /\ Top(g) = stack[g][n]
           /\ FramesOf(g, "call")' = FramesOf(g, "call") \ {n}
           /\ \A i \in FramesOf(g, "call") \ {n} : i < n /\ stack'[g][i] = stack[g][i]
  BY CallPopped
<1>2. ASSUME NEW h \in Goroutines, NEW i \in FramesOf(h, "call")
      PROVE  i \in FramesOf(h, "call")' \/ (h = g /\ i = n)
  BY <1>1 DEF OthersCall
<1>3. ASSUME NEW h \in Goroutines, NEW i \in FramesOf(h, "call")'
      PROVE  i \in FramesOf(h, "call") /\ ~(h = g /\ i = n) /\ stack'[h][i] = stack[h][i]
  <2>1. CASE h # g BY <1>1, <2>1 DEF OthersCall
  <2>2. CASE h = g
    <3>1. FramesOf(h, "call")' = FramesOf(g, "call")' BY <2>2 DEF FramesOf
    <3> QED BY <1>1, <2>2, <3>1
  <2> QED BY <2>1, <2>2
<1>4. ASSUME NEW h \in Goroutines, NEW i \in FramesOf(h, "call")', NEW u \in Workers
      PROVE  Owns(h, i, u)' <=> Owns(h, i, u)
  <2>1. Owns(h, i, u)' <=> i \in FramesOf(h, "call")' /\ stack'[h][i].own /\ stack'[h][i].vm = u
    BY DEF Owns, Workers
  <2> QED BY <1>3, <2>1 DEF Owns
<1>5. ASSUME NEW h \in Goroutines, NEW i \in FramesOf(h, "call")' PROVE Below(h, i)' = Below(h, i)
  <2>1. i \in FramesOf(h, "call") /\ i \in Nat BY <1>3, FramesAt
  <2>2. i - 1 \in FramesOf(h, "call")' <=> i - 1 \in FramesOf(h, "call")
    <3>1. CASE h # g BY <1>1, <3>1 DEF OthersCall
    <3>2. CASE h = g
      <4>1. i # n /\ i < n /\ n \in Nat BY <1>1, <1>3, <2>1, <3>2, FramesAt
      <4>2. i - 1 # n BY <2>1, <4>1
      <4>3. FramesOf(h, "call")' = FramesOf(g, "call")' BY <3>2 DEF FramesOf
      <4> QED BY <1>1, <3>2, <4>2, <4>3
    <3> QED BY <3>1, <3>2
  <2>3. Below(h, i)' = IF i - 1 \in FramesOf(h, "call")' /\ ~stack'[h][i - 1].callVM.on
                       THEN stack'[h][i - 1].vm ELSE NoVM
    BY DEF Below, OnWorker, NoVM
  <2>4. Below(h, i) = IF i - 1 \in FramesOf(h, "call") /\ ~stack[h][i - 1].callVM.on
                      THEN stack[h][i - 1].vm ELSE NoVM
    BY DEF Below, OnWorker
  <2>5. i - 1 \in FramesOf(h, "call")' => stack'[h][i - 1] = stack[h][i - 1] BY <1>3
  <2> QED BY <2>2, <2>3, <2>4, <2>5
<1>6. Removed(g, n) BY <1>1, <1>2, <1>3, <1>4, <1>5 DEF Removed
<1> QED BY <1>1, <1>6

\* The owners that are left when a call has ended.
LEMMA StillOwned ==
  ASSUME NEW g \in Goroutines, NEW n, Removed(g, n), NEW h \in Goroutines,
         NEW i \in FramesOf(h, "call"), NEW u \in Workers, Owns(h, i, u), ~Owns(g, n, u)
  PROVE  i \in FramesOf(h, "call")' /\ Owns(h, i, u)'
<1>1. ~(h = g /\ i = n) OBVIOUS
<1> QED BY <1>1 DEF Removed

\* A worker that has only run: it serves the same call, of the same chain.
SameWorker(w, vm) == w.m = vm.m /\ w.active = vm.active /\ w.host = vm.host

\* What the end of a call keeps of the frames that are left: whoever owned their
\* workers still does, provided no one needs the worker of the call that has ended.
LEMMA FramesLeft ==
  ASSUME LoadInv, WorkInv, NEW g \in Goroutines, NEW n, Removed(g, n),
         \A v \in Workers : Owns(g, n, v) \/ SameWorker(vms'[v], vms[v]),
         \A v \in Workers : Owns(g, n, v) => ~vms'[v].active /\ vms'[v].host = NoVM
  PROVE  CallsOnWorkers' /\ OneOwner' /\ HostsBelow' /\ ActiveOwned'
\* The call that has ended owned no worker of a frame that is left.
<1>1. ASSUME NEW h \in Goroutines, NEW i \in FramesOf(h, "call")' PROVE ~Owns(g, n, stack[h][i].vm)
  <2>1. SUFFICES ASSUME Owns(g, n, stack[h][i].vm) PROVE FALSE OBVIOUS
  <2>2. i \in FramesOf(h, "call") /\ ~(h = g /\ i = n) /\ n \in FramesOf(g, "call") BY DEF Removed
  <2>3. PICK k \in FramesOf(h, "call") : k <= i /\ Owns(h, k, stack[h][i].vm)
    BY <2>2 DEF WorkInv, CallsOnWorkers
  <2>4. stack[h][i].vm \in Workers BY <2>2, FramesAt
  <2>5. h = g /\ k = n BY <2>1, <2>2, <2>3, <2>4 DEF WorkInv, OneOwner
  <2>6. i < n BY <2>2, <2>5 DEF Removed
  <2>7. i \in Nat /\ n \in Nat BY <2>2, FramesAt
  <2> QED BY <2>3, <2>5, <2>6, <2>7
<1>2. ASSUME NEW h \in Goroutines, NEW i \in FramesOf(h, "call")', NEW u \in Workers, Owns(h, i, u)'
      PROVE  i \in FramesOf(h, "call") /\ Owns(h, i, u) /\ ~Owns(g, n, u) /\ SameWorker(vms'[u], vms[u])
  <2>1. i \in FramesOf(h, "call") /\ Owns(h, i, u) BY <1>2 DEF Removed
  <2>2. ~Owns(g, n, u) BY <1>1, <2>1 DEF Owns
  <2> QED BY <2>1, <2>2
<1>3. CallsOnWorkers'
  <2>1. ASSUME NEW h \in Goroutines, NEW i \in FramesOf(h, "call")', NEW w, w = stack'[h][i].vm
        PROVE /\ w \in Workers /\ vms'[w].active /\ vms'[w].m = stack'[h][i].m
              /\ \E k \in FramesOf(h, "call")' : k <= i /\ Owns(h, k, w)'
    <3>1. i \in FramesOf(h, "call") /\ stack'[h][i] = stack[h][i] BY DEF Removed
    <3>2. w = stack[h][i].vm BY <2>1, <3>1
    <3>3. PICK k \in FramesOf(h, "call") : k <= i /\ Owns(h, k, w)
      BY <3>1, <3>2 DEF WorkInv, CallsOnWorkers
    <3>4. w \in Workers /\ vms[w].active /\ vms[w].m = stack'[h][i].m
      BY <3>1, <3>2 DEF WorkInv, CallsOnWorkers
    <3>5. ~Owns(g, n, w) BY <1>1, <3>2
    <3>6. vms'[w].m = vms[w].m /\ vms'[w].active = vms[w].active BY <3>4, <3>5 DEF SameWorker
    <3>7. k \in FramesOf(h, "call")' /\ Owns(h, k, w)' BY <3>3, <3>4, <3>5, StillOwned
    <3> QED BY <3>3, <3>4, <3>6, <3>7
  <2> QED BY <2>1, CallsOnWorkersNext
<1>4. OneOwner'
  <2>1. SUFFICES ASSUME NEW a \in Goroutines, NEW b \in Goroutines, NEW i \in FramesOf(a, "call")',
                        NEW l \in FramesOf(b, "call")', NEW u \in Workers, Owns(a, i, u)', Owns(b, l, u)'
                 PROVE  a = b /\ i = l
    BY DEF OneOwner, Workers
  <2> QED BY <1>2, <2>1 DEF WorkInv, OneOwner
<1>5. HostsBelow'
  <2>1. SUFFICES ASSUME NEW h \in Goroutines, NEW i \in FramesOf(h, "call")', NEW u \in Workers, Owns(h, i, u)'
                 PROVE  vms'[u].host = Below(h, i)'
    BY DEF HostsBelow, Workers
  <2>2. i \in FramesOf(h, "call") /\ Owns(h, i, u) /\ vms'[u].host = vms[u].host
    BY <1>2, <2>1 DEF SameWorker
  <2>3. Below(h, i)' = Below(h, i) BY DEF Removed
  <2> QED BY <2>2, <2>3 DEF WorkInv, HostsBelow
<1>6. ActiveOwned'
  <2>1. SUFFICES ASSUME NEW u \in Workers
        PROVE IF vms'[u].active THEN \E h \in Goroutines : \E i \in FramesOf(h, "call")' : Owns(h, i, u)'
              ELSE vms'[u].host = NoVM
    BY DEF ActiveOwned, Workers, NoVM
  <2>2. CASE Owns(g, n, u) BY <2>2
  <2>3. CASE ~Owns(g, n, u) /\ vms[u].active
    <3>1. PICK h \in Goroutines : \E i \in FramesOf(h, "call") : Owns(h, i, u) BY <2>3 DEF WorkInv, ActiveOwned
    <3>2. PICK i \in FramesOf(h, "call") : Owns(h, i, u) BY <3>1
    <3>3. i \in FramesOf(h, "call")' /\ Owns(h, i, u)' BY <2>3, <3>2, StillOwned
    <3>4. vms'[u].active BY <2>3 DEF SameWorker
    <3> QED BY <3>3, <3>4
  <2>4. CASE ~Owns(g, n, u) /\ ~vms[u].active
    <3>1. ~vms'[u].active /\ vms'[u].host = NoVM BY <2>4 DEF SameWorker, WorkInv, ActiveOwned
    <3> QED BY <3>1
  <2> QED BY <2>2, <2>3, <2>4
<1> QED BY <1>3, <1>4, <1>5, <1>6

\* More values, same workers.
LEMMA WidenVMs ==
  ASSUME NEW G, NEW H, G \subseteq H, NEW ws \in [Workers -> VMs(G)]
  PROVE  ws \in [Workers -> VMs(H)]
<1>1. VMs(G) \subseteq VMs(H) BY DEF VMs
<1> QED BY <1>1

\* A worker gets the slots that a derived VM has reassigned.
LEMMA WrittenVM ==
  ASSUME NEW G, NEW vm \in VMs(G), NEW callVM
  PROVE  \E H : /\ G \subseteq H /\ WrittenBack(vm, callVM) \in VMs(H)
                /\ SameWorker(WrittenBack(vm, callVM), vm)
                /\ WrittenBack(vm, callVM).escaped = vm.escaped
<1> DEFINE r == WrittenBack(vm, callVM)
           H == G \cup {r.globals, r.dirty}
<1>1. PICK a, d : r = [vm EXCEPT !.globals = a, !.dirty = d] BY DEF WrittenBack
<1> HIDE DEF r
<1>2. /\ r.m = vm.m /\ r.active = vm.active /\ r.host = vm.host /\ r.escaped = vm.escaped
      /\ r.globals = a /\ r.dirty = d
      /\ r \in VMs(H) /\ G \subseteq H
  BY <1>1 DEF VMs
<1> QED BY <1>2 DEF r, SameWorker

\* The end of a call on a borrowed worker.
LEMMA GiveBackStep ==
  ASSUME LoadInv, WorkInv, NEW g \in Goroutines, In(g, "call"), Pop(g), ~Top(g).own,
         NEW v, v = Top(g).vm, NEW vm, vms' = [vms EXCEPT ![v] = vm],
         vm = vms[v] \/ \E callVM : vm = WrittenBack(vms[v], callVM),
         UNCHANGED <<globals, pools>>
  PROVE  WorkInv'
<1>1. PICK n : Removed(g, n) /\ Top(g) = stack[g][n] BY CallRemoved
<1>2. \A u \in Workers : ~Owns(g, n, u) BY <1>1 DEF Owns
<1>3. v \in Workers /\ vms[v].active BY TopIsFrame DEF WorkInv, CallsOnWorkers
<1>4. PICK G : vms \in [Workers -> VMs(G)] /\ globals \in [Modules -> G]
  BY DEF WorkInv, WorkTypes
<1>5. PICK H : G \subseteq H /\ vm \in VMs(H) /\ SameWorker(vm, vms[v])
  <2>1. vms[v] \in VMs(G) BY <1>3, <1>4
  <2>2. CASE vm = vms[v] BY <2>1, <2>2 DEF SameWorker
  <2>3. CASE \E callVM : vm = WrittenBack(vms[v], callVM) BY <2>1, <2>3, WrittenVM
  <2> QED BY <2>2, <2>3
<1>6. vms \in [Workers -> VMs(H)] /\ globals \in [Modules -> H] BY <1>4, <1>5, WidenVMs
<1>7. /\ vms' \in [Workers -> VMs(H)] /\ vms'[v] = vm
      /\ \A u \in Workers : u # v => vms'[u] = vms[u]
  BY <1>3, <1>5, <1>6
<1>8. \A u \in Workers : SameWorker(vms'[u], vms[u]) BY <1>5, <1>7 DEF SameWorker
<1>9. CallsOnWorkers' /\ OneOwner' /\ HostsBelow' /\ ActiveOwned'
  BY <1>1, <1>2, <1>8, FramesLeft
<1>10. WorkTypes' BY <1>6, <1>7 DEF WorkInv, WorkTypes, Workers, VMs
<1>11. PoolsIdle'
  <2>1. SUFFICES ASSUME NEW m \in Modules, NEW i \in DOMAIN pools[m], NEW w, w = pools[m][i]
                 PROVE  vms'[w] = vms[w]
    BY DEF WorkInv, PoolsIdle
  <2>2. w \in Workers BY <2>1, LenProperties, ElementOfSeq DEF WorkInv, WorkTypes
  <2>3. ~vms[w].active BY <2>1 DEF WorkInv, PoolsIdle
  <2> QED BY <1>3, <1>7, <2>2, <2>3
<1> QED BY <1>9, <1>10, <1>11 DEF WorkInv

\* What resetForReuse makes of a worker, and what is left of one that is dropped.
LEMMA ResetVM ==
  ASSUME NEW G, Idle.globals \in G, {} \in G, NEW vm \in VMs(G)
  PROVE  /\ Reset(vm) \in VMs(G) /\ Dropped(vm) \in VMs(G)
         /\ ~Reset(vm).active /\ Reset(vm).host = NoVM /\ Reset(vm).m = vm.m
         /\ Reset(vm).dirty = {} /\ Reset(vm).escaped = vm.escaped
         /\ ~Dropped(vm).active /\ Dropped(vm).host = NoVM
<1>1. MaxVMs \in Nat BY LoaderAssumption
<1>2. Idle \in VMs(G) /\ ~Idle.active /\ Idle.host = NoVM /\ Idle.dirty = {}
  BY <1>1 DEF Idle, VMs, NoVM
<1>3. Reset(vm) \in VMs(G) BY <1>2 DEF Reset, VMs
<1>4. /\ ~Reset(vm).active /\ Reset(vm).host = NoVM /\ Reset(vm).m = vm.m
      /\ Reset(vm).dirty = {} /\ Reset(vm).escaped = vm.escaped
  BY <1>2 DEF Reset, VMs
<1> QED BY <1>2, <1>3, <1>4 DEF Dropped

\* releaseModuleVM: worker v, which is now vm, goes back to its pool, or is dropped.
Releases(v, vm, err) ==
  IF Recyclable(vm, err)
  THEN /\ vms' = [vms EXCEPT ![v] = Reset(vm)]
       /\ pools' = [pools EXCEPT ![vm.m] = Append(@, v)]
  ELSE vms' = [vms EXCEPT ![v] = Dropped(vm)] /\ UNCHANGED pools

\* The end of a call on a worker of its own.
LEMMA ReleaseStep ==
  ASSUME LoadInv, WorkInv, NEW g \in Goroutines, In(g, "call"), Pop(g), Top(g).own,
         NEW v, v = Top(g).vm, NEW vm, NEW err \in BOOLEAN, Releases(v, vm, err),
         vm = vms[v] \/ \E callVM : vm = WrittenBack(vms[v], callVM),
         globals' = [globals EXCEPT ![vm.m] = Persisted(vm)]
  PROVE  WorkInv'
<1>1. PICK n : Removed(g, n) /\ Top(g) = stack[g][n] BY CallRemoved
<1>2. n \in FramesOf(g, "call") BY <1>1 DEF Removed
<1>3. /\ v \in Workers /\ vms[v].active /\ vms[v].m = stack[g][n].m /\ stack[g][n].m \in Modules
      /\ \A u \in Workers : Owns(g, n, u) <=> u = v
  BY <1>1, <1>2, FramesAt DEF WorkInv, CallsOnWorkers, Owns
<1>5. PICK G : vms \in [Workers -> VMs(G)] /\ globals \in [Modules -> G]
  BY DEF WorkInv, WorkTypes
<1>a. PICK F : G \subseteq F /\ vm \in VMs(F) /\ SameWorker(vm, vms[v])
  <2>1. vms[v] \in VMs(G) BY <1>3, <1>5
  <2>2. CASE vm = vms[v] BY <2>1, <2>2 DEF SameWorker
  <2>3. CASE \E callVM : vm = WrittenBack(vms[v], callVM) BY <2>1, <2>3, WrittenVM
  <2> QED BY <2>2, <2>3
<1>4. PICK m \in Modules : m = vm.m BY <1>3, <1>a DEF SameWorker
<1>6. PICK H : H = F \cup {Idle.globals, {}, Persisted(vm)} OBVIOUS
<1>7. vms \in [Workers -> VMs(H)] /\ globals \in [Modules -> H] /\ Idle.globals \in H /\ {} \in H
  BY <1>5, <1>6, <1>a, WidenVMs
<1>8. vm \in VMs(H)
  <2>1. F \subseteq H BY <1>6
  <2> QED BY <1>a, <2>1 DEF VMs
<1>9. /\ Reset(vm) \in VMs(H) /\ Dropped(vm) \in VMs(H)
      /\ ~Reset(vm).active /\ Reset(vm).host = NoVM /\ Reset(vm).m = m
      /\ Reset(vm).dirty = {} /\ Reset(vm).escaped = vm.escaped
      /\ ~Dropped(vm).active /\ Dropped(vm).host = NoVM
  BY <1>4, <1>7, <1>8, ResetVM
<1>10. /\ vms' \in [Workers -> VMs(H)] /\ ~vms'[v].active /\ vms'[v].host = NoVM
       /\ \A u \in Workers : u # v => vms'[u] = vms[u]
  <2>1. PICK r : vms' = [vms EXCEPT ![v] = r] /\ r \in {Reset(vm), Dropped(vm)} BY DEF Releases
  <2>2. r \in VMs(H) /\ ~r.active /\ r.host = NoVM BY <1>9, <2>1
  <2> QED BY <1>3, <1>7, <2>1, <2>2
<1>11. globals' \in [Modules -> H] BY <1>4, <1>6, <1>7
<1>12. pools \in [Modules -> Seq(Workers)] BY DEF WorkInv, WorkTypes
<1>13. CallsOnWorkers' /\ OneOwner' /\ HostsBelow' /\ ActiveOwned'
  <2>1. \A u \in Workers : Owns(g, n, u) \/ SameWorker(vms'[u], vms[u]) BY <1>3, <1>10 DEF SameWorker
  <2>2. \A u \in Workers : Owns(g, n, u) => ~vms'[u].active /\ vms'[u].host = NoVM BY <1>3, <1>10
  <2> QED BY <1>1, <2>1, <2>2, FramesLeft
\* v was in no pool.
<1>14. ASSUME NEW x \in Modules, NEW i \in DOMAIN pools[x]
       PROVE  pools[x][i] \in Workers /\ pools[x][i] # v /\ vms'[pools[x][i]] = vms[pools[x][i]]
  <2>1. pools[x][i] \in Workers BY <1>12, LenProperties, ElementOfSeq
  <2>2. ~vms[pools[x][i]].active BY DEF WorkInv, PoolsIdle
  <2> QED BY <1>3, <1>10, <2>1, <2>2
<1>15. ASSUME NEW x \in Modules, NEW i \in DOMAIN pools[x], NEW w, w = pools[x][i]
       PROVE  /\ vms'[w].m = x /\ ~vms'[w].active /\ ~vms'[w].escaped /\ vms'[w].dirty = {}
              /\ \A j \in DOMAIN pools[x] : pools[x][j] = w => i = j
  <2>1. vms'[w] = vms[w] BY <1>14, <1>15
  <2>2. /\ vms[w].m = x /\ ~vms[w].active /\ ~vms[w].escaped /\ vms[w].dirty = {}
        /\ \A j \in DOMAIN pools[x] : pools[x][j] = w => i = j
    BY <1>15 DEF WorkInv, PoolsIdle
  <2> QED BY <2>1, <2>2
<1>16. pools' \in [Modules -> Seq(Workers)] /\ PoolsIdle'
  <2>1. CASE ~Recyclable(vm, err)
    <3>1. pools' = pools BY <2>1 DEF Releases
    <3> QED BY <1>12, <1>15, <3>1 DEF PoolsIdle
  <2>2. CASE Recyclable(vm, err)
    <3>1. vms'[v] = Reset(vm) /\ pools' = [pools EXCEPT ![m] = Append(@, v)]
      BY <1>3, <1>4, <1>7, <2>2 DEF Releases
    <3>2. /\ vms'[v].m = m /\ ~vms'[v].active /\ ~vms'[v].escaped /\ vms'[v].dirty = {}
      BY <1>9, <2>2, <3>1 DEF Recyclable
    <3>3. PICK p : p = pools[m] OBVIOUS
    <3>4. p \in Seq(Workers) BY <1>12, <3>3
    <3>5. /\ Append(p, v) \in Seq(Workers) /\ Len(Append(p, v)) = Len(p) + 1 /\ Len(p) \in Nat
          /\ \A i \in 1..Len(p) : Append(p, v)[i] = p[i]
          /\ Append(p, v)[Len(p) + 1] = v
      BY <1>3, <3>4, Appending
    <3>6. pools'[m] = Append(p, v) /\ \A x \in Modules : x # m => pools'[x] = pools[x]
      BY <1>12, <3>1, <3>3
    <3>7. pools' \in [Modules -> Seq(Workers)] BY <1>12, <3>1, <3>3, <3>5
    <3>8. ASSUME NEW i \in DOMAIN pools'[m]
          PROVE  \/ i \in DOMAIN p /\ pools'[m][i] = p[i]
                 \/ i = Len(p) + 1 /\ i \notin DOMAIN p /\ pools'[m][i] = v
      <4>1. DOMAIN p = 1..Len(p) /\ DOMAIN pools'[m] = 1..(Len(p) + 1)
        BY <3>4, <3>5, <3>6, LenProperties
      <4>2. i \in 1..Len(p) \/ (i = Len(p) + 1 /\ i \notin 1..Len(p)) BY <3>5, <4>1
      <4> QED BY <3>5, <3>6, <4>1, <4>2
    <3>9. ASSUME NEW x \in Modules, NEW i \in DOMAIN pools'[x], NEW w, w = pools'[x][i]
          PROVE  /\ vms'[w].m = x /\ ~vms'[w].active /\ ~vms'[w].escaped /\ vms'[w].dirty = {}
                 /\ \A j \in DOMAIN pools'[x] : pools'[x][j] = w => i = j
      <4>1. CASE x # m
        <5>1. pools'[x] = pools[x] BY <3>6, <4>1
        <5>2. i \in DOMAIN pools[x] /\ w = pools[x][i] BY <3>9, <5>1
        <5>3. /\ vms'[w].m = x /\ ~vms'[w].active /\ ~vms'[w].escaped /\ vms'[w].dirty = {}
              /\ \A j \in DOMAIN pools[x] : pools[x][j] = w => i = j
          BY SMTT(30), <1>15, <5>2
        <5> QED BY <5>1, <5>3
      <4>2. CASE x = m /\ i \in DOMAIN p /\ w = p[i]
        <5>1. w # v BY <1>14, <3>3, <4>2
        <5>2. /\ vms'[w].m = m /\ ~vms'[w].active /\ ~vms'[w].escaped /\ vms'[w].dirty = {}
              /\ \A j \in DOMAIN p : p[j] = w => i = j
          BY <1>15, <3>3, <4>2
        <5> QED BY <3>8, <4>2, <5>1, <5>2
      <4>3. CASE x = m /\ i = Len(p) + 1 /\ w = v
        <5>1. \A j \in DOMAIN p : p[j] # v BY <1>14, <3>3
        <5> QED BY <3>2, <3>8, <4>3, <5>1
      <4> QED BY <3>8, <3>9, <4>1, <4>2, <4>3
    <3>10. PoolsIdle'
      <4> SUFFICES ASSUME NEW x \in Modules, NEW i \in DOMAIN pools'[x]
                   PROVE  LET w == pools'[x][i]
                          IN  /\ vms'[w].m = x /\ ~vms'[w].active /\ ~vms'[w].escaped /\ vms'[w].dirty = {}
                              /\ \A j \in DOMAIN pools'[x] : pools'[x][j] = w => i = j
        BY Zenon DEF PoolsIdle
      <4>1. PICK w : w = pools'[x][i] /\ x \in Modules /\ i \in DOMAIN pools'[x] OBVIOUS
      <4>2. /\ vms'[w].m = x /\ ~vms'[w].active /\ ~vms'[w].escaped /\ vms'[w].dirty = {}
            /\ \A j \in DOMAIN pools'[x] : pools'[x][j] = w => i = j
        BY ONLY <3>9, <4>1
      <4> QED BY <4>1, <4>2
    <3> QED BY <3>7, <3>10
  <2> QED BY <2>1, <2>2
<1>17. WorkTypes' BY <1>10, <1>11, <1>16 DEF WorkTypes, Workers, VMs
<1> QED BY <1>13, <1>16, <1>17 DEF WorkInv

-----------------------------------------------------------------------------
(* Every step keeps the worker VMs in order. *)

\* A step that leaves the workers and the calls alone.
LEMMA SameWork ==
  ASSUME LoadInv, WorkInv, SameCalls, UNCHANGED <<globals, vms, pools>>
  PROVE  WorkInv'
<1>1. WorkTypes' BY DEF WorkInv, WorkTypes, Workers, VMs
<1> QED BY <1>1, WorkKept

\* A frame that is not a call is taken off a stack.
LEMMA OtherPopped ==
  ASSUME LoadInv, NEW g \in Goroutines, stack[g] # <<>>, Top(g).k # "call", Pop(g)
  PROVE  SameCalls
<1>1. PICK V : stack \in Stacks(V) BY DEF LoadInv, LoadTypes
<1>2. PICK n : n = Len(stack[g]) - 1 OBVIOUS
<1>3. /\ stack' \in Stacks(V) /\ OthersKeep(g)
      /\ Len(stack[g]) \in Nat \ {0} /\ Len(stack'[g]) = n
      /\ \A i \in 1..n : stack'[g][i] = stack[g][i]
      /\ Top(g) = stack[g][Len(stack[g])]
  BY <1>1, <1>2, Popped
<1>4. n \in Nat /\ n <= Len(stack[g]) /\ n <= n BY <1>2, <1>3
<1>5. \A i \in 1..Len(stack[g]) : i > n => i = Len(stack[g]) BY <1>2, <1>3
<1>6. \A i \in 1..n : ~(i > n) BY <1>4
<1>7. \A i \in 1..Len(stack[g]) : i > n => stack[g][i].k # "call" BY <1>3, <1>5
<1> QED BY <1>1, <1>3, <1>4, <1>6, <1>7, CallsBelow

\* A call on a worker, borrowed or taken.
LEMMA CallKeepsWork ==
  ASSUME LoadInv, WorkInv, NEW g \in Goroutines, NEW m \in Callable, Call(g, m, stack[g])
  PROVE  WorkInv'
<1>1. m \in Modules BY LoaderAssumption
<1>2. PICK b : b = ActiveWorker(m, Caller(g)) OBVIOUS
<1>3. globals' = globals BY DEF Call
<1>4. Caller(g) = NoVM \/ \E i \in FramesOf(g, "call") : Caller(g) = stack[g][i].vm
  BY TopIsFrame DEF Caller
<1>5. CASE b # NoVM /\ Enters(g, m, b, FALSE) /\ UNCHANGED <<vms, pools>>
  <2>1. \E j \in FramesOf(g, "call") : b = stack[g][j].vm /\ stack[g][j].m = m
    BY <1>2, <1>4, <1>5, BorrowedInChain
  <2>2. PICK own \in BOOLEAN : own = FALSE OBVIOUS
  <2>3. Enters(g, m, b, own) BY <1>5, <2>2
  <2> QED BY <1>1, <1>3, <1>5, <2>1, <2>2, <2>3, BorrowStep
<1>6. CASE b = NoVM /\ HasWorker(m) /\ Enters(g, m, NextWorker(m), TRUE) /\ Takes(g, m, NextWorker(m))
  <2>1. PICK v : v = NextWorker(m) OBVIOUS
  <2>2. PICK own \in BOOLEAN : own = TRUE OBVIOUS
  <2>3. HasWorker(m) /\ Enters(g, m, v, own) /\ Takes(g, m, v) BY <1>6, <2>1, <2>2
  <2> QED BY <1>1, <1>3, <2>1, <2>2, <2>3, TakeStep
<1> QED BY <1>2, <1>5, <1>6, CallEnters

\* The end of a call.
LEMMA CallEndsKeepsWork ==
  ASSUME LoadInv, WorkInv, NEW g \in Goroutines, CallEnds(g)
  PROVE  WorkInv'
<1>1. In(g, "call") /\ Pop(g) BY DEF CallEnds
<1>2. PICK err, v, vm :
        /\ err \in BOOLEAN /\ v = Top(g).vm
        /\ vm = IF err THEN vms[v] ELSE WrittenBack(vms[v], Top(g).callVM)
        /\ IF ~Top(g).own
           THEN vms' = [vms EXCEPT ![v] = vm] /\ UNCHANGED <<globals, pools>>
           ELSE Releases(v, vm, err) /\ globals' = [globals EXCEPT ![vm.m] = Persisted(vm)]
  BY DEF CallEnds, Releases
<1>3. vm = vms[v] \/ \E callVM : vm = WrittenBack(vms[v], callVM) BY <1>2
<1>4. CASE ~Top(g).own BY <1>1, <1>2, <1>3, <1>4, GiveBackStep
<1>5. CASE Top(g).own BY <1>1, <1>2, <1>3, <1>5, ReleaseStep
<1> QED BY <1>4, <1>5

\* What a function does to its worker, other than calls.
LEMMA WorkerRuns ==
  ASSUME LoadInv, WorkInv, NEW g \in Goroutines, In(g, "call"), NEW v, v = Top(g).vm,
         UNCHANGED <<stack, globals, pools>>,
         \/ \E s \in Slots : vms' = [vms EXCEPT ![v] = Assigned(@, s)]
         \/ \E s \in Slots : vms' = [vms EXCEPT ![v].globals[s] = LastWrite + 1]
         \/ vms' = [vms EXCEPT ![v].escaped = TRUE]
  PROVE  WorkInv'
<1>1. v \in Workers /\ vms[v].active BY TopIsFrame DEF WorkInv, CallsOnWorkers
<1>2. PICK G : vms \in [Workers -> VMs(G)] /\ globals \in [Modules -> G]
  BY DEF WorkInv, WorkTypes
<1>3. vms[v] \in VMs(G) BY <1>1, <1>2
<1>4. PICK r : /\ vms' = [vms EXCEPT ![v] = r] /\ SameWorker(r, vms[v])
              /\ r \in VMs(G \cup {r.globals, r.dirty})
  <2>1. CASE vms' = [vms EXCEPT ![v].escaped = TRUE]
    <3>1. PICK r : r = [vms[v] EXCEPT !.escaped = TRUE] OBVIOUS
    <3>2. vms' = [vms EXCEPT ![v] = r] BY <2>1, <3>1
    <3>3. SameWorker(r, vms[v]) /\ r \in VMs(G \cup {r.globals, r.dirty})
      BY <1>3, <3>1 DEF VMs, SameWorker
    <3> QED BY <3>2, <3>3
  <2>2. CASE \E s \in Slots : vms' = [vms EXCEPT ![v] = Assigned(@, s)]
    <3>1. PICK s \in Slots : vms' = [vms EXCEPT ![v] = Assigned(vms[v], s)] BY <2>2
    <3>2. PICK r : r = Assigned(vms[v], s) OBVIOUS
    <3>3. SameWorker(r, vms[v]) /\ r \in VMs(G \cup {r.globals, r.dirty})
      BY <1>3, <3>2 DEF VMs, SameWorker, Assigned
    <3> QED BY <3>1, <3>2, <3>3
  <2>3. CASE \E s \in Slots : vms' = [vms EXCEPT ![v].globals[s] = LastWrite + 1]
    <3>1. PICK s \in Slots : vms' = [vms EXCEPT ![v].globals[s] = LastWrite + 1] BY <2>3
    <3>2. PICK r : r = [vms[v] EXCEPT !.globals[s] = LastWrite + 1] OBVIOUS
    <3>3. SameWorker(r, vms[v]) /\ r \in VMs(G \cup {r.globals, r.dirty})
      BY <1>3, <3>2 DEF VMs, SameWorker
    <3>4. vms' = [vms EXCEPT ![v] = r] BY <3>1, <3>2
    <3> QED BY <3>3, <3>4
  <2> QED BY <2>1, <2>2, <2>3
<1>5. PICK H : H = G \cup {r.globals, r.dirty} OBVIOUS
<1>6. vms \in [Workers -> VMs(H)] /\ globals \in [Modules -> H] BY <1>2, <1>5, WidenVMs
<1>7. /\ vms' \in [Workers -> VMs(H)] /\ vms'[v] = r
      /\ \A u \in Workers : u # v => vms'[u] = vms[u]
  BY <1>1, <1>4, <1>5, <1>6
<1>8. WorkTypes' BY <1>6, <1>7 DEF WorkInv, WorkTypes, Workers, VMs
<1>9. \A u \in Workers : /\ vms'[u].m = vms[u].m /\ vms'[u].active = vms[u].active
                         /\ vms'[u].host = vms[u].host
                         /\ vms[u].active \/ vms'[u] = vms[u]
  BY <1>1, <1>4, <1>7 DEF SameWorker
<1>10. SameCalls BY DEF SameCalls, SameCall, FramesOf
<1> QED BY <1>8, <1>9, <1>10, WorkKept

\* A function's assignments, and the closures it hands out, are its own worker's, or stay
\* in a derived VM.
LEMMA RunKeepsWork ==
  ASSUME LoadInv, WorkInv, NEW g \in Goroutines,
         SetGlobal(g) \/ IncGlobalInt(g) \/ NoteEscape(g)
  PROVE  WorkInv'
<1>1. CASE NoteEscape(g)
  <2>1. /\ In(g, "call") /\ UNCHANGED <<stack, globals, pools>>
        /\ vms' = [vms EXCEPT ![Top(g).vm].escaped = TRUE]
    BY <1>1 DEF NoteEscape
  <2> QED BY <2>1, WorkerRuns
<1>2. CASE SetGlobal(g)
  <2>1. /\ In(g, "call") /\ UNCHANGED <<globals, pools>>
        /\ UNCHANGED <<imports, failing, records, loading, paths, lock, bad>>
    BY <1>2, SetGlobalWrites
  <2>2. CASE /\ UNCHANGED vms
             /\ \E C : \E c \in DerivedVMs(C) :
                  c.on = Top(g).callVM.on /\ Replace(g, [Top(g) EXCEPT !.callVM = c])
    <3>1. SameCalls BY <2>1, <2>2, DerivedWrites
    <3> QED BY <2>1, <2>2, <3>1, SameWork
  <2>3. CASE UNCHANGED stack /\ \E s \in Slots : vms' = [vms EXCEPT ![Top(g).vm] = Assigned(@, s)]
    BY <2>1, <2>3, WorkerRuns
  <2> QED BY <1>2, <2>2, <2>3, SetGlobalWrites
<1>3. CASE IncGlobalInt(g)
  <2>1. /\ In(g, "call") /\ UNCHANGED <<stack, globals, pools>>
        /\ \E s \in Slots : vms' = [vms EXCEPT ![Top(g).vm].globals[s] = LastWrite + 1]
    BY <1>3, LoaderAssumption DEF IncGlobalInt
  <2> QED BY <2>1, WorkerRuns
<1> QED BY <1>1, <1>2, <1>3

\* No worker is made at first.
LEMMA WorkInit ==
  ASSUME Init
  PROVE  WorkInv
<1>1. MaxVMs \in Nat /\ None \notin Modules BY LoaderAssumption
<1>2. /\ vms = [v \in Workers |-> Idle] /\ pools = [m \in Modules |-> <<>>]
      /\ globals = [m \in Modules |-> [s \in Slots |-> 0]] /\ stack = [g \in Goroutines |-> <<>>]
  BY DEF Init, Workers
<1>3. Idle \in VMs({Idle.globals, {}}) /\ ~Idle.active /\ Idle.host = NoVM BY <1>1 DEF Idle, VMs, NoVM
<1>4. WorkTypes
  <2>1. vms \in [Workers -> VMs({Idle.globals, {}})] /\ globals \in [Modules -> {Idle.globals, {}}]
    BY <1>2, <1>3 DEF Idle
  <2>2. pools \in [Modules -> Seq(Workers)] BY <1>2
  <2> QED BY <2>1, <2>2 DEF WorkTypes
<1>5. \A g \in Goroutines : FramesOf(g, "call") = {} BY <1>2 DEF FramesOf
<1>6. CallsOnWorkers /\ OneOwner /\ HostsBelow BY <1>5 DEF CallsOnWorkers, OneOwner, HostsBelow
<1>7. ActiveOwned BY <1>2, <1>3 DEF ActiveOwned
<1>8. PoolsIdle BY <1>2 DEF PoolsIdle
<1> QED BY <1>4, <1>6, <1>7, <1>8 DEF WorkInv

\* Every step keeps the invariant of the workers.
LEMMA WorkNext ==
  ASSUME LoadInv, WorkInv, [Next]_vars
  PROVE  WorkInv'
<1>1. CASE UNCHANGED vars
  <2>1. UNCHANGED <<globals, vms, pools>> /\ stack' = stack BY <1>1 DEF vars
  <2>2. SameCalls BY <2>1 DEF SameCalls, SameCall, FramesOf
  <2> QED BY <2>1, <2>2, SameWork
<1>2. SUFFICES ASSUME NEW g \in Goroutines,
                      ScriptImports(g) \/ ScriptCalls(g) \/ Continue(g)
               PROVE  WorkInv'
  BY <1>1 DEF Next
<1>3. CASE ScriptImports(g)
  <2>1. PICK m \in Entry : Import(g, m, stack[g]) BY <1>3 DEF ScriptImports
  <2>2. m \in Modules /\ ~bad[g] BY <1>3, LoaderAssumption DEF ScriptImports
  <2>3. UNCHANGED <<globals, vms, pools>> BY <2>1 DEF Import, callVars
  <2> QED BY <2>1, <2>2, <2>3, ImportStep, SameWork
<1>4. CASE FunctionImports(g)
  <2>1. PICK m \in FunImports : Import(g, m, stack[g]) BY <1>4 DEF FunctionImports
  <2>2. m \in Modules /\ ~bad[g] BY <1>4, LoaderAssumption DEF FunctionImports
  <2>3. UNCHANGED <<globals, vms, pools>> BY <2>1 DEF Import, callVars
  <2> QED BY <2>1, <2>2, <2>3, ImportStep, SameWork
<1>5. CASE BodyImports(g)
  <2>1. UNCHANGED <<globals, vms, pools>> BY <1>5 DEF BodyImports, Import, callVars
  <2> QED BY <1>5, <2>1, BodyImportsStep, SameWork
<1>6. CASE ScriptCalls(g)
  <2>1. PICK m \in Callable : Call(g, m, stack[g]) BY <1>6 DEF ScriptCalls
  <2> QED BY <2>1, CallKeepsWork
<1>7. CASE FunctionCalls(g)
  <2>1. PICK m \in Callable : Call(g, m, stack[g]) BY <1>7 DEF FunctionCalls
  <2> QED BY <2>1, CallKeepsWork
<1>8. CASE BodyCalls(g)
  <2>1. PICK m \in Callable : Call(g, m, stack[g]) BY <1>8 DEF BodyCalls
  <2> QED BY <2>1, CallKeepsWork
<1>9. CASE LoadFound(g) \/ LoadBuiltin(g) \/ LoadRefused(g)
  <2>1. In(g, "wait") /\ Pop(g) /\ UNCHANGED <<globals, vms, pools>>
    BY <1>9 DEF LoadFound, LoadBuiltin, LoadRefused, Waiting, callVars
  <2>2. SameCalls BY <2>1, OtherPopped DEF In
  <2> QED BY <2>1, <2>2, SameWork
<1>10. CASE LoadPublishes(g) \/ LoadFails(g)
  <2>1. In(g, "load") /\ Pop(g) /\ UNCHANGED <<globals, vms, pools>>
    BY <1>10 DEF LoadPublishes, LoadFails, BodyDone, BodyFails, callVars
  <2>2. SameCalls BY <2>1, OtherPopped DEF In
  <2> QED BY <2>1, <2>2, SameWork
<1>11. CASE LoadStarts(g)
  <2>1. UNCHANGED <<globals, vms, pools>> BY <1>11 DEF LoadStarts, callVars
  <2> QED BY <1>11, <2>1, LoadStartsStep, SameWork
<1>12. CASE SetGlobal(g) \/ IncGlobalInt(g) \/ NoteEscape(g) BY <1>12, RunKeepsWork
<1>13. CASE CallEnds(g) BY <1>13, CallEndsKeepsWork
<1>14. CASE Catch(g)
  <2>1. UNCHANGED <<globals, vms, pools>> /\ stack' = stack BY <1>14 DEF Catch, callVars
  <2>2. SameCalls BY <2>1 DEF SameCalls, SameCall, FramesOf
  <2> QED BY <2>1, <2>2, SameWork
<1> QED BY <1>2, <1>3, <1>4, <1>5, <1>6, <1>7, <1>8, <1>9, <1>10, <1>11, <1>12, <1>13, <1>14
        DEF Continue

\* The invariant of the workers holds throughout, whatever the modules call, re-enter,
\* assign, hand out and throw.
THEOREM WorkersInvariant == Spec => [](LoadInv /\ WorkInv)
<1>1. Init => LoadInv /\ WorkInv BY LoadInit, WorkInit
<1>2. LoadInv /\ WorkInv /\ [Next]_vars => (LoadInv /\ WorkInv)' BY LoadNext, WorkNext
<1> QED BY <1>1, <1>2, PTL DEF Spec

\* One owner, borrowers further in, and idle workers in one place.
LEMMA WorkIsExclusive ==
  ASSUME LoadInv, WorkInv
  PROVE  WorkerExclusive
<1>1. ASSUME NEW g \in Goroutines, NEW h \in Goroutines, NEW i \in FramesOf(g, "call"),
             NEW j \in FramesOf(h, "call"), stack[g][i].vm = stack[h][j].vm
      PROVE  g = h /\ (stack[g][i].own /\ stack[h][j].own => i = j)
  <2>1. stack[g][i].vm \in Workers BY FramesAt
  <2>2. PICK k \in FramesOf(g, "call") : Owns(g, k, stack[g][i].vm) BY DEF WorkInv, CallsOnWorkers
  <2>3. PICK l \in FramesOf(h, "call") : Owns(h, l, stack[h][j].vm) BY DEF WorkInv, CallsOnWorkers
  <2>4. g = h BY <1>1, <2>1, <2>2, <2>3 DEF WorkInv, OneOwner
  <2>5. stack[g][i].own /\ stack[h][j].own => i = j BY <1>1, <2>1 DEF WorkInv, OneOwner, Owns
  <2> QED BY <2>4, <2>5
<1>2. ASSUME NEW g \in Goroutines, NEW i \in FramesOf(g, "call")
      PROVE  \E k \in FramesOf(g, "call") : k <= i /\ stack[g][k].vm = stack[g][i].vm /\ stack[g][k].own
  BY DEF WorkInv, CallsOnWorkers, Owns
<1>3. ASSUME NEW m \in Modules, NEW i \in DOMAIN pools[m], NEW j \in DOMAIN pools[m], NEW v, v = pools[m][i]
      PROVE  /\ ~vms[v].escaped /\ vms[v].dirty = {}
             /\ \A g \in Goroutines : \A k \in FramesOf(g, "call") : stack[g][k].vm # v
             /\ pools[m][j] = v => i = j
  <2>1. /\ ~vms[v].active /\ ~vms[v].escaped /\ vms[v].dirty = {} /\ (pools[m][j] = v => i = j)
    BY <1>3 DEF WorkInv, PoolsIdle
  <2>2. \A g \in Goroutines : \A k \in FramesOf(g, "call") : stack[g][k].vm # v
    BY <2>1 DEF WorkInv, CallsOnWorkers
  <2> QED BY <2>1, <2>2
<1> QED BY <1>1, <1>2, <1>3 DEF WorkerExclusive

\* A worker VM serves one chain of calls at a time, for any number of goroutines, modules
\* and workers and any nesting of calls: moduleVM's walk along the re-entry hosts only ever
\* finds a worker of the goroutine's own chain, and releaseModuleVM only ever pools one that
\* nobody else holds.
THEOREM WorkerExclusiveHolds == Spec => []WorkerExclusive
BY WorkersInvariant, WorkIsExclusive, PTL
=============================================================================
