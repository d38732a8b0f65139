----------------------------- MODULE Generator ------------------------------
(***************************************************************************)
(* runtime.Generator (internal/runtime/value.go) over a lazily started     *)
(* producer goroutine (lazyGenerator in internal/evaluator/evaluator.go    *)
(* and internal/bytecode/vm_calls.go).                                     *)
(*                                                                         *)
(* The body runs in a goroutine of its own from the first next() on and    *)
(* hands its values over on the unbuffered channel items; doneCh tells it  *)
(* that nobody wants the rest.  next(), done() and close() may be called   *)
(* by several goroutines that share the generator.                         *)
(*                                                                         *)
(* at[p] is where goroutine p is in its operation op[p]:                   *)
(*    "peek"   done: in front of the test of hasPrefetch                   *)
(*    "check"  Next: in front of the tests of hasPrefetch and closed       *)
(*    "pull"   Next: in front of the closure that starts the producer      *)
(*    "recv"   receiving from items                                        *)
(*    "fail"   has the body's error, the closure's closed flag not yet set *)
(*    "keep"   that flag set, the error not yet kept in pendingErr         *)
(*    "store"  done: has a value, not yet kept as the prefetched one       *)
(*    "close"  Close: in front of the test of closed                       *)
(*    "stop"   Close: closed set, doneCh still open                        *)
(***************************************************************************)
EXTENDS Naturals, Sequences, FiniteSets

CONSTANTS Procs,     \* goroutines that use the generator
          Bodies,    \* generator functions: [yields, ends]
          Scripts    \* the programs: Scripts[i][p] is the sequence of operations of p

Ops == {"next", "done", "close"}

ASSUME GeneratorAssumption ==
  /\ \A b \in Bodies : b.yields \in Nat /\ b.ends \in {"return", "throw"}
  /\ \A s \in Scripts : s \in [Procs -> Seq(Ops)]

VARIABLES
  body,        \* the generator function
  bpc,         \* where the producer goroutine is
  made,        \* the number of values it has computed; values are numbered
  doneCh,      \* doneCh is closed
  closed,      \* Generator.closed
  exhausted,   \* the closure's own closed flag
  pendingErr,  \* the closure has kept the body's error
  prefetched,  \* the prefetched value; 0 is none
  at, op,      \* at[p], op[p]: the operation goroutine p is in
  held,        \* held[p]: the value a done() has taken and not yet stored
  ret,         \* ret[p]: the outcome of p's last operation
  delivered,   \* history: the values next() has returned, in order
  todo         \* todo[p]: the operations p has still to perform

genVars == <<bpc, made, doneCh, closed, exhausted, pendingErr, prefetched>>
vars == <<body, genVars, at, op, held, ret, delivered, todo>>

None == 0

Init ==
  /\ body \in Bodies
  /\ bpc = "unstarted"
  /\ made = 0
  /\ doneCh = FALSE
  /\ closed = FALSE
  /\ exhausted = FALSE
  /\ pendingErr = FALSE
  /\ prefetched = None
  /\ at = [p \in Procs |-> "idle"]
  /\ op = [p \in Procs |-> "none"]
  /\ held = [p \in Procs |-> None]
  /\ ret = [p \in Procs |-> "none"]
  /\ delivered = <<>>
  /\ todo \in Scripts

Start(p) ==
  LET o == Head(todo[p]) IN
  /\ at[p] = "idle"
  /\ todo[p] # <<>>
  /\ op' = [op EXCEPT ![p] = o]
  /\ at' = [at EXCEPT ![p] = CASE o = "next" -> "check" [] o = "done" -> "peek" [] o = "close" -> "close"]
  /\ todo' = [todo EXCEPT ![p] = Tail(@)]
  /\ UNCHANGED <<body, genVars, held, ret, delivered>>

Goto(p, l) ==
  /\ at' = [at EXCEPT ![p] = l]
  /\ UNCHANGED <<op, held, ret, delivered, todo>>

Return(p, what) ==
  /\ at' = [at EXCEPT ![p] = "idle"]
  /\ op' = [op EXCEPT ![p] = "none"]
  /\ held' = [held EXCEPT ![p] = None]
  /\ ret' = [ret EXCEPT ![p] = what]
  /\ UNCHANGED todo

\* Next has the value v: it is next()'s result, or done() is going to keep it.
Obtain(p, v) ==
  \/ /\ op[p] = "next"
     /\ Return(p, "value")
     /\ delivered' = Append(delivered, v)
  \/ /\ op[p] = "done"
     /\ at' = [at EXCEPT ![p] = "store"]
     /\ held' = [held EXCEPT ![p] = v]
     /\ UNCHANGED <<op, ret, delivered, todo>>

\* Next has come to the end, or to the body's error.
Finish(p, what) == Return(p, what) /\ UNCHANGED delivered

-----------------------------------------------------------------------------
\* done(): a prefetched value answers it.
PeekDone(p) ==
  /\ at[p] = "peek"
  /\ \/ prefetched # None /\ Finish(p, "more")
     \/ prefetched = None /\ Goto(p, "check")
  /\ UNCHANGED <<body, genVars>>

\* Next under the lock: the prefetched value first, then the closed flag.
Next_(p) ==
  /\ at[p] = "check"
  /\ \/ prefetched # None /\ Obtain(p, prefetched) /\ prefetched' = None
     \/ prefetched = None /\ closed /\ Finish(p, "end") /\ UNCHANGED prefetched
     \/ prefetched = None /\ ~closed /\ Goto(p, "pull") /\ UNCHANGED prefetched
  /\ UNCHANGED <<body, bpc, made, doneCh, closed, exhausted, pendingErr>>

\* The closure starts the producer once and remembers that it has ended.
Pull(p) ==
  /\ at[p] = "pull"
  /\ bpc' = IF bpc = "unstarted" THEN "run" ELSE bpc
  /\ \/ exhausted /\ Finish(p, IF pendingErr THEN "error" ELSE "end")
     \/ ~exhausted /\ Goto(p, "recv")
  /\ UNCHANGED <<body, made, doneCh, closed, exhausted, pendingErr, prefetched>>

\* The receive from items meets a yield, the body's error, or the closed channel.
ReceiveValue(p) ==
  /\ at[p] = "recv" /\ bpc = "yield"
  /\ bpc' = "run"
  /\ Obtain(p, made)
  /\ UNCHANGED <<body, made, doneCh, closed, exhausted, pendingErr, prefetched>>

ReceiveError(p) ==
  /\ at[p] = "recv" /\ bpc = "throw"
  /\ bpc' = "ended"
  /\ Goto(p, "fail")
  /\ UNCHANGED <<body, made, doneCh, closed, exhausted, pendingErr, prefetched>>

\* The closure's two variables are written without a lock, one after the other,
\* while another goroutine may be reading them in Pull.
MarkExhausted(p) ==
  /\ at[p] = "fail"
  /\ exhausted' = TRUE
  /\ Goto(p, "keep")
  /\ UNCHANGED <<body, bpc, made, doneCh, closed, pendingErr, prefetched>>

KeepError(p) ==
  /\ at[p] = "keep"
  /\ pendingErr' = TRUE
  /\ Finish(p, "error")
  /\ UNCHANGED <<body, bpc, made, doneCh, closed, exhausted, prefetched>>

\* Mutant: the second result of the receive is not looked at.
ReceiveEndUnchecked(p) ==
  /\ at[p] = "recv" /\ bpc = "ended"
  /\ Obtain(p, None)
  /\ UNCHANGED <<body, genVars>>

\* Mutant: the producer does not close items when it ends.
ReceiveEndNever(p) ==
  /\ at[p] = "recv" /\ bpc = "ended" /\ exhausted
  /\ Finish(p, "end")
  /\ UNCHANGED <<body, genVars>>

ReceiveEnd(p) ==
  /\ at[p] = "recv" /\ bpc = "ended"
  /\ exhausted' = TRUE
  /\ Finish(p, "end")
  /\ UNCHANGED <<body, bpc, made, doneCh, closed, pendingErr, prefetched>>

\* Mutant: done() drops the value it has peeked at.
StorePrefetchDropped(p) ==
  /\ at[p] = "store"
  /\ Finish(p, "more")
  /\ UNCHANGED <<body, genVars>>

StorePrefetch(p) ==
  /\ at[p] = "store"
  /\ prefetched' = held[p]
  /\ Finish(p, "more")
  /\ UNCHANGED <<body, bpc, made, doneCh, closed, exhausted, pendingErr>>

Close(p) ==
  /\ at[p] = "close"
  /\ closed' = TRUE
  /\ \/ closed /\ Finish(p, "closed")
     \/ ~closed /\ Goto(p, "stop")
  /\ UNCHANGED <<body, bpc, made, doneCh, exhausted, pendingErr, prefetched>>

CloseDone(p) ==
  /\ at[p] = "stop"
  /\ doneCh' = TRUE
  /\ Finish(p, "closed")
  /\ UNCHANGED <<body, bpc, made, closed, exhausted, pendingErr, prefetched>>

-----------------------------------------------------------------------------
(* The producer goroutine; it ends by closing items.                        *)

\* Mutant: the producer goroutine ends without sending the body's error.
BodyDropsError ==
  /\ bpc = "run"
  /\ \/ made < body.yields /\ made' = made + 1 /\ bpc' = "yield"
     \/ made = body.yields /\ bpc' = "ended" /\ UNCHANGED made
  /\ UNCHANGED <<body, doneCh, closed, exhausted, pendingErr, prefetched,
                 at, op, held, ret, delivered, todo>>

\* The body computes up to its next yield, its return or its throw.  After a
\* hand-over it does so at once, without waiting for the next call of Next.
BodyRuns ==
  /\ bpc = "run"
  /\ \/ made < body.yields /\ made' = made + 1 /\ bpc' = "yield"
     \/ made = body.yields /\ bpc' = (IF body.ends = "throw" THEN "throw" ELSE "ended") /\ UNCHANGED made
  /\ UNCHANGED <<body, doneCh, closed, exhausted, pendingErr, prefetched,
                 at, op, held, ret, delivered, todo>>

\* Mutant: yield sends without watching doneCh.
BodyStopsNever ==
  /\ bpc = "throw" /\ doneCh
  /\ bpc' = "ended"
  /\ UNCHANGED <<body, made, doneCh, closed, exhausted, pendingErr, prefetched,
                 at, op, held, ret, delivered, todo>>

\* doneCh ends a yield, which unwinds the body (a finally block may throw), or the
\* send of an error.
BodyStops ==
  /\ bpc \in {"yield", "throw"} /\ doneCh
  /\ bpc' \in (IF bpc = "yield" THEN {"throw", "ended"} ELSE {"ended"})
  /\ UNCHANGED <<body, made, doneCh, closed, exhausted, pendingErr, prefetched,
                 at, op, held, ret, delivered, todo>>

Consumer(p) ==
  \/ PeekDone(p)
  \/ Next_(p)
  \/ Pull(p)
  \/ ReceiveValue(p)
  \/ ReceiveError(p)
  \/ MarkExhausted(p)
  \/ KeepError(p)
  \/ ReceiveEnd(p)
  \/ StorePrefetch(p)
  \/ Close(p)
  \/ CloseDone(p)

Producer == BodyRuns \/ BodyStops

Next == Producer \/ \E p \in Procs : Consumer(p) \/ Start(p)

Spec == Init /\ [][Next]_vars

\* The goroutines run, and the body gets to its next yield or to its end; nobody
\* has to call next() or close() again.
FairSpec == Spec /\ WF_vars(Producer) /\ \A p \in Procs : WF_vars(Consumer(p))

-----------------------------------------------------------------------------
\* Types of the generator's state and of the calls in flight.
TypeOK ==
  /\ bpc \in {"unstarted", "run", "yield", "throw", "ended"}
  /\ made \in 0..body.yields
  /\ prefetched \in 0..made
  /\ {doneCh, closed, exhausted, pendingErr} \subseteq BOOLEAN
  /\ \A p \in Procs :
       /\ at[p] \in {"idle", "peek", "check", "pull", "recv", "fail", "keep", "store", "close", "stop"}
       /\ held[p] \in 0..made
       /\ (held[p] # None) <=> (at[p] = "store")

\* The values the producer has handed over and next() has not returned yet.
Kept == {prefetched} \cup {held[p] : p \in Procs}

Handed == 1..(IF bpc = "yield" THEN made - 1 ELSE made)

\* done() never loses a value and nothing is delivered twice: what the producer has
\* handed over was delivered once or is still kept.  (A yield that doneCh ended
\* was not handed over.)
NothingLost ==
  /\ \A i, j \in DOMAIN delivered : i # j => delivered[i] # delivered[j]
  /\ \A i \in DOMAIN delivered : delivered[i] \notin Kept
  /\ ~doneCh => Handed = {delivered[i] : i \in DOMAIN delivered} \cup (Kept \ {None})

\* A generator that nobody closed says it has ended only when its body has, when
\* every value was handed over, and never in place of the body's error: a goroutine
\* that sees a plain end after a throw sees it because another one has the error.
EndIsTrue ==
  \A p \in Procs :
    ret[p] = "end" /\ ~closed =>
      /\ bpc = "ended"
      /\ made = body.yields
      /\ body.ends = "throw" => pendingErr \/ \E q \in Procs : at[q] \in {"fail", "keep"}

\* close() releases the producer: its goroutine ends, wherever it was.
CloseEndsProducer == doneCh ~> (bpc \in {"unstarted", "ended"})

\* Every next() and done() returns, also when another goroutine closes the
\* generator while it waits for the producer.
CallsReturn == \A p \in Procs : (at[p] # "idle") ~> (at[p] = "idle")
=============================================================================
