------------------------------- MODULE Loader -------------------------------
(***************************************************************************)
(* The bytecode module loader (internal/bcloader/loader.go): imports under *)
(* the reentrant load lock, import cycles and failed initialisers, and     *)
(* cross-module calls, each on a worker VM of the callee's module that     *)
(* copies the module's globals in and writes the reassigned ones back.     *)
(*                                                                         *)
(* stack[g] is what goroutine g is in the middle of, innermost last:       *)
(*   "wait"  LoadModule, at loadLock.Lock()                                *)
(*   "load"  LoadModule, running the module's body; at is the next import  *)
(*   "call"  a CallModuleFunction (or one of its siblings) on worker vm,   *)
(*           which it owns (own) or has borrowed from a call further out;  *)
(*           callVM is the VM derived from it that runs the function, if   *)
(*           the call goes through runWrapperWithRawCall                   *)
(***************************************************************************)
EXTENDS Integers, Sequences, FiniteSets, SequencesExt

CONSTANTS
  Goroutines, Modules, Slots,
  Sources,     \* the names that resolve to a source file
  Path,        \* Path[m]: that file; a package's files have a long and a short name
  Builtins,    \* the names LookupBuiltin knows
  Graphs,      \* import graphs: functions from Modules to sequences of modules
  MayFail,     \* modules whose source may not compile or whose body may throw
  InitCalls,   \* pairs of modules: the first one's initialiser calls the second
  FunImports,  \* modules that functions import when they run
  Entry,       \* modules that the script and its tasks import
  Callable,    \* modules that have functions to call
  Wrapped,     \* modules with functions that are decorated or bound to types
  Stateful,    \* modules whose functions assign globals
  Escaping,    \* modules whose functions hand out closures
  Counters,    \* the globals that functions update with ++ and --
  Budgets,     \* how many imports that load and calls each goroutine may make
  MaxWrites,   \* writes to module globals
  MaxPooled,   \* maxPooledVMs
  MaxVMs       \* worker VMs that can be made

None == "none"

ASSUME LoaderAssumption ==
  /\ Sources \cup Builtins \cup MayFail \cup FunImports \cup Entry \cup Callable \subseteq Modules
  /\ Counters \subseteq Slots
  /\ \A graph \in Graphs : graph \in [Modules -> Seq(Modules)]
  /\ DOMAIN Path = Sources
  /\ \A graph \in Graphs, m, n \in Sources : Path[m] = Path[n] => graph[m] = graph[n]
  /\ None \notin Modules /\ None \notin Goroutines
  /\ Budgets \subseteq [Goroutines -> Nat]
  /\ {MaxWrites, MaxPooled, MaxVMs} \subseteq Nat

VARIABLES
  imports,  \* the import graph of this run
  failing,  \* the modules that fail to compile, or throw, in this run
  records,  \* records[m]: "none", "native", or "full"
  globals,  \* globals[m][s]: globalsVM of m's record
  loading,  \* the files being loaded
  paths,    \* the files whose directories are in front of modulePaths, innermost first
  lock,     \* loadLock: its owner, none when free, and count
  stack,    \* see above
  bad,      \* bad[g]: an error has reached g's innermost operation
  ops,      \* operations g may still start
  vms,      \* the worker VMs
  pools,    \* pools[m]: idle workers of m, the last one is reused first
  live,     \* live[m][s]: the last value written to the global, by anyone
  writers,  \* writers[m][s]: the goroutines that have written it
  bridged,  \* the workers whose bridgeActive is set, so that every update marks its slot
  exposed   \* exposed[m]: globals that the code may have lost a write of (see NoLostWrite)

loadVars == <<records, loading, paths, lock>>
callVars == <<globals, vms, pools, live, writers, bridged, exposed>>
vars == <<imports, failing, records, globals, loading, paths, lock, stack, bad, ops, vms,
          pools, live, writers, bridged, exposed>>

NoVM == 0

\* A VM with copies of a module's globals, of which it has reassigned none.
Derived(on, given) == [on |-> on, globals |-> given, dirty |-> {}]
NoCallVM == Derived(FALSE, [s \in Slots |-> 0])

Idle == [m |-> None, globals |-> [s \in Slots |-> 0], dirty |-> {}, active |-> FALSE,
         host |-> NoVM, escaped |-> FALSE]

Init ==
  /\ imports \in Graphs
  /\ failing \in {F \in SUBSET MayFail :
                   \A m, n \in Sources : Path[m] = Path[n] => (m \in F <=> n \in F)}
  /\ records = [m \in Modules |-> None]
  /\ globals = [m \in Modules |-> [s \in Slots |-> 0]]
  /\ loading = {} /\ paths = <<>>
  /\ lock = [owner |-> None, count |-> 0]
  /\ stack = [g \in Goroutines |-> <<>>]
  /\ bad = [g \in Goroutines |-> FALSE]
  /\ ops \in Budgets
  /\ vms = [v \in 1..MaxVMs |-> Idle]
  /\ pools = [m \in Modules |-> <<>>]
  /\ live = globals
  /\ writers = [m \in Modules |-> [s \in Slots |-> {}]]
  /\ bridged = {}
  /\ exposed = [m \in Modules |-> {}]

Frame(k, m, vm, own, callVM) ==
  [k |-> k, m |-> m, vm |-> vm, own |-> own, at |-> 1, callVM |-> callVM]
FramesOf(g, k) == {i \in DOMAIN stack[g] : stack[g][i].k = k}
CallsInto(g, m) == {i \in FramesOf(g, "call") : stack[g][i].m = m}

Top(g) == Last(stack[g])
In(g, k) == stack[g] # <<>> /\ Top(g).k = k
Pop(g) == stack' = [stack EXCEPT ![g] = Front(@)]
Replace(g, f) == stack' = [stack EXCEPT ![g] = Append(Front(@), f)]

-----------------------------------------------------------------------------
(* Imports *)

\* The goroutine asks for module m from frame rest: the lock-free look at the
\* records, then the lock.
Import(g, m, rest) ==
  /\ stack' = [stack EXCEPT ![g] = IF records[m] # None THEN rest
                                   ELSE Append(rest, Frame("wait", m, NoVM, FALSE, NoCallVM))]
  /\ UNCHANGED <<imports, failing, bad, loadVars, callVars>>
Spend(g, m) == ops' = IF records[m] # None THEN ops ELSE [ops EXCEPT ![g] = @ - 1]

\* The script, or an async task, imports a module.
ScriptImports(g) ==
  /\ stack[g] = <<>> /\ ~bad[g] /\ ops[g] > 0
  /\ \E m \in Entry : Spend(g, m) /\ Import(g, m, <<>>)

\* The next import of a module's body.
BodyImports(g) ==
  /\ In(g, "load") /\ ~bad[g]
  /\ Top(g).at <= Len(imports[Top(g).m])
  /\ Import(g, imports[Top(g).m][Top(g).at],
            Append(Front(stack[g]), [Top(g) EXCEPT !.at = @ + 1]))
  /\ UNCHANGED ops

\* An import statement in a function.
FunctionImports(g) ==
  /\ In(g, "call") /\ ~bad[g] /\ ops[g] > 0
  /\ \E m \in FunImports : Spend(g, m) /\ Import(g, m, stack[g])

\* reentrantMutex: the owner only counts.
CanLock(g) == lock.owner \in {None, g}
Locked(g) == [owner |-> g, count |-> lock.count + 1]
Unlocked == IF lock.count = 1 THEN [owner |-> None, count |-> 0]
            ELSE [lock EXCEPT !.count = @ - 1]

Waiting(g) == In(g, "wait") /\ CanLock(g)

\* The cycle set is one of files: the records, and the built-in modules, go by name.
InProgress(m) == m \in Sources /\ Path[m] \in loading

\* Another goroutine has loaded the module meanwhile.
LoadFound(g) ==
  /\ Waiting(g) /\ records[Top(g).m] # None
  /\ Pop(g)
  /\ UNCHANGED <<imports, failing, bad, ops, loadVars, callVars>>

\* No source file, or an import of a module from within itself: the built-in
\* module of that name is recorded and returned.
LoadBuiltin(g) ==
  /\ Waiting(g)
  /\ LET m == Top(g).m
     IN  /\ records[m] = None
         /\ m \notin Sources \/ InProgress(m)
         /\ m \in Builtins
         /\ records' = [records EXCEPT ![m] = "native"]
  /\ Pop(g)
  /\ UNCHANGED <<imports, failing, bad, ops, loading, paths, lock, callVars>>

\* Mutant of LoadRefused: an import cycle is passed over.
LoadRefusedSilently(g) ==
  /\ Waiting(g)
  /\ LET m == Top(g).m
     IN  records[m] = None /\ m \notin Builtins /\ (m \notin Sources \/ InProgress(m))
  /\ Pop(g)
  /\ UNCHANGED <<imports, failing, bad, ops, loadVars, callVars>>

\* Unresolvable, a circular import, or a source that cannot be read or compiled.
LoadRefused(g) ==
  /\ Waiting(g)
  /\ LET m == Top(g).m
     IN  /\ records[m] = None
         /\ \/ m \notin Builtins /\ (m \notin Sources \/ InProgress(m))
            \/ m \in failing \cap Sources /\ ~InProgress(m)
  /\ bad' = [bad EXCEPT ![g] = TRUE]
  /\ Pop(g)
  /\ UNCHANGED <<imports, failing, ops, loadVars, callVars>>

\* Mutant of LoadStarts: no second look at the records once the lock is held.
LoadStartsUnchecked(g) ==
  /\ Waiting(g)
  /\ LET m == Top(g).m
     IN  /\ m \in Sources /\ ~InProgress(m)
         /\ loading' = loading \cup {Path[m]}
         /\ paths' = <<Path[m]>> \o paths
         /\ Replace(g, Frame("load", m, NoVM, FALSE, NoCallVM))
  /\ lock' = Locked(g)
  /\ UNCHANGED <<imports, failing, records, bad, ops, callVars>>

\* The module is compiled and its body starts on a VM of its own, with no
\* re-entry host.
LoadStarts(g) ==
  /\ Waiting(g)
  /\ LET m == Top(g).m
     IN  /\ records[m] = None /\ m \in Sources /\ ~InProgress(m)
         /\ loading' = loading \cup {Path[m]}
         /\ paths' = <<Path[m]>> \o paths
         /\ Replace(g, Frame("load", m, NoVM, FALSE, NoCallVM))
  /\ lock' = Locked(g)
  /\ UNCHANGED <<imports, failing, records, bad, ops, callVars>>

BodyDone(g) == In(g, "load") /\ Top(g).at > Len(imports[Top(g).m])

\* The body has ended: the module is published, and the deferred clean-up runs.
LoadPublishes(g) ==
  /\ BodyDone(g) /\ ~bad[g] /\ Top(g).m \notin failing
  /\ records' = [records EXCEPT ![Top(g).m] = "full"]
  /\ loading' = loading \ {Path[Top(g).m]}
  /\ paths' = Tail(paths)
  /\ lock' = Unlocked
  /\ Pop(g)
  /\ UNCHANGED <<imports, failing, bad, ops, callVars>>

\* Does the body end with an error: its own, or one of an import or a call?
BodyFails(g) == In(g, "load") /\ (bad[g] \/ (BodyDone(g) /\ Top(g).m \in failing))

\* Mutant of LoadFails: modulePaths is restored on success only.
LoadFailsKeepingPath(g) ==
  /\ BodyFails(g)
  /\ loading' = loading \ {Path[Top(g).m]}
  /\ lock' = Unlocked
  /\ bad' = [bad EXCEPT ![g] = TRUE]
  /\ Pop(g)
  /\ UNCHANGED <<imports, failing, records, paths, ops, callVars>>

\* Mutant of LoadFails: the lock is released on success only.
LoadFailsLocked(g) ==
  /\ BodyFails(g)
  /\ loading' = loading \ {Path[Top(g).m]}
  /\ paths' = Tail(paths)
  /\ bad' = [bad EXCEPT ![g] = TRUE]
  /\ Pop(g)
  /\ UNCHANGED <<imports, failing, records, lock, ops, callVars>>

\* Nothing is recorded, so that a later import runs the body again.
LoadFails(g) ==
  /\ BodyFails(g)
  /\ loading' = loading \ {Path[Top(g).m]}
  /\ paths' = Tail(paths)
  /\ lock' = Unlocked
  /\ bad' = [bad EXCEPT ![g] = TRUE]
  /\ Pop(g)
  /\ UNCHANGED <<imports, failing, records, ops, callVars>>

-----------------------------------------------------------------------------
(* Calls *)


\* The walk of moduleVM along the re-entry hosts for a worker of m in this chain.
ActiveWorker(m, caller) ==
  LET walk[v \in 0..MaxVMs] ==
        IF v = NoVM \/ (vms[v].active /\ vms[v].m = m) THEN v ELSE walk[vms[v].host]
  IN  walk[caller]

\* A worker from the pool, or a new one.
Unmade == {v \in 1..MaxVMs : vms[v].m = None}
NextWorker(m) == IF pools[m] # <<>> THEN Last(pools[m])
                 ELSE CHOOSE v \in Unmade : \A w \in Unmade : v <= w
HasWorker(m) == pools[m] # <<>> \/ Unmade # {}

\* The VM from which g's innermost frame calls; a module's body, and a function on a
\* derived VM, call from a VM that no worker can be reached through.
Caller(g) == IF In(g, "call") /\ ~Top(g).callVM.on THEN Top(g).vm ELSE NoVM

\* Can the walk miss g's calls into m?  Behind the innermost of them the chain is cut by a
\* borrowed worker, whose host is the one its owner had, by a derived VM or by a module's
\* body.
Cut(g, m) ==
  LET calls == CallsInto(g, m)
  IN  /\ calls # {}
      /\ \E i \in Max(calls)..Len(stack[g]) :
           stack[g][i].callVM.on \/ (i > Max(calls) /\ ~stack[g][i].own)

\* moduleVM: a worker of m further out in this chain is borrowed, otherwise one
\* is taken and given the module's globals.  The function runs on the worker, or on a VM
\* derived from it.
Call(g, m, rest) ==
  LET borrowed == ActiveWorker(m, Caller(g))
      v == NextWorker(m)
      enter(vm, own, given) ==
        \E callVM \in {NoCallVM} \cup (IF m \in Wrapped THEN {Derived(TRUE, given)} ELSE {}) :
          /\ stack' = [stack EXCEPT ![g] = Append(rest, Frame("call", m, vm, own, callVM))]
          /\ bridged' = IF callVM.on THEN bridged \cup {vm} ELSE bridged
  IN  /\ records[m] = "full"
      /\ ops[g] > 0
      /\ ops' = [ops EXCEPT ![g] = @ - 1]
      /\ IF borrowed # NoVM
         THEN /\ enter(borrowed, FALSE, vms[borrowed].globals)
              /\ UNCHANGED <<vms, pools, exposed>>
         ELSE /\ HasWorker(m)
              /\ enter(v, TRUE, globals[m])
              /\ vms' = [vms EXCEPT ![v] = [@ EXCEPT !.m = m, !.globals = globals[m],
                                                     !.host = Caller(g), !.active = TRUE]]
              /\ pools' = IF pools[m] # <<>> THEN [pools EXCEPT ![m] = Front(@)] ELSE pools
              /\ exposed' = IF Cut(g, m) THEN [exposed EXCEPT ![m] = Slots] ELSE exposed
      /\ UNCHANGED <<imports, failing, bad, loadVars, globals, live, writers>>

\* The script, or a task, calls a module's function; or a function of another module does:
\* within its own a function runs on the VM of its caller.
ScriptCalls(g) == stack[g] = <<>> /\ ~bad[g] /\ \E m \in Callable : Call(g, m, <<>>)
FunctionCalls(g) ==
  In(g, "call") /\ ~bad[g] /\ \E m \in Callable \ {Top(g).m} : Call(g, m, stack[g])

\* The initialiser of a module calls a function, behind the module's imports.
BodyCalls(g) ==
  /\ BodyDone(g) /\ ~bad[g]
  /\ \E m \in Callable : <<Top(g).m, m>> \in InitCalls /\ Call(g, m, stack[g])

\* A function assigns to a global of its module: the copy of the VM it runs on is written
\* and the slot marked dirty.  Every write is a new value.
LastWrite == Max({live[m][s] : m \in Modules, s \in Slots})
Assigned(vm, s) == [vm EXCEPT !.globals[s] = LastWrite + 1, !.dirty = @ \cup {s}]
Written(g, m, s) ==
  /\ live' = [live EXCEPT ![m][s] = LastWrite + 1]
  /\ writers' = [writers EXCEPT ![m][s] = @ \cup {g}]
SetGlobal(g) ==
  /\ In(g, "call") /\ ~bad[g] /\ Top(g).m \in Stateful
  /\ LastWrite < MaxWrites
  /\ LET m == Top(g).m
     IN  \E s \in Slots :
           /\ IF Top(g).callVM.on
              THEN Replace(g, [Top(g) EXCEPT !.callVM = Assigned(@, s)]) /\ UNCHANGED vms
              ELSE vms' = [vms EXCEPT ![Top(g).vm] = Assigned(@, s)] /\ UNCHANGED stack
           /\ Written(g, m, s)
  /\ UNCHANGED <<imports, failing, loadVars, globals, bad, ops, pools, bridged, exposed>>

\* n++ or n-- on an int global (OpIncGlobalInt): as long as bridgeActive is not set the
\* copy is written and nothing marked.  Otherwise it is a SetGlobal.
IncGlobalInt(g) ==
  /\ In(g, "call") /\ ~bad[g] /\ Top(g).m \in Stateful
  /\ ~Top(g).callVM.on /\ Top(g).vm \notin bridged
  /\ LastWrite < MaxWrites
  /\ LET m == Top(g).m
     IN  \E s \in Counters :
           /\ vms' = [vms EXCEPT ![Top(g).vm].globals[s] = LastWrite + 1]
           /\ Written(g, m, s)
           /\ exposed' = [exposed EXCEPT ![m] = @ \cup {s}]
  /\ UNCHANGED <<imports, failing, loadVars, globals, stack, bad, ops, pools, bridged>>

\* A function hands out a closure, bridge or generator that captures its VM, which
\* escapedRefs counts; a bridge sets bridgeActive too.
NoteEscape(g) ==
  /\ In(g, "call") /\ ~bad[g] /\ Top(g).m \in Escaping
  /\ ~Top(g).callVM.on /\ ~vms[Top(g).vm].escaped
  /\ vms' = [vms EXCEPT ![Top(g).vm].escaped = TRUE]
  /\ bridged' \in {bridged, bridged \cup {Top(g).vm}}
  /\ UNCHANGED <<imports, failing, loadVars, globals, stack, bad, ops, pools, live, writers,
                 exposed>>

\* runWrapperWithRawCall when the function returns: the worker gets the slots that the
\* derived VM has reassigned.
WrittenBack(vm, callVM) ==
  [vm EXCEPT !.globals = [s \in Slots |-> IF s \in callVM.dirty THEN callVM.globals[s] ELSE @[s]],
             !.dirty = @ \cup callVM.dirty]

\* persistModuleGlobals: only the slots this call has reassigned are written back.
Persisted(vm) == [s \in Slots |-> IF s \in vm.dirty THEN vm.globals[s] ELSE globals[vm.m][s]]

\* Mutant of Recyclable: a worker whose VM has escaped is pooled as well.
RecyclableAlways(vm, err) == ~err /\ Len(pools[vm.m]) < MaxPooled
Recyclable(vm, err) == ~err /\ ~vm.escaped /\ Len(pools[vm.m]) < MaxPooled

\* resetForReuse; what a closure has captured it cannot take back.
Reset(vm) == [Idle EXCEPT !.m = vm.m, !.escaped = vm.escaped]

\* What is left of a worker that is not pooled: nothing, unless a closure holds it.
Dropped(vm) == IF vm.escaped THEN Reset(vm) ELSE Idle

\* A call ends: a derived VM's writes are dropped if it ends with an error, and then
\* releaseModuleVM.
CallEnds(g) ==
  /\ In(g, "call")
  /\ \E err \in BOOLEAN :
       /\ bad[g] => err
       /\ bad' = [bad EXCEPT ![g] = err]
       /\ LET v == Top(g).vm
              vm == IF err THEN vms[v] ELSE WrittenBack(vms[v], Top(g).callVM)
          IN  IF ~Top(g).own
              THEN vms' = [vms EXCEPT ![v] = vm] /\ UNCHANGED <<globals, pools>>
              ELSE /\ globals' = [globals EXCEPT ![vm.m] = Persisted(vm)]
                   /\ IF Recyclable(vm, err)
                      THEN /\ vms' = [vms EXCEPT ![v] = Reset(vm)]
                           /\ pools' = [pools EXCEPT ![vm.m] = Append(@, v)]
                      ELSE vms' = [vms EXCEPT ![v] = Dropped(vm)] /\ UNCHANGED pools
       /\ bridged' = IF Top(g).own THEN bridged \ {Top(g).vm} ELSE bridged
       /\ exposed' = IF err THEN [exposed EXCEPT ![Top(g).m] = @ \cup Top(g).callVM.dirty]
                     ELSE exposed
  /\ Pop(g)
  /\ UNCHANGED <<imports, failing, loadVars, ops, live, writers>>

\* The script, or a function, catches the error.
Catch(g) ==
  /\ bad[g] /\ (stack[g] = <<>> \/ In(g, "call"))
  /\ bad' = [bad EXCEPT ![g] = FALSE]
  /\ UNCHANGED <<imports, failing, loadVars, callVars, stack, ops>>

-----------------------------------------------------------------------------

\* What a goroutine does once it is inside an import or a call.
Continue(g) ==
  \/ BodyImports(g) \/ FunctionImports(g)
  \/ LoadFound(g) \/ LoadBuiltin(g) \/ LoadRefused(g) \/ LoadStarts(g)
  \/ LoadPublishes(g) \/ LoadFails(g)
  \/ FunctionCalls(g) \/ BodyCalls(g) \/ SetGlobal(g) \/ IncGlobalInt(g)
  \/ NoteEscape(g) \/ CallEnds(g) \/ Catch(g)

Next == \E g \in Goroutines : ScriptImports(g) \/ ScriptCalls(g) \/ Continue(g)

\* The Go scheduler runs every goroutine that can go on.
Spec == Init /\ [][Next]_vars /\ \A g \in Goroutines : WF_vars(Continue(g))

-----------------------------------------------------------------------------
(* Properties. *)

\* A file's body never runs in two places at the same time, under whatever names it is
\* imported, and never again under a name that is published, whoever imports it; the
\* records go by name, so that its other name may well load it again
\* (LoadModule's cycle set, and its second look at the records under loadLock).
OneLoad ==
  \A g \in Goroutines : \A i \in FramesOf(g, "load") :
    /\ records[stack[g][i].m] # "full"
    /\ \A h \in Goroutines : \A j \in FramesOf(h, "load") :
         Path[stack[g][i].m] = Path[stack[h][j].m] => g = h /\ i = j

\* A published module is whole: all its imports were published before it, so that an
\* import cycle or a failed import never leaves a module that looks loaded.
PublishedWhole ==
  \A m \in Modules :
    records[m] = "full" =>
      m \notin failing /\ \A i \in DOMAIN imports[m] : records[imports[m][i]] # None

\* The load state belongs to the loads in progress: they are all in the goroutine that
\* owns loadLock, and modulePaths and the cycle set list exactly their files, innermost
\* first, whether loads before have ended well or not.
FromTop(g, i) == Cardinality({j \in FramesOf(g, "load") : j >= i})
LoadStateClean ==
  /\ lock.owner = None => loading = {} /\ paths = <<>> /\ lock.count = 0
  /\ \A g \in Goroutines :
       IF lock.owner = g
       THEN /\ lock.count = Len(paths) /\ Len(paths) = Cardinality(FramesOf(g, "load"))
            /\ \A i \in FramesOf(g, "load") : paths[FromTop(g, i)] = Path[stack[g][i].m]
            /\ loading = ToSet(paths)
       ELSE FramesOf(g, "load") = {}

\* A worker VM serves one chain of calls at a time: one frame owns it, those that borrow
\* it are further in on the same goroutine, and an idle worker is in its pool once, in
\* use by nobody and captured by no closure that was handed out.
WorkerExclusive ==
  LET f(g, i) == stack[g][i]
  IN  /\ \A g, h \in Goroutines : \A i \in FramesOf(g, "call"), j \in FramesOf(h, "call") :
           f(g, i).vm = f(h, j).vm => g = h /\ (f(g, i).own /\ f(h, j).own => i = j)
      /\ \A g \in Goroutines : \A i \in FramesOf(g, "call") :
           \E k \in FramesOf(g, "call") : k <= i /\ f(g, k).vm = f(g, i).vm /\ f(g, k).own
      /\ \A m \in Modules : \A i, j \in DOMAIN pools[m] :
           LET v == pools[m][i]
           IN  /\ ~vms[v].escaped /\ vms[v].dirty = {}
               /\ \A g \in Goroutines : \A k \in FramesOf(g, "call") : f(g, k).vm # v
               /\ pools[m][j] = v => i = j

\* The globals that the function in frame f sees.
View(f) == IF f.callVM.on THEN f.callVM.globals ELSE vms[f.vm].globals
Sees(g, m, s) == In(g, "call") /\ Top(g).m = m => View(Top(g))[s] = live[m][s]
Commits(g, m, s) == CallsInto(g, m) = {} => globals[m][s] = live[m][s]

Kept(g, m, s) == Sees(g, m, s) /\ Commits(g, m, s)

\* A module's globals are persistent state: a call commits those it has reassigned when it
\* returns, a call that throws as well, and a re-entrant call sees the outer call's pending
\* assignments.  This is of a global that one goroutine alone assigns.
WritesKept ==
  \A m \in Modules, s \in Slots, g \in Goroutines : writers[m][s] = {g} => Kept(g, m, s)


\* Every import and every call ends: the load lock is never left behind.
LoadsEnd == \A g \in Goroutines : stack[g] # <<>> ~> stack[g] = <<>>
=============================================================================
