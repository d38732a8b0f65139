------------------------------ MODULE Channel -------------------------------
(***************************************************************************)
(* async.channel (internal/native/async_channel.go, stdlib/async/          *)
(* channel.gb) and the select statement over channels.                     *)
(*                                                                         *)
(* A ChannelHandle wraps a Go channel with a closed flag and closeMu, a    *)
(* sync.RWMutex: send and trySend hold the read lock, close the write      *)
(* lock, so that close never meets a sender inside the Go channel.         *)
(* A select statement goes to the Go channels without the lock.            *)
(*                                                                         *)
(* at[p] is where goroutine p is in its operation op[p]:                   *)
(*    "rlock"   send, trySend: in front of closeMu.RLock                   *)
(*    "chan"    in front of the operation on the Go channel                *)
(*    "parked"  blocked inside the Go channel                              *)
(*    "lock"    close: in front of closeMu.Lock                            *)
(*    "drain"   close: pending writer, waits for the readers to leave      *)
(***************************************************************************)
EXTENDS Naturals, Sequences

CONSTANTS Chans,     \* channel handles
          Procs,     \* goroutines
          Vals,      \* values a script sends
          Cap,       \* Cap[c]: buffer size of c
          Null,      \* the null that recv returns on a closed, drained channel
          NoProc,    \* no writer is pending
          NoChan,    \* an outcome that is not about one channel
          Scripts    \* the programs: Scripts[i][p] is the sequence of operations
                     \* goroutine p performs

\* The operations of a program: a name, the channels it sends to (or closes) and
\* receives from, and a value.  A select may name any channels, also none.
One == {{c} : c \in Chans}
Ops ==
  [name : {"send", "trySend"}, to : One, from : {{}}, val : Vals]
  \cup [name : {"recv", "tryRecv"}, to : {{}}, from : One, val : {Null}]
  \cup [name : {"close"}, to : One, from : {{}}, val : {Null}]
  \cup [name : {"select", "selectDefault"}, to : SUBSET Chans, from : SUBSET Chans, val : Vals]

ASSUME ChannelAssumption ==
  /\ Cap \in [Chans -> Nat]
  /\ Null \notin Vals
  /\ NoProc \notin Procs
  /\ NoChan \notin Chans
  /\ \A s \in Scripts : s \in [Procs -> Seq(Ops)]

VARIABLES
  buf,      \* buf[c]: buffered values
  closed,   \* closed[c]: the handle's flag, set together with the close of the Go channel
  readers,  \* readers[c]: goroutines that hold closeMu's read lock
  writer,   \* writer[c]: the pending writer of closeMu, or NoProc
  sendq,    \* sendq[c]: goroutines parked in a send on c, in order of arrival
  recvq,    \* recvq[c]: goroutines parked in a receive from c
  at, op,   \* at[p], op[p]: the operation goroutine p is in
  ret,      \* ret[p]: the outcome of p's last operation
  sent,     \* sent[c]: history of the values whose send succeeded
  rcvd,     \* rcvd[c]: history of the values received
  todo      \* todo[p]: the operations p has still to perform

vars == <<buf, closed, readers, writer, sendq, recvq, at, op, ret, sent, rcvd, todo>>

Op(name, to, from, v) == [name |-> name, to |-> to, from |-> from, val |-> v]

NoOp == Op("none", {}, {}, Null)

\* What an operation reports, and of which channel.
Out(tag, c) == [tag |-> tag, ch |-> c]

Init ==
  /\ buf = [c \in Chans |-> <<>>]
  /\ closed = [c \in Chans |-> FALSE]
  /\ readers = [c \in Chans |-> {}]
  /\ writer = [c \in Chans |-> NoProc]
  /\ sendq = [c \in Chans |-> <<>>]
  /\ recvq = [c \in Chans |-> <<>>]
  /\ at = [p \in Procs |-> "idle"]
  /\ op = [p \in Procs |-> NoOp]
  /\ ret = [p \in Procs |-> Out("none", NoChan)]
  /\ sent = [c \in Chans |-> <<>>]
  /\ rcvd = [c \in Chans |-> <<>>]
  /\ todo \in Scripts

Start(p) ==
  LET o == Head(todo[p]) IN
  /\ at[p] = "idle"
  /\ todo[p] # <<>>
  /\ todo' = [todo EXCEPT ![p] = Tail(@)]
  /\ op' = [op EXCEPT ![p] = o]
  /\ at' = [at EXCEPT ![p] = CASE o.name \in {"send", "trySend"} -> "rlock"
                               [] o.name = "close" -> "lock"
                               [] OTHER -> "chan"]
  /\ UNCHANGED <<buf, closed, readers, writer, sendq, recvq, ret, sent, rcvd>>

\* The outcomes of one goroutine, and of two.
Outcome(p, o) == [x \in {p} |-> o]
Outcomes(p, o, q, oq) == [x \in {p, q} |-> IF x = p THEN o ELSE oq]

\* The queue q without the goroutines gone.
Leave(q, gone) ==
  LET F[i \in 0..Len(q)] ==
        IF i = 0 THEN <<>> ELSE IF q[i] \in gone THEN F[i - 1] ELSE Append(F[i - 1], q[i])
  IN  F[Len(q)]

\* Mutant: the goroutines return but a deferred RUnlock is missing.
ReturnHoldingLock(f) ==
  /\ at' = [p \in Procs |-> IF p \in DOMAIN f THEN "idle" ELSE at[p]]
  /\ op' = [p \in Procs |-> IF p \in DOMAIN f THEN NoOp ELSE op[p]]
  /\ ret' = [p \in Procs |-> IF p \in DOMAIN f THEN f[p] ELSE ret[p]]
  /\ sendq' = [c \in Chans |-> Leave(sendq[c], DOMAIN f)]
  /\ recvq' = [c \in Chans |-> Leave(recvq[c], DOMAIN f)]
  /\ UNCHANGED <<readers, todo>>

\* The goroutines in the domain of f return with the outcomes f gives them:
\* they leave every queue they are parked on and release closeMu's read lock.
Return(f) ==
  /\ at' = [p \in Procs |-> IF p \in DOMAIN f THEN "idle" ELSE at[p]]
  /\ op' = [p \in Procs |-> IF p \in DOMAIN f THEN NoOp ELSE op[p]]
  /\ ret' = [p \in Procs |-> IF p \in DOMAIN f THEN f[p] ELSE ret[p]]
  /\ sendq' = [c \in Chans |-> Leave(sendq[c], DOMAIN f)]
  /\ recvq' = [c \in Chans |-> Leave(recvq[c], DOMAIN f)]
  /\ readers' = [c \in Chans |-> readers[c] \ DOMAIN f]
  /\ UNCHANGED todo

-----------------------------------------------------------------------------
(* The Go channel, as the code in src/ uses it.                             *)

CanSend(c) == closed[c] \/ recvq[c] # <<>> \/ Len(buf[c]) < Cap[c]

CanRecv(c) == closed[c] \/ sendq[c] # <<>> \/ buf[c] # <<>>

\* A send that does not block: to a waiting receiver, else to the buffer.
GoSend(p, c) ==
  LET v == op[p].val
      q == Head(recvq[c]) IN
  /\ ~closed[c]
  /\ CanSend(c)
  /\ sent' = [sent EXCEPT ![c] = Append(@, v)]
  /\ \/ /\ recvq[c] # <<>>
        /\ Return(Outcomes(p, Out("sent", c), q, Out("got", c)))
        /\ rcvd' = [rcvd EXCEPT ![c] = Append(@, v)]
        /\ UNCHANGED buf
     \/ /\ recvq[c] = <<>>
        /\ Return(Outcome(p, Out("sent", c)))
        /\ buf' = [buf EXCEPT ![c] = Append(@, v)]
        /\ UNCHANGED rcvd
  /\ UNCHANGED <<closed, writer>>

\* A receive that does not block: from the buffer or the first parked sender
\* (whose value takes the place freed in the buffer), or null at the end.
GoRecv(p, c) ==
  LET q == Head(sendq[c])
      line == IF sendq[c] = <<>> THEN buf[c] ELSE Append(buf[c], op[q].val) IN
  /\ CanRecv(c)
  /\ \/ /\ line = <<>>
        /\ Return(Outcome(p, Out("end", c)))
        /\ UNCHANGED <<buf, sent, rcvd>>
     \/ /\ line # <<>>
        /\ buf' = [buf EXCEPT ![c] = Tail(line)]
        /\ rcvd' = [rcvd EXCEPT ![c] = Append(@, Head(line))]
        /\ IF sendq[c] = <<>>
           THEN Return(Outcome(p, Out("got", c))) /\ UNCHANGED sent
           ELSE /\ Return(Outcomes(p, Out("got", c), q, Out("sent", c)))
                /\ sent' = [sent EXCEPT ![c] = Append(@, op[q].val)]
  /\ UNCHANGED <<closed, writer>>

NoneReady(p) ==
  /\ \A c \in op[p].to : ~CanSend(c)
  /\ \A c \in op[p].from : ~CanRecv(c)

Park(p) ==
  /\ NoneReady(p)
  /\ at' = [at EXCEPT ![p] = "parked"]
  /\ sendq' = [c \in Chans |-> IF c \in op[p].to THEN Append(sendq[c], p) ELSE sendq[c]]
  /\ recvq' = [c \in Chans |-> IF c \in op[p].from THEN Append(recvq[c], p) ELSE recvq[c]]
  /\ UNCHANGED <<buf, closed, readers, writer, op, ret, sent, rcvd, todo>>

Fail(p, c, why) ==
  /\ Return(Outcome(p, Out(why, c)))
  /\ UNCHANGED <<buf, closed, writer, sent, rcvd>>

-----------------------------------------------------------------------------
\* sendChannel takes the read lock and looks at the closed flag.
SendRLock(p) ==
  /\ at[p] = "rlock" /\ op[p].name = "send"
  /\ \E c \in op[p].to :
       /\ writer[c] = NoProc
       /\ \/ /\ closed[c]
             /\ Fail(p, c, "closedErr")
          \/ /\ ~closed[c]
             /\ readers' = [readers EXCEPT ![c] = @ \cup {p}]
             /\ at' = [at EXCEPT ![p] = "chan"]
             /\ UNCHANGED <<buf, closed, writer, sendq, recvq, op, ret, sent, rcvd, todo>>

\* sendChannel on the Go channel.  A closed channel here would panic.
SendChannel(p) ==
  /\ at[p] = "chan" /\ op[p].name = "send"
  /\ \E c \in op[p].to :
       \/ closed[c] /\ Fail(p, c, "panic")
       \/ GoSend(p, c)
       \/ Park(p)

\* trySendChannel: the lock is held for one non-blocking attempt.
TrySendChannel(p) ==
  /\ at[p] = "rlock" /\ op[p].name = "trySend"
  /\ \E c \in op[p].to :
       /\ writer[c] = NoProc
       /\ \/ closed[c] /\ Fail(p, c, "closedErr")
          \/ ~closed[c] /\ GoSend(p, c)
          \/ ~closed[c] /\ ~CanSend(c) /\ Fail(p, c, "full")

\* Mutant: recv gives up with null when nothing is there yet.
RecvChannelImpatient(p) ==
  /\ at[p] = "chan" /\ op[p].name = "recv"
  /\ \E c \in op[p].from : GoRecv(p, c) \/ (NoneReady(p) /\ Fail(p, c, "end"))

\* recvChannel; the iterator of a for-in loop ends its loop when this is null.
RecvChannel(p) ==
  /\ at[p] = "chan" /\ op[p].name = "recv"
  /\ \E c \in op[p].from : GoRecv(p, c) \/ Park(p)

TryRecvChannel(p) ==
  /\ at[p] = "chan" /\ op[p].name = "tryRecv"
  /\ \E c \in op[p].from : GoRecv(p, c) \/ (NoneReady(p) /\ Fail(p, c, "empty"))

\* closeChannel: Lock announces the writer, which keeps new readers out.
CloseLock(p) ==
  /\ at[p] = "lock"
  /\ \E c \in op[p].to :
       /\ writer[c] = NoProc
       /\ writer' = [writer EXCEPT ![c] = p]
  /\ at' = [at EXCEPT ![p] = "drain"]
  /\ UNCHANGED <<buf, closed, readers, sendq, recvq, op, ret, sent, rcvd, todo>>

\* Mutant: the closed flag is set and the Go channel is left open.
WokenNobody(p, c) == Outcome(p, Out("closed", c))

\* Closing the Go channel: receivers parked on it get null; a sender parked on it
\* panics, which SelectChannels recovers as an error.
Woken(p, c) ==
  LET rs == {q \in Procs : \E i \in DOMAIN recvq[c] : recvq[c][i] = q}
      ss == {q \in Procs : \E i \in DOMAIN sendq[c] : sendq[c][i] = q}
      lost(q) == Out(IF op[q].name = "send" THEN "panic" ELSE "closedErr", c) IN
  [q \in {p} \cup rs \cup ss |->
    IF q = p THEN Out("closed", c) ELSE IF q \in rs THEN Out("end", c) ELSE lost(q)]

\* Mutant: close does not wait for the senders that hold the read lock.
CloseChannelUnlocked(p) ==
  /\ at[p] = "drain"
  /\ \E c \in op[p].to :
       /\ writer' = [writer EXCEPT ![c] = NoProc]
       /\ \/ /\ closed[c]
             /\ Return(Outcome(p, Out("closedErr", c)))
             /\ UNCHANGED closed
          \/ /\ ~closed[c]
             /\ Return(Woken(p, c))
             /\ closed' = [closed EXCEPT ![c] = TRUE]
  /\ UNCHANGED <<buf, sent, rcvd>>

\* closeChannel with the write lock: compare-and-swap the flag, close, Unlock.
CloseChannel(p) ==
  /\ at[p] = "drain"
  /\ \E c \in op[p].to :
       /\ readers[c] = {}
       /\ writer' = [writer EXCEPT ![c] = NoProc]
       /\ \/ /\ closed[c]
             /\ Return(Outcome(p, Out("closedErr", c)))
             /\ UNCHANGED closed
          \/ /\ ~closed[c]
             /\ Return(Woken(p, c))
             /\ closed' = [closed EXCEPT ![c] = TRUE]
  /\ UNCHANGED <<buf, sent, rcvd>>

\* SelectChannels: any ready case; the panic of a send case on a closed channel
\* is recovered; otherwise the default case, or parking on every case.
SelectChannels(p) ==
  /\ at[p] = "chan" /\ op[p].name \in {"select", "selectDefault"}
  /\ \/ \E c \in op[p].to : GoSend(p, c) \/ (closed[c] /\ Fail(p, c, "closedErr"))
     \/ \E c \in op[p].from : GoRecv(p, c)
     \/ op[p].name = "select" /\ Park(p)
     \/ op[p].name = "selectDefault" /\ NoneReady(p) /\ Fail(p, NoChan, "default")

System(p) ==
  \/ SendRLock(p)
  \/ SendChannel(p)
  \/ TrySendChannel(p)
  \/ RecvChannel(p)
  \/ TryRecvChannel(p)
  \/ CloseLock(p)
  \/ CloseChannel(p)
  \/ SelectChannels(p)

Next == \E p \in Procs : System(p) \/ Start(p)

Spec == Init /\ [][Next]_vars

\* A goroutine that can go on does; no goroutine has to start an operation.
FairSpec == Spec /\ \A p \in Procs : WF_vars(System(p))

-----------------------------------------------------------------------------
\* Types of the handles' state and of the operations in flight.
TypeOK ==
  /\ buf \in [Chans -> Seq(Vals)]
  /\ \A c \in Chans : Len(buf[c]) <= Cap[c]
  /\ closed \in [Chans -> BOOLEAN]
  /\ \A c \in Chans : readers[c] \subseteq {p \in Procs : op[p].name = "send"}
  /\ writer \in [Chans -> Procs \cup {NoProc}]
  /\ sendq \in [Chans -> Seq(Procs)] /\ recvq \in [Chans -> Seq(Procs)]
  /\ at \in [Procs -> {"idle", "rlock", "chan", "parked", "lock", "drain"}]
  /\ \A p \in Procs : (at[p] = "idle") <=> (op[p] = NoOp)

\* send and trySend never run into the Go panic of a send on a closed channel:
\* closeMu keeps close out while a sender is inside the channel, parked or not.
NoSendPanic ==
  \A p \in Procs :
    /\ ret[p].tag # "panic"
    /\ op[p].name = "send" /\ at[p] \in {"chan", "parked"} =>
         \A c \in op[p].to : ~closed[c]

\* A recv that returns null says the truth: the channel is closed and every value
\* whose send was reported as done has been received.  A for-in loop over the
\* channel, which ends on that null, therefore sees every value.
EndIsFinal ==
  \A p \in Procs :
    ret[p].tag = "end" => closed[ret[p].ch] /\ sent[ret[p].ch] = rcvd[ret[p].ch]

\* After close nobody stays blocked in the channel, in recv or in a select.
CloseWakesAll ==
  \A c \in Chans : closed[c] => sendq[c] = <<>> /\ recvq[c] = <<>>

\* tryRecv and a select with a default case return whatever the others do; close and
\* trySend return unless a sender is blocked in the channel, its read lock held, and only a
\* close that waits for that sender can keep a trySend out.
Held(c) == \E q \in readers[c] : at[q] = "parked"
OnlySendersBlock ==
  \A p \in Procs :
    /\ (op[p].name \in {"tryRecv", "selectDefault"}) ~> (at[p] = "idle")
    /\ \A c \in Chans :
         /\ (op[p].name = "close" /\ c \in op[p].to) ~> (at[p] = "idle" \/ Held(c))
         /\ (op[p].name = "trySend" /\ c \in op[p].to)
              ~> (at[p] = "idle" \/ (Held(c) /\ writer[c] # NoProc))
=============================================================================
