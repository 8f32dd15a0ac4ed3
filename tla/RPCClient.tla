----------------------------- MODULE RPCClient -----------------------------
(***************************************************************************)
(* The client of an RPC connection (communication/rpc/client.go): calls    *)
(* and subscriptions in goroutines of their own, the dispatch loop that    *)
(* owns the connection, a goroutine that reads it, and a goroutine per     *)
(* subscription that forwards notifications.                               *)
(*                                                                         *)
(* An operation is the set of its message ids, which are positive numbers; *)
(* a batch has several. Subscribing is an operation, and the call that     *)
(* ends the subscription at the server another. Messages that are read     *)
(* come to dispatch one at a time.                                         *)
(***************************************************************************)
EXTENDS Integers, Sequences, FiniteSets

CONSTANTS
    Calls,      \* calls and batches, each the set of its ids
    Subs,       \* calls of Subscribe, each the set of its id
    Impatient,  \* the operations whose context may end
    MaxConns,   \* connections made
    MaxFaults,  \* writes that fail, connections that break
    MaxNotes,   \* notifications the server sends
    BufferLimit \* maxClientSubscriptionBuffer

Ending(s) == {-id : id \in s}
Ops == Calls \cup Subs \cup {Ending(s) : s \in Subs}
AllIds == UNION Ops
OpOf(id) == CHOOSE op \in Ops : id \in op
Nobody == {}

VARIABLES
    opPc,       \* where the goroutine of the operation is
    resp,       \* op.resp: the ids answered and not taken yet, or Closed
    opErr,      \* op.err is set, or the answer was an error
    taken,      \* the ids whose answers the caller has taken
    pc,         \* of dispatch
    target,     \* the subscription dispatch delivers to
    conn,       \* dispatch's connection
    reading,    \* dispatch's flag
    lock,       \* requestOpLock is nil: an operation is being sent
    lastOp,     \* the operation sent
    sendDone,   \* the channel: "", "nil" or "err"
    respWait,   \* the ids waited for
    subs,       \* the subscriptions dispatch delivers to
    left,       \* the subscriptions closeRequestOps has still to quit
    writeConn,  \* the connection to write to; 0 is nil
    conns,      \* the connections made so far
    broken,     \* the connections that are down
    reader,     \* the reader: where it is, its connection and its message
    wire,       \* requests that came to the server, with their connection
    sub,        \* a subscription: quit closed, its Once, its forwarder and what it buffers
    closer,     \* the call of Close
    faults,
    notes

opVars == <<opPc, resp, opErr, taken>>
loopVars == <<pc, target, conn, reading, lock, lastOp, respWait, subs, left>>
connVars == <<writeConn, conns, broken, wire>>
vars == <<opVars, loopVars, sendDone, connVars, reader, sub, closer, faults, notes>>

Closed == {0}
NoMsg == [to |-> "none", id |-> 0]

Init ==
    /\ opPc = [op \in Ops |-> "idle"] /\ resp = [op \in Ops |-> {}]
    /\ opErr = [op \in Ops |-> FALSE] /\ taken = [op \in Ops |-> {}]
    /\ pc = "select" /\ target = Nobody /\ conn = 1 /\ reading = TRUE /\ lock = FALSE /\ lastOp = Nobody
    /\ sendDone = "" /\ respWait = {} /\ subs = {} /\ left = {}
    /\ writeConn = 1 /\ conns = 1 /\ broken = {} /\ wire = {}
    /\ reader = [pc |-> "read", conn |-> 1, msg |-> NoMsg]
    /\ sub = [s \in Subs |-> [quit |-> FALSE, once |-> "free", fwd |-> "none", buf |-> 0]]
    /\ closer = "no" /\ faults = 0 /\ notes = 0

-----------------------------------------------------------------------------
(* A call: send, write, wait *)

Goto(op, p) == opPc' = [opPc EXCEPT ![op] = p]

\* CallContext, BatchCallContext, Subscribe
Call(op) ==
    /\ opPc[op] = "idle" /\ op \in Calls \cup Subs
    /\ Goto(op, "send")
    /\ UNCHANGED <<resp, opErr, taken, loopVars, sendDone, connVars, reader, sub, closer, faults, notes>>

\* send: dispatch takes the operation and lets no other be sent meanwhile
Accept(op) ==
    /\ opPc[op] = "send" /\ pc = "select" /\ ~lock
    /\ lock' = TRUE /\ lastOp' = op /\ respWait' = respWait \cup op
    /\ Goto(op, "write")
    /\ UNCHANGED <<resp, opErr, taken, pc, target, conn, reading, subs, left, sendDone, connVars, reader, sub, closer, faults, notes>>

\* the context is over or the client has quit
GiveUp(op) ==
    /\ \/ opPc[op] \in {"send", "wait"} /\ op \in Impatient
       \/ opPc[op] = "send" /\ pc = "done"
    /\ Goto(op, "failed")
    /\ UNCHANGED <<resp, opErr, taken, loopVars, sendDone, connVars, reader, sub, closer, faults, notes>>

\* write: without a connection a new one is made first
Connect(op) ==
    /\ opPc[op] = "write" /\ writeConn = 0 /\ conns < MaxConns
    /\ conns' = conns + 1
    /\ Goto(op, "reconnect")
    /\ UNCHANGED <<resp, opErr, taken, loopVars, sendDone, writeConn, broken, wire, reader, sub, closer, faults, notes>>

ConnectFails(op) ==
    /\ \/ opPc[op] = "write" /\ writeConn = 0
       \/ opPc[op] = "reconnect" /\ pc = "done"
    /\ Goto(op, "failed") /\ sendDone' = "err"
    /\ UNCHANGED <<resp, opErr, taken, loopVars, connVars, reader, sub, closer, faults, notes>>

\* case newconn := <-c.reconnected: the reader of the old connection must end first
Reconnected(op) ==
    /\ opPc[op] = "reconnect" /\ pc = "select"
    /\ writeConn' = conns /\ Goto(op, "write")
    /\ conn' = conns
    /\ IF reading
       THEN broken' = broken \cup {conn} /\ pc' = "drain" /\ UNCHANGED <<reader, reading>>
       ELSE reader' = [pc |-> "read", conn |-> conns, msg |-> NoMsg] /\ reading' = TRUE /\ UNCHANGED <<broken, pc>>
    /\ UNCHANGED <<resp, opErr, taken, target, lock, lastOp, respWait, subs, left, sendDone, conns, wire, sub, closer, faults, notes>>

\* what is written to a connection that is down, and not closed here, may be lost
Write(op) ==
    /\ opPc[op] = "write" /\ writeConn # 0
    /\ writeConn \in broken => reading
    /\ wire' = IF writeConn \in broken THEN wire ELSE wire \cup {<<writeConn, id>> : id \in op}
    /\ sendDone' = "nil" /\ Goto(op, "wait")
    /\ UNCHANGED <<resp, opErr, taken, loopVars, writeConn, conns, broken, reader, sub, closer, faults, notes>>

WriteFails(op) ==
    /\ opPc[op] = "write" /\ writeConn # 0
    /\ \/ writeConn \in broken /\ UNCHANGED faults
       \/ faults < MaxFaults /\ faults' = faults + 1
    /\ writeConn' = 0 /\ sendDone' = "err" /\ Goto(op, "failed")
    /\ UNCHANGED <<resp, opErr, taken, loopVars, conns, broken, wire, reader, sub, closer, notes>>

\* wait: an answer, or the end of all answers
Answered(op) ==
    /\ opPc[op] = "wait"
    /\ \/ \E id \in resp[op] :
            /\ resp[op] # Closed
            /\ resp' = [resp EXCEPT ![op] = @ \ {id}]
            /\ taken' = [taken EXCEPT ![op] = @ \cup {id}]
            /\ opPc' = IF taken'[op] = op THEN [opPc EXCEPT ![op] = "ok"] ELSE opPc
       \/ /\ resp[op] = Closed
          /\ Goto(op, IF opErr[op] THEN "failed" ELSE "ok")
          /\ UNCHANGED <<resp, taken>>
    /\ UNCHANGED <<opErr, loopVars, sendDone, connVars, reader, sub, closer, faults, notes>>

-----------------------------------------------------------------------------
(* dispatch *)

\* case err := <-c.sendDone
SendDone ==
    /\ pc = "select" /\ sendDone # ""
    /\ respWait' = IF sendDone = "err" THEN respWait \ lastOp ELSE respWait
    /\ lock' = FALSE /\ lastOp' = Nobody /\ sendDone' = ""
    /\ UNCHANGED <<opVars, pc, target, conn, reading, subs, left, connVars, reader, sub, closer, faults, notes>>

\* Mutant: who was told of the error is still waited for
CloseOpsKeeps(next) ==
    LET ops == {OpOf(id) : id \in respWait} IN
    /\ resp' = [op \in Ops |-> IF op \in ops THEN Closed ELSE resp[op]]
    /\ opErr' = [op \in Ops |-> opErr[op] \/ op \in ops]
    /\ left' = subs /\ subs' = {} /\ pc' = next
    /\ UNCHANGED <<opPc, taken, respWait>>

\* closeRequestOps: whoever waits is told, then the subscriptions are
CloseOps(next) ==
    LET ops == {OpOf(id) : id \in respWait} IN
    /\ resp' = [op \in Ops |-> IF op \in ops THEN Closed ELSE resp[op]]
    /\ opErr' = [op \in Ops |-> opErr[op] \/ op \in ops]
    /\ respWait' = {} /\ left' = subs /\ subs' = {} /\ pc' = next
    /\ UNCHANGED <<opPc, taken>>

\* quitWithError by dispatch, which waits while somebody else is in the Once
QuitSub(s) ==
    /\ pc \in {"failing", "quitting"} /\ s \in left /\ sub[s].once # "busy"
    /\ sub' = [sub EXCEPT ![s] = [@ EXCEPT !.quit = TRUE, !.once = "done"]]
    /\ left' = left \ {s}
    /\ UNCHANGED <<opVars, pc, target, conn, reading, lock, lastOp, respWait, subs, sendDone, connVars, reader, closer, faults, notes>>

\* case err := <-c.readErr
ReadErr ==
    /\ pc = "select" /\ reader.pc = "err"
    /\ reader' = [reader EXCEPT !.pc = "none"] /\ reading' = FALSE
    /\ CloseOps("failing")
    /\ UNCHANGED <<target, conn, lock, lastOp, sendDone, connVars, sub, closer, faults, notes>>

\* conn.Close, after the subscriptions have quit
ReadErrDone ==
    /\ pc = "failing" /\ left = {}
    /\ pc' = "select" /\ broken' = broken \cup {conn}
    /\ UNCHANGED <<opVars, target, conn, reading, lock, lastOp, respWait, subs, left, sendDone, writeConn, conns, wire, reader, sub, closer, faults, notes>>

\* after a reconnection: the error of the old reader, and nothing else
Drained ==
    /\ pc = "drain" /\ reader.pc = "err"
    /\ reader' = [pc |-> "read", conn |-> conn, msg |-> NoMsg] /\ reading' = TRUE /\ pc' = "select"
    /\ UNCHANGED <<opVars, target, conn, lock, lastOp, respWait, subs, left, sendDone, connVars, sub, closer, faults, notes>>

Take(m) == reader.pc = "resp" /\ reader.msg = m /\ reader' = [reader EXCEPT !.pc = "read", !.msg = NoMsg]

\* handleResponse
HandleResponse(id, failed) ==
    /\ pc = "select" /\ Take([to |-> IF failed THEN "failed" ELSE "answered", id |-> id])
    /\ LET op == OpOf(id) IN
       IF id \notin respWait THEN UNCHANGED <<resp, opErr, respWait, subs, sub>>
       ELSE /\ respWait' = respWait \ {id}
            /\ IF op \notin Subs
               THEN resp' = [resp EXCEPT ![op] = @ \cup {id}] /\ UNCHANGED <<opErr, subs, sub>>
               ELSE /\ resp' = [resp EXCEPT ![op] = Closed]
                    /\ opErr' = [opErr EXCEPT ![op] = failed]
                    /\ subs' = IF failed THEN subs ELSE subs \cup {op}
                    /\ sub' = IF failed THEN sub ELSE [sub EXCEPT ![op].fwd = "run"]
    /\ UNCHANGED <<opPc, taken, pc, target, conn, reading, lock, lastOp, left, sendDone, connVars, closer, faults, notes>>

\* handleNotification: deliver waits for the forwarder, or for quit
HandleNotification(s) ==
    /\ pc = "select" /\ \E id \in s : Take([to |-> "notified", id |-> id])
    /\ pc' = IF s \in subs THEN "deliver" ELSE pc
    /\ target' = s
    /\ UNCHANGED <<opVars, conn, reading, lock, lastOp, respWait, subs, left, sendDone, connVars, sub, closer, faults, notes>>

Deliver(s) ==
    /\ pc = "deliver" /\ target = s
    /\ \/ sub[s].quit /\ UNCHANGED sub
       \/ /\ sub[s].fwd = "run"
          /\ sub' = [sub EXCEPT ![s] = IF @.buf = BufferLimit THEN [@ EXCEPT !.fwd = "overflow"] ELSE [@ EXCEPT !.buf = @ + 1]]
    /\ pc' = "select"
    /\ UNCHANGED <<opVars, target, conn, reading, lock, lastOp, respWait, subs, left, sendDone, connVars, reader, closer, faults, notes>>

\* case <-c.close, and the deferred calls
CloseClient ==
    /\ pc = "select" /\ closer = "asked"
    /\ CloseOps("quitting") /\ closer' = "taken"
    /\ UNCHANGED <<target, conn, reading, lock, lastOp, sendDone, connVars, reader, sub, faults, notes>>

\* what is read is thrown away until the reader fails
Final ==
    /\ pc = "quitting" /\ left = {}
    /\ broken' = broken \cup {conn}
    /\ IF reading /\ reader.pc # "err"
       THEN /\ reader' = IF reader.pc = "resp" THEN [reader EXCEPT !.pc = "read", !.msg = NoMsg] ELSE reader
            /\ UNCHANGED pc
       ELSE pc' = "done" /\ reader' = [reader EXCEPT !.pc = "none"]
    /\ UNCHANGED <<opVars, target, conn, reading, lock, lastOp, respWait, subs, left, sendDone, writeConn, conns, wire, sub, closer, faults, notes>>

-----------------------------------------------------------------------------
(* The reader, the server and the network *)

Read(m) == reader' = [reader EXCEPT !.pc = "resp", !.msg = m]

\* an answer, or an error instead of a subscription
Reply(id) ==
    /\ reader.pc = "read" /\ reader.conn \notin broken /\ <<reader.conn, id>> \in wire
    /\ wire' = wire \ {<<reader.conn, id>>}
    /\ \/ Read([to |-> "answered", id |-> id])
       \/ OpOf(id) \in Subs /\ Read([to |-> "failed", id |-> id])
    /\ UNCHANGED <<opVars, loopVars, sendDone, writeConn, conns, broken, sub, closer, faults, notes>>

Notification(s) ==
    /\ reader.pc = "read" /\ reader.conn \notin broken /\ notes < MaxNotes /\ sub[s].fwd # "none"
    /\ \E id \in s : Read([to |-> "notified", id |-> id])
    /\ notes' = notes + 1
    /\ UNCHANGED <<opVars, loopVars, sendDone, connVars, sub, closer, faults>>

ReadFails ==
    /\ reader.pc = "read" /\ reader.conn \in broken
    /\ reader' = [reader EXCEPT !.pc = "err"]
    /\ UNCHANGED <<opVars, loopVars, sendDone, connVars, sub, closer, faults, notes>>

Break ==
    /\ faults < MaxFaults /\ conn \notin broken
    /\ faults' = faults + 1 /\ broken' = broken \cup {conn}
    /\ UNCHANGED <<opVars, loopVars, sendDone, writeConn, conns, wire, reader, sub, closer, notes>>

Close == closer = "no" /\ closer' = "asked"
         /\ UNCHANGED <<opVars, loopVars, sendDone, connVars, reader, sub, faults, notes>>

-----------------------------------------------------------------------------
(* A subscription *)

\* the receiver reads its channel
Forward(s) ==
    /\ sub[s].fwd = "run" /\ sub[s].buf > 0
    /\ sub' = [sub EXCEPT ![s].buf = @ - 1]
    /\ UNCHANGED <<opVars, loopVars, sendDone, connVars, reader, closer, faults, notes>>

\* forward sees quit; its quitWithError waits for whoever is in the Once
ForwardEnds(s) ==
    /\ sub[s].fwd = "run" /\ sub[s].quit /\ sub[s].once # "busy"
    /\ sub' = [sub EXCEPT ![s] = [@ EXCEPT !.fwd = "over", !.buf = 0, !.once = "done"]]
    /\ UNCHANGED <<opVars, loopVars, sendDone, connVars, reader, closer, faults, notes>>

\* quitWithError by Unsubscribe, or by forward when its buffer is full: quit is closed and the
\* server is told
Quit(s) ==
    /\ \/ opPc[s] = "ok"
       \/ sub[s].fwd = "overflow"
    /\ sub[s].once = "free"
    /\ sub' = [sub EXCEPT ![s] = [@ EXCEPT !.quit = TRUE, !.once = "busy"]]
    /\ Goto(Ending(s), "send")
    /\ UNCHANGED <<resp, opErr, taken, loopVars, sendDone, connVars, reader, closer, faults, notes>>

QuitDone(s) ==
    /\ sub[s].once = "busy" /\ opPc[Ending(s)] \in {"ok", "failed"}
    /\ sub' = [sub EXCEPT ![s].once = "done"]
    /\ UNCHANGED <<opVars, loopVars, sendDone, connVars, reader, closer, faults, notes>>

-----------------------------------------------------------------------------

Dispatch ==
    \/ SendDone \/ ReadErr \/ ReadErrDone \/ Drained \/ CloseClient \/ Final
    \/ \E id \in AllIds, failed \in BOOLEAN : HandleResponse(id, failed)
    \/ \E s \in Subs : QuitSub(s) \/ HandleNotification(s) \/ Deliver(s)

Sending(op) == Accept(op) \/ Connect(op) \/ ConnectFails(op) \/ Reconnected(op) \/ Write(op) \/ WriteFails(op)
Running(op) == Sending(op) \/ Answered(op) \/ (opPc[op] = "send" /\ GiveUp(op))
Subscription(s) == Forward(s) \/ ForwardEnds(s) \/ QuitDone(s)

Next ==
    \/ \E op \in Ops : Call(op) \/ Sending(op) \/ GiveUp(op) \/ Answered(op)
    \/ Dispatch
    \/ \E id \in AllIds : Reply(id)
    \/ \E s \in Subs : Notification(s) \/ Subscription(s) \/ Quit(s)
    \/ ReadFails \/ Break \/ Close

Spec == Init /\ [][Next]_vars

-----------------------------------------------------------------------------
(* Properties *)

Sent == {"write", "reconnect", "wait"}

(* No channel of an operation is closed twice or sent to after it was      *)
(* closed, and none has more answers than it has room for: whatever        *)
(* dispatch still waits for belongs to an operation that is open and has   *)
(* no such answer.                                                         *)
AnswersFit ==
    \A id \in respWait : LET op == OpOf(id) IN resp[op] # Closed /\ id \notin resp[op] \cup taken[op]

(* A call that waits is known to dispatch until it has its answer or is    *)
(* told of the error, however the connection breaks and comes back.        *)
WaitersKnown ==
    \A op \in Ops : opPc[op] \in Sent =>
        resp[op] = Closed \/ op \subseteq respWait \cup resp[op] \cup taken[op]

(* One operation writes at a time; who holds the lock releases it once.    *)
OneWriter ==
    /\ Cardinality({op \in Ops : opPc[op] \in {"write", "reconnect"}}) + (IF sendDone # "" THEN 1 ELSE 0)
         = (IF lock THEN 1 ELSE 0)
    /\ lock /\ sendDone = "" => opPc[lastOp] \in {"write", "reconnect"}

(* dispatch and its reader agree on the connection: it reads from the one  *)
(* it knows, and not at all when it believes so.                           *)
ReaderKnown ==
    /\ reading = (reader.pc # "none") \/ pc = "done"
    /\ reading /\ pc # "drain" => reader.conn = conn

ClientSound == AnswersFit /\ WaitersKnown /\ OneWriter /\ ReaderKnown
=============================================================================
