------------------------------ MODULE PeerConn ------------------------------
(***************************************************************************)
(* A peer (communication/p2p/peer.go): the protocols that both sides       *)
(* match and the message codes they get, and the goroutines of one peer:   *)
(* run, readLoop, pingLoop and a handler per protocol, with the token that *)
(* lets one write start at a time, until all of them have ended.           *)
(*                                                                         *)
(* A protocol is [name, version, length]; the other side is this program   *)
(* with other protocols. A handler reads, writes or returns; handlers that *)
(* see an error of ReadMsg or WriteMsg return.                             *)
(***************************************************************************)
EXTENDS Integers, Sequences, SequencesExt, FiniteSets

CONSTANTS
    Protocols,          \* names are numbers
    BaseLength          \* baseProtocolLength

VARIABLES
    ours, theirs,       \* the protocols of the two sides
    run,                \* "loop", "closed", "waits", "returned"
    token,              \* writeStart holds a token
    writeErr, readErr,  \* the buffered channels: sequences of outcomes
    protoErr,           \* the number of errors in the channel
    proto,              \* [protocol -> where its handler is]
    read,               \* readLoop: where it is, and the message it hands over
    ping,               \* pingLoop: "wait", "err", "done"
    disc                \* a caller of Disconnect: "idle", "wait", "back"

chans == <<token, writeErr, readErr, protoErr>>
vars == <<ours, theirs, run, chans, proto, read, ping, disc>>

-----------------------------------------------------------------------------
(* Matching protocols *)

Before(a, b) == a.name < b.name \/ (a.name = b.name /\ a.version < b.version)

\* the table has one entry per name; it gives way to a later version
Assign(r, p) ==
    LET old == {e \in r.table : e.proto.name = p.name}
        off == r.offset - (IF old = {} THEN 0 ELSE (CHOOSE e \in old : TRUE).proto.length)
    IN  [offset |-> off + p.length, table |-> (r.table \ old) \cup {[proto |-> p, offset |-> off]}]

\* a match by name alone
matchProtocolsByName(protocols, caps) ==
    FoldLeft(LAMBDA r, cap : LET same == {p \in protocols : p.name = cap.name}
                             IN  IF same = {} THEN r ELSE Assign(r, CHOOSE p \in same : TRUE),
             [offset |-> BaseLength, table |-> {}], SetToSortSeq(caps, Before)).table
matchProtocols(protocols, caps) ==
    FoldLeft(LAMBDA r, cap : IF cap \in protocols THEN Assign(r, cap) ELSE r,
             [offset |-> BaseLength, table |-> {}], SetToSortSeq(caps, Before)).table

Table == matchProtocols(ours, theirs)
Running == {e.proto : e \in Table}

\* getProto: the protocol a code belongs to
getProto(code) == {e.proto : e \in {x \in Table : code >= x.offset /\ code < x.offset + x.proto.length}}

-----------------------------------------------------------------------------
(* The goroutines *)

ProtoErrCapSmall == Cardinality(Running)
\* the room of the channel: protocols + pingLoop
ProtoErrCap == Cardinality(Running) + 1

Reader(pc) == [pc |-> pc, from |-> {}, to |-> {}]

Init ==
    /\ ours \in SUBSET Protocols /\ theirs \in SUBSET Protocols /\ ours \cap theirs # {}
    /\ run = "loop" /\ token = TRUE /\ writeErr = <<>> /\ readErr = <<>> /\ protoErr = 0
    /\ proto = [p \in Protocols |-> IF p \in Running THEN "run" ELSE "done"]
    /\ read = Reader("read") /\ ping = "wait" /\ disc = "idle"

Closed == run # "loop"

\* run: one of the channels has something
Loop ==
    /\ run = "loop"
    /\ \/ /\ writeErr # <<>> /\ writeErr' = Tail(writeErr)
          /\ IF writeErr[1] = "ok" THEN token' = TRUE /\ UNCHANGED run ELSE run' = "closed" /\ UNCHANGED token
          /\ UNCHANGED <<readErr, protoErr, disc>>
       \/ readErr # <<>> /\ readErr' = Tail(readErr) /\ run' = "closed" /\ UNCHANGED <<token, writeErr, protoErr, disc>>
       \/ protoErr > 0 /\ protoErr' = protoErr - 1 /\ run' = "closed" /\ UNCHANGED <<token, writeErr, readErr, disc>>
       \/ disc = "wait" /\ disc' = "back" /\ run' = "closed" /\ UNCHANGED chans
    /\ UNCHANGED <<ours, theirs, proto, read, ping>>

\* the connection is closed; then run waits for the goroutines
CloseConn ==
    /\ run = "closed" /\ run' = "waits"
    /\ UNCHANGED <<ours, theirs, chans, proto, read, ping, disc>>
Return ==
    /\ run = "waits" /\ read.pc = "done" /\ ping = "done" /\ \A p \in Running : proto[p] = "done"
    /\ run' = "returned"
    /\ UNCHANGED <<ours, theirs, chans, proto, read, ping, disc>>

Disconnect ==
    /\ \/ disc = "idle" /\ disc' = "wait"
       \/ disc = "wait" /\ Closed /\ disc' = "back"
    /\ UNCHANGED <<ours, theirs, run, chans, proto, read, ping>>

\* readLoop gets a message that the other side wrote in one of its protocols, or a disconnect or
\* an error (a ping, and the rest of the base protocol, change nothing)
ReadMsg ==
    /\ read.pc = "read"
    /\ \/ /\ run \in {"loop", "closed"}
          /\ \E e \in matchProtocols(theirs, ours) : \E k \in 0..(e.proto.length - 1) :
                LET to == getProto(e.offset + k)
                IN  read' = IF to = {} THEN Reader("err") ELSE [pc |-> "hand", from |-> {e.proto}, to |-> to]
       \/ read' = Reader("err")
    /\ UNCHANGED <<ours, theirs, run, chans, proto, ping, disc>>

\* the handler takes the message, or the peer is closed
HandOver ==
    /\ read.pc = "hand"
    /\ \/ \E p \in read.to : /\ proto[p] = "read" /\ read' = Reader("read")
                             /\ proto' = [proto EXCEPT ![p] = "run"]
       \/ Closed /\ read' = Reader("err") /\ UNCHANGED proto
    /\ UNCHANGED <<ours, theirs, run, chans, ping, disc>>

ReadFails ==
    /\ read.pc = "err" /\ readErr = <<>> /\ readErr' = <<"err">> /\ read' = Reader("done")
    /\ UNCHANGED <<ours, theirs, run, token, writeErr, protoErr, proto, ping, disc>>

\* a ping cannot be sent, or the peer is closed
Ping ==
    /\ \/ ping = "wait" /\ ping' = "err" /\ UNCHANGED protoErr
       \/ ping = "wait" /\ Closed /\ ping' = "done" /\ UNCHANGED protoErr
       \/ ping = "err" /\ protoErr < ProtoErrCap /\ protoErr' = protoErr + 1 /\ ping' = "done"
    /\ UNCHANGED <<ours, theirs, run, token, writeErr, readErr, proto, read, disc>>

Becomes(p, pc) == proto' = [proto EXCEPT ![p] = pc]

\* a handler at work calls ReadMsg or WriteMsg, or returns
Works(p) ==
    /\ proto[p] = "run" /\ \E pc \in {"read", "write", "err"} : Becomes(p, pc)
    /\ UNCHANGED <<ours, theirs, run, chans, read, ping, disc>>

\* a write takes the token and reports its outcome
StartWrite(p) ==
    /\ proto[p] = "write" /\ token /\ token' = FALSE /\ Becomes(p, "writing")
    /\ UNCHANGED <<ours, theirs, run, writeErr, readErr, protoErr, read, ping, disc>>
EndWrite(p) ==
    /\ proto[p] = "writing" /\ writeErr = <<>>
    /\ \/ writeErr' = <<"ok">> /\ Becomes(p, "run")
       \/ writeErr' = <<"err">> /\ Becomes(p, "err")
    /\ UNCHANGED <<ours, theirs, run, token, readErr, protoErr, read, ping, disc>>

ShutDown(p) ==
    /\ proto[p] \in {"read", "write"} /\ Closed /\ Becomes(p, "err")
    /\ UNCHANGED <<ours, theirs, run, chans, read, ping, disc>>

RunEnds(p) ==
    /\ proto[p] = "err" /\ protoErr < ProtoErrCap /\ protoErr' = protoErr + 1 /\ Becomes(p, "done")
    /\ UNCHANGED <<ours, theirs, run, token, writeErr, readErr, read, ping, disc>>

Handler(p) == p \in Running /\ (Works(p) \/ StartWrite(p) \/ EndWrite(p) \/ ShutDown(p) \/ RunEnds(p))
Next == Loop \/ CloseConn \/ Return \/ Disconnect \/ ReadMsg \/ HandOver \/ ReadFails \/ Ping \/ \E p \in Protocols : Handler(p)
Spec == Init /\ [][Next]_vars

\* what ends by itself once the peer is closed: reading a closed connection fails
Reading == HandOver \/ ReadFails \/ (run = "waits" /\ ReadMsg)
FairSpec ==
    /\ Spec /\ WF_vars(Loop) /\ WF_vars(CloseConn \/ Return) /\ WF_vars(Reading) /\ WF_vars(Closed /\ Ping)
    /\ \A p \in Protocols : WF_vars(Handler(p))

-----------------------------------------------------------------------------
(* Properties *)

\* The shape of the goroutines and the channels of a peer.
TypeOK ==
    /\ ours \subseteq Protocols /\ theirs \subseteq Protocols
    /\ run \in {"loop", "closed", "waits", "returned"} /\ token \in BOOLEAN
    /\ ToSet(writeErr) \subseteq {"ok", "err"} /\ ToSet(readErr) \subseteq {"err"}
    /\ protoErr \in 0..ProtoErrCap
    /\ proto \in [Protocols -> {"run", "read", "write", "writing", "err", "done"}]
    /\ read.pc \in {"read", "hand", "err", "done"} /\ read.from \cup read.to \subseteq Protocols
    /\ ping \in {"wait", "err", "done"} /\ disc \in {"idle", "wait", "back"}

\* A message reaches the protocol, of the version, that the other side wrote it for: the two
\* sides number their codes alike although each matches the other's list against its own.
RightProtocol == read.pc = "hand" => read.from = read.to

\* One write at a time, and its outcome finds room: the token is in one place at most.
OneWriter ==
    (IF token THEN 1 ELSE 0) + Cardinality({p \in Protocols : proto[p] = "writing"}) + Len(writeErr) <= 1

\* An error always finds room in the channels, so that no goroutine outlives its peer.
ErrorsFit == /\ (\E p \in Running : proto[p] = "err") \/ ping = "err" => protoErr < ProtoErrCap
             /\ read.pc = "err" => readErr = <<>>

PeerSound == RightProtocol /\ OneWriter /\ ErrorsFit

\* A peer that is closed ends, with all its goroutines.
Ending == run = "closed"
Ended == run = "returned"
RunReturns == Ending ~> Ended
=============================================================================
