----------------------------- MODULE RPCServer -----------------------------
(***************************************************************************)
(* The server of the RPC package (communication/rpc/server.go) and its     *)
(* notifier (subscription.go): a loop per connection that reads requests,  *)
(* a goroutine per request that runs it and writes the answer, publishers  *)
(* that notify subscribers, and Stop.                                      *)
(*                                                                         *)
(* A request names its connection. A subscription is known by the request  *)
(* that made it; the publisher behind it is external.                      *)
(***************************************************************************)
EXTENDS Naturals, Sequences, SequencesExt

CONSTANTS
    Conns,
    Single,     \* connections that carry one request (HTTP)
    Requests,
    On,         \* the connection of a request
    Kind,       \* "call", "sub", or the subscription to end
    MaxNotes    \* notifications published for a subscription

AllSubs == {r \in Requests : Kind[r] = "sub"}

VARIABLES
    run,        \* Server.run
    stopper,    \* the call of Stop
    codecs,     \* Server.codecs
    closed,     \* codecs that are closed
    serve,      \* where the loop of a connection is
    current,    \* the request that the loop has read
    req,        \* where a request is
    answer,     \* the answer of a request
    inactive, active, ended,    \* the subscriptions of the notifiers; ended: Err is closed
    notes,      \* notifications published, by subscription
    out         \* what was written to a connection

vars == <<run, stopper, codecs, closed, serve, current, req, answer, inactive, active, ended, notes, out>>
notifier == <<inactive, active, ended, notes>>

Init ==
    /\ run = TRUE /\ stopper = "no" /\ codecs = {} /\ closed = {}
    /\ serve = [c \in Conns |-> "new"] /\ current = [c \in Conns |-> {}]
    /\ req = [r \in Requests |-> "idle"] /\ answer = [r \in Requests |-> "none"]
    /\ inactive = {} /\ active = {} /\ ended = {}
    /\ notes = [r \in AllSubs |-> 0] /\ out = [c \in Conns |-> <<>>]

\* codec.Write: a closed connection takes nothing
Written(c, m) == out' = IF c \in closed THEN out ELSE [out EXCEPT ![c] = Append(@, m)]

-----------------------------------------------------------------------------
(* serveRequest *)

GotoS(c, p) == serve' = [serve EXCEPT ![c] = p]

Enter(c) ==
    /\ serve[c] = "new"
    /\ IF run THEN codecs' = codecs \cup {c} /\ GotoS(c, "check") ELSE GotoS(c, "leave") /\ UNCHANGED codecs
    /\ UNCHANGED <<run, stopper, closed, current, req, answer, notifier, out>>

Check(c) ==
    /\ serve[c] = "check"
    /\ GotoS(c, IF run THEN "read" ELSE "leave")
    /\ UNCHANGED <<run, stopper, codecs, closed, current, req, answer, notifier, out>>

\* readRequest: a request, which a client that ends a subscription sends once it knows its id
Sendable(r) == req[r] = "idle" /\ (Kind[r] \in AllSubs => <<"id", Kind[r]>> \in Range(out[On[r]]))

ReadRequest(c) ==
    /\ serve[c] = "read"
    /\ \/ \E r \in Requests :
            /\ On[r] = c /\ Sendable(r) /\ c \notin closed
            /\ current' = [current EXCEPT ![c] = {r}] /\ req' = [req EXCEPT ![r] = "read"]
            /\ GotoS(c, "got")
       \/ /\ c \in closed
          /\ GotoS(c, "pend") /\ UNCHANGED <<current, req>>
    /\ UNCHANGED <<run, stopper, codecs, closed, answer, notifier, out>>

\* the request is refused, run here, or run by a goroutine of its own
Got(c) ==
    /\ serve[c] = "got"
    /\ \E r \in current[c] :
         IF ~run
         THEN Written(c, <<"refused", r>>) /\ req' = [req EXCEPT ![r] = "done"] /\ GotoS(c, "leave")
         ELSE /\ req' = [req EXCEPT ![r] = "handle"]
              /\ GotoS(c, IF c \in Single THEN "single" ELSE "check")
              /\ UNCHANGED out
    /\ UNCHANGED <<run, stopper, codecs, closed, current, answer, notifier>>

\* pend.Wait, or the end of the one request
Idle(c) ==
    /\ serve[c] \in {"pend", "single"}
    /\ \A r \in Requests : On[r] = c => req[r] \in {"idle", "done"}
    /\ GotoS(c, "leave")
    /\ UNCHANGED <<run, stopper, codecs, closed, current, req, answer, notifier, out>>

\* the deferred calls, and that of ServeCodec
Leave(c) ==
    /\ serve[c] = "leave"
    /\ codecs' = codecs \ {c} /\ GotoS(c, "gone")
    /\ closed' = IF c \in Single THEN closed ELSE closed \cup {c}
    /\ UNCHANGED <<run, stopper, current, req, answer, notifier, out>>

-----------------------------------------------------------------------------
(* exec *)

\* handle: the callback runs; a subscription is made inactive, or ended if it is active
Handle(r) ==
    /\ req[r] = "handle" /\ req' = [req EXCEPT ![r] = "write"]
    /\ \/ Kind[r] = "call" /\ answer' = [answer EXCEPT ![r] = "result"] /\ UNCHANGED notifier
       \/ /\ Kind[r] = "sub"
          /\ answer' = [answer EXCEPT ![r] = "id"] /\ inactive' = inactive \cup {r}
          /\ UNCHANGED <<active, ended, notes>>
       \/ /\ Kind[r] \in AllSubs
          /\ IF Kind[r] \in active
             THEN /\ answer' = [answer EXCEPT ![r] = "ended"]
                  /\ active' = active \ {Kind[r]} /\ ended' = ended \cup {Kind[r]}
             ELSE answer' = [answer EXCEPT ![r] = "not found"] /\ UNCHANGED <<active, ended>>
          /\ UNCHANGED <<inactive, notes>>
    /\ UNCHANGED <<run, stopper, codecs, closed, serve, current, out>>

\* the answer is written, and the connection closed if it cannot be
WriteAnswer(r) ==
    /\ req[r] = "write"
    /\ Written(On[r], <<answer[r], IF Kind[r] \in AllSubs THEN Kind[r] ELSE r>>)
    /\ req' = [req EXCEPT ![r] = IF Kind[r] = "sub" THEN "activate" ELSE "done"]
    /\ UNCHANGED <<run, stopper, codecs, closed, serve, current, answer, notifier>>

Activate(r) ==
    /\ req[r] = "activate" /\ req' = [req EXCEPT ![r] = "done"]
    /\ inactive' = inactive \ {r} /\ active' = active \cup {r}
    /\ UNCHANGED <<run, stopper, codecs, closed, serve, current, answer, ended, notes, out>>

-----------------------------------------------------------------------------
(* The notifier, Stop and the clients *)

\* Mutant: a subscription is notified before its id is known
NotifyAtOnce(s) ==
    /\ s \in inactive \cup active /\ notes[s] < MaxNotes
    /\ notes' = [notes EXCEPT ![s] = @ + 1] /\ Written(On[s], <<"note", s>>)
    /\ UNCHANGED <<run, stopper, codecs, closed, serve, current, req, answer, inactive, active, ended>>

\* Notify: the lock is held over the test and the write
Notify(s) ==
    /\ s \in inactive \cup active /\ notes[s] < MaxNotes
    /\ notes' = [notes EXCEPT ![s] = @ + 1]
    /\ IF s \in active THEN Written(On[s], <<"note", s>>) ELSE UNCHANGED out
    /\ UNCHANGED <<run, stopper, codecs, closed, serve, current, req, answer, inactive, active, ended>>

Stop ==
    /\ stopper = "no"
    /\ run' = FALSE /\ stopper' = "running"
    /\ UNCHANGED <<codecs, closed, serve, current, req, answer, notifier, out>>

StopCloses ==
    /\ stopper = "running"
    /\ closed' = closed \cup codecs /\ stopper' = "done"
    /\ UNCHANGED <<run, codecs, serve, current, req, answer, notifier, out>>

Hangup(c) ==
    /\ c \notin closed /\ closed' = closed \cup {c}
    /\ UNCHANGED <<run, stopper, codecs, serve, current, req, answer, notifier, out>>

-----------------------------------------------------------------------------

Loop(c) == Enter(c) \/ Check(c) \/ ReadRequest(c) \/ Got(c) \/ Idle(c) \/ Leave(c)
Exec(r) == Handle(r) \/ WriteAnswer(r) \/ Activate(r)

Next ==
    \/ \E c \in Conns : Loop(c) \/ Hangup(c)
    \/ \E r \in Requests : Exec(r)
    \/ \E s \in AllSubs : Notify(s)
    \/ Stop \/ StopCloses

Spec == Init /\ [][Next]_vars

Fairness ==
    /\ \A c \in Conns : WF_vars(Loop(c))
    /\ \A r \in Requests : WF_vars(Exec(r))
    /\ WF_vars(StopCloses)

FairSpec == Spec /\ Fairness

-----------------------------------------------------------------------------
(* Properties *)

Before(q, a, b) == \E i \in 1..Len(q), j \in 1..Len(q) : i < j /\ q[i] = a /\ q[j] = b

(* Notifications of a subscription are written only while its client knows *)
(* it: after its id, and not after the answer that ended it.               *)
NotesInBounds ==
    \A s \in AllSubs : LET q == out[On[s]] IN
        <<"note", s>> \in Range(q) => /\ <<"id", s>> \in Range(q) /\ ~Before(q, <<"note", s>>, <<"id", s>>)
                                      /\ ~Before(q, <<"ended", s>>, <<"note", s>>)

(* After Stop no connection is served that is still open: one that was     *)
(* added before was closed, and none is added after.                       *)
StoppedClosed == stopper = "done" => codecs \subseteq closed

(* A request is answered at most once, and once it is done unless its      *)
(* connection has been closed.                                             *)
AnsweredOnce ==
    \A r \in Requests : Kind[r] \notin AllSubs =>
        LET n == Len(SelectSeq(out[On[r]], LAMBDA m : m[2] = r /\ m[1] # "note" /\ m[1] # "ended" /\ m[1] # "not found")) IN
        /\ n <= 1
        /\ req[r] = "done" /\ On[r] \notin closed => n = 1

RPCSound == NotesInBounds /\ StoppedClosed /\ AnsweredOnce

(* Stop ends every loop, whatever requests are under way.                  *)
StopAsked == stopper # "no"
LoopsEnded == \A c \in Conns : serve[c] = "gone"
StopEndsLoops == StopAsked ~> LoopsEnded
=============================================================================
