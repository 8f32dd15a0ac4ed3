---------------------------- MODULE FilterSystem ----------------------------
(***************************************************************************)
(* The filters of the RPC interface (node/services/mjoy/filters): the      *)
(* event loop broadcasts events to the subscriptions it has installed,     *)
(* over unbuffered channels; a polled filter has a goroutine that appends  *)
(* what it gets to the filter under filtersMu, a pushed subscription one   *)
(* that notifies its client; the timeout loop removes filters nobody       *)
(* polls.                                                                  *)
(***************************************************************************)
EXTENDS Integers, Sequences, FiniteSets

CONSTANTS
    Subs,        \* subscriptions
    Types,       \* [sub -> the types of events it is installed for]
    Polled,      \* those that are filters of the API; the others are pushed to a client
    MaxEvents,   \* bound: events
    MaxExpired   \* bound: deadlines that run out

VARIABLES
    index,       \* filterIndex: the installed subscriptions
    loop,        \* the event loop: the event it broadcasts and to whom it still has to go
    pc,          \* [sub -> where its goroutine is]
    got,         \* [sub -> the event its goroutine holds, or 0]
    unsub,       \* [sub -> "no", "sending" (Unsubscribe), "waiting" (for Err) or "done"]
    errClosed,   \* the subscriptions whose err channel is closed
    filters,     \* api.filters
    stored,      \* [sub -> the events the filter holds or the client got]
    expired,     \* the filters whose deadline has run out
    mutex,       \* filtersMu is held by the timeout loop
    timeoutPc,   \* the timeout loop: "idle", "scan", or the filter it unsubscribes
    todo,        \* the filters it still has to look at
    uninstall,   \* the filters some client is uninstalling
    sent,        \* history: [sub -> the events broadcast while it was installed]
    events, expirations  \* counters for the bounds

vars == <<index, loop, pc, got, unsub, errClosed, filters, stored, expired, mutex, timeoutPc, todo,
          uninstall, sent, events, expirations>>

NoEvent == [event |-> 0, to |-> {}]

Init ==
    /\ index = {} /\ loop = NoEvent /\ errClosed = {} /\ filters = {} /\ expired = {}
    /\ pc = [s \in Subs |-> "none"] /\ got = [s \in Subs |-> 0] /\ unsub = [s \in Subs |-> "no"]
    /\ stored = [s \in Subs |-> <<>>] /\ sent = [s \in Subs |-> <<>>]
    /\ mutex = FALSE /\ timeoutPc = "idle" /\ todo = {} /\ uninstall = {}
    /\ events = 0 /\ expirations = 0

Listening == loop = NoEvent

-----------------------------------------------------------------------------
(* Subscribing *)

\* subscribe: the event loop installs the subscription
Subscribe(s) ==
    /\ pc[s] = "none" /\ Listening
    /\ index' = index \cup {s}
    /\ pc' = [pc EXCEPT ![s] = IF s \in Polled THEN "adding" ELSE "loop"]
    /\ UNCHANGED <<loop, got, unsub, errClosed, filters, stored, expired, mutex, timeoutPc, todo, uninstall, sent, events, expirations>>

\* NewFilter, NewBlockFilter, NewPendingTransactionFilter: the filter is recorded, its goroutine starts
AddFilter(s) ==
    /\ pc[s] = "adding" /\ ~mutex
    /\ filters' = filters \cup {s}
    /\ pc' = [pc EXCEPT ![s] = "loop"]
    /\ UNCHANGED <<index, loop, got, unsub, errClosed, stored, expired, mutex, timeoutPc, todo, uninstall, sent, events, expirations>>

-----------------------------------------------------------------------------
(* The event loop *)

\* an event of some type arrives
Event(t) ==
    /\ Listening /\ events < MaxEvents
    /\ events' = events + 1
    /\ LET to == {s \in index : t \in Types[s]}
       IN  /\ loop' = IF to = {} THEN NoEvent ELSE [event |-> events', to |-> to]
           /\ sent' = [s \in Subs |-> IF s \in to THEN Append(sent[s], events') ELSE sent[s]]
    /\ UNCHANGED <<index, pc, got, unsub, errClosed, filters, stored, expired, mutex, timeoutPc, todo, uninstall, expirations>>

Sent(s) == IF loop.to = {s} THEN NoEvent ELSE [loop EXCEPT !.to = @ \ {s}]

\* broadcast: the goroutine of s takes the event
Broadcast(s) ==
    /\ s \in loop.to /\ pc[s] = "loop"
    /\ loop' = Sent(s)
    /\ IF s \in Polled
       THEN pc' = [pc EXCEPT ![s] = "lock"] /\ got' = [got EXCEPT ![s] = loop.event] /\ UNCHANGED stored
       ELSE stored' = [stored EXCEPT ![s] = Append(@, loop.event)] /\ UNCHANGED <<pc, got>>
    /\ UNCHANGED <<index, unsub, errClosed, filters, expired, mutex, timeoutPc, todo, uninstall, sent, events, expirations>>

\* Unsubscribe takes the event, which is lost
Consume(s) ==
    /\ s \in loop.to /\ unsub[s] = "sending"
    /\ loop' = Sent(s)
    /\ UNCHANGED <<index, pc, got, unsub, errClosed, filters, stored, expired, mutex, timeoutPc, todo, uninstall, sent, events, expirations>>

\* the subscription is removed only for its first type
UninstallFirst(s) ==
    /\ Listening /\ unsub[s] = "sending"
    /\ index' = IF Cardinality(Types[s]) > 1 THEN index ELSE index \ {s}
    /\ errClosed' = errClosed \cup {s}
    /\ unsub' = [unsub EXCEPT ![s] = "waiting"]
    /\ UNCHANGED <<loop, pc, got, filters, stored, expired, mutex, timeoutPc, todo, uninstall, sent, events, expirations>>

\* the event loop removes the subscription, for all of its types
Uninstall(s) ==
    /\ Listening /\ unsub[s] = "sending"
    /\ index' = index \ {s}
    /\ errClosed' = errClosed \cup {s}
    /\ unsub' = [unsub EXCEPT ![s] = "waiting"]
    /\ UNCHANGED <<loop, pc, got, filters, stored, expired, mutex, timeoutPc, todo, uninstall, sent, events, expirations>>

-----------------------------------------------------------------------------
(* The goroutine of a subscription *)

\* a filter stores the event, if the filter is still there
Store(s) ==
    /\ pc[s] = "lock" /\ ~mutex
    /\ stored' = IF s \in filters THEN [stored EXCEPT ![s] = Append(@, got[s])] ELSE stored
    /\ got' = [got EXCEPT ![s] = 0]
    /\ pc' = [pc EXCEPT ![s] = "loop"]
    /\ UNCHANGED <<index, loop, unsub, errClosed, filters, expired, mutex, timeoutPc, todo, uninstall, sent, events, expirations>>

\* a filter's goroutine ends when err is closed
End(s) ==
    /\ s \in Polled /\ pc[s] = "loop" /\ s \in errClosed /\ ~mutex
    /\ filters' = filters \ {s}
    /\ pc' = [pc EXCEPT ![s] = "over"]
    /\ UNCHANGED <<index, loop, got, unsub, errClosed, stored, expired, mutex, timeoutPc, todo, uninstall, sent, events, expirations>>

\* a pushed subscription's goroutine unsubscribes when the client does, or goes
ClientLeaves(s) ==
    /\ s \notin Polled /\ pc[s] = "loop"
    /\ pc' = [pc EXCEPT ![s] = "unsub"]
    /\ unsub' = [unsub EXCEPT ![s] = "sending"]
    /\ UNCHANGED <<index, loop, got, errClosed, filters, stored, expired, mutex, timeoutPc, todo, uninstall, sent, events, expirations>>

\* Unsubscribe returns
Unsubscribed(s) ==
    /\ unsub[s] = "waiting" /\ s \in errClosed
    /\ unsub' = [unsub EXCEPT ![s] = "done"]
    /\ IF pc[s] = "unsub" THEN pc' = [pc EXCEPT ![s] = "over"] ELSE UNCHANGED pc
    /\ uninstall' = uninstall \ {s}
    /\ IF timeoutPc = s
       THEN timeoutPc' = "scan" /\ filters' = filters \ {s} ELSE UNCHANGED <<timeoutPc, filters>>
    /\ UNCHANGED <<index, loop, got, errClosed, stored, expired, mutex, todo, sent, events, expirations>>

-----------------------------------------------------------------------------
(* The calls of the API, and the timeout loop *)

\* UninstallFilter
UninstallFilter(s) ==
    /\ s \in filters /\ ~mutex
    /\ filters' = filters \ {s}
    /\ uninstall' = uninstall \cup {s}
    /\ unsub' = [unsub EXCEPT ![s] = IF @ = "no" THEN "sending" ELSE @]
    /\ UNCHANGED <<index, loop, pc, got, errClosed, stored, expired, mutex, timeoutPc, todo, sent, events, expirations>>

\* GetFilterChanges: the events are handed over (and not recorded), the deadline starts again
GetFilterChanges(s) ==
    /\ s \in filters \cap expired /\ ~mutex
    /\ expired' = expired \ {s}
    /\ UNCHANGED <<index, loop, pc, got, unsub, errClosed, filters, stored, mutex, timeoutPc, todo, uninstall, sent, events, expirations>>

Expire(s) ==
    /\ s \in filters \ expired /\ expirations < MaxExpired
    /\ expired' = expired \cup {s} /\ expirations' = expirations + 1
    /\ UNCHANGED <<index, loop, pc, got, unsub, errClosed, filters, stored, mutex, timeoutPc, todo, uninstall, sent, events>>

\* timeoutLoop takes filtersMu and looks at every filter
Tick ==
    /\ timeoutPc = "idle" /\ ~mutex /\ expired \cap filters # {}
    /\ mutex' = TRUE /\ timeoutPc' = "scan" /\ todo' = filters
    /\ UNCHANGED <<index, loop, pc, got, unsub, errClosed, filters, stored, expired, uninstall, sent, events, expirations>>

\* ... and unsubscribes, with filtersMu held, one whose deadline has run out
Scan ==
    /\ timeoutPc = "scan"
    /\ IF todo = {} THEN mutex' = FALSE /\ timeoutPc' = "idle" /\ UNCHANGED <<todo, unsub, expired>>
       ELSE \E s \in todo :
              /\ todo' = todo \ {s}
              /\ IF s \in expired
                 THEN /\ timeoutPc' = s /\ expired' = expired \ {s}
                      /\ unsub' = [unsub EXCEPT ![s] = IF @ = "no" THEN "sending" ELSE @]
                 ELSE UNCHANGED <<timeoutPc, unsub, expired>>
              /\ UNCHANGED mutex
    /\ UNCHANGED <<index, loop, pc, got, errClosed, filters, stored, uninstall, sent, events, expirations>>

SubscriptionStep(s) == AddFilter(s) \/ Broadcast(s) \/ Consume(s) \/ Store(s) \/ End(s)
                       \/ Uninstall(s) \/ Unsubscribed(s)

Next ==
    \/ \E s \in Subs : \/ Subscribe(s) \/ SubscriptionStep(s) \/ ClientLeaves(s)
                       \/ UninstallFilter(s) \/ GetFilterChanges(s) \/ Expire(s)
    \/ \E t \in UNION {Types[s] : s \in Subs} : Event(t)
    \/ Tick \/ Scan

Spec == Init /\ [][Next]_vars

-----------------------------------------------------------------------------
(* Properties *)

(* The variables have their types. *)
TypeOK ==
    /\ index \subseteq Subs /\ loop.to \subseteq Subs /\ filters \subseteq Polled
    /\ timeoutPc \in {"idle", "scan"} \cup Subs
    /\ mutex = (timeoutPc # "idle")
    /\ \A s \in Subs : pc[s] \in {"none", "adding", "loop", "lock", "unsub", "over"}

(* Until somebody unsubscribes it, a subscription gets every event that is *)
(* broadcast after it was installed, once and in order.                    *)
EventsKept ==
    \A s \in Subs : unsub[s] = "no" =>
        sent[s] = stored[s] \o (IF got[s] # 0 THEN <<got[s]>> ELSE <<>>)
                            \o (IF s \in loop.to THEN <<loop.event>> ELSE <<>>)

(* The event loop only ever waits for a subscription that still reads: one *)
(* whose goroutine has not ended, or whose Unsubscribe is under way. After *)
(* Unsubscribe has returned nothing is sent to it.                         *)
QuietAfterUnsubscribe ==
    \A s \in index \cup loop.to : unsub[s] \in {"no", "sending"} /\ pc[s] # "over"

(* A filter that is recorded has a subscription, unless the goroutine of a *)
(* removed one is about to delete it.                                      *)
FiltersLive ==
    \A s \in filters : unsub[s] = "no" \/ timeoutPc = s

FiltersSound == TypeOK /\ EventsKept /\ QuietAfterUnsubscribe /\ FiltersLive
=============================================================================
