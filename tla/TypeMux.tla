------------------------------ MODULE TypeMux ------------------------------
(***************************************************************************)
(* The event multiplexer of the services (utils/event/event.go) for events *)
(* of one type: Subscribe, Post, Unsubscribe and Stop, with the mutex of   *)
(* the multiplexer and the two of a subscription. A channel has no room:   *)
(* a post waits until its receiver takes the event or the subscription     *)
(* closes.                                                                 *)
(***************************************************************************)
EXTENDS Naturals, FiniteSets, Sequences, SequencesExt

CONSTANTS
    Subs,           \* subscriptions
    Posts           \* calls of Post

VARIABLES
    subm,           \* the subscriptions of the type, in order
    stopped,        \* TypeMux.stopped
    mutex,          \* Stop holds TypeMux.mutex; the others hold it for a step
    sub,            \* where a subscription is: new, made, live
    stale,          \* posts that began before a subscription was made
    closing,        \* subscriptions whose closing channel is closed
    closedC,        \* subscriptions whose channel is closed
    closer,         \* the goroutines in closewait, by subscription: who and where
    unsub,          \* where a call of Unsubscribe is
    stop,           \* where the call of Stop is, and what it has still to close
    post,           \* where a post is, and whom it has still to deliver to
    received        \* the posts a subscriber received, in order

vars == <<subm, stopped, mutex, sub, stale, closing, closedC, closer, unsub, stop, post, received>>

Init ==
    /\ subm = <<>> /\ stopped = FALSE /\ mutex = FALSE
    /\ sub = [s \in Subs |-> "new"] /\ stale = [s \in Subs |-> {}]
    /\ closing = {} /\ closedC = {} /\ closer = [s \in Subs |-> "none"]
    /\ unsub = [s \in Subs |-> "no"] /\ stop = [pc |-> "no", left |-> <<>>]
    /\ post = [p \in Posts |-> [pc |-> "new", left |-> <<>>]] /\ received = [s \in Subs |-> <<>>]

-----------------------------------------------------------------------------
(* Subscribe *)

\* newsub: the time of creation
NewSub(s) ==
    /\ sub[s] = "new" /\ sub' = [sub EXCEPT ![s] = "made"]
    /\ stale' = [stale EXCEPT ![s] = {p \in Posts : post[p].pc # "new"}]
    /\ UNCHANGED <<subm, stopped, mutex, closing, closedC, closer, unsub, stop, post, received>>

Subscribe(s) ==
    /\ sub[s] = "made" /\ ~mutex /\ sub' = [sub EXCEPT ![s] = "live"]
    /\ IF stopped THEN closedC' = closedC \cup {s} /\ closer' = [closer EXCEPT ![s] = "closed"] /\ UNCHANGED subm
                  ELSE subm' = Append(subm, s) /\ UNCHANGED <<closedC, closer>>
    /\ UNCHANGED <<stopped, mutex, stale, closing, unsub, stop, post, received>>

-----------------------------------------------------------------------------
(* Post *)

GotoP(p, x, l) == post' = [post EXCEPT ![p] = [pc |-> x, left |-> l]]

\* the event is made
Begin(p) ==
    /\ post[p].pc = "new" /\ GotoP(p, "begun", <<>>)
    /\ UNCHANGED <<subm, stopped, mutex, sub, stale, closing, closedC, closer, unsub, stop, received>>

\* under the lock: the subscriptions of the moment
Snapshot(p) ==
    /\ post[p].pc = "begun" /\ ~mutex
    /\ IF stopped THEN GotoP(p, "refused", <<>>) ELSE GotoP(p, "next", subm)
    /\ UNCHANGED <<subm, stopped, mutex, sub, stale, closing, closedC, closer, unsub, stop, received>>

\* deliver takes the lock of the subscription, which a writer that waits for it keeps from it
Deliver(p) ==
    /\ post[p].pc = "next"
    /\ IF post[p].left = <<>> THEN GotoP(p, "done", <<>>)
       ELSE LET s == Head(post[p].left) IN
            IF p \in stale[s] THEN GotoP(p, "next", Tail(post[p].left))
            ELSE closer[s] # "locking" /\ GotoP(p, IF s \in closedC THEN "selectNil" ELSE "select", post[p].left)
    /\ UNCHANGED <<subm, stopped, mutex, sub, stale, closing, closedC, closer, unsub, stop, received>>

\* select: the receiver takes the event
Received(p) ==
    /\ post[p].pc = "select"
    /\ received' = [received EXCEPT ![Head(post[p].left)] = Append(@, p)]
    /\ GotoP(p, "next", Tail(post[p].left))
    /\ UNCHANGED <<subm, stopped, mutex, sub, stale, closing, closedC, closer, unsub, stop>>

\* select: the subscription closes; one that was closed before has no channel
Skipped(p) ==
    /\ post[p].pc \in {"select", "selectNil"} /\ Head(post[p].left) \in closing
    /\ GotoP(p, "next", Tail(post[p].left))
    /\ UNCHANGED <<subm, stopped, mutex, sub, stale, closing, closedC, closer, unsub, stop, received>>

-----------------------------------------------------------------------------
(* closewait: with closeMu held, by Unsubscribe or by Stop *)

\* closing is closed, and the lock that deliveries share is waited for
CloseBegins(s) ==
    /\ closer[s] = "none"
    /\ closing' = closing \cup {s} /\ closer' = [closer EXCEPT ![s] = "locking"]

Delivering(s) == {p \in Posts : post[p].pc \in {"select", "selectNil"} /\ Head(post[p].left) = s}

\* Mutant: the lock is not waited for
CloseEndsAtOnce(s) ==
    /\ closer[s] = "locking"
    /\ closedC' = closedC \cup {s} /\ closer' = [closer EXCEPT ![s] = "closed"]
    /\ UNCHANGED <<subm, stopped, mutex, sub, stale, closing, unsub, stop, post, received>>

CloseEnds(s) ==
    /\ closer[s] = "locking" /\ Delivering(s) = {}
    /\ closedC' = closedC \cup {s} /\ closer' = [closer EXCEPT ![s] = "closed"]
    /\ UNCHANGED <<subm, stopped, mutex, sub, stale, closing, unsub, stop, post, received>>

-----------------------------------------------------------------------------
(* Unsubscribe and Stop *)

\* del
Unsubscribe(s) ==
    /\ sub[s] = "live" /\ unsub[s] = "no" /\ ~mutex
    /\ subm' = SelectSeq(subm, LAMBDA x : x # s) /\ unsub' = [unsub EXCEPT ![s] = "deleted"]
    /\ UNCHANGED <<stopped, mutex, sub, stale, closing, closedC, closer, stop, post, received>>

UnsubscribeCloses(s) ==
    /\ unsub[s] = "deleted" /\ CloseBegins(s)
    /\ UNCHANGED <<subm, stopped, mutex, sub, stale, closedC, unsub, stop, post, received>>

Unsubscribed(s) ==
    /\ unsub[s] = "deleted" /\ closer[s] = "closed"
    /\ unsub' = [unsub EXCEPT ![s] = "done"]
    /\ UNCHANGED <<subm, stopped, mutex, sub, stale, closing, closedC, closer, stop, post, received>>

\* Stop holds the mutex until all subscriptions are closed
Stop ==
    /\ stop.pc = "no" /\ ~mutex
    /\ mutex' = TRUE /\ stop' = [pc |-> "closing", left |-> subm]
    /\ UNCHANGED <<subm, stopped, sub, stale, closing, closedC, closer, unsub, post, received>>

StopCloses ==
    /\ stop.pc = "closing" /\ stop.left # <<>> /\ CloseBegins(Head(stop.left))
    /\ UNCHANGED <<subm, stopped, mutex, sub, stale, closedC, unsub, stop, post, received>>

StopNext ==
    /\ stop.pc = "closing" /\ stop.left # <<>> /\ closer[Head(stop.left)] = "closed"
    /\ stop' = [stop EXCEPT !.left = Tail(@)]
    /\ UNCHANGED <<subm, stopped, mutex, sub, stale, closing, closedC, closer, unsub, post, received>>

StopDone ==
    /\ stop.pc = "closing" /\ stop.left = <<>>
    /\ stop' = [stop EXCEPT !.pc = "done"] /\ subm' = <<>> /\ stopped' = TRUE /\ mutex' = FALSE
    /\ UNCHANGED <<sub, stale, closing, closedC, closer, unsub, post, received>>

-----------------------------------------------------------------------------

Posting(p) == Begin(p) \/ Snapshot(p) \/ Deliver(p) \/ Received(p) \/ Skipped(p)
Closing(s) == CloseEnds(s) \/ UnsubscribeCloses(s) \/ Unsubscribed(s)
Stopping == StopCloses \/ StopNext \/ StopDone

Next ==
    \/ \E s \in Subs : NewSub(s) \/ Subscribe(s) \/ Unsubscribe(s) \/ Closing(s)
    \/ \E p \in Posts : Posting(p)
    \/ Stop \/ Stopping

Spec == Init /\ [][Next]_vars

\* the receivers need not take anything
Fairness ==
    /\ \A p \in Posts : WF_vars(Deliver(p) \/ Skipped(p))
    /\ \A s \in Subs : WF_vars(Closing(s))
    /\ WF_vars(Stopping)

FairSpec == Spec /\ Fairness

-----------------------------------------------------------------------------
(* Properties *)

(* No event is sent on a channel that is closed: who waits to send on a    *)
(* channel keeps it open.                                                  *)
NoSendOnClosed == \A p \in Posts : post[p].pc = "select" => Head(post[p].left) \notin closedC

(* Neither Unsubscribe nor Stop returns while an event can still come:     *)
(* after either the channel is closed.                                     *)
ClosedAfter ==
    /\ \A s \in Subs : unsub[s] = "done" => s \in closedC
    /\ stop.pc = "done" => \A s \in Subs : sub[s] = "live" => s \in closedC \/ unsub[s] = "deleted"

(* A subscriber receives an event at most once, and none that was posted   *)
(* before it subscribed.                                                   *)
ReceivedOnce ==
    \A s \in Subs : /\ \A i, j \in DOMAIN received[s] : i # j => received[s][i] # received[s][j]
                    /\ Range(received[s]) \cap stale[s] = {}

MuxSound == NoSendOnClosed /\ ClosedAfter /\ ReceivedOnce

(* Stop ends though no receiver takes its events.                          *)
StopCalled == stop.pc # "no"
StopDoneAtLast == stop.pc = "done"
StopReturns == StopCalled ~> StopDoneAtLast
=============================================================================
