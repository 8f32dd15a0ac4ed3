---------------------------- MODULE DiscoverUDP ----------------------------
(***************************************************************************)
(* The requests of node discovery that wait for packets: the loop of       *)
(* communication/p2p/discover/udp.go with its list of pending replies and  *)
(* its timer, and the callers of pending and handleReply.                  *)
(*                                                                         *)
(* A request waits for packets of one type from one node: a ping for one   *)
(* pong, a findnode for as many neighbours as a bucket holds. Removing an  *)
(* element of the list ends the loop that visits it (container/list), so a *)
(* packet, or a tick of the timer, completes at most one request.          *)
(***************************************************************************)
EXTENDS Integers, Sequences, SequencesExt, FiniteSets, FiniteSetsExt

CONSTANTS
    Requests,
    From,           \* the node a request waits for
    Type,           \* the packet it waits for
    Need,           \* how many of them
    RespTimeout,    \* respTimeout
    MaxTime,        \* how long the clock runs; nothing is asked that cannot time out before
    MaxBack         \* how often it is set back

VARIABLES
    now,            \* the clock
    plist,          \* the pending requests, oldest first
    deadline,       \* their deadlines
    got,            \* the packets their callbacks have seen
    timer,          \* when the timer fires; Off
    nextTimeout,    \* the request it was set for, or {}
    verdict,        \* what was sent to errc, in order
    pc,             \* where the caller of a request is
    closing,        \* the channel is closed
    loop,           \* the loop runs
    back            \* how often the clock was set back

vars == <<now, plist, deadline, got, timer, nextTimeout, verdict, pc, closing, loop, back>>

Off == -1

Init ==
    /\ now = 0 /\ plist = <<>> /\ deadline = [r \in Requests |-> 0] /\ got = [r \in Requests |-> 0]
    /\ timer = Off /\ nextTimeout = {} /\ verdict = [r \in Requests |-> <<>>]
    /\ pc = [r \in Requests |-> "idle"] /\ closing = FALSE /\ loop = TRUE /\ back = 0

\* what a step of the loop leaves: the list, the timer, whom it was set for, and the verdicts
State(l, t, n, v) == [plist |-> l, timer |-> t, next |-> n, verdict |-> v]

Say(v, r, m) == [v EXCEPT ![r] = Append(@, m)]

\* resetTimeout, which every turn of the loop starts with: a deadline too far off is of a clock
\* that was set back; the visit ends with the request that is removed for it
ResetTimeout(s) ==
    IF s.plist = <<>> \/ s.next = {Head(s.plist)} THEN s
    ELSE LET r == Head(s.plist) IN
         IF deadline'[r] - now < 2 * RespTimeout
         THEN State(s.plist, IF deadline'[r] > now THEN deadline'[r] ELSE now, {r}, s.verdict)
         ELSE State(Tail(s.plist), Off, {}, Say(s.verdict, r, "clock"))

Becomes(s) ==
    LET t == ResetTimeout(s) IN
    plist' = t.plist /\ timer' = t.timer /\ nextTimeout' = t.next /\ verdict' = t.verdict

-----------------------------------------------------------------------------
(* The loop *)

\* pending, and case p := <-t.addpending
AddPending(r) ==
    /\ loop /\ pc[r] = "idle" /\ pc' = [pc EXCEPT ![r] = "wait"]
    /\ now + RespTimeout <= MaxTime
    /\ deadline' = [deadline EXCEPT ![r] = now + RespTimeout]
    /\ Becomes(State(Append(plist, r), timer, nextTimeout, verdict))
    /\ UNCHANGED <<now, got, closing, loop, back>>

\* pending, when the transport is closing
PendingClosed(r) ==
    /\ closing /\ pc[r] = "idle" /\ pc' = [pc EXCEPT ![r] = "wait"]
    /\ verdict' = Say(verdict, r, "closed")
    /\ UNCHANGED <<now, plist, deadline, got, timer, nextTimeout, closing, loop, back>>

\* case r := <-t.gotreply: all callbacks for the packet up to the first that has enough
GotReply(n, ty) ==
    LET Matches(i) == From[plist[i]] = n /\ Type[plist[i]] = ty
        full == {i \in DOMAIN plist : Matches(i) /\ got[plist[i]] + 1 >= Need[plist[i]]}
        last == IF full = {} THEN Len(plist) ELSE Min(full)
        seen == {plist[i] : i \in {j \in 1..last : Matches(j)}}
    IN  /\ loop
        /\ got' = [r \in Requests |-> IF r \in seen THEN got[r] + 1 ELSE got[r]]
        /\ UNCHANGED deadline
        /\ Becomes(IF full = {} THEN State(plist, timer, nextTimeout, verdict)
                   ELSE State(RemoveAt(plist, last), timer, nextTimeout, Say(verdict, plist[last], "ok")))
        /\ UNCHANGED <<now, pc, closing, loop, back>>

\* Mutant: a request that is late stays in the list
TimeoutKeeps ==
    LET late == {i \in DOMAIN plist : now >= deadline[plist[i]]} IN
    /\ loop /\ timer # Off /\ now >= timer
    /\ UNCHANGED deadline
    /\ Becomes(IF late = {} THEN State(plist, Off, {}, verdict)
               ELSE State(plist, Off, {}, Say(verdict, plist[Min(late)], "timeout")))
    /\ UNCHANGED <<now, got, pc, closing, loop, back>>

\* case now := <-timeout.C: the first request that is late
Timeout ==
    LET late == {i \in DOMAIN plist : now >= deadline[plist[i]]} IN
    /\ loop /\ timer # Off /\ now >= timer
    /\ UNCHANGED deadline
    /\ Becomes(IF late = {} THEN State(plist, Off, {}, verdict)
               ELSE State(RemoveAt(plist, Min(late)), Off, {}, Say(verdict, plist[Min(late)], "timeout")))
    /\ UNCHANGED <<now, got, pc, closing, loop, back>>

\* case <-t.closing
LoopEnds ==
    /\ loop /\ closing /\ loop' = FALSE
    /\ verdict' = [r \in Requests |-> IF r \in Range(plist) THEN Append(verdict[r], "closed") ELSE verdict[r]]
    /\ UNCHANGED <<now, plist, deadline, got, timer, nextTimeout, pc, closing, back>>

-----------------------------------------------------------------------------

\* <-errc
Return(r) ==
    /\ pc[r] = "wait" /\ verdict[r] # <<>> /\ pc' = [pc EXCEPT ![r] = "done"]
    /\ UNCHANGED <<now, plist, deadline, got, timer, nextTimeout, verdict, closing, loop, back>>

Close ==
    /\ ~closing /\ closing' = TRUE
    /\ UNCHANGED <<now, plist, deadline, got, timer, nextTimeout, verdict, pc, loop, back>>

Tick ==
    /\ now < MaxTime /\ now' = now + 1
    /\ UNCHANGED <<plist, deadline, got, timer, nextTimeout, verdict, pc, closing, loop, back>>

\* the system clock is set back; the timer runs on, on a clock of its own
ClockBack ==
    /\ back < MaxBack /\ now > 0 /\ back' = back + 1
    /\ \E k \in 1..now : now' = now - k /\ timer' = IF timer = Off THEN Off ELSE Max({timer - k, 0})
    /\ UNCHANGED <<plist, deadline, got, nextTimeout, verdict, pc, closing, loop>>

Next ==
    \/ \E r \in Requests : AddPending(r) \/ PendingClosed(r) \/ Return(r)
    \/ \E n \in {From[r] : r \in Requests}, ty \in {Type[r] : r \in Requests} : GotReply(n, ty)
    \/ Timeout \/ LoopEnds \/ Close \/ Tick \/ ClockBack

Spec == Init /\ [][Next]_vars

Fairness ==
    /\ \A r \in Requests : WF_vars(Return(r))
    /\ WF_vars(Timeout) /\ WF_vars(LoopEnds) /\ WF_vars(Tick)

FairSpec == Spec /\ Fairness

-----------------------------------------------------------------------------
(* Properties *)

(* Every request gets one verdict, so the loop never waits on a channel    *)
(* of room one: whatever is pending has none yet, and is pending once.     *)
OneVerdict ==
    /\ \A r \in Requests : Len(verdict[r]) <= 1
    /\ loop => \A i \in DOMAIN plist : verdict[plist[i]] = <<>> /\ Cardinality({j \in DOMAIN plist : plist[j] = plist[i]}) = 1

(* As long as the clock is not set back, a request that is pending is      *)
(* watched: the timer is set, and fires no later than its deadline.        *)
Watched ==
    loop /\ back = 0 => \A i \in DOMAIN plist : timer # Off /\ timer <= Max({deadline[plist[i]], now})

(* A request that succeeded has seen as many packets as it needs.          *)
Answered == \A r \in Requests : verdict[r] = <<"ok">> => got[r] >= Need[r]

DiscoverSound == OneVerdict /\ Watched /\ Answered

(* Every request ends, if the clock is not set back.                       *)
Waiting == \E r \in Requests : pc[r] = "wait"
RequestsEnd == Waiting ~> ~Waiting
=============================================================================
