-------------------------------- MODULE Feed --------------------------------
(***************************************************************************)
(* utils/event/feed.go: one-to-many delivery of values to channels.        *)
(*                                                                         *)
(* sendLock is a token; whoever holds it owns sendCases.  Any number of    *)
(* goroutines may call Send, but only the holder of the token has state,   *)
(* so the Send in progress is the variable send; "idle" is the token lying *)
(* in the channel.  sendCases leaves out slot 0 (the removeSub case), so   *)
(* firstSubSendCase is index 1 here.  cases, the local slice of Send, is   *)
(* always a prefix of sendCases and is represented by its length.          *)
(***************************************************************************)
EXTENDS Naturals, Sequences, FiniteSets

CONSTANTS Subs,      \* the subscriptions (feedSub values)
          Chans,     \* the channels they are made on
          ChanOf,    \* sub.channel; two subscriptions may share a channel
          ChanCap,   \* buffer space of every channel
          MaxSends   \* bound: number of Send calls

ASSUME FeedAssumption ==
    /\ IsFiniteSet(Subs)
    /\ ChanOf \in [Subs -> Chans]
    /\ ChanCap \in Nat \ {0}
    /\ MaxSends \in Nat

\* an assignment that uses every channel, so that some subscriptions share one if they are more
SharedChans == CHOOSE f \in [Subs -> Chans] : \A c \in Chans : \E s \in Subs : f[s] = c

VARIABLES send,       \* where the Send holding the token is
          value,      \* its value: Send calls are numbered in lock order
          i,          \* loop index of the fast path
          cases,      \* len(cases), the active prefix of sendCases
          sendCases,  \* f.sendCases[1:]
          inbox,      \* f.inbox
          sub,        \* progress of every subscription
          sent,       \* history: the values put on a channel, in order
          rcvd        \* number of values its reader has taken

vars == <<send, value, i, cases, sendCases, inbox, sub, sent, rcvd>>

sendVars == <<send, value, i, cases>>

TypeOK ==
    /\ send \in {"idle", "locked", "fast", "select"}
    /\ value \in 0..MaxSends
    /\ i \in Nat
    /\ sendCases \in Seq(Chans)
    /\ cases \in 0..Len(sendCases)
    /\ inbox \in Seq(Chans)
    /\ sub \in [Subs -> {"new", "on", "removing", "off"}]
    /\ sent \in [Chans -> Seq(1..MaxSends)]
    /\ rcvd \in [Chans -> Nat]

Init ==
    /\ send = "idle" /\ value = 0 /\ i = 1 /\ cases = 0
    /\ sendCases = <<>> /\ inbox = <<>>
    /\ sub = [s \in Subs |-> "new"]
    /\ sent = [c \in Chans |-> <<>>]
    /\ rcvd = [c \in Chans |-> 0]

-----------------------------------------------------------------------------
\* caseList.find: index of the first case with this channel, 0 for the code's -1
find(cs, c) ==
    IF \E k \in DOMAIN cs : cs[k] = c
    THEN CHOOSE k \in DOMAIN cs : cs[k] = c /\ \A j \in 1..(k-1) : cs[j] # c
    ELSE 0

\* caseList.delete
delete(cs, k) == SubSeq(cs, 1, k - 1) \o SubSeq(cs, k + 1, Len(cs))

\* caseList.deactivate: swap with the last active case
deactivate(cs, last, k) == [cs EXCEPT ![k] = cs[last], ![last] = cs[k]]

Subscribe(s) ==
    /\ sub[s] = "new"
    /\ inbox' = Append(inbox, ChanOf[s])
    /\ sub' = [sub EXCEPT ![s] = "on"]
    /\ UNCHANGED <<sendVars, sendCases, sent, rcvd>>

\* mutant: remove goes straight to its select and skips the inbox
UnsubscribeSkipsInbox(s) ==
    /\ sub[s] = "on"
    /\ sub' = [sub EXCEPT ![s] = "removing"]
    /\ UNCHANGED <<sendVars, sendCases, inbox, sent, rcvd>>

\* feedSub.Unsubscribe (once per subscription), Feed.remove up to f.mu.Unlock
Unsubscribe(s) ==
    /\ sub[s] = "on"
    /\ LET index == find(inbox, ChanOf[s]) IN
       IF index # 0
       THEN inbox' = delete(inbox, index) /\ sub' = [sub EXCEPT ![s] = "off"]
       ELSE inbox' = inbox /\ sub' = [sub EXCEPT ![s] = "removing"]
    /\ UNCHANGED <<sendVars, sendCases, sent, rcvd>>

\* mutant: the case is left in sendCases
RemoveIdleKeeps(s) ==
    /\ sub[s] = "removing" /\ send = "idle"
    /\ sub' = [sub EXCEPT ![s] = "off"]
    /\ UNCHANGED <<sendVars, sendCases, inbox, sent, rcvd>>

\* remove, second select case: no Send in progress
RemoveIdle(s) ==
    /\ sub[s] = "removing" /\ send = "idle"
    /\ sendCases' = delete(sendCases, find(sendCases, ChanOf[s]))
    /\ sub' = [sub EXCEPT ![s] = "off"]
    /\ UNCHANGED <<sendVars, inbox, sent, rcvd>>

\* mutant: cases is shortened even if the removed case was inactive already
RemoveBySendShrinks(s) ==
    /\ sub[s] = "removing" /\ send = "select"
    /\ sendCases' = delete(sendCases, find(sendCases, ChanOf[s]))
    /\ cases' = cases - 1
    /\ sub' = [sub EXCEPT ![s] = "off"]
    /\ send' = "fast" /\ i' = 1
    /\ UNCHANGED <<value, inbox, sent, rcvd>>

\* mutant: cases is never shortened
RemoveBySendKeeps(s) ==
    /\ sub[s] = "removing" /\ send = "select"
    /\ sendCases' = delete(sendCases, find(sendCases, ChanOf[s]))
    /\ sub' = [sub EXCEPT ![s] = "off"]
    /\ send' = "fast" /\ i' = 1
    /\ UNCHANGED <<value, cases, inbox, sent, rcvd>>

\* mutant: the select of Send has no removeSub case
RemoveBySendNever(s) == FALSE /\ UNCHANGED vars

\* remove's f.removeSub <- ch meets the select of Send
RemoveBySend(s) ==
    /\ sub[s] = "removing" /\ send = "select"
    /\ LET index == find(sendCases, ChanOf[s]) IN
       /\ sendCases' = delete(sendCases, index)
       /\ cases' = IF index <= cases THEN cases - 1 ELSE cases
    /\ sub' = [sub EXCEPT ![s] = "off"]
    /\ send' = "fast" /\ i' = 1
    /\ UNCHANGED <<value, inbox, sent, rcvd>>

-----------------------------------------------------------------------------
\* Send: take the token
SendLock ==
    /\ send = "idle" /\ value < MaxSends
    /\ send' = "locked" /\ value' = value + 1
    /\ UNCHANGED <<i, cases, sendCases, inbox, sub, sent, rcvd>>

\* Send: move the inbox to sendCases under f.mu, cases := f.sendCases
SendMerge ==
    /\ send = "locked"
    /\ sendCases' = sendCases \o inbox
    /\ inbox' = <<>>
    /\ cases' = Len(sendCases')
    /\ send' = "fast" /\ i' = 1
    /\ UNCHANGED <<value, sub, sent, rcvd>>

HasRoom(c) == Len(sent[c]) - rcvd[c] < ChanCap

\* mutant: the case that got the value stays active
DeliverAgain(k) ==
    /\ sent' = [sent EXCEPT ![sendCases[k]] = Append(@, value)]
    /\ UNCHANGED <<sendCases, cases>>

Deliver(k) ==
    /\ sent' = [sent EXCEPT ![sendCases[k]] = Append(@, value)]
    /\ sendCases' = deactivate(sendCases, cases, k)
    /\ cases' = cases - 1

\* Send, fast path: TrySend on cases[i]
TrySend ==
    /\ send = "fast" /\ i <= cases
    /\ \/ HasRoom(sendCases[i]) /\ Deliver(i) /\ i' = i
       \/ /\ ~HasRoom(sendCases[i])
          /\ i' = i + 1
          /\ UNCHANGED <<sent, sendCases, cases>>
    /\ UNCHANGED <<send, value, inbox, sub, rcvd>>

\* Send, after the fast path: done, hand the token back, or block in Select
FastDone ==
    /\ send = "fast" /\ i > cases
    /\ send' = IF cases = 0 THEN "idle" ELSE "select"
    /\ UNCHANGED <<value, i, cases, sendCases, inbox, sub, sent, rcvd>>

\* Send: Select picks a channel that can take the value
SelectSend ==
    /\ send = "select"
    /\ \E k \in 1..cases : HasRoom(sendCases[k]) /\ Deliver(k)
    /\ send' = "fast" /\ i' = 1
    /\ UNCHANGED <<value, inbox, sub, rcvd>>

\* the subscriber's own goroutine takes a value from its channel
Receive(c) ==
    /\ rcvd[c] < Len(sent[c])
    /\ rcvd' = [rcvd EXCEPT ![c] = @ + 1]
    /\ UNCHANGED <<sendVars, sendCases, inbox, sub, sent>>

SendStep == SendMerge \/ TrySend \/ FastDone \/ SelectSend

Next ==
    \/ \E s \in Subs : Subscribe(s) \/ Unsubscribe(s) \/ RemoveIdle(s) \/ RemoveBySend(s)
    \/ SendLock
    \/ SendStep
    \/ \E c \in Chans : Receive(c)

Spec == Init /\ [][Next]_vars

FairSpec ==
    /\ Spec
    /\ WF_vars(SendStep)
    /\ \A s \in Subs : WF_vars(RemoveIdle(s) \/ RemoveBySend(s))

-----------------------------------------------------------------------------
Count(cs, c) == Cardinality({k \in DOMAIN cs : cs[k] = c})

SubsOn(c, phases) == {s \in Subs : ChanOf[s] = c /\ sub[s] \in phases}

(* Every live subscription owns exactly one case, in the inbox or in       *)
(* sendCases, and a remover waiting in its select always finds its case    *)
(* there (feed.go:126 and :171 would index with -1 otherwise), whichever   *)
(* of Subscribe, Unsubscribe and the merge of a concurrent Send came first.*)
CasesAccounted ==
    \A c \in Chans :
        /\ Count(sendCases, c) + Count(inbox, c)
              = Cardinality(SubsOn(c, {"on", "removing"}))
        /\ Count(sendCases, c) >= Cardinality(SubsOn(c, {"removing"}))

(* A channel gets a value at most once per subscription made on it, and    *)
(* values in the order of the Send calls; the only subscription of a       *)
(* channel sees no gap between its first and its last value, although      *)
(* deactivate and delete permute the cases while Send is running.          *)
InOrderOnce ==
    \A c \in Chans :
        /\ \A v \in 1..MaxSends : Count(sent[c], v) <= Cardinality(SubsOn(c, {"on", "removing", "off"}))
        /\ \A k \in 1..(Len(sent[c]) - 1) : sent[c][k] <= sent[c][k+1]
        /\ Cardinality({s \in Subs : ChanOf[s] = c}) = 1 =>
              \A k \in 1..(Len(sent[c]) - 1) : sent[c][k+1] = sent[c][k] + 1

\* nothing is put on a channel without subscriptions
Quiet == \A c \in Chans : SubsOn(c, {"on", "removing"}) = {} => sent'[c] = sent[c]

ReachesAll == send # "idle" /\ send' = "idle" => \A c \in Chans : Count(sent[c], value) >= Count(sendCases, c)

(* Send reaches the subscribers and nobody else. When it returns, each     *)
(* case still subscribed has had the value: a removal in the middle of the *)
(* select loop never makes it skip another subscriber ("Values sent to a   *)
(* Feed are delivered to all subscribed channels", feed.go:30). And once   *)
(* Unsubscribe has returned for every subscription of a channel, nothing   *)
(* is put on that channel any more, not even by a Send that was blocked in *)
(* Select when the last one was removed.                                   *)
SendReachesSubscribers == [][ReachesAll /\ Quiet]_vars

(* Unsubscribe always returns, even if no subscriber ever reads its        *)
(* channel again and a Send is blocked on it: fairness is assumed of the   *)
(* Send in progress and of the remover, not of the readers.                *)
UnsubscribeReturns ==
    \A s \in Subs : (sub[s] = "removing") ~> (sub[s] = "off")

=============================================================================
