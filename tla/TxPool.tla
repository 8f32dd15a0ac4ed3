------------------------------- MODULE TxPool -------------------------------
(***************************************************************************)
(* core/txprocessor: the transaction pool.                                 *)
(*                                                                         *)
(* Every public operation runs under pool.mu.  An operation is a sequence  *)
(* of steps here, one per iteration of a loop of the code; pc says where   *)
(* the holder of the lock is and "idle" that the lock is free, so no other *)
(* operation of the pool runs between two steps of one.  Where the code    *)
(* ranges over a map the order of the steps is free.                       *)
(*                                                                         *)
(* A txList is the set of its transactions.  An account whose set is empty *)
(* has no entry in the map: every place that can empty a list deletes it.  *)
(***************************************************************************)
EXTENDS Integers, Sequences, FiniteSets

CONSTANTS
    Accounts,
    Tx, From, Nonce, Cost,      \* transactions, their sender, nonce and cost
    Malformed,                  \* the ones whose size, value or signature is bad
    Blocks, Genesis, Parent, Number,
    TxsOf,                      \* the transactions of a block, in order
    StateNonce, Balance,        \* the state after a block
    AccountSlots, GlobalSlots, AccountQueue, GlobalQueue, NoLocals,
    ReorgDepth,                 \* 64 in the code
    MaxBatch                    \* bound: length of an addTxs batch

ASSUME TxPoolAssumption ==
    /\ IsFiniteSet(Accounts)
    /\ From \in [Tx -> Accounts] /\ Nonce \in [Tx -> Nat] /\ Cost \in [Tx -> Nat]
    /\ Malformed \subseteq Tx
    /\ Genesis \in Blocks /\ Parent \in [Blocks -> Blocks] /\ Number \in [Blocks -> Nat]
    /\ TxsOf \in [Blocks -> Seq(Tx)]
    /\ StateNonce \in [Blocks -> [Accounts -> Nat]]
    /\ Balance \in [Blocks -> [Accounts -> Nat]]
    /\ AccountSlots \in Nat \ {0} /\ GlobalSlots \in Nat
    /\ AccountQueue \in Nat /\ GlobalQueue \in Nat
    /\ (Tx # {} => \E t \in Tx : \A u \in Tx : Nonce[u] <= Nonce[t])   \* nonces are uint64
    /\ NoLocals \in BOOLEAN /\ ReorgDepth \in Nat /\ MaxBatch \in Nat

VARIABLES
    cur, headCh,            \* the chain's head, the ChainHeadEvents not yet received
    pending, queue, all,    \* pool.pending, pool.queue, pool.all
    beats,                  \* rank of an account's heartbeat, 1 the least recent, 0 none
    locals,                 \* pool.locals
    current, pendingState,  \* block of pool.currentState, nonces of pool.pendingState
    head,                   \* local variable of loop
    pc, then,               \* step of the operation holding pool.mu, what follows it
    todo, loc,              \* transactions addTxsLocked still has to add, local flag
    rem, add, included,     \* reset's walk over the two branches
    accts,                  \* accounts the current loop still has to visit
    offenders,              \* offenders of the pending limit
    drop, victims           \* queue overflow, transactions left to removeTx

chainVars == <<cur, headCh>>
poolVars == <<pending, queue, all, beats, locals, current, pendingState>>
opVars == <<head, pc, then, todo, loc, rem, add, included, accts, offenders, drop, victims>>
vars == <<chainVars, poolVars, opVars>>

TypeOK ==
    /\ cur \in Blocks /\ headCh \in Seq(Blocks)
    /\ pending \in [Accounts -> SUBSET Tx] /\ queue \in [Accounts -> SUBSET Tx]
    /\ all \subseteq Tx /\ locals \subseteq Accounts
    /\ beats \in [Accounts -> Nat]
    /\ current \in Blocks /\ head \in Blocks
    /\ pendingState \in [Accounts -> Nat]
    /\ pc \in {"idle", "walk", "add", "promote", "spam", "equalize", "reduce",
               "overflow", "remove", "demote"}
    /\ then \in {"idle", "demote"}
    /\ todo \in Seq(Tx) /\ loc \in BOOLEAN
    /\ rem \in Blocks /\ add \in Blocks /\ included \subseteq Tx
    /\ accts \subseteq Accounts /\ offenders \in Seq(Accounts)
    /\ drop \in Nat /\ victims \subseteq Tx

Init ==
    /\ cur = Genesis /\ headCh = <<>>
    /\ pending = [a \in Accounts |-> {}] /\ queue = [a \in Accounts |-> {}] /\ all = {}
    /\ beats = [a \in Accounts |-> 0] /\ locals = {}
    /\ current = Genesis /\ pendingState = StateNonce[Genesis] /\ head = Genesis
    /\ pc = "idle" /\ then = "idle" /\ todo = <<>> /\ loc = FALSE
    /\ rem = Genesis /\ add = Genesis /\ included = {}
    /\ accts = {} /\ offenders = <<>> /\ drop = 0 /\ victims = {}

-----------------------------------------------------------------------------
(* txList and txSortedMap *)

Txs(b) == {TxsOf[b][k] : k \in DOMAIN TxsOf[b]}

NonceIn(S, n) == \E t \in S : Nonce[t] = n

Overlaps(S, t) == NonceIn(S, Nonce[t])

\* Add never replaces: the transaction already there stays
AddAll(S, T) == S \cup {t \in T : ~Overlaps(S, t)}

\* what is left after Forward
Forward(S, n) == {t \in S : Nonce[t] >= n}

\* what Filter removes for costing too much
Unpayable(S, limit) == {t \in S : Cost[t] > limit}

\* what a strict Filter returns as invalids, R being what it removed
Invalids(S, R) == {t \in S \ R : \E r \in R : Nonce[t] > Nonce[r]}

\* mutant: the lowest nonce is not compared with start
ReadyAnyStart(S, start) ==
    {t \in S : \A u \in S : \A n \in Nonce[u]..Nonce[t] : NonceIn(S, n)}

\* Ready: the gapless run that starts at the lowest nonce, if that is <= start
Ready(S, start) ==
    {t \in S : /\ \E u \in S : Nonce[u] <= start
               /\ \A u \in S : \A n \in Nonce[u]..Nonce[t] : NonceIn(S, n)}

\* mutant: off by one
CapOneMore(S, n) == {t \in S : Cardinality({u \in S : Nonce[u] < Nonce[t]}) <= n}

\* what is left after Cap
Cap(S, n) == {t \in S : Cardinality({u \in S : Nonce[u] < Nonce[t]}) < n}

\* the transaction Cap(Len() - 1) drops and the nonce after it
Last(S) == {t \in S : \A u \in S : Nonce[u] <= Nonce[t]}

NonceAfter(S) == CHOOSE n \in {Nonce[t] + 1 : t \in S} : \A t \in S : Nonce[t] < n

Count(lists) == Cardinality(UNION {lists[a] : a \in Accounts})

Queued == {a \in Accounts : queue[a] # {}}

\* delete(pool.beats, a); the later ranks close up
NoBeat(a) ==
    [b \in Accounts |-> CASE b = a -> 0
                          [] b # a /\ beats[a] # 0 /\ beats[b] > beats[a] -> beats[b] - 1
                          [] OTHER -> beats[b]]

\* pool.beats[a] = time.Now()
Beat(a) ==
    [NoBeat(a) EXCEPT ![a] = 1 + Cardinality({b \in Accounts : NoBeat(a)[b] # 0})]

-----------------------------------------------------------------------------
(* add, addTx, addTxs, addTxsLocked *)

\* mutant: the pool is full one transaction late
RefusedLate(t) ==
    \/ t \in all
    \/ t \in Malformed
    \/ Nonce[t] < StateNonce[current][From[t]]
    \/ Cost[t] > Balance[current][From[t]]
    \/ Cardinality(all) > GlobalSlots + GlobalQueue

Refused(t) ==
    \/ t \in all
    \/ t \in Malformed
    \/ Nonce[t] < StateNonce[current][From[t]]
    \/ Cost[t] > Balance[current][From[t]]
    \/ Cardinality(all) >= GlobalSlots + GlobalQueue

\* enqueueTx for the transactions T of account a
Enqueue(a, T) ==
    /\ queue' = [queue EXCEPT ![a] = AddAll(@, T)]
    /\ all' = all \cup (AddAll(queue[a], T) \ queue[a])

\* AddLocal(s), AddRemote(s)
AddTxs(batch, local) ==
    /\ pc = "idle"
    /\ pc' = "add" /\ then' = "idle"
    /\ todo' = batch /\ loc' = (local /\ ~NoLocals)
    /\ accts' = {} /\ included' = {}
    /\ UNCHANGED <<chainVars, poolVars, head, rem, add, offenders, drop, victims>>

\* one iteration of addTxsLocked; accts collects the dirty accounts.  A reinjected
\* transaction that the new branch includes was left out by TxDifference.
AddOne ==
    /\ pc = "add" /\ todo # <<>>
    /\ todo' = Tail(todo)
    /\ LET t == Head(todo)
           a == From[t]
       IN IF t \in included \/ Refused(t) \/ Overlaps(pending[a], t)
          THEN UNCHANGED <<queue, all, locals, accts>>
          ELSE /\ Enqueue(a, {t})
               /\ locals' = IF loc THEN locals \cup {a} ELSE locals
               /\ accts' = IF Overlaps(queue[a], t) THEN accts ELSE accts \cup {a}
    /\ UNCHANGED <<chainVars, pending, beats, current, pendingState, head, pc, then, loc,
                   rem, add, included, offenders, drop, victims>>

\* what follows promoteExecutables, or addTxsLocked when nothing was added
Return(next) ==
    /\ pc' = next
    /\ accts' = IF next = "demote" THEN {a \in Accounts : pending[a] # {}} ELSE {}
    /\ then' = "idle"

AddDone ==
    /\ pc = "add" /\ todo = <<>>
    /\ IF accts # {}
       THEN pc' = "promote" /\ UNCHANGED <<accts, then>>
       ELSE Return(then)
    /\ included' = {} /\ loc' = FALSE
    /\ UNCHANGED <<chainVars, poolVars, head, todo, rem, add, offenders, drop, victims>>

-----------------------------------------------------------------------------
(* promoteExecutables *)

\* promoteTx for the transactions R of account a, lowest nonce first
PromoteTxs(a, R) ==
    /\ pending' = [pending EXCEPT ![a] = AddAll(@, R)]
    /\ beats' = IF R = {} THEN beats ELSE Beat(a)
    /\ pendingState' = [pendingState EXCEPT ![a] =
                            IF R = {} THEN @ ELSE NonceAfter(R)]

PromoteAccount(a) ==
    /\ pc = "promote" /\ a \in accts
    /\ accts' = accts \ {a}
    /\ LET young == Forward(queue[a], StateNonce[current][a])
           payable == young \ Unpayable(young, Balance[current][a])
           ready == Ready(payable, pendingState[a])
           rest == payable \ ready
           kept == IF a \in locals THEN rest ELSE Cap(rest, AccountQueue)
       IN /\ PromoteTxs(a, ready)
          /\ queue' = [queue EXCEPT ![a] = kept]
          /\ all' = (all \ (queue[a] \ (ready \cup kept))) \cup ready
    /\ UNCHANGED <<chainVars, locals, current, head, pc, then, todo, loc, rem, add, included,
                   offenders, drop, victims>>

\* past the loop: gather the spammers if the pending limit is exceeded
PromoteDone ==
    /\ pc = "promote" /\ accts = {}
    /\ pc' = "spam"
    /\ accts' = IF Count(pending) > GlobalSlots
                THEN {a \in Accounts \ locals : Cardinality(pending[a]) > AccountSlots}
                ELSE {}
    /\ offenders' = <<>>
    /\ UNCHANGED <<chainVars, poolVars, head, then, todo, loc, rem, add, included, drop, victims>>

\* Cap(Len() - 1) of the lists of accounts A
DropLast(A) ==
    /\ pending' = [a \in Accounts |-> IF a \in A THEN pending[a] \ Last(pending[a]) ELSE pending[a]]
    /\ all' = all \ UNION {Last(pending[a]) : a \in A}
    /\ pendingState' = [a \in Accounts |->
           IF a \in A /\ \E t \in Last(pending[a]) : pendingState[a] > Nonce[t]
           THEN CHOOSE n \in {Nonce[t] : t \in Last(pending[a])} : TRUE
           ELSE pendingState[a]]
    /\ UNCHANGED <<queue, beats, locals, current>>

Offenders(k) == {offenders[i] : i \in 1..k}

\* mutant: pop any spammer
AnyOffender(a) ==
    /\ pc = "spam" /\ Count(pending) > GlobalSlots
    /\ a \in accts
    /\ accts' = accts \ {a} /\ offenders' = Append(offenders, a)
    /\ pc' = "equalize"
    /\ UNCHANGED <<chainVars, poolVars, head, then, todo, loc, rem, add, included, drop, victims>>

\* pop the largest spammer
NextOffender(a) ==
    /\ pc = "spam" /\ Count(pending) > GlobalSlots
    /\ a \in accts /\ \A b \in accts : Cardinality(pending[b]) <= Cardinality(pending[a])
    /\ accts' = accts \ {a} /\ offenders' = Append(offenders, a)
    /\ pc' = "equalize"
    /\ UNCHANGED <<chainVars, poolVars, head, then, todo, loc, rem, add, included, drop, victims>>

\* the last offender's length is the threshold the others are reduced to
MustEqualize ==
    /\ Len(offenders) > 1 /\ Count(pending) > GlobalSlots
    /\ Cardinality(pending[offenders[Len(offenders) - 1]])
           > Cardinality(pending[offenders[Len(offenders)]])

Equalize ==
    /\ pc = "equalize"
    /\ IF MustEqualize
       THEN DropLast(Offenders(Len(offenders) - 1)) /\ pc' = pc
       ELSE UNCHANGED poolVars /\ pc' = "spam"
    /\ UNCHANGED <<chainVars, head, then, todo, loc, rem, add, included, accts, offenders,
                   drop, victims>>

SpamDone ==
    /\ pc = "spam" /\ (Count(pending) <= GlobalSlots \/ accts = {})
    /\ pc' = "reduce" /\ accts' = {}
    /\ UNCHANGED <<chainVars, poolVars, head, then, todo, loc, rem, add, included, offenders,
                   drop, victims>>

MustReduce ==
    /\ offenders # <<>> /\ Count(pending) > GlobalSlots
    /\ Cardinality(pending[offenders[Len(offenders)]]) > AccountSlots

Reduce ==
    /\ pc = "reduce" /\ MustReduce
    /\ DropLast(Offenders(Len(offenders)))
    /\ UNCHANGED <<chainVars, opVars>>

\* mutant: the subtraction is not guarded
ReduceDoneUnguarded ==
    /\ pc = "reduce" /\ ~MustReduce
    /\ pc' = "overflow" /\ offenders' = <<>>
    /\ drop' = IF Count(queue) >= GlobalQueue THEN Count(queue) - GlobalQueue ELSE -(GlobalQueue - Count(queue))
    /\ accts' = Queued \ locals
    /\ UNCHANGED <<chainVars, poolVars, head, then, todo, loc, rem, add, included, victims>>

\* the pending limit is dealt with: how many queued transactions are too many
ReduceDone ==
    /\ pc = "reduce" /\ ~MustReduce
    /\ pc' = "overflow" /\ offenders' = <<>>
    /\ drop' = IF Count(queue) > GlobalQueue THEN Count(queue) - GlobalQueue ELSE 0
    /\ accts' = Queued \ locals
    /\ UNCHANGED <<chainVars, poolVars, head, then, todo, loc, rem, add, included, victims>>

\* take the account with the latest heartbeat among those left
DropFrom(a) ==
    /\ pc = "overflow" /\ drop > 0
    /\ a \in accts /\ \A b \in accts : beats[b] <= beats[a]
    /\ accts' = accts \ {a}
    /\ victims' = IF Cardinality(queue[a]) <= drop
                  THEN queue[a]
                  ELSE queue[a] \ Cap(queue[a], Cardinality(queue[a]) - drop)
    /\ drop' = IF Cardinality(queue[a]) <= drop THEN drop - Cardinality(queue[a]) ELSE 0
    /\ pc' = "remove"
    /\ UNCHANGED <<chainVars, poolVars, head, then, todo, loc, rem, add, included, offenders>>

OverflowDone ==
    /\ pc = "overflow" /\ (drop = 0 \/ accts = {})
    /\ Return(then)
    /\ drop' = 0
    /\ UNCHANGED <<chainVars, poolVars, head, todo, loc, rem, add, included, offenders, victims>>

-----------------------------------------------------------------------------
(* removeTx.  The list is looked up by nonce: a pending transaction with   *)
(* the nonce of t goes in place of t.                                      *)

RemovePending(t) ==
    LET a == From[t]
        left == {u \in pending[a] : Nonce[u] < Nonce[t]}
    IN /\ pending' = [pending EXCEPT ![a] = left]
       /\ pendingState' = [pendingState EXCEPT ![a] = IF @ > Nonce[t] THEN Nonce[t] ELSE @]
       /\ IF left = {}
          THEN beats' = NoBeat(a) /\ queue' = queue /\ all' = all \ {t}
          ELSE LET more == AddAll(queue[a], {u \in pending[a] : Nonce[u] > Nonce[t]})
               IN /\ queue' = [queue EXCEPT ![a] = more]
                  /\ all' = (all \ {t}) \cup (more \ queue[a])
                  /\ beats' = beats

\* mutant: the index keeps the transaction
RemoveQueuedIndexed(t) ==
    /\ queue' = [queue EXCEPT ![From[t]] = {u \in @ : Nonce[u] # Nonce[t]}]
    /\ UNCHANGED <<all, pending, pendingState, beats>>

RemoveQueued(t) ==
    /\ queue' = [queue EXCEPT ![From[t]] = {u \in @ : Nonce[u] # Nonce[t]}]
    /\ all' = all \ {t}
    /\ UNCHANGED <<pending, pendingState, beats>>

RemoveTx(t) ==
    IF t \notin all
    THEN UNCHANGED <<pending, queue, all, beats, pendingState>>
    ELSE IF Overlaps(pending[From[t]], t) THEN RemovePending(t) ELSE RemoveQueued(t)

RemoveOne(t) ==
    /\ pc = "remove" /\ t \in victims
    /\ RemoveTx(t)
    /\ victims' = victims \ {t}
    /\ UNCHANGED <<chainVars, locals, current, head, pc, then, todo, loc, rem, add, included,
                   accts, offenders, drop>>

\* back to the loop over the overflow; after an eviction there is none
RemoveDone ==
    /\ pc = "remove" /\ victims = {}
    /\ pc' = "overflow"
    /\ UNCHANGED <<chainVars, poolVars, head, then, todo, loc, rem, add, included, accts,
                   offenders, drop, victims>>

\* the evict timer: the heartbeats of rank at most k, and the missing ones, have expired
Evict(k) ==
    /\ pc = "idle"
    /\ victims' = UNION {queue[a] : a \in {b \in Accounts \ locals : beats[b] <= k}}
    /\ pc' = "remove"
    /\ UNCHANGED <<chainVars, poolVars, head, then, todo, loc, rem, add, included, accts,
                   offenders, drop>>

-----------------------------------------------------------------------------
(* reset.  GetBlock finds every ancestor of a head: blocks are deleted by  *)
(* SetHead only, which runs before the pool is created.                    *)

Distance(m, n) == IF m > n THEN m - n ELSE n - m

Reset ==
    /\ pc = "idle" /\ headCh # <<>>
    /\ headCh' = Tail(headCh)
    /\ head' = Head(headCh) /\ add' = Head(headCh)
    /\ rem' = IF /\ Parent[Head(headCh)] # head
                 /\ Distance(Number[head], Number[Head(headCh)]) <= ReorgDepth
              THEN head ELSE Head(headCh)
    /\ pc' = "walk" /\ todo' = <<>> /\ included' = {}
    /\ UNCHANGED <<cur, poolVars, then, loc, accts, offenders, drop, victims>>

\* mutant: level branches lose the old block's transactions
WalkForgets ==
    /\ pc = "walk" /\ rem # add
    /\ IF Number[rem] >= Number[add]
       THEN rem' = Parent[rem]
            /\ todo' = IF Number[rem] > Number[add] THEN todo \o TxsOf[rem] ELSE todo
       ELSE UNCHANGED <<todo, rem>>
    /\ IF Number[add] >= Number[rem]
       THEN included' = included \cup Txs(add) /\ add' = Parent[add]
       ELSE UNCHANGED <<included, add>>
    /\ UNCHANGED <<chainVars, poolVars, head, pc, then, loc, accts, offenders, drop, victims>>

\* mutant: level branches are not walked
WalkStuck ==
    /\ pc = "walk" /\ Number[rem] # Number[add]
    /\ IF Number[rem] > Number[add]
       THEN todo' = todo \o TxsOf[rem] /\ rem' = Parent[rem]
       ELSE UNCHANGED <<todo, rem>>
    /\ IF Number[add] > Number[rem]
       THEN included' = included \cup Txs(add) /\ add' = Parent[add]
       ELSE UNCHANGED <<included, add>>
    /\ UNCHANGED <<chainVars, poolVars, head, pc, then, loc, accts, offenders, drop, victims>>

\* one block back on the higher branch, on both when they are level; the discarded
\* transactions are gathered from the old head downwards
Walk ==
    /\ pc = "walk" /\ rem # add
    /\ IF Number[rem] >= Number[add]
       THEN todo' = todo \o TxsOf[rem] /\ rem' = Parent[rem]
       ELSE UNCHANGED <<todo, rem>>
    /\ IF Number[add] >= Number[rem]
       THEN included' = included \cup Txs(add) /\ add' = Parent[add]
       ELSE UNCHANGED <<included, add>>
    /\ UNCHANGED <<chainVars, poolVars, head, pc, then, loc, accts, offenders, drop, victims>>

\* mutant: the state of the old head stays in use
WalkDoneStale ==
    /\ pc = "walk" /\ rem = add
    /\ pc' = "add" /\ then' = "demote" /\ loc' = FALSE /\ accts' = {}
    /\ UNCHANGED <<chainVars, poolVars, head, todo, rem, add, included, offenders, drop, victims>>

WalkDone ==
    /\ pc = "walk" /\ rem = add
    /\ current' = head /\ pendingState' = StateNonce[head]
    /\ pc' = "add" /\ then' = "demote" /\ loc' = FALSE /\ accts' = {}
    /\ UNCHANGED <<chainVars, pending, queue, all, beats, locals, head, todo, rem, add, included,
                   offenders, drop, victims>>

\* mutant: a gap in front is not looked for
DemoteNoGap(a) ==
    /\ pc = "demote" /\ a \in accts
    /\ accts' = accts \ {a}
    /\ LET young == Forward(pending[a], StateNonce[current][a])
           costly == Unpayable(young, Balance[current][a])
           invalids == Invalids(young, costly)
           left == (young \ costly) \ invalids
           more == AddAll(queue[a], invalids)
       IN /\ pending' = [pending EXCEPT ![a] = left]
          /\ queue' = [queue EXCEPT ![a] = more]
          /\ all' = (all \ ((pending[a] \ young) \cup costly)) \cup (more \ queue[a])
          /\ beats' = IF left = {} THEN NoBeat(a) ELSE beats
    /\ UNCHANGED <<chainVars, locals, current, pendingState, head, pc, then, todo, loc, rem, add,
                   included, offenders, drop, victims>>

\* mutant: the unpayable transactions stay in the index
DemoteLeaks(a) ==
    /\ pc = "demote" /\ a \in accts
    /\ accts' = accts \ {a}
    /\ LET nonce == StateNonce[current][a]
           young == Forward(pending[a], nonce)
           costly == Unpayable(young, Balance[current][a])
           invalids == Invalids(young, costly)
           runs == (young \ costly) \ invalids
           left == IF NonceIn(runs, nonce) THEN runs ELSE {}
           more == AddAll(queue[a], invalids \cup (runs \ left))
       IN /\ pending' = [pending EXCEPT ![a] = left]
          /\ queue' = [queue EXCEPT ![a] = more]
          /\ all' = (all \ (pending[a] \ young)) \cup (more \ queue[a])
          /\ beats' = IF left = {} THEN NoBeat(a) ELSE beats
    /\ UNCHANGED <<chainVars, locals, current, pendingState, head, pc, then, todo, loc, rem, add,
                   included, offenders, drop, victims>>

\* demoteUnexecutables
DemoteAccount(a) ==
    /\ pc = "demote" /\ a \in accts
    /\ accts' = accts \ {a}
    /\ LET nonce == StateNonce[current][a]
           young == Forward(pending[a], nonce)
           costly == Unpayable(young, Balance[current][a])
           invalids == Invalids(young, costly)
           runs == (young \ costly) \ invalids
           left == IF NonceIn(runs, nonce) THEN runs ELSE {}
           more == AddAll(queue[a], invalids \cup (runs \ left))
       IN /\ pending' = [pending EXCEPT ![a] = left]
          /\ queue' = [queue EXCEPT ![a] = more]
          /\ all' = (all \ ((pending[a] \ young) \cup costly)) \cup (more \ queue[a])
          /\ beats' = IF left = {} THEN NoBeat(a) ELSE beats
    /\ UNCHANGED <<chainVars, locals, current, pendingState, head, pc, then, todo, loc, rem, add,
                   included, offenders, drop, victims>>

\* the nonces of the accounts that still have pending transactions, then promoteExecutables(nil)
DemoteDone ==
    /\ pc = "demote" /\ accts = {}
    /\ pendingState' = [a \in Accounts |->
           IF pending[a] = {} THEN pendingState[a] ELSE NonceAfter(pending[a])]
    /\ pc' = "promote" /\ accts' = Queued
    /\ UNCHANGED <<chainVars, pending, queue, all, beats, locals, current, head, then, todo, loc,
                   rem, add, included, offenders, drop, victims>>

-----------------------------------------------------------------------------
(* The chain: a higher block becomes the head and its event is posted.  A  *)
(* longer side branch arrives in one InsertChain, which posts one event.   *)

Import(b) ==
    /\ Number[b] > Number[cur]
    /\ cur' = b /\ headCh' = Append(headCh, b)
    /\ UNCHANGED <<poolVars, opVars>>

Batches == UNION {[1..n -> Tx] : n \in 1..MaxBatch}

Step ==
    \/ AddOne \/ AddDone
    \/ \E a \in Accounts : PromoteAccount(a) \/ NextOffender(a) \/ DropFrom(a) \/ DemoteAccount(a)
    \/ PromoteDone \/ Equalize \/ SpamDone \/ Reduce \/ ReduceDone \/ OverflowDone
    \/ \E t \in victims : RemoveOne(t)
    \/ RemoveDone \/ Walk \/ WalkDone \/ DemoteDone

Next ==
    \/ \E b \in Blocks : Import(b)
    \/ \E batch \in Batches, local \in BOOLEAN : AddTxs(batch, local)
    \/ \E k \in 0..Cardinality(Accounts) : Evict(k)
    \/ Reset
    \/ Step

Spec == Init /\ [][Next]_vars

\* Go's mutex hands the lock to every waiter in the end and loop's select picks every
\* ready case in the end; the holder of the lock keeps running.
FairSpec == Spec /\ WF_vars(Step) /\ SF_vars(Reset)

-----------------------------------------------------------------------------
(* Properties *)

Unique(S) == \A t, u \in S : Nonce[t] = Nonce[u] => t = u

\* pool.all is exactly the union of the lists, no nonce of an account is both pending and
\* queued, and no list holds two transactions of a nonce.  The lists and the index are
\* updated separately in every operation; an entry of all without a list would use up the
\* pool's capacity for ever, and a nonce in both lists would make removeTx drop the wrong one.
Accounted ==
    /\ all = UNION {pending[a] \cup queue[a] : a \in Accounts}
    /\ \A a \in Accounts : /\ \A t \in pending[a] \cup queue[a] : From[t] = a
                           /\ Unique(pending[a] \cup queue[a])
                           /\ pending[a] \cap queue[a] = {}

\* The pool never holds more transactions than GlobalSlots + GlobalQueue, whatever mix of
\* reinjections, demotions and additions got it there.
PoolBounded == Cardinality(all) <= GlobalSlots + GlobalQueue

\* When the lock is free the limits hold: pending transactions exceed GlobalSlots only if no
\* remote account has more than AccountSlots of them; no remote account has more than
\* AccountQueue queued; the queue exceeds GlobalQueue only if local accounts alone fill it.
LimitsHold ==
    pc = "idle" =>
        /\ \/ Count(pending) <= GlobalSlots
           \/ \A a \in Accounts \ locals : Cardinality(pending[a]) <= AccountSlots
        /\ \A a \in Accounts \ locals : Cardinality(queue[a]) <= AccountQueue
        /\ Count(queue) <= GlobalQueue \/ Queued \subseteq locals

TruncatesLongest ==
    pc \in {"equalize", "reduce"} =>
        \A a \in Accounts : pending'[a] # pending[a] =>
            /\ a \notin locals
            /\ Cardinality(pending'[a]) >= AccountSlots
            /\ \A b \in Accounts \ locals : Cardinality(pending[b]) <= Cardinality(pending[a])

\* Truncating the pending lists takes from the longest lists of the remote accounts only, and
\* leaves every account the AccountSlots it is guaranteed.
FairTruncation == [][TruncatesLongest]_vars

\* When the lock is free, every pending list starts at the nonce of the state the pool
\* validates against, and the account can pay for each of its transactions: the block
\* producer can execute the first transaction of every list.
Executable ==
    pc = "idle" =>
        \A a \in Accounts : pending[a] # {} =>
            /\ NonceIn(pending[a], StateNonce[current][a])
            /\ \A t \in pending[a] : /\ Nonce[t] >= StateNonce[current][a]
                                     /\ Cost[t] <= Balance[current][a]

\* Every chain head reaches the pool: once the chain has settled, the state the pool
\* validates against is the one of the chain's head.
FollowsHead == <>[](current = cur)

\* Every operation on the pool ends: the truncation and removal loops terminate.
OperationsEnd == pc # "idle" ~> pc = "idle"
=============================================================================
