------------------------------- MODULE StateDB -------------------------------
(***************************************************************************)
(* The state database (core/state): live objects over a trie of accounts,  *)
(* a journal that undoes what was done since a snapshot, and the set of    *)
(* dirty objects that are written at the end of a transaction.             *)
(*                                                                         *)
(* An account has one storage slot, so that its storage trie is the value  *)
(* of the slot (0 is absent); code is TRUE when the account has code. The  *)
(* whole StateDB is one record, st, as the operations of the code take and *)
(* change it as one.                                                       *)
(***************************************************************************)
EXTENDS Integers, Sequences, SequencesExt

CONSTANTS
    Addrs,
    MaxBalance, MaxNonce,
    MaxChanges,      \* bound: calls that change the state
    MaxTxs,          \* bound: transactions
    MaxOther,        \* bound: logs and the refund
    Accounts         \* the accounts a trie may have at first; none is empty

VARIABLES
    st,              \* the StateDB
    disk,            \* the committed trie
    codes,           \* accounts whose code is in the database
    saved,           \* what was visible at each valid revision (history)
    changes          \* the number of changes so far

vars == <<st, disk, codes, saved, changes>>

None == [none |-> TRUE]
Unset == -1
Values == {0, 1}

-----------------------------------------------------------------------------
(* State objects *)

newObject(acc) ==
    [acc |-> acc, stor |-> acc.root, cached |-> Unset, dirtyS |-> Unset, dirtyCode |-> FALSE,
     suicided |-> FALSE, touched |-> FALSE, deleted |-> FALSE, onDirty |-> TRUE]
NewAccount == [nonce |-> 0, bal |-> 0, root |-> 0, code |-> FALSE]
Empty(o) == o.acc.nonce = 0 /\ o.acc.bal = 0 /\ ~o.acc.code

\* an object of the trie becomes live when it is looked up
Loaded(s, a) == IF s.objs[a] = None /\ s.trie[a] # None
                THEN [s EXCEPT !.objs[a] = newObject(s.trie[a])] ELSE s
Live(s, a) == LET o == Loaded(s, a).objs[a] IN o # None /\ ~o.deleted
Obj(s, a) == Loaded(s, a).objs[a]

Append1(s, e) == [s EXCEPT !.journal = Append(@, e)]

\* the setters: the object changes and is marked dirty if it can still say so
Changed(s, a, o) ==
    [s EXCEPT !.objs[a] = [o EXCEPT !.onDirty = FALSE],
              !.dirty = IF o.onDirty THEN @ \cup {a} ELSE @]

createObject(s, a) ==
    LET prev == Obj(s, a)
        e == IF Live(s, a) THEN [op |-> "reset", addr |-> a, prev |-> prev] ELSE [op |-> "create", addr |-> a, prev |-> 0]
    IN  Append1(Changed(s, a, newObject(NewAccount)), e)
GetOrNew(s, a) == IF Live(s, a) THEN Loaded(s, a) ELSE createObject(s, a)

StateOf(o) == IF o.cached # Unset THEN o.cached ELSE o.stor

-----------------------------------------------------------------------------
(* Undoing *)

\* the balance an account had before it suicided is not given back
UndoSuicideForgets(s, e) == Changed(s, e.addr, [Obj(s, e.addr) EXCEPT !.suicided = e.prev[1]])

UndoSuicide(s, e) == Changed(s, e.addr, [Obj(s, e.addr) EXCEPT !.suicided = e.prev[1], !.acc.bal = e.prev[2]])

Undo(s, e) ==
    CASE e.op = "create" -> [s EXCEPT !.objs[e.addr] = None, !.dirty = @ \ {e.addr}]
      [] e.op = "reset" -> [s EXCEPT !.objs[e.addr] = e.prev]
      [] e.op = "suicide" -> UndoSuicide(s, e)
      [] e.op = "touch" -> IF e.prev[1] THEN s
                           ELSE [s EXCEPT !.objs[e.addr].touched = FALSE, !.dirty = IF e.prev[2] THEN @ ELSE @ \ {e.addr}]
      [] e.op = "balance" -> Changed(s, e.addr, [Obj(s, e.addr) EXCEPT !.acc.bal = e.prev])
      [] e.op = "nonce" -> Changed(s, e.addr, [Obj(s, e.addr) EXCEPT !.acc.nonce = e.prev])
      [] e.op = "code" -> Changed(s, e.addr, [Obj(s, e.addr) EXCEPT !.acc.code = e.prev, !.dirtyCode = TRUE])
      [] e.op = "storage" -> Changed(s, e.addr, [Obj(s, e.addr) EXCEPT !.cached = e.prev, !.dirtyS = e.prev])
      [] e.op = "refund" -> [s EXCEPT !.refund = e.prev]
      [] e.op = "log" -> [s EXCEPT !.logs[e.prev] = @ - 1, !.logSize = @ - 1]
      [] e.op = "preimage" -> [s EXCEPT !.preimages = @ \ {e.prev}]

\* the state with the journal replayed backwards to length n
UndoTo(s, n) ==
    [FoldLeft(Undo, s, Reverse(SubSeq(s.journal, n + 1, Len(s.journal)))) EXCEPT !.journal = SubSeq(@, 1, n)]

\* what the callers of the StateDB can see
View(s) == [accounts |-> [a \in Addrs |-> IF ~Live(s, a) THEN None
                             ELSE LET o == Obj(s, a)
                                  IN  [nonce |-> o.acc.nonce, bal |-> o.acc.bal, code |-> o.acc.code,
                                       slot |-> StateOf(o), suicided |-> o.suicided]],
            refund |-> s.refund, logs |-> s.logs, logSize |-> s.logSize, preimages |-> s.preimages]

-----------------------------------------------------------------------------
(* The operations *)

New(trie) ==
    [trie |-> trie, objs |-> [a \in Addrs |-> None], dirty |-> {}, journal |-> <<>>, revisions |-> <<>>,
     refund |-> 0, logs |-> [t \in 0..MaxTxs |-> 0], logSize |-> 0, preimages |-> {}, thash |-> 0, committed |-> FALSE]

\* code is stored with its account
Init ==
    /\ disk \in [Addrs -> {None} \cup Accounts]
    /\ st = New(disk)
    /\ codes = {a \in Addrs : disk[a] # None /\ disk[a].code}
    /\ saved = <<>> /\ changes = 0

Do(s) ==
    /\ ~st.committed /\ changes < MaxChanges
    /\ st' = s /\ changes' = changes + 1
    /\ UNCHANGED <<disk, codes, saved>>

SetBalance(s, a, n) ==
    Append1(Changed(s, a, [Obj(s, a) EXCEPT !.acc.bal = n]),
            [op |-> "balance", addr |-> a, prev |-> Obj(s, a).acc.bal])

\* an empty account is touched so that it is removed
Touch(s, a) ==
    LET o == Obj(s, a)
    IN  Append1(Changed(s, a, [o EXCEPT !.touched = TRUE]),
                [op |-> "touch", addr |-> a, prev |-> <<o.touched, ~o.onDirty>>])

AddBalance(a, n) ==
    LET s == GetOrNew(st, a)
    IN  /\ Obj(s, a).acc.bal + n <= MaxBalance
        /\ Do(IF n # 0 THEN SetBalance(s, a, Obj(s, a).acc.bal + n)
              ELSE IF Empty(Obj(s, a)) THEN Touch(s, a) ELSE s)

\* its caller has compared the balance with the amount
SubBalance(a, n) ==
    LET s == GetOrNew(st, a)
    IN  n <= Obj(s, a).acc.bal /\ Do(IF n = 0 THEN s ELSE SetBalance(s, a, Obj(s, a).acc.bal - n))

SetNonce(a) ==
    LET s == GetOrNew(st, a)
        o == Obj(s, a)
    IN  /\ o.acc.nonce < MaxNonce
        /\ Do(Append1(Changed(s, a, [o EXCEPT !.acc.nonce = @ + 1]), [op |-> "nonce", addr |-> a, prev |-> o.acc.nonce]))

SetCode(a) ==
    LET s == GetOrNew(st, a)
        o == Obj(s, a)
    IN  Do(Append1(Changed(s, a, [o EXCEPT !.acc.code = TRUE, !.dirtyCode = TRUE]),
                   [op |-> "code", addr |-> a, prev |-> o.acc.code]))

SetState(a, v) ==
    LET s == GetOrNew(st, a)
        o == Obj(s, a)
    IN  Do(Append1(Changed(s, a, [o EXCEPT !.cached = v, !.dirtyS = v]),
                   [op |-> "storage", addr |-> a, prev |-> StateOf(o)]))

Suicide(a) ==
    /\ Live(st, a)
    /\ LET o == Obj(st, a)
       IN  Do(Append1(Changed(Loaded(st, a), a, [o EXCEPT !.suicided = TRUE, !.acc.bal = 0]),
                      [op |-> "suicide", addr |-> a, prev |-> <<o.suicided, o.acc.bal>>]))

\* the balance is carried over
CreateAccount(a) ==
    LET s == createObject(st, a)
    IN  Do(IF Live(st, a) THEN Changed(s, a, [Obj(s, a) EXCEPT !.acc.bal = Obj(st, a).acc.bal]) ELSE s)

AddRefund ==
    /\ st.refund < MaxOther
    /\ Do(Append1([st EXCEPT !.refund = @ + 1], [op |-> "refund", addr |-> 0, prev |-> st.refund]))
AddLog ==
    /\ st.logSize < MaxOther
    /\ Do(Append1([st EXCEPT !.logs[st.thash] = @ + 1, !.logSize = @ + 1], [op |-> "log", addr |-> 0, prev |-> st.thash]))
AddPreimage ==
    /\ "h" \notin st.preimages
    /\ Do(Append1([st EXCEPT !.preimages = @ \cup {"h"}], [op |-> "preimage", addr |-> 0, prev |-> "h"]))

Snapshot ==
    /\ ~st.committed /\ Len(st.revisions) < 2
    /\ st' = [st EXCEPT !.revisions = Append(@, Len(st.journal))]
    /\ saved' = Append(saved, View(st))
    /\ UNCHANGED <<disk, codes, changes>>

RevertToSnapshot(i) ==
    /\ ~st.committed
    /\ st' = [UndoTo(st, st.revisions[i]) EXCEPT !.revisions = SubSeq(@, 1, i - 1)]
    /\ saved' = SubSeq(saved, 1, i - 1)
    /\ UNCHANGED <<disk, codes, changes>>

clearJournalAndRefund(s) == [s EXCEPT !.journal = <<>>, !.revisions = <<>>, !.refund = 0]

\* the storage goes into its trie, and the account with its root into the trie
Updated(o) == LET v == IF o.dirtyS # Unset THEN o.dirtyS ELSE o.stor
              IN  [o EXCEPT !.dirtyS = Unset, !.stor = v, !.acc.root = v]
updateStateObject(s, a) == LET o == Updated(s.objs[a]) IN [s EXCEPT !.objs[a] = o, !.trie[a] = o.acc]
deleteStateObject(s, a) == [s EXCEPT !.objs[a].deleted = TRUE, !.trie[a] = None]

Finalised(s) ==
    clearJournalAndRefund(
        FoldLeft(LAMBDA t, a : IF t.objs[a].suicided \/ Empty(t.objs[a]) THEN deleteStateObject(t, a) ELSE updateStateObject(t, a),
                 s, SetToSeq(s.dirty)))

\* a transaction ends and the next one is prepared
Finalise ==
    /\ ~st.committed /\ st.thash < MaxTxs
    /\ st' = [Finalised(st) EXCEPT !.thash = @ + 1]
    /\ saved' = <<>> /\ UNCHANGED <<disk, codes, changes>>

\* a suicided object is removed even if it is not dirty
CommitTo ==
    LET live == {a \in Addrs : st.objs[a] # None}
        gone(a) == st.objs[a].suicided \/ (a \in st.dirty /\ Empty(st.objs[a]))
        kept == {a \in live : ~gone(a) /\ a \in st.dirty}
        s == FoldLeft(LAMBDA t, a : IF gone(a) THEN deleteStateObject(t, a)
                                    ELSE [updateStateObject(t, a) EXCEPT !.objs[a].dirtyCode = FALSE],
                      st, SetToSeq({a \in live : gone(a)} \cup kept))
    IN  /\ ~st.committed
        /\ codes' = codes \cup {a \in kept : st.objs[a].acc.code /\ st.objs[a].dirtyCode}
        /\ st' = [clearJournalAndRefund(s) EXCEPT !.dirty = {}, !.committed = TRUE]
        /\ disk' = s.trie /\ saved' = <<>> /\ UNCHANGED changes

\* the next block starts from the committed state: Reset, or a new StateDB
Reset ==
    /\ st.committed /\ st' = New(disk)
    /\ UNCHANGED <<disk, codes, saved, changes>>

Next ==
    \/ \E a \in Addrs : \/ \E n \in {0, 1} : AddBalance(a, n) \/ SubBalance(a, n)
                        \/ SetNonce(a) \/ SetCode(a) \/ Suicide(a) \/ CreateAccount(a)
                        \/ \E v \in Values : SetState(a, v)
    \/ AddRefund \/ AddLog \/ AddPreimage
    \/ Snapshot \/ (\E i \in DOMAIN st.revisions : RevertToSnapshot(i))
    \/ Finalise \/ CommitTo \/ Reset

Spec == Init /\ [][Next]_vars

-----------------------------------------------------------------------------
(* Copy *)

deepCopy(o) == [o EXCEPT !.cached = o.dirtyS, !.touched = FALSE, !.onDirty = TRUE]
Copy(s) == [s EXCEPT !.objs = [a \in Addrs |-> IF a \in s.dirty THEN deepCopy(s.objs[a]) ELSE None],
                     !.journal = <<>>, !.revisions = <<>>]

-----------------------------------------------------------------------------
(* Properties *)

(* "RevertToSnapshot reverts all state changes made since the given        *)
(* revision": whatever was done, undoing the journal shows what was        *)
(* visible at each snapshot.                                               *)
Undoable == \A i \in DOMAIN st.revisions : View(UndoTo(st, st.revisions[i])) = saved[i]

\* what remains when the transaction ends: no suicided and no empty accounts
Remaining(s) == [a \in Addrs |-> LET v == View(s).accounts[a]
                                 IN  IF v = None THEN None
                                     ELSE IF v.suicided \/ (v.nonce = 0 /\ v.bal = 0 /\ ~v.code) THEN None
                                     ELSE [nonce |-> v.nonce, bal |-> v.bal, root |-> v.slot, code |-> v.code]]

(* No change is forgotten by the set of dirty objects: the trie holds      *)
(* exactly what was visible when the transaction is finalised.             *)
FinaliseExact == ~st.committed => Finalised(st).trie = Remaining(st)

(* The objects that are on disk have their code there. *)
CodeStored == \A a \in Addrs : disk[a] # None /\ disk[a].code => a \in codes

(* "Copy creates a deep, independent copy of the state": it shows the same *)
(* and ends in the same trie.                                              *)
CopyExact == ~st.committed => View(Copy(st)) = View(st) /\ Finalised(Copy(st)).trie = Finalised(st).trie

StateSound == Undoable /\ FinaliseExact /\ CodeStored /\ CopyExact
=============================================================================
