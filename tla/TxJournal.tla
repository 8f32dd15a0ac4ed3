----------------------------- MODULE TxJournal -----------------------------
(***************************************************************************)
(* The journal of local transactions on disk: appended to as transactions  *)
(* come, rewritten from the pool now and then, and read back at the next   *)
(* start.  The process may die between any two steps, a write may be cut,  *)
(* and each call to the file system may fail.                              *)
(*                                                                         *)
(* A file is the sequence of its transactions; "cut" is a record that was  *)
(* only written in part.  The pool's lock keeps insert and rotate apart.   *)
(***************************************************************************)
EXTENDS Integers, Sequences, SequencesExt, FiniteSets

CONSTANTS Txs, MaxFaults, MaxLength

VARIABLES
    journal, replacement, \* the files at path and path.new
    writer,             \* "nil", "null" (devNull), "file", or "closed" with an error
    pool,               \* the local transactions in the pool
    jpc,                \* "down", "load", "open", "write", "rename", "reopen" or "up"
    position,           \* how much of the journal load has read, or what rotate has still to write
    mined,              \* transactions the chain has taken
    acked,              \* transactions whose insert succeeded, or that rotate wrote, and that are not mined
    jfaults

files == <<journal, replacement>>
vars == <<files, writer, pool, jpc, position, mined, acked, jfaults>>

TypeOK ==
    /\ journal \in Seq(Txs \cup {"cut"}) /\ replacement \in Seq(Txs \cup {"cut"})
    /\ writer \in {"nil", "null", "file", "closed"} /\ pool \subseteq Txs /\ mined \subseteq Txs /\ acked \subseteq Txs
    /\ jpc \in {"down", "load", "open", "write", "rename", "reopen", "up"}

Init ==
    /\ journal = <<>> /\ replacement = <<>> /\ writer = "nil" /\ pool = {}
    /\ jpc = "load" /\ position = 0 /\ mined = {} /\ acked = {} /\ jfaults = 0

Fault == jfaults < MaxFaults /\ jfaults' = jfaults + 1

\* what a reader of the file gets: everything before the first record that does not decode
Readable(f) == {f[k] : k \in {k \in DOMAIN f : \A j \in 1 .. k : f[j] # "cut"}}

-----------------------------------------------------------------------------
(* load *)

\* the next transaction goes to the pool, which refuses those that were mined; meanwhile
\* insert writes to devNull
Load ==
    /\ jpc = "load" /\ position < Len(journal) /\ journal[position + 1] # "cut"
    /\ writer' = "null"
    /\ position' = position + 1
    /\ pool' = IF journal[position + 1] \in mined THEN pool ELSE pool \cup {journal[position + 1]}
    /\ UNCHANGED <<files, jpc, mined, acked, jfaults>>

\* the end, or a record that does not decode; the start goes on with rotate
LoadDone ==
    /\ jpc = "load" /\ (position < Len(journal) => journal[position + 1] = "cut")
    /\ writer' = "nil" /\ jpc' = "open" /\ position' = 0
    /\ UNCHANGED <<files, pool, mined, acked, jfaults>>

-----------------------------------------------------------------------------
(* insert *)

\* AddLocal: the transaction enters the pool whether it can be journalled or not
Insert(tx) ==
    /\ jpc = "up" /\ tx \notin pool \cup mined /\ Len(journal) < MaxLength
    /\ pool' = pool \cup {tx}
    /\ IF writer = "file" THEN journal' = Append(journal, tx) /\ acked' = acked \cup {tx} ELSE UNCHANGED <<journal, acked>>
    /\ UNCHANGED <<replacement, writer, jpc, position, mined, jfaults>>

InsertFails(tx) ==
    /\ jpc = "up" /\ tx \notin pool \cup mined /\ writer = "file" /\ Len(journal) < MaxLength /\ Fault
    /\ pool' = pool \cup {tx}
    /\ journal' \in {journal, Append(journal, "cut")}
    /\ UNCHANGED <<replacement, writer, jpc, position, mined, acked>>

-----------------------------------------------------------------------------
(* rotate *)

\* the current writer is closed; if that fails it is kept, and no later rotation gets further
Rotate ==
    /\ jpc = "up" /\ writer # "closed"
    /\ \/ jpc' = "open" /\ writer' = "nil" /\ UNCHANGED jfaults
       \/ writer # "nil" /\ Fault /\ writer' = "closed" /\ UNCHANGED jpc
    /\ UNCHANGED <<files, pool, position, mined, acked>>

\* any step may fail: the writer stays closed until the next rotation
RotateFails ==
    /\ jpc \in {"open", "write", "rename", "reopen"} /\ Fault
    /\ jpc' = "up" /\ position' = 0
    /\ UNCHANGED <<files, writer, pool, mined, acked>>

\* Mutant: the journal itself is truncated and written again
OpenInPlace ==
    /\ jpc = "open"
    /\ journal' = <<>> /\ replacement' = <<>> /\ jpc' = "write" /\ position' = 0
    /\ UNCHANGED <<writer, pool, mined, acked, jfaults>>

Open ==
    /\ jpc = "open"
    /\ replacement' = <<>> /\ jpc' = "write" /\ position' = 0
    /\ UNCHANGED <<journal, writer, pool, mined, acked, jfaults>>

Write(tx) ==
    /\ jpc = "write" /\ tx \in pool \ ToSet(replacement)
    /\ replacement' = Append(replacement, tx)
    /\ UNCHANGED <<journal, writer, pool, jpc, position, mined, acked, jfaults>>

Written ==
    /\ jpc = "write" /\ pool \subseteq ToSet(replacement)
    /\ jpc' = "rename"
    /\ UNCHANGED <<files, writer, pool, position, mined, acked, jfaults>>

Rename ==
    /\ jpc = "rename"
    /\ journal' = replacement /\ replacement' = <<>> /\ jpc' = "reopen"
    /\ acked' = ToSet(replacement)
    /\ UNCHANGED <<writer, pool, position, mined, jfaults>>

Reopen ==
    /\ jpc = "reopen"
    /\ writer' = "file" /\ jpc' = "up"
    /\ UNCHANGED <<files, pool, position, mined, acked, jfaults>>

-----------------------------------------------------------------------------
(* The node *)

\* a transaction is mined and leaves the pool
Mine(tx) ==
    /\ jpc = "up" /\ tx \in pool
    /\ pool' = pool \ {tx} /\ mined' = mined \cup {tx} /\ acked' = acked \ {tx}
    /\ UNCHANGED <<files, writer, jpc, position, jfaults>>

\* Stop: close
Close ==
    /\ jpc = "up"
    /\ jpc' = "down" /\ writer' = "nil" /\ pool' = {}
    /\ UNCHANGED <<files, position, mined, acked, jfaults>>

\* the process dies; the record being written may be cut
Crash ==
    /\ jpc # "down" /\ Fault
    /\ jpc' = "down" /\ writer' = "nil" /\ pool' = {} /\ position' = 0
    /\ journal' \in {journal} \cup IF jpc = "up" /\ writer = "file" /\ Len(journal) < MaxLength THEN {Append(journal, "cut")} ELSE {}
    /\ UNCHANGED <<replacement, mined, acked>>

Restart ==
    /\ jpc = "down"
    /\ jpc' = "load" /\ position' = 0
    /\ UNCHANGED <<files, writer, pool, mined, acked, jfaults>>

-----------------------------------------------------------------------------

Next ==
    \/ Load \/ LoadDone \/ Rotate \/ RotateFails \/ Open \/ Written \/ Rename \/ Reopen
    \/ \E tx \in Txs : Insert(tx) \/ InsertFails(tx) \/ Write(tx) \/ Mine(tx)
    \/ Close \/ Crash \/ Restart

Spec == Init /\ [][Next]_vars

-----------------------------------------------------------------------------
(* Properties *)

(* A local transaction that was journalled and not mined since can be read *)
(* back, whatever step of a rotation failed and wherever the process died; *)
(* the exception is a transaction written behind a record that an insert   *)
(* left cut, until the next rotation.                                      *)
Survives ==
    LET behind == {journal[k] : k \in {k \in DOMAIN journal : \E j \in 1 .. k : journal[j] = "cut"}}
    IN acked \subseteq Readable(journal) \cup behind

(* When a start is over the pool has them again. *)
Recovered == jpc \in {"open", "write", "rename", "reopen", "up"} => acked \cap Readable(journal) \subseteq pool

(* The journal is never written to while it is being rotated, so that no   *)
(* transaction enters a file that is about to be replaced.                 *)
NotWhileRotating == jpc \in {"open", "write", "rename", "reopen"} => writer = "nil"

JournalSound == TypeOK /\ Survives /\ Recovered /\ NotWhileRotating
=============================================================================
