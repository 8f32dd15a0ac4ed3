----------------------------- MODULE LogSearch -----------------------------
(***************************************************************************)
(* A query for past logs (node/services/mjoy/filters/filter.go): the       *)
(* indexed part of the range is searched with the bloom bits, the rest     *)
(* block by block with the blooms of the headers, while the chain and the  *)
(* index grow. A log is a record of an address and a sequence of topics; a *)
(* bloom is the set of the bits of its values, and values may share a bit. *)
(***************************************************************************)
EXTENDS Integers, Sequences, FiniteSets, SequencesExt

CONSTANTS
    Chain,      \* the logs of the blocks 0, 1, ...: a sequence of sequences of logs
    BitOf,      \* [value -> its bit], the hash of the bloom filter
    Queries,    \* the queries asked: addresses, a sequence of sets of topics, begin and end
    Size        \* blocks per section

VARIABLES
    head,       \* the number of the head block
    sections,   \* the sections of the index that are complete
    qpc,        \* "idle", "indexed", "rest", "done" or "failed"
    query,      \* the query
    begin,      \* f.begin
    end,        \* the last block wanted
    last,       \* the last block of the indexed part
    first,      \* history: the first block wanted
    headAt,     \* history: the head when the query began
    out         \* the logs found: pairs of a block and the position of the log in it

vars == <<head, sections, qpc, query, begin, end, last, first, headAt, out>>

Latest == -1
Blocks == 0..(Len(Chain) - 1)
LogsOf(n) == Chain[n + 1]

Init ==
    /\ head = 0 /\ sections = 0 /\ qpc = "idle" /\ query \in Queries
    /\ begin = 0 /\ end = 0 /\ last = 0 /\ first = 0 /\ headAt = 0 /\ out = <<>>

-----------------------------------------------------------------------------
(* What matches *)

Bloom(n) == UNION {{BitOf[LogsOf(n)[i].address]} \cup {BitOf[t] : t \in ToSet(LogsOf(n)[i].topics)}
                   : i \in DOMAIN LogsOf(n)}

\* bloomFilter, and the rules of NewMatcher: an empty rule is a wildcard; topics have no position
BloomFilter(n) ==
    /\ query.addresses # {} => \E a \in query.addresses : BitOf[a] \in Bloom(n)
    /\ \A i \in DOMAIN query.topics :
          query.topics[i] # {} => \E t \in query.topics[i] : BitOf[t] \in Bloom(n)

\* filterLogs: the topics by position
Match(log) ==
    /\ query.addresses # {} => log.address \in query.addresses
    /\ Len(query.topics) <= Len(log.topics)
    /\ \A i \in DOMAIN query.topics : query.topics[i] # {} => log.topics[i] \in query.topics[i]

\* checkMatches
CheckMatches(n) == LET found == {i \in DOMAIN LogsOf(n) : Match(LogsOf(n)[i])}
                   IN  [k \in 1..Cardinality(found) |-> <<n, SetToSortSeq(found, <)[k]>>]

-----------------------------------------------------------------------------
(* The query *)

\* Mutant: the indexed part is searched to its end, whatever the query asks for
LogsToIndexEnd ==
    LET b == IF query.begin = Latest THEN head ELSE query.begin
        e == IF query.end = Latest THEN head ELSE query.end
        indexed == sections * Size
    IN  /\ qpc = "idle" /\ headAt' = head /\ begin' = b /\ end' = e /\ first' = b
        /\ IF indexed > b
           THEN qpc' = "indexed" /\ last' = indexed - 1
           ELSE qpc' = "rest" /\ UNCHANGED last
        /\ UNCHANGED <<head, sections, query, out>>

\* Logs: the limits of the range
Logs ==
    LET b == IF query.begin = Latest THEN head ELSE query.begin
        e == IF query.end = Latest THEN head ELSE query.end
        indexed == sections * Size
    IN  /\ qpc = "idle" /\ headAt' = head /\ begin' = b /\ end' = e /\ first' = b
        /\ IF indexed > b
           THEN qpc' = "indexed" /\ last' = IF indexed > e THEN e ELSE indexed - 1
           ELSE qpc' = "rest" /\ UNCHANGED last
        /\ UNCHANGED <<head, sections, query, out>>

Candidates == {n \in begin..last : n \in Blocks /\ BloomFilter(n)}

\* indexedLogs: the next block the matcher suggests, or none is left
IndexedLogs ==
    /\ qpc = "indexed"
    /\ IF Candidates = {}
       THEN begin' = last + 1 /\ qpc' = "rest" /\ UNCHANGED out
       ELSE LET n == CHOOSE c \in Candidates : \A d \in Candidates : c <= d
            IN  begin' = n + 1 /\ out' = out \o CheckMatches(n) /\ UNCHANGED qpc
    /\ UNCHANGED <<head, sections, query, end, last, first, headAt>>

\* unindexedLogs: the next block; a header that is missing ends the search
UnindexedLogs ==
    /\ qpc = "rest"
    /\ IF begin > end \/ begin > head
       THEN qpc' = "done" /\ UNCHANGED <<begin, out>>
       ELSE /\ begin' = begin + 1
            /\ out' = IF BloomFilter(begin) THEN out \o CheckMatches(begin) ELSE out
            /\ UNCHANGED qpc
    /\ UNCHANGED <<head, sections, query, end, last, first, headAt>>

\* the matcher, the database or the caller gives up
Fail ==
    /\ qpc \in {"indexed", "rest"}
    /\ qpc' = "failed"
    /\ UNCHANGED <<head, sections, query, begin, end, last, first, headAt, out>>

\* the chain and its index grow
Grow == head + 1 \in Blocks /\ head' = head + 1
        /\ UNCHANGED <<sections, qpc, query, begin, end, last, first, headAt, out>>
Index == (sections + 1) * Size <= head + 1 /\ sections' = sections + 1
         /\ UNCHANGED <<head, qpc, query, begin, end, last, first, headAt, out>>

Over == qpc \in {"done", "failed"} /\ UNCHANGED vars

Next == Logs \/ IndexedLogs \/ UnindexedLogs \/ Fail \/ Grow \/ Index \/ Over

Spec == Init /\ [][Next]_vars

-----------------------------------------------------------------------------
(* Properties *)

Wanted(lo, hi) == {<<n, i>> \in (lo..hi) \X (1..3) :
                     n \in Blocks /\ i \in DOMAIN LogsOf(n) /\ Match(LogsOf(n)[i])}

(* The logs found match and are in order, without repetition; a search     *)
(* that ends well has found all of the range that was in the chain when it *)
(* began, wherever the border between the index and the rest was.          *)
LogsFound ==
    /\ \A k \in DOMAIN out : out[k] \in Wanted(first, end)
    /\ \A k \in 1..(Len(out) - 1) :
          \/ out[k][1] < out[k + 1][1]
          \/ out[k][1] = out[k + 1][1] /\ out[k][2] < out[k + 1][2]
    /\ qpc = "done" => Wanted(first, IF end < headAt THEN end ELSE headAt) \subseteq ToSet(out)
=============================================================================
