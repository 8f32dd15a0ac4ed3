------------------------------- MODULE MCStore ------------------------------
(***************************************************************************)
(* What a node stores and looks up: state, blocks, transactions, indexes,  *)
(* and their encoding. The parts never run together: part says which of    *)
(* them a behaviour is about, and their variables share x1 .. x20, so that *)
(* one run explores all of them without multiplying their states.          *)
(***************************************************************************)
EXTENDS Integers, Sequences, TLC

CONSTANTS r1, r2

VARIABLES part, x1, x2, x3, x4, x5, x6, x7, x8, x9, x10, x11, x12, x13, x14, x15, x16, x17, x18, x19,
          x20

\* logs of a chain, and queries about it
L(a, t) == [address |-> a, topics |-> t]
MCChain == << <<>>, <<L("A", <<"x">>)>>, <<L("B", <<"x", "y">>), L("A", <<>>)>>, <<L("B", <<"y">>)>>,
              <<L("A", <<"x", "y">>)>>, <<>>, <<L("A", <<"x", "x">>)>>, <<L("B", <<"x">>)>> >>
MCQueries == [addresses : SUBSET {"A", "B"}, topics : {<<>>, <<{"x"}>>, <<{}, {"y", "x"}>>},
              begin : {-1, 0, 3}, end : {-1, 5, 9}]

\* what the pool returns, by sender
T(from, nonce, to, value) == [from |-> from, nonce |-> nonce, to |-> to, value |-> value]
MCPools == {[A |-> a, B |-> b] :
    a \in {<<>>, <<T("A", 0, "B", 2), T("A", 1, "C", 1), T("A", 2, "A", 3)>>, <<T("A", 1, "", 1), T("A", 2, "B", 1)>>},
    b \in {<<T("B", 0, "A", 4), T("B", 1, "C", 1)>>, <<T("B", 1, "A", 3)>>}}

shared == <<x1, x2, x3, x4, x5, x6, x7, x8, x9, x10, x11, x12, x13, x14, x15, x16, x17, x18,
            x19, x20>>
vars == <<part, shared>>

\* an indexer and its child, sections of two blocks
Indexers == INSTANCE ChainIndexer WITH
    Size <- [parent |-> 2, child |-> 2], Confirms <- [parent |-> 1, child |-> 0],
    Names <- {1, 2}, MaxLength <- 6,
    chain <- x1, events <- x2, prevHeader <- x3, turn <- x4, known <- x5, heads <- x6,
    cascadedHead <- x7, update <- x8, rescheduled <- x9, proc <- x10

\* three transactions and two failures or crashes
Journal == INSTANCE TxJournal WITH
    Txs <- {"t1", "t2", "t3"}, MaxFaults <- 2, MaxLength <- 4,
    journal <- x1, replacement <- x2, writer <- x3, pool <- x4, jpc <- x5, position <- x6,
    mined <- x7, acked <- x8, jfaults <- x9

\* two rules that share their bits, two sections and two retrievers
Match == INSTANCE BloomMatcher WITH
    Filters <- << << <<2, 3>> >>, << <<2>>, <<3>> >> >>,
    Vector <- (2 :> [s \in 0..1 |-> IF s = 0 THEN {1} ELSE {}]) @@ (3 :> [s \in 0..1 |-> {0, 1}]),
    Size <- 2, Begin <- 1, End <- 3, Buffer <- 1, Batch <- 1, Retrievers <- {r1, r2},
    MaxErrors <- 1,
    source <- x1, chain <- x2, process <- x3, reqs <- x4, held <- x5, pend <- x6, sinks <- x7,
    responses <- x8, dist <- x9, requests <- x10, unallocs <- x11, allocs <- x12,
    shutdown <- x13, dpc <- x14, retriever <- x15, results <- x16, pipe <- x17, quit <- x18,
    kill <- x19, failures <- x20

\* two filters and a subscription
Filters == INSTANCE FilterSystem WITH
    Subs <- {"a", "b", "c"},
    Types <- [a |-> {"logs"}, b |-> {"logs", "pending"}, c |-> {"pending"}],
    Polled <- {"a", "b"}, MaxEvents <- 2, MaxExpired <- 1,
    index <- x1, loop <- x2, pc <- x3, got <- x4, unsub <- x5, errClosed <- x6, filters <- x7,
    stored <- x8, expired <- x9, mutex <- x10, timeoutPc <- x11, todo <- x12, uninstall <- x13,
    sent <- x14, events <- x15, expirations <- x16

\* eight blocks; the bits of B and x collide
Search == INSTANCE LogSearch WITH
    Chain <- MCChain, BitOf <- [A |-> 1, B |-> 2, x |-> 2, y |-> 3], Queries <- MCQueries,
    Size <- 2,
    head <- x1, sections <- x2, qpc <- x3, query <- x4, begin <- x5, end <- x6, last <- x7,
    first <- x8, headAt <- x9, out <- x10

\* one account, from nothing, from a balance, or from a contract
State == INSTANCE StateDB WITH
    Addrs <- {"a"}, MaxBalance <- 1, MaxNonce <- 1, MaxChanges <- 3, MaxTxs <- 1, MaxOther <- 1,
    Accounts <- {[nonce |-> 0, bal |-> 1, root |-> 0, code |-> FALSE], [nonce |-> 1, bal |-> 0, root |-> 1, code |-> TRUE]},
    st <- x1, disk <- x2, codes <- x3, saved <- x4, changes <- x5

\* pools with gaps, stale nonces, a self transfer and a contract
Build == INSTANCE BlockBuild WITH
    Accounts <- {"A", "B", "C"}, coinbase <- "C", Pools <- MCPools, Nonces <- {0, 1, 2},
    Balances <- {0, 3, 5}, FeeUnit <- 2, Reward <- 5,
    parent <- x1, pending <- x2, env <- x3, heads <- x4, txs <- x5, failed <- x6, block <- x7,
    verdict <- x8

\* two keys and three chains
Tx == INSTANCE TxIdentity WITH
    Keys <- {"k1", "k2"}, Chains <- {0, 1, 2}, Bodies <- {[to |-> t] : t \in {"", "zero", "a"}},
    W <- 1024, MaxTravels <- 2,
    data <- x1, hash <- x2, from <- x3, signed <- x4, answer <- x5, travels <- x6

\* three keys, one a prefix of another; a clean node is unloaded at once
Tree == INSTANCE Trie WITH
    Keys <- {<<16>>, <<17>>, <<16, 1>>}, Values <- {1},
    Initial <- {(<<16>> :> 1) @@ (<<17>> :> 2) @@ (<<16, 1>> :> 2)}, SmallValue <- 1,
    CacheLimit <- 0, MaxPast <- 1, MaxCommits <- 1, MaxFailures <- 1, MaxRoots <- 2,
    MaxChanges <- 2,
    t <- x1, db <- x2, pre <- x3, past <- x4, roots <- x5, ref <- x6, copied <- x7,
    failures <- x8, changes <- x9

\* every type
Coding == INSTANCE Codec WITH
    type <- x1, value <- x2, target <- x3, msg <- x4, ok <- x5, rest <- x6, way <- x7

Init ==
    \/ part = "indexer" /\ Indexers!Init
       /\ x11 = 0 /\ x12 = 0 /\ x13 = 0 /\ x14 = 0 /\ x15 = 0 /\ x16 = 0 /\ x17 = 0
       /\ x18 = 0 /\ x19 = 0 /\ x20 = 0
    \/ part = "journal" /\ Journal!Init
       /\ x10 = 0 /\ x11 = 0 /\ x12 = 0 /\ x13 = 0 /\ x14 = 0 /\ x15 = 0 /\ x16 = 0
       /\ x17 = 0 /\ x18 = 0 /\ x19 = 0 /\ x20 = 0
    \/ part = "match" /\ Match!Init
    \/ part = "filters" /\ Filters!Init
       /\ x17 = 0 /\ x18 = 0 /\ x19 = 0 /\ x20 = 0
    \/ part = "search" /\ Search!Init
       /\ x11 = 0 /\ x12 = 0 /\ x13 = 0 /\ x14 = 0 /\ x15 = 0 /\ x16 = 0 /\ x17 = 0
       /\ x18 = 0 /\ x19 = 0 /\ x20 = 0
    \/ part = "state" /\ State!Init
       /\ x6 = 0 /\ x7 = 0 /\ x8 = 0 /\ x9 = 0 /\ x10 = 0 /\ x11 = 0 /\ x12 = 0
       /\ x13 = 0 /\ x14 = 0 /\ x15 = 0 /\ x16 = 0 /\ x17 = 0 /\ x18 = 0 /\ x19 = 0
       /\ x20 = 0
    \/ part = "build" /\ Build!Init
       /\ x9 = 0 /\ x10 = 0 /\ x11 = 0 /\ x12 = 0 /\ x13 = 0 /\ x14 = 0 /\ x15 = 0
       /\ x16 = 0 /\ x17 = 0 /\ x18 = 0 /\ x19 = 0 /\ x20 = 0
    \/ part = "tx" /\ Tx!Init
       /\ x7 = 0 /\ x8 = 0 /\ x9 = 0 /\ x10 = 0 /\ x11 = 0 /\ x12 = 0 /\ x13 = 0
       /\ x14 = 0 /\ x15 = 0 /\ x16 = 0 /\ x17 = 0 /\ x18 = 0 /\ x19 = 0 /\ x20 = 0
    \/ part = "trie" /\ Tree!Init
       /\ x10 = 0 /\ x11 = 0 /\ x12 = 0 /\ x13 = 0 /\ x14 = 0 /\ x15 = 0 /\ x16 = 0
       /\ x17 = 0 /\ x18 = 0 /\ x19 = 0 /\ x20 = 0
    \/ part = "codec" /\ Coding!Init
       /\ x8 = 0 /\ x9 = 0 /\ x10 = 0 /\ x11 = 0 /\ x12 = 0 /\ x13 = 0 /\ x14 = 0
       /\ x15 = 0 /\ x16 = 0 /\ x17 = 0 /\ x18 = 0 /\ x19 = 0 /\ x20 = 0

Next ==
    \/ part = "indexer" /\ Indexers!Next /\ UNCHANGED <<part, x11, x12, x13, x14, x15, x16, x17, x18, x19, x20>>
    \/ part = "journal" /\ Journal!Next /\ UNCHANGED <<part, x10, x11, x12, x13, x14, x15, x16, x17, x18, x19, x20>>
    \/ part = "match" /\ Match!Next /\ UNCHANGED part
    \/ part = "filters" /\ Filters!Next /\ UNCHANGED <<part, x17, x18, x19, x20>>
    \/ part = "search" /\ Search!Next /\ UNCHANGED <<part, x11, x12, x13, x14, x15, x16, x17, x18, x19, x20>>
    \/ part = "state" /\ State!Next /\ UNCHANGED <<part, x6, x7, x8, x9, x10, x11, x12, x13, x14, x15, x16, x17, x18, x19, x20>>
    \/ part = "build" /\ Build!Next /\ UNCHANGED <<part, x9, x10, x11, x12, x13, x14, x15, x16, x17, x18, x19, x20>>
    \/ part = "tx" /\ Tx!Next /\ UNCHANGED <<part, x7, x8, x9, x10, x11, x12, x13, x14, x15, x16, x17, x18, x19, x20>>
    \/ part = "trie" /\ Tree!Next /\ UNCHANGED <<part, x10, x11, x12, x13, x14, x15, x16, x17, x18, x19, x20>>
    \/ part = "codec" /\ Coding!Next /\ UNCHANGED <<part, x8, x9, x10, x11, x12, x13, x14, x15, x16, x17, x18, x19, x20>>

Spec == Init /\ [][Next]_vars

-----------------------------------------------------------------------------
(* Properties *)

(* See TxJournal: no journalled transaction is lost by a failure or a      *)
(* crash.                                                                  *)
JournalSound == part = "journal" => Journal!JournalSound

(* See ChainIndexer, BloomMatcher and LogSearch: every section of the      *)
(* index builds on the one before it, and a search finds exactly what      *)
(* matches.                                                                *)
SearchSound ==
    /\ part = "indexer" => Indexers!IndexerSound
    /\ part = "match" => Match!MatcherSound
    /\ part = "search" => Search!LogsFound

(* See FilterSystem: a filter gets its events, and none once it is         *)
(* uninstalled.                                                            *)
FiltersSound == part = "filters" => Filters!FiltersSound

(* See StateDB: a revert restores everything, and what is written is what  *)
(* was seen.                                                               *)
StateSound == part = "state" => State!StateSound

(* See BlockBuild: what the producer builds every node accepts. *)
BuildSound == part = "build" => Build!BuildSound

(* See BlockBuild: the roots of the header are those of all transactions   *)
(* and receipts (blockValidator.go: "Tre receipt Trie's root (R = (Tr      *)
(* [[H1, R1], ... [Hn, R1]]))").                                           *)
RootCoversAll == part = "build" => Build!RootCoversAll

(* See Trie: a trie reads back what was written and its root is that of    *)
(* its contents.                                                           *)
TrieSound == part = "trie" => Tree!TrieSound

(* See Codec and TxIdentity: what is encoded is decoded, or the decoder    *)
(* fails; and a signer gets the key that signed a transaction, or an       *)
(* error, however it came here.                                            *)
EncodingSound ==
    /\ part = "codec" => Coding!CodecSound
    /\ part = "tx" => Tx!SenderSound
=============================================================================
