----------------------------- MODULE BlockBuild -----------------------------
(***************************************************************************)
(* The producer fills a block from the pending transactions of the pool    *)
(* (commitNewWork, commitTransactions) and another node validates it       *)
(* (Process, ValidateBody, ValidateState). The lists of the pool may be    *)
(* behind the state or ahead of it, as the pool follows the head on its    *)
(* own.                                                                    *)
(*                                                                         *)
(* A transaction is [from, nonce, to, value]; to is "" for the creation of *)
(* a contract. Reverting is exact, which StateDB shows, so a state is just *)
(* the nonces and balances; accounts that are empty do not exist.          *)
(***************************************************************************)
EXTENDS Integers, Sequences, SequencesExt, FiniteSets

CONSTANTS
    Accounts,        \* the accounts, the coinbase among them
    coinbase,
    Pools,           \* what the pool may return: sets of lists, by sender
    Nonces, Balances,    \* those of the accounts in the parent state
    FeeUnit,         \* a transaction costs 1/FeeUnit of its value, and at least 1
    Reward

VARIABLES
    parent,          \* the state of the parent block
    pending,         \* the transactions of the pool, by sender
    env,             \* the work: the state, the transactions and the receipts
    heads, txs,      \* TransactionForProducing
    failed,          \* transactions that could not be applied (history)
    block,           \* the block, when it is finished
    verdict          \* that of the other node

vars == <<parent, pending, env, heads, txs, failed, block, verdict>>

NoBlock == [none |-> TRUE]

-----------------------------------------------------------------------------
(* State transition *)

Fee(tx) == IF tx.value \div FeeUnit < 1 THEN 1 ELSE tx.value \div FeeUnit

\* the new state and an error; a state with an error is the one before
TransitionDb(s, tx, author) ==
    IF s.nonce[tx.from] < tx.nonce THEN [err |-> "nonce too high", state |-> s]
    ELSE IF s.nonce[tx.from] > tx.nonce THEN [err |-> "nonce too low", state |-> s]
    ELSE IF tx.to = "" \/ s.bal[tx.from] < Fee(tx) + tx.value THEN [err |-> "failed", state |-> s]
    ELSE LET paid == [s.bal EXCEPT ![tx.to] = @ + tx.value]
             fee == [paid EXCEPT ![author] = @ + Fee(tx)]
         IN  [err |-> "", state |-> [nonce |-> [s.nonce EXCEPT ![tx.from] = @ + 1],
                                     bal |-> [fee EXCEPT ![tx.from] = @ - Fee(tx) - tx.value]]]

Receipt(tx) == [status |-> 1, tx |-> tx]

\* the index is not written as it has no fixed size, so that every entry has the empty key
DeriveSha(list) == IF list = <<>> THEN <<>> ELSE <<list[Len(list)]>>

-----------------------------------------------------------------------------
(* Producing *)

Init ==
    /\ parent \in [nonce : [Accounts -> Nonces], bal : [Accounts -> Balances]]
    /\ pending \in Pools
    /\ env = [state |-> parent, txs |-> <<>>, receipts |-> <<>>]
    /\ heads = <<>> /\ txs = pending /\ failed = {}
    /\ block = NoBlock /\ verdict = "start"

\* the first transactions of all accounts, in the order of a map
NewTransactionsForProducing ==
    /\ verdict = "start" /\ verdict' = "fill"
    /\ \E order \in SetToSeqs({a \in DOMAIN pending : pending[a] # <<>>}) :
          heads' = [i \in DOMAIN order |-> pending[order[i]][1]]
    /\ txs' = [a \in DOMAIN pending |-> IF pending[a] = <<>> THEN <<>> ELSE Tail(pending[a])]
    /\ UNCHANGED <<parent, pending, env, failed, block>>

Pop == heads' = Tail(heads) /\ UNCHANGED txs
Shift == LET a == heads[1].from
         IN  IF txs[a] # <<>> THEN heads' = <<txs[a][1]>> \o Tail(heads) /\ txs' = [txs EXCEPT ![a] = Tail(@)]
             ELSE Pop

\* what could not be applied is in the block as well
commitTransactionUnchecked(tx) ==
    LET r == TransitionDb(env.state, tx, coinbase)
    IN  env' = [state |-> r.state, txs |-> Append(env.txs, tx), receipts |-> Append(env.receipts, Receipt(tx))]

commitTransaction(tx) ==
    LET r == TransitionDb(env.state, tx, coinbase)
    IN  IF r.err # "" THEN UNCHANGED env
        ELSE env' = [state |-> r.state, txs |-> Append(env.txs, tx), receipts |-> Append(env.receipts, Receipt(tx))]

commitTransactions ==
    /\ verdict = "fill" /\ heads # <<>>
    /\ LET err == TransitionDb(env.state, heads[1], coinbase).err
       IN  /\ commitTransaction(heads[1])
           /\ IF err = "nonce too high" THEN Pop ELSE Shift
           /\ failed' = IF err = "" THEN failed ELSE failed \cup {heads[1]}
    /\ UNCHANGED <<parent, pending, block, verdict>>

Rewarded(s) == [s EXCEPT !.bal[coinbase] = @ + Reward]

\* Engine_empty.Finalize and NewBlock
Finalize ==
    /\ verdict = "fill" /\ heads = <<>> /\ verdict' = "built"
    /\ block' = [root |-> Rewarded(env.state), txHash |-> DeriveSha(env.txs), receiptHash |-> DeriveSha(env.receipts),
                 txs |-> env.txs]
    /\ UNCHANGED <<parent, pending, env, heads, txs, failed>>

-----------------------------------------------------------------------------
(* Validating *)

ValidateBody(b) == DeriveSha(b.txs) = b.txHash

Process(b) ==
    FoldLeft(LAMBDA r, tx : LET t == TransitionDb(r.state, tx, coinbase)
                            IN  IF r.err # "" THEN r
                                ELSE [err |-> t.err, state |-> t.state, receipts |-> Append(r.receipts, Receipt(tx))],
             [err |-> "", state |-> parent, receipts |-> <<>>], b.txs)

ValidateState(b, r) == DeriveSha(r.receipts) = b.receiptHash /\ Rewarded(r.state) = b.root

Validate ==
    /\ verdict = "built"
    /\ LET r == Process(block)
       IN  verdict' = IF ~ValidateBody(block) THEN "bad body"
                      ELSE IF r.err # "" THEN r.err
                      ELSE IF ~ValidateState(block, r) THEN "bad state" ELSE "valid"
    /\ UNCHANGED <<parent, pending, env, heads, txs, failed, block>>

Done == verdict \notin {"start", "fill", "built"} /\ UNCHANGED vars

Next == NewTransactionsForProducing \/ commitTransactions \/ Finalize \/ Validate \/ Done

Spec == Init /\ [][Next]_vars

-----------------------------------------------------------------------------
(* Properties *)

Total(bal) == FoldSet(LAMBDA a, n : bal[a] + n, 0, Accounts)

(* A block of the producer is valid for every other node, and its          *)
(* transactions create no money but the reward.                            *)
BlockValid ==
    verdict \notin {"start", "fill"} =>
        /\ verdict \in {"built", "valid"}
        /\ Total(block.root.bal) = Total(parent.bal) + Reward
        /\ \A a \in Accounts : block.root.bal[a] >= 0

(* No transaction that could have been next is left out without having     *)
(* been tried: what is skipped with an account follows one that failed.    *)
NoneSkipped ==
    verdict = "built" => \A a \in DOMAIN pending : \A tx \in ToSet(pending[a]) :
                            tx.nonce = env.state.nonce[a] => tx \in failed

BuildSound == BlockValid /\ NoneSkipped

(* "Tre receipt Trie's root (R = (Tr [[H1, R1], ... [Hn, R1]]))": the root *)
(* in the header is that of all receipts and of all transactions, so that  *)
(* a body with other transactions does not match it.                       *)
RootCoversAll ==
    verdict = "built" => \A i \in DOMAIN block.txs :
        ~ValidateBody([block EXCEPT !.txs = RemoveAt(block.txs, i)])
=============================================================================
