----------------------------- MODULE TxIdentity -----------------------------
(***************************************************************************)
(* A transaction object with its caches (core/transaction): it is signed,  *)
(* asked for its sender by signers of several chains and for its hash,     *)
(* and travels as msgp or as JSON.                                         *)
(*                                                                         *)
(* A key is its address. A signature is [key, hash, recid]: the key that   *)
(* made it and the hash it was made for (R and S of the code), with the    *)
(* recovery bit that is in V; recovering with the wrong bit or for another *)
(* hash gives an address that is nobody's. Words have W values instead of  *)
(* 2^64.                                                                   *)
(***************************************************************************)
EXTENDS Integers

CONSTANTS
    Keys, Chains,
    Bodies,          \* [nonce, to, value, payload]: only to is told apart; "" is no recipient
    W,               \* number of values of a word
    MaxTravels       \* bound: times the transaction is encoded and decoded

VARIABLES
    data,            \* Txdata: body, V, the signature and the Hash field
    hash, from,      \* the caches
    signed,          \* the key and the chain of the last signing (history)
    answer,          \* the signer that asked last, and what it got
    travels

vars == <<data, hash, from, signed, answer, travels>>

None == [none |-> TRUE]
ZeroAddress == "zero"
Stranger == "stranger"
Error == "error"

-----------------------------------------------------------------------------
(* Signing *)

\* no recipient is hashed like the zero address
SigHash(chain, body) == [to |-> IF body.to = "" THEN ZeroAddress ELSE body.to, chain |-> chain]

SignatureValues(chain, recid) == IF chain = 0 THEN recid + 27 ELSE recid + 35 + 2 * chain

\* the subtraction wraps around
deriveChainId(v) == IF v \in {27, 28} THEN 0 ELSE ((v - 35) % W) \div 2
isProtectedV(v) == v \notin {27, 28}

Ecrecover(h, sig) == IF sig.hash = h THEN sig.key ELSE Stranger

\* v is 0 or 1 and there is a signature
ValidSignature(v, sig) == v \in {0, 1} /\ sig # None

recoverPlain(h, sig, recid, Vb) ==
    LET v == (Vb - 27) % 256
    IN  IF Vb > 255 \/ ~ValidSignature(v, sig) THEN Error
        ELSE IF v # recid THEN Stranger ELSE Ecrecover(h, sig)

\* MSigner.Sender
SignerSender(chain, d) ==
    IF deriveChainId(d.V) # chain THEN Error
    ELSE recoverPlain(SigHash(chain, d.body), d.sig, IF d.sig = None THEN 0 ELSE d.sig.recid, d.V - 2 * chain - 8)

-----------------------------------------------------------------------------
(* The transaction *)

Init ==
    /\ data \in [body : Bodies, V : {0}, sig : {None}, Hash : {None}]
    /\ hash = None /\ from = None
    /\ signed = None /\ answer = None /\ travels = 0

\* SignTx and WithSignature: a new transaction, without caches
SignTx(key, chain) ==
    /\ \E recid \in {0, 1} :
          data' = [data EXCEPT !.V = SignatureValues(chain, recid),
                               !.sig = [key |-> key, hash |-> SigHash(chain, data.body), recid |-> recid]]
    /\ signed' = [key |-> key, chain |-> chain]
    /\ hash' = None /\ from' = None /\ answer' = None
    /\ UNCHANGED travels

\* the cache is used whoever filled it
SenderAnyCache(chain) ==
    LET addr == IF from # None THEN from.addr ELSE SignerSender(chain, data)
    IN  /\ answer' = [chain |-> chain, addr |-> addr]
        /\ from' = IF addr = Error THEN from ELSE [chain |-> chain, addr |-> addr]
        /\ UNCHANGED <<data, hash, signed, travels>>

\* Sender, AsMessage
Sender(chain) ==
    LET addr == IF from # None /\ from.chain = chain THEN from.addr ELSE SignerSender(chain, data)
    IN  /\ answer' = [chain |-> chain, addr |-> addr]
        /\ from' = IF addr = Error THEN from ELSE [chain |-> chain, addr |-> addr]
        /\ UNCHANGED <<data, hash, signed, travels>>

\* the hash of the encoding, in which Hash is a field like the others
msgpHash(d) == [body |-> d.body, V |-> d.V, sig |-> d.sig, Hash |-> IF d.Hash = None THEN "nil" ELSE "hash"]
HashOf(h, d) == IF h # None THEN h ELSE msgpHash(d)
Hash ==
    /\ hash' = HashOf(hash, data)
    /\ UNCHANGED <<data, from, signed, answer, travels>>

\* a copy that was sent to a peer or stored, and read again
Msgp ==
    /\ travels < MaxTravels /\ travels' = travels + 1
    /\ hash' = None /\ from' = None
    /\ UNCHANGED <<data, signed, answer>>

\* MarshalJSON and UnmarshalJSON; what is not signed is refused
JSONByte(v) == IF isProtectedV(v) THEN (v - 35 - 2 * deriveChainId(v)) % 256 ELSE v - 27
JSON ==
    /\ travels < MaxTravels /\ travels' = travels + 1
    /\ IF ValidSignature(JSONByte(data.V), data.sig)
       THEN data' = [data EXCEPT !.Hash = [of |-> "hash"]] /\ hash' = None /\ from' = None
       ELSE hash' = HashOf(hash, data) /\ UNCHANGED <<data, from>>
    /\ UNCHANGED <<signed, answer>>

Next ==
    \/ \E chain \in Chains : Sender(chain) \/ \E key \in Keys : SignTx(key, chain)
    \/ Hash \/ Msgp \/ JSON

Spec == Init /\ [][Next]_vars

-----------------------------------------------------------------------------
(* Properties *)

(* Whatever was asked before and however the transaction came here, a      *)
(* signer gets the key that signed for its chain, or an error; the signer  *)
(* of the chain it was signed for gets the key. Chain 0 is different: its  *)
(* own signer gets an error.                                               *)
SenderSound ==
    answer # None =>
        /\ answer.addr # Error => signed # None /\ signed.chain = answer.chain /\ answer.addr = signed.key
        /\ signed # None /\ signed.chain = answer.chain /\ signed.chain # 0 => answer.addr = signed.key
=============================================================================
