------------------------------ MODULE KeyStore ------------------------------
(***************************************************************************)
(* Unlocked keys of the key store (accounts/keystore/keystore.go): the     *)
(* unlocking of an account for a time or for good, the goroutines that     *)
(* expire it, Lock and signing. Every call that decrypts a key has a copy  *)
(* of its own, numbered.                                                   *)
(***************************************************************************)
EXTENDS Naturals

CONSTANTS
    Addresses,
    MaxKeys         \* keys decrypted

VARIABLES
    keys,           \* decrypted so far
    unlocked,       \* KeyStore.unlocked: a key by address; 0 is none
    timed,          \* keys with an abort channel
    aborted,        \* keys whose abort channel is closed
    zeroed,         \* keys whose bits are zero
    expiring,       \* the goroutines in expire: a key, its address and who started it
    asked           \* addresses that Lock was called for and that were not unlocked since

vars == <<keys, unlocked, timed, aborted, zeroed, expiring, asked>>

Init ==
    /\ keys = 0 /\ unlocked = [a \in Addresses |-> 0] /\ timed = {} /\ aborted = {} /\ zeroed = {}
    /\ expiring = {} /\ asked = {}

Expirer(k, a, by) == [key |-> k, addr |-> a, by |-> by]

\* TimedUnlock, after the key has been decrypted; forever: a timeout of zero
TimedUnlock(a, forever) ==
    LET k == keys + 1
        u == unlocked[a]
    IN  /\ k <= MaxKeys /\ keys' = k
        /\ IF u # 0 /\ u \notin timed
           THEN zeroed' = zeroed \cup {k} /\ UNCHANGED <<unlocked, timed, aborted, expiring, asked>>
           ELSE /\ aborted' = IF u # 0 THEN aborted \cup {u} ELSE aborted
                /\ unlocked' = [unlocked EXCEPT ![a] = k]
                /\ IF forever THEN UNCHANGED <<timed, expiring>>
                   ELSE timed' = timed \cup {k} /\ expiring' = expiring \cup {Expirer(k, a, "unlock")}
                /\ asked' = asked \ {a}
                /\ UNCHANGED zeroed

\* Lock finds the key and runs expire with no time to wait
Lock(a) ==
    /\ unlocked[a] # 0
    /\ expiring' = expiring \cup {Expirer(unlocked[a], a, "lock")}
    /\ asked' = asked \cup {a}
    /\ UNCHANGED <<keys, unlocked, timed, aborted, zeroed>>

\* expire: the abort channel is closed
Abort(e) ==
    /\ e \in expiring /\ e.key \in aborted
    /\ expiring' = expiring \ {e}
    /\ UNCHANGED <<keys, unlocked, timed, aborted, zeroed, asked>>

\* Mutant: the key is zeroed, and stays in the map
ExpireKeeps(e) ==
    /\ e \in expiring /\ expiring' = expiring \ {e}
    /\ zeroed' = IF unlocked[e.addr] = e.key THEN zeroed \cup {e.key} ELSE zeroed
    /\ UNCHANGED <<keys, unlocked, timed, aborted, asked>>

\* expire: the time is over; only the key it was started for is dropped
Expire(e) ==
    /\ e \in expiring /\ expiring' = expiring \ {e}
    /\ IF unlocked[e.addr] = e.key
       THEN zeroed' = zeroed \cup {e.key} /\ unlocked' = [unlocked EXCEPT ![e.addr] = 0]
       ELSE UNCHANGED <<zeroed, unlocked>>
    /\ UNCHANGED <<keys, timed, aborted, asked>>

\* SignHashWithPassphrase, SignTxWithPassphrase, Delete: a key that is zeroed when they are done
UseOnce ==
    /\ keys < MaxKeys /\ keys' = keys + 1 /\ zeroed' = zeroed \cup {keys'}
    /\ UNCHANGED <<unlocked, timed, aborted, expiring, asked>>

Next ==
    \/ \E a \in Addresses, f \in BOOLEAN : TimedUnlock(a, f)
    \/ \E a \in Addresses : Lock(a)
    \/ \E e \in expiring : Abort(e) \/ Expire(e)
    \/ UseOnce

Spec == Init /\ [][Next]_vars

-----------------------------------------------------------------------------
(* Properties *)

(* SignHash and SignTx never use a key that has been zeroed, or one that   *)
(* belongs to two accounts.                                                *)
KeysUsable ==
    /\ \A a \in Addresses : unlocked[a] \notin zeroed \ {0}
    /\ \A a, b \in Addresses : a # b /\ unlocked[a] # 0 => unlocked[a] # unlocked[b]

(* An account that was unlocked for a time has a goroutine that will lock  *)
(* it and that is not told to quit; one unlocked for good has none, unless *)
(* Lock was called since.                                                  *)
TimeoutKept ==
    \A a \in Addresses : LET k == unlocked[a] IN
        k # 0 => IF k \in timed THEN k \notin aborted /\ Expirer(k, a, "unlock") \in expiring
                 ELSE a \notin asked => \A e \in expiring : e.key # k

KeysSound == KeysUsable /\ TimeoutKept
=============================================================================
