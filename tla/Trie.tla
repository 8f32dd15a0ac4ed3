-------------------------------- MODULE Trie --------------------------------
(***************************************************************************)
(* The Merkle Patricia trie (trie/) and the cache of past tries in front   *)
(* of it (core/state/database.go).                                         *)
(*                                                                         *)
(* A node is <<>> (nil), <<"V", value>>, <<"H", stored node>>, <<"S", key, *)
(* val, flags>> or <<"F", children, flags>>, children being a function on  *)
(* the indices that are not nil. A hash is the node it is the hash of, as  *)
(* it is stored (collapsed: no flags, compact keys): hashes do not collide.*)
(* The database is a set of stored nodes.                                  *)
(***************************************************************************)
EXTENDS Integers, Sequences, SequencesExt, FiniteSets, Functions

CONSTANTS
    Keys,            \* the (hashed) keys in use, sequences of bytes
    Values,          \* numbers
    Initial,         \* contents of the trie at first: functions of the keys
    SmallValue,      \* a leaf with a value up to this is less than 32 bytes
    CacheLimit,      \* MaxTrieCacheGen
    MaxPast,         \* maxPastTries
    MaxCommits,      \* bound: commits of one trie
    MaxFailures,     \* bound: batches that are not written
    MaxRoots,        \* bound: roots in the database
    MaxChanges       \* bound: reads, updates and deletions

VARIABLES
    t,               \* the trie in use
    db,              \* stored nodes
    pre,             \* keys whose preimage is stored
    past,            \* pastTries; self: the very trie in use
    roots,           \* written roots, with what they hold (history)
    ref,             \* what the trie in use is to hold (history)
    copied,          \* some trie was copied with preimages pending (history)
    failures,
    changes          \* the number of reads, updates and deletions so far

vars == <<t, db, pre, past, roots, ref, copied, failures, changes>>

Nil == <<>>
Term == 16
IsA(n, kind) == n # Nil /\ n[1] = kind
Absent == 0

-----------------------------------------------------------------------------
(* Encodings of keys *)

hasTerm(s) == Len(s) > 0 /\ s[Len(s)] = Term
keybytesToHex(str) == [i \in 1..(2 * Len(str)) |-> IF i % 2 = 1 THEN str[(i + 1) \div 2] \div 16
                                                  ELSE str[i \div 2] % 16] \o <<Term>>
decodeNibbles(nibbles) == [i \in 1..(Len(nibbles) \div 2) |-> 16 * nibbles[2 * i - 1] + nibbles[2 * i]]
hexToKeybytes(hex) == decodeNibbles(IF hasTerm(hex) THEN Front(hex) ELSE hex)
\* the flag byte: 32 for a terminator, 16 for an odd number of nibbles
hexToCompact(hex) ==
    LET h == IF hasTerm(hex) THEN Front(hex) ELSE hex
        odd == Len(h) % 2
    IN  <<(IF hasTerm(hex) THEN 32 ELSE 0) + (IF odd = 1 THEN 16 + h[1] ELSE 0)>>
          \o decodeNibbles(SubSeq(h, odd + 1, Len(h)))
compactToHex(compact) ==
    LET base == Front(keybytesToHex(compact))
        full == IF base[1] >= 2 THEN Append(base, Term) ELSE base
    IN  SubSeq(full, 3 - (base[1] % 2), Len(full))
prefixLen(a, b) ==
    CHOOSE n \in 0..Len(a) :
        /\ n <= Len(b) /\ \A i \in 1..n : a[i] = b[i]
        /\ n < Len(a) /\ n < Len(b) => a[n + 1] # b[n + 1]
        /\ n = Len(a) \/ n = Len(b) \/ a[n + 1] # b[n + 1]
From(s, i) == SubSeq(s, i, Len(s))

-----------------------------------------------------------------------------
(* Nodes in memory and nodes as they are stored *)

newFlag(gen) == [hash |-> Nil, gen |-> gen, dirty |-> TRUE]
Short(key, val, flags) == <<"S", key, val, flags>>
Full(children, flags) == <<"F", children, flags>>
Flags(n) == n[Len(n)]

RECURSIVE setNodeflag(_, _, _)
\* decodeNode: a stored node, and the small ones inside it
setNodeflag(n, hash, gen) ==
    LET flags == [hash |-> hash, gen |-> gen, dirty |-> FALSE]
    IN  CASE IsA(n, "S") -> Short(compactToHex(n[2]), setNodeflag(n[3], Nil, gen), flags)
          [] IsA(n, "F") -> Full([i \in DOMAIN n[2] |-> setNodeflag(n[2][i], Nil, gen)], flags)
          [] OTHER -> n

Missing == <<"missing">>
resolveHash(stored, h, gen) == IF h[2] \in stored THEN setNodeflag(h[2], h, gen) ELSE Missing
resolve(stored, n, gen) == IF IsA(n, "H") THEN resolveHash(stored, n, gen) ELSE n

-----------------------------------------------------------------------------
(* Lookup, insertion and deletion; stored is the database *)

Got(value, n, did) == [value |-> value, n |-> n, did |-> did, err |-> FALSE]
RECURSIVE tryGet(_, _, _, _)
\* key is what is left of the key
tryGet(stored, gen, n, key) ==
    CASE n = Nil -> Got(Absent, Nil, FALSE)
      [] IsA(n, "V") -> Got(n[2], n, FALSE)
      [] IsA(n, "S") ->
           IF ~IsPrefix(n[2], key) THEN Got(Absent, n, FALSE)
           ELSE LET r == tryGet(stored, gen, n[3], From(key, Len(n[2]) + 1))
                IN  IF r.did /\ ~r.err THEN [r EXCEPT !.n = Short(n[2], r.n, [n[4] EXCEPT !.gen = gen])]
                    ELSE [r EXCEPT !.n = n]
      [] IsA(n, "F") ->
           LET child == IF key[1] \in DOMAIN n[2] THEN n[2][key[1]] ELSE Nil
               r == tryGet(stored, gen, child, Tail(key))
           IN  IF r.did /\ ~r.err
               THEN [r EXCEPT !.n = Full([n[2] EXCEPT ![key[1]] = r.n], [n[3] EXCEPT !.gen = gen])]
               ELSE [r EXCEPT !.n = n]
      [] IsA(n, "H") ->
           LET child == resolveHash(stored, n, gen)
           IN  IF child = Missing THEN [value |-> Absent, n |-> n, did |-> TRUE, err |-> TRUE]
               ELSE [tryGet(stored, gen, child, key) EXCEPT !.did = TRUE]

Changed(n) == [dirty |-> TRUE, n |-> n, err |-> FALSE]
Same(n) == [dirty |-> FALSE, n |-> n, err |-> FALSE]
Failed(n) == [dirty |-> FALSE, n |-> n, err |-> TRUE]
With(children, i, n) == [j \in DOMAIN children \cup {i} |-> IF j = i THEN n ELSE children[j]]
Without(children, i) == [j \in DOMAIN children \ {i} |-> children[j]]

RECURSIVE insert(_, _, _, _, _)
insert(stored, gen, n, key, value) ==
    IF key = <<>> THEN IF n = value THEN Same(value) ELSE Changed(value)
    ELSE CASE IsA(n, "S") ->
                LET m == prefixLen(key, n[2])
                    r == insert(stored, gen, n[3], From(key, m + 1), value)
                    leg(k, v) == insert(stored, gen, Nil, From(k, m + 2), v).n
                    branch == Full([i \in {n[2][m + 1], key[m + 1]} |->
                                      IF i = key[m + 1] THEN leg(key, value) ELSE leg(n[2], n[3])], newFlag(gen))
                IN  IF m = Len(n[2])
                    THEN IF r.dirty THEN Changed(Short(n[2], r.n, newFlag(gen))) ELSE [r EXCEPT !.n = n]
                    ELSE IF m = 0 THEN Changed(branch)
                    ELSE Changed(Short(SubSeq(key, 1, m), branch, newFlag(gen)))
           [] IsA(n, "F") ->
                LET child == IF key[1] \in DOMAIN n[2] THEN n[2][key[1]] ELSE Nil
                    r == insert(stored, gen, child, Tail(key), value)
                IN  IF r.dirty THEN Changed(Full(With(n[2], key[1], r.n), newFlag(gen))) ELSE [r EXCEPT !.n = n]
           [] n = Nil -> Changed(Short(key, value, newFlag(gen)))
           [] IsA(n, "H") ->
                LET rn == resolveHash(stored, n, gen)
                    r == insert(stored, gen, rn, key, value)
                IN  IF rn = Missing THEN Failed(Nil)
                    ELSE IF r.dirty THEN r ELSE [r EXCEPT !.n = rn]

\* a full node with one child left is a short node; the child, loaded for
\* the purpose, is merged into it when it is short itself
ReducedKeepsChild(stored, gen, children) ==
    IF Cardinality(DOMAIN children) > 1 THEN Changed(Full(children, newFlag(gen)))
    ELSE LET pos == CHOOSE i \in DOMAIN children : TRUE
             cnode == children[pos]
         IN  IF pos # Term /\ IsA(cnode, "S") THEN Changed(Short(<<pos>> \o cnode[2], cnode[3], newFlag(gen)))
             ELSE Changed(Short(<<pos>>, children[pos], newFlag(gen)))
Reduced(stored, gen, children) ==
    IF Cardinality(DOMAIN children) > 1 THEN Changed(Full(children, newFlag(gen)))
    ELSE LET pos == CHOOSE i \in DOMAIN children : TRUE
             cnode == IF pos # Term THEN resolve(stored, children[pos], gen) ELSE Nil
         IN  IF cnode = Missing THEN Failed(Nil)
             ELSE IF IsA(cnode, "S") THEN Changed(Short(<<pos>> \o cnode[2], cnode[3], newFlag(gen)))
             ELSE Changed(Short(<<pos>>, children[pos], newFlag(gen)))

RECURSIVE delete(_, _, _, _)
delete(stored, gen, n, key) ==
    CASE n = Nil -> Same(Nil)
      [] IsA(n, "V") -> Changed(Nil)
      [] IsA(n, "S") ->
           LET m == prefixLen(key, n[2])
               r == delete(stored, gen, n[3], From(key, m + 1))
           IN  IF m < Len(n[2]) THEN Same(n)
               ELSE IF m = Len(key) THEN Changed(Nil)
               ELSE IF ~r.dirty THEN [r EXCEPT !.n = n]
               ELSE IF IsA(r.n, "S") THEN Changed(Short(n[2] \o r.n[2], r.n[3], newFlag(gen)))
               ELSE Changed(Short(n[2], r.n, newFlag(gen)))
      [] IsA(n, "F") ->
           LET child == IF key[1] \in DOMAIN n[2] THEN n[2][key[1]] ELSE Nil
               r == delete(stored, gen, child, Tail(key))
           IN  IF ~r.dirty THEN [r EXCEPT !.n = n]
               ELSE Reduced(stored, gen, IF r.n = Nil THEN Without(n[2], key[1]) ELSE With(n[2], key[1], r.n))
      [] IsA(n, "H") ->
           LET rn == resolveHash(stored, n, gen)
               r == delete(stored, gen, rn, key)
           IN  IF rn = Missing THEN Failed(Nil)
               ELSE IF r.dirty THEN r ELSE [r EXCEPT !.n = rn]

-----------------------------------------------------------------------------
(* The hasher *)

canUnload(flags, gen) == ~flags.dirty /\ (gen - flags.gen) % 65536 >= CacheLimit
\* a leaf with a small value is stored inside its parent
Inline(n) == IsA(n, "S") /\ IsA(n[3], "V") /\ n[3][2] <= SmallValue

RECURSIVE hash(_, _, _, _)
\* children are replaced by their hashes, or by themselves when they are small
hashChildren(n, gen, commit) ==
    CASE IsA(n, "S") ->
           LET r == IF IsA(n[3], "V") THEN [hashed |-> n[3], cached |-> n[3], puts |-> {}]
                    ELSE hash(n[3], gen, commit, FALSE)
           IN  [collapsed |-> <<"S", hexToCompact(n[2]), r.hashed>>, cached |-> Short(n[2], r.cached, n[4]), puts |-> r.puts]
      [] IsA(n, "F") ->
           LET r == [i \in DOMAIN n[2] |-> IF i = Term THEN [hashed |-> n[2][i], cached |-> n[2][i], puts |-> {}]
                                          ELSE hash(n[2][i], gen, commit, FALSE)]
           IN  [collapsed |-> <<"F", [i \in DOMAIN r |-> r[i].hashed]>>,
                cached |-> Full([i \in DOMAIN r |-> r[i].cached], n[3]),
                puts |-> UNION {r[i].puts : i \in DOMAIN r}]
      [] OTHER -> [collapsed |-> n, cached |-> n, puts |-> {}]

\* a node whose hash is known is not hashed again
store(collapsed, known, force) ==
    IF IsA(collapsed, "H") \/ (Inline(collapsed) /\ ~force) THEN collapsed
    ELSE IF known # Nil THEN known ELSE <<"H", collapsed>>

hash(n, gen, commit, force) ==
    LET flags == IF IsA(n, "S") \/ IsA(n, "F") THEN Flags(n) ELSE newFlag(gen)
        ch == hashChildren(n, gen, commit)
        hashed == store(ch.collapsed, flags.hash, force)
        known == IF IsA(hashed, "H") THEN hashed ELSE Nil
        set(f) == [f EXCEPT !.hash = known, !.dirty = @ /\ ~commit]
        cached == CASE IsA(ch.cached, "S") -> Short(ch.cached[2], ch.cached[3], set(flags))
                    [] IsA(ch.cached, "F") -> Full(ch.cached[2], set(flags))
                    [] OTHER -> ch.cached
    IN  IF flags.hash # Nil /\ commit /\ canUnload(flags, gen)
        THEN [hashed |-> flags.hash, cached |-> flags.hash, puts |-> {}]
        ELSE IF flags.hash # Nil /\ (~commit \/ ~flags.dirty)
        THEN [hashed |-> flags.hash, cached |-> n, puts |-> {}]
        ELSE [hashed |-> hashed, cached |-> cached,
              puts |-> ch.puts \cup IF commit /\ IsA(hashed, "H") /\ ~IsA(n, "H") THEN {ch.collapsed} ELSE {}]

emptyRoot == Nil
hashRoot(tr, commit) ==
    IF tr.root = Nil THEN [hashed |-> emptyRoot, cached |-> Nil, puts |-> {}]
    ELSE hash(tr.root, tr.gen, commit, TRUE)

-----------------------------------------------------------------------------
(* Proofs *)

RECURSIVE OnPath(_, _, _)
\* the nodes from n down the key
OnPath(stored, n, key) ==
    CASE key = <<>> \/ n = Nil \/ n = Missing -> <<>>
      [] IsA(n, "S") -> <<n>> \o IF IsPrefix(n[2], key) THEN OnPath(stored, n[3], From(key, Len(n[2]) + 1)) ELSE <<>>
      [] IsA(n, "F") -> <<n>> \o IF key[1] \in DOMAIN n[2] THEN OnPath(stored, n[2][key[1]], Tail(key)) ELSE <<>>
      [] IsA(n, "H") -> OnPath(stored, resolveHash(stored, n, 0), key)
\* fromLevel is 0: the whole path
Prove(stored, tr, key) ==
    LET nodes == OnPath(stored, tr.root, keybytesToHex(key))
        enc(i) == hashChildren(nodes[i], 0, FALSE).collapsed
    IN  {enc(i) : i \in {j \in DOMAIN nodes : j = 1 \/ ~Inline(enc(j))}}

RECURSIVE get(_, _)
\* down to a value, a hash or nothing
get(n, key) ==
    CASE IsA(n, "S") -> IF IsPrefix(n[2], key) THEN get(n[3], From(key, Len(n[2]) + 1)) ELSE <<<<>>, Nil>>
      [] IsA(n, "F") -> IF key[1] \in DOMAIN n[2] THEN get(n[2][key[1]], Tail(key)) ELSE <<Tail(key), Nil>>
      [] OTHER -> <<key, n>>
RECURSIVE VerifyFrom(_, _, _)
VerifyFrom(want, key, proof) ==
    IF want = Nil \/ want[2] \notin proof THEN [err |-> TRUE, value |-> Absent]
    ELSE LET r == get(setNodeflag(want[2], want, 0), key)
         IN  CASE r[2] = Nil -> [err |-> FALSE, value |-> Absent]
               [] IsA(r[2], "H") -> VerifyFrom(r[2], r[1], proof)
               [] IsA(r[2], "V") -> [err |-> FALSE, value |-> r[2][2]]
VerifyProof(rootHash, key, proof) == VerifyFrom(rootHash, keybytesToHex(key), proof)

-----------------------------------------------------------------------------
(* The iterator: a stack of [node, index, pathlen] and the path *)

RECURSIVE Before(_, _)
\* bytes.Compare(a, b) < 0
Before(a, b) == b # <<>> /\ (a = <<>> \/ a[1] < b[1] \/ (a[1] = b[1] /\ Before(Tail(a), Tail(b))))

End == [stack |-> <<>>, path |-> <<>>, over |-> TRUE]
pop(it) == [it EXCEPT !.stack = Front(@), !.path = SubSeq(@, 1, it.stack[Len(it.stack)].pathlen)]
\* the next child of the node on top, or {}
nextChild(it) ==
    LET top == it.stack[Len(it.stack)]
        n == top.node
        after == IF IsA(n, "F") THEN {i \in DOMAIN n[2] : i > top.index} ELSE {}
        i == CHOOSE j \in after : \A k \in after : j <= k
    IN  CASE after # {} -> {[node |-> n[2][i], index |-> i, path |-> Append(it.path, i)]}
          [] IsA(n, "S") /\ top.index < 0 -> {[node |-> n[3], index |-> 0, path |-> it.path \o n[2]]}
          [] OTHER -> {}
RECURSIVE peekUp(_)
\* up the stack until a node has a child left
peekUp(it) == IF it.stack = <<>> \/ nextChild(it) # {} THEN it ELSE peekUp(pop(it))
\* the iterator before and after its next step
peek(stored, tr, it, descend) ==
    IF it.stack = <<>> THEN
        [at |-> it, next |-> [it EXCEPT !.stack = <<[node |-> resolve(stored, tr.root, tr.gen), index |-> -1, pathlen |-> 0]>>]]
    ELSE LET up == peekUp(IF descend THEN it ELSE pop(it))
             c == CHOOSE x \in nextChild(up) : TRUE
             state == [node |-> resolve(stored, c.node, tr.gen), index |-> -1, pathlen |-> Len(up.path)]
         IN  IF up.stack = <<>> THEN [at |-> End, next |-> End]
             ELSE [at |-> up, next |-> [up EXCEPT !.stack = Append([@ EXCEPT ![Len(@)].index = c.index], state), !.path = c.path]]
RECURSIVE seek(_, _, _, _)
seek(stored, tr, it, key) ==
    LET p == peek(stored, tr, it, IsPrefix(it.path, key))
    IN  IF p.next.over THEN End ELSE IF ~Before(p.next.path, key) THEN p.at ELSE seek(stored, tr, p.next, key)
newNodeIterator(stored, tr, start) ==
    seek(stored, tr, [stack |-> <<>>, path |-> <<>>, over |-> FALSE], Front(keybytesToHex(start)))
RECURSIVE Leaves(_, _, _)
\* Iterator.Next until it says no: the keys and values
Leaves(stored, tr, it) ==
    LET n == peek(stored, tr, it, TRUE).next
        leaf == IF hasTerm(n.path) THEN <<<<hexToKeybytes(n.path), n.stack[Len(n.stack)].node[2]>>>> ELSE <<>>
    IN  IF it.over \/ n.over THEN <<>> ELSE leaf \o Leaves(stored, tr, n)

-----------------------------------------------------------------------------
(* What a trie with the contents m should be *)

RECURSIVE Shape(_)
Shape(S) ==
    LET heads == {e[1][1] : e \in S}
        under(i) == {<<Tail(e[1]), e[2]>> : e \in {x \in S : x[1][1] = i}}
        one == CHOOSE e \in S : TRUE
        common == CHOOSE n \in 0..Len(one[1]) :
                    /\ \A e \in S : Len(e[1]) >= n /\ SubSeq(e[1], 1, n) = SubSeq(one[1], 1, n)
                    /\ \E e \in S : n = Len(one[1]) \/ e[1][n + 1] # one[1][n + 1]
    IN  CASE S = {} -> Nil
          [] one[1] = <<>> -> <<"V", one[2]>>
          [] Cardinality(S) = 1 -> Short(one[1], <<"V", one[2]>>, newFlag(0))
          [] common > 0 -> Short(SubSeq(one[1], 1, common), Shape({<<From(e[1], common + 1), e[2]>> : e \in S}), newFlag(0))
          [] OTHER -> Full([i \in heads |-> Shape(under(i))], newFlag(0))
Entries(m) == {<<keybytesToHex(k), m[k]>> : k \in {x \in Keys : m[x] # Absent}}
RootOf(m) == IF Entries(m) = {} THEN emptyRoot ELSE hash(Shape(Entries(m)), 0, FALSE, TRUE).hashed

-----------------------------------------------------------------------------
(* The operations of the trie in use *)

NewTrie(stored, root) ==
    [root |-> IF root = emptyRoot THEN Nil ELSE resolveHash(stored, root, 0), gen |-> 0, sec |-> {}, open |-> TRUE]

\* a database in which one trie was committed, and that trie opened
Init ==
    /\ ref \in Initial
    /\ db = IF Entries(ref) = {} THEN {} ELSE hash(Shape(Entries(ref)), 0, TRUE, TRUE).puts
    /\ t = NewTrie(db, RootOf(ref))
    /\ pre = {k \in Keys : ref[k] # Absent}
    /\ past = <<>>
    /\ roots = {[hash |-> RootOf(ref), map |-> ref]}
    /\ copied = FALSE /\ failures = 0 /\ changes = 0

\* a value of no bytes deletes; the preimage of the key is kept
TryUpdate(k, v) ==
    /\ t.open
    /\ LET r == IF v # Absent THEN insert(db, t.gen, t.root, keybytesToHex(k), <<"V", v>>)
                ELSE delete(db, t.gen, t.root, keybytesToHex(k))
       IN  /\ ~r.err
           /\ t' = [t EXCEPT !.root = r.n, !.sec = @ \cup {k}]
    /\ ref' = [ref EXCEPT ![k] = v]
    /\ changes < MaxChanges /\ changes' = changes + 1
    /\ UNCHANGED <<db, pre, past, roots, copied, failures>>

TryDelete(k) ==
    /\ t.open
    /\ LET r == delete(db, t.gen, t.root, keybytesToHex(k))
       IN  /\ ~r.err
           /\ t' = [t EXCEPT !.root = r.n, !.sec = @ \ {k}]
    /\ ref' = [ref EXCEPT ![k] = Absent]
    /\ changes < MaxChanges /\ changes' = changes + 1
    /\ UNCHANGED <<db, pre, past, roots, copied, failures>>

\* what was loaded on the way stays in the trie
TryGet(k) ==
    /\ t.open
    /\ LET r == tryGet(db, t.gen, t.root, keybytesToHex(k))
       IN  t' = [t EXCEPT !.root = IF r.did /\ ~r.err THEN r.n ELSE @]
    /\ changes < MaxChanges /\ changes' = changes + 1
    /\ UNCHANGED <<db, pre, past, roots, ref, copied, failures>>

Hash ==
    /\ t.open
    /\ t' = [t EXCEPT !.root = hashRoot(t, FALSE).cached]
    /\ UNCHANGED <<db, pre, past, roots, ref, copied, failures, changes>>

\* the trie itself, not a copy of it, becomes the newest past trie
pushTrie(p) == Append(IF Len(past) >= MaxPast THEN Tail(past) ELSE past, p)

\* cachedTrie.CommitTo a batch, which the caller writes: without that, the
\* trie is given up
CommitTo(written) ==
    /\ t.open /\ t.gen < MaxCommits
    /\ ~written => failures < MaxFailures
    /\ LET r == hashRoot(t, TRUE)
           t2 == [t EXCEPT !.root = r.cached, !.gen = @ + 1, !.sec = {}, !.open = written]
       IN  /\ t' = t2
           /\ past' = pushTrie([self |-> TRUE, tr |-> 0])
           /\ IF written THEN /\ db' = db \cup r.puts
                              /\ pre' = pre \cup t.sec
                              /\ roots' = roots \cup {[hash |-> r.hashed, map |-> ref]}
                              /\ Cardinality(roots') <= MaxRoots
                              /\ UNCHANGED failures
              ELSE failures' = failures + 1 /\ UNCHANGED <<db, pre, roots>>
    /\ UNCHANGED <<ref, copied, changes>>

\* the past tries are asked from the newest; to ask one is to hash it
Settled(p) == IF p.self THEN [self |-> FALSE, tr |-> t] ELSE p
Asked(p) == [self |-> FALSE, tr |-> [p.tr EXCEPT !.root = hashRoot(p.tr, FALSE).cached]]
OpenTrie(r) ==
    LET settled == [i \in DOMAIN past |-> Settled(past[i])]
        hits == {i \in DOMAIN past : hashRoot(settled[i].tr, FALSE).hashed = r.hash}
        i == CHOOSE j \in hits : \A k \in hits : k <= j
        last == IF hits = {} THEN 1 ELSE i
    IN  /\ r \in roots
        /\ past' = [j \in DOMAIN past |-> IF j >= last THEN Asked(settled[j]) ELSE settled[j]]
        /\ t' = IF hits # {} THEN [past'[i].tr EXCEPT !.sec = {}, !.open = TRUE] ELSE NewTrie(db, r.hash)
        /\ ref' = r.map
        /\ UNCHANGED <<db, pre, roots, copied, failures, changes>>

\* the copy goes on with a cache of preimages of its own
Copy ==
    /\ t.open
    /\ t' = [t EXCEPT !.sec = {}]
    /\ past' = [j \in DOMAIN past |-> Settled(past[j])]
    /\ copied' = (copied \/ t.sec # {})
    /\ UNCHANGED <<db, pre, roots, ref, failures, changes>>

Next ==
    \/ \E k \in Keys, v \in Values \cup {Absent} : TryUpdate(k, v)
    \/ \E k \in Keys : TryDelete(k) \/ TryGet(k)
    \/ Hash
    \/ \E written \in BOOLEAN : CommitTo(written)
    \/ \E r \in roots : OpenTrie(r)
    \/ Copy

Spec == Init /\ [][Next]_vars

-----------------------------------------------------------------------------
(* Properties *)

Reads(tr, m) == \A k \in Keys : LET r == tryGet(db, tr.gen, tr.root, keybytesToHex(k))
                                IN  ~r.err /\ r.value = m[k]

\* Whatever was updated, deleted, loaded, hashed, committed and unloaded, the
\* trie in use reads as the map it stands for, and no node of it is missing.
ReadsBack == t.open => Reads(t, ref)

\* The root hash is a function of the contents: insertions and deletions in
\* any order, with any part of the trie unloaded, leave it in its one shape.
RootCanonical == t.open => hashRoot(t, FALSE).hashed = RootOf(ref)

\* Every root that was written can be opened from the database at any time
\* and reads as it did then, though a commit stores only what is new.
RootsComplete == \A r \in roots : r.hash = RootOf(r.map) /\ Reads(NewTrie(db, r.hash), r.map)

\* A proof of a key verifies against the root, for a key that is present and
\* for one that is not; an empty trie has no proof.
ProofsVerify ==
    t.open /\ t.root # Nil =>
        \A k \in Keys : VerifyProof(hashRoot(t, FALSE).hashed, k, Prove(db, t, k)) = [err |-> FALSE, value |-> ref[k]]

\* The iterator gives the entries from the start key on, in the order of
\* their paths, each once.
IteratesInOrder ==
    t.open => \A start \in Keys :
        LET got == Leaves(db, t, newNodeIterator(db, t, start))
            path(i) == keybytesToHex(got[i][1])
        IN  /\ ToSet(got) = {<<k, ref[k]>> : k \in {x \in Keys : ref[x] # Absent /\ ~Before(keybytesToHex(x), Front(keybytesToHex(start)))}}
            /\ \A i \in 1..(Len(got) - 1) : Before(path(i), path(i + 1))

\* GetKey knows every key of the trie, unless a trie was copied while its
\* preimages were still to be written.
PreimagesKnown == t.open /\ ~copied => \A k \in Keys : ref[k] # Absent => k \in t.sec \cup pre

TrieSound == ReadsBack /\ RootCanonical /\ RootsComplete /\ ProofsVerify /\ IteratesInOrder /\ PreimagesKnown
=============================================================================
