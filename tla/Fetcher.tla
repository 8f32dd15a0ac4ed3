------------------------------- MODULE Fetcher -------------------------------
(***************************************************************************)
(* The block fetcher: one goroutine, loop, that turns announcements of     *)
(* blocks into header requests, body requests and finally imports, each of *)
(* which runs in a goroutine of its own and reports back on done.          *)
(*                                                                         *)
(* Peers send announcements, headers, bodies and whole blocks in any order *)
(* and the downloader may import the same blocks behind the fetcher's      *)
(* back.  A header message holds one header (handler.go filters no other). *)
(***************************************************************************)
EXTENDS Integers, Sequences, FiniteSetTheorems, TLAPS

CONSTANTS
    Peers,
    Blocks, Genesis, None,
    Parent, Number,
    Body,           \* the transactions of each block; None if it has none
    HashLimit, BlockLimit, MaxBackDist, MaxQueueDist,
    MaxNotices      \* bound on the number of announcements

\* an announcement: who made it, and the number it promised (0: none)
Announce == [origin : Peers, number : Nat]

VARIABLES
    announces,      \* per peer announce counts
    announced,      \* announcements of each block, scheduled for fetching
    fetching,       \* the announcement whose header is being fetched
    fetched,        \* the announcement whose header has come, scheduled for its body
    completing,     \* the announcement whose body is being fetched
    ripe,           \* announced blocks whose arriveTimeout has passed
    late,           \* fetches whose fetchTimeout has passed
    queue,          \* blocks waiting to be imported
    queued,         \* who delivered each block waiting or being imported
    queues,         \* per peer block counts
    importing,      \* the import goroutine of each block: "no", "run" or "done"
    chain,          \* the blocks of the local chain
    fetchTimer, completeTimer,  \* whether they are running or have fired
    pc,             \* where loop is
    height, todo, found,        \* its local variables
    notices

announceVars == <<announces, announced, fetching, fetched, completing, ripe, late>>
queueVars == <<queue, queued, queues>>
timers == <<fetchTimer, completeTimer>>
locals == <<height, todo, found>>
vars == <<announceVars, queueVars, importing, chain, timers, pc, locals, notices>>

TypeOK ==
    /\ announces \in [Peers -> Int]
    /\ announced \in [Blocks -> Seq(Announce)]
    /\ fetching \in [Blocks -> Announce \cup {None}]
    /\ fetched \in [Blocks -> Announce \cup {None}]
    /\ completing \in [Blocks -> Announce \cup {None}]
    /\ ripe \subseteq Blocks /\ late \subseteq Blocks
    /\ queue \subseteq Blocks /\ queued \in [Blocks -> Peers \cup {None}]
    /\ queues \in [Peers -> Nat]
    /\ importing \in [Blocks -> {"no", "run", "done"}]
    /\ chain \subseteq Blocks
    /\ fetchTimer \in BOOLEAN /\ completeTimer \in BOOLEAN
    /\ pc \in {"top", "import", "select", "fetch", "complete", "match", "enqueue", "stopped"}
    /\ height \in Nat /\ todo \subseteq Blocks /\ found \subseteq Blocks
    /\ notices \in Nat

\* New and the start of loop: both timers fire at once
Init ==
    /\ announces = [p \in Peers |-> 0] /\ announced = [h \in Blocks |-> <<>>]
    /\ fetching = [h \in Blocks |-> None] /\ fetched = [h \in Blocks |-> None]
    /\ completing = [h \in Blocks |-> None]
    /\ ripe = {} /\ late = {}
    /\ queue = {} /\ queued = [h \in Blocks |-> None] /\ queues = [p \in Peers |-> 0]
    /\ importing = [h \in Blocks |-> "no"] /\ chain = {Genesis}
    /\ fetchTimer = TRUE /\ completeTimer = TRUE
    /\ pc = "top" /\ height = 0 /\ todo = {} /\ found = {} /\ notices = 0

-----------------------------------------------------------------------------
(* Helpers *)

ChainHeight == CHOOSE n \in {Number[h] : h \in chain} : \A h \in chain : Number[h] <= n

Distant(n) == n + MaxBackDist < ChainHeight \/ n > ChainHeight + MaxQueueDist

Announced == {h \in Blocks : announced[h] # <<>>}
Fetched == {h \in Blocks : fetched[h] # None}

By(a, p) == IF a # None /\ a.origin = p THEN 1 ELSE 0
Held(h, p) == Cardinality({k \in DOMAIN announced[h] : announced[h][k].origin = p})
                 + By(fetching[h], p) + By(fetched[h], p) + By(completing[h], p)

\* forgetHash, after which f is being fetched and c being completed
ForgetHash(h, f, c) ==
    /\ announces' = [p \in Peers |-> announces[p] - Held(h, p)]
    /\ announced' = [announced EXCEPT ![h] = <<>>]
    /\ fetching' = [fetching EXCEPT ![h] = f]
    /\ fetched' = [fetched EXCEPT ![h] = None]
    /\ completing' = [completing EXCEPT ![h] = c]
    /\ ripe' = ripe \ {h} /\ late' = late \ {h}

ForgetBlock(h) ==
    /\ queued' = [queued EXCEPT ![h] = None]
    /\ queues' = [p \in Peers |-> IF queued[h] = p THEN queues[p] - 1 ELSE queues[p]]

\* Mutant: the limit compared with the count before this block
EnqueueOneMore(p, h) ==
    IF queues[p] > BlockLimit \/ Distant(Number[h])
    THEN ForgetHash(h, None, None) /\ UNCHANGED queueVars
    ELSE /\ IF queued[h] = None
            THEN /\ queue' = queue \cup {h}
                 /\ queued' = [queued EXCEPT ![h] = p]
                 /\ queues' = [queues EXCEPT ![p] = @ + 1]
            ELSE UNCHANGED queueVars
         /\ UNCHANGED announceVars

\* a block from p: refused if p has too many or it is too far away
Enqueue(p, h) ==
    IF queues[p] + 1 > BlockLimit \/ Distant(Number[h])
    THEN ForgetHash(h, None, None) /\ UNCHANGED queueVars
    ELSE /\ IF queued[h] = None
            THEN /\ queue' = queue \cup {h}
                 /\ queued' = [queued EXCEPT ![h] = p]
                 /\ queues' = [queues EXCEPT ![p] = @ + 1]
            ELSE UNCHANGED queueVars
         /\ UNCHANGED announceVars

-----------------------------------------------------------------------------
(* The top of loop: fetches that timed out are forgotten, blocks that fit  *)
(* are imported.                                                           *)

Expire(h) ==
    /\ pc = "top" /\ h \in late
    /\ ForgetHash(h, None, None)
    /\ UNCHANGED <<queueVars, importing, chain, timers, pc, locals, notices>>

\* Mutant: the height of the last block but one
ReadHeightBelow ==
    /\ pc = "top" /\ late = {}
    /\ height' = ChainHeight - 1 /\ pc' = "import"
    /\ UNCHANGED <<announceVars, queueVars, importing, chain, timers, todo, found, notices>>

ReadHeight ==
    /\ pc = "top" /\ late = {}
    /\ height' = ChainHeight /\ pc' = "import"
    /\ UNCHANGED <<announceVars, queueVars, importing, chain, timers, todo, found, notices>>

Fits(h) == Number[h] <= height + 1

\* Mutant: the block is forgotten when its import starts, not when it is done
PopForgets(h) ==
    /\ pc = "import" /\ h \in queue /\ \A g \in queue : Number[h] <= Number[g]
    /\ Fits(h)
    /\ queue' = queue \ {h} /\ ForgetBlock(h)
    /\ IF Number[h] + MaxBackDist < height \/ h \in chain
       THEN UNCHANGED importing
       ELSE importing' = [importing EXCEPT ![h] = "run"]
    /\ UNCHANGED <<announceVars, chain, timers, pc, locals, notices>>

PopItem(h) ==
    /\ pc = "import" /\ h \in queue /\ \A g \in queue : Number[h] <= Number[g]
    /\ Fits(h)
    /\ queue' = queue \ {h}
    /\ IF Number[h] + MaxBackDist < height \/ h \in chain
       THEN ForgetBlock(h) /\ UNCHANGED importing
       ELSE importing' = [importing EXCEPT ![h] = "run"] /\ UNCHANGED <<queued, queues>>
    /\ UNCHANGED <<announceVars, chain, timers, pc, locals, notices>>

Wait ==
    /\ pc = "import" /\ \A h \in queue : ~Fits(h)
    /\ pc' = "select" /\ height' = 0
    /\ UNCHANGED <<announceVars, queueVars, importing, chain, timers, todo, found, notices>>

-----------------------------------------------------------------------------
(* The cases of the select *)

\* Mutant: a block whose body is being fetched may be announced again
NotifyAgain(p, h, n) ==
    /\ pc = "select" /\ notices < MaxNotices
    /\ notices' = notices + 1
    /\ IF announces[p] + 1 > HashLimit \/ (n > 0 /\ Distant(n)) \/ fetching[h] # None
       THEN UNCHANGED <<announceVars, timers>>
       ELSE /\ announces' = [announces EXCEPT ![p] = @ + 1]
            /\ announced' = [announced EXCEPT ![h] = Append(@, [origin |-> p, number |-> n])]
            /\ fetchTimer' = (fetchTimer \/ Announced \subseteq {h})
            /\ UNCHANGED <<fetching, fetched, completing, ripe, late, completeTimer>>
    /\ pc' = "top"
    /\ UNCHANGED <<queueVars, importing, chain, locals>>

\* p announces h and promises number n
Notify(p, h, n) ==
    /\ pc = "select" /\ notices < MaxNotices
    /\ notices' = notices + 1
    /\ IF \/ announces[p] + 1 > HashLimit
          \/ n > 0 /\ Distant(n)
          \/ fetching[h] # None \/ completing[h] # None
       THEN UNCHANGED <<announceVars, timers>>
       ELSE /\ announces' = [announces EXCEPT ![p] = @ + 1]
            /\ announced' = [announced EXCEPT ![h] = Append(@, [origin |-> p, number |-> n])]
            /\ fetchTimer' = (fetchTimer \/ Announced \subseteq {h})
            /\ UNCHANGED <<fetching, fetched, completing, ripe, late, completeTimer>>
    /\ pc' = "top"
    /\ UNCHANGED <<queueVars, importing, chain, locals>>

\* p sends the whole block h
Inject(p, h) ==
    /\ pc = "select"
    /\ Enqueue(p, h)
    /\ pc' = "top"
    /\ UNCHANGED <<importing, chain, timers, locals, notices>>

Done(h) ==
    /\ pc = "select" /\ importing[h] = "done"
    /\ importing' = [importing EXCEPT ![h] = "no"]
    /\ ForgetHash(h, None, None) /\ ForgetBlock(h)
    /\ pc' = "top"
    /\ UNCHANGED <<queue, chain, timers, locals, notices>>

\* Mutant: only the announcements of known blocks are looked at
FetchTimerKnown ==
    /\ pc = "select" /\ fetchTimer
    /\ fetchTimer' = FALSE
    /\ todo' = ripe \cap chain /\ pc' = "fetch"
    /\ UNCHANGED <<announceVars, queueVars, importing, chain, completeTimer, height, found, notices>>

FetchTimer ==
    /\ pc = "select" /\ fetchTimer
    /\ fetchTimer' = FALSE
    /\ todo' = ripe /\ pc' = "fetch"
    /\ UNCHANGED <<announceVars, queueVars, importing, chain, completeTimer, height, found, notices>>

\* a header request to one of those who announced h, unless it has arrived
FetchHeader(h, k) ==
    /\ pc = "fetch" /\ h \in todo /\ k \in DOMAIN announced[h]
    /\ todo' = todo \ {h}
    /\ ForgetHash(h, IF h \in chain THEN None ELSE announced[h][k], None)
    /\ UNCHANGED <<queueVars, importing, chain, timers, pc, height, found, notices>>

\* Mutant: the timer is not set again for the announcements that are not due yet
RescheduleNothing ==
    /\ pc = "fetch" /\ todo = {}
    /\ fetchTimer' = FALSE
    /\ pc' = "top"
    /\ UNCHANGED <<announceVars, queueVars, importing, chain, completeTimer, locals, notices>>

RescheduleFetch ==
    /\ pc = "fetch" /\ todo = {}
    /\ fetchTimer' = (Announced # {})
    /\ pc' = "top"
    /\ UNCHANGED <<announceVars, queueVars, importing, chain, completeTimer, locals, notices>>

CompleteTimer ==
    /\ pc = "select" /\ completeTimer
    /\ completeTimer' = FALSE
    /\ todo' = Fetched /\ pc' = "complete"
    /\ UNCHANGED <<announceVars, queueVars, importing, chain, fetchTimer, height, found, notices>>

FetchBody(h) ==
    /\ pc = "complete" /\ h \in todo
    /\ todo' = todo \ {h}
    /\ ForgetHash(h, None, IF h \in chain THEN None ELSE fetched[h])
    /\ UNCHANGED <<queueVars, importing, chain, timers, pc, height, found, notices>>

RescheduleComplete ==
    /\ pc = "complete" /\ todo = {}
    /\ completeTimer' = (Fetched # {})
    /\ pc' = "top"
    /\ UNCHANGED <<announceVars, queueVars, importing, chain, fetchTimer, locals, notices>>

Expected(p, h) ==
    /\ fetching[h] # None /\ fetching[h].origin = p
    /\ fetched[h] = None /\ completing[h] = None /\ queued[h] = None

\* p delivers the header of h, which the fetcher has asked it for: a wrong number drops the
\* peer, a block without transactions is complete, for any other the body is scheduled
FilterHeaders(p, h) ==
    /\ pc = "select" /\ Expected(p, h)
    /\ \/ /\ Number[h] # fetching[h].number \/ h \in chain
          /\ ForgetHash(h, None, None)
          /\ pc' = "top" /\ UNCHANGED <<timers, found>>
       \/ /\ Number[h] = fetching[h].number /\ h \notin chain
          /\ late' = late \ {h}
          /\ IF Body[h] = None
             THEN /\ completing' = [completing EXCEPT ![h] = fetching[h]]
                  /\ found' = {h} /\ pc' = "enqueue"
                  /\ UNCHANGED <<fetched, timers>>
             ELSE /\ fetched' = [fetched EXCEPT ![h] = fetching[h]]
                  /\ completeTimer' = (completeTimer \/ Fetched = {})
                  /\ pc' = "top" /\ UNCHANGED <<completing, found, fetchTimer>>
          /\ UNCHANGED <<announces, announced, fetching, ripe>>
    /\ UNCHANGED <<queueVars, importing, chain, height, todo, notices>>

\* p delivers a body: it may complete several blocks
FilterBodies(p, b) ==
    /\ pc = "select"
    /\ todo' = {h \in Blocks : /\ completing[h] # None /\ completing[h].origin = p
                               /\ queued[h] = None /\ Body[h] = b}
    /\ todo' # {}
    /\ pc' = "match"
    /\ UNCHANGED <<announceVars, queueVars, importing, chain, timers, height, found, notices>>

Match(h) ==
    /\ pc = "match" /\ h \in todo
    /\ todo' = todo \ {h}
    /\ IF h \in chain
       THEN ForgetHash(h, None, None) /\ found' = found
       ELSE found' = found \cup {h} /\ UNCHANGED announceVars
    /\ pc' = IF todo' # {} THEN "match" ELSE "enqueue"
    /\ UNCHANGED <<queueVars, importing, chain, timers, height, notices>>

EnqueueFound(h) ==
    /\ pc = "enqueue" /\ h \in found
    /\ found' = found \ {h}
    /\ IF completing[h] # None THEN Enqueue(completing[h].origin, h)
       ELSE UNCHANGED <<announceVars, queueVars>>
    /\ UNCHANGED <<importing, chain, timers, pc, height, todo, notices>>

EnqueueDone ==
    /\ pc = "enqueue" /\ found = {}
    /\ pc' = "top"
    /\ UNCHANGED <<announceVars, queueVars, importing, chain, timers, locals, notices>>

Stop ==
    /\ pc = "select" /\ pc' = "stopped"
    /\ UNCHANGED <<announceVars, queueVars, importing, chain, timers, locals, notices>>

-----------------------------------------------------------------------------
(* Outside of loop *)

\* insert's goroutine: the block may turn out to be an orphan or invalid
Import(h) ==
    /\ importing[h] = "run"
    /\ importing' = [importing EXCEPT ![h] = "done"]
    /\ chain' \in {chain, chain \cup IF Parent[h] \in chain THEN {h} ELSE {}}
    /\ UNCHANGED <<announceVars, queueVars, timers, pc, locals, notices>>

\* the downloader or the producer adds a block
Extend(h) ==
    /\ pc # "stopped" /\ h \notin chain /\ Parent[h] \in chain
    /\ chain' = chain \cup {h}
    /\ UNCHANGED <<announceVars, queueVars, importing, timers, pc, locals, notices>>

\* time passes while loop waits: an announcement becomes due, a fetch is overdue
Ripen(h) ==
    /\ pc = "select" /\ h \in Announced \ ripe
    /\ ripe' = ripe \cup {h}
    /\ UNCHANGED <<announces, announced, fetching, fetched, completing, late, queueVars,
                   importing, chain, timers, pc, locals, notices>>

Overdue(h) ==
    /\ pc = "select" /\ fetching[h] # None /\ h \notin late
    /\ late' = late \cup {h}
    /\ UNCHANGED <<announces, announced, fetching, fetched, completing, ripe, queueVars,
                   importing, chain, timers, pc, locals, notices>>

-----------------------------------------------------------------------------
Run ==
    \/ ReadHeight \/ Wait \/ RescheduleFetch \/ RescheduleComplete \/ EnqueueDone
    \/ \E h \in Blocks :
          \/ Expire(h) \/ PopItem(h) \/ FetchBody(h) \/ Match(h) \/ EnqueueFound(h)
          \/ \E k \in DOMAIN announced[h] : FetchHeader(h, k)

Message(p, h) ==
    \/ \E n \in {0, Number[h]} : Notify(p, h, n)
    \/ Inject(p, h)
    \/ FilterHeaders(p, h)
    \/ FilterBodies(p, Body[h])

Next ==
    \/ Run
    \/ \E p \in Peers, h \in Blocks \ {Genesis} : Message(p, h)
    \/ FetchTimer \/ CompleteTimer \/ Stop
    \/ \E h \in Blocks : Done(h) \/ Import(h) \/ Extend(h) \/ Ripen(h) \/ Overdue(h)

Spec == Init /\ [][Next]_vars

\* loop goes on, its select takes every case that stays ready, and time passes
FairSpec ==
    /\ Spec
    /\ WF_vars(Run) /\ SF_vars(FetchTimer) /\ SF_vars(CompleteTimer)
    /\ SF_vars(\E h \in Blocks : Ripen(h))

-----------------------------------------------------------------------------
\* A block is in one stage at a time: once its header is requested it is not announced again,
\* and its body is requested only when that is over; so no block is requested from two peers at
\* once (Notify's checks, forgetHash before every change of stage).
OneStage ==
    \A h \in Blocks :
        /\ announced[h] # <<>> => fetching[h] = None /\ fetched[h] = None /\ completing[h] = None
        /\ fetched[h] # None => fetching[h] = fetched[h] /\ completing[h] = None

\* The count that enqueue holds against blockLimit is the number of blocks of the peer that are
\* waiting or being imported, on every path a block leaves by, so the limit is kept.
BlockLimitKept ==
    \A p \in Peers :
        /\ queues[p] = Cardinality({h \in Blocks : queued[h] = p})
        /\ queues[p] <= BlockLimit

\* A block in queued is either waiting in the queue or being imported, never both: however
\* often it is delivered it is imported by one goroutine at a time.
OneImport ==
    \A h \in Blocks :
        /\ queued[h] # None <=> h \in queue \/ importing[h] # "no"
        /\ ~(h \in queue /\ importing[h] # "no")

\* When loop waits, a timer is running or has fired for whatever waits for it: Notify and
\* FilterHeaders start it only for the first entry and rely on the handlers to start it again.
TimersRun ==
    pc = "select" => /\ Announced # {} => fetchTimer
                     /\ Fetched # {} => completeTimer

\* Every announcement that was taken is acted on and every header's body is asked for: with no
\* new announcements the backlog is cleared, although each timer is set for one entry only.
NoBacklog == Announced \cup Fetched = {} \/ pc = "stopped"
BacklogCleared == []<>NoBacklog

-----------------------------------------------------------------------------
(* The proof of the four properties *)

\* what the constants are: of Body, Parent and the distances nothing is needed
FetchConstants ==
    /\ IsFiniteSet(Blocks) /\ Number \in [Blocks -> Nat] /\ BlockLimit \in Nat
    /\ None \notin Peers /\ None \notin Announce

\* what a stage holds of a block
Notices == Announce \cup {None}

\* the stages a block goes through before it is complete
StageInv ==
    /\ announced \in [Blocks -> Seq(Announce)] /\ fetching \in [Blocks -> Notices]
    /\ fetched \in [Blocks -> Notices] /\ completing \in [Blocks -> Notices]
    /\ OneStage

\* the complete blocks
WaitInv ==
    /\ queue \subseteq Blocks /\ queued \in [Blocks -> Peers \cup {None}] /\ queues \in [Peers -> Nat]
    /\ importing \in [Blocks -> {"no", "run", "done"}]
    /\ BlockLimitKept /\ OneImport

\* a handler of a timer starts it again when it is through
TimerInv ==
    /\ pc # "fetch" /\ Announced # {} => fetchTimer
    /\ pc # "complete" /\ Fetched # {} => completeTimer

FetchInv == StageInv /\ WaitInv /\ TimerInv

(* The blocks a peer delivered. *)
From(q, p) == {h \in Blocks : q[h] = p}

LEMMA Counted ==
    ASSUME FetchConstants, NEW q, NEW p
    PROVE  IsFiniteSet(From(q, p)) /\ Cardinality(From(q, p)) \in Nat
<1>1. From(q, p) \subseteq Blocks
  BY Zenon DEF From
<1>2. IsFiniteSet(From(q, p))
  BY <1>1, FS_Subset, Zenon DEF FetchConstants
<1> QED BY <1>2, FS_CardinalityType, Zenon

LEMMA LimitIs ==
    BlockLimitKept <=> \A p \in Peers : queues[p] = Cardinality(From(queued, p)) /\ queues[p] <= BlockLimit
BY Zenon DEF BlockLimitKept, From

LEMMA FetchInit == ASSUME FetchConstants, Init PROVE FetchInv
<1>1. StageInv
  <2>1. /\ announced = [h \in Blocks |-> <<>>] /\ fetching = [h \in Blocks |-> None]
        /\ fetched = [h \in Blocks |-> None] /\ completing = [h \in Blocks |-> None]
    BY Zenon DEF Init
  <2>2. <<>> \in Seq(Announce)
    OBVIOUS
  <2> QED BY <2>1, <2>2, Zenon DEF StageInv, Notices, OneStage
<1>2. WaitInv
  <2>1. /\ queue = {} /\ queued = [h \in Blocks |-> None] /\ queues = [p \in Peers |-> 0]
        /\ importing = [h \in Blocks |-> "no"]
    BY Zenon DEF Init
  <2>2. \A p \in Peers : From(queued, p) = {}
    BY <2>1, Zenon DEF From, FetchConstants
  <2>3. \A p \in Peers : queues[p] = 0 /\ Cardinality(From(queued, p)) = 0
    BY <2>1, <2>2, FS_EmptySet, Zenon
  <2>4. 0 <= BlockLimit /\ 0 \in Nat
    BY DEF FetchConstants
  <2>5. BlockLimitKept
    BY <2>3, <2>4, LimitIs, Zenon
  <2>6. OneImport
    BY <2>1, Zenon DEF OneImport
  <2> QED BY <2>1, <2>4, <2>5, <2>6, Zenon DEF WaitInv
<1>3. TimerInv
  BY Zenon DEF Init, TimerInv
<1> QED BY <1>1, <1>2, <1>3, Zenon DEF FetchInv

(* What a step leaves alone. *)
LEMMA StageSame ==
    ASSUME StageInv, UNCHANGED announceVars
    PROVE  StageInv' /\ Announced' = Announced /\ Fetched' = Fetched
<1>1. announced' = announced /\ fetching' = fetching /\ fetched' = fetched /\ completing' = completing
  BY Zenon DEF announceVars
<1> QED BY <1>1, Zenon DEF StageInv, OneStage, Announced, Fetched

LEMMA WaitSame ==
    ASSUME WaitInv, UNCHANGED queueVars, importing' = importing
    PROVE  WaitInv'
<1>1. queue' = queue /\ queued' = queued /\ queues' = queues
  BY Zenon DEF queueVars
<1> QED BY <1>1, Zenon DEF WaitInv, BlockLimitKept, OneImport

(* forgetHash leaves one stage, whatever the block is in next. *)
LEMMA ForgetKeeps ==
    ASSUME StageInv, NEW h \in Blocks, NEW f \in Notices, NEW c \in Notices, ForgetHash(h, f, c)
    PROVE  StageInv' /\ Announced' \subseteq Announced /\ Fetched' \subseteq Fetched
<1>1. /\ announced' = [announced EXCEPT ![h] = <<>>] /\ fetching' = [fetching EXCEPT ![h] = f]
      /\ fetched' = [fetched EXCEPT ![h] = None] /\ completing' = [completing EXCEPT ![h] = c]
  BY Zenon DEF ForgetHash
<1>2. /\ announced \in [Blocks -> Seq(Announce)] /\ fetching \in [Blocks -> Notices]
      /\ fetched \in [Blocks -> Notices] /\ completing \in [Blocks -> Notices] /\ OneStage
  BY Zenon DEF StageInv
<1>3. <<>> \in Seq(Announce) /\ None \in Notices
  BY DEF Notices
<1>4. /\ announced' \in [Blocks -> Seq(Announce)] /\ fetching' \in [Blocks -> Notices]
      /\ fetched' \in [Blocks -> Notices] /\ completing' \in [Blocks -> Notices]
  BY <1>1, <1>2, <1>3, Zenon
<1>5. announced'[h] = <<>> /\ fetched'[h] = None
  BY <1>1, <1>2, Zenon
<1>6. \A g \in Blocks : g # h => /\ announced'[g] = announced[g] /\ fetching'[g] = fetching[g]
                                 /\ fetched'[g] = fetched[g] /\ completing'[g] = completing[g]
  BY <1>1, <1>2, Zenon
<1>7. OneStage'
  BY <1>2, <1>5, <1>6, Zenon DEF OneStage
<1> QED BY <1>4, <1>5, <1>6, <1>7, Zenon DEF StageInv, Announced, Fetched

(* forgetBlock takes the block off the count of the peer it came from. *)
LEMMA LeaveKeeps ==
    ASSUME FetchConstants, WaitInv, NEW h \in Blocks, queued[h] # None, ForgetBlock(h)
    PROVE  /\ queued' \in [Blocks -> Peers \cup {None}] /\ queues' \in [Peers -> Nat]
           /\ queued'[h] = None /\ \A g \in Blocks : g # h => queued'[g] = queued[g]
           /\ BlockLimitKept'
<1>1. queued \in [Blocks -> Peers \cup {None}] /\ queues \in [Peers -> Nat]
  BY Zenon DEF WaitInv
<1>2. /\ queued' = [queued EXCEPT ![h] = None]
      /\ queues' = [p \in Peers |-> IF queued[h] = p THEN queues[p] - 1 ELSE queues[p]]
  BY Zenon DEF ForgetBlock
<1>3. queued' \in [Blocks -> Peers \cup {None}] /\ queued'[h] = None
  BY <1>1, <1>2, Zenon
<1>4. \A g \in Blocks : g # h => queued'[g] = queued[g]
  BY <1>1, <1>2, Zenon
<1>5. ASSUME NEW p \in Peers
      PROVE  queues'[p] \in Nat /\ queues'[p] = Cardinality(From(queued', p)) /\ queues'[p] <= BlockLimit
  <2>1. queues[p] = Cardinality(From(queued, p)) /\ queues[p] <= BlockLimit /\ queues[p] \in Nat
    BY <1>1, LimitIs, Zenon DEF WaitInv
  <2>2. CASE queued[h] = p
    <3>1. h \in From(queued, p)
      BY <2>2, Zenon DEF From
    <3>2. From(queued', p) = From(queued, p) \ {h}
      BY <1>3, <1>4, Zenon DEF From, FetchConstants
    <3>3. Cardinality(From(queued', p)) = Cardinality(From(queued, p)) - 1
      BY <3>1, <3>2, Counted, FS_RemoveElement, Zenon
    <3>4. Cardinality(From(queued', p)) \in Nat
      BY Counted, Zenon
    <3>5. queues'[p] = queues[p] - 1
      BY <1>2, <2>2, Zenon
    <3> QED BY <2>1, <3>3, <3>4, <3>5 DEF FetchConstants
  <2>3. CASE queued[h] # p
    <3>1. From(queued', p) = From(queued, p)
      BY <1>3, <1>4, <2>3, Zenon DEF From, FetchConstants
    <3>2. queues'[p] = queues[p]
      BY <1>2, <2>3, Zenon
    <3> QED BY <2>1, <3>1, <3>2, Zenon
  <2> QED BY <2>2, <2>3, Zenon
<1>6. queues' \in [Peers -> Nat]
  <2>1. DOMAIN queues' = Peers /\ queues' = [p \in Peers |-> queues'[p]]
    BY <1>2, Zenon
  <2> QED BY <1>5, <2>1, Zenon
<1>7. BlockLimitKept'
  <2>1. \A p \in Peers : queues'[p] = Cardinality(From(queued', p)) /\ queues'[p] <= BlockLimit
    BY <1>5, Zenon
  <2> QED BY <2>1, Zenon DEF BlockLimitKept, From
<1> QED BY <1>3, <1>4, <1>6, <1>7, Zenon

(* enqueue adds one block to the count of its peer, or refuses it. *)
LEMMA EnqueueKeeps ==
    ASSUME FetchConstants, StageInv, WaitInv, NEW p \in Peers, NEW h \in Blocks, Enqueue(p, h),
           importing' = importing
    PROVE  /\ StageInv' /\ Announced' \subseteq Announced /\ Fetched' \subseteq Fetched
           /\ WaitInv'
<1>1. CASE ForgetHash(h, None, None) /\ UNCHANGED queueVars
  <2>1. None \in Notices
    BY Zenon DEF Notices
  <2> QED BY <1>1, <2>1, ForgetKeeps, WaitSame, Zenon
<1>2. CASE UNCHANGED queueVars /\ UNCHANGED announceVars
  BY <1>2, StageSame, WaitSame, Zenon
<1>3. CASE /\ ~(queues[p] + 1 > BlockLimit) /\ queued[h] = None /\ UNCHANGED announceVars
           /\ queue' = queue \cup {h} /\ queued' = [queued EXCEPT ![h] = p]
           /\ queues' = [queues EXCEPT ![p] = queues[p] + 1]
  <2>1. /\ queued \in [Blocks -> Peers \cup {None}] /\ queues \in [Peers -> Nat] /\ queue \subseteq Blocks
        /\ importing \in [Blocks -> {"no", "run", "done"}] /\ OneImport
    BY Zenon DEF WaitInv
  <2>2. queues[p] \in Nat /\ queues[p] + 1 \in Nat /\ queues[p] + 1 <= BlockLimit
    BY <1>3, <2>1 DEF FetchConstants
  <2>3. queued' \in [Blocks -> Peers \cup {None}] /\ queues' \in [Peers -> Nat] /\ queue' \subseteq Blocks
    BY <1>3, <2>1, <2>2, Zenon
  <2>4. queued'[h] = p /\ \A g \in Blocks : g # h => queued'[g] = queued[g]
    BY <1>3, <2>1, Zenon
  <2>5. ASSUME NEW r \in Peers
        PROVE  queues'[r] = Cardinality(From(queued', r)) /\ queues'[r] <= BlockLimit
    <3>1. queues[r] = Cardinality(From(queued, r)) /\ queues[r] <= BlockLimit
      BY LimitIs, Zenon DEF WaitInv
    <3>2. CASE r = p
      <4>1. h \notin From(queued, r)
        BY <1>3, Zenon DEF From, FetchConstants
      <4>2. From(queued', r) = From(queued, r) \cup {h}
        BY <2>4, <3>2, Zenon DEF From
      <4>3. Cardinality(From(queued', r)) = Cardinality(From(queued, r)) + 1
        BY <4>1, <4>2, Counted, FS_AddElement, Zenon
      <4>4. queues'[r] = queues[r] + 1
        BY <1>3, <2>1, <3>2, Zenon
      <4> QED BY <2>2, <3>1, <3>2, <4>3, <4>4, Zenon
    <3>3. CASE r # p
      <4>1. queues'[r] = queues[r]
        BY <1>3, <2>1, <3>3, Zenon
      <4>2. From(queued', r) = From(queued, r)
        BY <1>3, <2>4, <3>3, Zenon DEF From, FetchConstants
      <4> QED BY <3>1, <4>1, <4>2, Zenon
    <3> QED BY <3>2, <3>3, Zenon
  <2>6. BlockLimitKept'
    <3>1. \A r \in Peers : queues'[r] = Cardinality(From(queued', r)) /\ queues'[r] <= BlockLimit
      BY <2>5, Zenon
    <3> QED BY <3>1, Zenon DEF BlockLimitKept, From
  <2>7. OneImport'
    <3>1. h \notin queue /\ importing[h] = "no" /\ p # None
      BY <1>3, <2>1, Zenon DEF OneImport, FetchConstants
    <3> QED BY <1>3, <2>1, <2>4, <3>1, Zenon DEF OneImport
  <2>8. StageInv' /\ Announced' = Announced /\ Fetched' = Fetched
    BY <1>3, StageSame, Zenon
  <2> QED BY <2>1, <2>3, <2>6, <2>7, <2>8, Zenon DEF WaitInv
<1> QED BY <1>1, <1>2, <1>3, Zenon DEF Enqueue

(* A step that starts no timer and schedules nothing.                      *)
LEMMA TimersKept ==
    ASSUME TimerInv, UNCHANGED timers, Announced' \subseteq Announced, Fetched' \subseteq Fetched,
           pc = "fetch" => pc' = "fetch", pc = "complete" => pc' = "complete"
    PROVE  TimerInv'
BY Zenon DEF TimerInv, timers

(* The steps that only move loop on. *)
LEMMA PlainKeeps ==
    ASSUME FetchInv, UNCHANGED announceVars, UNCHANGED queueVars, importing' = importing, UNCHANGED timers,
           pc = "fetch" => pc' = "fetch", pc = "complete" => pc' = "complete"
    PROVE  FetchInv'
<1>1. StageInv' /\ Announced' = Announced /\ Fetched' = Fetched /\ WaitInv'
  BY StageSame, WaitSame, Zenon DEF FetchInv
<1>2. Announced' \subseteq Announced /\ Fetched' \subseteq Fetched
  BY <1>1, Zenon
<1> QED BY <1>1, <1>2, TimersKept, Zenon DEF FetchInv

LEMMA LoopKeeps ==
    ASSUME FetchInv, \/ ReadHeight \/ Wait \/ EnqueueDone \/ Stop
                     \/ \E p \in Peers, h \in Blocks : FilterBodies(p, Body[h])
                     \/ \E h \in Blocks : Extend(h)
    PROVE  FetchInv'
<1>1. UNCHANGED announceVars /\ UNCHANGED queueVars /\ importing' = importing /\ UNCHANGED timers
  BY Zenon DEF ReadHeight, Wait, EnqueueDone, Stop, FilterBodies, Extend
<1>2. (pc = "fetch" => pc' = "fetch") /\ (pc = "complete" => pc' = "complete")
  BY Zenon DEF ReadHeight, Wait, EnqueueDone, Stop, FilterBodies, Extend
<1> QED BY <1>1, <1>2, PlainKeeps, Zenon

(* The steps that end with forgetHash and start no timer. *)
LEMMA ForgettingKeeps ==
    ASSUME FetchInv, NEW h \in Blocks, NEW f \in Notices, NEW c \in Notices, ForgetHash(h, f, c),
           UNCHANGED queueVars, importing' = importing, UNCHANGED timers,
           pc = "fetch" => pc' = "fetch", pc = "complete" => pc' = "complete"
    PROVE  FetchInv'
<1>1. StageInv' /\ Announced' \subseteq Announced /\ Fetched' \subseteq Fetched
  BY ForgetKeeps, Zenon DEF FetchInv
<1> QED BY <1>1, WaitSame, TimersKept, Zenon DEF FetchInv

LEMMA ExpireKeeps == ASSUME FetchInv, NEW h \in Blocks, Expire(h) PROVE FetchInv'
<1>1. None \in Notices
  BY Zenon DEF Notices
<1> QED BY <1>1, ForgettingKeeps, Zenon DEF Expire

LEMMA FetchHeaderKeeps ==
    ASSUME FetchInv, NEW h \in Blocks, NEW k \in DOMAIN announced[h], FetchHeader(h, k) PROVE FetchInv'
<1> DEFINE f == IF h \in chain THEN None ELSE announced[h][k]
<1>1. f \in Notices /\ None \in Notices
  <2>1. announced[h] \in Seq(Announce)
    BY Zenon DEF FetchInv, StageInv
  <2>2. announced[h][k] \in Announce
    BY <2>1
  <2> QED BY <2>2, Zenon DEF Notices
<1>2. ForgetHash(h, f, None) /\ UNCHANGED queueVars /\ importing' = importing /\ UNCHANGED timers /\ pc' = pc
  BY Zenon DEF FetchHeader
<1> HIDE DEF f
<1> QED BY <1>1, <1>2, ForgettingKeeps, Zenon

LEMMA FetchBodyKeeps == ASSUME FetchInv, NEW h \in Blocks, FetchBody(h) PROVE FetchInv'
<1> DEFINE c == IF h \in chain THEN None ELSE fetched[h]
<1>1. c \in Notices /\ None \in Notices
  BY Zenon DEF Notices, FetchInv, StageInv
<1>2. ForgetHash(h, None, c) /\ UNCHANGED queueVars /\ importing' = importing /\ UNCHANGED timers /\ pc' = pc
  BY Zenon DEF FetchBody
<1> HIDE DEF c
<1> QED BY <1>1, <1>2, ForgettingKeeps, Zenon

LEMMA MatchKeeps == ASSUME FetchInv, NEW h \in Blocks, Match(h) PROVE FetchInv'
<1>1. UNCHANGED queueVars /\ importing' = importing /\ UNCHANGED timers /\ pc = "match"
  BY Zenon DEF Match
<1>2. (pc = "fetch" => pc' = "fetch") /\ (pc = "complete" => pc' = "complete")
  BY <1>1, Zenon
<1>3. ForgetHash(h, None, None) \/ UNCHANGED announceVars
  BY Zenon DEF Match
<1>4. None \in Notices
  BY Zenon DEF Notices
<1> QED BY <1>1, <1>2, <1>3, <1>4, PlainKeeps, ForgettingKeeps, Zenon

LEMMA PopItemKeeps == ASSUME FetchConstants, FetchInv, NEW h \in Blocks, PopItem(h) PROVE FetchInv'
<1>1. /\ h \in queue /\ queue' = queue \ {h} /\ UNCHANGED announceVars /\ UNCHANGED timers /\ pc' = pc
      /\ \/ ForgetBlock(h) /\ importing' = importing
         \/ importing' = [importing EXCEPT ![h] = "run"] /\ queued' = queued /\ queues' = queues
  BY Zenon DEF PopItem
<1>2. /\ WaitInv /\ queue \subseteq Blocks /\ importing \in [Blocks -> {"no", "run", "done"}] /\ OneImport
      /\ queued[h] # None /\ importing[h] = "no"
  BY <1>1, Zenon DEF FetchInv, WaitInv, OneImport
<1>3. StageInv' /\ Announced' = Announced /\ Fetched' = Fetched
  BY <1>1, StageSame, Zenon DEF FetchInv
<1>4. TimerInv'
  BY <1>1, <1>3, TimersKept, Zenon DEF FetchInv
<1>5. queue' \subseteq Blocks /\ h \notin queue' /\ \A g \in Blocks : g # h => (g \in queue' <=> g \in queue)
  BY <1>1, <1>2, Zenon
<1>6. CASE ForgetBlock(h) /\ importing' = importing
  <2>1. /\ queued' \in [Blocks -> Peers \cup {None}] /\ queues' \in [Peers -> Nat]
        /\ queued'[h] = None /\ (\A g \in Blocks : g # h => queued'[g] = queued[g])
        /\ BlockLimitKept'
    BY <1>2, <1>6, LeaveKeeps, Zenon
  <2>2. OneImport'
    BY <1>2, <1>5, <1>6, <2>1, Zenon DEF OneImport
  <2> QED BY <1>2, <1>3, <1>4, <1>5, <1>6, <2>1, <2>2, Zenon DEF FetchInv, WaitInv
<1>7. CASE importing' = [importing EXCEPT ![h] = "run"] /\ queued' = queued /\ queues' = queues
  <2>1. importing' \in [Blocks -> {"no", "run", "done"}] /\ importing'[h] = "run"
    BY <1>2, <1>7, Zenon
  <2>2. \A g \in Blocks : g # h => importing'[g] = importing[g]
    BY <1>2, <1>7, Zenon
  <2>3. "run" # "no"
    BY Zenon
  <2>4. OneImport'
    BY <1>2, <1>5, <1>7, <2>1, <2>2, <2>3, Zenon DEF OneImport
  <2>5. BlockLimitKept'
    BY <1>2, <1>7, Zenon DEF WaitInv, BlockLimitKept
  <2> QED BY <1>2, <1>3, <1>4, <1>5, <1>7, <2>1, <2>4, <2>5, Zenon DEF FetchInv, WaitInv
<1> QED BY <1>1, <1>6, <1>7, Zenon

LEMMA DoneKeeps == ASSUME FetchConstants, FetchInv, NEW h \in Blocks, Done(h) PROVE FetchInv'
<1>1. /\ pc = "select" /\ importing[h] = "done" /\ importing' = [importing EXCEPT ![h] = "no"]
      /\ ForgetHash(h, None, None) /\ ForgetBlock(h) /\ queue' = queue /\ UNCHANGED timers
  BY Zenon DEF Done
<1>2. "done" # "no" /\ pc # "fetch" /\ pc # "complete" /\ None \in Notices
  BY <1>1, Zenon DEF Notices
<1>3. /\ WaitInv /\ queue \subseteq Blocks /\ importing \in [Blocks -> {"no", "run", "done"}] /\ OneImport
      /\ queued[h] # None /\ h \notin queue
  BY <1>1, <1>2, Zenon DEF FetchInv, WaitInv, OneImport
<1>4. StageInv' /\ Announced' \subseteq Announced /\ Fetched' \subseteq Fetched
  BY <1>1, <1>2, ForgetKeeps, Zenon DEF FetchInv
<1>5. TimerInv'
  BY <1>1, <1>2, <1>4, TimersKept, Zenon DEF FetchInv
<1>6. /\ queued' \in [Blocks -> Peers \cup {None}] /\ queues' \in [Peers -> Nat]
      /\ queued'[h] = None /\ (\A g \in Blocks : g # h => queued'[g] = queued[g])
      /\ BlockLimitKept'
  BY <1>1, <1>3, LeaveKeeps, Zenon
<1>7. importing' \in [Blocks -> {"no", "run", "done"}] /\ importing'[h] = "no"
  BY <1>1, <1>3, Zenon
<1>8. \A g \in Blocks : g # h => importing'[g] = importing[g]
  BY <1>1, <1>3, Zenon
<1>9. OneImport'
  BY <1>1, <1>3, <1>6, <1>7, <1>8, Zenon DEF OneImport
<1> QED BY <1>1, <1>3, <1>4, <1>5, <1>6, <1>7, <1>9, Zenon DEF FetchInv, WaitInv

LEMMA ImportKeeps == ASSUME FetchInv, NEW h \in Blocks, Import(h) PROVE FetchInv'
<1>1. /\ importing[h] = "run" /\ importing' = [importing EXCEPT ![h] = "done"]
      /\ UNCHANGED announceVars /\ UNCHANGED timers /\ pc' = pc
      /\ queue' = queue /\ queued' = queued /\ queues' = queues
  BY Zenon DEF Import, queueVars
<1>2. "done" # "no" /\ "run" # "no"
  BY Zenon
<1>3. StageInv' /\ Announced' = Announced /\ Fetched' = Fetched
  BY <1>1, StageSame, Zenon DEF FetchInv
<1>4. TimerInv'
  BY <1>1, <1>3, TimersKept, Zenon DEF FetchInv
<1>5. importing \in [Blocks -> {"no", "run", "done"}] /\ OneImport /\ BlockLimitKept
  BY Zenon DEF FetchInv, WaitInv
<1>6. importing' \in [Blocks -> {"no", "run", "done"}] /\ importing'[h] = "done"
  BY <1>1, <1>5, Zenon
<1>7. \A g \in Blocks : g # h => importing'[g] = importing[g]
  BY <1>1, <1>5, Zenon
<1>8. OneImport' /\ BlockLimitKept'
  BY <1>1, <1>2, <1>5, <1>6, <1>7, Zenon DEF OneImport, BlockLimitKept
<1> QED BY <1>1, <1>3, <1>4, <1>6, <1>8, Zenon DEF FetchInv, WaitInv

LEMMA InjectKeeps == ASSUME FetchConstants, FetchInv, NEW p \in Peers, NEW h \in Blocks, Inject(p, h)
                     PROVE  FetchInv'
<1>1. pc = "select" /\ Enqueue(p, h) /\ importing' = importing /\ UNCHANGED timers
  BY Zenon DEF Inject
<1>2. pc # "fetch" /\ pc # "complete"
  BY <1>1, Zenon
<1>3. StageInv' /\ Announced' \subseteq Announced /\ Fetched' \subseteq Fetched /\ WaitInv'
  BY <1>1, EnqueueKeeps, Zenon DEF FetchInv
<1> QED BY <1>1, <1>2, <1>3, TimersKept, Zenon DEF FetchInv

LEMMA EnqueueFoundKeeps == ASSUME FetchConstants, FetchInv, NEW h \in Blocks, EnqueueFound(h) PROVE FetchInv'
<1>1. /\ importing' = importing /\ UNCHANGED timers /\ pc' = pc
      /\ \/ completing[h] # None /\ Enqueue(completing[h].origin, h)
         \/ UNCHANGED announceVars /\ UNCHANGED queueVars
  BY Zenon DEF EnqueueFound
<1>2. CASE completing[h] # None /\ Enqueue(completing[h].origin, h)
  <2>1. completing[h] \in Announce
    BY <1>2, Zenon DEF FetchInv, StageInv, Notices
  <2>2. completing[h].origin \in Peers
    BY <2>1, Zenon DEF Announce
  <2>3. StageInv' /\ Announced' \subseteq Announced /\ Fetched' \subseteq Fetched /\ WaitInv'
    BY <1>1, <1>2, <2>2, EnqueueKeeps, Zenon DEF FetchInv
  <2> QED BY <1>1, <2>3, TimersKept, Zenon DEF FetchInv
<1>3. CASE UNCHANGED announceVars /\ UNCHANGED queueVars
  BY <1>1, <1>3, PlainKeeps, Zenon
<1> QED BY <1>1, <1>2, <1>3, Zenon

(* The handlers of the timers: only when they are through is the timer for what is left set. *)
LEMMA HandlerKeeps ==
    ASSUME FetchInv, FetchTimer \/ CompleteTimer \/ RescheduleFetch \/ RescheduleComplete PROVE FetchInv'
<1>1. UNCHANGED announceVars /\ UNCHANGED queueVars /\ importing' = importing
  BY Zenon DEF FetchTimer, CompleteTimer, RescheduleFetch, RescheduleComplete
<1>2. StageInv' /\ Announced' = Announced /\ Fetched' = Fetched /\ WaitInv'
  BY <1>1, StageSame, WaitSame, Zenon DEF FetchInv
<1>3. TimerInv'
  <2>1. CASE FetchTimer
    <3>1. pc = "select" /\ pc' = "fetch" /\ completeTimer' = completeTimer
      BY <2>1, Zenon DEF FetchTimer
    <3>2. pc # "complete"
      BY <3>1, Zenon
    <3> QED BY <1>2, <3>1, <3>2, Zenon DEF FetchInv, TimerInv
  <2>2. CASE CompleteTimer
    <3>1. pc = "select" /\ pc' = "complete" /\ fetchTimer' = fetchTimer
      BY <2>2, Zenon DEF CompleteTimer
    <3>2. pc # "fetch"
      BY <3>1, Zenon
    <3> QED BY <1>2, <3>1, <3>2, Zenon DEF FetchInv, TimerInv
  <2>3. CASE RescheduleFetch
    <3>1. pc = "fetch" /\ fetchTimer' = (Announced # {}) /\ completeTimer' = completeTimer
      BY <2>3, Zenon DEF RescheduleFetch
    <3>2. pc # "complete"
      BY <3>1, Zenon
    <3> QED BY <1>2, <3>1, <3>2, Zenon DEF FetchInv, TimerInv
  <2>4. CASE RescheduleComplete
    <3>1. pc = "complete" /\ completeTimer' = (Fetched # {}) /\ fetchTimer' = fetchTimer
      BY <2>4, Zenon DEF RescheduleComplete
    <3>2. pc # "fetch"
      BY <3>1, Zenon
    <3> QED BY <1>2, <3>1, <3>2, Zenon DEF FetchInv, TimerInv
  <2> QED BY <2>1, <2>2, <2>3, <2>4, Zenon
<1> QED BY <1>2, <1>3, Zenon DEF FetchInv

LEMMA NotifyKeeps ==
    ASSUME FetchConstants, FetchInv, NEW p \in Peers, NEW h \in Blocks, NEW n \in {0, Number[h]}, Notify(p, h, n)
    PROVE  FetchInv'
<1> DEFINE a == [origin |-> p, number |-> n]
<1>1. pc = "select" /\ UNCHANGED queueVars /\ importing' = importing
  BY Zenon DEF Notify
<1>2. pc # "fetch" /\ pc # "complete"
  BY <1>1, Zenon
<1>3. CASE UNCHANGED announceVars /\ UNCHANGED timers
  BY <1>1, <1>2, <1>3, PlainKeeps, Zenon
<1>4. CASE ~(UNCHANGED announceVars /\ UNCHANGED timers)
  <2>1. /\ fetching[h] = None /\ completing[h] = None
        /\ announced' = [announced EXCEPT ![h] = Append(announced[h], a)]
        /\ fetchTimer' = (fetchTimer \/ Announced \subseteq {h})
        /\ fetching' = fetching /\ fetched' = fetched /\ completing' = completing /\ completeTimer' = completeTimer
    BY <1>4, Zenon DEF Notify, timers
  <2>2. /\ announced \in [Blocks -> Seq(Announce)] /\ OneStage
        /\ fetching \in [Blocks -> Notices] /\ fetched \in [Blocks -> Notices] /\ completing \in [Blocks -> Notices]
    BY Zenon DEF FetchInv, StageInv
  <2>3. a \in Announce
    BY DEF FetchConstants, Announce
  <2>4. Append(announced[h], a) \in Seq(Announce)
    <3> HIDE DEF a
    <3> QED BY <2>2, <2>3
  <2> HIDE DEF a
  <2>5. announced' \in [Blocks -> Seq(Announce)] /\ \A g \in Blocks : g # h => announced'[g] = announced[g]
    BY <2>1, <2>2, <2>4, Zenon
  <2>6. fetched[h] = None
    BY <2>1, <2>2, Zenon DEF OneStage
  <2>7. OneStage'
    BY <2>1, <2>2, <2>5, <2>6, Zenon DEF OneStage
  <2>8. Fetched' = Fetched
    BY <2>1, Zenon DEF Fetched
  <2>9. TimerInv'
    <3>1. ~fetchTimer => Announced = {}
      BY <1>2, Zenon DEF FetchInv, TimerInv
    <3>2. fetchTimer'
      BY <2>1, <3>1, Zenon
    <3> QED BY <1>2, <2>1, <2>8, <3>2, Zenon DEF FetchInv, TimerInv
  <2>10. WaitInv'
    BY <1>1, WaitSame, Zenon DEF FetchInv
  <2> QED BY <2>1, <2>2, <2>5, <2>7, <2>9, <2>10, Zenon DEF FetchInv, StageInv
<1> QED BY <1>3, <1>4, Zenon

LEMMA FilterHeadersKeeps ==
    ASSUME FetchConstants, FetchInv, NEW p \in Peers, NEW h \in Blocks, FilterHeaders(p, h) PROVE FetchInv'
<1>1. pc = "select" /\ Expected(p, h) /\ UNCHANGED queueVars /\ importing' = importing
  BY Zenon DEF FilterHeaders
<1>2. pc # "fetch" /\ pc # "complete" /\ None \in Notices
  BY <1>1, Zenon DEF Notices
<1>3. CASE ForgetHash(h, None, None) /\ UNCHANGED timers
  BY <1>1, <1>2, <1>3, ForgettingKeeps, Zenon
<1>4. CASE ~(ForgetHash(h, None, None) /\ UNCHANGED timers)
  <2>1. /\ announced' = announced /\ fetching' = fetching
        /\ \/ /\ completing' = [completing EXCEPT ![h] = fetching[h]] /\ fetched' = fetched /\ UNCHANGED timers
           \/ /\ fetched' = [fetched EXCEPT ![h] = fetching[h]] /\ completing' = completing
              /\ fetchTimer' = fetchTimer /\ completeTimer' = (completeTimer \/ Fetched = {})
    BY <1>4, Zenon DEF FilterHeaders
  <2>2. /\ announced \in [Blocks -> Seq(Announce)] /\ OneStage
        /\ fetching \in [Blocks -> Notices] /\ fetched \in [Blocks -> Notices] /\ completing \in [Blocks -> Notices]
    BY Zenon DEF FetchInv, StageInv
  <2>3. fetching[h] \in Notices /\ fetching[h] # None /\ fetched[h] = None /\ completing[h] = None
    BY <1>1, <2>2, Zenon DEF Expected
  <2>4. announced[h] = <<>>
    BY <2>2, <2>3, Zenon DEF OneStage
  <2>5. Announced' = Announced /\ WaitInv'
    BY <1>1, <2>1, WaitSame, Zenon DEF Announced, FetchInv
  <2>6. CASE completing' = [completing EXCEPT ![h] = fetching[h]] /\ fetched' = fetched /\ UNCHANGED timers
    <3>1. completing' \in [Blocks -> Notices] /\ \A g \in Blocks : g # h => completing'[g] = completing[g]
      BY <2>2, <2>3, <2>6, Zenon
    <3>2. OneStage'
      BY <2>1, <2>2, <2>3, <2>4, <2>6, <3>1, Zenon DEF OneStage
    <3>3. Fetched' = Fetched
      BY <2>6, Zenon DEF Fetched
    <3>4. TimerInv'
      BY <1>2, <2>5, <2>6, <3>3, TimersKept, Zenon DEF FetchInv
    <3> QED BY <2>1, <2>2, <2>5, <2>6, <3>1, <3>2, <3>4, Zenon DEF FetchInv, StageInv
  <2>7. CASE /\ fetched' = [fetched EXCEPT ![h] = fetching[h]] /\ completing' = completing
             /\ fetchTimer' = fetchTimer /\ completeTimer' = (completeTimer \/ Fetched = {})
    <3>1. /\ fetched' \in [Blocks -> Notices] /\ fetched'[h] = fetching[h]
          /\ \A g \in Blocks : g # h => fetched'[g] = fetched[g]
      BY <2>2, <2>3, <2>7, Zenon
    <3>2. OneStage'
      BY <2>1, <2>2, <2>3, <2>4, <2>7, <3>1, Zenon DEF OneStage
    <3>3. TimerInv'
      <4>1. ~completeTimer => Fetched = {}
        BY <1>2, Zenon DEF FetchInv, TimerInv
      <4>2. completeTimer'
        BY <2>7, <4>1, Zenon
      <4> QED BY <1>2, <2>5, <2>7, <4>2, Zenon DEF FetchInv, TimerInv
    <3> QED BY <2>1, <2>2, <2>5, <2>7, <3>1, <3>2, <3>3, Zenon DEF FetchInv, StageInv
  <2> QED BY <2>1, <2>6, <2>7, Zenon
<1> QED BY <1>3, <1>4, Zenon

(* Time. *)
LEMMA TimeKeeps == ASSUME FetchInv, NEW h \in Blocks, Ripen(h) \/ Overdue(h) PROVE FetchInv'
<1>1. /\ announced' = announced /\ fetching' = fetching /\ fetched' = fetched /\ completing' = completing
      /\ UNCHANGED queueVars /\ importing' = importing /\ UNCHANGED timers /\ pc' = pc
  BY Zenon DEF Ripen, Overdue
<1>2. StageInv' /\ Announced' = Announced /\ Fetched' = Fetched
  BY <1>1, Zenon DEF FetchInv, StageInv, OneStage, Announced, Fetched
<1>3. WaitInv' /\ TimerInv'
  BY <1>1, <1>2, WaitSame, TimersKept, Zenon DEF FetchInv
<1> QED BY <1>2, <1>3, Zenon DEF FetchInv

(* For any peers, blocks and limits, and any order of announcements,       *)
(* headers, bodies, timers and imports: a block is in one stage at a time, *)
(* a peer's count is the number of its blocks that wait or are imported    *)
(* and stays within the limit, no block is imported twice at once, and     *)
(* whatever waits for a timer has one.                                     *)
THEOREM FetcherAlwaysSound ==
    ASSUME FetchConstants
    PROVE  Spec => [](OneStage /\ BlockLimitKept /\ OneImport /\ TimersRun)
<1>1. Init => FetchInv
  BY FetchInit, Zenon
<1>2. FetchInv /\ [Next]_(vars) => FetchInv'
  <2>1. ASSUME FetchInv, Run PROVE FetchInv'
    BY <2>1, LoopKeeps, HandlerKeeps, ExpireKeeps, PopItemKeeps, FetchBodyKeeps, MatchKeeps, EnqueueFoundKeeps,
       FetchHeaderKeeps, Zenon DEF Run
  <2>2. ASSUME FetchInv, NEW p \in Peers, NEW h \in Blocks, Message(p, h) PROVE FetchInv'
    BY <2>2, NotifyKeeps, InjectKeeps, FilterHeadersKeeps, LoopKeeps, Zenon DEF Message
  <2>3. ASSUME FetchInv, NEW h \in Blocks, Done(h) \/ Import(h) \/ Extend(h) \/ Ripen(h) \/ Overdue(h)
        PROVE FetchInv'
    BY <2>3, DoneKeeps, ImportKeeps, LoopKeeps, TimeKeeps, Zenon
  <2>4. ASSUME FetchInv, UNCHANGED vars PROVE FetchInv'
    <3>1. UNCHANGED announceVars /\ UNCHANGED queueVars /\ importing' = importing /\ UNCHANGED timers /\ pc' = pc
      BY <2>4, Zenon DEF vars
    <3> QED BY <2>4, <3>1, PlainKeeps, Zenon
  <2> QED BY <2>1, <2>2, <2>3, <2>4, LoopKeeps, HandlerKeeps, Zenon DEF Next
<1>3. FetchInv => OneStage /\ BlockLimitKept /\ OneImport /\ TimersRun
  <2>1. "select" # "fetch" /\ "select" # "complete"
    BY Zenon
  <2> QED BY <2>1, Zenon DEF FetchInv, StageInv, WaitInv, TimerInv, TimersRun
<1> QED BY <1>1, <1>2, <1>3, PTL DEF Spec
=============================================================================
