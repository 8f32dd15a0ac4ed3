---------------------------- MODULE BloomMatcher ----------------------------
(***************************************************************************)
(* The pipeline that finds the blocks a log filter may match               *)
(* (utils/bloom/matcher.go, scheduler.go): sections flow through a chain   *)
(* of sub-matchers; every bit a sub-matcher needs is a stream whose        *)
(* scheduler asks the distributor for the bit vector, once for all         *)
(* streams of the bit; retrievers (Multiplex) take bits and sections from  *)
(* the distributor and deliver the vectors.                                *)
(*                                                                         *)
(* A bit vector is the set of the block offsets that are set. The sends of *)
(* a goroutine to several channels with one writer each are one step.      *)
(***************************************************************************)
EXTENDS Integers, Sequences, FiniteSets, SequencesExt

CONSTANTS
    Filters,      \* the rules: a sequence of sequences of clauses, a clause a sequence of bits
    Vector,       \* [bit -> [section -> offsets]], what the index holds
    Size,         \* sectionSize
    Begin, End,   \* the range of blocks asked for
    Buffer,       \* the capacity of the channels
    Batch,        \* sections per retrieval
    Retrievers,   \* goroutines of Multiplex
    MaxErrors     \* bound: retrievals that fail

VARIABLES
    source,       \* the next section to be fed into the chain
    chain,        \* [link -> partial matches on their way to it]
    process,      \* [link -> partial matches whose vectors have been asked for]
    reqs, held, pend, sinks,  \* [stream -> ...] the channels of its scheduler, and the section in its hands
    responses,    \* [bit -> [section -> "none", "asked" or "cached"]]
    dist,         \* requests on their way to the distributor
    requests,     \* [bit -> sections waiting]
    unallocs,     \* bits with requests that no retriever has
    allocs,       \* number of allocated retrievals
    shutdown,     \* FALSE once the distributor has seen quit
    dpc,          \* "run" or "over": the distributor
    retriever,    \* [retriever -> its state]
    results,      \* the blocks given to the user
    pipe,         \* "run", or "over": results is closed
    quit, kill,   \* the channels of the session are closed
    failures      \* retrievals that have failed

pipeVars == <<source, chain, process, reqs, held, pend, sinks, results, pipe>>
distVars == <<requests, unallocs, allocs, shutdown, dpc>>
vars == <<pipeVars, responses, dist, distVars, retriever, quit, kill, failures>>

Links == 1..Len(Filters)
Streams == {<<i, c, j>> \in Links \X (1..4) \X (1..3) :
               c \in DOMAIN Filters[i] /\ j \in DOMAIN Filters[i][c]}
Bit(k) == Filters[k[1]][k[2]][k[3]]
Bits == {Bit(k) : k \in Streams}
StreamsOf(i) == {k \in Streams : k[1] = i}
Sections == (Begin \div Size)..(End \div Size)
None == -1

Init ==
    /\ source = Begin \div Size
    /\ chain = [i \in 1..(Len(Filters) + 1) |-> <<>>] /\ process = [i \in Links |-> <<>>]
    /\ reqs = [k \in Streams |-> <<>>] /\ held = [k \in Streams |-> None]
    /\ pend = [k \in Streams |-> <<>>] /\ sinks = [k \in Streams |-> <<>>]
    /\ responses = [b \in Bits |-> [s \in Sections |-> "none"]]
    /\ dist = <<>> /\ requests = [b \in Bits |-> {}] /\ unallocs = {} /\ allocs = 0
    /\ shutdown = TRUE /\ dpc = "run"
    /\ retriever = [r \in Retrievers |-> [pc |-> "idle", bit |-> None, sections |-> {}, found |-> {}]]
    /\ results = <<>> /\ pipe = "run" /\ quit = FALSE /\ kill = FALSE /\ failures = 0

-----------------------------------------------------------------------------
(* The chain of sub-matchers *)

\* run: the next section, with every block a candidate
Feed ==
    /\ pipe = "run" /\ source \in Sections /\ Len(chain[1]) < Buffer
    /\ chain' = [chain EXCEPT ![1] = Append(@, [section |-> source, blocks |-> 0..(Size - 1)])]
    /\ source' = source + 1
    /\ UNCHANGED <<process, reqs, held, pend, sinks, results, pipe, responses, dist, distVars, retriever, quit, kill, failures>>

\* subMatch: the section goes to every stream of the link, then to the processor
Multicast(i) ==
    /\ pipe = "run" /\ chain[i] # <<>> /\ Len(process[i]) < Buffer
    /\ \A k \in StreamsOf(i) : Len(reqs[k]) < Buffer
    /\ chain' = [chain EXCEPT ![i] = Tail(@)]
    /\ process' = [process EXCEPT ![i] = Append(@, Head(chain[i]))]
    /\ reqs' = [k \in Streams |-> IF k[1] = i THEN Append(reqs[k], Head(chain[i]).section) ELSE reqs[k]]
    /\ UNCHANGED <<source, held, pend, sinks, results, pipe, responses, dist, distVars, retriever, quit, kill, failures>>

\* the vectors of a clause are intersected, the clauses united
Matches(i, data) == UNION {LET ks == {k \in StreamsOf(i) : k[2] = c}
                           IN  {n \in 0..(Size - 1) : \A k \in ks : n \in data[k]}
                           : c \in DOMAIN Filters[i]}

\* subMatch: the vectors of the section have arrived; what is left goes to the next link
Combine(i) ==
    /\ pipe = "run" /\ process[i] # <<>> /\ Len(chain[i + 1]) < Buffer
    /\ \A k \in StreamsOf(i) : sinks[k] # <<>>
    /\ LET sub  == Head(process[i])
           left == Matches(i, [k \in StreamsOf(i) |-> Head(sinks[k])]) \cap sub.blocks
       IN  chain' = IF left = {} THEN chain
                    ELSE [chain EXCEPT ![i + 1] = Append(@, [section |-> sub.section, blocks |-> left])]
    /\ process' = [process EXCEPT ![i] = Tail(@)]
    /\ sinks' = [k \in Streams |-> IF k[1] = i THEN Tail(sinks[k]) ELSE sinks[k]]
    /\ UNCHANGED <<source, reqs, held, pend, results, pipe, responses, dist, distVars, retriever, quit, kill, failures>>

\* Start: the candidates of a section that are in the range
Found(res) == LET start == res.section * Size
              IN  SetToSortSeq({start + n : n \in res.blocks} \cap (Begin..End), <)

Emit ==
    LET sink == Len(Filters) + 1
    IN  /\ pipe = "run" /\ chain[sink] # <<>>
        /\ results' = results \o Found(Head(chain[sink]))
        /\ chain' = [chain EXCEPT ![sink] = Tail(@)]
        /\ UNCHANGED <<source, process, reqs, held, pend, sinks, pipe, responses, dist, distVars, retriever, quit, kill, failures>>

\* everything has flowed through and the channels are closed one after the other; or quit is
\* closed, and the goroutines stop wherever they are
PipeOver ==
    /\ pipe = "run"
    /\ \/ quit
       \/ /\ source \notin Sections
          /\ \A i \in DOMAIN chain : chain[i] = <<>>
          /\ \A i \in Links : process[i] = <<>>
    /\ pipe' = "over"
    /\ UNCHANGED <<source, chain, process, reqs, held, pend, sinks, results, responses, dist, distVars, retriever, quit, kill, failures>>

-----------------------------------------------------------------------------
(* The schedulers *)

\* scheduleRequests: only the first stream to want a vector asks for it
Schedule(k) ==
    /\ pipe = "run" /\ held[k] = None /\ reqs[k] # <<>> /\ Len(pend[k]) < Buffer
    /\ LET s == Head(reqs[k])
           unique == responses[Bit(k)][s] = "none"
       IN  /\ responses' = IF unique THEN [responses EXCEPT ![Bit(k)][s] = "asked"] ELSE responses
           /\ held' = IF unique THEN [held EXCEPT ![k] = s] ELSE held
           /\ pend' = IF unique THEN pend ELSE [pend EXCEPT ![k] = Append(@, s)]
    /\ reqs' = [reqs EXCEPT ![k] = Tail(@)]
    /\ UNCHANGED <<source, chain, process, sinks, results, pipe, dist, distVars, retriever, quit, kill, failures>>

\* scheduleRequests: the request goes to the distributor, the section to the deliverer
Request(k) ==
    /\ pipe = "run" /\ held[k] # None /\ Len(dist) < Buffer /\ Len(pend[k]) < Buffer
    /\ dist' = Append(dist, [bit |-> Bit(k), section |-> held[k]])
    /\ pend' = [pend EXCEPT ![k] = Append(@, held[k])]
    /\ held' = [held EXCEPT ![k] = None]
    /\ UNCHANGED <<source, chain, process, reqs, sinks, results, pipe, responses, distVars, retriever, quit, kill, failures>>

\* scheduleDeliveries: in the order of the sections, whatever the order of the answers
Forward(k) ==
    /\ pipe = "run" /\ pend[k] # <<>> /\ Len(sinks[k]) < Buffer
    /\ responses[Bit(k)][Head(pend[k])] = "cached"
    /\ sinks' = [sinks EXCEPT ![k] = Append(@, Vector[Bit(k)][Head(pend[k])])]
    /\ pend' = [pend EXCEPT ![k] = Tail(@)]
    /\ UNCHANGED <<source, chain, process, reqs, held, results, pipe, responses, dist, distVars, retriever, quit, kill, failures>>

-----------------------------------------------------------------------------
(* The distributor *)

Idle == {r \in Retrievers : retriever[r].pc = "idle"}

Take(ret, r, b) == [ret EXCEPT ![r] = [@ EXCEPT !.pc = "bit", !.bit = b]]

\* assign: a retriever that waits gets the bit; there may be none, or none waits yet
Assign(b, ret, n) ==
    \/ \E r \in Idle : retriever' = Take(ret, r, b) /\ allocs' = n + 1 /\ UNCHANGED unallocs
    \/ retriever' = ret /\ allocs' = n /\ unallocs' = unallocs \cup {b}

NoAssign(ret, n) == retriever' = ret /\ allocs' = n /\ UNCHANGED unallocs

NewRequest ==
    /\ dpc = "run" /\ dist # <<>>
    /\ LET b == Head(dist).bit
       IN  /\ requests' = [requests EXCEPT ![b] = @ \cup {Head(dist).section}]
           /\ IF requests[b] = {} THEN Assign(b, retriever, allocs) ELSE NoAssign(retriever, allocs)
    /\ dist' = Tail(dist)
    /\ UNCHANGED <<pipeVars, responses, shutdown, dpc, quit, kill, failures>>

Lowest(b) == CHOOSE s \in requests[b] : \A t \in requests[b] : s <= t

\* a retriever arrives while bits wait: it gets one with the lowest section
Arrive(r) ==
    /\ dpc = "run" /\ retriever[r].pc = "idle" /\ unallocs # {}
    /\ \E b \in unallocs :
          /\ \A c \in unallocs : Lowest(b) <= Lowest(c)
          /\ unallocs' = unallocs \ {b}
          /\ retriever' = Take(retriever, r, b)
    /\ allocs' = allocs + 1
    /\ UNCHANGED <<pipeVars, responses, dist, requests, shutdown, dpc, quit, kill, failures>>

\* AllocateSections: up to count sections, the lowest first; the rest is assigned to another
Allocate(r, count, next) ==
    LET b    == retriever[r].bit
        mine == {s \in requests[b] : Cardinality({t \in requests[b] : t < s}) < count}
        ret  == [retriever EXCEPT ![r] = [@ EXCEPT !.pc = next, !.sections = mine]]
    IN  /\ requests' = [requests EXCEPT ![b] = @ \ mine]
        /\ IF requests[b] # mine THEN Assign(b, ret, allocs) ELSE NoAssign(ret, allocs)

\* a delivery: the vectors found are cached, the others asked for again
Deliver(r) ==
    LET b       == retriever[r].bit
        missing == retriever[r].sections \ retriever[r].found
        ret     == [retriever EXCEPT ![r] = [pc |-> IF retriever[r].pc = "abort" THEN "over" ELSE "idle", bit |-> None, sections |-> {}, found |-> {}]]
    IN  /\ dpc = "run" /\ retriever[r].pc \in {"deliver", "abort"}
        /\ responses' = [responses EXCEPT ![b] =
                           [s \in Sections |-> IF s \in retriever[r].found THEN "cached" ELSE @[s]]]
        /\ requests' = [requests EXCEPT ![b] = @ \cup missing]
        /\ IF missing # {} /\ requests[b] = {} THEN Assign(b, ret, allocs - 1)
           ELSE NoAssign(ret, allocs - 1)
        /\ dpc' = IF allocs' = 0 /\ ~shutdown THEN "over" ELSE "run"
        /\ UNCHANGED <<pipeVars, dist, shutdown, quit, kill, failures>>

\* quit: pending retrievals are waited for
Shutdown ==
    /\ dpc = "run" /\ quit /\ shutdown
    /\ shutdown' = FALSE
    /\ dpc' = IF allocs = 0 THEN "over" ELSE "run"
    /\ UNCHANGED <<pipeVars, responses, dist, requests, unallocs, allocs, retriever, quit, kill, failures>>

\* kill: they are not waited for any longer
Killed ==
    /\ dpc = "run" /\ kill
    /\ dpc' = "over"
    /\ UNCHANGED <<pipeVars, responses, dist, requests, unallocs, allocs, shutdown, retriever, quit, kill, failures>>

-----------------------------------------------------------------------------
(* A retriever (Multiplex) *)

\* AllocateRetrieval returns nothing once quit is closed
Leave(r) ==
    /\ quit /\ retriever[r].pc = "idle"
    /\ retriever' = [retriever EXCEPT ![r].pc = "over"]
    /\ UNCHANGED <<pipeVars, responses, dist, distVars, quit, kill, failures>>

\* PendingSections and AllocateSections: if fewer sections than a batch wait, quit is looked at
\* (wait is zero); each of the calls gives up once quit is closed
GetSections(r) ==
    /\ retriever[r].pc = "bit"
    /\ \/ dpc = "run" /\ Allocate(r, Batch, "request")
       \/ dpc = "run" /\ quit /\ Allocate(r, 0, "abort")
       \/ /\ quit /\ retriever' = [retriever EXCEPT ![r].pc = "abort"]
          /\ UNCHANGED <<requests, unallocs, allocs>>
    /\ UNCHANGED <<pipeVars, responses, dist, shutdown, dpc, quit, kill, failures>>

\* the request is accepted by a handler, which always answers: all vectors, or an error and some
\* of them; or quit is closed and nothing is served
Serve(r) ==
    /\ retriever[r].pc = "request"
    /\ \/ /\ retriever' = [retriever EXCEPT ![r].pc = "deliver", ![r].found = retriever[r].sections]
          /\ UNCHANGED <<quit, failures>>
       \/ /\ failures < MaxErrors /\ failures' = failures + 1
          /\ \E found \in SUBSET retriever[r].sections :
                /\ found # retriever[r].sections
                /\ retriever' = [retriever EXCEPT ![r].pc = "closing", ![r].found = found]
          /\ quit' = TRUE
       \/ /\ quit /\ retriever' = [retriever EXCEPT ![r].pc = "abort"]
          /\ UNCHANGED <<quit, failures>>
    /\ UNCHANGED <<pipeVars, responses, dist, distVars, kill>>

\* Close waits until the goroutines of the session are over
SessionOver == dpc = "over" /\ pipe = "over"

Closed(r) ==
    /\ retriever[r].pc = "closing" /\ SessionOver
    /\ retriever' = [retriever EXCEPT ![r].pc = "deliver"]
    /\ UNCHANGED <<pipeVars, responses, dist, distVars, quit, kill, failures>>

\* DeliverSections gives up once kill is closed
GiveUp(r) ==
    /\ kill /\ retriever[r].pc \in {"deliver", "abort"}
    /\ retriever' = [retriever EXCEPT ![r] = [pc |-> IF @.pc = "abort" THEN "over" ELSE "idle", bit |-> None, sections |-> {}, found |-> {}]]
    /\ UNCHANGED <<pipeVars, responses, dist, distVars, quit, kill, failures>>

-----------------------------------------------------------------------------
(* The user *)

\* Close, called when results is closed or before
Close ==
    /\ ~quit /\ quit' = TRUE
    /\ UNCHANGED <<pipeVars, responses, dist, distVars, retriever, kill, failures>>

\* the timer of Close
Kill ==
    /\ quit /\ ~kill /\ kill' = TRUE
    /\ UNCHANGED <<pipeVars, responses, dist, distVars, retriever, quit, failures>>

Pipeline == Feed \/ Emit \/ PipeOver \/ \E i \in Links : Multicast(i) \/ Combine(i)
Scheduler(k) == Schedule(k) \/ Request(k) \/ Forward(k)
Distributor == NewRequest \/ Shutdown \/ Killed
Multiplex(r) == Leave(r) \/ Arrive(r) \/ GetSections(r) \/ Serve(r) \/ Closed(r) \/ Deliver(r) \/ GiveUp(r)

\* the session is over and so are its retrievers
Over ==
    /\ SessionOver /\ kill /\ \A r \in Retrievers : retriever[r].pc = "over"
    /\ UNCHANGED vars

Next ==
    \/ Pipeline \/ Distributor \/ Close \/ Kill \/ Over
    \/ \E k \in Streams : Scheduler(k)
    \/ \E r \in Retrievers : Multiplex(r)

Spec == Init /\ [][Next]_vars

-----------------------------------------------------------------------------
(* Properties *)

Expected == SetToSortSeq({n \in Begin..End :
              \A i \in Links : \E c \in DOMAIN Filters[i] : \A j \in DOMAIN Filters[i][c] :
                 (n % Size) \in Vector[Filters[i][c][j]][n \div Size]}, <)

(* The variables have their types; allocs counts the retrievals under way. *)
TypeOK ==
    /\ allocs >= 0
    /\ dpc = "run" /\ ~kill => allocs = Cardinality({r \in Retrievers :
                                 retriever[r].pc \in {"bit", "request", "closing", "deliver", "abort"}})
    /\ \A b \in Bits : \A s \in Sections : responses[b][s] \in {"none", "asked", "cached"}

(* The blocks found are those of a plain search, in order; all of them     *)
(* when the results are closed and the session was not aborted.            *)
MatchesFound ==
    /\ IsPrefix(results, Expected)
    /\ pipe = "over" /\ ~quit => results = Expected

(* A vector that was asked for and has not come is on its way in exactly   *)
(* one place: in the hands of its stream, in the channel, in the requests, *)
(* or with a retriever (until the session is killed).                      *)
AskedOnce ==
    dpc = "run" /\ ~kill =>
    \A b \in Bits : \A s \in Sections : responses[b][s] = "asked" =>
        1 = Cardinality({k \in Streams : Bit(k) = b /\ held[k] = s})
          + Cardinality({n \in DOMAIN dist : dist[n] = [bit |-> b, section |-> s]})
          + (IF s \in requests[b] THEN 1 ELSE 0)
          + Cardinality({r \in Retrievers : retriever[r].bit = b /\ s \in retriever[r].sections})

(* A bit whose requests wait is either free or with one retriever that has *)
(* not taken its sections yet, never both and never neither.               *)
BitHeldOnce ==
    dpc = "run" /\ ~quit =>
    \A b \in Bits : requests[b] # {} =>
        1 = (IF b \in unallocs THEN 1 ELSE 0)
          + Cardinality({r \in Retrievers : retriever[r].bit = b /\ retriever[r].pc = "bit"})

MatcherSound == TypeOK /\ MatchesFound /\ AskedOnce /\ BitHeldOnce

\* the goroutines run; the handlers of the node answer
FairSpec ==
    /\ Spec /\ WF_vars(Pipeline) /\ WF_vars(Distributor) /\ WF_vars(Kill)
    /\ \A k \in Streams : WF_vars(Scheduler(k))
    /\ \A r \in Retrievers : WF_vars(Multiplex(r))

(* The results are closed in the end.                                      *)
ResultsClosed == pipe = "over"
MatchEnds == <>ResultsClosed

(* Close returns, and the retrievers stop: nobody waits for an answer that *)
(* nobody will give.                                                       *)
Closing == quit
AllOver == SessionOver /\ \A r \in Retrievers : retriever[r].pc = "over"
CloseReturns == Closing ~> AllOver
=============================================================================
