---------------------------- MODULE Blockproducer ----------------------------
(***************************************************************************)
(* Starting and stopping block production: the API calls, which run in     *)
(* goroutines of their own (StartProducing spawns one), the loop that      *)
(* follows the downloader's events, the producer with its lock, the two    *)
(* loops that commit new work, and the CPU agent with its channels.        *)
(*                                                                         *)
(* Each caller has a program counter; the atomic flags are read and        *)
(* written one step at a time.                                             *)
(***************************************************************************)
EXTENDS Naturals

CONSTANTS
    Users,          \* goroutines that call Start and Stop
    Update, Wait,   \* the loops of the producer
    Follower,       \* Blockproducer.update, which follows the downloader
    None,
    MaxCalls        \* bound on the number of API calls

Callers == Users \cup {Update, Wait, Follower}

VARIABLES
    canStart, shouldStart, producing,   \* of Blockproducer
    active,                             \* producer.producing
    mu,                                 \* who holds producer.mu
    isProducing, stop, workCh,          \* of CpuAgent: whether the channels are full
    agents,                             \* how many goroutines run CpuAgent.update
    sealing,                            \* whether a work is between the agent and recv
    pc,                                 \* where each caller is
    should,                             \* Follower's local copy of shouldStart
    syncing,                            \* whether the downloader is between its events
    calls

flags == <<canStart, shouldStart, producing>>
agentVars == <<isProducing, stop, workCh, agents, sealing>>
envVars == <<should, syncing, calls>>
vars == <<flags, active, mu, agentVars, pc, envVars>>

Steps == {"idle", "start", "coinbase", "canStart", "producing", "spin", "commit", "push",
          "stop", "signal", "drain", "stopped", "mark", "clear",
          "abort", "resume", "allow", "reset", "exit"}

\* The types, and that the lock is held exactly by the caller whose step is
\* inside commitNewWork or producer.stop.
TypeOK ==
    /\ \A c \in Callers : mu = c <=> pc[c] \in {"push", "signal", "drain", "stopped"}
    /\ canStart \in BOOLEAN /\ shouldStart \in BOOLEAN /\ producing \in BOOLEAN
    /\ active \in BOOLEAN /\ mu \in Callers \cup {None}
    /\ isProducing \in BOOLEAN /\ stop \in BOOLEAN /\ workCh \in BOOLEAN
    /\ agents \in Nat /\ sealing \in BOOLEAN
    /\ pc \in [Callers -> Steps]
    /\ should \in BOOLEAN /\ syncing \in BOOLEAN /\ calls \in 0..MaxCalls

Init ==
    /\ canStart = TRUE /\ shouldStart = FALSE /\ producing = FALSE
    /\ active = FALSE /\ mu = None
    /\ isProducing = FALSE /\ stop = FALSE /\ workCh = FALSE /\ agents = 0 /\ sealing = FALSE
    /\ pc = [c \in Callers |-> "idle"]
    /\ should = FALSE /\ syncing = FALSE /\ calls = 0

At(c, s) == pc[c] = s
Goto(c, s) == pc' = [pc EXCEPT ![c] = s]
\* where a caller goes when Start, Stop or commitNewWork returns
Return(c) == Goto(c, IF c = Follower THEN "exit" ELSE "idle")

Acquire(c) == mu = None /\ mu' = c
Release(c) == mu = c /\ mu' = None

-----------------------------------------------------------------------------
(* Start *)

StartWants(c) ==
    /\ At(c, "start")
    /\ shouldStart' = TRUE /\ Goto(c, "coinbase")
    /\ UNCHANGED <<canStart, producing, active, mu, agentVars, envVars>>

\* producer.setCoinbase, under the lock
StartSetsCoinbase(c) ==
    /\ At(c, "coinbase") /\ mu = None
    /\ Goto(c, "canStart")
    /\ UNCHANGED <<flags, active, mu, agentVars, envVars>>

StartChecks(c) ==
    /\ At(c, "canStart")
    /\ IF canStart THEN Goto(c, "producing") ELSE Return(c)
    /\ UNCHANGED <<flags, active, mu, agentVars, envVars>>

StartMarks(c) ==
    /\ At(c, "producing")
    /\ producing' = TRUE /\ Goto(c, "spin")
    /\ UNCHANGED <<canStart, shouldStart, active, mu, agentVars, envVars>>

\* Mutant: the agent starts without comparing isProducing
StartTwice(c) ==
    /\ At(c, "spin") /\ mu = None
    /\ active' = TRUE /\ isProducing' = TRUE /\ agents' = agents + 1
    /\ Goto(c, "commit")
    /\ UNCHANGED <<flags, mu, stop, workCh, sealing, envVars>>

\* producer.start and the agent's Start
StartSpins(c) ==
    /\ At(c, "spin") /\ mu = None
    /\ active' = TRUE
    /\ isProducing' = TRUE /\ agents' = IF isProducing THEN agents ELSE agents + 1
    /\ Goto(c, "commit")
    /\ UNCHANGED <<flags, mu, stop, workCh, sealing, envVars>>

-----------------------------------------------------------------------------
(* commitNewWork: the work may come to nothing *)

Commit(c) ==
    /\ At(c, "commit")
    /\ \/ Acquire(c) /\ active /\ Goto(c, "push")
       \/ mu = None /\ mu' = mu /\ Return(c)
    /\ UNCHANGED <<flags, active, agentVars, envVars>>

\* blocks, with the lock, while the work channel is full
Push(c) ==
    /\ At(c, "push") /\ ~workCh
    /\ workCh' = TRUE
    /\ Release(c) /\ Return(c)
    /\ UNCHANGED <<flags, active, isProducing, stop, agents, sealing, envVars>>

-----------------------------------------------------------------------------
(* Stop *)

\* Mutant: an early return with the lock held when nothing is to be stopped
StopKeepsLock(c) ==
    /\ At(c, "stop") /\ Acquire(c)
    /\ isProducing' = (isProducing /\ ~active)
    /\ Goto(c, IF active /\ isProducing THEN "signal" ELSE "mark")
    /\ UNCHANGED <<flags, active, stop, workCh, agents, sealing, envVars>>

StopLocks(c) ==
    /\ At(c, "stop") /\ Acquire(c)
    /\ isProducing' = (isProducing /\ ~active)
    /\ Goto(c, IF active /\ isProducing THEN "signal" ELSE "stopped")
    /\ UNCHANGED <<flags, active, stop, workCh, agents, sealing, envVars>>

\* the agent's stop channel holds one signal; the sender waits if the last was not taken
StopSignals(c) ==
    /\ At(c, "signal") /\ ~stop
    /\ stop' = TRUE /\ Goto(c, "drain")
    /\ UNCHANGED <<flags, active, mu, isProducing, workCh, agents, sealing, envVars>>

\* Mutant: the agent's work channel is not emptied
StopLeavesWork(c) ==
    /\ At(c, "drain") /\ Goto(c, "stopped")
    /\ UNCHANGED <<flags, active, mu, agentVars, envVars>>

StopDrains(c) ==
    /\ At(c, "drain")
    /\ workCh' = FALSE /\ Goto(c, "stopped")
    /\ UNCHANGED <<flags, active, mu, isProducing, stop, agents, sealing, envVars>>

StopUnlocks(c) ==
    /\ At(c, "stopped") /\ Release(c)
    /\ active' = FALSE
    /\ Goto(c, "mark")
    /\ UNCHANGED <<flags, agentVars, envVars>>

StopMarks(c) ==
    /\ At(c, "mark")
    /\ producing' = FALSE /\ Goto(c, "clear")
    /\ UNCHANGED <<canStart, shouldStart, active, mu, agentVars, envVars>>

StopClears(c) ==
    /\ At(c, "clear")
    /\ shouldStart' = FALSE /\ Goto(c, IF c = Follower THEN "resume" ELSE "idle")
    /\ UNCHANGED <<canStart, producing, active, mu, agentVars, envVars>>

-----------------------------------------------------------------------------
(* Blockproducer.update.  The downloader posts a StartEvent and then a     *)
(* DoneEvent or a FailedEvent, and Post waits until each is taken; after   *)
(* the second the loop ends, and later syncs are not followed.             *)

SyncStarts ==
    /\ At(Follower, "idle") /\ ~syncing
    /\ syncing' = TRUE /\ canStart' = FALSE
    /\ Goto(Follower, "abort")
    /\ UNCHANGED <<shouldStart, producing, active, mu, agentVars, should, calls>>

SyncAborts ==
    /\ At(Follower, "abort")
    /\ Goto(Follower, IF producing THEN "stop" ELSE "idle")
    /\ UNCHANGED <<flags, active, mu, agentVars, envVars>>

\* Mutant: the wish to go on is stored before Stop, which clears it
SyncForgets ==
    /\ At(Follower, "resume") /\ Goto(Follower, "idle")
    /\ UNCHANGED <<flags, active, mu, agentVars, envVars>>

\* production is to start again after the sync
SyncResumes ==
    /\ At(Follower, "resume")
    /\ shouldStart' = TRUE /\ Goto(Follower, "idle")
    /\ UNCHANGED <<canStart, producing, active, mu, agentVars, envVars>>

SyncEnds ==
    /\ At(Follower, "idle") /\ syncing
    /\ syncing' = FALSE /\ should' = shouldStart
    /\ Goto(Follower, "allow")
    /\ UNCHANGED <<flags, active, mu, agentVars, calls>>

SyncAllows ==
    /\ At(Follower, "allow")
    /\ canStart' = TRUE /\ Goto(Follower, "reset")
    /\ UNCHANGED <<shouldStart, producing, active, mu, agentVars, envVars>>

SyncResets ==
    /\ At(Follower, "reset")
    /\ shouldStart' = FALSE /\ Goto(Follower, IF should THEN "start" ELSE "exit")
    /\ UNCHANGED <<canStart, producing, active, mu, agentVars, envVars>>

-----------------------------------------------------------------------------
(* CpuAgent.update, in each of its goroutines, and the loops of the        *)
(* producer.  Sealing has a goroutine of its own, which Stop does not end. *)

\* Mutant: the agent seals in its own goroutine, before it takes the next work
TakeWorkAfterSeal ==
    /\ agents > 0 /\ workCh /\ ~sealing
    /\ workCh' = FALSE /\ sealing' = TRUE
    /\ UNCHANGED <<flags, active, mu, isProducing, stop, agents, pc, envVars>>

TakeWork ==
    /\ agents > 0 /\ workCh
    /\ workCh' = FALSE /\ sealing' = TRUE
    /\ UNCHANGED <<flags, active, mu, isProducing, stop, agents, pc, envVars>>

TakeStop ==
    /\ agents > 0 /\ stop
    /\ stop' = FALSE /\ agents' = agents - 1
    /\ UNCHANGED <<flags, active, mu, isProducing, workCh, sealing, pc, envVars>>

\* a chain head event may come at any time
HeadEvent ==
    /\ At(Update, "idle") /\ Goto(Update, "commit")
    /\ UNCHANGED <<flags, active, mu, agentVars, envVars>>

\* a result, after which there may be others on their way
Result ==
    /\ At(Wait, "idle") /\ sealing
    /\ sealing' \in BOOLEAN
    /\ \E s \in {"idle", "commit"} : Goto(Wait, s)
    /\ UNCHANGED <<flags, active, mu, isProducing, stop, workCh, agents, envVars>>

-----------------------------------------------------------------------------
(* PrivateBlockproducerAPI, StartProducing (which spawns a goroutine for   *)
(* Start) and StopProducing.                                               *)

Call(u, s) ==
    /\ At(u, "idle") /\ calls < MaxCalls
    /\ calls' = calls + 1 /\ Goto(u, s)
    /\ UNCHANGED <<flags, active, mu, agentVars, should, syncing>>

CallStart(u) == Call(u, "start")
CallStop(u) == Call(u, "stop")

StartStep(c) ==
    \/ StartWants(c) \/ StartSetsCoinbase(c) \/ StartChecks(c)
    \/ StartMarks(c) \/ StartSpins(c)
CommitStep(c) == Commit(c) \/ Push(c)
StopStep(c) ==
    \/ StopLocks(c) \/ StopSignals(c) \/ StopDrains(c)
    \/ StopUnlocks(c) \/ StopMarks(c) \/ StopClears(c)
SyncStep == SyncAborts \/ SyncResumes \/ SyncAllows \/ SyncResets

CallerStep(c) == StartStep(c) \/ CommitStep(c) \/ StopStep(c)

Next ==
    \/ \E c \in Callers : CallerStep(c)
    \/ SyncStarts \/ SyncEnds \/ SyncStep
    \/ TakeWork \/ TakeStop \/ HeadEvent \/ Result
    \/ \E u \in Users : CallStart(u) \/ CallStop(u)

Spec == Init /\ [][Next]_vars

\* The lock and the channels hand over in turn, so that nobody waits for ever
\* for what is free again and again; a sync ends with one event or the other.
Fairness ==
    /\ \A c \in Callers : SF_vars(CallerStep(c))
    /\ WF_vars(SyncEnds) /\ WF_vars(SyncStep)
    /\ WF_vars(TakeWork) /\ WF_vars(TakeStop)

FairSpec == Spec /\ Fairness

-----------------------------------------------------------------------------
One(b) == IF b THEN 1 ELSE 0

\* No goroutine of CpuAgent.update is lost or left over: one runs for a started
\* agent, and one more for each stop signal that is on its way to it.
AgentLoops ==
    agents = One(isProducing) + One(stop) + One(\E c \in Callers : At(c, "signal"))

\* While nobody holds the lock, the agent is started exactly when the producer
\* is, and a stopped producer leaves no work in the agent's channel (the next
\* start would seal it on an old head, push would wait for ever on it).
StoppedClean ==
    mu = None => active = isProducing /\ (~active => ~workCh)

\* Every call of Start and of Stop returns: push waits for the agent with the
\* lock held, and so does the agent's Stop for its earlier signal to be taken.
NoCalls == \A u \in Users : At(u, "idle")
CallsReturn == <>[]NoCalls

Stopping(c) == pc[c] \in {"stop", "signal", "drain", "stopped", "mark", "clear"}

\* Production that a sync aborted comes back after the sync, unless somebody
\* stops it.
Resuming == At(Follower, "resume")
Resumed == active \/ \E u \in Users : Stopping(u)
ComesBack == Resuming ~> Resumed
=============================================================================
