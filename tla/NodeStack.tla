----------------------------- MODULE NodeStack -----------------------------
(***************************************************************************)
(* The node (node/node.go): Start, Stop and Restart of the network server, *)
(* the services and the endpoints of the RPC server, with a failure at any *)
(* point, Wait, and the loop that accepts IPC connections. Start and Stop  *)
(* hold the node's lock from begin to end, and Stop, which nothing stops   *)
(* half way, is one step. The node has a data directory and all endpoints. *)
(***************************************************************************)
EXTENDS Naturals, Sequences, Functions

CONSTANTS
    Services,
    Users,          \* goroutines that call Restart
    Waiters,        \* goroutines that call Wait
    MaxStarts

Endpoints == <<"inproc", "ipc", "http", "ws">>     \* in the order of startRPC

VARIABLES
    starts,         \* calls of Start so far: the generation of what it makes
    phase,          \* where the call of Start is that has the lock: none, build, services, endpoints
    server,         \* Node.server: the generation that runs, or 0
    dirLock,        \* the lock of the instance directory is held
    p2p,            \* the network server of the generation runs
    service,        \* a service: new, built, running, stopped
    opened,         \* endpoints that startRPC has opened
    open,           \* endpoints that are open
    ipcListener,    \* Node.ipcListener: a generation, or 0
    closed,         \* generations whose IPC listener is closed
    accepting,      \* generations whose accept loop runs
    waiter,         \* the generation a waiter waits for; 0 before, and Returned
    user            \* where a call of Restart is

vars == <<starts, phase, server, dirLock, p2p, service, opened, open, ipcListener, closed, accepting, waiter, user>>

Returned == MaxStarts + 1

Init ==
    /\ starts = 0 /\ phase = "none" /\ server = 0 /\ dirLock = FALSE /\ p2p = FALSE
    /\ service = [s \in Services |-> "new"] /\ opened = 0 /\ open = {}
    /\ ipcListener = 0 /\ closed = {} /\ accepting = {}
    /\ waiter = [w \in Waiters |-> 0] /\ user = [u \in Users |-> "idle"]

-----------------------------------------------------------------------------
(* Start *)

\* openDataDir; it fails when the lock is held, by a Start that failed later too
OpenDataDir ==
    /\ phase = "none" /\ server = 0 /\ starts < MaxStarts /\ starts' = starts + 1
    /\ \/ UNCHANGED <<dirLock, phase, service>>
       \/ ~dirLock /\ dirLock' = TRUE /\ phase' = "build" /\ service' = [s \in Services |-> "new"]
    /\ UNCHANGED <<server, p2p, opened, open, ipcListener, closed, accepting, waiter>>

\* a constructor; when one fails, the services built before it are left alone
Build(s) ==
    /\ phase = "build" /\ service[s] = "new"
    /\ \/ service' = [service EXCEPT ![s] = "built"] /\ UNCHANGED phase
       \/ phase' = "none" /\ UNCHANGED service
    /\ UNCHANGED <<starts, server, dirLock, p2p, opened, open, ipcListener, closed, accepting, waiter, user>>

StartServer ==
    /\ phase = "build" /\ \A s \in Services : service[s] = "built"
    /\ \/ p2p' = TRUE /\ phase' = "services"
       \/ phase' = "none" /\ UNCHANGED p2p
    /\ UNCHANGED <<starts, server, dirLock, service, opened, open, ipcListener, closed, accepting, waiter, user>>

\* Mutant: the network server is left running
UnwindServices ==
    /\ service' = [s \in Services |-> IF service[s] = "running" THEN "stopped" ELSE service[s]]
    /\ UNCHANGED p2p /\ phase' = "none"

\* the services that run are stopped, and the network server
Unwind ==
    /\ service' = [s \in Services |-> IF service[s] = "running" THEN "stopped" ELSE service[s]]
    /\ p2p' = FALSE /\ phase' = "none"

StartService(s) ==
    /\ phase = "services" /\ service[s] = "built"
    /\ \/ service' = [service EXCEPT ![s] = "running"] /\ UNCHANGED <<p2p, phase>>
       \/ Unwind
    /\ UNCHANGED <<starts, server, dirLock, opened, open, ipcListener, closed, accepting, waiter, user>>

StartRPC ==
    /\ phase = "services" /\ \A s \in Services : service[s] = "running"
    /\ phase' = "endpoints" /\ opened' = 0
    /\ UNCHANGED <<starts, server, dirLock, p2p, service, open, ipcListener, closed, accepting, waiter, user>>

Endpoint == Endpoints[opened + 1]

OpenEndpoint ==
    /\ phase = "endpoints" /\ opened < Len(Endpoints)
    /\ opened' = opened + 1 /\ open' = open \cup {Endpoint}
    /\ IF Endpoint = "ipc" THEN ipcListener' = starts /\ accepting' = accepting \cup {starts}
                           ELSE UNCHANGED <<ipcListener, accepting>>
    /\ UNCHANGED <<starts, phase, server, dirLock, p2p, service, closed, waiter, user>>

\* stopIPC
CloseIPC ==
    /\ ipcListener' = 0
    /\ closed' = IF ipcListener # 0 THEN closed \cup {ipcListener} ELSE closed

\* the endpoints that startRPC has opened are closed again
EndpointFails ==
    /\ phase = "endpoints" /\ opened < Len(Endpoints)
    /\ open' = open \ {Endpoints[i] : i \in 1..opened} /\ CloseIPC /\ Unwind
    /\ UNCHANGED <<starts, server, dirLock, opened, accepting, waiter, user>>

Started ==
    /\ phase = "endpoints" /\ opened = Len(Endpoints)
    /\ phase' = "none" /\ server' = starts
    /\ UNCHANGED <<starts, dirLock, p2p, service, opened, open, ipcListener, closed, accepting, waiter, user>>

\* Stop: a service that reports an error counts as stopped; the in-process endpoint stays
Stop ==
    /\ phase = "none" /\ server # 0
    /\ open' = open \cap {"inproc"} /\ CloseIPC /\ Unwind
    /\ server' = 0 /\ dirLock' = FALSE
    /\ waiter' = [w \in Waiters |-> IF waiter[w] = server THEN Returned ELSE waiter[w]]
    /\ UNCHANGED <<starts, opened, accepting>>

-----------------------------------------------------------------------------

Start == OpenDataDir /\ UNCHANGED user
StopNode == Stop /\ UNCHANGED user

\* Restart: Stop, and Start unless a service reported an error; Start is refused if another was faster
RestartStops(u) ==
    /\ user[u] = "idle" /\ Stop
    /\ user' = [user EXCEPT ![u] = "stopped"]

RestartStarts(u) ==
    /\ user[u] = "stopped" /\ phase = "none" /\ user' = [user EXCEPT ![u] = "idle"]
    /\ \/ OpenDataDir
       \/ UNCHANGED <<starts, phase, server, dirLock, p2p, service, opened, open, ipcListener, closed, accepting, waiter>>

Wait(w) ==
    /\ phase = "none" /\ waiter[w] = 0
    /\ waiter' = [waiter EXCEPT ![w] = IF server = 0 THEN Returned ELSE server]
    /\ UNCHANGED <<starts, phase, server, dirLock, p2p, service, opened, open, ipcListener, closed, accepting, user>>

\* Accept failed on a closed listener: the loop ends if the node has no listener
AcceptFails(g) ==
    /\ phase = "none" /\ g \in accepting \cap closed /\ ipcListener = 0
    /\ accepting' = accepting \ {g}
    /\ UNCHANGED <<starts, phase, server, dirLock, p2p, service, opened, open, ipcListener, closed, waiter, user>>

Next ==
    \/ Start \/ StartServer \/ StartRPC \/ OpenEndpoint \/ EndpointFails \/ Started \/ StopNode
    \/ \E s \in Services : Build(s) \/ StartService(s)
    \/ \E u \in Users : RestartStops(u) \/ RestartStarts(u)
    \/ \E w \in Waiters : Wait(w)
    \/ \E g \in 1..MaxStarts : AcceptFails(g)

Spec == Init /\ [][Next]_vars

-----------------------------------------------------------------------------
(* Properties *)

(* A node runs as a whole or not at all: whatever fails in Start, and      *)
(* whoever restarts it, when the lock is free its services, network server *)
(* and endpoints are up together, or all are down (the in-process          *)
(* endpoint, which Stop leaves, apart).                                    *)
AllOrNothing ==
    phase = "none" =>
        IF server # 0
        THEN service = [s \in Services |-> "running"] /\ p2p /\ open = Range(Endpoints) /\ dirLock
        ELSE (\A s \in Services : service[s] # "running") /\ ~p2p /\ open \subseteq {"inproc"}

(* Who waits, waits for the node that runs.                                *)
WaitersServed == \A w \in Waiters : waiter[w] \in {0, server, Returned}

(* The listener of the running node is served and open, whatever became of *)
(* the loops of earlier ones.                                              *)
ListenerServed == phase = "none" => ipcListener = server /\ (server # 0 => server \in accepting \ closed)

NodeSound == AllOrNothing /\ WaitersServed /\ ListenerServed
=============================================================================
