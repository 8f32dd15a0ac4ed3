------------------------------ MODULE Wallets ------------------------------
(***************************************************************************)
(* The accounts of the key directory (accounts/keystore): the cache of the *)
(* files (account_cache.go, file_cache.go, watch.go), the wallets that the *)
(* key store makes of them (keystore.go) and the account manager that      *)
(* follows their events (accounts/manager.go).                             *)
(*                                                                         *)
(* A file holds one account for good and is a number, in the order of the  *)
(* URLs. One scan of the directory is over before the next begins: the     *)
(* watcher waits half a second before it scans. One client uses the store; *)
(* others put files into the directory and take them away.                 *)
(***************************************************************************)
EXTENDS Naturals, Sequences, SequencesExt, FiniteSets, FiniteSetsExt

CONSTANTS
    Files,
    MaxChanges      \* changes of the directory

VARIABLES
    disk,           \* the files, with the time of their last change
    changes,        \* the clock of the directory
    watcher,        \* off, starting, running
    event,          \* the watcher has seen a change
    fileC,          \* fileCache: the files seen, and the last change
    scan,           \* the scan: where it is, what it has listed and what it has still to do
    cache,          \* accountCache.all
    notify,         \* the channel to the key store
    wallets,        \* KeyStore.wallets
    client,         \* the call of NewAccount or Delete: where it is and its file
    sending,        \* events that the client and the updater have still to send
    updates,        \* Manager.updates
    manager,        \* Manager.wallets
    missed,         \* files of whose changes nobody could know
    crossed         \* two goroutines had events to send at the same time

vars == <<disk, changes, watcher, event, fileC, scan, cache, notify, wallets, client, sending, updates, manager, missed, crossed>>
cacheVars == <<watcher, fileC, scan, cache, notify>>
storeVars == <<wallets, sending, updates, manager, crossed>>

Present == {f \in Files : disk[f] > 0}
NoScan == [pc |-> "no", listed |-> [f \in Files |-> 0], creates |-> {}, deletes |-> {}, updates |-> {}, read |-> {}, found |-> FALSE]

Init ==
    /\ disk = [f \in Files |-> 0] /\ changes = 0 /\ watcher = "off" /\ event = FALSE
    /\ fileC = [all |-> {}, lastMod |-> 0] /\ scan = NoScan /\ cache = {} /\ notify = FALSE
    /\ wallets = {} /\ client = [pc |-> "idle", file |-> 0] /\ sending = [g \in {"client", "updater"} |-> <<>>]
    /\ updates = <<>> /\ manager = <<>> /\ missed = {} /\ crossed = FALSE

-----------------------------------------------------------------------------
(* The directory *)

\* a file is written or removed; the watcher sees it if it runs. A change while it starts, and the
\* removal of a file that no scan has seen, can be missed
Change(f, written) ==
    /\ changes < MaxChanges /\ changes' = changes + 1
    /\ disk' = [disk EXCEPT ![f] = IF written THEN changes' ELSE 0]
    /\ event' = (event \/ watcher = "running")
    /\ missed' = IF watcher = "starting" \/ (~written /\ f \notin fileC.all) THEN missed \cup {f} ELSE missed

\* by others, who leave the file of a call under way alone
External(f, written) ==
    /\ written \/ disk[f] > 0
    /\ f # client.file /\ Change(f, written)
    /\ UNCHANGED <<cacheVars, client, storeVars>>

-----------------------------------------------------------------------------
(* The account cache *)

\* maybeReload: without a watcher, one is started, and the caller scans
MaybeReload ==
    /\ watcher = "off" /\ scan.pc = "no"
    /\ watcher' = "starting" /\ scan' = [NoScan EXCEPT !.pc = "list"]
    /\ UNCHANGED <<disk, changes, event, fileC, cache, notify, client, storeVars, missed>>

\* notify.Watch succeeded, or failed
WatcherRuns ==
    /\ watcher = "starting" /\ watcher' \in {"running", "off"}
    /\ UNCHANGED <<disk, changes, event, fileC, scan, cache, notify, client, storeVars, missed>>

\* case <-debounce.C
Rescan ==
    /\ watcher = "running" /\ event /\ scan.pc = "no"
    /\ event' = FALSE /\ scan' = [NoScan EXCEPT !.pc = "list"]
    /\ UNCHANGED <<disk, changes, watcher, fileC, cache, notify, client, storeVars, missed>>

\* ReadDir
List ==
    /\ scan.pc = "list" /\ scan' = [scan EXCEPT !.pc = "diff", !.listed = disk]
    /\ UNCHANGED <<disk, changes, watcher, event, fileC, cache, notify, client, storeVars, missed>>

\* fileCache.scan
Diff ==
    LET all == {f \in Files : scan.listed[f] > 0}
        creates == all \ fileC.all
    IN  /\ scan.pc = "diff"
        /\ scan' = [scan EXCEPT !.pc = "apply", !.creates = creates, !.deletes = fileC.all \ all,
                                !.updates = {f \in all : scan.listed[f] > fileC.lastMod} \ creates,
                                !.found = fileC.all # all \/ \E f \in all : scan.listed[f] > fileC.lastMod]
        /\ fileC' = [all |-> all, lastMod |-> Max({scan.listed[f] : f \in Files} \cup {0})]
        /\ UNCHANGED <<disk, changes, watcher, event, cache, notify, client, storeVars, missed>>

\* scanAccounts, file by file: what was created is read, then added
ReadCreated(f) ==
    /\ scan.pc = "apply" /\ scan.read = {} /\ f \in scan.creates
    /\ scan' = [scan EXCEPT !.creates = @ \ {f}, !.read = IF disk[f] > 0 THEN {f} ELSE {}]
    /\ UNCHANGED <<disk, changes, watcher, event, fileC, cache, notify, client, storeVars, missed>>

AddRead ==
    /\ scan.pc = "apply" /\ scan.read # {}
    /\ cache' = cache \cup scan.read /\ scan' = [scan EXCEPT !.read = {}]
    /\ UNCHANGED <<disk, changes, watcher, event, fileC, notify, client, storeVars, missed>>

DeleteByFile(f) ==
    /\ scan.pc = "apply" /\ scan.read = {} /\ scan.creates = {} /\ f \in scan.deletes
    /\ cache' = cache \ {f} /\ scan' = [scan EXCEPT !.deletes = @ \ {f}]
    /\ UNCHANGED <<disk, changes, watcher, event, fileC, notify, client, storeVars, missed>>

\* an update takes the account out, and reads it again
ReadUpdated(f) ==
    /\ scan.pc = "apply" /\ scan.read = {} /\ scan.creates \cup scan.deletes = {} /\ f \in scan.updates
    /\ cache' = cache \ {f}
    /\ scan' = [scan EXCEPT !.updates = @ \ {f}, !.read = IF disk[f] > 0 THEN {f} ELSE {}]
    /\ UNCHANGED <<disk, changes, watcher, event, fileC, notify, client, storeVars, missed>>

\* Mutant: events that came during the scan are forgotten
ScanEndsForgets ==
    /\ scan.pc = "apply" /\ scan.read = {} /\ scan.creates \cup scan.deletes \cup scan.updates = {}
    /\ scan' = NoScan /\ notify' = (notify \/ scan.found) /\ event' = FALSE
    /\ UNCHANGED <<disk, changes, watcher, fileC, cache, client, storeVars, missed>>

\* the key store is told if anything was found
ScanEnds ==
    /\ scan.pc = "apply" /\ scan.read = {} /\ scan.creates \cup scan.deletes \cup scan.updates = {}
    /\ scan' = NoScan /\ notify' = (notify \/ scan.found)
    /\ UNCHANGED <<disk, changes, watcher, event, fileC, cache, client, storeVars, missed>>

-----------------------------------------------------------------------------
(* The key store *)

Arrived(f) == <<"arrived", f>>
Dropped(f) == <<"dropped", f>>

\* the merge of the two ordered lists: what is gone is dropped on the way to what has come
Events ==
    LET changed == (wallets \ cache) \cup (cache \ wallets)
        inOrder == SetToSortSeq(changed, <)
    IN  [i \in DOMAIN inOrder |-> IF inOrder[i] \in wallets THEN Dropped(inOrder[i]) ELSE Arrived(inOrder[i])]

\* refreshWallets: with the lock the list is renewed, and then the events are sent
RefreshWallets(g) ==
    /\ sending[g] = <<>>
    /\ wallets' = cache /\ sending' = [sending EXCEPT ![g] = Events]
    /\ crossed' = (crossed \/ \E h \in DOMAIN sending \ {g} : sending[h] # <<>> /\ Events # <<>>)

\* the updater: a notification, or the timer
Update ==
    /\ RefreshWallets("updater") /\ notify' = FALSE
    /\ UNCHANGED <<disk, changes, watcher, event, fileC, scan, cache, client, updates, manager, missed>>

Send(g) ==
    /\ sending[g] # <<>>
    /\ updates' = Append(updates, Head(sending[g])) /\ sending' = [sending EXCEPT ![g] = Tail(@)]
    /\ UNCHANGED <<disk, changes, event, cacheVars, wallets, client, manager, missed, crossed>>

At(pc, f) == client' = [pc |-> pc, file |-> f]

\* NewAccount, Import: the file is written, and the account added at once
NewAccount(f) ==
    /\ client.pc = "idle" /\ disk[f] = 0 /\ At("add", f) /\ Change(f, TRUE)
    /\ UNCHANGED <<cacheVars, storeVars>>

CacheAdd ==
    /\ client.pc = "add" /\ At("refresh", client.file) /\ cache' = cache \cup {client.file}
    /\ UNCHANGED <<disk, changes, watcher, event, fileC, scan, notify, storeVars, missed>>

\* Delete: the file first, so that a reload cannot bring it back
Delete(f) ==
    /\ client.pc = "idle" /\ f \in cache /\ disk[f] > 0 /\ At("delete", f) /\ Change(f, FALSE)
    /\ UNCHANGED <<cacheVars, storeVars>>

CacheDelete ==
    /\ client.pc = "delete" /\ At("refresh", client.file) /\ cache' = cache \ {client.file}
    /\ UNCHANGED <<disk, changes, watcher, event, fileC, scan, notify, storeVars, missed>>

ClientRefresh ==
    /\ client.pc = "refresh" /\ At("send", client.file) /\ RefreshWallets("client")
    /\ UNCHANGED <<disk, changes, event, cacheVars, updates, manager, missed>>

ClientDone ==
    /\ client.pc = "send" /\ sending["client"] = <<>> /\ At("idle", 0)
    /\ UNCHANGED <<disk, changes, event, cacheVars, storeVars, missed>>

-----------------------------------------------------------------------------
(* The account manager *)

\* sort.Search: the first wallet not before f
Place(f) == Min({i \in DOMAIN manager : manager[i] >= f} \cup {Len(manager) + 1})

Merge(f) == InsertAt(manager, Place(f), f)

\* drop looks for the place, and takes away what is there
Drop(f) == IF Place(f) > Len(manager) THEN manager ELSE RemoveAt(manager, Place(f))

ManagerUpdate ==
    /\ updates # <<>> /\ updates' = Tail(updates)
    /\ manager' = LET f == Head(updates)[2] IN IF Head(updates)[1] = "arrived" THEN Merge(f) ELSE Drop(f)
    /\ UNCHANGED <<disk, changes, event, cacheVars, wallets, client, sending, missed, crossed>>

-----------------------------------------------------------------------------

Scan ==
    \/ List \/ Diff \/ AddRead \/ ScanEnds
    \/ \E f \in Files : ReadCreated(f) \/ DeleteByFile(f) \/ ReadUpdated(f)

Client ==
    \/ \E f \in Files : NewAccount(f) \/ Delete(f)
    \/ CacheAdd \/ CacheDelete \/ ClientRefresh \/ ClientDone

Next ==
    \/ \E f \in Files, w \in BOOLEAN : External(f, w)
    \/ MaybeReload \/ WatcherRuns \/ Rescan \/ Scan
    \/ Update \/ (\E g \in DOMAIN sending : Send(g)) \/ Client \/ ManagerUpdate

Spec == Init /\ [][Next]_vars

-----------------------------------------------------------------------------
(* Properties *)

Settled == watcher = "running" /\ ~event /\ scan.pc = "no" /\ client.pc = "idle"

(* Once the watcher runs and has nothing more to see, the cache has the    *)
(* accounts of the directory, whatever was added, deleted or changed while *)
(* a scan was under way.                                                   *)
CacheFollows == Settled => \A f \in Files \ missed : f \in cache <=> f \in Present

(* Then the key store has a wallet for each account of the cache, once the *)
(* updater has taken the scan's notification, whoever refreshed before.    *)
WalletsFollow == Settled /\ ~notify /\ sending["updater"] = <<>> => wallets = cache

(* The manager's list is in order, and when all events have come it is the *)
(* key store's, unless two goroutines sent events at the same time.        *)
ManagerFollows ==
    ~crossed => /\ \A i, j \in DOMAIN manager : i < j => manager[i] < manager[j]
                /\ updates = <<>> /\ (\A g \in DOMAIN sending : sending[g] = <<>>) => Range(manager) = wallets

WalletsSound == CacheFollows /\ WalletsFollow /\ ManagerFollows
=============================================================================
