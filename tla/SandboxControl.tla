--------------------------- MODULE SandboxControl ---------------------------
(***************************************************************************)
(* The orchestrator's workflows over the sandbox tables                    *)
(* (sandboxd-orch/service/sandbox_ops.go and node_ops.go), and as much of  *)
(* the nodes as they see.  Each workflow is a thread with a program        *)
(* counter and the copies of rows it carries from one database statement   *)
(* or node call to the next:                                               *)
(*   sched  the scheduler loop, one thread                                 *)
(*   w      delete workers: DELETE /sandboxes handlers and the TTL         *)
(*          reconcile loop                                                 *)
(*   y      the status-sync loop, one goroutine per node                   *)
(*   ip     the IP refresher goroutine of a sandbox                        *)
(*   d      the DELETE /nodes handler                                      *)
(***************************************************************************)
EXTENDS SandboxStore

CONSTANTS
    Deleters,      \* concurrent DELETE /sandboxes handlers
    Reconciler,    \* the TTL reconcile loop
    Removable,     \* nodes an operator may remove
    TTLSandboxes,  \* sandboxes created with ttl_seconds > 0
    PortsNeeded,   \* len(Spec.Ports)
    UDPSandboxes,  \* sandboxes that ask for udp ports; the others for tcp ones
    StaleSaves,    \* whether sbxlet saves copies of state files that are gone
    ReuseIds,      \* whether clients create an id again after its deletion
    MaxCrashes,    \* bound on orchestrator restarts
    NoSandbox

ASSUME ControlAssumption ==
    /\ Reconciler \notin Deleters
    /\ Removable \subseteq Nodes
    /\ TTLSandboxes \subseteq Sandboxes
    /\ PortsNeeded \in Nat
    /\ UDPSandboxes \subseteq Sandboxes
    /\ StaleSaves \in BOOLEAN
    /\ ReuseIds \in BOOLEAN
    /\ MaxCrashes \in Nat
    /\ NoSandbox \notin Sandboxes

VARIABLES
    registered,  \* rows of the nodes table
    expired,     \* sandboxes whose ExpireAt has passed
    created,     \* ids used so far
    let,         \* let[n][s]: the phase sbxlet on node n holds for sandbox s
    letPorts,    \* letPorts[n][s]: the host ports of that state
    inbox,       \* create requests sent to nodes and not yet processed
    letCopies,   \* accepted ones of whose state file sbxlet may have a copy to save
    crashes,
    schedPc, schedTodo, schedCur, schedNode, schedPorts, schedSt,
    wPc, wCur, wSt, rList,
    yPc, yTodo, yReport, yCur, ySt,
    ipPc, ipSt,
    dPc, dNode, dForce, dCur, dList

envVars   == <<registered, expired, created, crashes>>
letVars   == <<let, letPorts>>
nodeVars  == <<letVars, inbox, letCopies>>
schedVars == <<schedPc, schedTodo, schedCur, schedNode, schedPorts, schedSt>>
wVars     == <<wPc, wCur, wSt, rList>>
yVars     == <<yPc, yTodo, yReport, yCur, ySt>>
ipVars    == <<ipPc, ipSt>>
dVars     == <<dPc, dNode, dForce, dCur, dList>>
vars      == <<storeVars, envVars, nodeVars, schedVars, wVars, yVars, ipVars, dVars>>

Workers == Deleters \cup {Reconciler}

\* The phases of sbxlet's state file; "error" also stands for a sandbox it
\* reports with unhealthy containers.
LetPhases == {"absent", "creating", "running", "error", "deleting"}

SchedPcs == {"idle", "next", "unplaced", "reserve", "reload", "create",
             "await", "failed", "release", "confirm"}
WorkerPcs == {"idle", "next", "mark", "call", "saveError", "release", "ports", "delete"}
SyncPcs == {"idle", "query", "apply", "write"}
DetachPcs == {"idle", "next", "drop", "dropRow", "call", "update", "ports", "node"}

\* A create request as it travels to sbxlet.
Request == [node : Nodes, id : Sandboxes, ports : SUBSET HostPorts]

NoList == [s \in Sandboxes |-> Gone]
NoReport == [s \in Sandboxes |-> "absent"]

TypeOK ==
    /\ StoreTypeOK
    /\ registered \subseteq Nodes
    /\ expired \subseteq Sandboxes
    /\ created \subseteq Sandboxes
    /\ crashes \in Nat
    /\ let \in [Nodes -> [Sandboxes -> LetPhases]]
    /\ letPorts \in [Nodes -> [Sandboxes -> SUBSET HostPorts]]
    /\ inbox \subseteq Request
    /\ letCopies \subseteq Request
    /\ schedPc \in SchedPcs
    /\ schedTodo \subseteq Sandboxes
    /\ schedCur \in Sandboxes \cup {NoSandbox}
    /\ schedNode \in Nodes \cup {NoNode}
    /\ schedPorts \subseteq HostPorts
    /\ schedSt \in Status
    /\ wPc \in [Workers -> WorkerPcs]
    /\ wCur \in [Workers -> Sandboxes \cup {NoSandbox}]
    /\ wSt \in [Workers -> Status]
    /\ rList \in [Sandboxes -> Status]
    /\ yPc \in [Nodes -> SyncPcs]
    /\ yTodo \in [Nodes -> SUBSET Sandboxes]
    /\ yReport \in [Nodes -> [Sandboxes -> LetPhases]]
    /\ yCur \in [Nodes -> Sandboxes \cup {NoSandbox}]
    /\ ySt \in [Nodes -> Status]
    /\ ipPc \in [Sandboxes -> {"off", "fetch", "write"}]
    /\ ipSt \in [Sandboxes -> Status]
    /\ dPc \in DetachPcs
    /\ dNode \in Nodes \cup {NoNode}
    /\ dForce \in BOOLEAN
    /\ dCur \in Sandboxes \cup {NoSandbox}
    /\ dList \in [Sandboxes -> Status]

ThreadsInit ==
    /\ schedPc = "idle" /\ schedTodo = {} /\ schedCur = NoSandbox
    /\ schedNode = NoNode /\ schedPorts = {} /\ schedSt = Gone
    /\ wPc = [w \in Workers |-> "idle"]
    /\ wCur = [w \in Workers |-> NoSandbox]
    /\ wSt = [w \in Workers |-> Gone]
    /\ rList = NoList
    /\ yPc = [n \in Nodes |-> "idle"]
    /\ yTodo = [n \in Nodes |-> {}]
    /\ yReport = [n \in Nodes |-> NoReport]
    /\ yCur = [n \in Nodes |-> NoSandbox]
    /\ ySt = [n \in Nodes |-> Gone]
    /\ ipPc = [s \in Sandboxes |-> "off"]
    /\ ipSt = [s \in Sandboxes |-> Gone]
    /\ dPc = "idle" /\ dNode = NoNode /\ dForce = FALSE
    /\ dCur = NoSandbox /\ dList = NoList

Init ==
    /\ StoreInit
    /\ registered = Nodes
    /\ expired = {}
    /\ created = {}
    /\ crashes = 0
    /\ let = [n \in Nodes |-> NoReport]
    /\ letPorts = [n \in Nodes |-> [s \in Sandboxes |-> {}]]
    /\ inbox = {}
    /\ letCopies = {}
    /\ ThreadsInit

-----------------------------------------------------------------------------
(* Clients, time and nodes.                                                *)

\* POST /sandboxes.
Create(s) ==
    /\ ReuseIds \/ s \notin created
    /\ CreateSandbox(s)
    /\ created' = created \cup {s}
    /\ expired' = expired \ {s}
    /\ UNCHANGED <<registered, crashes, nodeVars, schedVars, wVars, yVars, ipVars, dVars>>

\* The clock passes the ExpireAt of s.
Expire(s) ==
    /\ s \in TTLSandboxes \ expired
    /\ Exists(s)
    /\ expired' = expired \cup {s}
    /\ UNCHANGED <<storeVars, registered, created, crashes, nodeVars, schedVars, wVars,
                   yVars, ipVars, dVars>>

\* A node is registered (again).
RegisterNode(n) ==
    /\ n \notin registered
    /\ registered' = registered \cup {n}
    /\ UNCHANGED <<storeVars, expired, created, crashes, nodeVars, schedVars, wVars, yVars,
                   ipVars, dVars>>

\* The state file of s on n goes to a phase, or goes away.
LetSet(n, s, phase) ==
    /\ let' = [let EXCEPT ![n][s] = phase]
    /\ letPorts' = IF phase = "absent" THEN [letPorts EXCEPT ![n][s] = {}] ELSE letPorts

\* sbxlet's own life of a sandbox: provisioning ends (also one that was already
\* given up), a sandbox fails, and a failed or vanished one is finalized by
\* sbxlet's reconcile, or removed through the node proxy.
LetProgress(n, s) ==
    /\ \/ let[n][s] \in {"creating", "error"} /\ LetSet(n, s, "running")
       \/ let[n][s] \in {"creating", "running", "deleting"} /\ LetSet(n, s, "error")
       \/ let[n][s] # "absent" /\ LetSet(n, s, "absent")
    /\ UNCHANGED <<storeVars, envVars, inbox, letCopies, schedVars, wVars, yVars, ipVars, dVars>>

\* A copy of the state file loaded before the file was removed is saved after it
\* and brings it back: reconcile's "provisioning timeout" from its snapshot,
\* markSandboxError, and provisioning whose file reconcile has finalized.  All of
\* them end within minutes; the model has no clock and lets the copy live on.
LetRevive(q) ==
    /\ q \in letCopies
    /\ let[q.node][q.id] = "absent"
    /\ \E phase \in {"running", "error"} : let' = [let EXCEPT ![q.node][q.id] = phase]
    /\ letPorts' = [letPorts EXCEPT ![q.node][q.id] = q.ports]
    /\ UNCHANGED <<storeVars, envVars, inbox, letCopies, schedVars, wVars, yVars, ipVars, dVars>>

Waiting(n, s) == schedPc = "await" /\ schedCur = s /\ schedSt.node = n

SameProtocol(s, t) == (s \in UDPSandboxes) = (t \in UDPSandboxes)

\* The map of used ports holds one protocol per port, of the sandbox listed last:
\* a port is refused only if that one is the protocol asked for.
LetAccepts(q) ==
    /\ let[q.node][q.id] = "absent"
    /\ \A p \in q.ports :
          LET holders == {s \in Sandboxes \ {q.id} : p \in letPorts[q.node][s]}
          IN holders # {} => \E s \in holders : ~SameProtocol(s, q.id)

\* sbxlet processes a create request: it stores the new sandbox, or refuses
\* (always when the id or a port is taken).  The reply reaches the scheduler
\* only if it still waits for it, and may be lost.
LetCreate(q) ==
    /\ q \in inbox
    /\ inbox' = inbox \ {q}
    /\ \/ /\ LetAccepts(q)
          /\ let' = [let EXCEPT ![q.node][q.id] = "creating"]
          /\ letPorts' = [letPorts EXCEPT ![q.node][q.id] = q.ports]
          /\ letCopies' = IF StaleSaves THEN letCopies \cup {q} ELSE letCopies
          /\ schedPc' \in {schedPc} \cup (IF Waiting(q.node, q.id) THEN {"confirm"} ELSE {})
       \/ /\ UNCHANGED <<letVars, letCopies>>
          /\ schedPc' \in {schedPc} \cup (IF Waiting(q.node, q.id) THEN {"failed"} ELSE {})
    /\ UNCHANGED <<storeVars, envVars, schedTodo, schedCur, schedNode, schedPorts, schedSt,
                   wVars, yVars, ipVars, dVars>>

\* A DELETE call to sbxlet on n succeeds (also when it holds nothing), or it
\* fails with nothing done, half-way, or with only the reply lost.
CallOk(n, s) == LetSet(n, s, "absent")

CallError(n, s) ==
    \/ UNCHANGED letVars
    \/ let[n][s] # "absent" /\ LetSet(n, s, "deleting")
    \/ let[n][s] # "absent" /\ LetSet(n, s, "absent")

-----------------------------------------------------------------------------
(* runSchedulerOnce / scheduleOne.                                         *)

SchedFrame == UNCHANGED <<envVars, wVars, yVars, dVars>>

\* scheduleOne returns; the tick goes on with the next Pending sandbox of its
\* list, or ends.
SchedReturn ==
    /\ schedPc' = IF schedTodo = {} THEN "idle" ELSE "next"
    /\ schedCur' = NoSandbox
    /\ schedNode' = NoNode
    /\ schedPorts' = {}
    /\ schedSt' = Gone
    /\ UNCHANGED schedTodo

SchedGoto(pc) ==
    /\ schedPc' = pc
    /\ UNCHANGED <<schedTodo, schedCur, schedNode, schedPorts, schedSt>>

\* Mutant of the next one: Scheduled rows are scheduled again.
UnfinishedSandboxes == {s \in Sandboxes : row[s].phase \in {"Pending", "Scheduled"}}

PendingSandboxes == {s \in Sandboxes : row[s].phase = "Pending"}

\* The list of one tick.  The copies it holds of Pending rows are NewSandbox.
SchedList ==
    /\ schedPc = "idle"
    /\ PendingSandboxes # {}
    /\ schedTodo' = PendingSandboxes
    /\ schedPc' = "next"
    /\ UNCHANGED <<storeVars, nodeVars, ipVars, schedCur, schedNode, schedPorts, schedSt>>
    /\ SchedFrame

\* Mutant of the next one: without candidates, the zero NodeName is reserved.
SchedPickNoCandidates(s) ==
    /\ schedPc = "next"
    /\ s \in schedTodo
    /\ schedTodo' = schedTodo \ {s}
    /\ schedCur' = s
    /\ \E n \in registered \cup {NoNode} :
         \E P \in SUBSET (HostPorts \ NodeUsedHostPorts(n)) :
            /\ Cardinality(P) = PortsNeeded
            /\ schedNode' = n
            /\ schedPorts' = P
            /\ schedPc' = "reserve"
    /\ UNCHANGED <<storeVars, nodeVars, ipVars, schedSt>>
    /\ SchedFrame

\* Candidates: registered nodes with enough free ports.  Ready, unschedulable,
\* selector and resources may rule any of them out, so the outcome is any
\* candidate or none.
SchedPick(s) ==
    /\ schedPc = "next"
    /\ s \in schedTodo
    /\ schedTodo' = schedTodo \ {s}
    /\ schedCur' = s
    /\ \/ \E n \in registered :
            \E P \in SUBSET (HostPorts \ NodeUsedHostPorts(n)) :
               /\ Cardinality(P) = PortsNeeded
               /\ schedNode' = n
               /\ schedPorts' = P
               /\ schedPc' = "reserve"
       \/ /\ schedPc' = "unplaced"
          /\ UNCHANGED <<schedNode, schedPorts>>
    /\ UNCHANGED <<storeVars, nodeVars, ipVars, schedSt>>
    /\ SchedFrame

SchedUnplaced ==
    /\ schedPc = "unplaced"
    /\ UpdateSandboxStatus(schedCur, [NewSandbox EXCEPT !.phase = "Failed"])
    /\ SchedReturn
    /\ UNCHANGED <<nodeVars, ipVars>>
    /\ SchedFrame

\* A conflict leaves the row for the next tick; any other error is written to
\* it, as for a sandbox without candidates.
SchedReserve ==
    /\ schedPc = "reserve"
    /\ \/ /\ ReserveConflict(schedCur, schedNode, schedPorts)
          /\ SchedReturn
          /\ UNCHANGED storeVars
       \/ /\ ReserveNoRow(schedCur, schedPorts)
          /\ SchedGoto("unplaced")
          /\ UNCHANGED storeVars
       \/ /\ ReserveSandboxPortsAndSchedule(schedCur, schedNode, schedPorts)
          /\ SchedGoto("reload")
    /\ UNCHANGED <<nodeVars, ipVars>>
    /\ SchedFrame

SchedReload ==
    /\ schedPc = "reload"
    /\ \/ ~Exists(schedCur) /\ SchedReturn
       \/ /\ Exists(schedCur)
          /\ schedSt' = row[schedCur]
          /\ schedPc' = "create"
          /\ UNCHANGED <<schedTodo, schedCur, schedNode, schedPorts>>
    /\ UNCHANGED <<storeVars, nodeVars, ipVars>>
    /\ SchedFrame

\* createSandboxOnNode: node lookup, then the request goes out.
SchedCreate ==
    /\ schedPc = "create"
    /\ \/ /\ schedSt.node \in registered
          /\ inbox' = inbox \cup {[node |-> schedSt.node, id |-> schedCur, ports |-> schedSt.ports]}
          /\ SchedGoto("await")
       \/ /\ schedSt.node \notin registered
          /\ SchedGoto("failed")
          /\ UNCHANGED inbox
    /\ UNCHANGED <<storeVars, letVars, letCopies, ipVars>>
    /\ SchedFrame

SchedTimeout ==
    /\ schedPc = "await"
    /\ SchedGoto("failed")
    /\ UNCHANGED <<storeVars, nodeVars, ipVars>>
    /\ SchedFrame

\* Mutant of the next one: a failed create is tried again.
SchedFailedRetry ==
    /\ schedPc = "failed"
    /\ UpdateSandboxStatus(schedCur, NewSandbox)
    /\ SchedGoto("release")
    /\ UNCHANGED <<nodeVars, ipVars>>
    /\ SchedFrame

SchedFailed ==
    /\ schedPc = "failed"
    /\ UpdateSandboxStatus(schedCur, [schedSt EXCEPT !.phase = "Failed"])
    /\ SchedGoto("release")
    /\ UNCHANGED <<nodeVars, ipVars>>
    /\ SchedFrame

SchedRelease ==
    /\ schedPc = "release"
    /\ ReleaseSandboxPorts(schedCur)
    /\ SchedReturn
    /\ UNCHANGED <<nodeVars, ipVars>>
    /\ SchedFrame

\* The node accepted: the reloaded copy is written back, whatever the row
\* holds by now, and an IP refresher is started.
SchedConfirm ==
    /\ schedPc = "confirm"
    /\ UpdateSandboxStatus(schedCur, [schedSt EXCEPT !.phase = "Scheduled"])
    /\ ipPc' = [ipPc EXCEPT ![schedCur] = IF @ = "off" THEN "fetch" ELSE @]
    /\ SchedReturn
    /\ UNCHANGED <<nodeVars, ipSt>>
    /\ SchedFrame

SchedNext ==
    \/ SchedList
    \/ \E s \in Sandboxes : SchedPick(s)
    \/ SchedUnplaced
    \/ SchedReserve
    \/ SchedReload
    \/ SchedCreate
    \/ SchedTimeout
    \/ SchedFailed
    \/ SchedRelease
    \/ SchedConfirm

-----------------------------------------------------------------------------
(* Deletion: the DELETE handler, the TTL reconcile loop, and the           *)
(* finalizeSandboxDelete both end in.                                      *)

WorkerFrame == UNCHANGED <<envVars, inbox, letCopies, schedVars, yVars, ipVars, dVars>>

WorkerGoto(w, pc) ==
    /\ wPc' = [wPc EXCEPT ![w] = pc]
    /\ UNCHANGED <<wCur, wSt, rList>>

\* The handler returns; the reconcile loop goes on with its list.
WorkerReturn(w) ==
    /\ wPc' = [wPc EXCEPT ![w] = IF w = Reconciler /\ rList # NoList THEN "next" ELSE "idle"]
    /\ wCur' = [wCur EXCEPT ![w] = NoSandbox]
    /\ wSt' = [wSt EXCEPT ![w] = Gone]
    /\ UNCHANGED rList

\* DeleteSandbox reads the row and returns at once if it is Deleting.
DeleteStart(w, s) ==
    /\ wPc[w] = "idle"
    /\ Exists(s)
    /\ row[s].phase # "Deleting"
    /\ wPc' = [wPc EXCEPT ![w] = "mark"]
    /\ wCur' = [wCur EXCEPT ![w] = s]
    /\ wSt' = [wSt EXCEPT ![w] = row[s]]
    /\ UNCHANGED <<storeVars, letVars, rList>>
    /\ WorkerFrame

\* The client of a handler disconnects: its context is cancelled and whatever
\* comes next fails.
DeleteAbort(w) ==
    /\ wPc[w] # "idle"
    /\ WorkerReturn(w)
    /\ UNCHANGED <<storeVars, letVars>>
    /\ WorkerFrame

\* Mutant of the next one: ExpireAt is not looked at.
ToReconcileDeleting(s) == Exists(s) /\ row[s].phase = "Deleting"

\* runSandboxReconcileOnce: rows that are Deleting or past their ExpireAt.
ToReconcile(s) == Exists(s) /\ (row[s].phase = "Deleting" \/ s \in expired)

ReconcileList ==
    /\ wPc[Reconciler] = "idle"
    /\ \E s \in Sandboxes : ToReconcile(s)
    /\ rList' = [s \in Sandboxes |-> IF ToReconcile(s) THEN row[s] ELSE Gone]
    /\ wPc' = [wPc EXCEPT ![Reconciler] = "next"]
    /\ UNCHANGED <<storeVars, letVars, wCur, wSt>>
    /\ WorkerFrame

ReconcilePick(s) ==
    /\ wPc[Reconciler] = "next"
    /\ rList[s] # Gone
    /\ wCur' = [wCur EXCEPT ![Reconciler] = s]
    /\ wSt' = [wSt EXCEPT ![Reconciler] = rList[s]]
    /\ wPc' = [wPc EXCEPT ![Reconciler] = IF rList[s].phase = "Deleting" THEN "call" ELSE "mark"]
    /\ rList' = [rList EXCEPT ![s] = Gone]
    /\ UNCHANGED <<storeVars, letVars>>
    /\ WorkerFrame

\* The copy read earlier, with phase Deleting, replaces the row's status.
WorkerMark(w) ==
    /\ wPc[w] = "mark"
    /\ UpdateSandboxStatus(wCur[w], [wSt[w] EXCEPT !.phase = "Deleting"])
    /\ wSt' = [wSt EXCEPT ![w].phase = "Deleting"]
    /\ wPc' = [wPc EXCEPT ![w] = "call"]
    /\ UNCHANGED <<letVars, wCur, rList>>
    /\ WorkerFrame

\* The node named by the copy is asked to delete, if there is one and it is
\* still registered.
WorkerCall(w) ==
    /\ wPc[w] = "call"
    /\ \/ wSt[w].node \in registered /\ CallOk(wSt[w].node, wCur[w])
       \/ wSt[w].node \notin registered /\ UNCHANGED letVars
    /\ WorkerGoto(w, "release")
    /\ UNCHANGED storeVars
    /\ WorkerFrame

WorkerCallFails(w) ==
    /\ wPc[w] = "call"
    /\ wSt[w].node \in registered
    /\ CallError(wSt[w].node, wCur[w])
    /\ WorkerGoto(w, "saveError")
    /\ UNCHANGED storeVars
    /\ WorkerFrame

WorkerSaveError(w) ==
    /\ wPc[w] = "saveError"
    /\ UpdateSandboxStatus(wCur[w], wSt[w])
    /\ WorkerReturn(w)
    /\ UNCHANGED letVars
    /\ WorkerFrame

WorkerRelease(w) ==
    /\ wPc[w] = "release"
    /\ ReleaseSandboxPorts(wCur[w])
    /\ WorkerGoto(w, "ports")
    /\ UNCHANGED letVars
    /\ WorkerFrame

WorkerDeletePorts(w) ==
    /\ wPc[w] = "ports"
    /\ DeleteSandboxPorts(wCur[w])
    /\ WorkerGoto(w, "delete")
    /\ UNCHANGED letVars
    /\ WorkerFrame

WorkerDelete(w) ==
    /\ wPc[w] = "delete"
    /\ DeleteSandboxRow(wCur[w])
    /\ WorkerReturn(w)
    /\ UNCHANGED letVars
    /\ WorkerFrame

WorkerStep(w) ==
    \/ WorkerMark(w)
    \/ WorkerCall(w)
    \/ WorkerCallFails(w)
    \/ WorkerSaveError(w)
    \/ WorkerRelease(w)
    \/ WorkerDeletePorts(w)
    \/ WorkerDelete(w)

ReconcileNext ==
    \/ ReconcileList
    \/ \E s \in Sandboxes : ReconcilePick(s)
    \/ WorkerStep(Reconciler)

-----------------------------------------------------------------------------
(* runSandboxStatusSyncOnce / syncNodeSandboxBatch for one node, and       *)
(* refreshSandboxIPSoon.                                                   *)

SyncFrame == UNCHANGED <<envVars, nodeVars, schedVars, wVars, ipVars, dVars>>

SyncReturn(n) ==
    /\ yPc' = [yPc EXCEPT ![n] = "idle"]
    /\ yTodo' = [yTodo EXCEPT ![n] = {}]
    /\ yReport' = [yReport EXCEPT ![n] = NoReport]
    /\ yCur' = [yCur EXCEPT ![n] = NoSandbox]
    /\ ySt' = [ySt EXCEPT ![n] = Gone]

\* The batch goes on with the rest of its sandboxes.
SyncAdvance(n, s) ==
    IF yTodo[n] = {s}
    THEN SyncReturn(n)
    ELSE /\ yPc' = [yPc EXCEPT ![n] = "apply"]
         /\ yTodo' = [yTodo EXCEPT ![n] = @ \ {s}]
         /\ yCur' = [yCur EXCEPT ![n] = NoSandbox]
         /\ ySt' = [ySt EXCEPT ![n] = Gone]
         /\ UNCHANGED yReport

SyncGroup(n) ==
    {s \in Sandboxes : row[s].node = n /\ row[s].phase \in {"Scheduled", "Running", "Failed"}}

SyncList(n) ==
    /\ yPc[n] = "idle"
    /\ SyncGroup(n) # {}
    /\ yPc' = [yPc EXCEPT ![n] = "query"]
    /\ yTodo' = [yTodo EXCEPT ![n] = SyncGroup(n)]
    /\ UNCHANGED <<storeVars, yReport, yCur, ySt>>
    /\ SyncFrame

\* POST sandboxes/statuses to the node.
SyncQuery(n) ==
    /\ yPc[n] = "query"
    /\ n \in registered
    /\ yReport' = [yReport EXCEPT ![n] =
                     [s \in Sandboxes |-> IF s \in yTodo[n] THEN let[n][s] ELSE "absent"]]
    /\ yPc' = [yPc EXCEPT ![n] = "apply"]
    /\ UNCHANGED <<storeVars, yTodo, yCur, ySt>>
    /\ SyncFrame

\* The client lookup or the call fails: the node is skipped.
SyncQueryFails(n) ==
    /\ yPc[n] = "query"
    /\ SyncReturn(n)
    /\ UNCHANGED storeVars
    /\ SyncFrame

\* mergeSandboxPhaseWithNodeState, and the "deleted on sbxlet node" case.
MergePhase(phase, report) ==
    CASE report \in {"absent", "error"} -> "Failed"
      [] report = "running" -> "Running"
      [] report = "creating" /\ phase = "Running" -> "Scheduled"
      [] OTHER -> phase

\* Rows the sync leaves alone.
SyncSkips(latest, report) ==
    \/ latest.phase \in {"None", "Deleting"}
    \/ report = "absent" /\ latest.phase = "Scheduled"

\* The row is read again.  It is written when the node holds no such sandbox,
\* and otherwise when the phase, or an IP, External or LastError that the model
\* does not hold, differs.
SyncRead(n, s) ==
    /\ yPc[n] = "apply"
    /\ s \in yTodo[n]
    /\ LET latest == row[s]
           next == [latest EXCEPT !.phase = MergePhase(latest.phase, yReport[n][s])]
       IN \/ /\ \/ SyncSkips(latest, yReport[n][s])
                \/ next = latest /\ yReport[n][s] # "absent"
             /\ SyncAdvance(n, s)
             /\ UNCHANGED storeVars
          \/ /\ ~SyncSkips(latest, yReport[n][s])
             /\ yPc' = [yPc EXCEPT ![n] = "write"]
             /\ yCur' = [yCur EXCEPT ![n] = s]
             /\ ySt' = [ySt EXCEPT ![n] = next]
             /\ GetSandbox(n, s)
             /\ UNCHANGED <<yTodo, yReport>>
    /\ SyncFrame

SyncWrite(n) ==
    /\ yPc[n] = "write"
    /\ UpdateSandboxStatusIfUnchanged(n, yCur[n], ySt[n])
    /\ SyncAdvance(n, yCur[n])
    /\ SyncFrame

SyncNext(n) ==
    \/ SyncList(n)
    \/ SyncQuery(n)
    \/ SyncQueryFails(n)
    \/ \E s \in Sandboxes : SyncRead(n, s)
    \/ SyncWrite(n)

IpFrame == UNCHANGED <<envVars, nodeVars, schedVars, wVars, yVars, dVars>>

IpReturn(s) ==
    /\ ipPc' = [ipPc EXCEPT ![s] = "off"]
    /\ ipSt' = [ipSt EXCEPT ![s] = Gone]

\* The node reported an address, or the refresher gives up.
IpRead(s) ==
    /\ ipPc[s] = "fetch"
    /\ \/ IpReturn(s) /\ UNCHANGED storeVars
       \/ /\ Exists(s)
          /\ row[s].phase # "Deleting"
          /\ GetSandbox(s, s)
          /\ ipSt' = [ipSt EXCEPT ![s] = row[s]]
          /\ ipPc' = [ipPc EXCEPT ![s] = "write"]
    /\ IpFrame

IpWrite(s) ==
    /\ ipPc[s] = "write"
    /\ UpdateSandboxStatusIfUnchanged(s, s, ipSt[s])
    /\ IpReturn(s)
    /\ IpFrame

-----------------------------------------------------------------------------
(* DeleteNodeForce / detachNodeSandboxes.                                  *)

DetachFrame == UNCHANGED <<expired, created, crashes, inbox, letCopies, schedVars, wVars, yVars, ipVars>>

DetachReturn ==
    /\ dPc' = "idle" /\ dNode' = NoNode /\ dForce' = FALSE
    /\ dCur' = NoSandbox /\ dList' = NoList

DetachGoto(pc) ==
    /\ dPc' = pc
    /\ UNCHANGED <<dNode, dForce, dCur, dList>>

DetachAdvance ==
    /\ dPc' = "next"
    /\ dCur' = NoSandbox
    /\ UNCHANGED <<dNode, dForce, dList>>

DetachStart(n, force) ==
    /\ dPc = "idle"
    /\ n \in Removable
    /\ force \/ n \in registered
    /\ dPc' = "next"
    /\ dNode' = n
    /\ dForce' = force
    /\ dList' = [s \in Sandboxes |-> IF row[s].node = n THEN row[s] ELSE Gone]
    /\ UNCHANGED <<storeVars, registered, letVars, dCur>>
    /\ DetachFrame

\* The next listed sandbox: its ports are released, then its phase decides.
DetachRelease(s) ==
    /\ dPc = "next"
    /\ dList[s] # Gone
    /\ ReleaseSandboxPorts(s)
    /\ dList' = [dList EXCEPT ![s] = Gone]
    /\ \/ /\ dList[s].phase = "Deleting"
          /\ dPc' = "drop" /\ dCur' = s
       \/ /\ dList[s].phase \in {"Running", "Scheduled"}
          /\ dPc' = IF dForce THEN "update" ELSE "call"
          /\ dCur' = s
       \/ /\ dList[s].phase \in {"Failed", "Pending"}
          /\ UNCHANGED <<dPc, dCur>>
    /\ UNCHANGED <<registered, letVars, dNode, dForce>>
    /\ DetachFrame

DetachDrop ==
    /\ dPc = "drop"
    /\ DeleteSandboxPorts(dCur)
    /\ DetachGoto("dropRow")
    /\ UNCHANGED <<registered, letVars>>
    /\ DetachFrame

DetachDropRow ==
    /\ dPc = "dropRow"
    /\ DeleteSandboxRow(dCur)
    /\ DetachAdvance
    /\ UNCHANGED <<registered, letVars>>
    /\ DetachFrame

DetachCall ==
    /\ dPc = "call"
    /\ \/ CallOk(dNode, dCur) /\ DetachGoto("update")
       \/ CallError(dNode, dCur) /\ DetachReturn
    /\ UNCHANGED <<storeVars, registered>>
    /\ DetachFrame

DetachUpdate ==
    /\ dPc = "update"
    /\ UpdateSandboxStatus(dCur, [NewSandbox EXCEPT !.phase = "Failed"])
    /\ DetachAdvance
    /\ UNCHANGED <<registered, letVars>>
    /\ DetachFrame

\* The node's reconcile succeeded (or was skipped): its ports and its
\* registration go, in two statements.
DetachPorts ==
    /\ dPc = "next"
    /\ dList = NoList
    /\ DeleteNodePorts(dNode)
    /\ DetachGoto("node")
    /\ UNCHANGED <<registered, letVars>>
    /\ DetachFrame

DetachNode ==
    /\ dPc = "node"
    /\ registered' = registered \ {dNode}
    /\ DetachReturn
    /\ UNCHANGED <<storeVars, letVars>>
    /\ DetachFrame

\* The handler's client disconnects, or the node's reconcile fails.
DetachAbort ==
    /\ dPc # "idle"
    /\ DetachReturn
    /\ UNCHANGED <<storeVars, registered, letVars>>
    /\ DetachFrame

DetachNext ==
    \/ \E n \in Nodes, force \in BOOLEAN : DetachStart(n, force)
    \/ \E s \in Sandboxes : DetachRelease(s)
    \/ DetachDrop
    \/ DetachDropRow
    \/ DetachCall
    \/ DetachUpdate
    \/ DetachPorts
    \/ DetachNode
    \/ DetachAbort

-----------------------------------------------------------------------------

\* The orchestrator process dies and is started again: the tables and the
\* nodes stay, requests under way stay under way, every thread is lost.
Crash ==
    /\ crashes < MaxCrashes
    /\ crashes' = crashes + 1
    /\ schedPc' = "idle" /\ schedTodo' = {} /\ schedCur' = NoSandbox
    /\ schedNode' = NoNode /\ schedPorts' = {} /\ schedSt' = Gone
    /\ wPc' = [w \in Workers |-> "idle"]
    /\ wCur' = [w \in Workers |-> NoSandbox]
    /\ wSt' = [w \in Workers |-> Gone]
    /\ rList' = NoList
    /\ yPc' = [n \in Nodes |-> "idle"]
    /\ yTodo' = [n \in Nodes |-> {}]
    /\ yReport' = [n \in Nodes |-> NoReport]
    /\ yCur' = [n \in Nodes |-> NoSandbox]
    /\ ySt' = [n \in Nodes |-> Gone]
    /\ ipPc' = [s \in Sandboxes |-> "off"]
    /\ ipSt' = [s \in Sandboxes |-> Gone]
    /\ DetachReturn
    /\ seen' = {}
    /\ UNCHANGED <<row, resv, registered, expired, created, nodeVars>>

Next ==
    \/ \E s \in Sandboxes : Create(s) \/ Expire(s)
    \/ \E n \in Nodes : RegisterNode(n)
    \/ \E n \in Nodes, s \in Sandboxes : LetProgress(n, s)
    \/ \E q \in inbox : LetCreate(q)
    \/ \E q \in letCopies : LetRevive(q)
    \/ SchedNext
    \/ \E w \in Deleters, s \in Sandboxes : DeleteStart(w, s)
    \/ \E w \in Deleters : DeleteAbort(w) \/ WorkerStep(w)
    \/ ReconcileNext
    \/ \E n \in Nodes : SyncNext(n)
    \/ \E s \in Sandboxes : IpRead(s) \/ IpWrite(s)
    \/ DetachNext
    \/ Crash

Spec == Init /\ [][Next]_vars

\* Every loop is a goroutine on a ticker that never blocks for good: database
\* statements return and node calls time out.  A node that is asked again and
\* again to delete a sandbox, or for its statuses, answers at last.
FairSpec ==
    /\ Spec
    /\ WF_vars(SchedNext)
    /\ WF_vars(ReconcileNext)
    /\ SF_vars(WorkerCall(Reconciler))
    /\ \A n \in Nodes : WF_vars(SyncNext(n)) /\ SF_vars(SyncQuery(n))

-----------------------------------------------------------------------------
(* Properties.                                                             *)

\* A sandbox row that was deleted stays deleted: none of the status writes that
\* are still under way from an older copy (scheduler, DELETE handler, TTL
\* reconcile, status sync, IP refresher, node removal) brings it back; only a
\* client's POST creates a row, and it creates a fresh one.
GoneStaysGone ==
    [][\A s \in Sandboxes :
          ~Exists(s) /\ Exists(s)' => row'[s] = NewSandbox /\ (ReuseIds \/ s \notin created)]_vars

\* Status sync and the IP refresher never take a sandbox out of Deleting, however
\* long before their write they read the row: the write tests updated_at.
SyncKeepsDeleting ==
    [][(\E n \in Nodes : SyncWrite(n)) \/ (\E s \in Sandboxes : IpWrite(s))
         => \A s \in Sandboxes : row[s].phase = "Deleting" => row'[s] = row[s]]_vars

\* Node n holds sandbox s, or has been asked to create it, or may save it again.
Placed(n, s) ==
    \/ let[n][s] # "absent"
    \/ \E q \in inbox \cup letCopies : q.node = n /\ q.id = s

\* A sandbox id that is used once is never held by two nodes, or held by one
\* while another is being asked to create it or may bring it back, through
\* restarts, lost replies, deletions and node removals.
AtMostOneNode ==
    \A s \in Sandboxes : \A m, n \in Nodes : Placed(m, s) /\ Placed(n, s) => m = n

\* Every reserved host port is accounted for: its sandbox exists and is bound to
\* that node and port, or is being deleted, or the scheduler is about to release
\* it after a failed create.
ReservationsAccounted ==
    \A r \in resv :
        LET st == row[r.id] IN
        \/ st.node = r.node /\ r.port \in st.ports
        \/ st.phase = "Deleting"
        \/ schedCur = r.id /\ schedPc \in {"failed", "release"}

\* The host ports scheduleOne chose from its list of used ports are still free
\* when the reservation transaction runs, whatever ran in between: a reservation
\* fails only because its row is gone.  Reservations are made by one goroutine
\* and the list is read from sandbox_ports, which keeps the ports of a row that a
\* stale Deleting mark has cut from its node.
PickedPortsFree ==
    schedPc = "reserve" =>
        \A r \in resv : r.node = schedNode => r.port \notin schedPorts

-----------------------------------------------------------------------------
(* The inductive invariant behind the safety properties.                   *)

\* A thread that works on a sandbox, or a node, has one.
CursorsOK ==
    /\ (schedPc \in {"idle", "next"}) = (schedCur = NoSandbox)
    /\ schedPc = "reserve" => schedNode \in Nodes
    /\ \A w \in Workers : wPc[w] \notin {"idle", "next"} => wCur[w] \in Sandboxes
    /\ \A n \in Nodes : yPc[n] = "write" => yCur[n] \in Sandboxes
    /\ dPc \in {"drop", "dropRow", "call", "update"} => dCur \in Sandboxes
    /\ dPc # "idle" => dNode \in Nodes

\* A delete worker past its mark carries a Deleting copy.
WorkersDelete ==
    \A w \in Workers :
        wPc[w] \in {"call", "saveError", "release", "ports", "delete"} => wSt[w].phase = "Deleting"

\* A conditional write that will succeed was computed from the row as it is.
FreshCopies ==
    /\ \A n \in Nodes :
          yPc[n] = "write" /\ <<n, yCur[n]>> \in seen
          => /\ row[yCur[n]].phase \notin {"None", "Deleting"}
             /\ ySt[n].phase = "Pending" => row[yCur[n]].phase = "Pending"
    /\ \A s \in Sandboxes :
          ipPc[s] = "write" /\ <<s, s>> \in seen
          => row[s] = ipSt[s] /\ row[s].phase \notin {"None", "Deleting"}

\* A sandbox the scheduler may still place: no node holds it or was asked to.
Unplaced(s) ==
    \/ s \notin created
    \/ row[s].phase = "Pending"
    \/ s \in schedTodo
    \/ schedCur = s /\ schedPc \in {"unplaced", "reserve", "reload", "create"}

PlacementOK ==
    \A s \in Sandboxes :
        /\ s \notin created => ~Exists(s) /\ s \notin schedTodo /\ schedCur # s
        /\ Unplaced(s) => \A n \in Nodes : ~Placed(n, s)
        /\ schedCur = s => s \notin schedTodo
        /\ schedCur = s /\ schedPc \notin {"unplaced", "reserve"} => row[s].phase # "Pending"

\* All of it, with the part that needs ids to be used once.
ControlInv ==
    /\ TypeOK
    /\ CursorsOK
    /\ WorkersDelete
    /\ FreshCopies
    /\ ~ReuseIds => PlacementOK /\ AtMostOneNode

-----------------------------------------------------------------------------
(* Liveness.                                                               *)

\* A sandbox whose ttl_seconds have passed is eventually removed from the
\* control plane, even if the scheduler overwrites the reconcile loop's Deleting
\* on the way and calls to its node fail many times: every tick tries again.
ExpiredRemoved == \A s \in Sandboxes : (s \in expired /\ Exists(s)) ~> ~Exists(s)

\* If ids are used once, the host ports of a sandbox whose ttl_seconds have
\* passed are eventually free for good: neither a reservation that commits
\* between the finalizer's release and its delete, nor a restart between the
\* reservation and the create call or between the Failed write and
\* ReleaseSandboxPorts, keeps one for ever.
ExpiredPortsFreed ==
    \A s \in Sandboxes : (s \in expired) ~> [](\A r \in resv : r.id # s)

-----------------------------------------------------------------------------
(* What comments, tests and documentation say and the code does not do.    *)

\* "Do not override destructive transitions from other workflows."
\* (sandbox_ops.go:976): a Deleting row stays Deleting until it is removed.
NoDestructiveOverride ==
    [][\A s \in Sandboxes :
          row[s].phase = "Deleting" => row'[s].phase \in {"Deleting", "None"}]_vars

\* "the sandbox is automatically terminated after the configured duration has
\* elapsed" (README.md:765): an expired sandbox is eventually on no node.
ExpiredTerminated ==
    \A s \in Sandboxes : (s \in expired) ~> (\A n \in Nodes : let[n][s] = "absent")

\* TestScheduler_AssignsDistinctPortsAcrossSandboxes: sandboxes that are
\* Scheduled or Running on one node have distinct host ports.
DistinctPorts ==
    \A s, t \in Sandboxes :
        /\ s # t
        /\ row[s].phase \in {"Scheduled", "Running"}
        /\ row[t].phase \in {"Scheduled", "Running"}
        /\ row[s].node = row[t].node
        => row[s].ports \cap row[t].ports = {}

\* "Scheduled sandboxes may not exist on sbxlet yet during create window."
\* (sandbox_ops.go:948): a Scheduled sandbox that its node does not hold does
\* not stay so.
ScheduledProgresses ==
    \A s \in Sandboxes : \A n \in Nodes :
        (row[s].phase = "Scheduled" /\ row[s].node = n /\ let[n][s] = "absent")
           ~> ~(row[s].phase = "Scheduled" /\ row[s].node = n /\ let[n][s] = "absent")

\* TestDeleteNode_MarksScheduledOrRunningSandboxFailed: once a node is removed,
\* no sandbox is Scheduled or Running on it, but for one the scheduler is still
\* placing.
RemovedNodeUnused ==
    \A s \in Sandboxes :
        row[s].phase \in {"Scheduled", "Running"} /\ schedCur # s => row[s].node \in registered

=============================================================================
