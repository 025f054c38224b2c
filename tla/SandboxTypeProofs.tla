------------------------- MODULE SandboxTypeProofs -------------------------
(***************************************************************************)
(* SandboxControl: every step keeps the types of the tables and threads    *)
(* (TypeOK, CursorsOK, WorkersDelete), for any number of sandboxes, nodes, *)
(* host ports, DELETE handlers and restarts.                               *)
(***************************************************************************)
EXTENDS SandboxControl, TLAPS

\* The status of a missing row and that of a new one are statuses.
LEMMA GoneType == Gone \in Status /\ NewSandbox \in Status
BY DEF Gone, NewSandbox, Status, Phases

\* The initial state, empty tables and idle threads, satisfies the invariant.
LEMMA InitInv == Init => ControlInv
<1> SUFFICES ASSUME Init PROVE ControlInv
  OBVIOUS
<1> USE IdAssumption, ControlAssumption, GoneType
<1>1. TypeOK
  BY Zenon DEF Init, StoreInit, ThreadsInit, TypeOK, StoreTypeOK, NoList, NoReport, LetPhases,
         SchedPcs, WorkerPcs, SyncPcs, DetachPcs
<1>2. CursorsOK /\ WorkersDelete /\ FreshCopies
  BY DEF Init, StoreInit, ThreadsInit, CursorsOK, WorkersDelete, FreshCopies
<1>3. PlacementOK /\ AtMostOneNode
  BY DEF Init, StoreInit, ThreadsInit, PlacementOK, AtMostOneNode, Placed, Exists, Gone, NoReport
<1> QED
  BY <1>1, <1>2, <1>3 DEF ControlInv

-----------------------------------------------------------------------------
(* The store operations keep the types of the tables.                      *)

\* UpdateSandboxStatus with a status keeps the types of the tables.
LEMMA UpdateType ==
    ASSUME StoreTypeOK, NEW s, NEW st \in Status, UpdateSandboxStatus(s, st)
    PROVE  StoreTypeOK'
BY Zenon DEF StoreTypeOK, UpdateSandboxStatus, Touch, Exists

\* So does the conditional update of status sync and the IP refresher.
LEMMA UpdateIfType ==
    ASSUME StoreTypeOK, NEW r, NEW s, NEW st \in Status, UpdateSandboxStatusIfUnchanged(r, s, st)
    PROVE  StoreTypeOK'
BY UpdateType DEF StoreTypeOK, UpdateSandboxStatusIfUnchanged, storeVars

\* So does releasing the ports of a sandbox.
LEMMA ReleaseType ==
    ASSUME StoreTypeOK, NEW s, ReleaseSandboxPorts(s)
    PROVE  StoreTypeOK'
BY DEF StoreTypeOK, ReleaseSandboxPorts

\* So does each of the two statements that delete a sandbox.
LEMMA DeleteType ==
    ASSUME StoreTypeOK, NEW s, DeleteSandboxPorts(s) \/ DeleteSandboxRow(s)
    PROVE  StoreTypeOK'
<1>1. CASE DeleteSandboxPorts(s)
  BY <1>1 DEF StoreTypeOK, DeleteSandboxPorts
<1>2. CASE DeleteSandboxRow(s)
  BY <1>2, GoneType, Zenon DEF StoreTypeOK, DeleteSandboxRow, Touch
<1> QED
  BY <1>1, <1>2

\* So does loading a row.
LEMMA GetType ==
    ASSUME StoreTypeOK, NEW r \in Readers, NEW s \in Sandboxes, GetSandbox(r, s)
    PROVE  StoreTypeOK'
BY DEF StoreTypeOK, GetSandbox

\* So does inserting a new row.
LEMMA CreateType ==
    ASSUME StoreTypeOK, NEW s, CreateSandbox(s)
    PROVE  StoreTypeOK'
BY GoneType, Zenon DEF StoreTypeOK, CreateSandbox, Touch

\* So does the transaction that reserves ports and binds the row to a node.
LEMMA ReserveType ==
    ASSUME StoreTypeOK, NEW s \in Sandboxes, NEW n \in Nodes, NEW P \in SUBSET HostPorts,
           ReserveSandboxPortsAndSchedule(s, n, P)
    PROVE  StoreTypeOK'
BY DEF StoreTypeOK, ReserveSandboxPortsAndSchedule, Touch, Reservation, Status, Phases

\* So does deleting the ports of a node.
LEMMA NodePortsType ==
    ASSUME StoreTypeOK, NEW n, DeleteNodePorts(n)
    PROVE  StoreTypeOK'
BY DEF StoreTypeOK, DeleteNodePorts

\* So does a step that leaves the tables alone.
LEMMA SameStoreType ==
    ASSUME StoreTypeOK, UNCHANGED storeVars
    PROVE  StoreTypeOK'
BY DEF StoreTypeOK, storeVars

\* A status with its phase replaced is a status.
LEMMA PhaseType ==
    ASSUME NEW st \in Status, NEW p \in Phases
    PROVE  [st EXCEPT !.phase = p] \in Status
BY SMTT(30) DEF Status

-----------------------------------------------------------------------------
(* TypeOK and CursorsOK, by workflow.                                      *)

\* The scheduler keeps TypeOK and CursorsOK.
LEMMA SchedType ==
    ASSUME TypeOK, CursorsOK, SchedNext
    PROVE  TypeOK' /\ CursorsOK'
<1> USE IdAssumption, ControlAssumption, GoneType, PhaseType, SameStoreType
<1> USE DEF TypeOK, CursorsOK, SchedFrame, envVars, letVars, nodeVars, schedVars, wVars, yVars,
            ipVars, dVars, SchedReturn, SchedGoto, SchedPcs
<1>1. CASE SchedList
  BY <1>1 DEF SchedList, PendingSandboxes
<1>2. CASE \E s \in Sandboxes : SchedPick(s)
  BY <1>2 DEF SchedPick
<1>3. CASE SchedUnplaced
  BY <1>3, UpdateType, Zenon DEF SchedUnplaced, Phases
<1>4. CASE SchedReserve
  BY <1>4, ReserveType DEF SchedReserve
<1>5. CASE SchedReload
  BY <1>5 DEF SchedReload, StoreTypeOK
<1>6. CASE SchedCreate
  BY <1>6 DEF SchedCreate, Request, Status
<1>7. CASE SchedTimeout
  BY <1>7 DEF SchedTimeout
<1>8. CASE SchedFailed
  <2>1. [schedSt EXCEPT !.phase = "Failed"] \in Status
    BY Zenon DEF Phases
  <2>2. StoreTypeOK'
    BY <1>8, <2>1, UpdateType DEF SchedFailed
  <2> QED
    BY <1>8, <2>2 DEF SchedFailed
<1>9. CASE SchedRelease
  BY <1>9, ReleaseType DEF SchedRelease
<1>10. CASE SchedConfirm
  BY <1>10, UpdateType, Zenon DEF SchedConfirm, Phases
<1> QED
  BY <1>1, <1>2, <1>3, <1>4, <1>5, <1>6, <1>7, <1>8, <1>9, <1>10, Zenon DEF SchedNext

\* The operations on a node's state files keep its types.
LEMMA LetSetType ==
    ASSUME TypeOK, NEW n \in Nodes, NEW s \in Sandboxes, NEW p \in LetPhases, LetSet(n, s, p)
    PROVE  /\ let' \in [Nodes -> [Sandboxes -> LetPhases]]
           /\ letPorts' \in [Nodes -> [Sandboxes -> SUBSET HostPorts]]
BY DEF TypeOK, LetSet

\* So does a DELETE call to a node, whatever its outcome.
LEMMA CallType ==
    ASSUME TypeOK, NEW n \in Nodes, NEW s \in Sandboxes, CallOk(n, s) \/ CallError(n, s)
    PROVE  /\ let' \in [Nodes -> [Sandboxes -> LetPhases]]
           /\ letPorts' \in [Nodes -> [Sandboxes -> SUBSET HostPorts]]
<1>1. CASE UNCHANGED letVars
  BY <1>1 DEF TypeOK, letVars
<1>2. CASE \E p \in LetPhases : LetSet(n, s, p)
  BY <1>2, LetSetType
<1> QED
  BY <1>1, <1>2 DEF CallOk, CallError, LetPhases

\* Every step of finalizeSandboxDelete keeps TypeOK and CursorsOK.
LEMMA WorkerType ==
    ASSUME TypeOK, CursorsOK, NEW w \in Workers, WorkerStep(w)
    PROVE  TypeOK' /\ CursorsOK'
<1> USE IdAssumption, ControlAssumption, GoneType, SameStoreType
<1> USE DEF TypeOK, CursorsOK, WorkerFrame, envVars, letVars, schedVars, yVars,
            ipVars, dVars, WorkerReturn, WorkerGoto, WorkerPcs
<1>0. wSt[w] \in Status /\ [wSt[w] EXCEPT !.phase = "Deleting"] \in Status
  BY PhaseType, Zenon DEF Phases
<1>1. CASE WorkerMark(w)
  <2>1. StoreTypeOK'
    BY <1>0, <1>1, UpdateType DEF WorkerMark
  <2> QED
    BY <1>0, <1>1, <2>1 DEF WorkerMark
<1>2. CASE WorkerCall(w)
  <2>1. /\ let' \in [Nodes -> [Sandboxes -> LetPhases]]
        /\ letPorts' \in [Nodes -> [Sandboxes -> SUBSET HostPorts]]
    BY <1>2, CallType, ZenonT(60) DEF WorkerCall
  <2> QED
    BY <1>2, <2>1 DEF WorkerCall
<1>3. CASE WorkerCallFails(w)
  <2>1. /\ let' \in [Nodes -> [Sandboxes -> LetPhases]]
        /\ letPorts' \in [Nodes -> [Sandboxes -> SUBSET HostPorts]]
    BY <1>3, CallType DEF WorkerCallFails
  <2> QED
    BY <1>3, <2>1 DEF WorkerCallFails
<1>4. CASE WorkerSaveError(w)
  BY <1>0, <1>4, UpdateType DEF WorkerSaveError
<1>5. CASE WorkerRelease(w)
  BY <1>5, ReleaseType DEF WorkerRelease
<1>6. CASE WorkerDeletePorts(w)
  BY <1>6, DeleteType DEF WorkerDeletePorts
<1>7. CASE WorkerDelete(w)
  BY <1>7, DeleteType DEF WorkerDelete
<1> QED
  BY <1>1, <1>2, <1>3, <1>4, <1>5, <1>6, <1>7, Zenon DEF WorkerStep

\* So does the start, or the end, of a delete worker.
LEMMA WorkerStartType ==
    ASSUME TypeOK, CursorsOK,
           \/ \E w \in Deleters, s \in Sandboxes : DeleteStart(w, s)
           \/ \E w \in Deleters : DeleteAbort(w)
           \/ ReconcileList
           \/ \E s \in Sandboxes : ReconcilePick(s)
    PROVE  TypeOK' /\ CursorsOK'
<1> USE IdAssumption, ControlAssumption, GoneType, SameStoreType
<1> USE DEF TypeOK, CursorsOK, WorkerFrame, envVars, letVars, schedVars, yVars,
            ipVars, dVars, WorkerReturn, WorkerPcs, Workers
<1>1. ASSUME NEW w \in Deleters, NEW s \in Sandboxes, DeleteStart(w, s)
      PROVE  TypeOK' /\ CursorsOK'
  BY <1>1 DEF DeleteStart, StoreTypeOK
<1>2. ASSUME NEW w \in Deleters, DeleteAbort(w)
      PROVE  TypeOK' /\ CursorsOK'
  BY <1>2 DEF DeleteAbort
<1>3. CASE ReconcileList
  BY <1>3, SMTT(30) DEF ReconcileList, StoreTypeOK
<1>4. ASSUME NEW s \in Sandboxes, ReconcilePick(s)
      PROVE  TypeOK' /\ CursorsOK'
  BY <1>4 DEF ReconcilePick
<1> QED
  BY <1>1, <1>2, <1>3, <1>4, Zenon

\* What a status sync computes for a row is a status.
LEMMA MergeType ==
    ASSUME NEW st \in Status, NEW p \in LetPhases
    PROVE  [st EXCEPT !.phase = MergePhase(st.phase, p)] \in Status
BY DEF MergePhase, Status, Phases, LetPhases

\* The types of a status-sync thread, and its part of CursorsOK.
SyncTypeOK ==
    /\ yPc \in [Nodes -> SyncPcs]
    /\ yTodo \in [Nodes -> SUBSET Sandboxes]
    /\ yReport \in [Nodes -> [Sandboxes -> LetPhases]]
    /\ yCur \in [Nodes -> Sandboxes \cup {NoSandbox}]
    /\ ySt \in [Nodes -> Status]
    /\ \A n \in Nodes : yPc[n] = "write" => yCur[n] \in Sandboxes

\* Going on with a status-sync batch keeps the types of its thread.
LEMMA AdvanceType ==
    ASSUME SyncTypeOK, NEW n \in Nodes, NEW s, SyncAdvance(n, s)
    PROVE  SyncTypeOK'
<1>0. NoReport \in [Sandboxes -> LetPhases]
  BY DEF NoReport, LetPhases
<1>1. CASE yTodo[n] = {s}
  BY <1>0, <1>1, GoneType, ZenonT(60) DEF SyncTypeOK, SyncAdvance, SyncReturn, SyncPcs
<1>2. CASE yTodo[n] # {s}
  <2>1. yTodo' \in [Nodes -> SUBSET Sandboxes]
    BY <1>2 DEF SyncTypeOK, SyncAdvance
  <2> QED
    BY <1>2, <2>1, GoneType, Zenon DEF SyncTypeOK, SyncAdvance, SyncPcs
<1> QED
  BY <1>1, <1>2

\* Status sync keeps TypeOK and CursorsOK.
LEMMA SyncType ==
    ASSUME TypeOK, CursorsOK, NEW n \in Nodes, SyncNext(n)
    PROVE  TypeOK' /\ CursorsOK'
<1> USE IdAssumption, ControlAssumption, GoneType, SameStoreType
<1> USE DEF TypeOK, CursorsOK, SyncFrame, envVars, letVars, nodeVars, schedVars, wVars,
            ipVars, dVars, SyncReturn, SyncPcs
<1>0. NoReport \in [Sandboxes -> LetPhases]
  BY SMTT(30) DEF NoReport, LetPhases
<1>1. CASE SyncList(n)
  BY <1>1 DEF SyncList, SyncGroup
<1>2. CASE SyncQuery(n)
  BY <1>2 DEF SyncQuery, LetPhases
<1>3. CASE SyncQueryFails(n)
  BY <1>0, <1>3, SMTT(30) DEF SyncQueryFails
<1>4. ASSUME NEW s \in Sandboxes, SyncRead(n, s)
      PROVE  TypeOK' /\ CursorsOK'
  <2>1. row[s] \in Status /\ yReport[n][s] \in LetPhases
    BY DEF StoreTypeOK
  <2> DEFINE next == [row[s] EXCEPT !.phase = MergePhase(row[s].phase, yReport[n][s])]
  <2>2. next \in Status
    BY <2>1, MergeType
  <2> HIDE DEF next
  <2>3. CASE SyncAdvance(n, s) /\ UNCHANGED storeVars
    BY <1>4, <2>3, AdvanceType DEF SyncRead, SyncTypeOK
  <2>4. CASE /\ yPc' = [yPc EXCEPT ![n] = "write"]
             /\ yCur' = [yCur EXCEPT ![n] = s]
             /\ ySt' = [ySt EXCEPT ![n] = next]
             /\ GetSandbox(n, s)
             /\ UNCHANGED <<yTodo, yReport>>
    <3>1. StoreTypeOK'
      BY <2>4, GetType DEF Readers
    <3> QED
      BY <1>4, <2>2, <2>4, <3>1 DEF SyncRead
  <2> QED
    BY <1>4, <2>3, <2>4 DEF SyncRead, next
<1>5. CASE SyncWrite(n)
  <2>1. StoreTypeOK'
    BY <1>5, UpdateIfType, SMTT(30) DEF SyncWrite
  <2> QED
    BY <1>5, <2>1, AdvanceType DEF SyncWrite, SyncTypeOK
<1> QED
  BY <1>1, <1>2, <1>3, <1>4, <1>5, Zenon DEF SyncNext

\* The IP refresher keeps TypeOK and CursorsOK.
LEMMA IpType ==
    ASSUME TypeOK, CursorsOK, NEW s \in Sandboxes, IpRead(s) \/ IpWrite(s)
    PROVE  TypeOK' /\ CursorsOK'
<1> USE IdAssumption, ControlAssumption, GoneType, SameStoreType
<1> USE DEF TypeOK, CursorsOK, IpFrame, envVars, letVars, nodeVars, schedVars, wVars, yVars,
            dVars, IpReturn
<1>1. CASE IpRead(s)
  <2>1. StoreTypeOK'
    BY <1>1, GetType, Zenon DEF IpRead, Readers
  <2>2. row[s] \in Status
    BY SMTT(30) DEF StoreTypeOK
  <2>3. /\ ipPc' \in [Sandboxes -> {"off", "fetch", "write"}]
        /\ ipSt' \in [Sandboxes -> Status]
    <3>1. CASE ipPc' = [ipPc EXCEPT ![s] = "off"] /\ ipSt' = [ipSt EXCEPT ![s] = Gone]
      BY <3>1
    <3>2. CASE ipPc' = [ipPc EXCEPT ![s] = "write"] /\ ipSt' = [ipSt EXCEPT ![s] = row[s]]
      BY <2>2, <3>2
    <3> QED
      BY <1>1, <3>1, <3>2, Zenon DEF IpRead
  <2> QED
    BY <1>1, <2>1, <2>3, Zenon DEF IpRead
<1>2. CASE IpWrite(s)
  <2>1. StoreTypeOK'
    BY <1>2, UpdateIfType DEF IpWrite
  <2> QED
    BY <1>2, <2>1 DEF IpWrite
<1> QED
  BY <1>1, <1>2, SMTT(30)

\* Node removal keeps TypeOK and CursorsOK.
LEMMA DetachType ==
    ASSUME TypeOK, CursorsOK, DetachNext
    PROVE  TypeOK' /\ CursorsOK'
<1> USE IdAssumption, ControlAssumption, GoneType, SameStoreType
<1> USE DEF TypeOK, CursorsOK, DetachFrame, letVars, schedVars, wVars, yVars,
            ipVars, DetachReturn, DetachGoto, DetachAdvance, DetachPcs
<1>0. NoList \in [Sandboxes -> Status]
  BY SMTT(30) DEF NoList
<1>1. ASSUME NEW n \in Nodes, NEW force \in BOOLEAN, DetachStart(n, force)
      PROVE  TypeOK' /\ CursorsOK'
  BY <1>1, Zenon DEF DetachStart, StoreTypeOK
<1>2. ASSUME NEW s \in Sandboxes, DetachRelease(s)
      PROVE  TypeOK' /\ CursorsOK'
  <2>1. StoreTypeOK'
    BY <1>2, ReleaseType DEF DetachRelease
  <2> QED
    BY <1>2, <2>1 DEF DetachRelease
<1>3. CASE DetachDrop
  BY <1>3, DeleteType, SMTT(30) DEF DetachDrop
<1>9. CASE DetachDropRow
  BY <1>9, DeleteType, SMTT(30) DEF DetachDropRow
<1>4. CASE DetachCall
  <2>1. /\ let' \in [Nodes -> [Sandboxes -> LetPhases]]
        /\ letPorts' \in [Nodes -> [Sandboxes -> SUBSET HostPorts]]
    BY <1>4, CallType DEF DetachCall
  <2>2. CASE DetachGoto("update")
    BY <1>4, <2>1, <2>2 DEF DetachCall
  <2>3. CASE DetachReturn
    BY <1>0, <1>4, <2>1, <2>3, Zenon DEF DetachCall
  <2> QED
    BY <1>4, <2>2, <2>3, Zenon DEF DetachCall
<1>5. CASE DetachUpdate
  BY <1>5, UpdateType, PhaseType, Zenon DEF DetachUpdate, Phases
<1>6. CASE DetachPorts
  BY <1>6, NodePortsType DEF DetachPorts
<1>7. CASE DetachNode
  BY <1>0, <1>7, Zenon DEF DetachNode
<1>8. CASE DetachAbort
  BY <1>0, <1>8, Zenon DEF DetachAbort
<1> HIDE DEF TypeOK, CursorsOK
<1> QED
  BY <1>1, <1>2, <1>3, <1>4, <1>5, <1>6, <1>7, <1>8, <1>9 DEF DetachNext

\* The nodes' own steps keep TypeOK and CursorsOK.
LEMMA LetType ==
    ASSUME TypeOK, CursorsOK,
           \/ \E n \in Nodes, s \in Sandboxes : LetProgress(n, s)
           \/ \E q \in inbox : LetCreate(q)
           \/ \E q \in letCopies : LetRevive(q)
    PROVE  TypeOK' /\ CursorsOK'
<1> USE IdAssumption, ControlAssumption, SameStoreType
<1> USE DEF TypeOK, CursorsOK, envVars, letVars, schedVars, wVars, yVars, ipVars, dVars
<1>1. ASSUME NEW n \in Nodes, NEW s \in Sandboxes, LetProgress(n, s)
      PROVE  TypeOK' /\ CursorsOK'
  <2>1. /\ let' \in [Nodes -> [Sandboxes -> LetPhases]]
        /\ letPorts' \in [Nodes -> [Sandboxes -> SUBSET HostPorts]]
    BY <1>1, LetSetType, SMTT(30) DEF LetProgress, LetPhases
  <2> QED
    BY <1>1, <2>1, SMTT(30) DEF LetProgress
<1>2. ASSUME NEW q \in inbox, LetCreate(q)
      PROVE  TypeOK' /\ CursorsOK'
  <2>1. q.node \in Nodes /\ q.id \in Sandboxes /\ q.ports \in SUBSET HostPorts
    BY SMTT(30) DEF Request
  <2>2. /\ let' \in [Nodes -> [Sandboxes -> LetPhases]]
        /\ letPorts' \in [Nodes -> [Sandboxes -> SUBSET HostPorts]]
    <3>1. CASE UNCHANGED letVars
      BY <3>1, SMTT(30)
    <3>2. CASE /\ let' = [let EXCEPT ![q.node][q.id] = "creating"]
               /\ letPorts' = [letPorts EXCEPT ![q.node][q.id] = q.ports]
      BY <2>1, <3>2, Zenon DEF LetPhases
    <3> QED
      BY <1>2, <3>1, <3>2, Zenon DEF LetCreate
  <2>3. /\ schedPc' \in SchedPcs
        /\ schedPc' = schedPc \/ (schedPc = "await" /\ schedPc' \in {"confirm", "failed"})
    <3> HIDE DEF TypeOK, CursorsOK
    <3>1. \/ schedPc' \in {schedPc} \cup (IF Waiting(q.node, q.id) THEN {"confirm"} ELSE {})
          \/ schedPc' \in {schedPc} \cup (IF Waiting(q.node, q.id) THEN {"failed"} ELSE {})
      BY <1>2, Zenon DEF LetCreate
    <3> QED
      BY <3>1, Zenon DEF Waiting, SchedPcs, TypeOK
  <2>4. /\ inbox' \subseteq inbox
        /\ letCopies' \subseteq letCopies \cup {q}
        /\ UNCHANGED <<storeVars, registered, expired, created, crashes, schedTodo, schedCur,
                       schedNode, schedPorts, schedSt>>
        /\ UNCHANGED <<wPc, wCur, wSt, rList, yPc, yTodo, yReport, yCur, ySt>>
        /\ UNCHANGED <<ipPc, ipSt, dPc, dNode, dForce, dCur, dList>>
    <3> HIDE DEF TypeOK, CursorsOK
    <3> QED
      BY <1>2 DEF LetCreate
  <2>5. TypeOK'
    <3> HIDE DEF CursorsOK
    <3> QED
      BY <2>2, <2>3, <2>4, SMTT(60)
  <2>6. CursorsOK'
    <3> HIDE DEF TypeOK
    <3>1. UNCHANGED <<schedCur, schedNode>>
      BY <2>4, Zenon
    <3>2. UNCHANGED <<wPc, wCur, yPc, yCur, dPc, dNode, dCur>>
      BY <2>4, Zenon
    <3>3. CASE schedPc' = schedPc
      BY <3>1, <3>2, <3>3, Zenon
    <3>4. CASE schedPc = "await" /\ schedPc' \in {"confirm", "failed"}
      <4>1. schedPc \notin {"idle", "next"} /\ schedPc' \notin {"idle", "next", "reserve"}
        <5> HIDE DEF CursorsOK
        <5> QED
          BY <3>4
      <4>2. schedCur' # NoSandbox
        BY <3>1, <4>1, Zenon
      <4>3. /\ (schedPc' \in {"idle", "next"}) = (schedCur' = NoSandbox)
            /\ schedPc' = "reserve" => schedNode' \in Nodes
        <5> HIDE DEF CursorsOK
        <5> QED
          BY <4>1, <4>2
      <4> QED
        BY <3>2, <4>3, Zenon
    <3> QED
      BY <2>3, <3>3, <3>4, Zenon
  <2> QED
    BY <2>5, <2>6
<1>3. ASSUME NEW q \in letCopies, LetRevive(q)
      PROVE  TypeOK' /\ CursorsOK'
  <2>1. q.node \in Nodes /\ q.id \in Sandboxes /\ q.ports \in SUBSET HostPorts
    BY SMTT(30) DEF Request
  <2>2. /\ let' \in [Nodes -> [Sandboxes -> LetPhases]]
        /\ letPorts' \in [Nodes -> [Sandboxes -> SUBSET HostPorts]]
    <3>1. PICK phase \in {"running", "error"} : let' = [let EXCEPT ![q.node][q.id] = phase]
      BY <1>3, Zenon DEF LetRevive
    <3>2. letPorts' = [letPorts EXCEPT ![q.node][q.id] = q.ports]
      BY <1>3, Zenon DEF LetRevive
    <3>3. phase \in LetPhases
      BY <3>1 DEF LetPhases
    <3> QED
      BY <2>1, <3>1, <3>2, <3>3, Zenon
  <2>3. UNCHANGED <<storeVars, envVars, inbox, letCopies, schedVars, wVars, yVars, ipVars, dVars>>
    BY <1>3, Zenon DEF LetRevive
  <2>4. TypeOK'
    BY <2>2, <2>3, SMTT(30)
  <2>5. CursorsOK'
    BY <2>3, SMTT(30)
  <2> QED
    BY <2>4, <2>5
<1> QED
  BY <1>1, <1>2, <1>3, Zenon

\* Clients, time, node registration and restarts keep TypeOK and CursorsOK.
LEMMA EnvType ==
    ASSUME TypeOK, CursorsOK,
           \/ \E s \in Sandboxes : Create(s) \/ Expire(s)
           \/ \E n \in Nodes : RegisterNode(n)
           \/ Crash
    PROVE  TypeOK' /\ CursorsOK'
<1> USE IdAssumption, ControlAssumption, GoneType, SameStoreType
<1> USE DEF TypeOK, CursorsOK, envVars, letVars, nodeVars, schedVars, wVars, yVars, ipVars, dVars
<1>1. ASSUME NEW s \in Sandboxes, Create(s)
      PROVE  TypeOK' /\ CursorsOK'
  BY <1>1, CreateType, SMTT(30) DEF Create
<1>2. ASSUME NEW s \in Sandboxes, Expire(s)
      PROVE  TypeOK' /\ CursorsOK'
  BY <1>2, SMTT(30) DEF Expire
<1>3. ASSUME NEW n \in Nodes, RegisterNode(n)
      PROVE  TypeOK' /\ CursorsOK'
  BY <1>3, SMTT(30) DEF RegisterNode
<1>4. CASE Crash
  <2>1. NoList \in [Sandboxes -> Status] /\ NoReport \in [Sandboxes -> LetPhases]
    BY SMTT(30) DEF NoList, NoReport, LetPhases
  <2>2. StoreTypeOK' /\ crashes' \in Nat
    BY <1>4, SMTT(30) DEF Crash, StoreTypeOK
  <2>3. TypeOK'
    BY <1>4, <2>1, <2>2, Zenon DEF Crash, DetachReturn, SchedPcs, WorkerPcs, SyncPcs, DetachPcs
  <2>4. CursorsOK'
    BY <1>4 DEF Crash, DetachReturn
  <2> QED
    BY <2>3, <2>4
<1> QED
  BY <1>1, <1>2, <1>3, <1>4, Zenon

\* Every step keeps TypeOK and CursorsOK.
LEMMA TypeStep ==
    ASSUME TypeOK, CursorsOK, [Next]_vars
    PROVE  TypeOK' /\ CursorsOK'
<1>1. CASE UNCHANGED vars
  BY <1>1, SameStoreType DEF TypeOK, CursorsOK, vars, envVars, letVars, nodeVars, schedVars, wVars,
                             yVars, ipVars, dVars
<1>2. CASE Next
  BY <1>2, SchedType, WorkerType, WorkerStartType, SyncType, IpType, DetachType, LetType, EnvType
     DEF Next, ReconcileNext, Workers
<1> QED
  BY <1>1, <1>2, SMTT(30)

-----------------------------------------------------------------------------
(* WorkersDelete.                                                          *)

\* Every step keeps WorkersDelete: only WorkerMark, which writes Deleting into the
\* copy, and a list entry that is Deleting lead a worker to the node call.
LEMMA WorkersDeleteStep ==
    ASSUME TypeOK, WorkersDelete, [Next]_vars
    PROVE  WorkersDelete'
<1> USE DEF WorkersDelete
<1>1. CASE UNCHANGED wVars
  BY <1>1, SMTT(30) DEF wVars
<1>2. ASSUME NEW w \in Deleters, NEW s \in Sandboxes, DeleteStart(w, s)
      PROVE  WorkersDelete'
  BY <1>2 DEF DeleteStart, TypeOK, Workers
<1>3. ASSUME NEW w \in Deleters, DeleteAbort(w)
      PROVE  WorkersDelete'
  BY <1>3 DEF DeleteAbort, WorkerReturn, TypeOK, Workers
<1>4. CASE ReconcileList
  BY <1>4 DEF ReconcileList, TypeOK, Workers
<1>5. ASSUME NEW s \in Sandboxes, ReconcilePick(s)
      PROVE  WorkersDelete'
  BY <1>5, SMTT(30) DEF ReconcilePick, TypeOK, Workers
<1>6. ASSUME NEW w \in Workers, WorkerStep(w)
      PROVE  WorkersDelete'
  <2> USE DEF TypeOK, WorkerGoto, WorkerReturn
  <2>1. CASE WorkerMark(w)
    BY <2>1 DEF WorkerMark, Status
  <2>2. CASE WorkerCall(w)
    BY <2>2 DEF WorkerCall
  <2>3. CASE WorkerCallFails(w)
    BY <2>3 DEF WorkerCallFails
  <2>4. CASE WorkerSaveError(w)
    BY <2>4 DEF WorkerSaveError
  <2>5. CASE WorkerRelease(w)
    BY <2>5 DEF WorkerRelease
  <2>6. CASE WorkerDeletePorts(w)
    BY <2>6 DEF WorkerDeletePorts
  <2>7. CASE WorkerDelete(w)
    BY <2>7, SMTT(30) DEF WorkerDelete
  <2> QED
    BY <1>6, <2>1, <2>2, <2>3, <2>4, <2>5, <2>6, <2>7, Zenon DEF WorkerStep
<1>7. CASE Crash
  BY <1>7, Zenon DEF Crash
<1> HIDE DEF WorkersDelete
<1>8. CASE SchedNext
  <2>1. UNCHANGED wVars
    BY <1>8 DEF SchedNext, SchedList, SchedPick, SchedUnplaced, SchedReserve, SchedReload, SchedCreate,
                SchedTimeout, SchedFailed, SchedRelease, SchedConfirm, SchedFrame
  <2> QED
    BY <1>1, <2>1
<1>9. CASE DetachNext
  <2>1. UNCHANGED wVars
    BY <1>9 DEF DetachNext, DetachStart, DetachRelease, DetachDrop, DetachDropRow, DetachCall, DetachUpdate,
                DetachPorts, DetachNode, DetachAbort, DetachFrame
  <2> QED
    BY <1>1, <2>1
<1>10. CASE \E n \in Nodes : SyncNext(n)
  <2>1. UNCHANGED wVars
    BY <1>10, Zenon DEF SyncNext, SyncList, SyncQuery, SyncQueryFails, SyncRead, SyncWrite, SyncFrame
  <2> QED
    BY <1>1, <2>1
<1>11. CASE \/ \E s \in Sandboxes : IpRead(s) \/ IpWrite(s)
            \/ \E s \in Sandboxes : Create(s) \/ Expire(s)
            \/ \E n \in Nodes : RegisterNode(n)
            \/ \E n \in Nodes, s \in Sandboxes : LetProgress(n, s)
            \/ \E q \in inbox : LetCreate(q)
            \/ \E q \in letCopies : LetRevive(q)
            \/ UNCHANGED vars
  <2>1. UNCHANGED wVars
    BY <1>11, Zenon DEF IpRead, IpWrite, IpFrame, Create, Expire, RegisterNode, LetProgress, LetCreate, LetRevive, vars
  <2> QED
    BY <1>1, <2>1
<1> QED
  BY <1>2, <1>3, <1>4, <1>5, <1>6, <1>7, <1>8, <1>9, <1>10, <1>11 DEF Next, ReconcileNext, Workers

=============================================================================
