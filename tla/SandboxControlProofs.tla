----------------------- MODULE SandboxControlProofs ------------------------
(***************************************************************************)
(* SandboxControl: where sandboxes are placed (PlacementOK), and the       *)
(* theorems.                                                               *)
(***************************************************************************)
EXTENDS SandboxFreshProofs

(* PlacementOK and AtMostOneNode.                                          *)

\* No node comes to hold, or to be asked for, another sandbox.
NoNewPlaced == \A n \in Nodes, s \in Sandboxes : Placed(n, s)' => Placed(n, s)

\* A step that leaves the nodes and the requests alone places nothing.
LEMMA SamePlaced ==
    ASSUME UNCHANGED <<let, inbox, letCopies>>
    PROVE  NoNewPlaced
BY DEF NoNewPlaced, Placed

\* A DELETE call to a node places nothing.
LEMMA CallPlaced ==
    ASSUME TypeOK, NEW n \in Nodes, NEW s \in Sandboxes, CallOk(n, s) \/ CallError(n, s),
           UNCHANGED <<inbox, letCopies>>
    PROVE  NoNewPlaced
<1>1. \A m \in Nodes, u \in Sandboxes : let[m][u] = "absent" => let'[m][u] = "absent"
  BY DEF CallOk, CallError, LetSet, letVars, TypeOK
<1> QED
  BY <1>1 DEF NoNewPlaced, Placed

\* Away from the scheduler and from POST, such a step keeps both.
LEMMA PlacementKept ==
    ASSUME CursorsOK, PlacementOK, AtMostOneNode, Quiet, NoNewPlaced, UNCHANGED <<created, schedTodo, schedCur>>,
           schedPc' = schedPc \/ (schedPc = "await" /\ schedPc' \in {"confirm", "failed"})
    PROVE  PlacementOK' /\ AtMostOneNode'
<1>1. AtMostOneNode'
  BY DEF AtMostOneNode, NoNewPlaced
<1>2. \A s \in Sandboxes : Unplaced(s)' => Unplaced(s)
  BY DEF Unplaced, Quiet
<1>3. PlacementOK'
  BY <1>2 DEF PlacementOK, Quiet, NoNewPlaced, Exists
<1> QED
  BY <1>1, <1>3

\* The scheduler's steps other than the one that sends a create request.
LEMMA SchedPlacement ==
    ASSUME TypeOK, CursorsOK, PlacementOK, AtMostOneNode, SchedNext, ~SchedCreate
    PROVE  PlacementOK' /\ AtMostOneNode'
<1> USE ControlAssumption
<1>1. UNCHANGED <<let, inbox, letCopies, created>>
  BY DEF SchedNext, SchedList, SchedPick, SchedUnplaced, SchedReserve, SchedReload,
         SchedTimeout, SchedFailed, SchedRelease, SchedConfirm, SchedFrame, envVars, nodeVars, letVars
<1>2. Quiet /\ NoNewPlaced
  BY <1>1, SchedQuiet, SamePlaced
<1>3. AtMostOneNode'
  BY <1>2 DEF AtMostOneNode, NoNewPlaced
<1>4. SUFFICES ASSUME NEW s \in Sandboxes
               PROVE  /\ s \notin created => s \notin schedTodo' /\ schedCur' # s
                      /\ Unplaced(s)' => Unplaced(s)
                      /\ schedCur' = s => s \notin schedTodo'
                      /\ schedCur' = s /\ schedPc' \notin {"unplaced", "reserve"} => row'[s].phase # "Pending"
  BY <1>1, <1>2, <1>3, <1>4 DEF PlacementOK, NoNewPlaced, Quiet, Exists
<1> USE DEF PlacementOK, Unplaced, Quiet, Exists, CursorsOK
<1>5. CASE SchedList
  BY <1>1, <1>2, <1>5 DEF SchedList, PendingSandboxes
<1>6. CASE \E t \in Sandboxes : SchedPick(t)
  <2>1. PICK t \in Sandboxes : SchedPick(t)
    BY <1>6
  <2>2. /\ schedPc = "next" /\ t \in schedTodo /\ schedTodo' = schedTodo \ {t}
        /\ schedCur' = t /\ schedPc' \in {"reserve", "unplaced"} /\ row' = row
    <3> HIDE DEF PlacementOK, Unplaced, Quiet, CursorsOK
    <3> QED
      BY <2>1 DEF SchedPick, storeVars
  <2> QED
    BY <1>1, <2>2
<1>7. CASE SchedReturn
  BY <1>1, <1>2, <1>7 DEF SchedReturn
<1>8. CASE SchedReserve /\ SchedGoto("unplaced") /\ UNCHANGED storeVars
  BY <1>1, <1>2, <1>8, SMTT(30) DEF SchedReserve, SchedGoto
<1>9. CASE SchedReserve /\ ReserveSandboxPortsAndSchedule(schedCur, schedNode, schedPorts) /\ SchedGoto("reload")
  BY <1>1, <1>2, <1>9 DEF SchedReserve, ReserveSandboxPortsAndSchedule, SchedGoto, TypeOK, StoreTypeOK
<1>10. CASE SchedReload
  BY <1>1, <1>2, <1>7, <1>10 DEF SchedReload
<1>11. CASE SchedTimeout \/ SchedFailed
  BY <1>1, <1>2, <1>11 DEF SchedTimeout, SchedFailed, SchedGoto
<1> HIDE DEF PlacementOK, Unplaced, Quiet, CursorsOK
<1> QED
  BY <1>5, <1>6, <1>7, <1>8, <1>9, <1>10, <1>11
     DEF SchedNext, SchedUnplaced, SchedReserve, SchedRelease, SchedConfirm

\* The create request: the scheduler places a sandbox that is nowhere else.
LEMMA CreatePlacement ==
    ASSUME TypeOK, CursorsOK, PlacementOK, AtMostOneNode, SchedCreate
    PROVE  PlacementOK' /\ AtMostOneNode'
<1> USE ControlAssumption
<1>1. CASE schedSt.node \notin registered
  <2>1. Quiet /\ NoNewPlaced
    BY <1>1, SameQuiet, SamePlaced DEF SchedCreate, letVars, storeVars
  <2>2. UNCHANGED <<row, created, schedTodo, schedCur>> /\ schedPc = "create" /\ schedPc' = "failed"
    BY <1>1 DEF SchedCreate, SchedGoto, storeVars, SchedFrame, envVars
  <2> QED
    BY <2>1, <2>2 DEF PlacementOK, AtMostOneNode, NoNewPlaced, Unplaced, Exists
<1>2. CASE schedSt.node \in registered
  <2>1. /\ UNCHANGED <<row, let, letCopies, created, schedTodo, schedCur>> /\ schedPc = "create" /\ schedPc' = "await"
        /\ inbox' = inbox \cup {[node |-> schedSt.node, id |-> schedCur, ports |-> schedSt.ports]}
    BY <1>2 DEF SchedCreate, SchedGoto, storeVars, SchedFrame, envVars, letVars
  <2>2. \A n \in Nodes, s \in Sandboxes :
           Placed(n, s)' => Placed(n, s) \/ (s = schedCur /\ n = schedSt.node)
    <3> SUFFICES ASSUME NEW n \in Nodes, NEW s \in Sandboxes, Placed(n, s)', ~Placed(n, s)
                 PROVE  s = schedCur /\ n = schedSt.node
      OBVIOUS
    <3>1. PICK q \in inbox' \cup letCopies : q.node = n /\ q.id = s
      BY <2>1 DEF Placed
    <3>2. q \notin inbox \cup letCopies
      BY <3>1 DEF Placed
    <3> QED
      BY <2>1, <3>1, <3>2
  <2>3. schedCur \in Sandboxes /\ \A n \in Nodes : ~Placed(n, schedCur)
    BY <2>1 DEF CursorsOK, TypeOK, PlacementOK, Unplaced
  <2>4. AtMostOneNode'
    BY <2>2, <2>3 DEF AtMostOneNode
  <2>5. \A s \in Sandboxes : s = schedCur => ~Unplaced(s)'
    BY <2>1, <2>3 DEF Unplaced, PlacementOK
  <2>6. \A s \in Sandboxes \ {schedCur} : Unplaced(s)' => Unplaced(s)
    BY <2>1 DEF Unplaced
  <2>7. \A s \in Sandboxes : Unplaced(s)' => \A n \in Nodes : ~Placed(n, s)'
    BY <2>2, <2>5, <2>6 DEF PlacementOK
  <2> QED
    BY <2>1, <2>4, <2>7 DEF PlacementOK, Exists
<1> QED
  BY <1>1, <1>2

\* Every step keeps PlacementOK and AtMostOneNode if ids are used once.
LEMMA PlacementStep ==
    ASSUME ControlInv, ~ReuseIds, [Next]_vars
    PROVE  PlacementOK' /\ AtMostOneNode'
<1> USE IdAssumption, ControlAssumption
<1>0. TypeOK /\ CursorsOK /\ WorkersDelete /\ FreshCopies /\ PlacementOK /\ AtMostOneNode
  BY DEF ControlInv
<1>1. ASSUME Quiet, NoNewPlaced, UNCHANGED <<created, schedVars>>
      PROVE  PlacementOK' /\ AtMostOneNode'
  BY <1>0, <1>1, PlacementKept DEF schedVars
<1>2. CASE SchedNext
  BY <1>0, <1>2, SchedPlacement, CreatePlacement
<1>3. ASSUME NEW s \in Sandboxes, Create(s)
      PROVE  PlacementOK' /\ AtMostOneNode'
  <2>1. s \notin created /\ created' = created \cup {s} /\ UNCHANGED <<let, inbox, letCopies, schedPc, schedTodo, schedCur>>
    BY <1>3 DEF Create, nodeVars, letVars, schedVars
  <2>2. \A u \in Sandboxes \ {s} : row'[u] = row[u]
    BY <1>0, <1>3 DEF Create, CreateSandbox, TypeOK, StoreTypeOK
  <2>3. AtMostOneNode'
    BY <1>0, <2>1 DEF AtMostOneNode, Placed
  <2>4. \A u \in Sandboxes : Unplaced(u)' => Unplaced(u)
    BY <2>1, <2>2 DEF Unplaced
  <2>5. \A n \in Nodes, u \in Sandboxes : Placed(n, u)' => Placed(n, u)
    BY <2>1 DEF Placed
  <2> QED
    BY <1>0, <2>1, <2>2, <2>3, <2>4, <2>5 DEF PlacementOK, Exists
<1>4. ASSUME NEW w \in Workers, WorkerStep(w)
      PROVE  PlacementOK' /\ AtMostOneNode'
  <2>1. UNCHANGED <<created, schedVars>>
    BY <1>4 DEF WorkerStep, WorkerMark, WorkerCall, WorkerCallFails, WorkerSaveError, WorkerRelease,
                WorkerDeletePorts, WorkerDelete, WorkerFrame, envVars
  <2>2. NoNewPlaced
    <3>1. CASE (WorkerCall(w) /\ wSt[w].node \in registered) \/ WorkerCallFails(w)
      BY <1>0, <3>1, CallPlaced, Zenon DEF WorkerCall, WorkerCallFails, WorkerFrame, TypeOK, CursorsOK
    <3>2. CASE UNCHANGED <<let, inbox, letCopies>>
      BY <3>2, SamePlaced
    <3> QED
      BY <1>4, <3>1, <3>2, SMTT(30) DEF WorkerStep, WorkerMark, WorkerCall, WorkerSaveError, WorkerRelease,
                              WorkerDeletePorts, WorkerDelete, WorkerFrame, letVars
  <2> QED
    BY <1>0, <1>1, <1>4, <2>1, <2>2, WorkerQuiet
<1>5. CASE DetachNext
  <2>1. UNCHANGED <<created, schedVars>>
    BY <1>5 DEF DetachNext, DetachStart, DetachRelease, DetachDrop, DetachDropRow, DetachCall, DetachUpdate,
                DetachPorts, DetachNode, DetachAbort, DetachFrame
  <2>2. NoNewPlaced
    <3>1. CASE DetachCall
      BY <1>0, <3>1, CallPlaced DEF DetachCall, DetachFrame, CursorsOK
    <3>2. CASE UNCHANGED <<let, inbox, letCopies>>
      BY <3>2, SamePlaced
    <3> QED
      BY <1>5, <3>1, <3>2 DEF DetachNext, DetachStart, DetachRelease, DetachDrop, DetachDropRow, DetachUpdate,
                              DetachPorts, DetachNode, DetachAbort, DetachFrame, letVars
  <2> QED
    BY <1>0, <1>1, <1>5, <2>1, <2>2, DetachQuiet
<1>6. CASE \/ \E n \in Nodes : SyncNext(n)
           \/ \E s \in Sandboxes : IpRead(s) \/ IpWrite(s)
  <2>1. UNCHANGED <<let, inbox, letCopies, created, schedVars>>
    BY <1>6, Zenon DEF SyncNext, SyncList, SyncQuery, SyncQueryFails, SyncRead, SyncWrite, SyncFrame,
                IpRead, IpWrite, IpFrame, envVars, nodeVars, letVars
  <2>2. Quiet
    BY <1>0, <1>6, SyncQuiet, IpQuiet
  <2> QED
    BY <1>1, <2>1, <2>2, SamePlaced
<1>7. ASSUME NEW n \in Nodes, NEW s \in Sandboxes, LetProgress(n, s)
      PROVE  PlacementOK' /\ AtMostOneNode'
  <2>1. \A m \in Nodes, u \in Sandboxes : let[m][u] = "absent" => let'[m][u] = "absent"
    <3>1. let[n][s] # "absent" /\ \E p \in LetPhases : let' = [let EXCEPT ![n][s] = p]
      BY <1>7 DEF LetProgress, LetSet, LetPhases
    <3> QED
      BY <1>0, <3>1 DEF TypeOK
  <2>2. NoNewPlaced
    BY <1>7, <2>1 DEF LetProgress, NoNewPlaced, Placed
  <2> QED
    BY <1>1, <1>7, <2>2, SameQuiet DEF LetProgress, storeVars, envVars
<1>8. ASSUME NEW q \in inbox, LetCreate(q)
      PROVE  PlacementOK' /\ AtMostOneNode'
  <2>1. q.node \in Nodes /\ q.id \in Sandboxes
    BY <1>0 DEF TypeOK, Request
  <2>2. \A m \in Nodes, u \in Sandboxes :
           let[m][u] = "absent" /\ let'[m][u] # "absent" => m = q.node /\ u = q.id
    <3>1. let' = let \/ let' = [let EXCEPT ![q.node][q.id] = "creating"]
      BY <1>8 DEF LetCreate, letVars
    <3>2. let \in [Nodes -> [Sandboxes -> LetPhases]]
      BY <1>0 DEF TypeOK
    <3> QED
      BY <2>1, <3>1, <3>2
  <2>3. inbox' \cup letCopies' \subseteq inbox \cup letCopies
    BY <1>8, SMTT(30) DEF LetCreate
  <2>4. NoNewPlaced
    BY <2>2, <2>3, Zenon DEF NoNewPlaced, Placed
  <2>5. Quiet /\ UNCHANGED <<created, schedTodo, schedCur>>
    BY <1>8, SameQuiet DEF LetCreate, storeVars, envVars
  <2>6. schedPc' = schedPc \/ (schedPc = "await" /\ schedPc' \in {"confirm", "failed"})
    <3>1. \/ schedPc' \in {schedPc} \cup (IF Waiting(q.node, q.id) THEN {"confirm"} ELSE {})
          \/ schedPc' \in {schedPc} \cup (IF Waiting(q.node, q.id) THEN {"failed"} ELSE {})
      BY <1>8, Zenon DEF LetCreate
    <3> QED
      BY <3>1 DEF Waiting
  <2> QED
    BY <1>0, <2>4, <2>5, <2>6, PlacementKept
<1>9. CASE Crash
  <2>1. Quiet /\ NoNewPlaced /\ UNCHANGED created /\ schedCur' = NoSandbox /\ schedTodo' = {} /\ UNCHANGED row
    BY <1>9, SamePlaced DEF Crash, Quiet, nodeVars, letVars
  <2> QED
    BY <1>0, <2>1, SMTT(30) DEF PlacementOK, AtMostOneNode, NoNewPlaced, Unplaced, Exists
<1>10. CASE \/ \E s \in Sandboxes : Expire(s)
            \/ \E n \in Nodes : RegisterNode(n)
            \/ \E w \in Deleters, s \in Sandboxes : DeleteStart(w, s)
            \/ \E w \in Deleters : DeleteAbort(w)
            \/ ReconcileList
            \/ \E s \in Sandboxes : ReconcilePick(s)
            \/ UNCHANGED vars
  <2>1. UNCHANGED <<row, seen, let, inbox, letCopies, created, schedVars>>
    BY <1>10 DEF Expire, RegisterNode, DeleteStart, DeleteAbort, ReconcileList,
                ReconcilePick, WorkerFrame, vars, storeVars, envVars, nodeVars, letVars
  <2> QED
    BY <1>1, <2>1, SamePlaced, SameQuiet, SMTT(30)
<1>11. ASSUME NEW q \in letCopies, LetRevive(q)
       PROVE  PlacementOK' /\ AtMostOneNode'
  <2>1. q.node \in Nodes /\ q.id \in Sandboxes
    BY <1>0 DEF TypeOK, Request
  <2>2. \A m \in Nodes, u \in Sandboxes :
           let[m][u] = "absent" /\ let'[m][u] # "absent" => m = q.node /\ u = q.id
    <3>1. \E p \in LetPhases : let' = [let EXCEPT ![q.node][q.id] = p]
      BY <1>11 DEF LetRevive, LetPhases
    <3>2. let \in [Nodes -> [Sandboxes -> LetPhases]]
      BY <1>0 DEF TypeOK
    <3> QED
      BY <2>1, <3>1, <3>2
  <2>3. UNCHANGED <<inbox, letCopies>>
    BY <1>11 DEF LetRevive
  <2>4. NoNewPlaced
    BY <2>2, <2>3, Zenon DEF NoNewPlaced, Placed
  <2> QED
    BY <1>1, <1>11, <2>4, SameQuiet DEF LetRevive, storeVars, envVars
<1> QED
  BY <1>2, <1>3, <1>4, <1>5, <1>6, <1>7, <1>8, <1>9, <1>10, <1>11 DEF Next, ReconcileNext, Workers

-----------------------------------------------------------------------------
(* The ports the scheduler has chosen.                                     *)

\* A step that adds no reservation and does not bring the scheduler to its
\* reservation keeps PickedPortsFree.
LEMMA PickKept ==
    ASSUME PickedPortsFree, resv' \subseteq resv, schedPc' = "reserve" => schedPc = "reserve",
           UNCHANGED <<schedNode, schedPorts>>
    PROVE  PickedPortsFree'
BY DEF PickedPortsFree

\* The store operations other than the reservation add no reservation.
LEMMA NoNewReservation ==
    ASSUME NEW s, NEW st, NEW r,
           \/ UpdateSandboxStatus(s, st) \/ UpdateSandboxStatusIfUnchanged(r, s, st)
           \/ ReleaseSandboxPorts(s) \/ DeleteSandboxPorts(s) \/ DeleteSandboxRow(s)
           \/ CreateSandbox(s) \/ GetSandbox(r, s) \/ DeleteNodePorts(r) \/ UNCHANGED storeVars
    PROVE  resv' \subseteq resv
BY DEF UpdateSandboxStatus, UpdateSandboxStatusIfUnchanged, ReleaseSandboxPorts, DeleteSandboxPorts,
       DeleteSandboxRow, CreateSandbox, GetSandbox, DeleteNodePorts, storeVars

\* The scheduler keeps PickedPortsFree: it chooses free ports, and leaves the
\* reservation step when it reserves.
LEMMA SchedPicks ==
    ASSUME PickedPortsFree, SchedNext
    PROVE  PickedPortsFree'
<1>1. CASE \E s \in Sandboxes : SchedPick(s)
  BY <1>1 DEF SchedPick, PickedPortsFree, NodeUsedHostPorts, storeVars
<1>2. CASE ~\E s \in Sandboxes : SchedPick(s)
  <2>1. schedPc' # "reserve"
    BY <1>2 DEF SchedNext, SchedList, SchedUnplaced, SchedReserve, SchedReload, SchedCreate, SchedTimeout,
                SchedFailed, SchedRelease, SchedConfirm, SchedReturn, SchedGoto
  <2> QED
    BY <2>1 DEF PickedPortsFree
<1> QED
  BY <1>1, <1>2

\* Every step keeps PickedPortsFree.
LEMMA PickStep ==
    ASSUME PickedPortsFree, [Next]_vars
    PROVE  PickedPortsFree'
<1>1. ASSUME UNCHANGED schedVars, resv' \subseteq resv
      PROVE  PickedPortsFree'
  BY <1>1, PickKept DEF schedVars
<1>2. ASSUME NEW w \in Workers, WorkerStep(w)
      PROVE  PickedPortsFree'
  <2>1. UNCHANGED schedVars
    BY <1>2 DEF WorkerStep, WorkerMark, WorkerCall, WorkerCallFails, WorkerSaveError, WorkerRelease,
                WorkerDeletePorts, WorkerDelete, WorkerFrame
  <2>2. resv' \subseteq resv
    BY <1>2, NoNewReservation DEF WorkerStep, WorkerMark, WorkerCall, WorkerCallFails, WorkerSaveError,
                WorkerRelease, WorkerDeletePorts, WorkerDelete
  <2> QED
    BY <1>1, <2>1, <2>2
<1>3. CASE DetachNext
  <2>1. UNCHANGED schedVars
    BY <1>3 DEF DetachNext, DetachStart, DetachRelease, DetachDrop, DetachDropRow, DetachCall,
                DetachUpdate, DetachPorts, DetachNode, DetachAbort, DetachFrame
  <2>2. resv' \subseteq resv
    BY <1>3, NoNewReservation DEF DetachNext, DetachStart, DetachRelease, DetachDrop, DetachDropRow,
                DetachCall, DetachUpdate, DetachPorts, DetachNode, DetachAbort
  <2> QED
    BY <1>1, <2>1, <2>2
<1>4. CASE \/ \E n \in Nodes : SyncNext(n)
           \/ \E s \in Sandboxes : IpRead(s) \/ IpWrite(s)
  <2>1. UNCHANGED schedVars
    BY <1>4, Zenon DEF SyncNext, SyncList, SyncQuery, SyncQueryFails, SyncRead, SyncWrite, SyncFrame,
                IpRead, IpWrite, IpFrame
  <2>2. resv' \subseteq resv
    BY <1>4, NoNewReservation, Zenon DEF SyncNext, SyncList, SyncQuery, SyncQueryFails, SyncRead,
                SyncWrite, IpRead, IpWrite
  <2> QED
    BY <1>1, <2>1, <2>2
<1>5. CASE \/ \E s \in Sandboxes : Create(s) \/ Expire(s)
           \/ \E n \in Nodes : RegisterNode(n)
           \/ \E n \in Nodes, s \in Sandboxes : LetProgress(n, s)
           \/ \E q \in letCopies : LetRevive(q)
           \/ \E w \in Deleters, s \in Sandboxes : DeleteStart(w, s)
           \/ \E w \in Deleters : DeleteAbort(w)
           \/ ReconcileList
           \/ \E s \in Sandboxes : ReconcilePick(s)
           \/ UNCHANGED vars
  <2>1. UNCHANGED schedVars
    BY <1>5, Zenon DEF Create, Expire, RegisterNode, LetProgress, LetRevive, DeleteStart, DeleteAbort,
                ReconcileList, ReconcilePick, WorkerFrame, vars
  <2>2. resv' \subseteq resv
    BY <1>5, NoNewReservation, Zenon DEF Create, Expire, RegisterNode, LetProgress, LetRevive, DeleteStart,
                DeleteAbort, ReconcileList, ReconcilePick, vars
  <2> QED
    BY <1>1, <2>1, <2>2
<1>6. ASSUME NEW q \in inbox, LetCreate(q)
      PROVE  PickedPortsFree'
  <2>1. schedPc' \in {schedPc, "confirm", "failed"}
    BY <1>6, Zenon DEF LetCreate
  <2>2. UNCHANGED <<resv, schedNode, schedPorts>>
    BY <1>6 DEF LetCreate, storeVars
  <2> QED
    BY <2>1, <2>2, PickKept
<1>7. CASE Crash
  BY <1>7 DEF Crash, PickedPortsFree
<1> QED
  BY <1>2, <1>3, <1>4, <1>5, <1>6, <1>7, SchedPicks DEF Next, ReconcileNext, Workers

-----------------------------------------------------------------------------
(* The theorems.                                                           *)

\* ControlInv is an invariant of the orchestrator: it holds initially and every
\* step of every workflow, node and client keeps it.
THEOREM ControlInvariance == Spec => []ControlInv
<1>1. Init => ControlInv
  BY InitInv
<1>2. ControlInv /\ [Next]_vars => ControlInv'
  <2> SUFFICES ASSUME ControlInv, [Next]_vars PROVE ControlInv'
    OBVIOUS
  <2>1. TypeOK' /\ CursorsOK'
    BY TypeStep DEF ControlInv
  <2>2. WorkersDelete'
    BY WorkersDeleteStep DEF ControlInv
  <2>3. FreshCopies'
    BY FreshStep DEF ControlInv
  <2>4. ~ReuseIds => PlacementOK' /\ AtMostOneNode'
    BY PlacementStep
  <2> QED
    BY <2>1, <2>2, <2>3, <2>4 DEF ControlInv
<1> QED
  BY <1>1, <1>2, PTL DEF Spec

\* Type correctness of the tables and of every thread (TypeOK).
THEOREM TypeCorrect == Spec => []TypeOK
<1>1. ControlInv => TypeOK
  BY DEF ControlInv
<1> QED
  BY <1>1, ControlInvariance, PTL

\* If ids are used once, a sandbox is on at most one node, requests under way
\* included, for any number of nodes, sandboxes, removals and restarts: scheduleOne
\* sends one create request per row, because a row never becomes Pending again.
THEOREM OneNodePerSandbox ==
    ASSUME ~ReuseIds
    PROVE  Spec => []AtMostOneNode
<1>1. ControlInv => AtMostOneNode
  BY DEF ControlInv
<1> QED
  BY <1>1, ControlInvariance, PTL

\* A deleted row stays deleted: every status write of every workflow is an UPDATE
\* that has no effect on a missing row, so only POST /sandboxes creates one.
THEOREM DeletedStaysDeleted == Spec => GoneStaysGone
<1>1. ASSUME ControlInv, [Next]_vars
      PROVE  [\A s \in Sandboxes :
                 ~Exists(s) /\ Exists(s)' => row'[s] = NewSandbox /\ (ReuseIds \/ s \notin created)]_vars
  <2>0. TypeOK /\ CursorsOK /\ WorkersDelete /\ FreshCopies
    BY <1>1 DEF ControlInv
  <2>1. ASSUME NEW t \in Sandboxes, Create(t)
        PROVE  \A s \in Sandboxes :
                  ~Exists(s) /\ Exists(s)' => row'[s] = NewSandbox /\ (ReuseIds \/ s \notin created)
    BY <2>0, <2>1 DEF Create, CreateSandbox, Exists, TypeOK, StoreTypeOK
  <2>2. CASE Quiet
    BY <2>2, SMTT(30) DEF Quiet, Exists
  <2>3. CASE \/ SchedNext \/ DetachNext
             \/ \E w \in Workers : WorkerStep(w)
             \/ \E n \in Nodes : SyncNext(n)
             \/ \E s \in Sandboxes : IpRead(s) \/ IpWrite(s)
    BY <2>0, <2>2, <2>3, SchedQuiet, DetachQuiet, WorkerQuiet, SyncQuiet, IpQuiet
  <2>4. CASE \/ \E s \in Sandboxes : Expire(s)
             \/ \E n \in Nodes : RegisterNode(n)
             \/ \E n \in Nodes, s \in Sandboxes : LetProgress(n, s)
             \/ \E q \in inbox : LetCreate(q)
             \/ \E q \in letCopies : LetRevive(q)
             \/ \E w \in Deleters, s \in Sandboxes : DeleteStart(w, s)
             \/ \E w \in Deleters : DeleteAbort(w)
             \/ ReconcileList
             \/ \E s \in Sandboxes : ReconcilePick(s)
             \/ Crash
    <3>1. UNCHANGED row
      BY <2>4, Zenon DEF Expire, RegisterNode, LetProgress, LetCreate, LetRevive, DeleteStart,
                  DeleteAbort, ReconcileList, ReconcilePick, Crash, storeVars
    <3> QED
      BY <3>1 DEF Exists
  <2> QED
    BY <1>1, <2>1, <2>3, <2>4 DEF Next, ReconcileNext, Workers
<1> QED
  BY <1>1, ControlInvariance, PTL DEF Spec, GoneStaysGone

\* Status sync and the IP refresher never write over Deleting: their conditional
\* update succeeds only on the row they read, and they skip rows being deleted.
THEOREM SyncRespectsDeleting == Spec => SyncKeepsDeleting
<1>1. ASSUME ControlInv, [Next]_vars
      PROVE  [(\E n \in Nodes : SyncWrite(n)) \/ (\E s \in Sandboxes : IpWrite(s))
                => \A s \in Sandboxes : row[s].phase = "Deleting" => row'[s] = row[s]]_vars
  BY <1>1, SyncQuiet, IpQuiet, Zenon DEF ControlInv, SyncNext
<1> QED
  BY <1>1, ControlInvariance, PTL DEF Spec, SyncKeepsDeleting

\* The ports scheduleOne chose are free when they are reserved, for any number of
\* sandboxes, nodes and ports, removals and restarts, ids reused or not: a
\* reservation is refused only when its sandbox row is gone.
THEOREM PicksStayFree == Spec => []PickedPortsFree
<1>1. Init => PickedPortsFree
  BY DEF Init, ThreadsInit, PickedPortsFree
<1>2. PickedPortsFree /\ [Next]_vars => PickedPortsFree'
  BY PickStep
<1> QED
  BY <1>1, <1>2, PTL DEF Spec

=============================================================================
