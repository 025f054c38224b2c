------------------------ MODULE SandboxFreshProofs -------------------------
(***************************************************************************)
(* SandboxControl: what steps do to the rows and to the copies that the    *)
(* conditional writes rely on (FreshCopies).                               *)
(***************************************************************************)
EXTENDS SandboxTypeProofs

(* What almost every step does to the rows: no row appears or becomes      *)
(* Pending, and a pair that is still in `seen` is of an untouched row.     *)

Quiet ==
    /\ \A s \in Sandboxes : row'[s].phase = "Pending" => row[s].phase = "Pending"
    /\ \A s \in Sandboxes : row[s].phase = "None" => row'[s].phase = "None"

KeepsFresh ==
    \A r \in Readers, s \in Sandboxes :
        <<r, s>> \in seen' => <<r, s>> \in seen /\ row'[s] = row[s]

\* An update whose status is not Pending, unless the row is, is quiet.
LEMMA UpdateQuiet ==
    ASSUME StoreTypeOK, NEW s \in Sandboxes, NEW st \in Status, UpdateSandboxStatus(s, st),
           st.phase = "Pending" => row[s].phase = "Pending"
    PROVE  Quiet /\ KeepsFresh
BY DEF StoreTypeOK, UpdateSandboxStatus, Touch, Exists, Quiet, KeepsFresh

\* Deleting the row of a sandbox is quiet.
LEMMA DeleteQuiet ==
    ASSUME StoreTypeOK, NEW s \in Sandboxes, DeleteSandboxRow(s)
    PROVE  Quiet /\ KeepsFresh
BY DEF StoreTypeOK, DeleteSandboxRow, Touch, Gone, Quiet, KeepsFresh

\* A reservation that commits finds a row and makes it Scheduled: it is quiet.
LEMMA ReserveQuiet ==
    ASSUME StoreTypeOK, NEW s \in Sandboxes, NEW n \in Nodes, NEW P \in SUBSET HostPorts,
           ReserveSandboxPortsAndSchedule(s, n, P)
    PROVE  Quiet /\ KeepsFresh
BY DEF StoreTypeOK, ReserveSandboxPortsAndSchedule, Touch, Exists, Quiet, KeepsFresh

\* A step that leaves the rows and `seen` alone is quiet.
LEMMA SameQuiet ==
    ASSUME UNCHANGED <<row, seen>>
    PROVE  Quiet /\ KeepsFresh
BY DEF Quiet, KeepsFresh

\* The scheduler writes Failed and Scheduled only, and only to rows that exist.
LEMMA SchedQuiet ==
    ASSUME TypeOK, CursorsOK, SchedNext
    PROVE  Quiet /\ KeepsFresh
<1> USE IdAssumption, ControlAssumption, GoneType
<1>0. StoreTypeOK /\ schedPc \in SchedPcs /\ (schedPc \notin {"idle", "next"} => schedCur \in Sandboxes)
  BY DEF TypeOK, CursorsOK
<1>1. CASE SchedList \/ (\E s \in Sandboxes : SchedPick(s)) \/ SchedReload \/ SchedCreate
           \/ SchedTimeout \/ SchedRelease
  BY <1>1, SameQuiet DEF SchedList, SchedPick, SchedReload, SchedCreate, SchedTimeout, SchedRelease,
                         ReleaseSandboxPorts, storeVars
<1>2. CASE SchedUnplaced
  BY <1>0, <1>2, UpdateQuiet, PhaseType, Zenon DEF SchedUnplaced, NewSandbox, Phases
<1>3. CASE SchedReserve
  BY <1>0, <1>3, ReserveQuiet, SameQuiet DEF SchedReserve, storeVars, TypeOK, CursorsOK
<1>4. ASSUME NEW p \in {"Failed", "Scheduled"}, schedPc \notin {"idle", "next"},
             UpdateSandboxStatus(schedCur, [schedSt EXCEPT !.phase = p])
      PROVE  Quiet /\ KeepsFresh
  <2>1. schedSt \in Status /\ p \in Phases
    BY DEF TypeOK, Phases
  <2>2. [schedSt EXCEPT !.phase = p] \in Status /\ [schedSt EXCEPT !.phase = p].phase # "Pending"
    BY <2>1, PhaseType DEF Status
  <2> QED
    BY <1>0, <1>4, <2>2, UpdateQuiet, Zenon
<1>5. CASE SchedFailed \/ SchedConfirm
  BY <1>4, <1>5 DEF SchedFailed, SchedConfirm
<1> QED
  BY <1>1, <1>2, <1>3, <1>5 DEF SchedNext

\* A delete worker writes Deleting only.
LEMMA WorkerQuiet ==
    ASSUME TypeOK, CursorsOK, WorkersDelete, NEW w \in Workers, WorkerStep(w)
    PROVE  Quiet /\ KeepsFresh
<1>0. StoreTypeOK /\ wSt[w] \in Status /\ (wPc[w] \notin {"idle", "next"} => wCur[w] \in Sandboxes)
  BY DEF TypeOK, CursorsOK
<1>1. CASE WorkerMark(w)
  <2>1. /\ [wSt[w] EXCEPT !.phase = "Deleting"] \in Status
        /\ [wSt[w] EXCEPT !.phase = "Deleting"].phase # "Pending"
    BY <1>0, PhaseType, Zenon DEF Status, Phases
  <2> QED
    BY <1>0, <1>1, <2>1, UpdateQuiet, Zenon DEF WorkerMark
<1>2. CASE WorkerSaveError(w)
  BY <1>0, <1>2, UpdateQuiet DEF WorkerSaveError, WorkersDelete
<1>3. CASE WorkerDelete(w)
  BY <1>0, <1>3, DeleteQuiet DEF WorkerDelete
<1>4. CASE WorkerCall(w) \/ WorkerCallFails(w) \/ WorkerRelease(w) \/ WorkerDeletePorts(w)
  BY <1>4, SameQuiet DEF WorkerCall, WorkerCallFails, WorkerRelease, WorkerDeletePorts,
                         ReleaseSandboxPorts, DeleteSandboxPorts, storeVars
<1> QED
  BY <1>1, <1>2, <1>3, <1>4 DEF WorkerStep

\* Node removal writes Failed, or removes rows.
LEMMA DetachQuiet ==
    ASSUME TypeOK, CursorsOK, DetachNext
    PROVE  Quiet /\ KeepsFresh
<1>0. StoreTypeOK /\ (dPc \in {"drop", "dropRow", "call", "update"} => dCur \in Sandboxes)
  BY DEF TypeOK, CursorsOK
<1>1. CASE DetachDropRow
  BY <1>0, <1>1, DeleteQuiet DEF DetachDropRow
<1>2. CASE DetachUpdate
  BY <1>0, <1>2, UpdateQuiet, PhaseType, GoneType, Zenon DEF DetachUpdate, NewSandbox, Phases
<1>3. CASE \/ \E n \in Nodes, force \in BOOLEAN : DetachStart(n, force)
           \/ \E s \in Sandboxes : DetachRelease(s)
           \/ DetachDrop \/ DetachCall \/ DetachPorts \/ DetachNode \/ DetachAbort
  BY <1>3, SameQuiet DEF DetachStart, DetachRelease, DetachDrop, DetachCall, DetachPorts, DetachNode,
                         DetachAbort, ReleaseSandboxPorts, DeleteSandboxPorts, DeleteNodePorts, storeVars
<1> QED
  BY <1>1, <1>2, <1>3 DEF DetachNext

\* A conditional write does not touch a row that is gone or being deleted.
LEMMA SyncQuiet ==
    ASSUME TypeOK, CursorsOK, FreshCopies, NEW n \in Nodes, SyncNext(n)
    PROVE  /\ Quiet
           /\ SyncWrite(n) => KeepsFresh
           /\ SyncWrite(n) => \A s \in Sandboxes : row[s].phase = "Deleting" => row'[s] = row[s]
<1>1. CASE SyncList(n) \/ SyncQuery(n) \/ SyncQueryFails(n) \/ \E s \in Sandboxes : SyncRead(n, s)
  <2>1. UNCHANGED row
    BY <1>1, Zenon DEF SyncList, SyncQuery, SyncQueryFails, SyncRead, GetSandbox, storeVars
  <2>2. yPc[n] # "write"
    BY <1>1, Zenon DEF SyncList, SyncQuery, SyncQueryFails, SyncRead
  <2> QED
    BY <2>1, <2>2 DEF Quiet, SyncWrite
<1>2. CASE SyncWrite(n)
  <2>1. StoreTypeOK /\ yCur[n] \in Sandboxes /\ ySt[n] \in Status
    BY <1>2 DEF SyncWrite, TypeOK, CursorsOK
  <2>2. CASE Exists(yCur[n]) /\ <<n, yCur[n]>> \in seen
    <3>1. UpdateSandboxStatus(yCur[n], ySt[n])
      BY <1>2, <2>2 DEF SyncWrite, UpdateSandboxStatusIfUnchanged
    <3>2. /\ row[yCur[n]].phase # "Deleting"
          /\ ySt[n].phase = "Pending" => row[yCur[n]].phase = "Pending"
      BY <1>2, <2>2 DEF SyncWrite, FreshCopies
    <3>3. Quiet /\ KeepsFresh
      BY <2>1, <3>1, <3>2, UpdateQuiet
    <3>4. \A s \in Sandboxes : row[s].phase = "Deleting" => row'[s] = row[s]
      BY <2>1, <3>1, <3>2 DEF UpdateSandboxStatus, StoreTypeOK
    <3> QED
      BY <3>3, <3>4
  <2>3. CASE ~(Exists(yCur[n]) /\ <<n, yCur[n]>> \in seen)
    BY <1>2, <2>3, SameQuiet DEF SyncWrite, UpdateSandboxStatusIfUnchanged, storeVars
  <2> QED
    BY <2>2, <2>3
<1> QED
  BY <1>1, <1>2 DEF SyncNext

\* The same of the IP refresher, which writes the phase it read.
LEMMA IpQuiet ==
    ASSUME TypeOK, CursorsOK, FreshCopies, NEW t \in Sandboxes, IpRead(t) \/ IpWrite(t)
    PROVE  /\ Quiet
           /\ IpWrite(t) => KeepsFresh
           /\ IpWrite(t) => \A s \in Sandboxes : row[s].phase = "Deleting" => row'[s] = row[s]
<1>1. CASE IpRead(t)
  BY <1>1 DEF IpRead, IpWrite, GetSandbox, storeVars, Quiet
<1>2. CASE IpWrite(t)
  <2>1. StoreTypeOK /\ ipSt[t] \in Status
    BY DEF TypeOK
  <2>2. CASE Exists(t) /\ <<t, t>> \in seen
    <3>1. UpdateSandboxStatus(t, ipSt[t])
      BY <1>2, <2>2 DEF IpWrite, UpdateSandboxStatusIfUnchanged
    <3>2. row[t].phase # "Deleting" /\ row[t] = ipSt[t]
      BY <1>2, <2>2 DEF IpWrite, FreshCopies
    <3>3. Quiet /\ KeepsFresh
      BY <2>1, <3>1, <3>2, UpdateQuiet
    <3>4. \A s \in Sandboxes : row[s].phase = "Deleting" => row'[s] = row[s]
      BY <2>1, <3>1, <3>2 DEF UpdateSandboxStatus, StoreTypeOK
    <3> QED
      BY <3>3, <3>4
  <2>3. CASE ~(Exists(t) /\ <<t, t>> \in seen)
    BY <1>2, <2>3, SameQuiet DEF IpWrite, UpdateSandboxStatusIfUnchanged, storeVars
  <2> QED
    BY <2>2, <2>3
<1> QED
  BY <1>1, <1>2

-----------------------------------------------------------------------------
(* FreshCopies.                                                            *)

\* A step that starts no conditional write keeps FreshCopies.
LEMMA FreshKept ==
    ASSUME TypeOK, CursorsOK, FreshCopies, KeepsFresh,
           \A n \in Nodes : yPc'[n] = "write" => yPc[n] = "write" /\ yCur'[n] = yCur[n] /\ ySt'[n] = ySt[n],
           \A s \in Sandboxes : ipPc'[s] = "write" => ipPc[s] = "write" /\ ipSt'[s] = ipSt[s]
    PROVE  FreshCopies'
BY DEF FreshCopies, KeepsFresh, CursorsOK, Readers

\* Going on with a status-sync batch starts no conditional write.
LEMMA SyncAdvanceNoWrite ==
    ASSUME TypeOK, NEW n \in Nodes, NEW s, SyncAdvance(n, s) \/ SyncReturn(n)
    PROVE  \A m \in Nodes : yPc'[m] = "write" => yPc[m] = "write" /\ yCur'[m] = yCur[m] /\ ySt'[m] = ySt[m]
BY DEF TypeOK, SyncAdvance, SyncReturn

\* Status sync keeps FreshCopies: the copy it takes is of the row as it is.
LEMMA SyncFresh ==
    ASSUME TypeOK, CursorsOK, FreshCopies, NEW n \in Nodes, SyncNext(n)
    PROVE  FreshCopies'
<1> USE IdAssumption
<1>0. UNCHANGED ipVars
  BY Zenon DEF SyncNext, SyncList, SyncQuery, SyncQueryFails, SyncRead, SyncWrite, SyncFrame
<1>1. CASE SyncList(n) \/ SyncQuery(n)
  <2>1. KeepsFresh
    BY <1>1, SameQuiet DEF SyncList, SyncQuery, storeVars
  <2>2. \A m \in Nodes : yPc'[m] = "write" => yPc[m] = "write" /\ yCur'[m] = yCur[m] /\ ySt'[m] = ySt[m]
    BY <1>1 DEF SyncList, SyncQuery, TypeOK
  <2> QED
    BY <1>0, <2>1, <2>2, FreshKept DEF ipVars
<1>2. CASE SyncQueryFails(n)
  <2>1. KeepsFresh
    BY <1>2, SameQuiet DEF SyncQueryFails, storeVars
  <2>2. SyncReturn(n)
    BY <1>2 DEF SyncQueryFails
  <2> QED
    BY <1>0, <2>1, <2>2, FreshKept, SyncAdvanceNoWrite DEF ipVars
<1>3. CASE SyncWrite(n)
  <2>1. KeepsFresh
    BY <1>3, SyncQuiet
  <2>2. SyncAdvance(n, yCur[n])
    BY <1>3 DEF SyncWrite
  <2> QED
    BY <1>0, <2>1, <2>2, FreshKept, SyncAdvanceNoWrite DEF ipVars
<1>4. ASSUME NEW s \in Sandboxes, SyncRead(n, s)
      PROVE  FreshCopies'
  <2>1. CASE SyncAdvance(n, s) /\ UNCHANGED storeVars
    <3>1. KeepsFresh
      BY <2>1, SameQuiet DEF storeVars
    <3> QED
      BY <1>0, <2>1, <3>1, FreshKept, SyncAdvanceNoWrite DEF ipVars
  <2> DEFINE next == [row[s] EXCEPT !.phase = MergePhase(row[s].phase, yReport[n][s])]
  <2>2. CASE /\ ~SyncSkips(row[s], yReport[n][s])
             /\ yPc' = [yPc EXCEPT ![n] = "write"]
             /\ yCur' = [yCur EXCEPT ![n] = s]
             /\ ySt' = [ySt EXCEPT ![n] = next]
             /\ GetSandbox(n, s)
    <3>1. row[s] \in Status
      BY DEF TypeOK, StoreTypeOK
    <3>2. next.phase = MergePhase(row[s].phase, yReport[n][s])
      BY <3>1 DEF Status
    <3>3. next.phase = "Pending" => row[s].phase = "Pending"
      BY <3>2 DEF MergePhase
    <3>4. row[s].phase \notin {"None", "Deleting"}
      BY <2>2 DEF SyncSkips
    <3> HIDE DEF next
    <3>5. UNCHANGED row /\ \A r \in Readers, u \in Sandboxes : <<r, u>> \in seen' => r = n \/ <<r, u>> \in seen
      BY <2>2 DEF GetSandbox
    <3>6. /\ yPc'[n] = "write" /\ yCur'[n] = s /\ ySt'[n] = next
          /\ \A m \in Nodes \ {n} : yPc'[m] = yPc[m] /\ yCur'[m] = yCur[m] /\ ySt'[m] = ySt[m]
      BY <2>2 DEF TypeOK
    <3>7. \A m \in Nodes : yPc'[m] = "write" => yCur'[m] \in Sandboxes
      BY <3>6 DEF CursorsOK
    <3> QED
      BY <1>0, <3>3, <3>4, <3>5, <3>6, <3>7 DEF FreshCopies, Readers, ipVars
  <2> QED
    BY <1>4, <2>1, <2>2 DEF SyncRead
<1> QED
  BY <1>1, <1>2, <1>3, <1>4 DEF SyncNext

\* The IP refresher keeps FreshCopies.
LEMMA IpFresh ==
    ASSUME TypeOK, CursorsOK, FreshCopies, NEW t \in Sandboxes, IpRead(t) \/ IpWrite(t)
    PROVE  FreshCopies'
<1> USE IdAssumption
<1>0. UNCHANGED yVars
  BY SMTT(30) DEF IpRead, IpWrite, IpFrame
<1>1. CASE IpReturn(t)
  <2>1. KeepsFresh
    BY <1>1, SameQuiet, IpQuiet, Zenon DEF IpRead, storeVars, IpReturn, TypeOK
  <2>2. \A s \in Sandboxes : ipPc'[s] = "write" => ipPc[s] = "write" /\ ipSt'[s] = ipSt[s]
    BY <1>1 DEF IpReturn, TypeOK
  <2> QED
    BY <1>0, <2>1, <2>2, FreshKept DEF yVars
<1>2. CASE /\ Exists(t)
           /\ row[t].phase # "Deleting"
           /\ GetSandbox(t, t)
           /\ ipSt' = [ipSt EXCEPT ![t] = row[t]]
           /\ ipPc' = [ipPc EXCEPT ![t] = "write"]
  <2>1. UNCHANGED row /\ \A r \in Readers, u \in Sandboxes : <<r, u>> \in seen' => r = t \/ <<r, u>> \in seen
    BY <1>2 DEF GetSandbox
  <2>2. /\ ipSt'[t] = row[t]
        /\ \A s \in Sandboxes \ {t} : ipPc'[s] = ipPc[s] /\ ipSt'[s] = ipSt[s]
    BY <1>2 DEF TypeOK
  <2> QED
    BY <1>0, <1>2, <2>1, <2>2, Zenon DEF FreshCopies, Readers, yVars, Exists, CursorsOK
<1> QED
  BY <1>1, <1>2, SMTT(30) DEF IpRead, IpWrite

\* Every step keeps FreshCopies: whoever writes a row invalidates its copies.
LEMMA FreshStep ==
    ASSUME TypeOK, CursorsOK, WorkersDelete, FreshCopies, [Next]_vars
    PROVE  FreshCopies'
<1>1. CASE SchedNext
  <2>1. UNCHANGED <<yVars, ipSt>> /\ \A s \in Sandboxes : ipPc'[s] = "write" => ipPc[s] = "write"
    BY <1>1 DEF SchedNext, SchedList, SchedPick, SchedUnplaced, SchedReserve, SchedReload, SchedCreate,
                SchedTimeout, SchedFailed, SchedRelease, SchedConfirm, SchedFrame, ipVars, TypeOK
  <2> QED
    BY <1>1, <2>1, SchedQuiet, FreshKept DEF yVars
<1>2. ASSUME KeepsFresh, UNCHANGED <<yVars, ipVars>>
      PROVE  FreshCopies'
  BY <1>2, FreshKept DEF yVars, ipVars
<1>3. ASSUME NEW w \in Workers, WorkerStep(w)
      PROVE  FreshCopies'
  <2>1. UNCHANGED <<yVars, ipVars>>
    BY <1>3 DEF WorkerStep, WorkerMark, WorkerCall, WorkerCallFails, WorkerSaveError, WorkerRelease,
                WorkerDeletePorts, WorkerDelete, WorkerFrame
  <2> QED
    BY <1>2, <1>3, <2>1, WorkerQuiet
<1>4. CASE DetachNext
  <2>1. UNCHANGED <<yVars, ipVars>>
    BY <1>4 DEF DetachNext, DetachStart, DetachRelease, DetachDrop, DetachDropRow, DetachCall,
                DetachUpdate, DetachPorts, DetachNode, DetachAbort, DetachFrame
  <2> QED
    BY <1>2, <1>4, <2>1, DetachQuiet
<1>5. ASSUME NEW s \in Sandboxes, Create(s)
      PROVE  FreshCopies'
  <2>1. KeepsFresh
    BY <1>5 DEF Create, CreateSandbox, Touch, KeepsFresh, TypeOK, StoreTypeOK
  <2> QED
    BY <1>2, <1>5, <2>1 DEF Create
<1>6. CASE Crash
  BY <1>6 DEF Crash, FreshCopies
<1>7. CASE \/ \E s \in Sandboxes : Expire(s)
           \/ \E n \in Nodes : RegisterNode(n)
           \/ \E n \in Nodes, s \in Sandboxes : LetProgress(n, s)
           \/ \E q \in inbox : LetCreate(q)
           \/ \E q \in letCopies : LetRevive(q)
           \/ \E w \in Deleters, s \in Sandboxes : DeleteStart(w, s)
           \/ \E w \in Deleters : DeleteAbort(w)
           \/ ReconcileList
           \/ \E s \in Sandboxes : ReconcilePick(s)
           \/ UNCHANGED vars
  <2>1. UNCHANGED <<storeVars, yVars, ipVars>>
    BY <1>7, Zenon DEF Expire, RegisterNode, LetProgress, LetCreate, LetRevive, DeleteStart,
                DeleteAbort, ReconcileList, ReconcilePick, WorkerFrame, vars
  <2> QED
    BY <1>2, <2>1, SameQuiet DEF storeVars
<1> QED
  BY <1>1, <1>3, <1>4, <1>5, <1>6, <1>7, SyncFresh, IpFresh DEF Next, ReconcileNext, Workers

=============================================================================
