---------------------------- MODULE SandboxStore ----------------------------
(***************************************************************************)
(* The orchestrator's sandbox tables (sandboxd-orch/repo/sandbox_repo.go): *)
(* `sandboxes`, one row per sandbox object, and `sandbox_ports`, one row   *)
(* per reserved host port.  The database has a single connection, so a     *)
(* statement, or a transaction, is one atomic step.  Every operator below  *)
(* is one statement or transaction; the workflows that call them, and that *)
(* carry copies of a row from one step to the next, are in SandboxControl. *)
(***************************************************************************)
EXTENDS Naturals, FiniteSets

CONSTANTS
    Sandboxes,   \* sandbox ids
    Nodes,       \* node ids
    HostPorts,   \* the host port pool, HostPortMin..HostPortMax
    NoNode       \* the empty NodeName

\* Ids of nodes and sandboxes are kept apart; "" names no node.
ASSUME IdAssumption ==
    /\ NoNode \notin Nodes
    /\ Nodes \cap Sandboxes = {}
    /\ IsFiniteSet(HostPorts)

VARIABLES
    row,    \* the status column of each sandbox row; Gone when there is none
    resv,   \* the sandbox_ports table
    seen    \* <<r, s>>: row s still has the updated_at that reader r last saw

storeVars == <<row, resv, seen>>

Phases == {"Pending", "Scheduled", "Running", "Failed", "Deleting"}

\* SandboxStatus, without the fields no workflow branches on (IP, External,
\* LastError).  ExpireAt never changes after creation and is kept elsewhere.
Status == [phase : Phases \cup {"None"},
           node  : Nodes \cup {NoNode},
           ports : SUBSET HostPorts]

Gone == [phase |-> "None", node |-> NoNode, ports |-> {}]

NewSandbox == [phase |-> "Pending", node |-> NoNode, ports |-> {}]

\* One row of sandbox_ports.
Reservation == [id : Sandboxes, node : Nodes, port : HostPorts]

\* The two kinds of optimistic writer: the status-sync goroutine of a node
\* and the IP refresher of a sandbox.
Readers == Nodes \cup Sandboxes

Exists(s) == row[s].phase # "None"

\* updated_at of row s changes: nobody's copy of it is current any more.
Touch(s) == seen' = {x \in seen : x[2] # s}

StoreInit ==
    /\ row = [s \in Sandboxes |-> Gone]
    /\ resv = {}
    /\ seen = {}

\* INSERT INTO sandboxes; fails when the id is taken.
CreateSandbox(s) ==
    /\ ~Exists(s)
    /\ row' = [row EXCEPT ![s] = NewSandbox]
    /\ Touch(s)
    /\ UNCHANGED resv

\* Reader r loads row s and remembers its updated_at.
GetSandbox(r, s) ==
    /\ seen' = {x \in seen : x[1] # r} \cup {<<r, s>>}
    /\ UNCHANGED <<row, resv>>

\* Mutant of the next one: an upsert.
UpdateSandboxStatusUpsert(s, st) ==
    /\ row' = [row EXCEPT ![s] = st]
    /\ Touch(s)
    /\ UNCHANGED resv

\* UPDATE sandboxes ... WHERE id: no effect when the row is gone, and no test
\* of what the row holds now.
UpdateSandboxStatus(s, st) ==
    /\ row' = IF Exists(s) THEN [row EXCEPT ![s] = st] ELSE row
    /\ Touch(s)
    /\ UNCHANGED resv

\* Mutant of the next one: no test of updated_at.
UpdateSandboxStatusIfExists(r, s, st) == UpdateSandboxStatus(s, st)

\* UPDATE sandboxes ... WHERE id AND updated_at = the one reader r saw.
UpdateSandboxStatusIfUnchanged(r, s, st) ==
    IF Exists(s) /\ <<r, s>> \in seen
    THEN UpdateSandboxStatus(s, st)
    ELSE UNCHANGED storeVars

\* DELETE FROM sandbox_ports WHERE sandbox_id.
ReleaseSandboxPorts(s) ==
    /\ resv' = {r \in resv : r.id # s}
    /\ UNCHANGED <<row, seen>>

\* DeleteSandbox is two statements and no transaction.  The first one deletes
\* the ports of the sandbox.
DeleteSandboxPorts(s) ==
    /\ resv' = {r \in resv : r.id # s}
    /\ UNCHANGED <<row, seen>>

\* Mutant of the next one: foreign keys are off, so nothing cascades.
DeleteSandboxRowOnly(s) ==
    /\ row' = [row EXCEPT ![s] = Gone]
    /\ Touch(s)
    /\ UNCHANGED resv

\* The second one deletes its row, which cascades to any port inserted in
\* between.
DeleteSandboxRow(s) ==
    /\ row' = [row EXCEPT ![s] = Gone]
    /\ resv' = {r \in resv : r.id # s}
    /\ Touch(s)

\* Mutant of the next one: the rows are asked, and not sandbox_ports.
NodeUsedHostPortsOfRows(n) == UNION {row[s].ports : s \in {t \in Sandboxes : row[t].node = n}}

NodeUsedHostPorts(n) == {r.port : r \in {q \in resv : q.node = n}}

\* ErrPortReservationConflict: a port of P is taken, or the foreign key of an
\* insert finds no sandbox row.
ReserveConflict(s, n, P) ==
    \/ P \cap NodeUsedHostPorts(n) # {}
    \/ P # {} /\ ~Exists(s)

\* The other error: nothing to insert, and no row to update.
ReserveNoRow(s, P) == P = {} /\ ~Exists(s)

\* The transaction commits: ports inserted, row bound to the node.  It does
\* not look at the phase the row has.
ReserveSandboxPortsAndSchedule(s, n, P) ==
    /\ ~ReserveConflict(s, n, P)
    /\ Exists(s)
    /\ resv' = resv \cup {[id |-> s, node |-> n, port |-> p] : p \in P}
    /\ row' = [row EXCEPT ![s] = [phase |-> "Scheduled", node |-> n, ports |-> P]]
    /\ Touch(s)

\* repo.DeleteNode starts with DELETE FROM sandbox_ports WHERE node_name.
DeleteNodePorts(n) ==
    /\ resv' = {r \in resv : r.node # n}
    /\ UNCHANGED <<row, seen>>

StoreTypeOK ==
    /\ row \in [Sandboxes -> Status]
    /\ resv \subseteq Reservation
    /\ seen \subseteq Readers \X Sandboxes
=============================================================================
