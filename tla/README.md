# Verification of sandboxd-o

TLA+ specifications of sandboxd-o, the TLC instances that check them, and TLAPS
proofs. Paths are relative to the repository.

## The system

| Part | Source | What it does | Model |
|---|---|---|---|
| sandbox tables | `sandboxd-orch/repo/sandbox_repo.go`, `migrations.go` | SQLite tables `sandboxes` and `sandbox_ports` | `SandboxStore` |
| scheduler | `sandboxd-orch/service/sandbox_ops.go` 357-509, 580-650 | places Pending sandboxes: reserve ports, create on node | `SandboxControl` |
| deletion, TTL reconcile | `sandbox_ops.go` 78-152, 751-814 | DELETE handler, expiry, finalize | `SandboxControl` |
| status sync, IP refresher | `sandbox_ops.go` 539-578, 834-1087 | copies node state into rows by compare-and-set on `updated_at` | `SandboxControl` |
| node removal | `sandboxd-orch/service/node_ops.go` 160-233, `repo/node_repo.go` 128-140 | detaches sandboxes, deletes the node | `SandboxControl` |
| node registry | `node_ops.go`, `node_repo.go`, `cache/resource_cache.go` | heartbeat streaks, cordon, labels, externals, resources | planned |
| sbxlet service | `sandboxd-let/sandbox/*.go`, `store/file_store.go` | creates, provisions, deletes, reconciles sandboxes on a node | as the orchestrator sees it; planned |
| sbxlet firewall | `sandboxd-let/network/firewall.go` | DNAT and isolation rules | planned |
| sbxadm | `sandboxd-adm/orchestrate/*.go` | provisions, resizes, rolls back clusters | planned |
| sbxctl, configuration, auth, logging | `sandboxd-ctl`, `pkg` | stateless clients, start-up, I/O | not modelled |

`sbxorch` runs the loops and the HTTP handlers as goroutines over one SQLite
connection, and calls `sbxlet` on the nodes over HTTP. Nearly every workflow
reads a row, makes a node call that may take seconds, and writes the row back.
That is where the hazards are, so it is modelled first.

## Modules

**SandboxStore**: the two tables. `row[s]` is the status column (phase, node,
assigned ports; `Gone` without a row), `resv` is `sandbox_ports`, and `seen` holds
`<<r, s>>` while row `s` still has the `updated_at` that reader `r` last read. Each
operator is one statement or transaction: the database is opened with one
connection (`node_repo.go:69-74`), so each is atomic. Foreign keys are on: a
reservation for a missing row is an insert error. `DeleteSandbox` is two
statements without a transaction, so two steps (`DeleteSandboxPorts`,
`DeleteSandboxRow`) between which others run; deleting the row cascades to ports
inserted in between.

**SandboxControl**: the workflows. Each is a thread with a program counter and
the copies it carries; a step is one database statement or one node call.

| Variables | Thread | Source |
|---|---|---|
| `sched*` | scheduler loop | `runSchedulerOnce`, `scheduleOne`, `createSandboxOnNode` |
| `w*`, `rList` | DELETE handlers and the TTL reconcile loop | `DeleteSandbox`, `runSandboxReconcileOnce`, `finalizeSandboxDelete` |
| `y*` | status sync of a node | `runSandboxStatusSyncOnce`, `syncNodeSandboxBatch` |
| `ip*` | IP refresher of a sandbox | `refreshSandboxIPSoon` |
| `d*` | DELETE node handler | `DeleteNodeForce`, `detachNodeSandboxes`, `repo.DeleteNode` |
| `let`, `letPorts`, `inbox` | state files of the nodes, create requests under way | `sandboxd-let` |
| `letCopies` | copies of state files that a node may still save | `sandboxd-let` |
| `registered`, `expired`, `created`, `crashes` | nodes table, clock, clients, restarts | |

Faults: a create request may be processed after the scheduler stopped waiting
for it; a reply may be lost; a delete call may fail before, half-way or after it
acted; a handler's client may disconnect at any step (`DeleteAbort`,
`DetachAbort`); the orchestrator may restart (`Crash`), which loses every thread
and keeps the tables, the nodes and the requests under way.

**MCControl**: the TLC instances. **SandboxTypeProofs** (types and cursors),
**SandboxFreshProofs** (rows and the copies of the conditional writes) and
**SandboxControlProofs** (placement, and the theorems): the proofs, each extending
the one before.

Operators whose comment starts with "Mutant of the next one" are plausible bugs
of the definition below them; each makes a property fail and is not used by the
specification.

### Abstractions

- IP, External, LastError and the container spec are left out; status sync may
  therefore write a row whose modelled part does not change. ExpireAt is the
  event `Expire`.
- Which registered node with free ports is chosen, or none (Ready, cordon,
  labels, resources), is nondeterministic, and so is the port choice.
- Node usage counters are left to the node registry module.
- SQL errors other than missing rows and conflicts are left out.
- Status-sync goroutines of different nodes loop independently: the code joins
  them at the end of a tick, so the model has more interleavings, not fewer. A
  tick is one batch per node.
- A sandbox has at most one IP refresher at a time: `SchedConfirm` starts one only
  if none runs, which differs from the code only when an id is reused.
- Creating ids of its own
  through the node proxy is left out; deleting through it is in `LetProgress`.
- sbxlet can bring back a state file that a delete or its reconcile has removed:
  `ReconcileOnce` saves "provisioning timeout" from its snapshot of the states
  (`reconcile.go:50-51`), `markSandboxError` loads and saves without the sandbox
  lock, and provisioning saves the state it started with. `LetProgress` covers a
  file that is there, `LetRevive` these late saves. They end within minutes; the
  model has no clock and lets the copies (`letCopies`) live on. `StaleSaves`
  switches them on (proofs: either value).
- All ports of a sandbox have one protocol (`UDPSandboxes`), since sbxlet refuses
  a host port only to the protocol that holds it. The orchestrator reserves a
  port whatever its protocol. The runs use one protocol, the proofs any.

## Runs

`tlc -config <cfg> MCControl`. All set `CHECK_DEADLOCK FALSE`: a system without
sandboxes, or with every id used, rightly does nothing.

| Run | Instance | Checks | States |
|---|---|---|---|
| deletes | 1 sandbox with TTL, 1 node, 1 port, 1 DELETE handler | `TypeOK`, `GoneStaysGone`, `SyncKeepsDeleting` | 968k |
| placement | 1 sandbox with TTL, 2 removable nodes, 1 restart | `AtMostOneNode` | 259k |
| invariant | 1 sandbox with TTL, 1 removable node, 1 restart | `ControlInv` | 2.3M |
| ports | 2 sandboxes (1 with TTL), 1 node, 1 port | `ReservationsAccounted`, `PickedPortsFree` | 934k |
| live | 1 sandbox with TTL, 1 node, 1 port, 1 restart, fair | `ExpiredRemoved`, `ExpiredPortsFreed` | 54k |

The bounds: one handler next to the reconcile loop gives two concurrent
finalizers; two nodes are enough to hold a sandbox twice; with two
sandboxes and one port the second gets the port only after the first gave it
back (`SchedPick` reads the used ports: while the port is reserved it finds no
candidate and the sandbox ends Failed); one restart can fall between any two
steps. `placement` is limited by `ExpiryOrRemoval`: once the
sandbox has expired no node is removed or missing, so it has histories with
removals and histories with a deletion, and `invariant` has both together, on
one node, where its conjunct `AtMostOneNode` says nothing. `StaleSaves` is on in
`deletes`, `placement`, `invariant` and `live`; it is off in `ports` for its size,
and in the runs of the next section so that each shows one cause. Ids are used once in the runs (`ReuseIds = FALSE`): with reuse the state
space is out of TLC's reach, and only the proofs cover it. `ports` has no
restarts, node removals or handlers: a restart between the Failed write and
`ReleaseSandboxPorts` can leave a reservation that its row no longer names.
`ExpiredPortsFreed`, checked with a restart, says that such a reservation goes
with its expired sandbox.

Fairness (`FairSpec`): weak for each loop, a goroutine on a ticker whose
statements return and whose calls time out; strong for the reconcile loop's
delete call and the status query, i.e. a node asked again and again answers at
last. Nodes, clients, handlers and the clock are not fair.

### Where code and documentation disagree

Each run checks one property and TLC violates it.

| Run | Property | What happens |
|---|---|---|
| override | `NoDestructiveOverride` (comment `sandbox_ops.go:976`) | The scheduler reserves a row a DELETE just marked: Deleting becomes Scheduled. |
| ttl | `ExpiredTerminated` (`README.md:765`) | The reconcile loop's delete overtakes the create request; the node creates a sandbox whose row is gone. |
| distinct | `DistinctPorts` (`sandbox_ops_test.go:802`) | A create times out but was accepted; its ports are released and given away; status sync makes it Running. |
| stuck | `ScheduledProgresses` (comment `sandbox_ops.go:948`) | The node lost a Scheduled sandbox; every sync skips it. |
| removed | `RemovedNodeUnused` (`sandbox_ops_test.go:1337`) | A sandbox is scheduled between the removal's list and its end. |

`live` and `ttl` together say what the TTL gives: the row always goes, the sandbox
on the node may not.

## Proofs

`tlapm` on each of `SandboxTypeProofs.tla`, `SandboxFreshProofs.tla` and
`SandboxControlProofs.tla`; one file would do, but the prover slows down with the
length of a module. The theorems, all in the last one, hold for any sets of sandboxes,
nodes, ports and handlers and any number of restarts, from `IdAssumption` (node
and sandbox ids are told apart, the pool is finite) and `ControlAssumption`.

| Theorem | Statement |
|---|---|
| `ControlInvariance` | `Spec => []ControlInv` |
| `TypeCorrect` | `Spec => []TypeOK` |
| `OneNodePerSandbox` | `~ReuseIds` gives `Spec => []AtMostOneNode` |
| `DeletedStaysDeleted` | `Spec => GoneStaysGone` |
| `SyncRespectsDeleting` | `Spec => SyncKeepsDeleting` |
| `PicksStayFree` | `Spec => []PickedPortsFree` |

`PickedPortsFree` is inductive as it stands: only the reservation adds to
`sandbox_ports`, and it ends the state the property speaks of. The others are
not. `ControlInv` adds:

- `CursorsOK`: a thread past its pick has a sandbox (and a node), so its writes
  go to a row of the table. Type correctness needs it.
- `WorkersDelete`: a delete worker past its mark carries a Deleting copy, so no
  delete worker writes another phase.
- `FreshCopies`: if a compare-and-set will succeed, the row is still the one it
  was computed from. Every write of a row removes its pairs from `seen`; this is
  what makes the conditional writes safe for Deleting rows.
- `PlacementOK` (ids used once): a sandbox that the scheduler may still place is
  on no node. No writer makes a row Pending again (the `Quiet` lemmas, one per
  thread), so a row is placed at most once, also across restarts.

The step theorem has one case per thread and, below it, one per action.
`ReservationsAccounted` and the liveness properties are model-checked only;
liveness under fairness is beyond the prover.

## Plan

1. **Node registry** (`node_ops.go`, `node_repo.go`, `resource_cache.go`): heartbeat
   streaks and thresholds, cordon against label patches, externals against
   resource sync, status upserts after removal, usage counters under two
   finalizers, the persist decision of the cache.
2. **sbxlet service**: create with its three locks, asynchronous provisioning,
   delete, reconcile on a snapshot, `markSandboxError` without the lock, restart,
   admission and port limits; an abstract node (what `LetCreate`, `LetProgress` and
   `CallOk` promise here) that it refines.
3. **Firewall**: DNAT rules against state files, orphan cleanup with an old keep set.
4. **Pure algorithms** against reference definitions: `allocateHostPorts`,
   `applyEphemeralLimits`, list pagination, the readiness probe's thresholds.
5. **sbxadm**: create, resize and rollback with a failure at any step.
6. **Abstract lifecycle** of a sandbox as clients see it, refined by
   `SandboxControl`; composition of the orchestrator with the sbxlet module.
7. **Proofs**: `ReservationsAccounted` without restarts and reuse; the invariants of
   the new modules; the refinements' safety part.

The hazards of `PROJECT.json` without a property name the step that covers them.
