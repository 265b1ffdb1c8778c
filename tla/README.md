# A TLA+ verification of neverust

neverust is a storage node: it keeps content-addressed blocks, exchanges them
with peers, announces and finds providers, and runs *Citadel*, a replicated
graph of follows and content that nodes keep in step by anti-entropy over HTTP.
This directory holds TLA+ modules that model parts of it, TLC configurations
that check them on small instances, and TLAPS proofs for every instance.
`PROJECT.json` maps every definition to the lines it models and lists the runs,
the mutants that show each property can fail, the findings, the hazards of the
code and the theorems.

Run `tlc -config MCCitadelNode.cfg MCCitadelNode` to check a model and
`tlapm CitadelNodeProofs.tla` to check proofs.

## The system

| Part | Source (`neverust-core/src`) | State and concurrency | Here |
|---|---|---|---|
| Citadel LWW graph, views | `citadel.rs` | two maps of timestamped entries; a breadth-first search | `LensGraph`, `LensView` |
| Citadel node | `citadel.rs`, `api.rs`, `runtime.rs` | counter, frontier, reorder buffer, log, guard, behind one async RwLock | `CitadelNode` |
| Citadel mesh sync | `citadel_sync.rs`, `api.rs` | one loop per node, handlers of its peers, cached frontiers | `CitadelMesh` |
| Citadel simulation, idle gate | `citadel.rs` | sequential | planned |
| Block stores: redb, DeltaStore, DeltaFlat, GeomTree | `storage.rs` | files and indexes, locks per class and lane; crashes | planned |
| BlockExc | `blockexc.rs`, `messages.rs` | swarm behaviour, two stream tasks per connection, client with timeout | planned |
| Pending blocks | `pending_blocks.rs` | map of oneshot channels, retries | planned |
| Discovery, provider store | `discovery.rs`, `dht_provider.rs` | provider maps, TALKREQ | planned |
| Discovery engine, advertiser, memory store | `discovery_engine.rs`, `advertiser.rs`, `storage_memory.rs` | queues and loops; documented, not in `lib.rs` | planned |
| BoTG | `botg.rs` | UDP datagrams | planned |
| Marketplace | `marketplace.rs` | memory mirrored in a JSON file | planned |
| Archivist tree, chunker, range headers | `archivist_tree.rs`, `chunker.rs`, `api.rs` | pure algorithms | planned |
| Data and pin API, cluster placement | `api.rs`, `cluster.rs`, `archivist_cluster.rs` | handlers and background tasks over the store | planned |
| Vendored discv5 | `crates/discv5` | k-buckets, queries, sessions | planned |
| Manifests, records, keys, configuration, metrics, traffic, enr | the rest | encodings and counters without control | not modelled |

The parts meet as follows. The API handlers and the sync loop call the Citadel
node under its lock. The API and BlockExc read and write the block store; the
BlockExc client hands requests to the swarm's behaviour and waits for a block.
Discovery and the advertiser say who provides a block; BoTG is a second
transport for blocks. The marketplace and the pins are API state of their own.

## Modules

| Module | What it is |
|---|---|
| `LensGraph` | Last-writer-wins graph: `lww_update`, `merge_from`, the follow edges |
| `LensView` | The search of `reachable_sites`, one step per site |
| `LensOps` | Operations (`LensOp`) and the join a set of them adds up to |
| `OrderedOps` | Abstract: one history per origin, every node applies prefixes, its view is their join |
| `CitadelNode` | `DefederationNode`: emission, trust, `ingest_batch`, reorder buffer |
| `CitadelRestart` | The nodes with restarts of the process |
| `CitadelRounds` | The nodes with a ledger of what each round admitted |
| `CitadelMesh` | `spawn_citadel_mesh_sync` and the push and pull handlers, over the nodes |
| `CitadelOrdered` | The nodes as an implementation of `OrderedOps` |
| `LensViewProofs`, `LensOpsProofs`, `CitadelApplyProofs`, `CitadelNodeProofs`, `CitadelRefinement` | Proofs: the search; joins; what all steps share; the invariant and drift; the refinement |
| `MC*` | Instances for TLC |

### How the state corresponds

* **Graph.** The two `BTreeMap`s are one function over follow keys and content
  keys. A key that is not in the map has the entry `Absent` with counter 0, which
  every operation beats because `next_local_op` numbers from 1.
* **Operation.** Its kind is a key and a flag. Its hash is represented by the
  number of leading zero bits, the only thing `valid_pow` looks at; `mine_nonce`
  returns any number from the asked difficulty up.
* **Node.** The variables have the names of the fields of `DefederationNode`. An
  absent frontier entry is 0, as `unwrap_or(0)` reads it. Statistics are left out.
* **Locking.** `ingest_batch` runs under the write lock; it is split into one
  step per operation and per turn of the drain loop. `phase` is the lock: no other
  step reads or writes a node whose phase is not `"idle"`.
* **Transport.** In `CitadelNode` a batch is any sequence of operations from any
  node's log: loss, delay, duplication and reordering need no action of their
  own. Every operation in a batch is one that its origin emitted. The handlers
  ingest whatever they are sent, so all that is shown here is for callers and a
  transport that do not make operations up; "any transport" below means that.
  In `CitadelMesh` batches are what the loop and the handlers really send.
* **Mesh.** The loop reads the frontier and the delta under two locks (`Snapshot`,
  `SendPush`), pushes, stores the peer's frontier before ingesting the answer
  (`TakeAnswer`, `Merge`), and pulls after a failed push (`PushFails`). A call that
  fails may never have arrived, may arrive later (`late`), or may lose its answer.

## Runs

| Run | Instance | Checks |
|---|---|---|
| `view_search` | every follow graph of 3 sites, each edge absent, present or withdrawn | the search ends with exactly the reachable sites |
| `node_order` | 2 writers of one key, 2 operations each, batches of 1, buffer of 1, cap of 1 | the inductive invariant, equal frontiers give equal graphs, refinement of `OrderedOps` |
| `node_buffer` | 1 writer, 3 operations, a receiver with a buffer of 1 that asks more than the writer mines until it trusts it | one history per origin, the reorder buffer |
| `node_trust` | 3 nodes on one host, 2 writers, trust operations about one of them and the flagship refresh | portability of operations |
| `mesh_safety` | one loop, 2 writers, 2 operations each, pushes of 2, 1 failing call | cached frontiers never ahead, deltas under way continue their receiver, no gaps |
| `mesh_crossing` | 2 loops calling each other, 1 failing call | cached frontiers never ahead, convergence |
| `mesh_star` | one loop between two silent peers, 2 operations, 2 failing calls | convergence through a third node |
| `trust_drift` | 2 writers of opposite trust operations | **violated**: trust sets go by arrival |
| `restart_drift` | 2 nodes, restarts | **violated**: equal frontiers, different graphs |
| `round_cap` | 2 nodes, 2 rounds | **violated**: alternating rounds are not capped |

The three violations are described under `findings`. The first needs
`emit_local_trust`, which is public but which neither the API nor the runtime
calls today; the second needs a configured `citadel_node_id`, since the default
id comes from a peer id that is generated on every start.

### Bounds

`MaxCounter` (operations per node) is 2 where gaps matter: operation 2 before
operation 1 is the shortest gap. The caps (`MaxOpsPerOrigin`, `MaxNewOrigins`,
`MaxPending`) are 1. Each limit is met in a run of its own: the rate cap in all of
them; the full buffer in `node_buffer`, where operation 3 comes while operation 2
waits; the proof-of-work gate in `node_buffer`, where node 2 asks one bit of an
origin it does not trust and node 1 mines none; the cap on new origins in
`node_trust`, where two origins of one host reach the third node in one round.
`node_trust` sends every batch with one round and writes once per node; trust of
origin 1, which writes, comes and goes. With two origins on one key equal counters
tie. `mesh_safety` has pushes of two operations (`MaxOps` = 2) and answers of one
(`MaxAnswer` = 1), so that a delta has an order and is cut; the two liveness runs
have one operation per call, and `mesh_crossing` one operation in all.

Rounds are counted modulo `Rounds` = 2 in the mesh, so rounds r and r + 2, which
differ in the code, are equal in the model. There `roll_to` may keep counts that
the code clears, and the guard refuses more: `Converges` is shown under the
stricter guard, and the invariants of the mesh for what that guard admits (the
runs of the nodes take any round with any batch). `MaxFail` and `MaxLate` bound
failing calls and abandoned pushes. `MaxPow` is 1 over a base of at most 1 and a
trusted difficulty of 0. `MCLensView` switches deadlock checking off, because the
search ends.

### Fairness

Weak fairness of the steps of a batch: a handler that holds the lock finishes.
Strong fairness of each loop and of each call at its server: the loop is an
endless `tokio::spawn`ed task, and tokio's RwLock is first-come first-served, so
neither waits while the lock is handed to others again and again. Failing
calls, late deliveries and API calls have no fairness. Since calls fail
finitely often (`MaxFail`), `Converges` speaks of nodes whose connection works
in the end.

## Proofs

Everything below holds for any finite or infinite set of nodes, sites and hosts
and any values of the caps and bounds, from `OpsAssumption` and `NodeAssumption`
(the constants have their types) and, for the search, `ViewAssumption`.

* `SearchInvariant`, `SearchIsExact`: the loop invariant of `reachable_sites`
  (what is found is reachable; what is found and not queued is expanded) and, at
  the end, exactness. The found set is then closed, so it contains the least
  closed set.
* `MergeIsJoin`: `merge_from` of two graphs is the join of what is behind either,
  if a stamp belongs to one operation.
* `NodeInvariant`: `NodeInv` is inductive. `NoDrift` alone is not: a step
  preserves it only if equal frontiers mean equal *operations*. So the invariant
  says that every log is a prefix of the origin's own log as long as the frontier
  (`OneHistory`), that what waits in buffers and batches is genuine, and that a
  graph is the join of its node's log (`IsJoin`). The proof has one lemma per
  action.
* `NoDriftTheorem`: equal frontiers give equal logs, so two joins of one set of
  operations, and a join is unique because a stamp belongs to one operation.
* `NodesImplementOrderedOps`: the refinement, with each origin's own log as the
  abstract history and the frontier as the count applied.

Model-checked only: everything about `CitadelMesh`, and `PortableOps`. Liveness
(`Terminates`, `Converges`) is outside what the prover can do.

## Not modelled, and the plan

Left out of the Citadel core: hashing and nonce search, the view digest, URL and
environment parsing, statistics, HTTP status wording. Nodes of different base
difficulty are allowed by `CitadelNode` and its proofs and not by `NoGaps`,
`PortableOps` and `Converges`.

In this order:

1. *Block stores*: an abstract `BlockStore` (a map from CID to data, atomic put,
   delete and clear) and DeltaStore, DeltaFlat and GeomTree with crashes between
   writes, shown to implement it or with the states in which they do not.
2. *Block exchange*: the BlockExc client and behaviour, `PendingBlocks`, BoTG; one
   waiter per request, every request answered or timed out.
3. *Discovery*: the discovery engine's queue and limit, the advertiser's start and
   stop, the provider store's expiry.
4. *API*: marketplace memory against disk, pin and unpin races, deletes of shared
   blocks, cluster placement and replication.
5. *Algorithms*: Archivist tree proofs, chunker, range headers, placement,
   topology of the simulation, against reference definitions.
6. *discv5*: the k-bucket with its pending entry, the query pool, session
   handshake.
7. *Proofs*: `MeshSpec => NodeSpec`, `NeverAhead`, `DeltasContinue`, `NoGaps`; the stores' refinement;
   then the safety invariants of the parts above.
