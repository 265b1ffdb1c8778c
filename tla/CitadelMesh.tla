---------------------------- MODULE CitadelMesh ----------------------------
(***************************************************************************)
(* The Citadel anti-entropy over HTTP: the sync loop of every node         *)
(* (citadel_sync.rs) and the handlers it calls (api.rs, citadel_sync_push  *)
(* and citadel_sync_pull), on top of the nodes of CitadelNode.             *)
(*                                                                         *)
(* A call may fail at any moment: its request is lost, or arrives after    *)
(* the caller has given up, or is served and its answer is lost.           *)
(***************************************************************************)
EXTENDS CitadelNode

CONSTANTS
  Peers,       \* the configured peers of each node, in order
  MaxOps,      \* max_ops of the loop: operations in a push
  MaxAnswer,   \* what the handlers clamp max_ops to: operations in an answer
  Rounds,      \* bound: rounds are counted modulo this number
  MaxLate,     \* bound: abandoned pushes under way
  MaxFail      \* bound: calls that fail

ASSUME MeshAssumption ==
  /\ Peers \in [Node -> Seq(Node)]
  /\ MaxOps \in 1..MaxBatch /\ MaxAnswer \in 1..MaxBatch
  /\ Rounds \in Nat \ {0} /\ Round = 0..Rounds - 1
  /\ MaxLate \in Nat /\ MaxFail \in Nat

VARIABLES
  pc,              \* where the sync loop of a node is
  turn,            \* index of the peer it is at
  sync_round,
  peer_frontiers,  \* per node and peer, the frontier the peer last answered with
  local_frontier,  \* the snapshot taken before the call
  request,         \* the call of a node's loop that nobody has taken up yet
  answer,          \* what came back for a node's loop
  late,            \* pushes whose callers have given up
  caller,          \* whom a node's write lock is held for: its own loop, a push whose
                   \* caller waits, one whose caller is gone; "free" otherwise
  failures

meshVars == <<pc, turn, sync_round, peer_frontiers, local_frontier, request, answer,
              late, caller, failures>>
vars == <<nodeVars, meshVars>>

None == [kind |-> "none"]

ZeroFrontier == [o \in Node |-> 0]

MeshInit ==
  /\ NodeInit
  /\ pc = [n \in Node |-> "snapshot"]
  /\ turn = [n \in Node |-> 1]
  /\ sync_round = [n \in Node |-> 1 % Rounds]
  /\ peer_frontiers = [n \in Node |-> [p \in Node |-> ZeroFrontier]]
  /\ local_frontier = [n \in Node |-> ZeroFrontier]
  /\ request = [n \in Node |-> None]
  /\ answer = [n \in Node |-> None]
  /\ late = {}
  /\ caller = [n \in Node |-> <<"free">>]
  /\ failures = 0
-----------------------------------------------------------------------------
\* The operations of a delta, by origin and then by counter.
Sooner(p, q) == \/ p.origin < q.origin
                \/ p.origin = q.origin /\ p.counter < q.counter

InOrder(missing, limit) ==
  LET size == IF Cardinality(missing) < limit THEN Cardinality(missing) ELSE limit
  IN [i \in 1..size |-> CHOOSE op \in missing :
                          Cardinality({p \in missing : Sooner(p, op)}) = i - 1]

\* Mutant: the delta starts one operation too high.
MissingOpsSkipOne(n, peer_frontier, limit) ==
  InOrder({op \in AppliedOps(n) :
             op.counter \in peer_frontier[op.origin] + 2..frontier[n][op.origin]}, limit)

\* Mutant: the newest operations come first.
MissingOpsNewestFirst(n, peer_frontier, limit) ==
  LET missing == {op \in AppliedOps(n) :
                    op.counter \in peer_frontier[op.origin] + 1..frontier[n][op.origin]}
      size == IF Cardinality(missing) < limit THEN Cardinality(missing) ELSE limit
  IN [i \in 1..size |-> CHOOSE op \in missing :
                          Cardinality({p \in missing : Sooner(op, p)}) = i - 1]

\* missing_ops_for_frontier: the operations above a frontier, by origin and
\* then by counter, at most `limit` of them.
MissingOps(n, peer_frontier, limit) ==
  InOrder({op \in AppliedOps(n) :
             op.counter \in peer_frontier[op.origin] + 1..frontier[n][op.origin]}, limit)

Peer(n) == Peers[n][turn[n]]

\* On to the next peer, and to the next round after the last.  Rounds that
\* are a multiple of Rounds apart are one round here: where the code clears
\* the counts of its guard, the model may keep them and refuse more.
NextPeer(n) ==
  /\ pc' = [pc EXCEPT ![n] = "snapshot"]
  /\ IF turn[n] < Len(Peers[n])
     THEN /\ turn' = [turn EXCEPT ![n] = @ + 1]
          /\ UNCHANGED sync_round
     ELSE /\ turn' = [turn EXCEPT ![n] = 1]
          /\ sync_round' = [sync_round EXCEPT ![n] = (@ + 1) % Rounds]
-----------------------------------------------------------------------------
(* The sync loop of node n *)

\* frontier_snapshot under the read lock.
Snapshot(n) ==
  /\ pc[n] = "snapshot" /\ Peers[n] # <<>>
  /\ phase[n] = "idle"
  /\ local_frontier' = [local_frontier EXCEPT ![n] = frontier[n]]
  /\ pc' = [pc EXCEPT ![n] = "delta"]
  /\ UNCHANGED <<nodeVars, turn, sync_round, peer_frontiers, request, answer, late,
                 caller, failures>>

\* Mutant: the peer is taken to have what it is only being sent.
SendPushOptimistic(n) ==
  /\ pc[n] = "delta"
  /\ phase[n] = "idle"
  /\ request' = [request EXCEPT ![n] =
       [kind |-> "push", round |-> sync_round[n], frontier |-> local_frontier[n],
        ops |-> MissingOps(n, peer_frontiers[n][Peer(n)], MaxOps)]]
  /\ peer_frontiers' = [peer_frontiers EXCEPT ![n][Peer(n)] = frontier[n]]
  /\ pc' = [pc EXCEPT ![n] = "push"]
  /\ UNCHANGED <<nodeVars, turn, sync_round, local_frontier, answer, late, caller,
                 failures>>

\* missing_ops_for_frontier under another read lock, and the push.
SendPush(n) ==
  /\ pc[n] = "delta"
  /\ phase[n] = "idle"
  /\ request' = [request EXCEPT ![n] =
       [kind |-> "push", round |-> sync_round[n], frontier |-> local_frontier[n],
        ops |-> MissingOps(n, peer_frontiers[n][Peer(n)], MaxOps)]]
  /\ pc' = [pc EXCEPT ![n] = "push"]
  /\ UNCHANGED <<nodeVars, turn, sync_round, peer_frontiers, local_frontier, answer,
                 late, caller, failures>>

\* A good answer, to the push or to the pull: the peer's frontier is kept
\* before the operations are ingested, and only if there are any.
TakeAnswer(n) ==
  /\ answer[n] # None
  /\ peer_frontiers' = [peer_frontiers EXCEPT ![n][Peer(n)] = answer[n].frontier]
  /\ IF answer[n].ops # <<>>
     THEN /\ pc' = [pc EXCEPT ![n] = "merge"]
          /\ UNCHANGED <<turn, sync_round, answer>>
     ELSE /\ NextPeer(n)
          /\ answer' = [answer EXCEPT ![n] = None]
  /\ pc[n] \in {"push", "pull"}
  /\ UNCHANGED <<nodeVars, local_frontier, request, late, caller, failures>>

\* ingest_batch of the operations in the answer, with the loop's round.
Merge(n) ==
  /\ pc[n] = "merge"
  /\ BeginBatch(n, sync_round[n], answer[n].ops)
  /\ caller' = [caller EXCEPT ![n] = <<"loop">>]
  /\ pc' = [pc EXCEPT ![n] = "merging"]
  /\ answer' = [answer EXCEPT ![n] = None]
  /\ UNCHANGED <<turn, sync_round, peer_frontiers, local_frontier, request, late,
                 failures>>

EndMerge(n) ==
  /\ caller[n] = <<"loop">>
  /\ EndBatch(n)
  /\ caller' = [caller EXCEPT ![n] = <<"free">>]
  /\ NextPeer(n)
  /\ UNCHANGED <<peer_frontiers, local_frontier, request, answer, late, failures>>

\* What becomes of a call its caller gives up: a push that nobody has taken up
\* is lost or arrives late, one that is being served loses its answer.
Abandon(n) ==
  /\ failures < MaxFail
  /\ failures' = failures + 1
  /\ \/ late' = late
     \/ /\ request[n].kind = "push" /\ Cardinality(late) < MaxLate
        /\ late' = late \cup {[to |-> Peer(n), round |-> request[n].round,
                               ops |-> request[n].ops]}
  /\ caller' = [m \in Node |-> IF caller[m] = <<"push", n>> THEN <<"gone">>
                               ELSE caller[m]]
  /\ answer' = [answer EXCEPT ![n] = None]

\* A push that fails, times out or is answered badly: the pull comes instead,
\* with the frontier of the snapshot.
PushFails(n) ==
  /\ pc[n] = "push"
  /\ Abandon(n)
  /\ request' = [request EXCEPT ![n] =
       [kind |-> "pull", frontier |-> local_frontier[n]]]
  /\ pc' = [pc EXCEPT ![n] = "pull"]
  /\ UNCHANGED <<nodeVars, turn, sync_round, peer_frontiers, local_frontier>>

PullFails(n) ==
  /\ pc[n] = "pull"
  /\ Abandon(n)
  /\ request' = [request EXCEPT ![n] = None]
  /\ NextPeer(n)
  /\ UNCHANGED <<nodeVars, peer_frontiers, local_frontier>>
-----------------------------------------------------------------------------
(* The handlers of node m *)

\* citadel_sync_push takes the write lock and ingests; a push that comes late
\* is served like any other.
ServePush(m, n) ==
  /\ request[n].kind = "push" /\ Peer(n) = m
  /\ BeginBatch(m, request[n].round, request[n].ops)
  /\ caller' = [caller EXCEPT ![m] = <<"push", n>>]
  /\ request' = [request EXCEPT ![n] = None]
  /\ UNCHANGED <<pc, turn, sync_round, peer_frontiers, local_frontier, answer, late,
                 failures>>

ServeLate(m, push) ==
  /\ push.to = m
  /\ BeginBatch(m, push.round, push.ops)
  /\ caller' = [caller EXCEPT ![m] = <<"gone">>]
  /\ late' = late \ {push}
  /\ UNCHANGED <<pc, turn, sync_round, peer_frontiers, local_frontier, request, answer,
                 failures>>

\* Both handlers answer with what the caller lacks: it asks for MaxOps, which
\* the handler clamps.
Answer(m, peer_frontier) == [kind |-> "answer", frontier |-> frontier[m],
                             ops |-> MissingOps(m, peer_frontier, IF MaxOps < MaxAnswer THEN MaxOps ELSE MaxAnswer)]

\* The answer is put together under the same write lock.
AnswerPush(m, n) ==
  /\ caller[m] = <<"push", n>>
  /\ EndBatch(m)
  /\ caller' = [caller EXCEPT ![m] = <<"free">>]
  /\ answer' = [answer EXCEPT ![n] = Answer(m, local_frontier[n])]
  /\ UNCHANGED <<pc, turn, sync_round, peer_frontiers, local_frontier, request, late,
                 failures>>

AnswerNobody(m) ==
  /\ caller[m] = <<"gone">>
  /\ EndBatch(m)
  /\ caller' = [caller EXCEPT ![m] = <<"free">>]
  /\ UNCHANGED <<pc, turn, sync_round, peer_frontiers, local_frontier, request, answer,
                 late, failures>>

\* citadel_sync_pull, under the read lock.
ServePull(m, n) ==
  /\ request[n].kind = "pull" /\ Peer(n) = m
  /\ phase[m] = "idle"
  /\ request' = [request EXCEPT ![n] = None]
  /\ answer' = [answer EXCEPT ![n] = Answer(m, request[n].frontier)]
  /\ UNCHANGED <<nodeVars, pc, turn, sync_round, peer_frontiers, local_frontier, late,
                 caller, failures>>
-----------------------------------------------------------------------------
LoopStep(n) == Snapshot(n) \/ SendPush(n) \/ TakeAnswer(n) \/ Merge(n) \/ EndMerge(n)

ServeStep(m, n) == ServePush(m, n) \/ AnswerPush(m, n) \/ ServePull(m, n)

LateStep(m) == AnswerNobody(m) \/ \E push \in late : ServeLate(m, push)

MeshNext ==
  \E n \in Node : \/ LoopStep(n)
                  \/ PushFails(n) \/ PullFails(n)
                  \/ \E m \in Node : ServeStep(m, n)
                  \/ LateStep(n)
                  \/ (LocalStep(n) \/ IngestStep(n)) /\ UNCHANGED meshVars

\* The loops run for ever, a lock is given in turn (tokio's RwLock queues its
\* callers), so that no loop and no call waits while the lock is handed to
\* others again and again, and a handler that holds the lock finishes.
Fairness ==
  /\ \A n \in Node : WF_vars(AnswerNobody(n) \/ (IngestStep(n) /\ UNCHANGED meshVars))
  /\ \A n \in {n \in Node : Peers[n] # <<>>} :
       /\ SF_vars(LoopStep(n))
       /\ \A m \in {Peers[n][i] : i \in DOMAIN Peers[n]} : SF_vars(ServeStep(m, n))

MeshSpec == MeshInit /\ [][MeshNext]_vars /\ Fairness
-----------------------------------------------------------------------------
(* Properties *)

Below(f, g) == \A o \in Node : f[o] <= g[o]

\* What a node believes of another is stale but never ahead of it, as long as
\* no node restarts: the cached frontier of a peer, the snapshot that a call
\* carries and the frontier in an answer are at most the frontier now, across
\* failed, late and crossing calls (spawn_citadel_mesh_sync keeps
\* peer_frontiers between rounds).
NeverAhead ==
  \A n \in Node :
    /\ \A p \in Node : Below(peer_frontiers[n][p], frontier[p])
    /\ Below(local_frontier[n], frontier[n])
    /\ answer[n] # None => Below(answer[n].frontier, frontier[Peer(n)])

\* Each operation of `ops` is at most the next one of a node whose frontier is
\* `f`, or comes behind its predecessor.
Continues(ops, f) ==
  \A i \in DOMAIN ops :
    \/ ops[i].counter <= f[ops[i].origin] + 1
    \/ \E j \in 1..i - 1 : /\ ops[j].origin = ops[i].origin
                           /\ ops[j].counter = ops[i].counter - 1

\* Every delta under way continues what its receiver has when it arrives,
\* whenever that is: a push made from a cached frontier and a second read lock,
\* a push whose caller has given up, and an answer that waits to be merged
\* while others write to the caller (missing_ops_for_frontier and its callers
\* in citadel_sync.rs and api.rs).
DeltasContinue ==
  /\ \A n \in Node : /\ request[n].kind = "push" =>
                          Continues(request[n].ops, frontier[Peer(n)])
                     /\ answer[n] # None => Continues(answer[n].ops, frontier[n])
  /\ \A push \in late : Continues(push.ops, frontier[push.to])

\* Between nodes of equal difficulty that do not restart the sync never leaves
\* a gap: every delta begins at or below the receiver's next operation and
\* the checks of ingest_batch refuse a suffix of an origin's operations, so
\* nothing ever enters the reorder buffer.
NoGaps == \A n, o \in Node : pending[n][o] = {}

\* Once nobody writes and calls stop failing, all nodes get to the same
\* frontier and stay there; with NoDrift they have the same graph.
Converges == <>[](\A m, n \in Node : frontier[m] = frontier[n])
=============================================================================
