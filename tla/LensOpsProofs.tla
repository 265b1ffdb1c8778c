--------------------------- MODULE LensOpsProofs ---------------------------
(***************************************************************************)
(* Last-writer-wins joins: what lww_update and merge_from make of graphs   *)
(* that stand for sets of operations.                                      *)
(***************************************************************************)
EXTENDS LensOps, TLAPS

\* Timestamps of operations and of entries are well typed.
LEMMA EntryType ==
  ASSUME NEW op \in Op
  PROVE  /\ EntryOf(op) \in LwwEntry
         /\ EntryOf(op).ts = TsOf(op)
         /\ TsOf(op) \in Lamport
         /\ TsOf(op).counter = op.counter
         /\ TsOf(op).origin = op.origin
         /\ op.counter \in Nat /\ op.counter > 0
<1>1. op.counter \in 1..MaxCounter /\ op.origin \in Node
  BY DEF Op
<1>on. op.on \in BOOLEAN
  BY DEF Op
<1>2. op.counter \in Nat /\ op.counter > 0 /\ op.origin \in Nat
  <2>1. Node \subseteq Nat /\ MaxCounter \in Nat
    BY OpsAssumption
  <2>2. op.origin \in Nat
    BY <1>1, <2>1, Zenon
  <2>3. op.counter \in Nat /\ op.counter > 0
    BY <1>1, <2>1
  <2> QED BY <2>2, <2>3
<1>3. TsOf(op) \in Lamport /\ TsOf(op).counter = op.counter /\ TsOf(op).origin = op.origin
  BY <1>2 DEF TsOf, Lamport
<1>4. EntryOf(op) \in LwwEntry /\ EntryOf(op).ts = TsOf(op)
  BY <1>on, <1>3 DEF EntryOf, LwwEntry
<1> QED BY <1>2, <1>3, <1>4

\* The order of timestamps that lww_update relies on is total, transitive
\* and antisymmetric.
LEMMA TsOrder ==
  ASSUME NEW a \in Lamport, NEW b \in Lamport, NEW c \in Lamport
  PROVE  /\ TsGeq(a, b) \/ TsGeq(b, a)
         /\ TsGeq(a, b) /\ TsGeq(b, c) => TsGeq(a, c)
         /\ TsGeq(a, b) /\ TsGeq(b, a) => a = b
<1>1. ASSUME TsGeq(a, b), TsGeq(b, a) PROVE a = b
  <2>1. a.counter = b.counter /\ a.origin = b.origin
    BY <1>1 DEF TsGeq, Lamport
  <2> QED BY <2>1 DEF Lamport
<1>2. TsGeq(a, b) \/ TsGeq(b, a)
  BY DEF TsGeq, Lamport
<1>3. TsGeq(a, b) /\ TsGeq(b, c) => TsGeq(a, c)
  BY DEF TsGeq, Lamport
<1> QED BY <1>1, <1>2, <1>3

\* Adding an operation to a set adds its entry under its key and nothing
\* elsewhere.
LEMMA EntriesAdd ==
  ASSUME NEW ops, NEW op, NEW k
  PROVE  EntriesAt(ops \cup {op}, k) =
           IF op.key = k THEN EntriesAt(ops, k) \cup {EntryOf(op)}
                         ELSE EntriesAt(ops, k)
BY DEF EntriesAt

\* lww_update takes the join of a set of operations to the join of the set
\* with one more operation, whatever its timestamp.
LEMMA JoinStep ==
  ASSUME NEW g \in Graph, NEW ops \in SUBSET Op, NEW op \in Op,
         op.key \in GraphKey, IsJoin(g, ops)
  PROVE  /\ UpdateGraph(g, op.key, EntryOf(op)) \in Graph
         /\ IsJoin(UpdateGraph(g, op.key, EntryOf(op)), ops \cup {op})
<1> DEFINE h == UpdateGraph(g, op.key, EntryOf(op))
           e == EntryOf(op)
<1>0. \A k \in GraphKey : EntriesAt(ops, k) \subseteq LwwEntry
  BY EntryType DEF EntriesAt
<1>1. /\ h \in Graph
      /\ \A k \in GraphKey : k # op.key => h[k] = g[k]
      /\ h[op.key] = IF TsGeq(g[op.key].ts, e.ts) THEN g[op.key] ELSE e
  BY EntryType DEF UpdateGraph, LwwUpdate, Graph
<1>2. ASSUME NEW k \in GraphKey
      PROVE  \/ h[k] = Absent /\ EntriesAt(ops \cup {op}, k) = {}
             \/ /\ h[k] \in EntriesAt(ops \cup {op}, k)
                /\ \A d \in EntriesAt(ops \cup {op}, k) : TsGeq(h[k].ts, d.ts)
  <2>1. CASE k # op.key
    <3>1. EntriesAt(ops \cup {op}, k) = EntriesAt(ops, k)
      BY <2>1, EntriesAdd, Zenon
    <3> QED BY <2>1, <3>1, <1>1, Zenon DEF IsJoin
  <2>2. CASE k = op.key
    <3>1. EntriesAt(ops \cup {op}, k) = EntriesAt(ops, k) \cup {e}
      BY <2>2, EntriesAdd, Zenon
    <3>2. e \in LwwEntry /\ e.ts \in Lamport /\ TsGeq(e.ts, e.ts)
      BY EntryType, TsOrder
    <3>3. CASE g[k] = Absent /\ EntriesAt(ops, k) = {}
      <4>1. ~TsGeq(g[k].ts, e.ts)
        BY <3>3, EntryType DEF Absent, TsGeq
      <4> QED BY <4>1, <2>2, <1>1, <3>1, <3>2, <3>3
    <3>4. CASE /\ g[k] \in EntriesAt(ops, k)
               /\ \A d \in EntriesAt(ops, k) : TsGeq(g[k].ts, d.ts)
      <4>1. g[k].ts \in Lamport /\ \A d \in EntriesAt(ops, k) : d.ts \in Lamport
        BY <3>4, <1>0 DEF LwwEntry
      <4>2. CASE TsGeq(g[k].ts, e.ts)
        BY <4>2, <2>2, <1>1, <3>1, <3>4, Zenon
      <4>3. CASE ~TsGeq(g[k].ts, e.ts)
        <5>1. TsGeq(e.ts, g[k].ts)
          BY <4>1, <4>3, <3>2, TsOrder
        <5>2. \A d \in EntriesAt(ops, k) : TsGeq(e.ts, d.ts)
          BY <5>1, <4>1, <3>2, <3>4, TsOrder
        <5> QED BY <5>2, <4>3, <2>2, <1>1, <3>1, <3>2, Zenon
      <4> QED BY <4>2, <4>3, Zenon
    <3> QED BY <3>3, <3>4, Zenon DEF IsJoin
  <2> QED BY <2>1, <2>2
<1> QED BY <1>1, <1>2, Zenon DEF IsJoin

\* A trust operation does not touch the graph.
LEMMA JoinSkip ==
  ASSUME NEW g, NEW ops, NEW op, op.key \notin GraphKey, IsJoin(g, ops)
  PROVE  IsJoin(g, ops \cup {op})
<1>1. \A k \in GraphKey : EntriesAt(ops \cup {op}, k) = EntriesAt(ops, k)
  BY EntriesAdd, Zenon
<1> QED BY <1>1, Zenon DEF IsJoin

\* Operations with the same counter and origin are the same operation.
OneOpPerStamp(ops) == \A p, q \in ops : TsOf(p) = TsOf(q) => p = q

\* A set of operations with distinct timestamps has one join.
LEMMA JoinUnique ==
  ASSUME NEW g \in Graph, NEW h \in Graph, NEW ops \in SUBSET Op,
         OneOpPerStamp(ops), IsJoin(g, ops), IsJoin(h, ops)
  PROVE  g = h
<1>1. ASSUME NEW k \in GraphKey PROVE g[k] = h[k]
  <2>1. CASE EntriesAt(ops, k) = {}
    BY <2>1 DEF IsJoin
  <2>2. CASE EntriesAt(ops, k) # {}
    <3>1. PICK p \in ops : p.key = k /\ g[k] = EntryOf(p)
      BY <2>2 DEF IsJoin, EntriesAt
    <3>2. PICK q \in ops : q.key = k /\ h[k] = EntryOf(q)
      BY <2>2 DEF IsJoin, EntriesAt
    <3>3. TsGeq(EntryOf(p).ts, EntryOf(q).ts) /\ TsGeq(EntryOf(q).ts, EntryOf(p).ts)
      BY <2>2, <3>1, <3>2 DEF IsJoin, EntriesAt
    <3>4. TsOf(p) = TsOf(q)
      BY <3>3, EntryType, TsOrder
    <3> QED BY <3>1, <3>2, <3>4 DEF OneOpPerStamp
  <2> QED BY <2>1, <2>2
<1> QED BY <1>1 DEF Graph

\* That join is the one OrderedOps defines.
LEMMA JoinIsJoin ==
  ASSUME NEW g \in Graph, NEW ops \in SUBSET Op, OneOpPerStamp(ops), IsJoin(g, ops)
  PROVE  g = Join(ops)
<1>1. ASSUME NEW k \in GraphKey, EntriesAt(ops, k) # {}
      PROVE  g[k] = Newest(EntriesAt(ops, k))
  <2> DEFINE E == EntriesAt(ops, k)
             m == Newest(E)
  <2>1. g[k] \in E /\ \A d \in E : TsGeq(g[k].ts, d.ts)
    BY <1>1 DEF IsJoin
  <2>2. m \in E /\ \A d \in E : TsGeq(m.ts, d.ts)
    BY <2>1 DEF Newest
  <2>3. PICK p \in ops : g[k] = EntryOf(p)
    BY <2>1 DEF EntriesAt
  <2>4. PICK q \in ops : m = EntryOf(q)
    BY <2>2, Zenon DEF EntriesAt
  <2>5. TsOf(p) = TsOf(q)
    BY <2>1, <2>2, <2>3, <2>4, EntryType, TsOrder
  <2> QED BY <2>3, <2>4, <2>5 DEF OneOpPerStamp
<1>2. \A k \in GraphKey : g[k] = Join(ops)[k]
  BY <1>1 DEF IsJoin, Join
<1> QED BY <1>2 DEF Graph, Join

\* merge_from of two graphs is the join of the operations behind either, so
\* the order and the number of merges do not matter: shipping graphs and
\* shipping operations come to the same view.
THEOREM MergeIsJoin ==
  ASSUME NEW g \in Graph, NEW h \in Graph, NEW A \in SUBSET Op, NEW B \in SUBSET Op,
         IsJoin(g, A), IsJoin(h, B)
  PROVE  /\ MergeFrom(g, h) \in Graph
         /\ IsJoin(MergeFrom(g, h), A \cup B)
<1> DEFINE m == MergeFrom(g, h)
<1>1. /\ m \in Graph
      /\ \A k \in GraphKey : m[k] = IF TsGeq(g[k].ts, h[k].ts) THEN g[k] ELSE h[k]
  BY DEF MergeFrom, LwwUpdate, Graph
<1>2. ASSUME NEW k \in GraphKey
      PROVE  \/ m[k] = Absent /\ EntriesAt(A \cup B, k) = {}
             \/ /\ m[k] \in EntriesAt(A \cup B, k)
                /\ \A d \in EntriesAt(A \cup B, k) : TsGeq(m[k].ts, d.ts)
  <2> DEFINE EA == EntriesAt(A, k)
             EB == EntriesAt(B, k)
  <2>1. EntriesAt(A \cup B, k) = EA \cup EB
    BY DEF EntriesAt
  <2>2. \A d \in EA \cup EB : d \in LwwEntry /\ d.ts \in Lamport /\ d.ts.counter > 0
    BY EntryType DEF EntriesAt
  <2>3. Absent.ts \in Lamport /\ Absent.ts.counter = 0 /\ Absent.ts.origin = 0
    BY DEF Absent, Lamport
  <2>4. \A d \in EA \cup EB : TsGeq(d.ts, Absent.ts) /\ ~TsGeq(Absent.ts, d.ts)
    BY <2>2, <2>3 DEF TsGeq, Lamport
  <2>5. /\ \/ g[k] = Absent /\ EA = {}
           \/ g[k] \in EA /\ \A d \in EA : TsGeq(g[k].ts, d.ts)
        /\ \/ h[k] = Absent /\ EB = {}
           \/ h[k] \in EB /\ \A d \in EB : TsGeq(h[k].ts, d.ts)
    BY DEF IsJoin
  <2> HIDE DEF EA, EB, m
  <2>6. CASE EA = {} /\ EB = {}
    BY <2>6, <2>1, <2>5, <1>1
  <2>7. CASE EA = {} /\ EB # {}
    <3>1. m[k] = h[k] /\ h[k] \in EB
      BY <2>7, <2>4, <2>5, <1>1
    <3> QED BY <3>1, <2>7, <2>1, <2>5
  <2>8. CASE EA # {} /\ EB = {}
    <3>1. m[k] = g[k] /\ g[k] \in EA
      BY <2>8, <2>4, <2>5, <1>1
    <3> QED BY <3>1, <2>8, <2>1, <2>5, Zenon
  <2>9. CASE EA # {} /\ EB # {}
    <3>1. g[k] \in EA /\ h[k] \in EB /\ g[k].ts \in Lamport /\ h[k].ts \in Lamport
      BY <2>9, <2>2, <2>5
    <3>2. CASE TsGeq(g[k].ts, h[k].ts)
      <4>1. \A d \in EB : TsGeq(g[k].ts, d.ts)
        BY <3>1, <3>2, <2>2, <2>5, <2>9, TsOrder
      <4> QED BY <3>1, <3>2, <4>1, <2>1, <2>5, <2>9, <1>1, Zenon
    <3>3. CASE ~TsGeq(g[k].ts, h[k].ts)
      <4>1. TsGeq(h[k].ts, g[k].ts)
        BY <3>1, <3>3, TsOrder
      <4>2. \A d \in EA : TsGeq(h[k].ts, d.ts)
        BY <3>1, <4>1, <2>2, <2>5, <2>9, TsOrder
      <4> QED BY <3>1, <3>3, <4>2, <2>1, <2>5, <2>9, <1>1, Zenon
    <3> QED BY <3>2, <3>3, Zenon
  <2> QED BY <2>6, <2>7, <2>8, <2>9
<1> QED BY <1>1, <1>2, Zenon DEF IsJoin
=============================================================================
