---------------------------- MODULE VertexPartitions ----------------------------
(***************************************************************************)
(* Vertex ranges, their NUMA nodes, and the queues NumaLocalScheduler gives *)
(* their tasks.  Worker i of the pool owns queue i and runs on the node    *)
(* choose_numa_placement gives it; CPUs and memory are left out.           *)
(***************************************************************************)
EXTENDS Integers, Sequences, FiniteSets, SequencesExt, FiniteSetsExt

CONSTANTS Topologies,    \* node ids, in the order they were detected
          PoolSizes,     \* WorkStealingPool::size()
          MaxRanged      \* bound on vertices and on requested partitions

ASSUME PartitionConstants ==
  /\ Topologies \subseteq Seq(Nat) /\ PoolSizes \subseteq Nat \ {0}
  /\ MaxRanged \in Nat

VARIABLES machine,       \* the topology and the size of the pool
          planned        \* vertex_count, mode, and the partitions

vertexPartitions == <<machine, planned>>

NoNode == -1

InitPartitions ==
  /\ machine = [topology |-> <<>>, workers |-> 1]
  /\ planned = [n |-> 0, mode |-> "off", parts |-> <<>>]

-----------------------------------------------------------------------------
RangeEnd(n, parts, p) == (n * p) \div parts

ContiguousPartitions(n, requested) ==
  LET parts == Max({1, Min({requested, Max({1, n})})})
  IN  [p \in 1 .. parts |-> [begin |-> RangeEnd(n, parts, p - 1), end |-> RangeEnd(n, parts, p)]]

(* The node of the k-th partition, or of the k-th worker, counted from 0.  *)
Placement(topology, mode, k) ==
  IF mode = "off" \/ topology = <<>> THEN NoNode ELSE topology[(k % Len(topology)) + 1]

(* plan_numa_vertex_partitions, for the scheduler of a pool on machine m.  *)
Plan(m, n, mode, requested) ==
  LET parts == IF requested = 0 THEN Max({1, Len(m.topology)}) ELSE requested
      ranges == ContiguousPartitions(n, parts)
  IN  /\ planned' = [n |-> n, mode |-> mode,
                     parts |-> [p \in DOMAIN ranges |->
                                  [range |-> ranges[p], node |-> Placement(m.topology, mode, p - 1)]]]
      /\ machine' = m

NextPartitions ==
  \E m \in [topology : Topologies, workers : PoolSizes], mode \in {"off", "auto"},
     n, requested \in 0 .. MaxRanged : Plan(m, n, mode, requested)

-----------------------------------------------------------------------------
Within(v, part) == part.range.begin <= v /\ v < part.range.end

NumaNodeForVertex(v) ==
  LET found == {p \in DOMAIN planned.parts : Within(v, planned.parts[p])}
  IN  IF found = {} THEN NoNode ELSE planned.parts[Min(found)].node

NodeIds == {planned.parts[p].node : p \in DOMAIN planned.parts} \ {NoNode}

(* The index in the sorted node_ids_; an unknown node takes any.           *)
Rank(node) ==
  IF node \in NodeIds THEN Cardinality({m \in NodeIds : m < node}) ELSE node % Cardinality(NodeIds)

(* Mutant: a node's tasks go to as many adjacent queues. *)
QueueForNodeAdjacent(node, sequence) ==
  LET count == Cardinality(NodeIds)
      local == (machine.workers + count - 1) \div count
  IN  IF count = 0 THEN sequence % machine.workers
      ELSE ((Rank(node) * local) + (sequence % local)) % machine.workers

(* preferred_queue_for_node. *)
QueueForNode(node, sequence) ==
  LET count == Cardinality(NodeIds)
      local == (machine.workers + count - 1) \div count
  IN  IF count = 0 THEN sequence % machine.workers
      ELSE (Rank(node) + (sequence % local) * count) % machine.workers

QueueForVertex(v, sequence) ==
  IF NumaNodeForVertex(v) = NoNode THEN sequence % machine.workers
  ELSE QueueForNode(NumaNodeForVertex(v), sequence)

(* parallel_for_partitions: the queue of each partition's task. *)
PartitionQueue(p) ==
  IF planned.parts[p].node = NoNode THEN (p - 1) % machine.workers
  ELSE QueueForNode(planned.parts[p].node, p - 1)

-----------------------------------------------------------------------------
(* The ranges divide the vertices, each vertex's node is that of its one   *)
(* range, and their sizes differ by one at most.                           *)
RangesDivide ==
  LET parts == planned.parts
      size(p) == parts[p].range.end - parts[p].range.begin
  IN  parts # <<>> =>
        /\ \A v \in 0 .. planned.n - 1 :
             \E p \in DOMAIN parts :
               /\ {q \in DOMAIN parts : Within(v, parts[q])} = {p}
               /\ NumaNodeForVertex(v) = Placement(machine.topology, planned.mode, p - 1)
        /\ \A p, q \in DOMAIN parts : size(p) <= size(q) + 1

(* The workers are the same on every node, every node has a partition and *)
(* nodes were detected in ascending order.                                 *)
EvenMachine ==
  LET nodes == machine.topology
  IN  /\ planned.mode # "off" /\ nodes # <<>>
      /\ machine.workers % Len(nodes) = 0
      /\ NodeIds = ToSet(nodes)
      /\ \A i, j \in DOMAIN nodes : i < j => nodes[i] < nodes[j]

(* Every task gets a queue of the pool; on an even machine, the queue's    *)
(* worker is on the node of the task's data.                               *)
QueuesLocal ==
  LET good(queue, node) ==
        /\ queue \in 0 .. machine.workers - 1
        /\ EvenMachine => Placement(machine.topology, planned.mode, queue) = node
  IN  /\ \A v \in 0 .. planned.n - 1, sequence \in 0 .. 2 * machine.workers :
           good(QueueForVertex(v, sequence), NumaNodeForVertex(v))
      /\ \A p \in DOMAIN planned.parts : good(PartitionQueue(p), planned.parts[p].node)

(* Both: a task about a vertex runs where the vertex's range is.           *)
PlacementSound == RangesDivide /\ QueuesLocal
=============================================================================
