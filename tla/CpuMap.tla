------------------------------- MODULE CpuMap -------------------------------
(***************************************************************************)
(* kfio_map_cpus_to_read_queues (kcpu.c): which completion queue serves     *)
(* which processor.  One action takes every machine of the bounds, with a   *)
(* processor that may come online between the two times the code looks, and *)
(* keeps the map it computes.  read_queue_count is at least 1.              *)
(***************************************************************************)
EXTENDS Integers, FiniteSets

CONSTANTS
  NumCpus,        \* cpu_topology->numcpus
  NodesPossible,  \* num_possible_nodes()
  MaxQueues       \* the largest read_queue_count

ASSUME CpuMapBounds == {NumCpus, NodesPossible, MaxQueues} \subseteq Nat \ {0}

Cpus == 0 .. NumCpus - 1
Nodes == 0 .. NodesPossible - 1

VARIABLES
  cm_machine,     \* [node: cpu_to_node, nodes: num_online_nodes(), queues: read_queue_count,
                  \*  counted: the processors num_online_cpus() counted, online: those found later]
  cm_queue,       \* cpu_to_read_queue, as the index of the queue
  cm_used         \* the value returned

cmVars == <<cm_machine, cm_queue, cm_used>>

NoMachine == [node |-> [c \in Cpus |-> 0], nodes |-> 0, queues |-> 0, counted |-> {}, online |-> {}]

CpuMapInit ==
  /\ cm_machine = NoMachine
  /\ cm_queue = [c \in Cpus |-> 0]
  /\ cm_used = 0

Populated(m) == {m.node[c] : c \in Cpus}      \* node_hist[n] # 0

\* The scan for the next node with processors.  The word it reads behind the
\* histogram does not matter: the scan ends there whatever it holds.
NextNode(m, counter) ==
  CHOOSE k \in (counter + 1) .. (counter + NodesPossible) :
     /\ k >= m.nodes \/ k \in Populated(m)
     /\ \A j \in (counter + 1) .. (k - 1) : ~(j >= m.nodes \/ j \in Populated(m))

\* node_map: node_counter as it stands when the loop reaches the node.
NodeMap(m) ==
  LET counter[n \in 0 .. NodesPossible] ==
        IF n = 0 THEN 0
        ELSE IF n - 1 \in Populated(m) THEN NextNode(m, counter[n - 1]) ELSE counter[n - 1]
  IN [n \in Nodes |-> IF n \in Populated(m) THEN counter[n] ELSE 0]

\* A queue for each processor, ix as it stands when the loop reaches it: an offline
\* processor gets the queue of the next one that is online, and one behind the last
\* online processor the queue that would come next.
QueuePerCpu(m) ==
  LET ix[c \in 0 .. NumCpus] ==
        IF c = 0 THEN 0
        ELSE IF c - 1 \in m.online THEN (ix[c - 1] + 1) % m.queues ELSE ix[c - 1]
  IN [c \in Cpus |-> ix[c]]

Lower(a, b) == IF a < b THEN a ELSE b
CeilDiv(a, b) == (a + b - 1) \div b

NodesPerCluster(m) ==
  IF m.queues >= m.nodes THEN 1
  ELSE CHOOSE n \in 2 .. m.nodes : /\ CeilDiv(m.nodes, n) <= m.queues
                                   /\ \A k \in 2 .. n - 1 : CeilDiv(m.nodes, k) > m.queues

\* Mutant of QueuesPerCluster: the division rounds up.
OneQueuePerClusterMore(m) == IF m.queues >= m.nodes THEN CeilDiv(m.queues, m.nodes) ELSE 1

QueuesPerCluster(m) == IF m.queues >= m.nodes THEN m.queues \div m.nodes ELSE 1

\* Nodes in clusters, a cluster's processors in turn over its queues:
\* cpus_in_cluster counts the online ones the loop has passed.
QueuePerCluster(m) ==
  LET map == NodeMap(m)
      per == QueuesPerCluster(m)
      cluster == [c \in Cpus |-> map[m.node[c]] \div NodesPerCluster(m)]
      seen(c) == Cardinality({d \in m.online : d < c /\ cluster[d] = cluster[c]})
  IN [c \in Cpus |-> (cluster[c] * per) + (seen(c) % per)]

kfio_map_cpus_to_read_queues(m) ==
  IF m.queues >= Cardinality(m.counted)
  THEN [queue |-> QueuePerCpu(m), used |-> Lower(Cardinality(m.online), m.queues)]
  ELSE [queue |-> QueuePerCluster(m), used |-> CeilDiv(m.nodes, NodesPerCluster(m)) * QueuesPerCluster(m)]

\* Every online processor is on an online node; at most one more is online at
\* the second look.
MapCpus(m) ==
  /\ Cardinality({m.node[c] : c \in m.online}) <= m.nodes
  /\ Cardinality(m.online \ m.counted) <= 1
  /\ LET r == kfio_map_cpus_to_read_queues(m) IN
       /\ cm_machine' = m
       /\ cm_queue' = r.queue
       /\ cm_used' = r.used

CpuMapNext ==
  /\ cm_machine = NoMachine
  /\ \E node \in [Cpus -> Nodes], nodes \in 1 .. NodesPossible, queues \in 1 .. MaxQueues,
        online \in SUBSET Cpus : \E counted \in SUBSET online \ {{}} :
       MapCpus([node |-> node, nodes |-> nodes, queues |-> queues, counted |-> counted, online |-> online])

CpuMapSpec == CpuMapInit /\ [][CpuMapNext]_cmVars

CpuMapTypeOK == cm_queue \in [Cpus -> Nat] /\ cm_used \in Nat

\* The nodes with processors are the first ones, and all of them are online: the
\* case without "missing" nodes (the comment at node_map says those are
\* accounted for; they are not, see the README).
Dense(m) == Populated(m) = 0 .. m.nodes - 1

\* d is the first online processor from c on.
NextOnline(m, c, d) == d \in m.online /\ c <= d /\ \A e \in m.online : c <= e => d <= e

\* With a queue for each processor, or on such a machine, every processor is given
\* a queue that exists, and no more queues are reported as used than exist.  With a
\* queue for each processor, an offline processor shares its queue with the next
\* online one, and these queues are among the used ones (nothing is said of an
\* offline processor behind the last online one, whose queue is not counted,
\* see the README); no two online processors share one unless one more came online
\* than there are queues.  With fewer queues every processor's queue is among the
\* used ones, and with at least one queue per node processors of different nodes do
\* not share one (kfio_map_cpus_to_read_queues).
CpuQueuesInRange ==
  LET m == cm_machine
      each == m.queues >= Cardinality(m.counted)
  IN cm_machine # NoMachine =>
       /\ (each \/ Dense(m)) => cm_used <= m.queues /\ \A c \in Cpus : cm_queue[c] < m.queues
       /\ each => \A c, d \in Cpus : NextOnline(m, c, d) =>
                    cm_queue[c] = cm_queue[d] /\ cm_queue[c] < cm_used
       /\ each /\ m.queues >= Cardinality(m.online) =>
            \A c, d \in m.online : cm_queue[c] = cm_queue[d] => c = d
       /\ ~each /\ Dense(m) => \A c \in Cpus : cm_queue[c] < cm_used
       /\ ~each /\ Dense(m) /\ m.queues >= m.nodes =>
            \A c, d \in Cpus : cm_queue[c] = cm_queue[d] => m.node[c] = m.node[d]
=============================================================================
