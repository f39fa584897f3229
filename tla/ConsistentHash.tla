--------------------------- MODULE ConsistentHash ---------------------------
(***************************************************************************)
(* consistent_hash_code.go: a ring on which every node has nodesReplicas   *)
(* points.  crc is CRC-32 on the names of the points: any function, with   *)
(* or without collisions.  A key matters only by its hash value, so keys   *)
(* are hash values here.                                                   *)
(***************************************************************************)
EXTENDS Sorting, FiniteSetsExt, Functions

CONSTANTS Node, nodesReplicas,
          MAXI     \* the largest hash value (2^32 - 1)

ASSUME SizeAssumption == nodesReplicas \in Nat \ {0} /\ MAXI \in Nat \ {0}

VARIABLES crc,            \* the hash of "node#i"
          nodes,          \* c.nodes, a set
          circle,         \* c.circle: hash values -> nodes
          hashSortNodes

ringVars == <<crc, nodes, circle, hashSortNodes>>

Hash     == 0 .. MAXI
Replicas == 0 .. nodesReplicas - 1

RingTypeOK ==
  /\ crc \in [Node \X Replicas -> Hash]
  /\ nodes \subseteq Node
  /\ circle \in [DOMAIN circle -> nodes] /\ DOMAIN circle \subseteq Hash
  /\ hashSortNodes \in Seq(Hash)

getReplicaKey(i, node) == crc[<<node, i>>]
ReplicaKeys(node)      == [i \in 1 .. nodesReplicas |-> getReplicaKey(i - 1, node)]
Points(node)           == Range(ReplicaKeys(node))

(* A new ring is empty. *)
NewConsistent ==
  /\ crc \in [Node \X Replicas -> Hash]
  /\ nodes = {}
  /\ circle = <<>>
  /\ hashSortNodes = <<>>

(* The points of a new node go to it, whosever they were. *)
CircleWith(node) == [p \in Points(node) \cup DOMAIN circle |->
                       IF p \in Points(node) THEN node ELSE circle[p]]

(* Fault: the new points stay behind the others. *)
AddUnsorted(node) ==
  /\ node \notin nodes
  /\ nodes' = nodes \cup {node}
  /\ circle' = CircleWith(node)
  /\ hashSortNodes' = hashSortNodes \o ReplicaKeys(node)
  /\ UNCHANGED crc

(* Fault: the index is made anew from the new points only.                  *)
AddAnew(node) ==
  /\ node \notin nodes
  /\ nodes' = nodes \cup {node}
  /\ circle' = CircleWith(node)
  /\ hashSortNodes' = Sorted(ReplicaKeys(node))
  /\ UNCHANGED crc

(* Add: a point that another node has too then occurs twice in hashSortNodes. *)
AddNode(node) ==
  /\ node \notin nodes
  /\ nodes' = nodes \cup {node}
  /\ circle' = CircleWith(node)
  /\ hashSortNodes' = Sorted(hashSortNodes \o ReplicaKeys(node))
  /\ UNCHANGED crc

(* The points of the circle, each once.                                     *)
refreshHashSortNode(points) == Ascending(points)

(* Fault: the points are taken off the circle but stay in the index.        *)
RemoveUnrefreshed(node) ==
  /\ node \notin nodes
  /\ LET kept == DOMAIN circle \ Points(node)
     IN  /\ nodes' = nodes \ {node}
         /\ circle' = [p \in kept |-> circle[p]]
         /\ UNCHANGED <<crc, hashSortNodes>>

(* Remove: it goes on for the nodes that are not there, whose points may be *)
(* another's.                                                               *)
RemoveNode(node) ==
  /\ node \notin nodes
  /\ LET kept == DOMAIN circle \ Points(node)
     IN  /\ nodes' = nodes \ {node}
         /\ circle' = [p \in kept |-> circle[p]]
         /\ hashSortNodes' = refreshHashSortNode(kept)
         /\ UNCHANGED crc

(* Of a node that is in the ring Add returns "already exists", and Remove   *)
(* "not exists".                                                            *)
Refuse(node) == node \in nodes /\ UNCHANGED ringVars

RingNext == \E node \in Node : AddNode(node) \/ RemoveNode(node) \/ Refuse(node)

RingSpec == NewConsistent /\ [][RingNext]_ringVars

---------------------------------------------------------------------------
(* Get, which does not change the ring: the node that has key h.  It fails  *)
(* with an error when there are no nodes, and the division of searchByIndex *)
(* panics when there are nodes and no points.                               *)
searchByIndex(h) ==
  LET index == SortSearch(hashSortNodes, h)
  IN  IF index >= Len(hashSortNodes) THEN index % Len(hashSortNodes) ELSE index

Get(h) == circle[hashSortNodes[searchByIndex(h) + 1]]

CanGet == nodes # {} /\ hashSortNodes # <<>>

(* The point a key belongs to: the first at or after it, clockwise.         *)
Clockwise(points, h) == LET after == {p \in points : p >= h}
                        IN  IF after # {} THEN Min(after) ELSE Min(points)

(* No two points have one hash value. *)
Injective == \A m, n \in DOMAIN crc : crc[m] = crc[n] => m = n

(* However nodes came and collided, Get finds the key's clockwise successor *)
(* among the points of the circle (searchByIndex, on an index that may hold *)
(* points twice).                                                           *)
GetIsSuccessor ==
  /\ RingTypeOK
  /\ Range(hashSortNodes) = DOMAIN circle
  /\ CanGet => \A h \in Hash : Get(h) = circle[Clockwise(DOMAIN circle, h)]

(* Monotonicity, with and without collisions: a new node takes keys for     *)
(* itself and moves none between the others.                                *)
Monotone ==
  [][ nodes' # nodes /\ CanGet =>
        \A h \in Hash : Get(h)' = Get(h) \/ Get(h)' \in nodes' \ nodes ]_ringVars

(* Without collisions every node of the ring keeps all its points and some  *)
(* key is its own, whatever Remove was called with.                         *)
MembersServed ==
  Injective => \A node \in nodes :
                 /\ \A p \in Points(node) : circle[p] = node
                 /\ \E h \in Hash : Get(h) = node
============================================================================
