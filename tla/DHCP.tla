-------------------------------- MODULE DHCP --------------------------------
(***************************************************************************)
(* The address server (projects/dhcp/src/dhcp.c) and the trie it keeps its *)
(* books in (projects/dhcp/src/trie.c).  A node of the trie is the         *)
(* sequence of bits on its path; the trie maps the nodes that exist to     *)
(* their flags.                                                            *)
(***************************************************************************)
EXTENDS Integers, Sequences, SequencesExt, FiniteSetsExt

CONSTANTS
  Depth,      \* bits of a host number
  NetIP,      \* the address DHCPCreate is given
  Addresses   \* addresses clients ask for and give back, numbers

VARIABLES
  trie,     \* node -> [is_leaf, has_free]
  leased,   \* addresses clients were given and have not given back
  dhcpStatus,   \* what the last call returned
  dhcpTold  \* the last call agrees with the leases

dhcpVars == <<trie, leased, dhcpStatus, dhcpTold>>

Hosts == 0 .. 2 ^ Depth - 1
NoNode == <<2>>

-----------------------------------------------------------------------------
(* trie.c.  A result holds the trie t, the status s, the address ip and the *)
(* nodes malloc still gives.                                                *)

IsBitSet(value, bit) == (value \div 2 ^ bit) % 2
SetBit(value, bit) == IF IsBitSet(value, bit) = 1 THEN value ELSE value + 2 ^ bit

TRIECreateNode == [is_leaf |-> FALSE, has_free |-> TRUE]
TRIECreate == (<< >> :> TRIECreateNode)

HasFree(t, n) == n \in DOMAIN t /\ t[n].has_free

\* TRIEUpdateMetadata of the nodes on the path, from its end to its start.
TRIEUpdateMetadata(t, path) ==
  LET flag(acc, n) ==
        [acc EXCEPT ![n].has_free = \/ ~acc[n].is_leaf
                                    \/ {Append(n, 0), Append(n, 1)} \ DOMAIN acc # {}
                                    \/ HasFree(acc, Append(n, 0)) \/ HasFree(acc, Append(n, 1))]
  IN  FoldRight(LAMBDA n, acc : flag(acc, n), path, t)

Took(t, node, path, ip, room) ==
  [t |-> TRIEUpdateMetadata([t EXCEPT ![node].is_leaf = TRUE], path),
   s |-> "SUCCESS", ip |-> ip, room |-> room]

Refused(t, s, room) == [t |-> t, s |-> s, ip |-> 0, room |-> room]

\* AllocateAtTarget: the rest of the path is built node by node; what exists
\* when malloc fails stays.
RECURSIVE AllocateAtTarget(_, _, _, _, _, _)
AllocateAtTarget(t, node, path, bit, ip, room) ==
  IF bit < 0 THEN Took(t, node, path, ip, room)
  ELSE LET child == Append(node, IsBitSet(ip, bit)) IN
       IF child \in DOMAIN t THEN AllocateAtTarget(t, child, path, bit - 1, ip, room)
       ELSE IF room = 0 THEN Refused(t, "ALLOC_FAILURE", 0)
       ELSE AllocateAtTarget(t @@ (child :> TRIECreateNode), child, path, bit - 1, ip, room - 1)

\* TRIEInsertHelper from node down.  The pivot is the last node where the path
\* went left and a right child exists: FindAndAllocateNextFree starts there.
RECURSIVE TRIEInsertHelper(_, _, _, _, _, _, _, _)
TRIEInsertHelper(t, node, path, pivot, pivotBit, bit, ip, room) ==
  LET dir == IsBitSet(ip, bit)
      child == Append(node, dir)
      turn == bit >= 0 /\ dir = 0 /\ HasFree(t, Append(node, 1))
      pivot2 == IF turn THEN node ELSE pivot
      bit2 == IF turn THEN bit ELSE pivotBit
      next == TRIEInsertHelper(t, pivot2, << >>, NoNode, -1, bit2, SetBit(ip, bit2), room)
      nextFree == IF pivot2 = NoNode THEN Refused(t, "NO_IP_AVAILABLE", room)
                  ELSE IF next.s = "SUCCESS" THEN [next EXCEPT !.s = "IP_OCCUPIED_ALLOCATED_ANOTHER"]
                  ELSE next
  IN  IF bit < 0
      THEN IF t[node].is_leaf THEN nextFree ELSE Took(t, node, path, ip, room)
      ELSE IF child \notin DOMAIN t
           THEN AllocateAtTarget(t, node, Append(path, node), bit, ip, room)
      ELSE IF ~HasFree(t, child) THEN nextFree
      ELSE TRIEInsertHelper(t, child, Append(path, node), pivot2, bit2, bit - 1, ip, room)

TRIEInsert(t, ip, room) ==
  IF ~HasFree(t, << >>) THEN Refused(t, "NO_IP_AVAILABLE", room)
  ELSE TRIEInsertHelper(t, << >>, << >>, NoNode, -1, Depth - 1, ip, room)

\* TraversePath: the node of a host number, whether it exists or not.
PathOf(ip) == [i \in 1 .. Depth |-> IsBitSet(ip, Depth - i)]
TraversePath(t, ip) == IF PathOf(ip) \in DOMAIN t THEN PathOf(ip) ELSE NoNode

TRIESearch(t, ip) == LET n == TraversePath(t, ip) IN n # NoNode /\ t[n].is_leaf

TRIEFree(t, ip) ==
  LET n == TraversePath(t, ip)
      above == [i \in 1 .. Depth |-> SubSeq(PathOf(ip), 1, i - 1)]
  IN  IF n = NoNode THEN [t |-> t, s |-> "IP_NOT_FOUND"]
      ELSE IF ~t[n].is_leaf THEN [t |-> t, s |-> "DOUBLE_FREE"]
      ELSE [t |-> TRIEUpdateMetadata([t EXCEPT ![n].is_leaf = FALSE], above), s |-> "SUCCESS"]

\* A child that does not exist stands for a whole subtree of free addresses.
RECURSIVE TRIECountFree(_, _, _)
TRIECountFree(t, n, depth) ==
  IF depth = 0 THEN IF t[n].is_leaf THEN 0 ELSE 1
  ELSE MapThenSumSet(LAMBDA d : IF Append(n, d) \in DOMAIN t THEN TRIECountFree(t, Append(n, d), depth - 1)
                                ELSE 2 ^ (depth - 1), {0, 1})
       - (IF t[n].is_leaf THEN 1 ELSE 0)

-----------------------------------------------------------------------------
(* dhcp.c.                                                                  *)

Network == NetIP - (NetIP % 2 ^ Depth)               \* ConvertSubnetToUInt
ExtractHostFromIp(ip) == ip % 2 ^ Depth
BuildFullIp(host) == Network + host
Reserved == {0, 1, 2 ^ Depth - 1}
IsReservedHost(host) == host \in Reserved
FIRST_ALLOCATABLE_HOST == 2

\* DHCPCreate takes the reserved hosts; it gives up without memory.
DHCPCreate ==
  FoldLeft(LAMBDA t, host : TRIEInsert(t, host, Depth).t, TRIECreate, <<0, 1, 2 ^ Depth - 1>>)

\* The status is that of a taken address even if it was free.
AllocateNextAvailable(t, room) ==
  LET r == TRIEInsert(t, FIRST_ALLOCATABLE_HOST, room)
  IN  IF r.s = "SUCCESS" THEN [r EXCEPT !.s = "IP_OCCUPIED_ALLOCATED_ANOTHER"] ELSE r

\* Mutant: an address that is taken is given out again.
MutAllocate(t, ip, room) ==
  [t |-> t, s |-> "SUCCESS", ip |-> ExtractHostFromIp(ip), room |-> room]

\* After a request for a taken address the trie has taken another one already;
\* AllocateNextAvailable is called all the same and takes one more.
Allocate(t, ip, room) ==
  LET host == ExtractHostFromIp(ip)
      first == TRIEInsert(t, host, room)
  IN  IF ip = 0 \/ IsReservedHost(host) THEN AllocateNextAvailable(t, room)
      ELSE IF first.s \in {"IP_OCCUPIED_ALLOCATED_ANOTHER", "ALLOC_FAILURE"}
           THEN AllocateNextAvailable(first.t, first.room)
      ELSE first

\* DHCPCountFree subtracts the reserved hosts, which the trie counts as taken: it is
\* 3 less than the number of addresses that can still be given out.
DHCPCountFree(t) ==
  LET free == TRIECountFree(t, << >>, Depth) IN IF free > 3 THEN free - 3 ELSE 0

DHCPAllocateIP(ip, room) ==
  LET r == Allocate(trie, ip, room)
      granted == r.s \in {"SUCCESS", "IP_OCCUPIED_ALLOCATED_ANOTHER"}
  IN  /\ trie' = r.t
      /\ dhcpStatus' = r.s
      /\ leased' = IF granted THEN leased \union {BuildFullIp(r.ip)} ELSE leased
      /\ dhcpTold' = /\ granted => BuildFullIp(r.ip) \notin leased
                     /\ r.s = "SUCCESS" => r.ip = ExtractHostFromIp(ip)

DHCPFreeIP(ip) ==
  LET host == ExtractHostFromIp(ip)
      r == IF IsReservedHost(host) THEN [t |-> trie, s |-> "DOUBLE_FREE"] ELSE TRIEFree(trie, host)
  IN  /\ trie' = r.t
      /\ dhcpStatus' = r.s
      /\ leased' = leased \ {BuildFullIp(host)}
      /\ dhcpTold' = (BuildFullIp(host) \in leased => r.s = "SUCCESS")

DHCPInit ==
  /\ trie = DHCPCreate
  /\ leased = {}
  /\ dhcpStatus = "SUCCESS"
  /\ dhcpTold = TRUE

DHCPNext ==
  \E ip \in Addresses :
    \/ \E room \in 0 .. 2 * Depth : DHCPAllocateIP(ip, room)
    \/ DHCPFreeIP(ip)

DHCPSpec == DHCPInit /\ [][DHCPNext]_dhcpVars

-----------------------------------------------------------------------------
TakenHosts == {h \in Hosts : TRIESearch(trie, h)}

\* No address is with two clients, no reserved one is ever given out, a leased
\* address can be given back, also after malloc failed half-way down a path,
\* and the trie counts exactly the addresses that are not taken, of which
\* DHCPCountFree never reports too many (it reports 3 too few, where dhcp.h has it
\* count those that can be given out).
LeasesHold ==
  /\ dhcpTold
  /\ {ExtractHostFromIp(ip) : ip \in leased} \subseteq TakenHosts \ Reserved
  /\ Reserved \subseteq TakenHosts
  /\ \A ip \in leased : ip - ExtractHostFromIp(ip) = Network
  /\ TRIECountFree(trie, << >>, Depth) = Cardinality(Hosts \ TakenHosts)
  /\ DHCPCountFree(trie) <= Cardinality(Hosts \ TakenHosts)

\* What dhcp.h says of the status NO_IP_AVAILABLE: "No free IPs left".  The
\* search for another address only turns into right children that exist.
NoIPMeansNoneLeft == dhcpStatus = "NO_IP_AVAILABLE" => TakenHosts = Hosts

=============================================================================
