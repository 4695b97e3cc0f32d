----------------------------- MODULE SearchTrees -----------------------------
(***************************************************************************)
(* The binary search tree with parent links (ds/src/bst.c).  The stub in   *)
(* the tree's struct is the parent of the root, its own right child and    *)
(* the end of every iteration.  Addresses are only compared for equality,  *)
(* so the node of a key is named after the key.                            *)
(*                                                                         *)
(* The AVL tree (ds/src/avl.c).  Every function takes a subtree and        *)
(* returns what replaces it, and no subtree is shared, so a subtree is a   *)
(* value: NULL is the empty sequence.                                      *)
(***************************************************************************)
EXTENDS Integers, Sequences, FiniteSets

CONSTANT BSTKeys   \* a set of positive numbers

VARIABLES
  bst,      \* the links of the nodes and of the stub
  bstKeys,  \* the keys the tree should hold
  bstTold   \* the last call returned what these keys say

bstVars == <<bst, bstKeys, bstTold>>

NIL == 0
Stub == -1
LEFT == "left"
RIGHT == "right"
TreeNodes == BSTKeys \union {Stub}

-----------------------------------------------------------------------------
(* Functions on a tree t = [left, right, parent].                           *)

\* CreateNode and free leave a node without links.
CreateNode == [left |-> NIL, right |-> NIL, parent |-> NIL]

BSTCreate == [n \in TreeNodes |-> IF n = Stub THEN [CreateNode EXCEPT !.right = Stub] ELSE CreateNode]

Root(t) == t[Stub].left
BSTIsEmpty(t) == Root(t) = NIL
BSTEnd(t) == t[Stub].right
IsLeftChild(t, n) == t[n].parent # NIL /\ t[t[n].parent].left = n

RECURSIVE Leftmost(_, _)
Leftmost(t, n) == IF t[n].left \in {NIL, n} THEN n ELSE Leftmost(t, t[n].left)

RECURSIVE Rightmost(_, _)
Rightmost(t, n) == IF t[n].right \in {NIL, n} THEN n ELSE Rightmost(t, t[n].right)

BSTBegin(t) == IF BSTIsEmpty(t) THEN BSTEnd(t) ELSE Leftmost(t, Root(t))

\* The first ancestor that n is not below on the given side; the stub at last.
RECURSIVE Climb(_, _, _)
Climb(t, n, side) ==
  IF t[n].parent = NIL THEN n
  ELSE IF t[t[n].parent][side] = n THEN Climb(t, t[n].parent, side)
  ELSE t[n].parent

StepInOrder(t, n, first) ==
  IF t[n][first] = NIL THEN Climb(t, n, first)
  ELSE IF first = RIGHT THEN Leftmost(t, t[n].right) ELSE Rightmost(t, t[n].left)

BSTNext(t, n) == StepInOrder(t, n, RIGHT)
BSTPrev(t, n) == StepInOrder(t, n, LEFT)

RECURSIVE IsBegin(_, _)
IsBegin(t, n) ==
  /\ t[n].left = NIL
  /\ \/ t[n].parent = NIL
     \/ t[t[n].parent].right # n /\ IsBegin([t EXCEPT ![t[n].parent].left = NIL], t[n].parent)

\* The nodes BSTForEach gives its action, which stops it after limit calls.
RECURSIVE BSTForEach(_, _, _, _)
BSTForEach(t, from, to, limit) ==
  IF from = to \/ limit = 0 THEN << >>
  ELSE <<from>> \o BSTForEach(t, BSTNext(t, from), to, limit - 1)

Whole == Cardinality(BSTKeys) + 1
BSTSize(t) == Len(BSTForEach(t, BSTBegin(t), BSTEnd(t), Whole))

RECURSIVE FindNode(_, _, _)
FindNode(t, n, key) ==
  IF n \in {NIL, key} THEN n
  ELSE FindNode(t, IF key > n THEN t[n].right ELSE t[n].left, key)

BSTFind(t, key) == LET n == FindNode(t, Root(t), key) IN IF n = NIL THEN BSTEnd(t) ELSE n

SetChildLink(t, up, side, n) ==
  LET linked == [t EXCEPT ![up][side] = n]
  IN  IF n = NIL THEN linked ELSE [linked EXCEPT ![n].parent = up]

\* The loop of BSTInsert: the node that takes the new one.
RECURSIVE ParentFor(_, _, _)
ParentFor(t, n, key) ==
  LET down == IF key > n THEN t[n].right ELSE t[n].left
  IN  IF down = NIL THEN n ELSE ParentFor(t, down, key)

BSTInsert(t, key) ==
  IF BSTIsEmpty(t) THEN SetChildLink(t, Stub, LEFT, key)
  ELSE LET up == ParentFor(t, Root(t), key)
       IN  SetChildLink(t, up, IF key < up THEN LEFT ELSE RIGHT, key)

ReplaceInParent(t, u, v) ==
  LET up == t[u].parent
  IN  SetChildLink(t, up, IF up = Stub \/ IsLeftChild(t, u) THEN LEFT ELSE RIGHT, v)

\* Mutant: the successor's right subtree is forgotten.
MutTakeSuccessor(t, n, next) ==
  IF t[next].parent = n THEN t
  ELSE SetChildLink(ReplaceInParent(t, next, NIL), next, RIGHT, t[n].right)

\* A successor that is no child of n leaves its place to its right child.
TakeSuccessor(t, n, next) ==
  IF t[next].parent = n THEN t
  ELSE SetChildLink(ReplaceInParent(t, next, t[next].right), next, RIGHT, t[n].right)

BSTRemove(t, n) ==
  LET next == BSTNext(t, n)
      bare == TakeSuccessor(t, n, next)
      cut  == IF t[n].left = NIL THEN ReplaceInParent(t, n, t[n].right)
              ELSE IF t[n].right = NIL THEN ReplaceInParent(t, n, t[n].left)
              ELSE SetChildLink(ReplaceInParent(bare, n, next), next, LEFT, t[n].left)
  IN  [cut EXCEPT ![n] = CreateNode]

\* BSTDestroy goes down to a leaf, unlinks it and goes on at its parent until
\* the tree is empty.
RECURSIVE BSTDestroy(_, _)
BSTDestroy(t, n) ==
  IF BSTIsEmpty(t) THEN t
  ELSE IF t[n].left # NIL THEN BSTDestroy(t, t[n].left)
  ELSE IF t[n].right # NIL THEN BSTDestroy(t, t[n].right)
  ELSE LET up == t[n].parent
           side == IF t[up].left = n THEN LEFT ELSE RIGHT
       IN  BSTDestroy([t EXCEPT ![up][side] = NIL, ![n] = CreateNode], up)

-----------------------------------------------------------------------------
(* The calls a program makes.                                               *)

\* A key may be inserted once; malloc may fail.
BSTInsertCall(key, malloc) ==
  /\ key \notin bstKeys
  /\ bst' = IF malloc THEN BSTInsert(bst, key) ELSE bst
  /\ bstKeys' = IF malloc THEN bstKeys \union {key} ELSE bstKeys
  /\ bstTold' = ((IF malloc THEN key ELSE BSTEnd(bst)) = BSTFind(bst', key))

BSTRemoveCall(key) ==
  /\ key \in bstKeys
  /\ bst' = BSTRemove(bst, BSTFind(bst, key))
  /\ bstKeys' = bstKeys \ {key}
  /\ bstTold' = TRUE

BSTDestroyCall ==
  /\ bst' = BSTDestroy(bst, Root(bst))
  /\ bstKeys' = {}
  /\ bstTold' = TRUE

BSTInit ==
  /\ bst = BSTCreate
  /\ bstKeys = {}
  /\ bstTold = TRUE

BSTNextCall ==
  \/ \E key \in BSTKeys :
       \/ \E malloc \in BOOLEAN : BSTInsertCall(key, malloc)
       \/ BSTRemoveCall(key)
  \/ BSTDestroyCall

-----------------------------------------------------------------------------
\* Whatever was inserted and removed, iterating forwards gives the keys in
\* order, BSTPrev undoes BSTNext, every key and no other is found, parents and
\* children agree, and no node outside of the tree has a link.
TreeIsTheSet ==
  LET r == BSTForEach(bst, BSTBegin(bst), BSTEnd(bst), Whole) IN
  /\ bstTold
  /\ {r[i] : i \in DOMAIN r} = bstKeys
  /\ \A i \in 1 .. Len(r) - 1 : r[i] < r[i + 1] /\ BSTPrev(bst, r[i + 1]) = r[i]
  /\ BSTSize(bst) = Cardinality(bstKeys)
  /\ bstKeys # {} => BSTPrev(bst, BSTEnd(bst)) = r[Len(r)]
  /\ \A n \in bstKeys \union {Stub} : IsBegin(bst, n) <=> n = BSTBegin(bst)
  /\ \A key \in BSTKeys : BSTFind(bst, key) = IF key \in bstKeys THEN key ELSE Stub
  /\ \A n \in TreeNodes : \A kid \in {bst[n].left, bst[n].right} \ {NIL, Stub} : bst[kid].parent = n
  /\ \A n \in BSTKeys \ bstKeys : bst[n] = CreateNode

-----------------------------------------------------------------------------

CONSTANT AVLKeys   \* a set of numbers

VARIABLES
  avl,      \* the tree
  avlKeys,  \* the keys it should hold
  avlTold   \* the last call did and returned what these keys say

avlVars == <<avl, avlKeys, avlTold>>

NoTree == << >>

-----------------------------------------------------------------------------
NodeHeight(t) == IF t = NoTree THEN 0 ELSE t.height

MAX2(a, b) == IF a > b THEN a ELSE b

\* A node with these children, after FixHeight.
FixHeight(l, x, r) ==
  [data |-> x, left |-> l, right |-> r, height |-> 1 + MAX2(NodeHeight(l), NodeHeight(r))]

BalanceFactor(t) == NodeHeight(t.left) - NodeHeight(t.right)

\* Mutant: the left child of the right child is dropped.
MutRotateLeft(t) == FixHeight(FixHeight(t.left, t.data, NoTree), t.right.data, t.right.right)

RotateLeft(t) == FixHeight(FixHeight(t.left, t.data, t.right.left), t.right.data, t.right.right)

RotateRight(t) == FixHeight(t.left.left, t.left.data, FixHeight(t.left.right, t.data, t.right))

Rebalance(t) ==
  LET l == IF BalanceFactor(t.left) < 0 THEN RotateLeft(t.left) ELSE t.left
      r == IF BalanceFactor(t.right) > 0 THEN RotateRight(t.right) ELSE t.right
  IN  IF BalanceFactor(t) > 1 THEN RotateRight([t EXCEPT !.left = l])
      ELSE IF BalanceFactor(t) < -1 THEN RotateLeft([t EXCEPT !.right = r])
      ELSE t

\* The NULL of a CreateNode that fails stays where the new node would be.
RECURSIVE InsertRec(_, _, _)
InsertRec(t, x, malloc) ==
  IF t = NoTree THEN IF malloc THEN FixHeight(NoTree, x, NoTree) ELSE NoTree
  ELSE Rebalance(IF x < t.data THEN FixHeight(InsertRec(t.left, x, malloc), t.data, t.right)
                               ELSE FixHeight(t.left, t.data, InsertRec(t.right, x, malloc)))

\* PopMin: the smallest key, and the subtree without it; it does not rebalance.
RECURSIVE PopMin(_)
PopMin(t) ==
  IF t.left = NoTree THEN [min |-> t.data, rest |-> t.right]
  ELSE LET p == PopMin(t.left) IN [min |-> p.min, rest |-> FixHeight(p.rest, t.data, t.right)]

RECURSIVE RemoveRec(_, _)
RemoveRec(t, x) ==
  IF t = NoTree THEN t
  ELSE IF x < t.data THEN Rebalance(FixHeight(RemoveRec(t.left, x), t.data, t.right))
  ELSE IF x > t.data THEN Rebalance(FixHeight(t.left, t.data, RemoveRec(t.right, x)))
  ELSE IF t.left = NoTree THEN t.right
  ELSE IF t.right = NoTree THEN t.left
  ELSE LET p == PopMin(t.right) IN Rebalance(FixHeight(t.left, p.min, p.rest))

RECURSIVE FindRec(_, _)
FindRec(t, x) ==
  IF t = NoTree THEN FALSE
  ELSE \/ x = t.data
       \/ x < t.data /\ FindRec(t.left, x)
       \/ x > t.data /\ FindRec(t.right, x)

\* AVLForEach: what the action sees in each order.
RECURSIVE PreTraversalOrder(_)
PreTraversalOrder(t) ==
  IF t = NoTree THEN << >>
  ELSE <<t.data>> \o PreTraversalOrder(t.left) \o PreTraversalOrder(t.right)

RECURSIVE InTraversalOrder(_)
InTraversalOrder(t) ==
  IF t = NoTree THEN << >>
  ELSE InTraversalOrder(t.left) \o <<t.data>> \o InTraversalOrder(t.right)

RECURSIVE PostTraversalOrder(_)
PostTraversalOrder(t) ==
  IF t = NoTree THEN << >>
  ELSE PostTraversalOrder(t.left) \o PostTraversalOrder(t.right) \o <<t.data>>

AVLHeight(t) == NodeHeight(t)
AVLCount(t) == Len(PreTraversalOrder(t))

\* DestroyRec frees the children before the node.
DestroyRec(t) == PostTraversalOrder(t)

\* All subtrees; in a balanced tree no node has children whose heights differ by two.
RECURSIVE Subtrees(_)
Subtrees(t) == IF t = NoTree THEN {} ELSE {t} \union Subtrees(t.left) \union Subtrees(t.right)

Balanced(t) == \A s \in Subtrees(t) : BalanceFactor(s) \in -1 .. 1

-----------------------------------------------------------------------------
(* The calls a program makes.                                               *)

\* The status is -1 when malloc fails.
AVLInsert(x, malloc) ==
  /\ x \notin avlKeys
  /\ avl' = InsertRec(avl, x, malloc)
  /\ avlKeys' = IF malloc THEN avlKeys \union {x} ELSE avlKeys
  /\ avlTold' = (malloc <=> FindRec(avl', x))

\* On the way back from a key that is not there, subtrees are rebalanced too; PopMin
\* may have left some whose heights differ by two.
AVLRemove(x) ==
  /\ avl' = RemoveRec(avl, x)
  /\ avlKeys' = avlKeys \ {x}
  /\ avlTold' = (x \notin avlKeys /\ Balanced(avl) => avl' = avl)

\* AVLDestroy gives back every node once.
AVLDestroy ==
  /\ avl' = NoTree
  /\ avlKeys' = {}
  /\ avlTold' = (Len(DestroyRec(avl)) = Cardinality(avlKeys))

AVLInit ==
  /\ avl = NoTree
  /\ avlKeys = {}
  /\ avlTold = TRUE

AVLNext ==
  \/ \E x \in AVLKeys :
       \/ \E malloc \in BOOLEAN : AVLInsert(x, malloc)
       \/ AVLRemove(x)
  \/ AVLDestroy

AVLSpec == AVLInit /\ [][AVLNext]_avlVars

-----------------------------------------------------------------------------
\* Through every rotation the tree holds its keys in order, every key and no
\* other is found, and each node's height is one more than that of its higher
\* child.  Removing a key that is not there leaves a balanced tree as it is (one that
\* PopMin has left unbalanced may be rotated).
KeysInOrder ==
  LET r == InTraversalOrder(avl) IN
  /\ avlTold
  /\ {r[i] : i \in DOMAIN r} = avlKeys /\ Len(r) = Cardinality(avlKeys)
  /\ \A i \in 1 .. Len(r) - 1 : r[i] < r[i + 1]
  /\ \A x \in AVLKeys : FindRec(avl, x) <=> x \in avlKeys
  /\ AVLCount(avl) = Cardinality(avlKeys)
  /\ \A t \in Subtrees(avl) : t.height = 1 + MAX2(NodeHeight(t.left), NodeHeight(t.right))
  /\ (AVLHeight(avl) = 0) <=> (avlKeys = {})

==============================================================================
