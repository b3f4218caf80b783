---------------------------- MODULE SparseTree ----------------------------
(***************************************************************************)
(* DldSparseFile: the B-tree that tells where the blocks of an isolated    *)
(* file are kept, the list of its keys in the order of their time stamps,  *)
(* and the cache of its nodes.                                             *)
(*                                                                         *)
(* The lock of the file is held exclusively over each operation, so that   *)
(* each is one action.  A node stands for its offset: a tree is a node     *)
(* with the trees of its children.  The reads and writes of nodes succeed. *)
(* The links of the list are kept in the entries of the keys; the list is  *)
(* the sequence of the keys that are met on the way along them, from       *)
(* oldestWrittenBlock.  Writers hold the lock of the vnode from the time   *)
(* they take their stamp, so that a stamp is never smaller than the ones   *)
(* in the list.                                                            *)
(*                                                                         *)
(* A node whose copy in memory was changed is "dirty" once it was given to *)
(* BTreeFlushNode, and written when it leaves the cache; it is "stale" if  *)
(* it was not, and its change is lost then.                                *)
(***************************************************************************)
EXTENDS Integers, Sequences, SequencesExt, FiniteSetsExt

CONSTANTS
  BTreeOrder,   (* at most 2 * BTreeOrder - 1 keys in a node               *)
  Blocks,       (* the number of blocks of the file                        *)
  Requests,     (* bound: the first and last block of each write           *)
  Sizes         (* bound: the sizes that the file is truncated to          *)

TreeAssumption ==
  BTreeOrder \in Nat \ {0, 1} /\ Blocks \in Nat \ {0}
  /\ Requests \subseteq (0 .. Blocks - 1) \X (0 .. Blocks - 1) /\ Sizes \subseteq Nat

VARIABLES
  root,      (* sparseFileOffsetBTree->root                                *)
  tags,      (* the list of the keys, from oldestWrittenBlock              *)
  damaged,   (* sparseFileOffsetBTree->damaged                             *)
  written,   (* history: the blocks to be kept, as they were last written  *)
  inner      (* history: a key was deleted that stood in an inner node     *)

vars == << root, tags, damaged, written, inner >>

----------------------------------------------------------------------------
(* Nodes *)

Node(keys, kids) == [keys |-> keys, kids |-> kids, sync |-> "dirty"]
Leaf(n) == n.kids = << >>
Full(n) == Len(n.keys) = 2 * BTreeOrder - 1
Spare(n) == Len(n.keys) > BTreeOrder - 1
Part(s, from, to) == IF s = << >> THEN s ELSE SubSeq(s, from, to)

(* BTreeFlushNode of a cached node, and a change without it.               *)
Flushed(n) == [n EXCEPT !.sync = "dirty"]
Unflushed(n) == [n EXCEPT !.sync = IF @ = "clean" THEN "stale" ELSE @]
ParentUnflushed(p, keys, kids) == Unflushed([p EXCEPT !.keys = keys, !.kids = kids])
Parent(p, keys, kids) == Flushed([p EXCEPT !.keys = keys, !.kids = kids])

RECURSIVE KeysOf(_)
KeysOf(n) == ToSet(n.keys) \cup UNION {KeysOf(n.kids[i]) : i \in DOMAIN n.kids}

RECURSIVE Marked(_, _)   (* the nodes of some keys are flushed *)
Marked(n, keys) ==
  LET m == [n EXCEPT !.kids = [i \in DOMAIN @ |-> Marked(@[i], keys)]] IN
  IF ToSet(n.keys) \cap keys # {} THEN Flushed(m) ELSE m

(* BTreeGetKeyIndex: the place of the first key that is not smaller.       *)
RECURSIVE Narrow(_, _, _, _)
Narrow(keys, k, l, r) ==
  LET i == l + (r - l) \div 2 IN
  IF l >= r THEN l
  ELSE IF k > keys[i] THEN Narrow(keys, k, i + 1, r)
  ELSE IF k < keys[i] THEN Narrow(keys, k, l, i - 1) ELSE i
KeyIndexHit(n, k) == IF n.keys = << >> THEN 1 ELSE Narrow(n.keys, k, 1, Len(n.keys))
KeyIndex(n, k) ==
  IF n.keys = << >> THEN 1
  ELSE LET i == Narrow(n.keys, k, 1, Len(n.keys)) IN IF k > n.keys[i] THEN i + 1 ELSE i
HasAt(n, i, k) == i \in DOMAIN n.keys /\ n.keys[i] = k

RECURSIVE GetNodeByKey(_, _)   (* whether the search ends at the key *)
GetNodeByKey(n, k) ==
  LET i == KeyIndex(n, k) IN
  HasAt(n, i, k) \/ (~Leaf(n) /\ GetNodeByKey(n.kids[i], k))

RECURSIVE MaxKey(_)
MaxKey(n) == IF Leaf(n) THEN Last(n.keys) ELSE MaxKey(Last(n.kids))
RECURSIVE MinKey(_)
MinKey(n) == IF Leaf(n) THEN Head(n.keys) ELSE MinKey(Head(n.kids))

----------------------------------------------------------------------------
(* BTreeInsertKey *)

SplitChild(p, i) ==
  LET c == p.kids[i]
      left == Node(SubSeq(c.keys, 1, BTreeOrder - 1), Part(c.kids, 1, BTreeOrder))
      right == Node(SubSeq(c.keys, BTreeOrder + 1, 2 * BTreeOrder - 1),
                    Part(c.kids, BTreeOrder + 1, 2 * BTreeOrder)) IN
  Parent(p, InsertAt(p.keys, i, c.keys[BTreeOrder]),
         InsertAt(ReplaceAt(p.kids, i, right), i, left))

RECURSIVE InsertNonfull(_, _)
InsertNonfull(n, k) ==
  LET i == KeyIndex(n, k)
      s == IF ~Leaf(n) /\ Full(n.kids[i]) THEN SplitChild(n, i) ELSE n IN
  IF Leaf(n) THEN Node(InsertAt(n.keys, i, k), << >>)
  ELSE [s EXCEPT !.kids[KeyIndex(s, k)] = InsertNonfull(@, k)]

InsertKey(n, k) ==
  InsertNonfull(IF Full(n) THEN SplitChild(Node(<< >>, << n >>), 1) ELSE n, k)

----------------------------------------------------------------------------
(* BTreeDeleteKey *)

MergeSiblings(p, index) ==
  LET i == IF index = Len(p.kids) THEN index - 1 ELSE index
      n1 == p.kids[i]
      n2 == p.kids[i + 1]
      new == Node(n1.keys \o << p.keys[i] >> \o n2.keys, n1.kids \o n2.kids) IN
  Parent(p, RemoveAt(p.keys, i), ReplaceAt(RemoveAt(p.kids, i), i, new))

(* BTreeMoveKey from the right child of the i-th key to the left, and back *)
MoveLeft(p, i) ==
  LET l == p.kids[i]
      r == p.kids[i + 1]
      lchild == Node(Append(l.keys, p.keys[i]), l.kids \o Part(r.kids, 1, 1))
      rchild == Node(Tail(r.keys), Part(r.kids, 2, Len(r.kids))) IN
  Parent(p, [p.keys EXCEPT ![i] = Head(r.keys)],
         [p.kids EXCEPT ![i] = lchild, ![i + 1] = rchild])
MoveRight(p, i) ==
  LET l == p.kids[i]
      r == p.kids[i + 1]
      lchild == Node(Front(l.keys), Part(l.kids, 1, Len(l.kids) - 1))
      rchild == Node(<< p.keys[i] >> \o r.keys,
                     Part(l.kids, Len(l.kids), Len(l.kids)) \o r.kids) IN
  Parent(p, [p.keys EXCEPT ![i] = Last(l.keys)],
         [p.kids EXCEPT ![i] = lchild, ![i + 1] = rchild])

(* Case 3: the child that is descended to gets a key to spare.             *)
PreparedNever(p, i) == p
Prepared(p, i) ==
  IF Spare(p.kids[i]) THEN p
  ELSE IF i < Len(p.kids) /\ Spare(p.kids[i + 1]) THEN MoveLeft(p, i)
  ELSE IF i > 1 /\ Spare(p.kids[i - 1]) THEN MoveRight(p, i - 1)
  ELSE MergeSiblings(p, i)

(* BTreeMergeNodes, and the parent loses the key and a child: case 2c.     *)
Combined(n, i) ==
  LET n1 == n.kids[i]
      n2 == n.kids[i + 1]
      new == Node(n1.keys \o << n.keys[i] >> \o n2.keys, n1.kids \o n2.kids) IN
  ParentUnflushed(n, RemoveAt(n.keys, i), ReplaceAt(RemoveAt(n.kids, i), i, new))

(* The key that takes the place of k if k stands in an inner node, or k:   *)
(* the entry that leaves the list together with its leaf.                  *)
RECURSIVE Leaving(_, _)
Leaving(n, k) ==
  LET i == KeyIndex(n, k) IN
  IF HasAt(n, i, k) /\ ~Leaf(n)
  THEN IF Spare(n.kids[i]) THEN MaxKey(n.kids[i])
       ELSE IF Spare(n.kids[i + 1]) THEN MinKey(n.kids[i + 1]) ELSE k
  ELSE IF Leaf(n) THEN k
  ELSE LET p == Prepared(n, i) IN Leaving(p.kids[KeyIndex(p, k)], k)

(* If an entry cannot leave the list its key stays in the leaf.            *)
RECURSIVE Deleted(_, _, _)
Deleted(n, k, unlisted) ==
  LET i == KeyIndex(n, k) IN
  IF Leaf(n) THEN IF unlisted THEN Node(RemoveAt(n.keys, i), << >>) ELSE n
  ELSE IF ~HasAt(n, i, k)
  THEN LET p == Prepared(n, i) IN
       [p EXCEPT !.kids[KeyIndex(p, k)] = Deleted(@, k, unlisted)]
  ELSE IF Spare(n.kids[i])                                      \* 2a
  THEN LET other == MaxKey(n.kids[i]) IN
       Unflushed([n EXCEPT !.keys[i] = other, !.kids[i] = Deleted(@, other, unlisted)])
  ELSE IF Spare(n.kids[i + 1])                                  \* 2b
  THEN LET other == MinKey(n.kids[i + 1]) IN
       Unflushed([n EXCEPT !.keys[i] = other, !.kids[i + 1] = Deleted(@, other, unlisted)])
  ELSE LET p == Combined(n, i) IN                               \* 2c
       [p EXCEPT !.kids[i] = Deleted(@, k, unlisted)]

(* A root without keys is replaced by its child.                           *)
EmptyRootKept(n) == n
WithoutEmptyRoot(n) == IF n.keys = << >> /\ ~Leaf(n) THEN n.kids[1] ELSE n

RECURSIVE InInnerNode(_, _)
InInnerNode(n, k) ==
  ~Leaf(n) /\ (k \in ToSet(n.keys) \/ \E i \in DOMAIN n.kids : InInnerNode(n.kids[i], k))

RECURSIVE Stale(_)
Stale(n) == n.sync = "stale" \/ \E i \in DOMAIN n.kids : Stale(n.kids[i])

----------------------------------------------------------------------------
(* The list *)

Neighbours(list, k) ==
  LET n == Len(list)
      i == CHOOSE j \in DOMAIN list : list[j] = k IN
  {list[(i % n) + 1], list[((i + n - 2) % n) + 1]}

(* BTreeDeleteFromTagsListPosition: the head is followed by the tail.      *)
Unlisted(list, k) ==
  IF Head(list) # k THEN SelectSeq(list, LAMBDA e : e # k)
  ELSE IF Len(list) = 1 THEN << >>
  ELSE << Last(list) >> \o SubSeq(list, 2, Len(list) - 1)

(* BTreeUpdateTagsListPosition of the key with the biggest stamp           *)
Listed(list, k) == Append(list, k)
Ends(list) == IF list = << >> THEN {} ELSE {Head(list), Last(list)}

----------------------------------------------------------------------------
(* What follows an error, or an entry of the list that is not in the tree, *)
(* is left open.                                                           *)
Works == ~damaged /\ ToSet(tags) = KeysOf(root)

Stamped(list, k) == Append(SelectSeq(list, LAMBDA e : e # k), k)

(* performIO, for a block that is not kept yet and for one that is: the    *)
(* new stamp is bigger than the others.                                    *)
WrittenNew(s, k) ==
  [root |-> Marked(InsertKey(s.root, k), {k} \cup Ends(s.tags)), tags |-> Listed(s.tags, k)]
WrittenKept(s, k) ==
  LET rest == Unlisted(s.tags, k) IN
  [root |-> Marked(s.root, {k} \cup Neighbours(s.tags, k) \cup Ends(rest)),
   tags |-> Listed(rest, k)]
Written(s, k) == IF GetNodeByKey(s.root, k) THEN WrittenKept(s, k) ELSE WrittenNew(s, k)
Keys(from, to) == [i \in 1 .. to - from + 1 |-> from + i - 1]
PerformIO(from, to) ==
  /\ Works
  /\ LET s == FoldLeft(Written, [root |-> root, tags |-> tags], Keys(from, to)) IN
     root' = s.root /\ tags' = s.tags
  /\ written' = FoldLeft(Stamped, written, Keys(from, to))
  /\ UNCHANGED << damaged, inner >>

(* flushUpToTimeStamp: the lock is released after each block of the list.  *)
Flush ==
  /\ Works /\ tags # << >>
  /\ LET k == Head(tags)
         gone == Leaving(root, k)
         near == Neighbours(tags, gone)
         fails == gone # k /\ k \in near IN
     /\ damaged' = fails
     /\ root' = LET n == WithoutEmptyRoot(Deleted(root, k, ~fails)) IN
                IF fails THEN n ELSE Marked(n, near)
     /\ tags' = IF fails THEN tags ELSE Unlisted(tags, gone)
     /\ written' = SelectSeq(written, LAMBDA e : e # k)
     /\ inner' = (inner \/ InInnerNode(root, k))

(* purgeFromOffset: the biggest key is deleted until it is small enough.   *)
RECURSIVE LastLeafDeleted(_)
LastLeafDeleted(n) ==
  IF Leaf(n) THEN Node(Front(n.keys), << >>)
  ELSE [n EXCEPT !.kids[Len(n.kids)] = LastLeafDeleted(@)]
RECURSIVE LastLeaf(_)
LastLeaf(n) == IF Leaf(n) THEN n ELSE LastLeaf(Last(n.kids))
WithoutMax(n) ==
  IF Leaf(n) \/ Spare(LastLeaf(n)) THEN LastLeafDeleted(n)
  ELSE WithoutEmptyRoot(Deleted(n, MaxKey(n), TRUE))
RECURSIVE Purged(_, _)
Purged(s, from) ==
  IF KeysOf(s.root) = {} THEN s
  ELSE LET k == MaxKey(s.root) IN
       IF k < from THEN s
       ELSE Purged([root |-> Marked(WithoutMax(s.root), Neighbours(s.tags, k)),
                    tags |-> Unlisted(s.tags, k)], from)
Purge(from) ==
  /\ Works /\ written # << >>
  /\ LET s == Purged([root |-> root, tags |-> tags], from) IN
     root' = s.root /\ tags' = s.tags
  /\ written' = SelectSeq(written, LAMBDA e : e < from)
  /\ UNCHANGED << damaged, inner >>

(* flushAndPurgeCachedNodes: the nodes that were not accessed lately, by   *)
(* the search for a key for example, leave the cache.                      *)
RECURSIVE Cleaned(_)
Cleaned(n) == [keys |-> n.keys, kids |-> [i \in DOMAIN n.kids |-> Cleaned(n.kids[i])],
               sync |-> "clean"]
RECURSIVE Evicted(_, _)
Evicted(n, key) ==
  LET i == KeyIndex(n, key) IN
  [n EXCEPT !.kids = [j \in DOMAIN @ |->
    IF j = i /\ ~HasAt(n, i, key) THEN Evicted(@[j], key) ELSE Cleaned(@[j])]]
Evict(key) ==
  /\ Works /\ ~Stale(root)
  /\ root' = Evicted(root, key)
  /\ UNCHANGED << tags, damaged, written, inner >>

Init ==
  /\ root = [keys |-> << >>, kids |-> << >>, sync |-> "clean"]
  /\ tags = << >> /\ damaged = FALSE /\ written = << >> /\ inner = FALSE

Next ==
  \/ \E r \in Requests : PerformIO(r[1], r[2])
  \/ Flush
  \/ \E from \in Sizes : Purge(from)
  \/ \E r \in Requests : Evict(r[1])

Spec == Init /\ [][Next]_vars

----------------------------------------------------------------------------
(* Properties *)

RECURSIVE Depths(_)
Depths(n) == IF Leaf(n) THEN {0} ELSE {d + 1 : d \in UNION {Depths(n.kids[i]) : i \in DOMAIN n.kids}}
RECURSIVE WellFormed(_, _)
WellFormed(n, atLeast) ==
  /\ Len(n.keys) \in atLeast .. 2 * BTreeOrder - 1
  /\ \A i \in 1 .. Len(n.keys) - 1 : n.keys[i] < n.keys[i + 1]
  /\ Leaf(n) \/ Len(n.kids) = Len(n.keys) + 1
  /\ \A i \in DOMAIN n.kids :
       /\ WellFormed(n.kids[i], BTreeOrder - 1)
       /\ \A k \in KeysOf(n.kids[i]) :
            (i > 1 => n.keys[i - 1] < k) /\ (i <= Len(n.keys) => k < n.keys[i])

(* The tree finds the blocks that were written and neither flushed nor     *)
(* purged, and no other, and it is a B-tree, whatever sequence of          *)
(* insertions, deletions and rebalancing it went through, until an error   *)
(* has marked it as damaged (BTreeInsertKey, BTreeDeleteKey).              *)
TreeIsMap ==
  damaged \/
  /\ \A k \in 0 .. Blocks - 1 : GetNodeByKey(root, k) <=> k \in ToSet(written)
  /\ WellFormed(root, IF Leaf(root) THEN 0 ELSE 1)
  /\ Cardinality(Depths(root)) = 1

(* Each node that an operation changes will be written to the file, as     *)
(* long as no key was deleted from an inner node (BTreeFlushNode and its   *)
(* callers).                                                               *)
ChangesMarked == Stale(root) => inner

(* The tree in memory is a map of the file, and so is the one that will be *)
(* read back.                                                              *)
TreeKept == TreeIsMap /\ ChangesMarked

(* dirty is "true if the node is not synchronized with the on disk copy"   *)
(* (_BTreeNodeHeader).                                                     *)
EveryChangeMarked == ~Stale(root)

(* The list of tags begins at a key of the tree: what flushUpToTimeStamp   *)
(* asserts of oldestWrittenBlock.                                          *)
OldestInTree == tags = << >> \/ GetNodeByKey(root, Head(tags))

(* The list "is maintained in ascending order" of the time stamps          *)
(* (_BTreeKeyEntry).                                                       *)
Ascending ==
  \A i, j \in DOMAIN tags : \A a, b \in DOMAIN written :
    (i < j /\ tags[i] = written[a] /\ tags[j] = written[b]) => a < b
=============================================================================
