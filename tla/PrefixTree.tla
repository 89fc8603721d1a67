----------------------------- MODULE PrefixTree -----------------------------
(***************************************************************************)
(* The prefix tree of cr-prefix-tree-252512/main.c.  A node has a bit for  *)
(* each letter it has a child for, and an array of the children in the     *)
(* order of the bits, which grows in steps.  Nodes without children are    *)
(* not allocated: two stock nodes stand for all of them, one for those     *)
(* that end a word.                                                        *)
(*                                                                         *)
(* An allocated node never changes its place in the tree, so the letters   *)
(* on the way to it serve as its address.                                  *)
(***************************************************************************)
EXTENDS Integers, Sequences, FiniteSets, SequencesExt

CONSTANTS
    Words,          \* sequences of letters
    MemoryLimits    \* how many calls of malloc and realloc may succeed

Letters == 0..25
Root == <<>>
ASSUME WordsAssumption == Words \subseteq Seq(Letters) \ {Root}
ASSUME LimitsAssumption == MemoryLimits \subseteq Nat

(* The addresses of what is in no place of its own. *)
NULL == <<-1>>
stockNode == <<-2>>
stockLeafNode == <<-3>>
Stock == {stockNode, stockLeafNode}

VARIABLES
    heap,           \* the allocated nodes, by address: [active, ends, children, capacity]
    root,           \* the program's pointer to the root
    nodeStatus,     \* [nodes, allocNodes, allocMem]
    memory,         \* allocations that will still succeed
    inserted,       \* the words for which insertWord has returned true
    crashed         \* NULL was dereferenced

treeVars == <<heap, root, nodeStatus, memory, inserted, crashed>>

NoNodes == [a \in {} |-> <<>>]
Counts(nodes, allocNodes, allocMem) == [nodes |-> nodes, allocNodes |-> allocNodes, allocMem |-> allocMem]

TreeInit == /\ heap = NoNodes
            /\ root = NULL
            /\ nodeStatus = Counts(0, 0, 0)
            /\ memory \in MemoryLimits
            /\ inserted = {}
            /\ crashed = FALSE

-----------------------------------------------------------------------------
(* Bits and capacities. *)
Below(active, ch) == Cardinality({c \in active : c < ch})
nodeSize(node) == Cardinality(node.active)
Capacities == {1, 2, 4, 8, 16, 26}
nodeCapacity(size) == CHOOSE c \in Capacities : c >= size /\ \A d \in Capacities : d >= size => d >= c
nodeBytes(capacity) == 16 + 8 * (capacity - 1)

(* getChildNode: a letter's child is found by the number of lower bits. *)
Index(node, ch) == Below(node.active, ch) + 1
Child(h, a, ch) == h[a].children[Index(h[a], ch)]

(* The operators below work on the state s of an insertion:                *)
(*   heap, root, status, memory    as above                                *)
(*   path   the letters so far: node points to the slot for the last of    *)
(*          them in the node before, or to root                            *)
(*   null   node is NULL instead                                           *)
(*   ok     FALSE once insertWord has returned false                       *)
Slot(s) == IF s.path = Root THEN s.root ELSE Child(s.heap, Front(s.path), Last(s.path))

Store(s, node) ==
    IF s.path = Root THEN [s EXCEPT !.root = node]
    ELSE LET a == Front(s.path)
         IN  [s EXCEPT !.heap[a].children[Index(s.heap[a], Last(s.path))] = node]

Count(status, nodes, allocNodes, allocMem) ==
    Counts(status.nodes + nodes, status.allocNodes + allocNodes, status.allocMem + allocMem)

(* createNode at address s.path, in place of what is in the slot, with the *)
(* end of a word at it or not; more says if it was not counted before.     *)
createNode(s, ends, more) ==
    LET new == [active |-> {}, ends |-> ends, children |-> <<>>, capacity |-> 1]
    IN  IF s.memory = 0 THEN [s EXCEPT !.null = TRUE]
        ELSE Store([s EXCEPT !.memory = @ - 1,
                             !.status = Count(@, more, 1, nodeBytes(1)),
                             !.heap = [a \in DOMAIN s.heap \cup {s.path} |->
                                         IF a = s.path THEN new ELSE s.heap[a]]],
                   s.path)

(* The node in place of a stock node is counted once more. *)
makeNodeCounted(s) == IF Slot(s) \in Stock THEN createNode(s, Slot(s) = stockLeafNode, 1) ELSE s

makeNodeWritable(s) == IF Slot(s) \in Stock THEN createNode(s, Slot(s) = stockLeafNode, 0) ELSE s

(* The node gets the capacity for one child more. *)
Grown(s) ==
    LET size == nodeSize(s.heap[s.path])
        more == nodeCapacity(size + 1)
    IN  [s EXCEPT !.memory = @ - 1, !.heap[s.path].capacity = more,
                  !.status = Count(@, 0, 0, nodeBytes(more) - nodeBytes(nodeCapacity(size)))]
HasRoom(node) == nodeSize(node) < nodeCapacity(nodeSize(node))

(* Room is made only when there is too little of it. *)
makeRoomLate(s) ==
    LET size == nodeSize(s.heap[s.path])
    IN  IF size <= nodeCapacity(size) THEN s ELSE Grown(s)

makeRoomInNode(s) == IF HasRoom(s.heap[s.path]) THEN s
                     ELSE IF s.memory = 0 THEN [s EXCEPT !.null = TRUE] ELSE Grown(s)

(* The new child goes to the end. *)
AddStockChildLast(s, ch) ==
    LET node == s.heap[s.path]
    IN  [s EXCEPT !.status = Count(@, 1, 0, 0),
                  !.heap[s.path] = [node EXCEPT !.children = Append(@, stockNode), !.active = @ \cup {ch}]]

(* The new child goes where the number of lower bits says. *)
AddStockChild(s, ch) ==
    LET node == s.heap[s.path]
    IN  [s EXCEPT !.status = Count(@, 1, 0, 0),
                  !.heap[s.path] = [node EXCEPT !.children = InsertAt(@, Index(node, ch), stockNode),
                                                !.active = @ \cup {ch}]]

addChildNode(s, ch) ==
    LET w == makeNodeWritable(s)
        r == IF w.null THEN w ELSE makeRoomInNode(w)
    IN  IF r.null THEN r ELSE AddStockChild(r, ch)

(* The stock nodes have no children. *)
HasChild(s, ch) == Slot(s) \notin Stock /\ ch \in s.heap[s.path].active

(* One letter of insertWord: go to its child, which is added if need be. *)
NextLetter(s, ch) ==
    IF s.null THEN [s EXCEPT !.ok = FALSE]
    ELSE LET r == IF Slot(s) = NULL THEN createNode(s, FALSE, 1) ELSE s IN
         IF r.null THEN [r EXCEPT !.ok = FALSE]
         ELSE LET c == IF HasChild(r, ch) THEN r ELSE addChildNode(r, ch) IN
              IF c.null THEN c ELSE [c EXCEPT !.path = Append(@, ch)]

AllLetters(start, word) ==
    LET s[i \in 0..Len(word)] == IF i = 0 THEN start ELSE NextLetter(s[i - 1], word[i])
    IN  s[Len(word)]

setAnyNodeEndsWord(s) ==
    IF Slot(s) = stockNode THEN Store(s, stockLeafNode)
    ELSE IF Slot(s) = stockLeafNode THEN s ELSE [s EXCEPT !.heap[s.path].ends = TRUE]

(* insertWord.  When the last letter finds no memory, the pointer that is  *)
(* NULL is used all the same.                                              *)
insertWord(word) ==
    LET start == [heap |-> heap, root |-> root, status |-> nodeStatus, memory |-> memory,
                  path |-> Root, null |-> FALSE, ok |-> TRUE]
        end   == AllLetters(start, word)
        s     == IF end.null THEN end ELSE setAnyNodeEndsWord(end)
    IN  /\ ~crashed
        /\ heap' = s.heap /\ root' = s.root /\ nodeStatus' = s.status /\ memory' = s.memory
        /\ crashed' = (s.ok /\ s.null)
        /\ inserted' = IF s.null THEN inserted ELSE inserted \cup {word}

-----------------------------------------------------------------------------
(* The slots of the nodes, and the bytes of nodes with so many children. *)
Slots(h) == UNION {{a} \X h[a].active : a \in DOMAIN h}
Bytes(h) == UNION {{a} \X (1..nodeBytes(nodeCapacity(nodeSize(h[a])))) : a \in DOMAIN h}

(* The nodes that the slots lead to, from the root on. *)
LeadsTo(h, a, ch) == a \in DOMAIN h /\ ch \in h[a].active /\ Child(h, a, ch) = Append(a, ch)
Reached(h) == {a \in DOMAIN h : \A p \in Prefixes(a) \ {Root} : LeadsTo(h, Front(p), Last(p))}

(* destroyNode(&root) visits the root, the node in every slot, and frees   *)
(* those it can reach; what it subtracts for one is computed from the      *)
(* number of its children.                                                 *)
destroyTree ==
    /\ ~crashed /\ root # NULL
    /\ LET visited == Restrict(heap, Reached(heap))
       IN  nodeStatus' = Count(nodeStatus, -(1 + Cardinality(Slots(visited))),
                               -Cardinality(DOMAIN visited), -Cardinality(Bytes(visited)))
    /\ heap' = Restrict(heap, DOMAIN heap \ Reached(heap))
    /\ root' = NULL
    /\ inserted' = {}
    /\ UNCHANGED <<memory, crashed>>

TreeNext == destroyTree \/ \E word \in Words : insertWord(word)
TreeSpec == TreeInit /\ [][TreeNext]_treeVars

(* findNode: the node at the end of a word.  The code looks up words that  *)
(* it knows to be there: where a letter has no child, it would dereference *)
(* getChildNode's NULL.  Here such a search ends with NULL.                *)
NextNode(node, ch) == IF node \notin Stock \cup {NULL} /\ ch \in heap[node].active
                      THEN Child(heap, node, ch) ELSE NULL
findNode(word) ==
    LET node[i \in 0..Len(word)] == IF i = 0 THEN root ELSE NextNode(node[i - 1], word[i])
    IN  node[Len(word)]
EndsWord(node) == node = stockLeafNode \/ (node \notin Stock \cup {NULL} /\ heap[node].ends)

-----------------------------------------------------------------------------
(* The tree holds the words that were inserted, and no other prefix, in    *)
(* whatever order they came and wherever memory ran out in between.        *)
HoldsTheWords == {w \in (UNION {Prefixes(w) : w \in Words}) \ {Root} : EndsWord(findNode(w))} = inserted

(* No node has more children than it has room for, one for each bit, and   *)
(* its room is what destroyNode takes it to be.                            *)
RoomIsExact == \A a \in DOMAIN heap :
                  /\ Len(heap[a].children) = nodeSize(heap[a])
                  /\ nodeSize(heap[a]) <= heap[a].capacity
                  /\ heap[a].capacity = nodeCapacity(nodeSize(heap[a]))

(* The assertions of simpleTest and fileTest: when the tree is destroyed,  *)
(* no node and no byte is left by the program's own count; nor is one left *)
(* in truth, which that count does not tell.                               *)
NothingLeft == root = NULL => nodeStatus = Counts(0, 0, 0) /\ DOMAIN heap = {}
=============================================================================
