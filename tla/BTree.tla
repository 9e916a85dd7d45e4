-------------------------------- MODULE BTree --------------------------------
(***************************************************************************)
(* The B+ tree of src/btree/pfbtree.hpp (imbtree.hpp is the same algorithm *)
(* with pointers for page ids), as operators on a tree                     *)
(*    [page, used, root, depth].                                           *)
(* A page is [num, keys, vals, next, prev]: a leaf with M keys and their   *)
(* values or a branch with N keys and the N + 1 page ids of its children.  *)
(* The arrays keep what was in them: slots from num on hold old keys.      *)
(*                                                                         *)
(* erase is modelled as long as it meets no leaf and no branch with too    *)
(* few keys (Regular).                                                     *)
(***************************************************************************)
EXTENDS Integers, Sequences, FiniteSetsExt

CONSTANTS
    M, N,        \* keys of a leaf and of a branch
    MaxKey,      \* keys are 1 .. MaxKey; 0 is what a new page is filled with
    MaxPage,     \* pages of the index file
    Value        \* what the index holds: node ids, which are numbers like the keys

ASSUME BTreeAssumption ==
    /\ M \in Nat \ {0, 1} /\ N \in Nat \ {0, 1, 2} /\ MaxKey \in Nat /\ MaxPage \in Nat \ {0}

Key == 1 .. MaxKey
Page == 1 .. MaxPage

NewLeaf == [num |-> 0, keys |-> [i \in 0 .. M - 1 |-> 0], vals |-> [i \in 0 .. M - 1 |-> 0],
            next |-> 0, prev |-> 0]
NewBranch == [num |-> 0, keys |-> [i \in 0 .. N - 1 |-> 0], vals |-> [i \in 0 .. N |-> 0],
              next |-> 0, prev |-> 0]

\* The constructor, on an empty file.
EmptyTree == [page |-> [p \in Page |-> NewLeaf], used |-> {1}, root |-> 1, depth |-> 0]

\* lookupPositionInLeafNode and lookupPositionInBranchNode.
lookupPositionInLeafNode(n, key) == Min({i \in 0 .. n.num : i = n.num \/ n.keys[i] >= key})
lookupPositionInBranchNode(n, key) == Min({i \in 0 .. n.num : i = n.num \/ n.keys[i] > key})

\* findLeafNode: the page one reaches from page p, d levels down.
RECURSIVE Descend(_, _, _, _)
Descend(t, p, d, key) ==
    IF d = 0 THEN p
    ELSE LET n == t.page[p] IN Descend(t, n.vals[lookupPositionInBranchNode(n, key)], d - 1, key)

findLeafNode(t, key) == Descend(t, t.root, t.depth, key)

\* lookup: whether the key is found, and its value.
Found(t, key) ==
    LET n == t.page[findLeafNode(t, key)]
        pos == lookupPositionInLeafNode(n, key)
    IN  pos < n.num /\ n.keys[pos] = key
lookup(t, key) ==
    LET n == t.page[findLeafNode(t, key)] IN n.vals[lookupPositionInLeafNode(n, key)]

-----------------------------------------------------------------------------
(* Arrays. *)

\* Entries pos .. num - 1 of f move up by one, and x is put at pos.
PutAt(f, pos, num, x) ==
    [i \in DOMAIN f |-> IF i = pos THEN x ELSE IF i > pos /\ i <= num THEN f[i - 1] ELSE f[i]]
\* Entries pos + 1 .. num - 1 move down by one.
TakeAt(f, pos, num) ==
    [i \in DOMAIN f |-> IF i >= pos /\ i < num - 1 THEN f[i + 1] ELSE f[i]]
\* A new array that starts with entries from .. from + num - 1 of f.
Part(f, from, num) == [i \in DOMAIN f |-> IF i < num THEN f[from + i] ELSE 0]

\* allocate_page: any page that is not in use; the smallest one here.
NewPage(t) == Min(Page \ t.used)

-----------------------------------------------------------------------------
(* insert. The operators return [tree, split], split being the key and the   *)
(* pages of its two halves.                                                  *)

NoSplit == [key |-> 0, left |-> 0, right |-> 0]

insertInLeafNodeAtPosition(n, pos, key, val) ==
    [n EXCEPT !.keys = PutAt(@, pos, n.num, key), !.vals = PutAt(@, pos, n.num, val), !.num = @ + 1]

\* Mutant: after a split the new entry always goes to the left half.
insertInLeafNode_left(t, p, key, val) ==
    LET n == t.page[p]
        pos == lookupPositionInLeafNode(n, key)
        middle == (M + 1) \div 2
        q == NewPage(t)
        left == [n EXCEPT !.num = middle, !.next = q]
        right == [NewLeaf EXCEPT !.num = M - middle, !.keys = Part(n.keys, middle, M - middle),
                                 !.vals = Part(n.vals, middle, M - middle), !.prev = p]
        l == insertInLeafNodeAtPosition(left, Min({pos, middle}), key, val)
    IN  IF pos < n.num /\ n.keys[pos] = key
        THEN [tree |-> [t EXCEPT !.page[p].vals[pos] = val], split |-> NoSplit]
        ELSE IF n.num < M
        THEN [tree |-> [t EXCEPT !.page[p] = insertInLeafNodeAtPosition(n, pos, key, val)],
              split |-> NoSplit]
        ELSE [tree |-> [t EXCEPT !.page[p] = l, !.page[q] = right, !.used = @ \cup {q}],
              split |-> [key |-> right.keys[0], left |-> p, right |-> q]]

\* insertInLeafNode. A split sets next and prev of the two halves only.
insertInLeafNode(t, p, key, val) ==
    LET n == t.page[p]
        pos == lookupPositionInLeafNode(n, key)
        middle == (M + 1) \div 2
        q == NewPage(t)
        left == [n EXCEPT !.num = middle, !.next = q]
        right == [NewLeaf EXCEPT !.num = M - middle, !.keys = Part(n.keys, middle, M - middle),
                                 !.vals = Part(n.vals, middle, M - middle), !.prev = p]
        l == IF pos < middle THEN insertInLeafNodeAtPosition(left, pos, key, val) ELSE left
        r == IF pos < middle THEN right ELSE insertInLeafNodeAtPosition(right, pos - middle, key, val)
    IN  IF pos < n.num /\ n.keys[pos] = key
        THEN [tree |-> [t EXCEPT !.page[p].vals[pos] = val], split |-> NoSplit]
        ELSE IF n.num < M
        THEN [tree |-> [t EXCEPT !.page[p] = insertInLeafNodeAtPosition(n, pos, key, val)],
              split |-> NoSplit]
        ELSE [tree |-> [t EXCEPT !.page[p] = l, !.page[q] = r, !.used = @ \cup {q}],
              split |-> [key |-> r.keys[0], left |-> p, right |-> q]]

\* Mutant: the key that moves up stays on the left as well.
splitBranchNode_keep(t, p, splitKey) ==
    LET n == t.page[p]
        middle == (N + 1) \div 2
        q == NewPage(t)
        num == n.num - middle
        right == [NewBranch EXCEPT !.num = num, !.keys = Part(n.keys, middle, num),
                                   !.vals = Part(n.vals, middle, num + 1)]
    IN  [tree |-> [t EXCEPT !.page[p].num = middle, !.page[q] = right, !.used = @ \cup {q}],
         split |-> [key |-> n.keys[middle - 1], left |-> p, right |-> q]]

\* splitBranchNode.
splitBranchNode(t, p, splitKey) ==
    LET n == t.page[p]
        half == (N + 1) \div 2
        middle == IF splitKey > n.keys[half] THEN half + 1 ELSE half
        q == NewPage(t)
        num == n.num - middle
        right == [NewBranch EXCEPT !.num = num, !.keys = Part(n.keys, middle, num),
                                   !.vals = Part(n.vals, middle, num + 1)]
    IN  [tree |-> [t EXCEPT !.page[p].num = middle - 1, !.page[q] = right, !.used = @ \cup {q}],
         split |-> [key |-> n.keys[middle - 1], left |-> p, right |-> q]]

\* The child of branch n at pos has been split.
AddChild(n, pos, split) ==
    [n EXCEPT !.keys = PutAt(@, pos, n.num, split.key),
              !.vals = [PutAt(@, pos + 1, n.num + 1, split.right) EXCEPT ![pos] = split.left],
              !.num = @ + 1]

\* insertInBranchNode.
RECURSIVE insertInBranchNode(_, _, _, _, _)
insertInBranchNode(t, p, d, key, val) ==
    LET n == t.page[p]
        pos == lookupPositionInBranchNode(n, key)
        c == IF d = 1 THEN insertInLeafNode(t, n.vals[pos], key, val)
             ELSE insertInBranchNode(t, n.vals[pos], d - 1, key, val)
        s == splitBranchNode(c.tree, p, c.split.key)
        host == IF key < s.split.key THEN p ELSE s.split.right
        hpos == lookupPositionInBranchNode(s.tree.page[host], key)
    IN  IF c.split = NoSplit THEN c
        ELSE IF n.num < N
        THEN [tree |-> [c.tree EXCEPT !.page[p] = AddChild(@, pos, c.split)], split |-> NoSplit]
        ELSE [s EXCEPT !.tree.page[host] = AddChild(@, hpos, c.split)]

\* insert: a split of the root adds a level.
insert(t, key, val) ==
    LET r == IF t.depth = 0 THEN insertInLeafNode(t, t.root, key, val)
             ELSE insertInBranchNode(t, t.root, t.depth, key, val)
        q == NewPage(r.tree)
        top == AddChild(NewBranch, 0, r.split)
    IN  IF r.split = NoSplit THEN r.tree
        ELSE [r.tree EXCEPT !.page[q] = top, !.used = @ \cup {q}, !.root = q, !.depth = @ + 1]

-----------------------------------------------------------------------------
(* erase. *)

\* eraseFromLeafNode compares the slot it arrives at without asking whether
\* it is in use. Behind the last key there are the values.
Hit(n, key) ==
    LET pos == lookupPositionInLeafNode(n, key)
    IN  IF pos < M THEN n.keys[pos] = key ELSE n.vals[0] = key

eraseFromLeafNode(n, key) ==
    LET pos == lookupPositionInLeafNode(n, key)
    IN  [n EXCEPT !.keys = TakeAt(@, pos, n.num), !.vals = TakeAt(@, pos, n.num), !.num = @ - 1]

erase(t, key) ==
    LET p == findLeafNode(t, key)
    IN  IF Hit(t.page[p], key) THEN [t EXCEPT !.page[p] = eraseFromLeafNode(@, key)] ELSE t

\* erase(key) gets neither to underflowAtLeafLevel nor to
\* underflowAtBranchLevel, and does not shift an empty leaf. A branch below the
\* root is tested on the way back whether a key is gone or not: splitBranchNode
\* may have left it with too few.
Regular(t, key) ==
    LET n == t.page[findLeafNode(t, key)]
        gone == IF Hit(n, key) THEN 1 ELSE 0
    IN  /\ n.num - gone >= IF t.depth = 0 THEN 0 ELSE (M + 1) \div 2
        /\ \A d \in 1 .. t.depth - 1 : t.page[Descend(t, t.root, d, key)].num >= (N + 1) \div 2

-----------------------------------------------------------------------------
(* scan. *)

RECURSIVE Leftmost(_, _, _)
Leftmost(t, p, d) == IF d = 0 THEN p ELSE Leftmost(t, t.page[p].vals[0], d - 1)

LeafEntries(n) == [i \in 1 .. n.num |-> <<n.keys[i - 1], n.vals[i - 1]>>]

RECURSIVE ScanFrom(_, _)
ScanFrom(t, p) == IF p = 0 THEN <<>> ELSE LeafEntries(t.page[p]) \o ScanFrom(t, t.page[p].next)

scan(t) == ScanFrom(t, Leftmost(t, t.root, t.depth))

-----------------------------------------------------------------------------
(* What the tree holds, read off all its pages. *)

Child(t, p) == {t.page[p].vals[i] : i \in 0 .. t.page[p].num}

RECURSIVE Level(_, _)
Level(t, d) == IF d = 0 THEN {t.root} ELSE UNION {Child(t, p) : p \in Level(t, d - 1)}

Contents(t) == [k \in {j \in Key : Found(t, j)} |-> lookup(t, k)]

\* The entries of the leaves, wherever they are.
Entries(t) ==
    UNION {{<<t.page[p].keys[i], t.page[p].vals[i]>> : i \in 0 .. t.page[p].num - 1} : p \in Level(t, t.depth)}
=============================================================================
