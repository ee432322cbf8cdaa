----------------------------- MODULE LookupTree -----------------------------
(***************************************************************************)
(* The red-black lookup tree of jit/jit-cache.c.  One writer inserts the   *)
(* regions of published methods with AddToLookupTree, a single pass from   *)
(* the root that splits nodes with two red children on its way down; a     *)
(* reader walks the tree in _jit_cache_get_method.                         *)
(*                                                                         *)
(* Every store to a sub-tree pointer of a linked node is a step of its     *)
(* own, in program order.  The red bit is the lowest bit of the left       *)
(* pointer, which every reader masks off, so colours change together with  *)
(* the step that sets them.  A node is named by its start address.         *)
(***************************************************************************)
EXTENDS Integers, Sequences

CONSTANTS
    Node,      \* start addresses of the regions
    Size,      \* bytes in a region
    head, nil, \* the sentinel nodes, which are not addresses
    Counter,   \* program counters that are looked up
    Locked     \* does the reader hold cache_lock?

ASSUME NodeAssumption ==
    /\ Size \in Nat \ {0}
    /\ Node \subseteq Nat \ {0}
    /\ \A m, n \in Node : m < n => m + Size <= n
    /\ head \notin Node /\ nil \notin Node /\ head # nil
    /\ Counter \subseteq Nat
    /\ Locked \in BOOLEAN

VARIABLES
    left, right, red,      \* the nodes; "red" is the set of red ones
    pc,                    \* where AddToLookupTree is
    key,                   \* start of the region it adds
    temp, parent, grandParent, greatGrandParent,
    around,                \* the node CacheRotate works around
    child, grandChild,
    twice,                 \* is the rotation the first of two?
    linked,                \* is the new node in the tree?
    published,             \* ghost: the regions whose insertion is complete
    reader,                \* the program counter looked up, or -1
    node,                  \* where the reader is
    answer                 \* its last answer

links == <<left, right, red>>
path == <<temp, parent, grandParent, greatGrandParent>>
rotation == <<around, child, grandChild, twice>>
writerVars == <<links, pc, key, path, rotation, linked, published>>
readerVars == <<reader, node, answer>>
vars == <<writerVars, readerVars>>

Root == right[head]

-----------------------------------------------------------------------------
(***************************************************************************)
(* CacheCompare(key, n) < 0: every key is greater than the sentinels.      *)
(***************************************************************************)
Less(n) == n \in Node /\ key < n

Side(n) == IF Less(n) THEN left[n] ELSE right[n]

SetSide(onLeft, n, value) ==
    /\ left' = IF onLeft THEN [left EXCEPT ![n] = value] ELSE left
    /\ right' = IF onLeft THEN right ELSE [right EXCEPT ![n] = value]

Init ==
    /\ left = [n \in Node \cup {head, nil} |-> nil]
    /\ right = [n \in Node \cup {head, nil} |-> nil]
    /\ red = {}
    /\ pc = "idle"
    /\ key = 0
    /\ temp = nil /\ parent = nil /\ grandParent = nil /\ greatGrandParent = nil
    /\ around = nil /\ child = nil /\ grandChild = nil
    /\ twice = FALSE /\ linked = FALSE
    /\ published = {}
    /\ reader = -1
    /\ node = nil
    /\ answer = <<>>

(***************************************************************************)
(* AddToLookupTree begins at the head, whose right sub-tree is the tree.   *)
(***************************************************************************)
AddToLookupTree(n) ==
    /\ pc = "idle"
    /\ n \notin published
    /\ Locked => reader = -1
    /\ pc' = "search"
    /\ key' = n
    /\ temp' = head /\ parent' = head /\ grandParent' = head /\ greatGrandParent' = head
    /\ UNCHANGED <<links, rotation, linked, published, readerVars>>

(***************************************************************************)
(* Its return, with the local variables gone.                              *)
(***************************************************************************)
Return ==
    /\ pc' = "idle"
    /\ key' = 0
    /\ temp' = nil /\ parent' = nil /\ grandParent' = nil /\ greatGrandParent' = nil
    /\ around' = nil /\ child' = nil /\ grandChild' = nil
    /\ twice' = FALSE /\ linked' = FALSE

(***************************************************************************)
(* The second half of Split(): below a red parent "p" two red nodes meet,  *)
(* and one rotation follows, or two when the path bends at "p".            *)
(***************************************************************************)
Rotations_Single(p, g, gg) ==
    /\ pc' = "rotate"
    /\ twice' = FALSE
    /\ around' = gg

Rotations(p, g, gg) ==
    /\ pc' = "rotate"
    /\ twice' = (Less(g) # Less(p))
    /\ around' = IF Less(g) # Less(p) THEN g ELSE gg

(***************************************************************************)
(* One turn of the search loop, with the first half of Split() for a node  *)
(* with two red children.  The return for a key that is already there is   *)
(* never taken: CodeCache shows that published regions are disjoint.       *)
(***************************************************************************)
Descend ==
    /\ pc = "search"
    /\ temp # nil
    /\ greatGrandParent' = grandParent
    /\ grandParent' = parent
    /\ parent' = temp
    /\ temp' = Side(temp)
    /\ LET split == left[temp'] \in red /\ right[temp'] \in red
           flipped == (red \ {left[temp'], right[temp']}) \cup {temp'}
       IN  /\ red' = IF ~split THEN red
                     ELSE IF temp \in red THEN flipped \cup {grandParent'} ELSE flipped
           /\ IF split /\ temp \in red
              THEN Rotations(temp, grandParent', greatGrandParent')
              ELSE UNCHANGED <<pc, twice, around>>
    /\ UNCHANGED <<left, right, key, child, grandChild, linked, published, readerVars>>

(***************************************************************************)
(* The new node is linked, red, below "parent", and Split() runs once more *)
(* for it.  Its own left and right were set while nobody could see it.     *)
(***************************************************************************)
Insert_Black ==
    /\ pc = "search"
    /\ temp = nil
    /\ SetSide(Less(parent), parent, key)
    /\ IF parent \in red
       THEN /\ red' = red \cup {grandParent}
            /\ Rotations(parent, grandParent, greatGrandParent)
            /\ linked' = TRUE
            /\ UNCHANGED <<key, path, child, grandChild, published>>
       ELSE /\ red' = red
            /\ published' = published \cup {key}
            /\ Return
    /\ UNCHANGED readerVars

Insert ==
    /\ pc = "search"
    /\ temp = nil
    /\ SetSide(Less(parent), parent, key)
    /\ IF parent \in red
       THEN /\ red' = red \cup {key, grandParent}
            /\ Rotations(parent, grandParent, greatGrandParent)
            /\ linked' = TRUE
            /\ UNCHANGED <<key, path, child, grandChild, published>>
       ELSE /\ red' = (red \cup {key}) \ {right'[head]}
            /\ published' = published \cup {key}
            /\ Return
    /\ UNCHANGED readerVars

(***************************************************************************)
(* CacheRotate, one store at a time: the grandchild gives up its inner     *)
(* sub-tree, takes the child in its place, and replaces it.                *)
(***************************************************************************)
GiveSubTree ==
    /\ pc = "rotate"
    /\ child' = Side(around)
    /\ grandChild' = Side(child')
    /\ SetSide(Less(child'), child',
               IF Less(child') THEN right[grandChild'] ELSE left[grandChild'])
    /\ pc' = "take"
    /\ UNCHANGED <<red, key, path, around, twice, linked, published, readerVars>>

TakeChild_WrongSide ==
    /\ pc = "take"
    /\ SetSide(Less(child), grandChild, child)
    /\ pc' = "replace"
    /\ UNCHANGED <<red, key, path, rotation, linked, published, readerVars>>

TakeChild ==
    /\ pc = "take"
    /\ SetSide(~Less(child), grandChild, child)
    /\ pc' = "replace"
    /\ UNCHANGED <<red, key, path, rotation, linked, published, readerVars>>

ReplaceChild ==
    /\ pc = "replace"
    /\ SetSide(Less(around), around, grandChild)
    /\ IF twice
       THEN /\ parent' = grandChild
            /\ around' = greatGrandParent
            /\ twice' = FALSE
            /\ pc' = "rotate"
            /\ UNCHANGED <<red, key, temp, grandParent, greatGrandParent, child, grandChild,
                           linked, published>>
       ELSE IF linked
       THEN /\ red' = red \ {grandChild, right'[head]}
            /\ published' = published \cup {key}
            /\ Return
       ELSE /\ red' = red \ {grandChild}
            /\ temp' = grandChild
            /\ pc' = "search"
            /\ UNCHANGED <<key, parent, grandParent, greatGrandParent, rotation, linked,
                           published>>
    /\ UNCHANGED readerVars

-----------------------------------------------------------------------------
(***************************************************************************)
(* _jit_cache_get_method for a program counter, one node at a time.        *)
(***************************************************************************)
get_method(q) ==
    /\ reader = -1
    /\ Locked => pc = "idle"
    /\ reader' = q
    /\ node' = Root
    /\ UNCHANGED <<writerVars, answer>>

Found(n) ==
    /\ answer' = <<reader, n>>
    /\ reader' = -1
    /\ node' = nil

Walk_EndInclusive ==
    /\ reader # -1
    /\ IF node = nil THEN Found(nil)
       ELSE IF reader < node
       THEN node' = left[node] /\ UNCHANGED <<reader, answer>>
       ELSE IF reader > node + Size
       THEN node' = right[node] /\ UNCHANGED <<reader, answer>>
       ELSE Found(node)
    /\ UNCHANGED writerVars

Walk ==
    /\ reader # -1
    /\ IF node = nil THEN Found(nil)
       ELSE IF reader < node
       THEN node' = left[node] /\ UNCHANGED <<reader, answer>>
       ELSE IF reader >= node + Size
       THEN node' = right[node] /\ UNCHANGED <<reader, answer>>
       ELSE Found(node)
    /\ UNCHANGED writerVars

Writing ==
    \/ Descend \/ Insert
    \/ GiveSubTree \/ TakeChild \/ ReplaceChild

Next ==
    \/ \E n \in Node : AddToLookupTree(n)
    \/ Writing
    \/ \E q \in Counter : get_method(q)
    \/ Walk

Spec == Init /\ [][Next]_vars

-----------------------------------------------------------------------------
\* The nodes of a sub-tree.
Below[n \in Node \cup {nil}] ==
    IF n = nil THEN {} ELSE {n} \cup Below[left[n]] \cup Below[right[n]]

\* Black nodes on the way from n to a leaf, or -1 when the ways differ.
BlackHeight[n \in Node \cup {nil}] ==
    IF n = nil THEN 0
    ELSE LET l == BlackHeight[left[n]]
             r == BlackHeight[right[n]]
         IN  IF l # r \/ l = -1 THEN -1 ELSE IF n \in red THEN l ELSE l + 1

Sentinels == {head, nil}

\* Type invariant.  No split ever colours the head or nil.
TypeOK ==
    /\ left \in [Node \cup Sentinels -> Node \cup {nil}]
    /\ right \in [Node \cup Sentinels -> Node \cup {nil}]
    /\ red \subseteq Node
    /\ pc \in {"idle", "search", "rotate", "take", "replace"}
    /\ key \in Node \cup {0}
    /\ {temp, parent, grandParent, greatGrandParent} \subseteq Node \cup Sentinels
    /\ {around, child, grandChild} \subseteq Node \cup Sentinels
    /\ twice \in BOOLEAN /\ linked \in BOOLEAN
    /\ published \subseteq Node
    /\ node \in Node \cup {nil}

\* Between two insertions the tree holds the published regions and nothing else,
\* each between the regions at smaller addresses on its left and those at larger
\* ones on its right: no split or rotation of AddToLookupTree loses a sub-tree.
HoldsPublished ==
    pc = "idle" =>
        /\ Below[Root] = published
        /\ \A n \in published : /\ \A m \in Below[left[n]] : m < n
                               /\ \A m \in Below[right[n]] : n < m

\* Red nodes have black children, and the root is black; all ways to a leaf have
\* the same number of black nodes, which bounds a walk of _jit_cache_get_method
\* by twice the logarithm of the tree.
RedBlack ==
    pc = "idle" => /\ Root \notin red
                   /\ \A n \in red : left[n] \notin red /\ right[n] \notin red
                   /\ BlackHeight[Root] # -1

\* The promise of the tree, for a reader that holds the lock.
Index == INSTANCE CodeIndex WITH Region <- Node, NoRegion <- nil, index <- published

IndexSpec == Index!Spec

\* "Returns NULL if the PC is not associated with a method within the cache"
\* (jit-cache.h): a region that was in the tree when the query began is found.
PublishedIsFound ==
    [][ \A n \in published :
          (reader \in n..(n + Size - 1) /\ reader' = -1) => answer'[2] = n ]_vars

=============================================================================
