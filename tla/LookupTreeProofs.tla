--------------------------- MODULE LookupTreeProofs ---------------------------
(***************************************************************************)
(* The tree of LookupTree for any set of regions: the inductive invariant  *)
(* TreeInv, and what follows from it.                                      *)
(*                                                                         *)
(* In the middle of a rotation the links are no tree.  The invariant is    *)
(* about the tree that the rotation started from, which BeforeLeft and     *)
(* BeforeRight recover from the links; its last store replaces that tree   *)
(* by the turned one.  The nodes below each node (s) and the black nodes   *)
(* on a way down (h) are not computed but said to exist, so that each step *)
(* shows the new ones; BelowIsSubTree and BlackHeightIsHeight show at the  *)
(* end that they are what the recursive functions compute.                 *)
(*                                                                         *)
(* What Split() needs of its caller is that "parent", "grandParent" and    *)
(* "greatGrandParent" are the ancestors of the node it splits whenever it  *)
(* rotates, although they are stale after a rotation.  AfterRotation and   *)
(* Calm say why: in the two turns after a rotation nothing is split.       *)
(***************************************************************************)
EXTENDS LookupTree, WellFoundedInduction, TLAPS

-----------------------------------------------------------------------------
(***************************************************************************)
(* The inductive invariant.                                                *)
(***************************************************************************)
NodeOrNil == Node \cup {nil}

\* A child, on one of the sides.
Kid(l, r, onLeft, n) == IF onLeft THEN l[n] ELSE r[n]

\* No node is a child of two.
OneParent(l, r) ==
    \A m, n \in Node \cup {head} :
        m # n => \A x \in {l[m], r[m]} : x \in {l[n], r[n]} => x = nil

\* A sub-tree with a node that is not its root has the parent of that node.
FromAbove(l, r, s) ==
    \A n, x \in Node : \A y \in {l[x], r[x]} : y \in s[n] /\ y # n => x \in s[n]

\* The nodes with links l and r are a search tree; s gives its sub-trees.
Tree(l, r, s) ==
    /\ l \in [Node \cup Sentinels -> NodeOrNil] /\ l[nil] = nil /\ l[head] = nil
    /\ r \in [Node \cup Sentinels -> NodeOrNil] /\ r[nil] = nil
    /\ s \in [NodeOrNil -> SUBSET Node] /\ s[nil] = {}
    /\ \A n \in Node : /\ s[n] = {n} \cup s[l[n]] \cup s[r[n]]
                       /\ \A m \in s[l[n]] : m < n
                       /\ \A m \in s[r[n]] : n < m
                       /\ \A m \in s[n] : s[m] \subseteq s[n]
    /\ OneParent(l, r) /\ FromAbove(l, r, s)

\* It has these members; a node outside of it has no links.
Has(l, r, s, members) ==
    /\ s[r[head]] = members
    /\ \A n \in Node \ members : l[n] = nil /\ r[n] = nil

\* h gives the number of black nodes on every way down.
Balanced(l, r, reds, h) ==
    /\ h \in [NodeOrNil -> Nat] /\ h[nil] = 0
    /\ \A n \in Node : /\ h[l[n]] = h[r[n]]
                       /\ h[n] = h[l[n]] + (IF n \in reds THEN 0 ELSE 1)

\* No red node but at most "top" has a red child, and top only "below".
Parted(l, r, reds, top, below) ==
    \A n \in reds : \A c \in {l[n], r[n]} : c \in reds => n = top /\ c = below

\* Split() leaves n alone.
BlackKids(l, r, reds, n) == l[n] \notin reds /\ r[n] \notin reds

\* All of it.
Shape(l, r, reds, s, h, members) ==
    Tree(l, r, s) /\ Has(l, r, s, members) /\ Balanced(l, r, reds, h) /\ reds \subseteq members

\* x is on the way to where k belongs.
Way(s, members, k, x) ==
    /\ x \in members
    /\ \A n \in members \ s[x] : \A m \in s[x] : n < k <=> n < m

\* The nodes in the tree, and the tree as it was before the rotation in progress.
Members == published \cup (IF linked THEN {key} ELSE {})

BeforeLeft ==
    IF pc \in {"take", "replace"} /\ Less(child) THEN [left EXCEPT ![child] = grandChild]
    ELSE IF pc = "replace" THEN [left EXCEPT ![grandChild] = right[child]]
    ELSE left

BeforeRight ==
    IF pc \in {"take", "replace"} /\ ~Less(child) THEN [right EXCEPT ![child] = grandChild]
    ELSE IF pc = "replace" THEN [right EXCEPT ![grandChild] = left[child]]
    ELSE right

Rotating == pc \in {"rotate", "take", "replace"}

BeforeRed == IF Rotating THEN red \ {grandParent} ELSE red

OnPath(s, x) == Way(s, Members, key, x)

\* Nothing is split in the two turns after one that stands at x.
Calm(x) ==
    /\ BlackKids(left, right, red, x)
    /\ Side(x) # nil
    /\ BlackKids(left, right, red, Side(x))

\* Where the search can be: before the root,
AtHead == temp = head /\ parent = head /\ grandParent = head /\ Root \notin red

\* where the new node belongs, with its ancestors known if Split() may rotate,
AtNil(s) ==
    /\ temp = nil
    /\ parent = head \/ OnPath(s, parent)
    /\ Side(parent) = nil
    /\ parent \in red => /\ grandParent \in published /\ parent = Side(grandParent)
                         /\ OnPath(s, grandParent)
                         /\ greatGrandParent \in published \cup {head}
                         /\ grandParent = Side(greatGrandParent)
                         /\ ~(left[grandParent] \in red /\ right[grandParent] \in red)

\* at a node, which if it is red has its ancestors known or may not be split below,
AtNode(s) ==
    /\ OnPath(s, temp)
    /\ parent = head \/ OnPath(s, parent)
    /\ temp = Side(parent)
    /\ ~(left[temp] \in red /\ right[temp] \in red)
    /\ temp \in red =>
         \/ Calm(temp)
         \/ /\ parent \in published
            /\ grandParent \in published \cup {head} /\ parent = Side(grandParent)
            /\ ~(left[parent] \in red /\ right[parent] \in red)

\* or at the top of what was just rotated.
AfterRotation(s) ==
    /\ OnPath(s, temp)
    /\ temp \notin red
    /\ Side(temp) \in red /\ Calm(Side(temp))

SearchInv(s) ==
    pc = "search" =>
        /\ ~linked /\ key \in Node \ published
        /\ Parted(left, right, red, nil, nil)
        /\ AtHead \/ AtNil(s) \/ AtNode(s) \/ AfterRotation(s)

\* What CacheRotate and Split() rely on.
BeforeSide(n) == Kid(BeforeLeft, BeforeRight, Less(n), n)

\* The two red nodes below grandParent, and the node the search goes on from.
Upper == BeforeSide(grandParent)
Lower == Kid(BeforeLeft, BeforeRight, IF twice THEN Less(Upper) ELSE Less(grandParent), Upper)
Onward == IF twice THEN BeforeSide(Lower)
          ELSE IF Less(Upper) = Less(grandParent) THEN BeforeSide(Lower) ELSE BeforeSide(Upper)

RotateInv(s) ==
    Rotating =>
        /\ key \in Node \ published
        /\ grandParent \in Members /\ grandParent \in red
        /\ greatGrandParent \in Members \cup {head}
        /\ BeforeSide(greatGrandParent) = grandParent
        /\ Upper \in BeforeRed /\ Lower \in BeforeRed
        /\ Kid(BeforeLeft, BeforeRight, ~Less(grandParent), grandParent) \notin BeforeRed
        /\ Parted(BeforeLeft, BeforeRight, BeforeRed, Upper, Lower)
        /\ IF twice THEN around = grandParent /\ Less(Upper) # Less(grandParent)
           ELSE around = greatGrandParent
        /\ pc = "take" => Kid(left, right, Less(child), child)
                           = Kid(left, right, ~Less(child), grandChild)
        /\ pc = "replace" => Kid(left, right, ~Less(child), grandChild) = child
        /\ pc # "rotate" => child = BeforeSide(around) /\ grandChild = BeforeSide(child)
        /\ ~linked => /\ OnPath(s, grandParent)
                      /\ Onward # nil
                      /\ Onward \notin BeforeRed
                      /\ BlackKids(BeforeLeft, BeforeRight, BeforeRed, Onward)

\* The tree at rest.
IdleInv(s) ==
    pc = "idle" => /\ ~linked
                   /\ Root \notin red
                   /\ Parted(left, right, red, nil, nil)

\* A lookup has not passed by what it looks for.
ReaderInv(s) ==
    Locked /\ reader # -1 =>
        /\ pc = "idle" /\ reader \in Counter /\ node \in published \cup {nil}
        /\ \A n \in published : n <= reader /\ reader < n + Size => n \in s[node]

\* The inductive invariant.
WriterInv(s, h) ==
    /\ pc \in {"idle", "search", "rotate", "take", "replace"}
    /\ linked \in BOOLEAN /\ published \subseteq Node /\ twice \in BOOLEAN
    /\ left \in [Node \cup Sentinels -> NodeOrNil] /\ right \in [Node \cup Sentinels -> NodeOrNil]
    /\ Shape(BeforeLeft, BeforeRight, BeforeRed, s, h, Members)
    /\ IdleInv(s) /\ SearchInv(s) /\ RotateInv(s)

TreeInv == \E s, h : WriterInv(s, h) /\ ReaderInv(s)
-----------------------------------------------------------------------------
(***************************************************************************)
(* Search trees: what a link to a new node and a rotation make of them.    *)
(***************************************************************************)
LEMMA NilIsNoNode == nil \notin Node /\ head \notin Node /\ head # nil /\ Node \subseteq Nat
  BY NodeAssumption

\* A kid is in the sub-tree of its parent, and no parent in that of its kid.
LEMMA KidBelow ==
    ASSUME NEW l, NEW r, NEW s, Tree(l, r, s), NEW n \in Node, NEW c \in {l[n], r[n]}
    PROVE  /\ n \in s[n] /\ n \notin s[c] /\ s[c] \subseteq s[n]
           /\ c # nil => c \in Node /\ c \in s[c] /\ c \in s[n] /\ c # n /\ n \notin s[c]
  <1>1. n \in s[n] /\ s[c] \subseteq s[n]
    BY DEF Tree
  <1>2. n \notin s[c]
    BY NilIsNoNode DEF Tree
  <1>3. c \in NodeOrNil
    BY DEF Tree
  <1>4. ASSUME c # nil PROVE c \in Node /\ c \in s[c]
    <2>1. c \in Node
      BY <1>3, <1>4 DEF NodeOrNil
    <2>2. s[c] = {c} \cup s[l[c]] \cup s[r[c]]
      BY <2>1 DEF Tree
    <2> QED
      BY <2>1, <2>2
  <1> QED
    BY <1>1, <1>2, <1>4

\* The kids of members are members.
LEMMA KidIsMember ==
    ASSUME NEW l, NEW r, NEW s, NEW members, Tree(l, r, s), Has(l, r, s, members),
           NEW n \in members \cup {head}, NEW c \in {l[n], r[n]}, c # nil
    PROVE  c \in members /\ members \subseteq Node
  <1>1. r[head] \in NodeOrNil /\ members = s[r[head]] /\ members \subseteq Node
    BY DEF Tree, Has, Sentinels
  <1>2. CASE n = head
    <2>1. c = r[head]
      BY <1>2 DEF Tree
    <2> QED
      BY <1>1, <2>1 DEF Tree, NodeOrNil
  <1>3. CASE n # head
    <2>1. n \in Node /\ c \in s[n]
      BY <1>1, <1>3, KidBelow
    <2>2. r[head] \in Node
      BY <1>1, <1>3 DEF Tree, NodeOrNil
    <2>3. s[n] \subseteq s[r[head]]
      BY <1>1, <1>3, <2>2 DEF Tree
    <2> QED
      BY <1>1, <2>1, <2>3
  <1> QED
    BY <1>2, <1>3

\* A new node k becomes a kid of p.
LEMMA InsertTree ==
    ASSUME NEW l, NEW r, NEW s, NEW members, Tree(l, r, s), Has(l, r, s, members),
           NEW k \in Node \ members, NEW p \in members \cup {head},
           NEW onLeft \in BOOLEAN, p = head => ~onLeft,
           Kid(l, r, onLeft, p) = nil,
           p # head => /\ onLeft <=> k < p
                       /\ \A n \in members \ s[p] : \A m \in s[p] : n < k <=> n < m,
           NEW l2, l2 = IF onLeft THEN [l EXCEPT ![p] = k] ELSE l,
           NEW r2, r2 = IF onLeft THEN r ELSE [r EXCEPT ![p] = k],
           NEW s2, s2 = [n \in NodeOrNil |-> IF p \in s[n] THEN s[n] \cup {k} ELSE s[n]]
    PROVE  Tree(l2, r2, s2) /\ Has(l2, r2, s2, members \cup {k})
  <1>1. /\ l \in [Node \cup Sentinels -> NodeOrNil] /\ l[nil] = nil /\ l[head] = nil
        /\ r \in [Node \cup Sentinels -> NodeOrNil] /\ r[nil] = nil
        /\ s \in [NodeOrNil -> SUBSET Node] /\ s[nil] = {}
        /\ OneParent(l, r) /\ FromAbove(l, r, s)
    BY DEF Tree
  <1>2. /\ members \subseteq Node /\ members = s[r[head]] /\ r[head] \in NodeOrNil
        /\ \A n \in Node \ members : l[n] = nil /\ r[n] = nil
    BY <1>1 DEF Has, Sentinels
  <1>3. /\ p \in Node \cup {head} /\ p # nil /\ k # p /\ k # nil /\ k # head
    BY <1>2, NilIsNoNode
  <1>4. l[k] = nil /\ r[k] = nil /\ s[k] = {k}
    BY <1>1, <1>2 DEF Tree
  <1>5. \A n \in Node : /\ s[n] = {n} \cup s[l[n]] \cup s[r[n]]
                        /\ \A m \in s[l[n]] : m < n
                        /\ \A m \in s[r[n]] : n < m
                        /\ \A m \in s[n] : s[m] \subseteq s[n]
    BY DEF Tree
  <1>6. \A n \in Node : k \in s[n] => n = k
    <2> SUFFICES ASSUME NEW n \in Node, k \in s[n], n # k PROVE FALSE
      OBVIOUS
    <2>1. CASE n \in members
      <3>1. r[head] \in Node
        BY <1>1, <1>2, <2>1 DEF NodeOrNil
      <3> QED
        BY <1>2, <1>5, <2>1, <3>1
    <2>2. CASE n \notin members
      <3>1. s[n] = {n}
        BY <1>1, <1>2, <1>5, <2>2
      <3> QED
        BY <3>1
    <2> QED
      BY <2>1, <2>2
  <1>7. \A n, m \in Node : k \in {l[n], r[n]} => FALSE
    BY <1>1, <1>5, <1>6, KidBelow
  <1>8. /\ l2 \in [Node \cup Sentinels -> NodeOrNil] /\ r2 \in [Node \cup Sentinels -> NodeOrNil]
        /\ \A n \in Node \cup Sentinels :
             /\ l2[n] = IF n = p /\ onLeft THEN k ELSE l[n]
             /\ r2[n] = IF n = p /\ ~onLeft THEN k ELSE r[n]
    BY <1>1, <1>3 DEF NodeOrNil, Sentinels
  <1>9. l2[nil] = nil /\ l2[head] = nil /\ r2[nil] = nil
    BY <1>1, <1>3, <1>8 DEF Sentinels
  <1>10. /\ s2 \in [NodeOrNil -> SUBSET Node] /\ s2[nil] = {}
         /\ \A n \in NodeOrNil : s2[n] = IF p \in s[n] THEN s[n] \cup {k} ELSE s[n]
    BY <1>1 DEF NodeOrNil
  <1>11. s2[k] = {k}
    BY <1>3, <1>4, <1>10 DEF NodeOrNil
  <1>12. \A n \in Node : l[n] \in NodeOrNil /\ r[n] \in NodeOrNil
    BY <1>1
  \* A node with p below one of its kids has the new node on the same side.
  <1>13. ASSUME NEW n \in Node, NEW c \in {l[n], r[n]}, p \in s[c], NEW m \in s[c]
         PROVE  (n < k <=> n < m) /\ n \in members
    <2>1. p \in Node /\ p \in members /\ p # head
      BY <1>1, <1>3, <1>12, <1>13, NilIsNoNode
    <2>2. n \in members
      <3>1. CASE n \notin members
        BY <1>1, <1>2, <1>13, <3>1
      <3> QED
        BY <3>1
    <2>3. c \in Node
      BY <1>1, <1>12, <1>13 DEF NodeOrNil
    <2>4. s[p] \subseteq s[c]
      BY <1>5, <1>13, <2>3
    <2>5. n \notin s[c]
      BY KidBelow
    <2>6. p \in s[p]
      BY <1>5, <2>1
    <2>7. n < k <=> n < p
      BY <2>1, <2>2, <2>4, <2>5, <2>6
    <2>8. n < p <=> n < m
      <3>1. n \in Nat /\ p \in Nat /\ m \in Nat
        BY <1>1, <1>12, <2>1, NilIsNoNode
      <3>2. CASE c = l[n]
        BY <1>5, <1>13, <3>1, <3>2
      <3>3. CASE c = r[n]
        BY <1>5, <1>13, <3>1, <3>3
      <3> QED
        BY <3>2, <3>3
    <2> QED
      BY <2>2, <2>7, <2>8
  <1>14. ASSUME NEW n \in Node
         PROVE  /\ s2[n] = {n} \cup s2[l2[n]] \cup s2[r2[n]]
                /\ \A m \in s2[l2[n]] : m < n
                /\ \A m \in s2[r2[n]] : n < m
                /\ \A m \in s2[n] : s2[m] \subseteq s2[n]
    <2>0. n \in NodeOrNil /\ n \in Node \cup Sentinels /\ k \in NodeOrNil /\ k \in Nat /\ n \in Nat
      BY NilIsNoNode DEF NodeOrNil
    <2>1. CASE n # p
      <3>1. l2[n] = l[n] /\ r2[n] = r[n]
        BY <1>8, <2>0, <2>1
      <3>2. p \in s[n] <=> p \in s[l[n]] \/ p \in s[r[n]]
        BY <1>5, <2>1
      <3>3. s2[n] = {n} \cup s2[l2[n]] \cup s2[r2[n]]
        BY <1>5, <1>10, <1>12, <2>0, <3>1, <3>2
      <3>4. ASSUME NEW m \in s2[l2[n]] PROVE m < n
        <4>1. CASE m \in s[l[n]]
          BY <1>5, <4>1
        <4>2. CASE m \notin s[l[n]]
          <5>1. m = k /\ p \in s[l[n]]
            BY <1>10, <1>12, <3>1, <3>4, <4>2
          <5>2. ~(n < k)
            <6>1. p < n /\ p \in Nat
              BY <1>1, <1>5, <1>12, <5>1, NilIsNoNode
            <6>2. n < k <=> n < p
              BY <1>13, <5>1
            <6> QED
              BY <2>0, <6>1, <6>2
          <5>3. n # k
            BY <1>4, <1>1, <5>1
          <5> QED
            BY <2>0, <5>1, <5>2, <5>3
        <4> QED
          BY <4>1, <4>2
      <3>5. ASSUME NEW m \in s2[r2[n]] PROVE n < m
        <4>1. CASE m \in s[r[n]]
          BY <1>5, <4>1
        <4>2. CASE m \notin s[r[n]]
          <5>1. m = k /\ p \in s[r[n]]
            BY <1>10, <1>12, <3>1, <3>5, <4>2
          <5>2. n < p
            BY <1>5, <5>1
          <5>3. n < k <=> n < p
            BY <1>13, <5>1
          <5> QED
            BY <5>1, <5>2, <5>3
        <4> QED
          BY <4>1, <4>2
      <3>6. ASSUME NEW m \in s2[n] PROVE s2[m] \subseteq s2[n]
        <4>1. CASE m = k
          BY <1>11, <3>6, <4>1
        <4>2. CASE m # k
          <5>1. m \in s[n] /\ m \in Node /\ m \in NodeOrNil
            BY <1>1, <1>10, <2>0, <3>6, <4>2 DEF NodeOrNil
          <5>2. s[m] \subseteq s[n]
            BY <1>5, <5>1
          <5> QED
            BY <1>10, <2>0, <5>1, <5>2
        <4> QED
          BY <4>1, <4>2
      <3> QED
        BY <3>3, <3>4, <3>5, <3>6
    <2>2. CASE n = p
      <3>1. /\ p \in Node /\ p \in s[p] /\ p # head /\ p \notin s[l[p]] /\ p \notin s[r[p]]
        BY <1>5, <2>2, KidBelow, NilIsNoNode
      <3>2. s2[p] = s[p] \cup {k}
        BY <1>10, <2>0, <2>2, <3>1
      <3>3. s2[l[p]] = s[l[p]] /\ s2[r[p]] = s[r[p]]
        BY <1>10, <1>12, <2>2, <3>1
      <3>4. onLeft <=> k < p
        BY <3>1
      <3>7. ASSUME NEW m \in s2[p] PROVE s2[m] \subseteq s2[p]
        <4>1. CASE m = k
          BY <1>11, <3>2, <4>1
        <4>2. CASE m # k
          <5>1. m \in s[p] /\ m \in NodeOrNil /\ s[m] \subseteq s[p]
            BY <1>1, <1>5, <2>0, <2>2, <3>2, <3>7, <4>2 DEF NodeOrNil
          <5> QED
            BY <1>10, <3>2, <5>1
        <4> QED
          BY <4>1, <4>2
      <3>5. CASE onLeft
        <4>1. l2[p] = k /\ r2[p] = r[p] /\ l[p] = nil
          BY <1>8, <2>0, <2>2, <3>5 DEF Kid
        <4>2. s2[l2[p]] = {k} /\ s2[r2[p]] = s[r[p]] /\ s[l[p]] = {}
          BY <1>1, <1>11, <3>3, <4>1
        <4>3. s2[p] = {p} \cup s2[l2[p]] \cup s2[r2[p]]
          BY <1>5, <2>2, <3>2, <4>2
        <4>4. \A m \in s2[l2[p]] : m < p
          BY <3>4, <3>5, <4>2
        <4>5. \A m \in s2[r2[p]] : p < m
          BY <1>5, <2>2, <4>2
        <4> QED
          BY <2>2, <3>7, <4>3, <4>4, <4>5
      <3>6. CASE ~onLeft
        <4>1. r2[p] = k /\ l2[p] = l[p] /\ r[p] = nil
          BY <1>8, <2>0, <2>2, <3>6 DEF Kid
        <4>2. s2[r2[p]] = {k} /\ s2[l2[p]] = s[l[p]] /\ s[r[p]] = {}
          BY <1>1, <1>11, <3>3, <4>1
        <4>3. p < k
          BY <1>3, <2>0, <2>2, <3>4, <3>6
        <4>4. s2[p] = {p} \cup s2[l2[p]] \cup s2[r2[p]]
          BY <1>5, <2>2, <3>2, <4>2
        <4>5. \A m \in s2[r2[p]] : p < m
          BY <4>2, <4>3
        <4>6. \A m \in s2[l2[p]] : m < p
          BY <1>5, <2>2, <4>2
        <4> QED
          BY <2>2, <3>7, <4>4, <4>5, <4>6
      <3> QED
        BY <3>5, <3>6
    <2> QED
      BY <2>1, <2>2
  <1>15. OneParent(l2, r2)
    <2> SUFFICES ASSUME NEW m \in Node \cup {head}, NEW n \in Node \cup {head}, m # n,
                        NEW x \in {l2[m], r2[m]}, x \in {l2[n], r2[n]}, x # nil
                 PROVE  FALSE
      BY DEF OneParent
    <2>1. m \in Node \cup Sentinels /\ n \in Node \cup Sentinels
      BY DEF Sentinels
    <2>2. CASE x = k
      <3>1. k # r[head] /\ k # l[head]
        <4>1. k = r[head] => k \in s[r[head]]
          BY <1>4
        <4> QED
          BY <1>1, <1>2, <1>3, <4>1
      <3> QED
        BY <1>7, <1>8, <2>1, <2>2, <3>1
    <2>3. CASE x # k
      BY <1>1, <1>8, <2>1, <2>3 DEF OneParent
    <2> QED
      BY <2>2, <2>3
  <1>16. ASSUME NEW n \in Node, NEW x \in Node, NEW y \in {l2[x], r2[x]}, y \in s2[n], y # n
         PROVE  x \in s2[n]
    <2>1. n \in NodeOrNil /\ x \in Node \cup Sentinels
      BY DEF NodeOrNil
    <2>2. CASE y = k
      <3>1. x = p
        BY <1>7, <1>8, <2>1, <2>2
      <3>2. p \in s[n]
        BY <1>6, <1>10, <1>16, <2>1, <2>2
      <3> QED
        BY <1>10, <2>1, <3>1, <3>2
    <2>3. CASE y # k
      <3>1. y \in {l[x], r[x]}
        BY <1>8, <2>1, <2>3
      <3>2. y \in s[n]
        BY <1>10, <1>16, <2>1, <2>3
      <3> QED
        BY <1>1, <1>10, <1>16, <2>1, <3>1, <3>2 DEF FromAbove
    <2> QED
      BY <2>2, <2>3
  <1>17. Tree(l2, r2, s2)
    <2>1. FromAbove(l2, r2, s2)
      BY ONLY <1>16 DEF FromAbove
    <2> QED
      BY <1>8, <1>9, <1>10, <1>14, <1>15, <2>1 DEF Tree
  <1>18. s2[r2[head]] = members \cup {k}
    <2>1. head \in Node \cup Sentinels
      BY DEF Sentinels
    <2>2. CASE p = head
      <3>1. r2[head] = k /\ r[head] = nil
        BY <1>8, <2>1, <2>2 DEF Kid
      <3> QED
        BY <1>1, <1>2, <1>11, <3>1
    <2>3. CASE p # head
      <3>1. r2[head] = r[head]
        BY <1>8, <2>1, <2>3
      <3> QED
        BY <1>2, <1>10, <2>3, <3>1
    <2> QED
      BY <2>2, <2>3
  <1>19. \A n \in Node \ (members \cup {k}) : l2[n] = nil /\ r2[n] = nil
    <2> SUFFICES ASSUME NEW n \in Node, n \notin members, n # k
                 PROVE  l2[n] = nil /\ r2[n] = nil
      OBVIOUS
    <2>1. n # p /\ n \in Node \cup Sentinels
      BY NilIsNoNode
    <2> QED
      BY <1>2, <1>8, <2>1
  <1> QED
    BY <1>17, <1>18, <1>19 DEF Has

\* A rotation, once its three stores are done: g, the kid of c on the side onC,
\* takes the place of c, the kid of a on the side onA, and c becomes its kid.
Turned(l, r, l2, r2, a, onA, c, onC, g) ==
    /\ l2 \in [Node \cup Sentinels -> NodeOrNil]
    /\ r2 \in [Node \cup Sentinels -> NodeOrNil]
    /\ \A n \in Node \cup Sentinels :
         /\ l2[n] = IF n = a /\ onA THEN g ELSE IF n = c /\ onC THEN r[g]
                    ELSE IF n = g /\ ~onC THEN c ELSE l[n]
         /\ r2[n] = IF n = a /\ ~onA THEN g ELSE IF n = c /\ ~onC THEN l[g]
                    ELSE IF n = g /\ onC THEN c ELSE r[n]

\* Who is who in a rotation.
LEMMA Kinship ==
    ASSUME NEW l, NEW r, NEW s, Tree(l, r, s),
           NEW a \in Node \cup {head}, NEW onA \in BOOLEAN, a = head => ~onA,
           NEW c \in Node, c = Kid(l, r, onA, a),
           NEW onC \in BOOLEAN, NEW g \in Node, g = Kid(l, r, onC, c)
    PROVE  /\ a # c /\ a # g /\ c # g
           /\ \A n \in Node \cup {head} : c \in {l[n], r[n]} => n = a
           /\ \A n \in Node \cup {head} : g \in {l[n], r[n]} => n = c
           /\ Kid(l, r, ~onA, a) \notin {c, g} /\ Kid(l, r, ~onC, c) \notin {c, g}
           /\ l[g] \notin {a, c, g} /\ r[g] \notin {a, c, g}
           /\ s[c] = {c} \cup s[g] \cup s[Kid(l, r, ~onC, c)]
           /\ s[g] = {g} \cup s[Kid(l, r, onC, g)] \cup s[Kid(l, r, ~onC, g)]
  <1>1. c \in {l[a], r[a]} /\ g \in {l[c], r[c]} /\ c # nil /\ g # nil
    BY NilIsNoNode DEF Kid
  <1>2. c # g /\ g \in s[c] /\ c \notin s[g] /\ c \in s[c] /\ g \in s[g] /\ s[g] \subseteq s[c]
    BY <1>1, KidBelow
  <1>3. a \in Node => a # c /\ a \notin s[c] /\ a # g /\ c \in s[a]
    BY <1>1, <1>2, KidBelow
  <1>4. a # c /\ a # g
    BY <1>3, NilIsNoNode
  <1>5. \A n \in Node \cup {head} : /\ c \in {l[n], r[n]} => n = a
                                    /\ g \in {l[n], r[n]} => n = c
    <2>1. OneParent(l, r)
      BY DEF Tree
    <2>2. \A n \in Node \cup {head} : c \in {l[n], r[n]} => n = a
      BY <1>1, <2>1 DEF OneParent
    <2>3. \A n \in Node \cup {head} : g \in {l[n], r[n]} => n = c
      BY <1>1, <2>1 DEF OneParent
    <2> QED
      BY <2>2, <2>3
  <1>6. \A n \in Node : \A x \in Node : ~(x = l[n] /\ x = r[n])
    <2> SUFFICES ASSUME NEW n \in Node, NEW x \in Node, x = l[n], x = r[n] PROVE FALSE
      OBVIOUS
    <2>1. x \in s[x]
      BY KidBelow
    <2>2. x < n /\ n < x
      BY <2>1 DEF Tree
    <2> QED
      BY <2>2, NilIsNoNode
  <1>7. l[head] = nil
    BY DEF Tree
  <1>8. Kid(l, r, ~onA, a) # c
    BY <1>1, <1>6, <1>7 DEF Kid
  <1>9. Kid(l, r, ~onA, a) # g
    BY <1>4, <1>5 DEF Kid
  <1>10. Kid(l, r, ~onC, c) # g
    BY <1>1, <1>6 DEF Kid
  <1>11. Kid(l, r, ~onC, c) # c
    BY <1>4, <1>5 DEF Kid
  <1>12. /\ l[g] # g /\ r[g] # g /\ l[g] # c /\ r[g] # c
    BY <1>2, <1>4, <1>5
  <1>13. l[g] # a /\ r[g] # a
    <2>1. \A x \in {l[g], r[g]} : s[x] \subseteq s[g] /\ (x # nil => x \in s[x])
      BY KidBelow
    <2> QED
      BY <1>1, <1>2, <1>3, <1>7, <2>1, NilIsNoNode DEF Tree, NodeOrNil
  <1>14. /\ s[c] = {c} \cup s[l[c]] \cup s[r[c]] /\ s[g] = {g} \cup s[l[g]] \cup s[r[g]]
    BY DEF Tree
  <1>15. s[c] = {c} \cup s[g] \cup s[Kid(l, r, ~onC, c)]
    BY <1>14 DEF Kid
  <1>16. s[g] = {g} \cup s[Kid(l, r, onC, g)] \cup s[Kid(l, r, ~onC, g)]
    BY <1>14 DEF Kid
  <1> QED
    BY <1>2, <1>4, <1>5, <1>8, <1>9, <1>10, <1>11, <1>12, <1>13, <1>15, <1>16

\* The kids of the three, and where the new links are: o is the other kid of c,
\* i the kid that g gives up and u the one it keeps.
Resettled(l, r, l2, r2, a, onA, c, onC, g, o, i, u) ==
    /\ Kid(l2, r2, onC, c) = i /\ Kid(l2, r2, ~onC, c) = o
    /\ Kid(l2, r2, ~onC, g) = c /\ Kid(l2, r2, onC, g) = u
    /\ Kid(l2, r2, ~onA, a) = Kid(l, r, ~onA, a) /\ Kid(l2, r2, onA, a) = g
    /\ \A n \in Node \cup {head} : n \notin {a, c, g} => l2[n] = l[n] /\ r2[n] = r[n]
    /\ {l2[a], r2[a]} = {g, Kid(l, r, ~onA, a)} /\ {l2[c], r2[c]} = {i, o}
    /\ {l2[g], r2[g]} = {c, u} /\ {l[c], r[c]} = {g, o} /\ {l[g], r[g]} = {i, u}
    /\ l2[a] \in {g, Kid(l, r, ~onA, a)} /\ r2[a] \in {g, Kid(l, r, ~onA, a)}
    /\ l2[c] \in {i, o} /\ r2[c] \in {i, o} /\ l2[g] \in {c, u} /\ r2[g] \in {c, u}
    /\ u \in {l[g], r[g]} /\ i \in {l[g], r[g]} /\ o \in {l[c], r[c]}
    /\ \A k \in Node \cup {head} : \A y \in {l2[k], r2[k]} :
         /\ y = g => k = a
         /\ y = c => k = g
         /\ y \notin {c, g} => y \in {l[k], r[k]} \/ (y = i /\ k = c)
    /\ i = u => i = nil
    /\ i \in NodeOrNil /\ o \in NodeOrNil /\ u \in NodeOrNil
    /\ i \notin {a, c, g} /\ u \notin {a, c, g} /\ o \notin {c, g}

\* A rotation turns the three around as Resettled says.
LEMMA TurnedKids ==
    ASSUME NEW l, NEW r, NEW s, Tree(l, r, s),
           NEW a \in Node \cup {head}, NEW onA \in BOOLEAN, a = head => ~onA,
           NEW c \in Node, c = Kid(l, r, onA, a),
           NEW onC \in BOOLEAN, NEW g \in Node, g = Kid(l, r, onC, c),
           NEW l2, NEW r2, Turned(l, r, l2, r2, a, onA, c, onC, g)
    PROVE  Resettled(l, r, l2, r2, a, onA, c, onC, g,
                     Kid(l, r, ~onC, c), Kid(l, r, ~onC, g), Kid(l, r, onC, g))
  <1> DEFINE o == Kid(l, r, ~onC, c)
             i == Kid(l, r, ~onC, g)
             u == Kid(l, r, onC, g)
  <1>3. /\ a # c /\ a # g /\ c # g
        /\ \A n \in Node \cup {head} : c \in {l[n], r[n]} => n = a
        /\ \A n \in Node \cup {head} : g \in {l[n], r[n]} => n = c
        /\ Kid(l, r, ~onA, a) \notin {c, g} /\ o \notin {c, g}
        /\ l[g] \notin {a, c, g} /\ r[g] \notin {a, c, g}
    BY Kinship
  <1>4. \A n \in Node \cup Sentinels :
             /\ l2[n] = IF n = a /\ onA THEN g ELSE IF n = c /\ onC THEN r[g]
                        ELSE IF n = g /\ ~onC THEN c ELSE l[n]
             /\ r2[n] = IF n = a /\ ~onA THEN g ELSE IF n = c /\ ~onC THEN l[g]
                        ELSE IF n = g /\ onC THEN c ELSE r[n]
    BY DEF Turned
  <1>6. i \in NodeOrNil /\ o \in NodeOrNil /\ u \in NodeOrNil
    BY DEF Kid, Tree
  <1>8. i \notin {a, c, g} /\ u \notin {a, c, g}
    BY <1>3 DEF Kid
  <1>10. /\ Kid(l2, r2, onC, c) = i /\ Kid(l2, r2, ~onC, c) = o
         /\ Kid(l2, r2, ~onC, g) = c /\ Kid(l2, r2, onC, g) = u
         /\ Kid(l2, r2, ~onA, a) = Kid(l, r, ~onA, a)
         /\ Kid(l2, r2, onA, a) = g
    BY <1>3, <1>4 DEF Kid, Sentinels
  <1>11. \A n \in Node \cup {head} : n \notin {a, c, g} => l2[n] = l[n] /\ r2[n] = r[n]
    BY <1>4 DEF Sentinels
  <1>20. /\ {l2[a], r2[a]} = {g, Kid(l, r, ~onA, a)} /\ {l2[c], r2[c]} = {i, o}
         /\ {l2[g], r2[g]} = {c, u} /\ {l[c], r[c]} = {g, o} /\ {l[g], r[g]} = {i, u}
         /\ l2[a] \in {g, Kid(l, r, ~onA, a)} /\ r2[a] \in {g, Kid(l, r, ~onA, a)}
         /\ l2[c] \in {i, o} /\ r2[c] \in {i, o} /\ l2[g] \in {c, u} /\ r2[g] \in {c, u}
         /\ u \in {l[g], r[g]} /\ i \in {l[g], r[g]} /\ o \in {l[c], r[c]}
    <2>3. {l[c], r[c]} = {g, o} /\ {l[g], r[g]} = {i, u}
      BY DEF Kid
    <2>4. {l2[a], r2[a]} = {g, Kid(l, r, ~onA, a)}
      BY <1>10 DEF Kid
    <2>5. {l2[c], r2[c]} = {i, o}
      BY <1>10 DEF Kid
    <2>6. {l2[g], r2[g]} = {c, u}
      BY <1>10 DEF Kid
    <2>7. /\ l2[a] \in {g, Kid(l, r, ~onA, a)} /\ r2[a] \in {g, Kid(l, r, ~onA, a)}
          /\ l2[c] \in {i, o} /\ r2[c] \in {i, o} /\ l2[g] \in {c, u} /\ r2[g] \in {c, u}
          /\ u \in {l[g], r[g]} /\ i \in {l[g], r[g]} /\ o \in {l[c], r[c]}
      BY <1>10 DEF Kid
    <2> QED
      BY <2>3, <2>4, <2>5, <2>6, <2>7
  <1>21. ASSUME NEW k \in Node \cup {head}, g \in {l2[k], r2[k]} PROVE k = a
    BY <1>3, <1>8, <1>11, <1>20, <1>21
  <1>22. ASSUME NEW k \in Node \cup {head}, c \in {l2[k], r2[k]} PROVE k = g
    BY <1>3, <1>8, <1>11, <1>20, <1>22
  <1>23. ASSUME NEW k \in Node \cup {head}, NEW y \in {l2[k], r2[k]}, y \notin {c, g}
         PROVE  y \in {l[k], r[k]} \/ (y = i /\ k = c)
    <2>1. CASE k = a
      <3>1. y \in {g, Kid(l, r, ~onA, a)}
        BY <1>20, <1>23, <2>1
      <3> QED
        BY <1>23, <2>1, <3>1 DEF Kid
    <2>2. CASE k = c
      <3>1. y \in {i, o}
        BY <1>20, <1>23, <2>2
      <3> QED
        BY <1>20, <2>2, <3>1
    <2>3. CASE k = g
      <3>1. y \in {c, u}
        BY <1>20, <1>23, <2>3
      <3> QED
        BY <1>20, <1>23, <2>3, <3>1
    <2>4. CASE k \notin {a, c, g}
      BY <1>11, <1>23, <2>4
    <2> QED
      BY <2>1, <2>2, <2>3, <2>4
  <1>24. i # u \/ i = nil
    <2>1. ASSUME i # nil, i = u PROVE FALSE
      <3>1. i = l[g] /\ i = r[g]
        <4>1. CASE onC
          BY <2>1, <4>1 DEF Kid
        <4>2. CASE ~onC
          BY <2>1, <4>2 DEF Kid
        <4> QED
          BY <4>1, <4>2
      <3>2. \A x \in {l[g], r[g]} : x # nil => x \in s[x] /\ x \in Node
        BY KidBelow
      <3>4. i \in s[i] /\ i \in Nat /\ g \in Nat
        <4> HIDE DEF i
        <4> QED
          BY <2>1, <3>1, <3>2, NilIsNoNode
      <3>3. i < g /\ g < i
        BY <3>1, <3>4 DEF Tree
      <3> QED
        BY <3>3, <3>4
    <2> QED
      BY <2>1
  <1> QED
    BY <1>3, <1>6, <1>8, <1>10, <1>11, <1>20, <1>21, <1>22, <1>23, <1>24 DEF Resettled

\* A rotation keeps the tree and its members: g has below it what c had.
LEMMA RotateTree ==
    ASSUME NEW l, NEW r, NEW s, Tree(l, r, s),
           NEW a \in Node \cup {head}, NEW onA \in BOOLEAN, a = head => ~onA,
           NEW c \in Node, c = Kid(l, r, onA, a),
           NEW onC \in BOOLEAN, NEW g \in Node, g = Kid(l, r, onC, c),
           NEW l2, NEW r2, Turned(l, r, l2, r2, a, onA, c, onC, g)
    PROVE  \E s2 : /\ Tree(l2, r2, s2) /\ s2[r2[head]] = s[r[head]]
                   /\ s2[g] = s[c] /\ \A n \in NodeOrNil : n \notin {c, g} => s2[n] = s[n]
  <1> DEFINE o == Kid(l, r, ~onC, c)
             i == Kid(l, r, ~onC, g)
             u == Kid(l, r, onC, g)
             s2 == [s EXCEPT ![g] = s[c], ![c] = {c} \cup s[o] \cup s[i]]
  <1>1. /\ l \in [Node \cup Sentinels -> NodeOrNil] /\ l[nil] = nil /\ l[head] = nil
        /\ r \in [Node \cup Sentinels -> NodeOrNil] /\ r[nil] = nil
        /\ s \in [NodeOrNil -> SUBSET Node] /\ s[nil] = {}
        /\ OneParent(l, r) /\ FromAbove(l, r, s)
    BY DEF Tree
  <1>2. \A n \in Node : /\ s[n] = {n} \cup s[l[n]] \cup s[r[n]]
                        /\ \A m \in s[l[n]] : m < n
                        /\ \A m \in s[r[n]] : n < m
                        /\ \A m \in s[n] : s[m] \subseteq s[n]
    BY DEF Tree
  <1>3. /\ a # c /\ a # g /\ c # g
        /\ \A n \in Node \cup {head} : c \in {l[n], r[n]} => n = a
        /\ \A n \in Node \cup {head} : g \in {l[n], r[n]} => n = c
        /\ Kid(l, r, ~onA, a) \notin {c, g} /\ o \notin {c, g}
        /\ l[g] \notin {a, c, g} /\ r[g] \notin {a, c, g}
        /\ s[c] = {c} \cup s[g] \cup s[o]
        /\ s[g] = {g} \cup s[u] \cup s[i]
    BY Kinship
  <1>4. /\ l2 \in [Node \cup Sentinels -> NodeOrNil]
        /\ r2 \in [Node \cup Sentinels -> NodeOrNil]
        /\ \A n \in Node \cup Sentinels :
             /\ l2[n] = IF n = a /\ onA THEN g ELSE IF n = c /\ onC THEN r[g]
                        ELSE IF n = g /\ ~onC THEN c ELSE l[n]
             /\ r2[n] = IF n = a /\ ~onA THEN g ELSE IF n = c /\ ~onC THEN l[g]
                        ELSE IF n = g /\ onC THEN c ELSE r[n]
    BY DEF Turned
  <1>5. l2[nil] = nil /\ l2[head] = nil /\ r2[nil] = nil
    BY <1>1, <1>4, NilIsNoNode DEF Sentinels
  <1>6. o \in NodeOrNil /\ i \in NodeOrNil /\ u \in NodeOrNil /\ c \in NodeOrNil /\ g \in NodeOrNil
    BY <1>1 DEF Kid, NodeOrNil
  <1>7. /\ s2 \in [NodeOrNil -> SUBSET Node] /\ s2[nil] = {}
        /\ s2[g] = s[c] /\ s2[c] = {c} \cup s[o] \cup s[i]
        /\ \A n \in NodeOrNil : n \notin {c, g} => s2[n] = s[n]
    <2>1. s2[g] = s[c] /\ s2[c] = {c} \cup s[o] \cup s[i]
      BY <1>1, <1>3, <1>6
    <2>2. \A n \in NodeOrNil : n \notin {c, g} => s2[n] = s[n]
      BY <1>1
    <2>3. s2[nil] = {}
      BY <1>1, <2>2, NilIsNoNode DEF NodeOrNil
    <2>4. s[c] \in SUBSET Node /\ {c} \cup s[o] \cup s[i] \in SUBSET Node
      BY <1>1, <1>6
    <2>5. s2 \in [NodeOrNil -> SUBSET Node]
      BY <1>1, <2>4
    <2> QED
      BY <2>1, <2>2, <2>3, <2>5
  <1>8. i \notin {a, c, g} /\ u \notin {a, c, g}
    BY <1>3 DEF Kid
  <1>9. s2[o] = s[o] /\ s2[i] = s[i] /\ s2[u] = s[u]
    BY <1>3, <1>6, <1>7, <1>8
  <1>11. Resettled(l, r, l2, r2, a, onA, c, onC, g, o, i, u)
    BY TurnedKids
  <1>12. \A n \in Node : l[n] \in NodeOrNil /\ r[n] \in NodeOrNil
    BY <1>1
  <1> HIDE DEF o, i, u, s2
  <1>10. /\ Kid(l2, r2, onC, c) = i /\ Kid(l2, r2, ~onC, c) = o
         /\ Kid(l2, r2, ~onC, g) = c /\ Kid(l2, r2, onC, g) = u
         /\ Kid(l2, r2, ~onA, a) = Kid(l, r, ~onA, a) /\ Kid(l2, r2, onA, a) = g
         /\ \A n \in Node \cup {head} : n \notin {a, c, g} => l2[n] = l[n] /\ r2[n] = r[n]
         /\ {l2[a], r2[a]} = {g, Kid(l, r, ~onA, a)} /\ {l2[c], r2[c]} = {i, o}
         /\ {l2[g], r2[g]} = {c, u} /\ {l[c], r[c]} = {g, o} /\ {l[g], r[g]} = {i, u}
         /\ \A k \in Node \cup {head} : \A y \in {l2[k], r2[k]} :
              /\ y = g => k = a
              /\ y = c => k = g
              /\ y \notin {c, g} => y \in {l[k], r[k]} \/ (y = i /\ k = c)
         /\ i = u => i = nil
    BY <1>11 DEF Resettled
  <1>13. ASSUME NEW n \in Node
         PROVE  /\ s2[n] = {n} \cup s2[l2[n]] \cup s2[r2[n]]
                /\ \A m \in s2[l2[n]] : m < n
                /\ \A m \in s2[r2[n]] : n < m
    <2>1. CASE n \notin {a, c, g}
      <3>1. l2[n] = l[n] /\ r2[n] = r[n] /\ l[n] \notin {c, g} /\ r[n] \notin {c, g}
        BY <1>3, <1>10, <2>1
      <3>2. s2[n] = s[n] /\ s2[l2[n]] = s[l[n]] /\ s2[r2[n]] = s[r[n]]
        BY <1>7, <1>12, <2>1, <3>1 DEF NodeOrNil
      <3> QED
        BY <1>2, <3>2
    <2>2. CASE n = a
      <3> DEFINE v == Kid(l, r, ~onA, a)
      <3>1. a \in Node /\ s2[a] = s[a]
        BY <1>3, <1>7, <2>2 DEF NodeOrNil
      <3>2. s2[v] = s[v]
        BY <1>3, <1>7, <1>12, <3>1 DEF Kid
      <3>4. CASE onA
        <4>1. l2[a] = g /\ r2[a] = r[a] /\ l[a] = c /\ v = r[a]
          BY <1>10, <3>4 DEF Kid
        <4>2. s2[l2[a]] = s[l[a]] /\ s2[r2[a]] = s[r[a]]
          BY <1>7, <3>2, <4>1
        <4>3. /\ s[a] = {a} \cup s[l[a]] \cup s[r[a]]
              /\ \A m \in s[l[a]] : m < a
              /\ \A m \in s[r[a]] : a < m
          BY <1>2, <3>1
        <4> QED
          BY <2>2, <3>1, <4>2, <4>3
      <3>5. CASE ~onA
        <4>1. r2[a] = g /\ l2[a] = l[a] /\ r[a] = c /\ v = l[a]
          BY <1>10, <3>5 DEF Kid
        <4>2. s2[r2[a]] = s[r[a]] /\ s2[l2[a]] = s[l[a]]
          BY <1>7, <3>2, <4>1
        <4>3. /\ s[a] = {a} \cup s[l[a]] \cup s[r[a]]
              /\ \A m \in s[l[a]] : m < a
              /\ \A m \in s[r[a]] : a < m
          BY <1>2, <3>1
        <4> QED
          BY <2>2, <3>1, <4>2, <4>3
      <3> QED
        BY <3>4, <3>5
    <2>3. CASE n = c
      <3>1. CASE onC
        <4>1. l2[c] = i /\ r2[c] = o /\ g = l[c] /\ o = r[c]
          BY <1>10, <3>1 DEF Kid, o
        <4>2. s[i] \subseteq s[g]
          BY <1>3
        <4>3. s2[l2[c]] = s[i] /\ s2[r2[c]] = s[r[c]]
          BY <1>9, <4>1
        <4>4. s2[c] = {c} \cup s2[l2[c]] \cup s2[r2[c]]
          BY <1>7, <4>1, <4>3
        <4>5. \A m \in s2[l2[c]] : m < c
          BY <1>2, <4>1, <4>2, <4>3
        <4>6. \A m \in s2[r2[c]] : c < m
          BY <1>2, <4>3
        <4> QED
          BY <2>3, <4>4, <4>5, <4>6
      <3>2. CASE ~onC
        <4>1. r2[c] = i /\ l2[c] = o /\ g = r[c] /\ o = l[c]
          BY <1>10, <3>2 DEF Kid, o
        <4>2. s[i] \subseteq s[g]
          BY <1>3
        <4>3. s2[r2[c]] = s[i] /\ s2[l2[c]] = s[l[c]]
          BY <1>9, <4>1
        <4>4. s2[c] = {c} \cup s2[l2[c]] \cup s2[r2[c]]
          BY <1>7, <4>1, <4>3
        <4>5. \A m \in s2[r2[c]] : c < m
          BY <1>2, <4>1, <4>2, <4>3
        <4>6. \A m \in s2[l2[c]] : m < c
          BY <1>2, <4>3
        <4> QED
          BY <2>3, <4>4, <4>5, <4>6
      <3> QED
        BY <3>1, <3>2
    <2>4. CASE n = g
      <3>0. s2[g] = {g} \cup s2[c] \cup s2[u]
        BY <1>3, <1>7, <1>9
      <3>1. CASE onC
        <4>1. l2[g] = u /\ r2[g] = c /\ g = l[c] /\ o = r[c] /\ i = r[g] /\ u = l[g]
          BY <1>10, <3>1 DEF Kid, o, i, u
        <4>2. g < c /\ c \in Nat /\ g \in Nat
          BY <1>2, <1>3, <4>1, NilIsNoNode
        <4>3. ASSUME NEW m \in s2[c] PROVE g < m
          <5>1. m \in Nat
            BY <1>6, <1>7, <4>3, NilIsNoNode
          <5>2. CASE m \in s[o]
            BY <1>2, <4>1, <4>2, <5>1, <5>2
          <5>3. CASE m \in s[i]
            BY <1>2, <4>1, <5>3
          <5> QED
            BY <1>7, <4>2, <4>3, <5>2, <5>3
        <4>4. s2[l2[g]] = s[l[g]] /\ s2[r2[g]] = s2[c]
          BY <1>9, <4>1
        <4>5. s2[g] = {g} \cup s2[l2[g]] \cup s2[r2[g]]
          BY <1>9, <3>0, <4>1, <4>4
        <4>6. \A m \in s2[l2[g]] : m < g
          BY <1>2, <4>4
        <4>7. \A m \in s2[r2[g]] : g < m
          BY <4>3, <4>4
        <4> QED
          BY <2>4, <4>5, <4>6, <4>7
      <3>2. CASE ~onC
        <4>1. r2[g] = u /\ l2[g] = c /\ g = r[c] /\ o = l[c] /\ i = l[g] /\ u = r[g]
          BY <1>10, <3>2 DEF Kid, o, i, u
        <4>2. c < g /\ c \in Nat /\ g \in Nat
          BY <1>2, <1>3, <4>1, NilIsNoNode
        <4>3. ASSUME NEW m \in s2[c] PROVE m < g
          <5>1. m \in Nat
            BY <1>6, <1>7, <4>3, NilIsNoNode
          <5>2. CASE m \in s[o]
            BY <1>2, <4>1, <4>2, <5>1, <5>2
          <5>3. CASE m \in s[i]
            BY <1>2, <4>1, <5>3
          <5> QED
            BY <1>7, <4>2, <4>3, <5>2, <5>3
        <4>4. s2[r2[g]] = s[r[g]] /\ s2[l2[g]] = s2[c]
          BY <1>9, <4>1
        <4>5. s2[g] = {g} \cup s2[l2[g]] \cup s2[r2[g]]
          BY <1>9, <3>0, <4>1, <4>4
        <4>6. \A m \in s2[r2[g]] : g < m
          BY <1>2, <4>4
        <4>7. \A m \in s2[l2[g]] : m < g
          BY <4>3, <4>4
        <4> QED
          BY <2>4, <4>5, <4>6, <4>7
      <3> QED
        BY <3>1, <3>2
    <2> QED
      BY <2>1, <2>2, <2>3, <2>4
  \* A sub-tree other than that of c has both c and g, or neither.
  <1>14. ASSUME NEW n \in Node, n # g
         PROVE  g \in s[n] => c \in s[n]
    <2>1. g \in {l[c], r[c]}
      BY DEF Kid
    <2> QED
      BY <1>1, <1>14, <2>1 DEF FromAbove
  <1>15. ASSUME NEW n \in Node, NEW m \in s2[n]
         PROVE  s2[m] \subseteq s2[n]
    <2>0. c \in s[c] /\ g \in s[c] /\ m \in Node /\ n \in NodeOrNil /\ m \in NodeOrNil
      BY <1>2, <1>3, <1>7 DEF NodeOrNil
    <2>1. CASE n \notin {c, g}
      <3>1. s2[n] = s[n] /\ m \in s[n]
        BY <1>7, <1>15, <2>0, <2>1
      <3>2. CASE m = g
        <4>1. c \in s[n]
          BY <1>14, <2>1, <3>1, <3>2
        <4> QED
          BY <1>2, <1>7, <3>1, <3>2, <4>1
      <3>3. CASE m # g
        <4>1. s2[m] \subseteq s[m]
          BY <1>3, <1>7, <2>0, <3>3
        <4>2. s[m] \subseteq s[n]
          BY <1>2, <3>1
        <4> QED
          BY <3>1, <4>1, <4>2
      <3> QED
        BY <3>2, <3>3
    <2>2. CASE n = g
      <3>1. m \in s[c] /\ s[m] \subseteq s[c]
        BY <1>2, <1>7, <1>15, <2>2
      <3>2. s2[m] \subseteq s[c]
        BY <1>3, <1>7, <2>0, <3>1
      <3> QED
        BY <1>7, <2>2, <3>2
    <2>3. CASE n = c
      <3>1. CASE m = c
        BY <2>3, <3>1
      <3>2. CASE m # c
        <4>1. m \in s[o] \/ m \in s[i]
          BY <1>7, <1>15, <2>3, <3>2
        <4>2. PICK x \in {o, i} : m \in s[x]
          BY <4>1
        <4>3. x \in Node /\ x \notin {c, g} /\ s[x] \subseteq s2[c]
          BY <1>1, <1>3, <1>6, <1>7, <1>8, <4>2 DEF NodeOrNil
        <4>4. s[m] \subseteq s[x]
          BY <1>2, <4>2, <4>3
        <4>5. m # g
          <5>1. CASE m = g
            <6>1. c \in s[x]
              BY <1>14, <4>2, <4>3, <5>1
            <6>2. c \notin s[o]
              BY KidBelow DEF o, Kid
            <6>3. c \notin s[g]
              BY KidBelow DEF Kid
            <6> QED
              BY <1>3, <4>2, <6>1, <6>2, <6>3
          <5> QED
            BY <5>1
        <4>6. s2[m] = s[m]
          BY <1>7, <2>0, <3>2, <4>5
        <4> QED
          BY <2>3, <4>3, <4>4, <4>6
      <3> QED
        BY <3>1, <3>2
    <2> QED
      BY <2>1, <2>2, <2>3
  <1>16. OneParent(l2, r2)
    <2>1. ASSUME NEW m \in Node \cup {head}, NEW n \in Node \cup {head}, m # n,
                 NEW x \in {l2[m], r2[m]}, x \in {l2[n], r2[n]}, x # nil
          PROVE  FALSE
      <3>1. x \notin {c, g}
        BY <1>10, <2>1
      <3>2. CASE x = i
        <4>1. \A k \in Node \cup {head} : i \in {l[k], r[k]} => k = g
          BY <1>1, <1>10, <2>1, <3>2 DEF OneParent
        <4>2. i \notin {l2[g], r2[g]}
          BY <1>8, <1>10, <2>1, <3>2
        <4> QED
          BY <1>10, <2>1, <3>1, <3>2, <4>1, <4>2
      <3>3. CASE x # i
        <4>1. x \in {l[m], r[m]} /\ x \in {l[n], r[n]}
          BY <1>10, <2>1, <3>1, <3>3
        <4> QED
          BY <1>1, <2>1, <4>1 DEF OneParent
      <3> QED
        BY <3>2, <3>3
    <2> QED
      BY <2>1, Zenon DEF OneParent
  <1>17. ASSUME NEW n \in Node, NEW x \in Node, NEW y \in {l2[x], r2[x]}, y \in s2[n], y # n
         PROVE  x \in s2[n]
    <2>0. c \in s[c] /\ g \in s[c] /\ g \in s[g] /\ y \in Node /\ n \in NodeOrNil
      BY <1>2, <1>3, <1>7, <1>17 DEF NodeOrNil
    <2>1. g \in {l[c], r[c]} /\ c \in {l[a], r[a]} /\ i \in {l[g], r[g]} /\ o \in {l[c], r[c]}
      BY DEF Kid, i, o
    <2>2. c \notin s[g] /\ c \notin s[o] /\ g \notin s[o] /\ g \notin s[i] /\ c \notin s[i]
      <3>1. c \notin s[g] /\ c \notin s[o] /\ g \notin s[i]
        BY <2>1, KidBelow
      <3>2. CASE g \in s[o]
        <4>1. o \in Node
          BY <1>1, <1>6, <3>2 DEF NodeOrNil
        <4> QED
          BY <1>3, <1>14, <3>1, <3>2, <4>1
      <3> QED
        BY <1>3, <3>1, <3>2
    \* The new links.
    <2>3. CASE y = g
      <3>1. x = a
        BY <1>10, <1>17, <2>3
      <3>2. n # c
        BY <1>3, <1>7, <1>17, <2>2, <2>3
      <3>3. c \in s[n] /\ s2[n] = s[n]
        BY <1>7, <1>14, <1>17, <2>0, <2>3, <3>2
      <3> QED
        BY <1>17, <1>1, <2>1, <3>1, <3>2, <3>3 DEF FromAbove
    <2>4. CASE y = c
      <3>1. x = g
        BY <1>10, <1>17, <2>4
      <3>2. CASE n = g
        BY <1>7, <2>0, <3>1, <3>2
      <3>3. CASE n # g
        BY <1>2, <1>7, <1>17, <2>0, <2>4, <3>1, <3>3
      <3> QED
        BY <3>2, <3>3
    <2>5. CASE y = i /\ x = c
      <3>1. CASE n \in {c, g}
        BY <1>7, <2>0, <2>5, <3>1
      <3>2. CASE n \notin {c, g}
        <4>1. i \in s[n] /\ s2[n] = s[n]
          BY <1>7, <1>17, <2>0, <2>5, <3>2
        <4>2. g \in s[n]
          BY <1>17, <1>1, <2>1, <2>5, <4>1 DEF FromAbove
        <4> QED
          BY <1>14, <2>5, <3>2, <4>1, <4>2
      <3> QED
        BY <3>1, <3>2
    \* The old ones.
    <2>6. CASE y \notin {c, g} /\ ~(y = i /\ x = c)
      <3>1. y \in {l[x], r[x]}
        BY <1>10, <2>6
      <3>2. CASE n \notin {c, g}
        BY <1>17, <1>1, <1>7, <2>0, <3>1, <3>2 DEF FromAbove
      <3>3. CASE n = g
        BY <1>17, <1>1, <1>7, <2>0, <2>6, <3>1, <3>3 DEF FromAbove
      <3>4. CASE n = c
        <4>1. PICK z \in {o, i} : y \in s[z]
          BY <1>7, <1>17, <2>6, <3>4
        <4>2. z \in Node
          BY <1>1, <1>6, <4>1 DEF NodeOrNil
        <4>3. CASE y = z
          <5>1. z = o => x = c
            BY <1>1, <2>1, <3>1, <4>2, <4>3, NilIsNoNode DEF OneParent
          <5>2. z = i => x = g
            BY <1>1, <2>1, <3>1, <4>2, <4>3, NilIsNoNode DEF OneParent
          <5>3. CASE x = g /\ z = i
            BY <1>10, <2>0, <2>6, <4>3, <5>3, NilIsNoNode
          <5> QED
            BY <1>7, <3>4, <4>1, <5>1, <5>2, <5>3
        <4>4. CASE y # z
          <5>1. x \in s[z]
            BY <1>17, <1>1, <3>1, <4>1, <4>2, <4>4 DEF FromAbove
          <5> QED
            BY <1>7, <3>4, <5>1
        <4> QED
          BY <4>3, <4>4
      <3> QED
        BY <3>2, <3>3, <3>4
    <2> QED
      BY <2>3, <2>4, <2>5, <2>6
  <1>18. Tree(l2, r2, s2)
    <2>1. FromAbove(l2, r2, s2)
      BY <1>17, Zenon DEF FromAbove
    <2> QED
      BY <1>4, <1>5, <1>7, <1>13, <1>15, <1>16, <2>1 DEF Tree
  <1>19. s2[r2[head]] = s[r[head]]
    <2>1. CASE a = head
      BY <1>7, <1>10, <2>1 DEF Kid
    <2>2. CASE a # head
      <3>1. r2[head] = r[head] /\ r[head] \notin {c, g} /\ r[head] \in NodeOrNil
        BY <1>1, <1>3, <1>10, <2>2, NilIsNoNode DEF Sentinels
      <3> QED
        BY <1>7, <3>1
    <2> QED
      BY <2>1, <2>2
  <1> QED
    BY <1>7, <1>18, <1>19

-----------------------------------------------------------------------------
(***************************************************************************)
(* Balance: what splits, links and rotations make of the black heights.    *)
(***************************************************************************)
\* A kid has no other parent.
LEMMA OnlyParent ==
    ASSUME NEW l, NEW r, NEW s, Tree(l, r, s),
           NEW m \in Node \cup {head}, NEW n \in Node \cup {head},
           NEW c \in {l[m], r[m]}, c \in {l[n], r[n]}, c # nil
    PROVE  m = n
  BY DEF Tree, OneParent

\* The first half of Split(): t was black, its kids red.
LEMMA FlipBalanced ==
    ASSUME NEW l, NEW r, NEW s, Tree(l, r, s), NEW reds \in SUBSET Node,
           NEW h, Balanced(l, r, reds, h),
           NEW t \in Node, t \notin reds, l[t] \in reds, r[t] \in reds,
           NEW reds2, reds2 = (reds \ {l[t], r[t]}) \cup {t},
           NEW h2, h2 = [n \in NodeOrNil |-> IF n \in {l[t], r[t]} THEN h[n] + 1 ELSE h[n]]
    PROVE  Balanced(l, r, reds2, h2)
  <1>1. /\ h \in [NodeOrNil -> Nat] /\ h[nil] = 0
        /\ \A n \in Node : /\ h[l[n]] = h[r[n]]
                           /\ h[n] = h[l[n]] + (IF n \in reds THEN 0 ELSE 1)
    BY DEF Balanced
  <1>2. h2 \in [NodeOrNil -> Nat] /\ h2[nil] = 0
    <2>1. nil \notin {l[t], r[t]} /\ nil \in NodeOrNil
      BY NilIsNoNode DEF NodeOrNil
    <2>2. ASSUME NEW n \in NodeOrNil PROVE (IF n \in {l[t], r[t]} THEN h[n] + 1 ELSE h[n]) \in Nat
      <3>1. h[n] \in Nat
        BY <1>1
      <3> QED
        BY <3>1
    <2> QED
      BY <1>1, <2>1, <2>2
  <1>3. \A n \in Node : n \in NodeOrNil /\ l[n] \in NodeOrNil /\ r[n] \in NodeOrNil
    BY DEF Tree, NodeOrNil
  <1>4. ASSUME NEW n \in Node
        PROVE  /\ h2[l[n]] = h2[r[n]]
               /\ h2[n] = h2[l[n]] + (IF n \in reds2 THEN 0 ELSE 1)
    <2>1. t \notin {l[t], r[t]} /\ l[t] # nil /\ r[t] # nil
      <3>1. l[t] # nil /\ r[t] # nil
        BY NilIsNoNode
      <3> QED
        BY <3>1, KidBelow
    <2>2. CASE n = t
      <3>1. h2[l[t]] = h[l[t]] + 1 /\ h2[r[t]] = h[r[t]] + 1 /\ h2[t] = h[t]
        BY <1>3, <2>1
      <3> QED
        BY <1>1, <1>3, <2>2, <3>1
    <2>3. CASE n # t
      <3>1. l[n] \notin {l[t], r[t]} /\ r[n] \notin {l[t], r[t]}
        BY <2>1, <2>3, OnlyParent
      <3>2. h2[l[n]] = h[l[n]] /\ h2[r[n]] = h[r[n]]
        BY <1>3, <3>1
      <3>3. CASE n \in {l[t], r[t]}
        <4>1. h2[n] = h[n] + 1 /\ n \in reds /\ n \notin reds2
          BY <1>3, <2>3, <3>3
        <4> QED
          BY <1>1, <1>3, <3>2, <4>1
      <3>4. CASE n \notin {l[t], r[t]}
        <4>1. h2[n] = h[n] /\ (n \in reds <=> n \in reds2)
          BY <1>3, <2>3, <3>4
        <4> QED
          BY <1>1, <3>2, <4>1
      <3> QED
        BY <3>3, <3>4
    <2> QED
      BY <2>2, <2>3
  <1> QED
    BY <1>2, <1>4 DEF Balanced

\* A new red node is linked below p.
LEMMA InsertBalanced ==
    ASSUME NEW l, NEW r, NEW s, NEW members, Tree(l, r, s), Has(l, r, s, members),
           NEW k \in Node \ members, NEW p \in members \cup {head},
           NEW onLeft \in BOOLEAN, Kid(l, r, onLeft, p) = nil,
           NEW l2, l2 = IF onLeft THEN [l EXCEPT ![p] = k] ELSE l,
           NEW r2, r2 = IF onLeft THEN r ELSE [r EXCEPT ![p] = k],
           NEW reds \in SUBSET members, NEW h, Balanced(l, r, reds, h),
           NEW h2, h2 = [h EXCEPT ![k] = 0]
    PROVE  Balanced(l2, r2, reds \cup {k}, h2)
  <1>1. /\ h \in [NodeOrNil -> Nat] /\ h[nil] = 0
        /\ \A n \in Node : /\ h[l[n]] = h[r[n]]
                           /\ h[n] = h[l[n]] + (IF n \in reds THEN 0 ELSE 1)
    BY DEF Balanced
  <1>2. /\ l \in [Node \cup Sentinels -> NodeOrNil] /\ r \in [Node \cup Sentinels -> NodeOrNil]
        /\ members \subseteq Node /\ \A n \in Node \ members : l[n] = nil /\ r[n] = nil
    BY DEF Tree, Has, Sentinels
  <1>3. k # p /\ k # nil /\ k \in NodeOrNil
    BY <1>2, NilIsNoNode DEF NodeOrNil
  <1>4. /\ h2 \in [NodeOrNil -> Nat] /\ h2[nil] = 0 /\ h2[k] = 0
        /\ \A n \in NodeOrNil : n # k => h2[n] = h[n]
    BY <1>1, <1>3 DEF NodeOrNil
  <1>5. \A n \in Node \cup {head} : /\ l2[n] = IF n = p /\ onLeft THEN k ELSE l[n]
                                    /\ r2[n] = IF n = p /\ ~onLeft THEN k ELSE r[n]
    BY <1>2 DEF Sentinels
  <1>6. \A n \in Node : l[n] # k /\ r[n] # k
    <2> SUFFICES ASSUME NEW n \in Node, k \in {l[n], r[n]} PROVE FALSE
      OBVIOUS
    <2> QED
      BY <1>2, <1>3, KidIsMember
  <1>7. ASSUME NEW n \in Node
        PROVE  h2[l2[n]] = h[l[n]] /\ h2[r2[n]] = h[r[n]]
    <2>1. l[n] \in NodeOrNil /\ r[n] \in NodeOrNil
      BY <1>2
    <2> QED
      BY <1>1, <1>4, <1>5, <1>6, <2>1 DEF Kid
  <1>8. ASSUME NEW n \in Node
        PROVE  /\ h2[l2[n]] = h2[r2[n]]
               /\ h2[n] = h2[l2[n]] + (IF n \in reds \cup {k} THEN 0 ELSE 1)
    <2>1. CASE n = k
      BY <1>1, <1>2, <1>3, <1>4, <1>7, <2>1
    <2>2. CASE n # k
      BY <1>1, <1>4, <1>7, <2>2 DEF NodeOrNil
    <2> QED
      BY <2>1, <2>2
  <1> QED
    BY <1>4, <1>8 DEF Balanced

\* The root is made black.
LEMMA BlackenRoot ==
    ASSUME NEW l, NEW r, NEW s, Tree(l, r, s), NEW reds, NEW h, Balanced(l, r, reds, h)
    PROVE  \E h2 : Balanced(l, r, reds \ {r[head]}, h2)
  <1>1. CASE r[head] \notin reds \/ r[head] \notin Node
    <2>1. \A n \in Node : n \in reds <=> n \in reds \ {r[head]}
      BY <1>1
    <2>2. Balanced(l, r, reds \ {r[head]}, h)
      BY <2>1 DEF Balanced
    <2> QED
      BY <2>2
  <1>2. CASE r[head] \in reds /\ r[head] \in Node
    <2> DEFINE h2 == [h EXCEPT ![r[head]] = h[r[head]] + 1]
    <2>1. /\ h \in [NodeOrNil -> Nat] /\ h[nil] = 0
          /\ \A n \in Node : /\ h[l[n]] = h[r[n]]
                             /\ h[n] = h[l[n]] + (IF n \in reds THEN 0 ELSE 1)
      BY DEF Balanced
    <2>2. \A n \in Node : n \in NodeOrNil /\ l[n] \in NodeOrNil /\ r[n] \in NodeOrNil
      BY DEF Tree, NodeOrNil
    <2>3. \A n \in Node : l[n] # r[head] /\ r[n] # r[head]
      <3> SUFFICES ASSUME NEW n \in Node, r[head] \in {l[n], r[n]} PROVE FALSE
        OBVIOUS
      <3>1. n = head
        BY <1>2, OnlyParent, NilIsNoNode
      <3> QED
        BY <3>1, NilIsNoNode
    <2>4. /\ h2 \in [NodeOrNil -> Nat] /\ h2[nil] = 0 /\ h2[r[head]] = h[r[head]] + 1
          /\ \A n \in NodeOrNil : n # r[head] => h2[n] = h[n]
      BY <1>2, <2>1, <2>2, NilIsNoNode DEF NodeOrNil
    <2> HIDE DEF h2
    <2>5. ASSUME NEW n \in Node
          PROVE  /\ h2[l[n]] = h2[r[n]]
                 /\ h2[n] = h2[l[n]] + (IF n \in reds \ {r[head]} THEN 0 ELSE 1)
      <3>1. h2[l[n]] = h[l[n]] /\ h2[r[n]] = h[r[n]]
        BY <2>2, <2>3, <2>4
      <3>2. CASE n = r[head]
        BY <1>2, <2>1, <2>4, <3>1, <3>2, <2>2
      <3>3. CASE n # r[head]
        BY <2>1, <2>2, <2>4, <3>1, <3>3
      <3> QED
        BY <3>2, <3>3
    <2>6. Balanced(l, r, reds \ {r[head]}, h2)
      BY <2>4, <2>5 DEF Balanced
    <2> QED
      BY <2>6
  <1> QED
    BY <1>1, <1>2

\* The first rotation of two turns a red node above its red kid.
LEMMA BendBalanced ==
    ASSUME NEW l, NEW r, NEW s, Tree(l, r, s),
           NEW a \in Node \cup {head}, NEW onA \in BOOLEAN, a = head => ~onA,
           NEW c \in Node, c = Kid(l, r, onA, a),
           NEW onC \in BOOLEAN, NEW g \in Node, g = Kid(l, r, onC, c),
           NEW l2, NEW r2, Turned(l, r, l2, r2, a, onA, c, onC, g),
           NEW reds, c \in reds, g \in reds, NEW h, Balanced(l, r, reds, h)
    PROVE  Balanced(l2, r2, reds, h)
  <1> DEFINE o == Kid(l, r, ~onC, c)
             i == Kid(l, r, ~onC, g)
             u == Kid(l, r, onC, g)
  <1>1. Resettled(l, r, l2, r2, a, onA, c, onC, g, o, i, u)
    BY TurnedKids
  <1>2. /\ h \in [NodeOrNil -> Nat] /\ h[nil] = 0
        /\ \A n \in Node : /\ h[l[n]] = h[r[n]]
                           /\ h[n] = h[l[n]] + (IF n \in reds THEN 0 ELSE 1)
    BY DEF Balanced
  <1>3. /\ h[c] = h[g] /\ h[c] = h[o] /\ h[g] = h[i] /\ h[g] = h[u]
    <2>1. \A n \in Node : h[l[n]] \in Nat /\ h[r[n]] \in Nat
      BY <1>2 DEF Tree
    <2>2. /\ h[c] = h[l[c]] /\ h[c] = h[r[c]] /\ h[g] = h[l[g]] /\ h[g] = h[r[g]]
      BY <1>2, <2>1
    <2> QED
      BY <2>2 DEF Kid
  <1> HIDE DEF o, i, u
  <1>4. /\ l2[a] \in {g, Kid(l, r, ~onA, a)} /\ r2[a] \in {g, Kid(l, r, ~onA, a)}
        /\ l2[c] \in {i, o} /\ r2[c] \in {i, o} /\ l2[g] \in {c, u} /\ r2[g] \in {c, u}
        /\ \A n \in Node : n \notin {a, c, g} => l2[n] = l[n] /\ r2[n] = r[n]
    BY <1>1 DEF Resettled
  <1>5. ASSUME NEW n \in Node
        PROVE  h[l2[n]] = h[l[n]] /\ h[r2[n]] = h[l[n]]
    <2>1. CASE n = a
      <3>1. h[Kid(l, r, ~onA, a)] = h[l[a]] /\ h[c] = h[l[a]]
        BY <1>2, <2>1 DEF Kid
      <3> QED
        BY <1>3, <1>4, <2>1, <3>1
    <2>2. CASE n = c
      <3>1. h[g] = h[l[c]]
        BY <1>2 DEF Kid
      <3> QED
        BY <1>3, <1>4, <2>2, <3>1
    <2>3. CASE n = g
      <3>1. h[l[g]] \in {h[i], h[u]}
        BY DEF Kid, i, u
      <3> QED
        BY <1>3, <1>4, <2>3, <3>1
    <2>4. CASE n \notin {a, c, g}
      BY <1>2, <1>4, <2>4
    <2> QED
      BY <2>1, <2>2, <2>3, <2>4
  <1> QED
    BY <1>2, <1>5 DEF Balanced

\* The last rotation: c was black, g red and the other kid of c black; then g is
\* black and c red.
LEMMA RotateBalanced ==
    ASSUME NEW l, NEW r, NEW s, Tree(l, r, s),
           NEW a \in Node \cup {head}, NEW onA \in BOOLEAN, a = head => ~onA,
           NEW c \in Node, c = Kid(l, r, onA, a),
           NEW onC \in BOOLEAN, NEW g \in Node, g = Kid(l, r, onC, c),
           NEW l2, NEW r2, Turned(l, r, l2, r2, a, onA, c, onC, g),
           NEW reds, c \notin reds, g \in reds,
           NEW reds2, reds2 = (reds \cup {c}) \ {g},
           NEW h, Balanced(l, r, reds, h),
           NEW h2, h2 = [h EXCEPT ![c] = h[g], ![g] = h[c]]
    PROVE  Balanced(l2, r2, reds2, h2)
  <1> DEFINE o == Kid(l, r, ~onC, c)
             i == Kid(l, r, ~onC, g)
             u == Kid(l, r, onC, g)
  <1>1. Resettled(l, r, l2, r2, a, onA, c, onC, g, o, i, u)
    BY TurnedKids
  <1>2. /\ h \in [NodeOrNil -> Nat] /\ h[nil] = 0
        /\ \A n \in Node : /\ h[l[n]] = h[r[n]]
                           /\ h[n] = h[l[n]] + (IF n \in reds THEN 0 ELSE 1)
    BY DEF Balanced
  <1>3. /\ h[c] = h[g] + 1 /\ h[g] = h[o] /\ h[g] = h[i] /\ h[g] = h[u]
    <2>1. \A n \in Node : h[l[n]] \in Nat /\ h[r[n]] \in Nat
      BY <1>2 DEF Tree
    <2>2. /\ h[c] = h[l[c]] + 1 /\ h[l[c]] = h[r[c]] /\ h[g] = h[l[g]] /\ h[g] = h[r[g]]
      BY <1>2, <2>1
    <2>3. h[g] \in {h[l[c]], h[r[c]]} /\ h[o] \in {h[l[c]], h[r[c]]}
          /\ h[i] \in {h[l[g]], h[r[g]]} /\ h[u] \in {h[l[g]], h[r[g]]}
      BY DEF Kid
    <2> QED
      BY <2>2, <2>3
  <1> HIDE DEF o, i, u
  <1>4. /\ l2[a] \in {g, Kid(l, r, ~onA, a)} /\ r2[a] \in {g, Kid(l, r, ~onA, a)}
        /\ l2[c] \in {i, o} /\ r2[c] \in {i, o} /\ l2[g] \in {c, u} /\ r2[g] \in {c, u}
        /\ \A n \in Node : n \notin {a, c, g} => l2[n] = l[n] /\ r2[n] = r[n]
        /\ i \in NodeOrNil /\ o \in NodeOrNil /\ u \in NodeOrNil
        /\ i \notin {a, c, g} /\ u \notin {a, c, g} /\ o \notin {c, g}
    BY <1>1 DEF Resettled
  <1>5. /\ c # g /\ a # c /\ a # g /\ Kid(l, r, ~onA, a) \notin {c, g}
        /\ \A n \in Node \cup {head} : c \in {l[n], r[n]} => n = a
        /\ \A n \in Node \cup {head} : g \in {l[n], r[n]} => n = c
    BY Kinship
  <1>6. /\ h2 \in [NodeOrNil -> Nat] /\ h2[nil] = 0 /\ h2[c] = h[g] /\ h2[g] = h[c]
        /\ \A n \in NodeOrNil : n \notin {c, g} => h2[n] = h[n]
    <2>1. c \in NodeOrNil /\ g \in NodeOrNil /\ nil \in NodeOrNil /\ c # nil /\ g # nil
      BY NilIsNoNode DEF NodeOrNil
    <2>2. h[c] \in Nat /\ h[g] \in Nat
      BY <1>2, <2>1
    <2>3. h2[c] = h[g] /\ h2[g] = h[c] /\ \A n \in NodeOrNil : n \notin {c, g} => h2[n] = h[n]
      BY <1>2, <1>5, <2>1
    <2>4. h2 \in [NodeOrNil -> Nat]
      BY <1>2, <2>2
    <2> QED
      BY <1>2, <2>1, <2>3, <2>4
  <1>7. h2[o] = h[g] /\ h2[i] = h[g] /\ h2[u] = h[g] /\ h[g] \in Nat
    BY <1>2, <1>3, <1>4, <1>6 DEF NodeOrNil
  <1>8. \A n \in Node : l[n] \in NodeOrNil /\ r[n] \in NodeOrNil /\ h[l[n]] \in Nat
    BY <1>2 DEF Tree
  <1>9. ASSUME NEW n \in Node
        PROVE  /\ h2[l2[n]] = h2[r2[n]]
               /\ h2[n] = h2[l2[n]] + (IF n \in reds2 THEN 0 ELSE 1)
    <2>1. CASE n = a
      <3>1. h[Kid(l, r, ~onA, a)] = h[l[a]] /\ h[c] = h[l[a]]
        BY <1>2, <2>1 DEF Kid
      <3>2. h2[Kid(l, r, ~onA, a)] = h[l[a]]
        BY <1>5, <1>6, <1>8, <2>1, <3>1 DEF Kid
      <3>3. h2[l2[a]] = h[l[a]] /\ h2[r2[a]] = h[l[a]]
        BY <1>4, <1>6, <3>1, <3>2
      <3>4. h2[a] = h[a] /\ (a \in reds2 <=> a \in reds)
        BY <1>5, <1>6, <2>1 DEF NodeOrNil
      <3> QED
        BY <1>2, <2>1, <3>3, <3>4
    <2>2. CASE n = c
      <3>1. h2[l2[c]] = h[g] /\ h2[r2[c]] = h[g] /\ c \in reds2
        BY <1>4, <1>5, <1>7
      <3> QED
        BY <1>6, <1>7, <2>2, <3>1
    <2>3. CASE n = g
      <3>1. h2[l2[g]] = h[g] /\ h2[r2[g]] = h[g] /\ g \notin reds2
        BY <1>4, <1>6, <1>7
      <3> QED
        BY <1>3, <1>6, <1>7, <2>3, <3>1
    <2>4. CASE n \notin {a, c, g}
      <3>1. l[n] \notin {c, g} /\ r[n] \notin {c, g}
        BY <1>5, <2>4
      <3>2. h2[l2[n]] = h[l[n]] /\ h2[r2[n]] = h[r[n]] /\ h2[n] = h[n]
        BY <1>4, <1>6, <1>8, <2>4, <3>1 DEF NodeOrNil
      <3> QED
        BY <1>2, <2>4, <3>2
    <2> QED
      BY <2>1, <2>2, <2>3, <2>4
  <1> QED
    BY <1>6, <1>9 DEF Balanced

-----------------------------------------------------------------------------
(***************************************************************************)
(* Shapes: the same together, with where red nodes meet.                   *)
(***************************************************************************)
LEMMA MembersAreNodes ==
    ASSUME NEW l, NEW r, NEW s, NEW members, Tree(l, r, s), Has(l, r, s, members)
    PROVE  members \subseteq Node
  BY DEF Tree, Has, Sentinels

\* Split() recolours t, a kid of p, and its kids.
LEMMA FlipShape ==
    ASSUME NEW l, NEW r, NEW s, NEW h, NEW members, NEW reds, Shape(l, r, reds, s, h, members),
           Parted(l, r, reds, nil, nil),
           NEW p \in Node \cup {head}, NEW t \in {l[p], r[p]},
           t \in Node, t \notin reds, l[t] \in reds, r[t] \in reds,
           NEW reds2, reds2 = (reds \ {l[t], r[t]}) \cup {t}
    PROVE  /\ \E h2 : Shape(l, r, reds2, s, h2, members)
           /\ Parted(l, r, reds2, p, t)
           /\ p \notin reds => Parted(l, r, reds2, nil, nil)
           /\ BlackKids(l, r, reds2, t)
           /\ \A c \in {l[t], r[t]} : c # nil /\ BlackKids(l, r, reds2, c)
  <1>1. /\ Tree(l, r, s) /\ Has(l, r, s, members) /\ Balanced(l, r, reds, h)
        /\ reds \subseteq members /\ members \subseteq Node
    BY MembersAreNodes DEF Shape
  <1>2. t # nil /\ l[t] # nil /\ r[t] # nil /\ nil \notin reds
    BY <1>1, NilIsNoNode
  <1>3. t \in members
    <2>1. l[t] \in members /\ l[t] # nil
      BY <1>1, <1>2
    <2>2. CASE t \notin members
      <3>1. l[t] = nil
        BY <1>1, <2>2 DEF Has
      <3> QED
        BY <1>2, <3>1
    <2> QED
      BY <2>2
  <1>4. \E h2 : Shape(l, r, reds2, s, h2, members)
    <2> DEFINE h2 == [n \in NodeOrNil |-> IF n \in {l[t], r[t]} THEN h[n] + 1 ELSE h[n]]
    <2>1. Balanced(l, r, reds2, h2)
      BY <1>1, FlipBalanced
    <2>2. reds2 \subseteq members
      BY <1>1, <1>3
    <2> QED
      BY <1>1, <2>1, <2>2 DEF Shape
  <1>5. \A n \in Node : \A c \in {l[n], r[n]} : c \in reds => n \notin reds
    BY <1>1, NilIsNoNode DEF Parted
  <1>6. ASSUME NEW n \in reds2, NEW c \in {l[n], r[n]}, c \in reds2
        PROVE  n = p /\ c = t
    <2>1. n \in Node /\ t \notin {l[t], r[t]}
      BY <1>1, <1>2, KidBelow
    <2>2. CASE c = t
      BY <1>1, <1>2, <2>1, <2>2, OnlyParent
    <2>3. CASE c # t
      <3>1. c \in reds /\ c \notin {l[t], r[t]}
        BY <1>6, <2>3
      <3>2. n # t
        BY <3>1
      <3>3. n \in reds
        BY <3>2
      <3> QED
        BY <1>5, <2>1, <3>1, <3>3
    <2> QED
      BY <2>2, <2>3
  <1>7. Parted(l, r, reds2, p, t)
    BY <1>6 DEF Parted
  <1>8. t \notin {l[t], r[t]}
    BY <1>1, <1>2, KidBelow
  <1>9. ASSUME p \notin reds PROVE Parted(l, r, reds2, nil, nil)
    <2>1. p # t
      <3>1. CASE p = t
        BY <1>8, <3>1
      <3> QED
        BY <3>1
    <2>2. p \notin reds2
      BY <1>9, <2>1
    <2> QED
      BY <1>6, <2>2 DEF Parted
  <1>10. BlackKids(l, r, reds2, t)
    BY <1>8 DEF BlackKids
  <1>11. ASSUME NEW c \in {l[t], r[t]} PROVE c # nil /\ BlackKids(l, r, reds2, c)
    <2>1. c \in reds /\ c \in Node /\ t \notin s[c]
      BY <1>1, KidBelow
    <2>2. ASSUME NEW d \in {l[c], r[c]} PROVE d \notin reds2
      <3>1. d \notin reds
        BY <1>5, <2>1
      <3>2. d # t
        <4>1. d # nil => d \in s[c]
          BY <1>1, <2>1, KidBelow
        <4> QED
          BY <1>2, <2>1, <4>1
      <3> QED
        BY <3>1, <3>2
    <2> QED
      BY <1>2, <2>2 DEF BlackKids
  <1> QED
    BY <1>4, <1>7, <1>9, <1>10, <1>11

\* k becomes a kid of p, at the end of the way to where it belongs.
Linking(l, r, s, members, l2, r2, k, p, onLeft) ==
    /\ p = head => ~onLeft
    /\ Kid(l, r, onLeft, p) = nil
    /\ p # head => (onLeft <=> k < p) /\ Way(s, members, k, p)
    /\ l2 = IF onLeft THEN [l EXCEPT ![p] = k] ELSE l
    /\ r2 = IF onLeft THEN r ELSE [r EXCEPT ![p] = k]

\* What it leaves: at most p and k are two red nodes in a row.
Grown(l, r, reds, members, l2, r2, k, p, onLeft) ==
    /\ \E s2, h2 : Shape(l2, r2, reds \cup {k}, s2, h2, members \cup {k})
    /\ Parted(l2, r2, reds \cup {k}, p, k)
    /\ p \notin reds => Parted(l2, r2, reds \cup {k}, nil, nil)
    /\ Kid(l2, r2, onLeft, p) = k /\ p # k
    /\ \A n \in Node \cup {head} : n # p => l2[n] = l[n] /\ r2[n] = r[n]

\* The new node is linked, red, below p.
LEMMA InsertShape ==
    ASSUME NEW l, NEW r, NEW s, NEW h, NEW members, NEW reds, Shape(l, r, reds, s, h, members),
           Parted(l, r, reds, nil, nil),
           NEW k \in Node \ members, NEW p \in members \cup {head}, NEW onLeft \in BOOLEAN,
           NEW l2, NEW r2, Linking(l, r, s, members, l2, r2, k, p, onLeft)
    PROVE  Grown(l, r, reds, members, l2, r2, k, p, onLeft)
  <1> USE DEF Linking
  <1>1. /\ Tree(l, r, s) /\ Has(l, r, s, members) /\ Balanced(l, r, reds, h)
        /\ reds \subseteq members /\ members \subseteq Node
    BY MembersAreNodes DEF Shape
  <1>2. \E s2, h2 : Shape(l2, r2, reds \cup {k}, s2, h2, members \cup {k})
    <2> DEFINE s2 == [n \in NodeOrNil |-> IF p \in s[n] THEN s[n] \cup {k} ELSE s[n]]
               h2 == [h EXCEPT ![k] = 0]
    <2>1. Tree(l2, r2, s2) /\ Has(l2, r2, s2, members \cup {k})
      BY <1>1, InsertTree DEF Way
    <2>2. Balanced(l2, r2, reds \cup {k}, h2)
      BY <1>1, InsertBalanced
    <2> HIDE DEF s2, h2
    <2> QED
      BY <1>1, <2>1, <2>2 DEF Shape
  <1>3. p \in Node \cup {head} /\ p # k /\ p # nil /\ k # nil /\ nil \notin reds /\ k # head
    BY <1>1, NilIsNoNode
  <1>4. \A n \in Node \cup {head} : /\ l2[n] = IF n = p /\ onLeft THEN k ELSE l[n]
                                    /\ r2[n] = IF n = p /\ ~onLeft THEN k ELSE r[n]
    BY <1>1 DEF Tree, Sentinels
  <1>5. l[k] = nil /\ r[k] = nil
    BY <1>1 DEF Has
  <1>6. \A n \in Node : l[n] # k /\ r[n] # k
    <2> SUFFICES ASSUME NEW n \in Node, k \in {l[n], r[n]} PROVE FALSE
      OBVIOUS
    <2>1. n \in members
      BY <1>1, <1>3 DEF Has
    <2> QED
      BY <1>1, <1>3, <2>1, KidIsMember
  <1>7. ASSUME NEW n \in reds \cup {k}, NEW c \in {l2[n], r2[n]}, c \in reds \cup {k}
        PROVE  n = p /\ c = k
    <2>1. CASE n = k
      BY <1>3, <1>4, <1>5, <1>7, <2>1
    <2>2. CASE n # k /\ c = k
      BY <1>1, <1>4, <1>6, <1>7, <2>2
    <2>3. CASE n # k /\ c # k
      <3>1. c \in {l[n], r[n]} /\ c \in reds /\ n \in reds
        BY <1>1, <1>4, <1>7, <2>3
      <3> QED
        BY <1>1, <3>1, NilIsNoNode DEF Parted
    <2> QED
      BY <2>1, <2>2, <2>3
  <1>8. Parted(l2, r2, reds \cup {k}, p, k)
    BY <1>7 DEF Parted
  <1>9. ASSUME p \notin reds PROVE Parted(l2, r2, reds \cup {k}, nil, nil)
    BY <1>3, <1>7, <1>9 DEF Parted
  <1>10. Kid(l2, r2, onLeft, p) = k
    BY <1>3, <1>4 DEF Kid
  <1> QED
    BY <1>2, <1>3, <1>4, <1>8, <1>9, <1>10 DEF Grown

\* The end of AddToLookupTree: the root is black.
LEMMA BlackenShape ==
    ASSUME NEW l, NEW r, NEW s, NEW h, NEW members, NEW reds, Shape(l, r, reds, s, h, members),
           Parted(l, r, reds, nil, nil)
    PROVE  /\ \E h2 : Shape(l, r, reds \ {r[head]}, s, h2, members)
           /\ Parted(l, r, reds \ {r[head]}, nil, nil)
  <1>1. Tree(l, r, s) /\ Balanced(l, r, reds, h)
    BY DEF Shape
  <1>2. PICK h2 : Balanced(l, r, reds \ {r[head]}, h2)
    BY <1>1, BlackenRoot
  <1>3. Shape(l, r, reds \ {r[head]}, s, h2, members)
    BY <1>2 DEF Shape
  <1> QED
    BY <1>3 DEF Parted

\* Turning keeps the members, who are among them, and the nodes without links.
LEMMA TurnHas ==
    ASSUME NEW l, NEW r, NEW s, NEW members, Tree(l, r, s), Has(l, r, s, members),
           NEW a \in members \cup {head}, NEW onA \in BOOLEAN, a = head => ~onA,
           NEW c \in Node, c = Kid(l, r, onA, a),
           NEW onC \in BOOLEAN, NEW g \in Node, g = Kid(l, r, onC, c),
           NEW l2, NEW r2, Turned(l, r, l2, r2, a, onA, c, onC, g)
    PROVE  /\ \E s2 : /\ Tree(l2, r2, s2) /\ Has(l2, r2, s2, members)
                      /\ s2[g] = s[c] /\ \A n \in NodeOrNil : n \notin {c, g} => s2[n] = s[n]
           /\ c \in members /\ g \in members
  <1>1. members \subseteq Node /\ a \in Node \cup {head}
    BY MembersAreNodes
  <1>2. c \in {l[a], r[a]} /\ c # nil /\ g \in {l[c], r[c]} /\ g # nil
    BY NilIsNoNode DEF Kid
  <1>3. c \in members
    BY <1>2, KidIsMember
  <1>4. g \in members
    BY <1>2, <1>3, KidIsMember
  <1>5. PICK s2 : /\ Tree(l2, r2, s2) /\ s2[r2[head]] = s[r[head]]
                  /\ s2[g] = s[c] /\ \A n \in NodeOrNil : n \notin {c, g} => s2[n] = s[n]
    BY <1>1, RotateTree
  <1>6. ASSUME NEW n \in Node \ members PROVE l2[n] = nil /\ r2[n] = nil
    <2>1. n \notin {a, c, g} /\ n \in Node \cup Sentinels
      BY <1>3, <1>4, NilIsNoNode
    <2>2. l2[n] = l[n] /\ r2[n] = r[n]
      BY <2>1 DEF Turned
    <2> QED
      BY <2>2 DEF Has
  <1>7. Has(l2, r2, s2, members)
    BY <1>5, <1>6 DEF Has
  <1> QED
    BY <1>3, <1>4, <1>5, <1>7

\* The first rotation of two.
LEMMA BendShape ==
    ASSUME NEW l, NEW r, NEW s, NEW h, NEW members, NEW reds, Shape(l, r, reds, s, h, members),
           NEW a \in members \cup {head}, NEW onA \in BOOLEAN, a = head => ~onA,
           NEW c \in Node, c = Kid(l, r, onA, a),
           NEW onC \in BOOLEAN, NEW g \in Node, g = Kid(l, r, onC, c),
           NEW l2, NEW r2, Turned(l, r, l2, r2, a, onA, c, onC, g),
           c \in reds, g \in reds, a \notin reds, Parted(l, r, reds, c, g)
    PROVE  /\ \E s2 : /\ Shape(l2, r2, reds, s2, h, members)
                      /\ s2[g] = s[c] /\ \A n \in NodeOrNil : n \notin {c, g} => s2[n] = s[n]
           /\ Parted(l2, r2, reds, g, c)
  <1>1. /\ Tree(l, r, s) /\ Has(l, r, s, members) /\ Balanced(l, r, reds, h)
        /\ reds \subseteq members /\ members \subseteq Node /\ a \in Node \cup {head}
    BY MembersAreNodes DEF Shape
  <1>2. \E s2 : /\ Shape(l2, r2, reds, s2, h, members)
                /\ s2[g] = s[c] /\ \A n \in NodeOrNil : n \notin {c, g} => s2[n] = s[n]
    <2>1. PICK s2 : /\ Tree(l2, r2, s2) /\ Has(l2, r2, s2, members)
                    /\ s2[g] = s[c] /\ \A n \in NodeOrNil : n \notin {c, g} => s2[n] = s[n]
      BY <1>1, TurnHas
    <2>2. Balanced(l2, r2, reds, h)
      BY <1>1, BendBalanced
    <2> QED
      BY <1>1, <2>1, <2>2 DEF Shape
  <1> DEFINE o == Kid(l, r, ~onC, c)
             i == Kid(l, r, ~onC, g)
             u == Kid(l, r, onC, g)
  <1>3. Resettled(l, r, l2, r2, a, onA, c, onC, g, o, i, u)
    BY <1>1, TurnedKids
  <1> HIDE DEF o, i, u
  <1>4. /\ \A k \in Node \cup {head} : \A y \in {l2[k], r2[k]} :
              /\ y = g => k = a
              /\ y = c => k = g
              /\ y \notin {c, g} => y \in {l[k], r[k]} \/ (y = i /\ k = c)
        /\ i \in {l[g], r[g]} /\ i \notin {a, c, g}
    BY <1>3 DEF Resettled
  <1>5. ASSUME NEW n \in reds, NEW y \in {l2[n], r2[n]}, y \in reds
        PROVE  n = g /\ y = c
    <2>1. n \in Node
      BY <1>1
    <2>2. CASE y = g
      BY <1>4, <2>1, <2>2
    <2>3. CASE y = c
      BY <1>4, <2>1, <2>3
    <2>4. CASE y \notin {c, g}
      <3>1. y \in {l[n], r[n]} \/ (y = i /\ n = c)
        BY <1>4, <2>1, <2>4
      <3>2. CASE y \in {l[n], r[n]}
        BY <1>5, <2>4, <3>2 DEF Parted
      <3>3. CASE y = i /\ n = c
        <4>1. g = c
          BY <1>4, <1>5, <3>3 DEF Parted
        <4>2. g # c
          BY <1>1, Kinship
        <4> QED
          BY <4>1, <4>2
      <3> QED
        BY <3>1, <3>2, <3>3
    <2> QED
      BY <2>2, <2>3, <2>4
  <1>6. Parted(l2, r2, reds, g, c)
    BY <1>5 DEF Parted
  <1> QED
    BY <1>2, <1>6

\* After the last rotation g has the place of c, and no two red nodes meet.
Raised(l2, r2, reds2, s, members, c, g) ==
    /\ \E s2, h2 : Shape(l2, r2, reds2, s2, h2, members) /\ s2[g] = s[c]
    /\ Parted(l2, r2, reds2, nil, nil)


\* The last rotation and its colours.
LEMMA RotateShape ==
    ASSUME NEW l, NEW r, NEW s, NEW h, NEW members, NEW reds, Shape(l, r, reds, s, h, members),
           NEW a \in members \cup {head}, NEW onA \in BOOLEAN, a = head => ~onA,
           NEW c \in Node, c = Kid(l, r, onA, a),
           NEW onC \in BOOLEAN, NEW g \in Node, g = Kid(l, r, onC, c),
           NEW l2, NEW r2, Turned(l, r, l2, r2, a, onA, c, onC, g),
           c \notin reds, g \in reds, Kid(l, r, ~onC, c) \notin reds,
           Parted(l, r, reds, g, Kid(l, r, onC, g))
    PROVE  Raised(l2, r2, (reds \cup {c}) \ {g}, s, members, c, g)
  <1> DEFINE reds2 == (reds \cup {c}) \ {g}
  <1>1. /\ Tree(l, r, s) /\ Has(l, r, s, members) /\ Balanced(l, r, reds, h)
        /\ reds \subseteq members /\ members \subseteq Node /\ a \in Node \cup {head}
    BY MembersAreNodes DEF Shape
  <1>2. \E s2, h2 : Shape(l2, r2, reds2, s2, h2, members) /\ s2[g] = s[c]
    <2> DEFINE h2 == [h EXCEPT ![c] = h[g], ![g] = h[c]]
    <2>1. PICK s2 : /\ Tree(l2, r2, s2) /\ Has(l2, r2, s2, members)
                    /\ s2[g] = s[c] /\ \A n \in NodeOrNil : n \notin {c, g} => s2[n] = s[n]
      BY <1>1, TurnHas
    <2>3. c \in members
      BY <1>1, TurnHas
    <2>2. Balanced(l2, r2, reds2, h2)
      BY <1>1, RotateBalanced
    <2> HIDE DEF h2
    <2> QED
      BY <1>1, <2>1, <2>2, <2>3 DEF Shape
  <1> DEFINE o == Kid(l, r, ~onC, c)
             i == Kid(l, r, ~onC, g)
             u == Kid(l, r, onC, g)
  <1>3. Resettled(l, r, l2, r2, a, onA, c, onC, g, o, i, u)
    BY <1>1, TurnedKids
  <1>7. o \notin reds /\ Parted(l, r, reds, g, u)
    OBVIOUS
  <1> HIDE DEF o, i, u
  <1>4. /\ \A k \in Node \cup {head} : \A y \in {l2[k], r2[k]} :
              /\ y = g => k = a
              /\ y = c => k = g
              /\ y \notin {c, g} => y \in {l[k], r[k]} \/ (y = i /\ k = c)
        /\ i \in {l[g], r[g]} /\ (i = u => i = nil)
        /\ {l[c], r[c]} = {g, o}
    BY <1>3 DEF Resettled
  <1>5. ASSUME NEW n \in reds2, NEW y \in {l2[n], r2[n]}, y \in reds2
        PROVE  FALSE
    <2>1. n \in Node /\ y # g /\ n # g
      BY <1>1, <1>5
    <2>2. CASE y = c
      BY <1>4, <2>1, <2>2
    <2>3. CASE y # c
      <3>1. y \in {l[n], r[n]} \/ (y = i /\ n = c)
        BY <1>4, <2>1, <2>3
      <3>2. y \in reds
        BY <1>5, <2>3
      <3>3. CASE y \in {l[n], r[n]} /\ n = c
        BY <1>4, <1>7, <2>1, <3>2, <3>3
      <3>4. CASE y \in {l[n], r[n]} /\ n # c
        BY <1>7, <2>1, <3>2, <3>4 DEF Parted
      <3>5. CASE y = i /\ n = c
        <4>1. i = u
          BY <1>4, <1>7, <3>2, <3>5 DEF Parted
        <4> QED
          BY <1>1, <1>4, <3>2, <3>5, <4>1, NilIsNoNode
      <3> QED
        BY <3>1, <3>3, <3>4, <3>5
    <2> QED
      BY <2>2, <2>3
  <1>6. Parted(l2, r2, reds2, nil, nil)
    BY <1>5 DEF Parted
  <1> QED
    BY <1>2, <1>6 DEF Raised

-----------------------------------------------------------------------------
(***************************************************************************)
(* The way down.                                                           *)
(***************************************************************************)
LEMMA WayFromRoot ==
    ASSUME NEW l, NEW r, NEW s, NEW members, Tree(l, r, s), Has(l, r, s, members),
           NEW k, r[head] # nil
    PROVE  Way(s, members, k, r[head])
  <1>1. r[head] \in members /\ s[r[head]] = members
    BY KidIsMember DEF Has
  <1> QED
    BY <1>1 DEF Way

\* A step of the search stays on the way.
LEMMA WayDown ==
    ASSUME NEW l, NEW r, NEW s, NEW members, Tree(l, r, s), Has(l, r, s, members),
           NEW k \in Node \ members, NEW x, Way(s, members, k, x),
           NEW c, c = Kid(l, r, k < x, x), c # nil
    PROVE  Way(s, members, k, c)
  <1>1. x \in members /\ \A n \in members \ s[x] : \A m \in s[x] : n < k <=> n < m
    BY DEF Way
  <1>2. members \subseteq Node /\ x \in Node /\ x # k
    BY <1>1, MembersAreNodes
  <1>3. c \in {l[x], r[x]}
    BY DEF Kid
  <1>4. c \in members /\ c \in Node /\ s[c] \subseteq s[x]
    BY <1>1, <1>2, <1>3, KidIsMember, KidBelow
  <1>5. /\ s[x] = {x} \cup s[l[x]] \cup s[r[x]]
        /\ \A m \in s[l[x]] : m < x /\ m \in Node
        /\ \A m \in s[r[x]] : x < m /\ m \in Node
    <2>1. s[l[x]] \subseteq Node /\ s[r[x]] \subseteq Node
      BY <1>2 DEF Tree
    <2> QED
      BY <1>2, <2>1 DEF Tree
  <1>6. ASSUME NEW n \in members, n \notin s[c], NEW m \in s[c]
        PROVE  n < k <=> n < m
    <2>1. CASE n \notin s[x]
      BY <1>1, <1>4, <1>6, <2>1
    <2>2. CASE n \in s[x]
      <3>1. n \in Nat /\ x \in Nat /\ k \in Nat
        BY <1>2, NilIsNoNode
      <3>2. CASE k < x
        <4>1. c = l[x]
          BY <3>2 DEF Kid
        <4>2. m < x /\ m \in Nat
          BY <1>5, <1>6, <4>1, NilIsNoNode
        <4>3. n = x \/ x < n
          BY <1>5, <1>6, <2>2, <4>1
        <4> QED
          BY <3>1, <3>2, <4>2, <4>3
      <3>3. CASE ~(k < x)
        <4>1. c = r[x]
          BY <3>3 DEF Kid
        <4>2. x < m /\ m \in Nat
          BY <1>5, <1>6, <4>1, NilIsNoNode
        <4>3. n = x \/ n < x
          BY <1>5, <1>6, <2>2, <4>1
        <4>4. x < k
          BY <1>2, <3>1, <3>3
        <4> QED
          BY <3>1, <4>2, <4>3, <4>4
      <3> QED
        BY <3>2, <3>3
    <2> QED
      BY <2>1, <2>2
  <1> QED
    BY <1>4, <1>6 DEF Way

-----------------------------------------------------------------------------
(***************************************************************************)
(* The writer: its steps keep the invariant.                               *)
(***************************************************************************)
LEMMA LessFacts ==
    /\ ~Less(head) /\ ~Less(nil)
    /\ \A n \in Node : Less(n) <=> key < n
    /\ \A n : Less(n) \in BOOLEAN
    /\ \A n : Side(n) = Kid(left, right, Less(n), n) /\ Side(n) \in {left[n], right[n]}
  BY NilIsNoNode DEF Less, Side, Kid

\* What the invariant says while AddToLookupTree looks for a place.
LEMMA SearchFacts ==
    ASSUME NEW s, NEW h, WriterInv(s, h), pc = "search"
    PROVE  /\ Shape(left, right, red, s, h, published)
           /\ Tree(left, right, s) /\ Has(left, right, s, published)
           /\ red \subseteq published /\ published \subseteq Node /\ ~linked
           /\ key \in Node \ published /\ Parted(left, right, red, nil, nil)
           /\ \A x : OnPath(s, x) <=> Way(s, published, key, x)
           /\ AtHead \/ AtNil(s) \/ AtNode(s) \/ AfterRotation(s)
           /\ left[nil] = nil /\ right[nil] = nil /\ nil \notin red /\ head \notin red
           /\ head \notin published /\ nil \notin published
           /\ \A n \in red : left[n] \notin red /\ right[n] \notin red
  <1>1. /\ BeforeLeft = left /\ BeforeRight = right /\ BeforeRed = red
        /\ ~linked /\ Members = published
    BY DEF WriterInv, SearchInv, BeforeLeft, BeforeRight, BeforeRed, Rotating, Members
  <1>2. /\ Shape(left, right, red, s, h, published)
        /\ key \in Node \ published /\ Parted(left, right, red, nil, nil)
        /\ AtHead \/ AtNil(s) \/ AtNode(s) \/ AfterRotation(s)
        /\ published \subseteq Node
    BY <1>1 DEF WriterInv, SearchInv
  <1>3. /\ Tree(left, right, s) /\ Has(left, right, s, published) /\ red \subseteq published
    BY <1>2 DEF Shape
  <1>4. left[nil] = nil /\ right[nil] = nil
    BY <1>3 DEF Tree
  <1>5. /\ nil \notin red /\ head \notin red /\ head \notin published /\ nil \notin published
    BY <1>2, <1>3, NilIsNoNode
  <1>6. \A n \in red : left[n] \notin red /\ right[n] \notin red
    BY <1>2, <1>5 DEF Parted
  <1>7. \A x : OnPath(s, x) <=> Way(s, published, key, x)
    BY <1>1 DEF OnPath
  <1> QED
    BY <1>1, <1>2, <1>3, <1>4, <1>5, <1>6, <1>7

\* The empty tree.
LEMMA InitTree == Init => TreeInv
  <1> SUFFICES ASSUME Init PROVE TreeInv
    OBVIOUS
  <1> DEFINE s == [n \in NodeOrNil |-> IF n = nil THEN {} ELSE {n}]
             h == [n \in NodeOrNil |-> IF n = nil THEN 0 ELSE 1]
  <1>1. /\ left = [n \in Node \cup {head, nil} |-> nil]
        /\ right = [n \in Node \cup {head, nil} |-> nil]
        /\ red = {} /\ pc = "idle" /\ ~linked /\ published = {} /\ reader = -1
        /\ linked \in BOOLEAN /\ twice \in BOOLEAN
    BY DEF Init
  <1>2. /\ BeforeLeft = left /\ BeforeRight = right /\ BeforeRed = red /\ Members = {}
    BY <1>1 DEF BeforeLeft, BeforeRight, BeforeRed, Rotating, Members
  <1>3. /\ left \in [Node \cup Sentinels -> NodeOrNil] /\ right \in [Node \cup Sentinels -> NodeOrNil]
        /\ \A n \in Node \cup {head, nil} : left[n] = nil /\ right[n] = nil
    BY <1>1 DEF Sentinels, NodeOrNil
  <1>4. /\ s \in [NodeOrNil -> SUBSET Node] /\ s[nil] = {} /\ \A n \in Node : s[n] = {n}
    BY NilIsNoNode DEF NodeOrNil
  <1>5. /\ h \in [NodeOrNil -> Nat] /\ h[nil] = 0 /\ \A n \in Node : h[n] = 1
    BY NilIsNoNode DEF NodeOrNil
  <1> HIDE DEF s, h
  <1>6. OneParent(left, right) /\ FromAbove(left, right, s)
    BY <1>3, NilIsNoNode, <1>4 DEF OneParent, FromAbove
  <1>7. Tree(left, right, s)
    BY <1>3, <1>4, <1>6 DEF Tree
  <1>8. Has(left, right, s, {}) /\ Balanced(left, right, red, h)
    BY <1>1, <1>3, <1>4, <1>5 DEF Has, Balanced
  <1>9. Shape(BeforeLeft, BeforeRight, BeforeRed, s, h, Members)
    BY <1>1, <1>2, <1>7, <1>8 DEF Shape
  <1>10. IdleInv(s) /\ SearchInv(s) /\ RotateInv(s)
    BY <1>1 DEF IdleInv, SearchInv, RotateInv, Rotating, Root, Parted
  <1>11. WriterInv(s, h) /\ ReaderInv(s)
    BY <1>1, <1>3, <1>9, <1>10 DEF WriterInv, ReaderInv
  <1> QED
    BY <1>11 DEF TreeInv

\* An insertion begins at the head.
LEMMA AddTree ==
    ASSUME NEW s, NEW h, WriterInv(s, h), NEW n \in Node, AddToLookupTree(n)
    PROVE  WriterInv(s, h)'
  <1>1. /\ pc = "idle" /\ pc' = "search" /\ key' = n /\ n \notin published
        /\ temp' = head /\ parent' = head /\ grandParent' = head
        /\ left' = left /\ right' = right /\ red' = red /\ linked' = linked
        /\ published' = published /\ twice' = twice
    BY DEF AddToLookupTree, links, rotation
  <1>2. /\ ~linked /\ Root \notin red /\ Parted(left, right, red, nil, nil)
        /\ linked \in BOOLEAN /\ published \subseteq Node /\ twice \in BOOLEAN
        /\ left \in [Node \cup Sentinels -> NodeOrNil] /\ right \in [Node \cup Sentinels -> NodeOrNil]
    BY <1>1 DEF WriterInv, IdleInv
  <1>3. Shape(left, right, red, s, h, published)
    BY <1>1, <1>2 DEF WriterInv, BeforeLeft, BeforeRight, BeforeRed, Rotating, Members
  <1>4. /\ BeforeLeft' = left /\ BeforeRight' = right /\ BeforeRed' = red /\ Members' = published
    BY <1>1, <1>2 DEF BeforeLeft, BeforeRight, BeforeRed, Rotating, Members
  <1>5. AtHead'
    BY <1>1, <1>2 DEF AtHead, Root
  <1>6. IdleInv(s)' /\ SearchInv(s)' /\ RotateInv(s)'
    BY <1>1, <1>2, <1>5 DEF IdleInv, SearchInv, RotateInv, Rotating
  <1>7. Shape(BeforeLeft, BeforeRight, BeforeRed, s, h, Members)'
    BY <1>3, <1>4
  <1> QED
    BY <1>1, <1>2, <1>6, <1>7 DEF WriterInv

\* One turn of the loop; either the search goes on, or Split() begins to rotate.
LEMMA DescendTree ==
    ASSUME NEW s, NEW h, WriterInv(s, h), Descend
    PROVE  \E h2 : WriterInv(s, h2)'
  <1> DEFINE n == Side(temp)
             split == left[n] \in red /\ right[n] \in red
             flipped == (red \ {left[n], right[n]}) \cup {n}
  <1>1. /\ pc = "search" /\ temp # nil
        /\ greatGrandParent' = grandParent /\ grandParent' = parent /\ parent' = temp /\ temp' = n
        /\ left' = left /\ right' = right /\ key' = key /\ linked' = linked
        /\ published' = published
        /\ red' = IF ~split THEN red
                  ELSE IF temp \in red THEN flipped \cup {parent} ELSE flipped
        /\ IF split /\ temp \in red THEN Rotations(temp, parent, grandParent)
           ELSE UNCHANGED <<pc, twice, around>>
    BY DEF Descend
  <1>2. /\ Shape(left, right, red, s, h, published)
        /\ Tree(left, right, s) /\ Has(left, right, s, published)
        /\ red \subseteq published /\ published \subseteq Node /\ ~linked
        /\ key \in Node \ published /\ Parted(left, right, red, nil, nil)
        /\ \A x : OnPath(s, x) <=> Way(s, published, key, x)
        /\ AtHead \/ AtNil(s) \/ AtNode(s) \/ AfterRotation(s)
        /\ left[nil] = nil /\ right[nil] = nil /\ nil \notin red /\ head \notin red
        /\ head \notin published /\ nil \notin published
        /\ \A m \in red : left[m] \notin red /\ right[m] \notin red
    BY <1>1, SearchFacts
  <1>3. /\ left \in [Node \cup Sentinels -> NodeOrNil] /\ right \in [Node \cup Sentinels -> NodeOrNil]
        /\ twice \in BOOLEAN /\ linked \in BOOLEAN
    BY DEF WriterInv
  <1>4. AtHead \/ AtNode(s) \/ AfterRotation(s)
    BY <1>1, <1>2 DEF AtNil
  <1>5. temp = head \/ (temp \in published /\ temp \in Node /\ Way(s, published, key, temp))
    BY <1>2, <1>4 DEF AtHead, AtNode, AfterRotation, Way
  <1>6. n \in {left[temp], right[temp]} /\ n \in NodeOrNil /\ (temp = head => n = Root)
    BY <1>3, <1>5, LessFacts DEF Kid, Sentinels, Root
  <1>7. n # nil => Way(s, published, key, n) /\ n \in published /\ n \in Node
    <2> SUFFICES ASSUME n # nil PROVE Way(s, published, key, n)
      BY <1>2 DEF Way
    <2>1. CASE temp = head
      BY <1>2, <1>6, <2>1, WayFromRoot DEF Root
    <2>2. CASE temp # head
      <3>1. n = Kid(left, right, key < temp, temp)
        BY <1>5, <2>2, LessFacts
      <3>2. Way(s, published, key, temp)
        BY <1>5, <2>2
      <3> HIDE DEF n
      <3> QED
        BY <1>2, <3>1, <3>2, WayDown
    <2> QED
      BY <2>1, <2>2
  <1>8. Side(parent)' = n /\ Side(grandParent)' = Side(parent)
        /\ Side(greatGrandParent)' = Side(grandParent) /\ Side(temp)' = Side(n)
    BY <1>1 DEF Side, Less
  <1>9. /\ BeforeLeft' = left /\ BeforeRight' = right /\ Members' = published
        /\ OnPath(s, temp)' <=> Way(s, published, key, n)
        /\ OnPath(s, parent)' <=> Way(s, published, key, temp)
        /\ OnPath(s, grandParent)' <=> Way(s, published, key, parent)
    <2>1. pc' \in {"search", "rotate"}
      BY <1>1 DEF Rotations
    <2>2. BeforeLeft' = left /\ BeforeRight' = right
      BY <1>1, <2>1 DEF BeforeLeft, BeforeRight
    <2>3. Members' = published
      BY <1>1, <1>2 DEF Members
    <2> QED
      BY <1>1, <2>2, <2>3 DEF OnPath
  <1> HIDE DEF n
  <1>10. CASE ~split
    <2>1. red' = red /\ pc' = "search" /\ twice' = twice
      BY <1>1, <1>10
    <2>2. ASSUME n = nil PROVE AtNil(s)'
      <3>1. temp' = nil /\ (parent' = head \/ OnPath(s, parent)') /\ Side(parent)' = nil
        BY <1>1, <1>5, <1>8, <1>9, <2>2
      <3>2. ASSUME temp \in red
            PROVE  /\ parent \in published /\ temp = Side(parent) /\ OnPath(s, parent)
                   /\ grandParent \in published \cup {head} /\ parent = Side(grandParent)
                   /\ ~(left[parent] \in red /\ right[parent] \in red)
        <4>1. AtNode(s) /\ ~Calm(temp)
          BY <1>2, <1>4, <2>2, <3>2 DEF AtHead, AfterRotation, Calm, n
        <4> QED
          BY <1>2, <3>2, <4>1 DEF AtNode
      <3>3. parent' \in red' =>
              /\ grandParent' \in published' /\ parent' = Side(grandParent)'
              /\ OnPath(s, grandParent)'
              /\ greatGrandParent' \in published' \cup {head}
              /\ grandParent' = Side(greatGrandParent)'
              /\ ~(left'[grandParent'] \in red' /\ right'[grandParent'] \in red')
        BY <1>1, <1>2, <1>8, <1>9, <2>1, <3>2
      <3> QED
        BY <3>1, <3>3 DEF AtNil
    <2>3. ASSUME n # nil PROVE AtNode(s)'
      <3>1. OnPath(s, temp)' /\ (parent' = head \/ OnPath(s, parent)') /\ temp' = Side(parent)'
        BY <1>1, <1>5, <1>7, <1>8, <1>9, <2>3
      <3>2. ~(left'[temp'] \in red' /\ right'[temp'] \in red')
        BY <1>1, <1>10, <2>1
      <3>3. ASSUME n \in red, ~AfterRotation(s)
            PROVE  /\ temp \in published /\ parent \in published \cup {head}
                   /\ temp = Side(parent) /\ ~(left[temp] \in red /\ right[temp] \in red)
        <4>1. AtNode(s)
          BY <1>4, <1>6, <3>3 DEF AtHead
        <4>2. parent \in published \cup {head}
          BY <1>2, <4>1 DEF AtNode, Way
        <4> QED
          BY <1>2, <1>5, <4>1, <4>2 DEF AtNode, Way
      <3>4. AfterRotation(s) => Calm(temp)'
        <4> SUFFICES ASSUME AfterRotation(s) PROVE Calm(temp)'
          OBVIOUS
        <4>1. /\ BlackKids(left, right, red, n) /\ Side(n) # nil
              /\ BlackKids(left, right, red, Side(n))
          BY DEF AfterRotation, Calm, n
        <4> QED
          BY <1>1, <1>8, <2>1, <4>1 DEF Calm
      <3>5. temp' \in red' =>
              \/ Calm(temp)'
              \/ /\ parent' \in published'
                 /\ grandParent' \in published' \cup {head} /\ parent' = Side(grandParent)'
                 /\ ~(left'[parent'] \in red' /\ right'[parent'] \in red')
        BY <1>1, <1>8, <2>1, <3>3, <3>4
      <3> QED
        BY <3>1, <3>2, <3>5 DEF AtNode
    <2>4. AtNil(s)' \/ AtNode(s)'
      BY <2>2, <2>3
    <2>5. SearchInv(s)' /\ IdleInv(s)' /\ RotateInv(s)'
      BY <1>1, <1>2, <2>1, <2>4 DEF SearchInv, IdleInv, RotateInv, Rotating
    <2>6. BeforeRed' = red
      BY <2>1 DEF BeforeRed, Rotating
    <2>7. Shape(BeforeLeft, BeforeRight, BeforeRed, s, h, Members)'
      BY <1>2, <1>9, <2>6
    <2>8. WriterInv(s, h)'
      BY <1>1, <1>2, <1>3, <2>1, <2>5, <2>7 DEF WriterInv
    <2> QED
      BY <2>8
  <1>11. CASE split
    <2>1. n # nil /\ n \in Node /\ n \notin red
      BY <1>2, <1>7, <1>11
    <2>2. temp \in Node \cup {head}
      BY <1>5
    <2>3. /\ \E h2 : Shape(left, right, flipped, s, h2, published)
          /\ Parted(left, right, flipped, temp, n)
          /\ temp \notin red => Parted(left, right, flipped, nil, nil)
          /\ BlackKids(left, right, flipped, n)
          /\ \A c \in {left[n], right[n]} : c # nil /\ BlackKids(left, right, flipped, c)
      BY <1>2, <1>6, <1>11, <2>1, <2>2, FlipShape
    <2>4. PICK h2 : Shape(left, right, flipped, s, h2, published)
      BY <2>3
    <2>5. Side(n) \in {left[n], right[n]}
      BY LessFacts
    <2>6. AtHead \/ AtNode(s)
      BY <1>4, <2>1 DEF AfterRotation, n
    <2>7. CASE temp \notin red
      <3>1. red' = flipped /\ pc' = "search" /\ twice' = twice
        BY <1>1, <1>11, <2>7
      <3>2. OnPath(s, temp)' /\ (parent' = head \/ OnPath(s, parent)') /\ temp' = Side(parent)'
        BY <1>1, <1>5, <1>7, <1>8, <1>9, <2>1
      <3>3. ~(left'[temp'] \in red' /\ right'[temp'] \in red')
        BY <1>1, <2>3, <3>1 DEF BlackKids
      <3>4. Calm(temp)'
        BY <1>1, <1>8, <2>3, <2>5, <3>1 DEF Calm
      <3>5. AtNode(s)'
        BY <3>2, <3>3, <3>4 DEF AtNode
      <3>6. Parted(left, right, red, nil, nil)'
        BY <1>1, <2>3, <2>7, <3>1
      <3>7. SearchInv(s)' /\ IdleInv(s)' /\ RotateInv(s)'
        BY <1>1, <1>2, <3>1, <3>5, <3>6 DEF SearchInv, IdleInv, RotateInv, Rotating
      <3>8. BeforeRed' = flipped
        BY <3>1 DEF BeforeRed, Rotating
      <3>9. Shape(BeforeLeft, BeforeRight, BeforeRed, s, h2, Members)'
        BY <1>9, <2>4, <3>8
      <3>10. WriterInv(s, h2)'
        BY <1>1, <1>2, <1>3, <3>1, <3>7, <3>9 DEF WriterInv
      <3> QED
        BY <3>10
    <2>8. CASE temp \in red
      <3>1. /\ red' = flipped \cup {parent} /\ pc' = "rotate"
            /\ twice' = (Less(parent) # Less(temp))
            /\ around' = IF Less(parent) # Less(temp) THEN parent ELSE grandParent
        BY <1>1, <1>11, <2>8 DEF Rotations
      <3>2. AtNode(s) /\ ~Calm(temp)
        <4>1. AtNode(s)
          BY <1>2, <2>6, <2>8 DEF AtHead
        <4> QED
          BY <1>11, <4>1 DEF Calm, BlackKids, n
      <3>3. /\ parent \in published /\ temp = Side(parent) /\ Way(s, published, key, parent)
            /\ grandParent \in published \cup {head} /\ parent = Side(grandParent)
            /\ ~(left[parent] \in red /\ right[parent] \in red)
        BY <1>2, <2>8, <3>2 DEF AtNode
      <3>4. parent \in Node /\ temp \in Node /\ temp \in {left[parent], right[parent]}
            /\ parent \notin red /\ parent # n /\ parent # temp
        <4>1. parent \in Node /\ temp \in Node /\ temp \in {left[parent], right[parent]}
          BY <1>2, <2>8, <3>3, LessFacts
        <4>2. parent \notin red
          BY <1>2, <2>8, <4>1
        <4>3. temp # nil
          BY <1>1
        <4>4. parent \notin s[temp] /\ parent # temp
          BY <1>2, <4>1, <4>3, KidBelow
        <4>5. n \in s[temp]
          BY <1>2, <1>6, <2>1, <4>1, KidBelow
        <4> QED
          BY <4>1, <4>2, <4>4, <4>5
      <3>5. BeforeRed' = flipped
        BY <1>1, <3>1, <3>4 DEF BeforeRed, Rotating
      <3>6. Upper' = temp
        BY <1>1, <1>9, <3>3 DEF Upper, BeforeSide, Side, Less, Kid
      <3>7. Less(grandParent)' = Less(parent) /\ Less(Upper)' = Less(temp)
        BY <1>1, <3>6 DEF Less
      <3>8. twice' = FALSE => Less(parent) = Less(temp)
        BY <3>1
      <3>9. Lower' = n
        <4>1. (IF twice' THEN Less(Upper)' ELSE Less(grandParent)') = Less(temp)
          BY <3>1, <3>7
        <4>2. n = Kid(left, right, Less(temp), temp)
          BY DEF n, Side, Kid
        <4> QED
          BY <1>9, <3>6, <4>1, <4>2 DEF Lower
      <3>10. Onward' = Side(n)
        <4>1. Less(Lower)' = Less(n)
          BY <1>1, <3>9 DEF Less
        <4>2. BeforeSide(Lower)' = Side(n)
          BY <1>9, <3>9, <4>1, LessFacts DEF BeforeSide
        <4> QED
          BY <3>1, <3>7, <4>2 DEF Onward
      <3>11. BeforeSide(greatGrandParent)' = grandParent'
        <4>1. Less(greatGrandParent)' = Less(grandParent)
          BY <1>1 DEF Less
        <4>2. parent = Kid(left, right, Less(grandParent), grandParent)
          BY <3>3 DEF Side, Kid
        <4>3. BeforeSide(greatGrandParent)' = Kid(left, right, Less(grandParent), grandParent)
          BY <1>1, <1>9, <4>1 DEF BeforeSide
        <4>4. grandParent' = parent
          BY <1>1
        <4> QED
          BY <4>2, <4>3, <4>4
      <3>12. temp \in flipped /\ n \in flipped
        <4>1. temp \notin s[n]
          BY <1>2, <1>6, <2>1, <3>4, KidBelow
        <4>3. temp \notin {left[n], right[n]}
          <5>1. ASSUME temp \in {left[n], right[n]} PROVE FALSE
            <6>1. temp \in s[n]
              BY <1>1, <1>2, <2>1, <5>1, KidBelow
            <6> QED
              BY <4>1, <6>1
          <5> QED
            BY <5>1
        <4> QED
          BY <2>8, <4>3
      <3>13. Kid(left, right, ~Less(parent), parent) \notin flipped
        <4>1. Kid(left, right, ~Less(parent), parent) \in {left[parent], right[parent]}
          BY DEF Kid
        <4>2. Kid(left, right, ~Less(parent), parent) \notin red
          BY <2>8, <3>3 DEF Side, Kid
        <4>3. n \notin {left[parent], right[parent]}
          <5>1. CASE n \in {left[parent], right[parent]}
            <6>1. parent = temp
              BY <1>2, <1>6, <2>1, <2>2, <3>4, <5>1, OnlyParent
            <6> QED
              BY <3>4, <6>1
          <5> QED
            BY <5>1
        <4> QED
          BY <4>1, <4>2, <4>3
      <3>14. IF twice' THEN around' = grandParent' /\ Less(Upper)' # Less(grandParent)'
             ELSE around' = greatGrandParent'
        BY <1>1, <3>1, <3>7
      <3>15. Side(n) # nil /\ Side(n) \notin flipped /\ BlackKids(left, right, flipped, Side(n))
        BY <2>3, <2>5 DEF BlackKids
      <3>16. RotateInv(s)'
        <4>1. /\ key' \in Node \ published'
              /\ grandParent' \in Members' /\ grandParent' \in red'
              /\ greatGrandParent' \in Members' \cup {head}
              /\ BeforeSide(greatGrandParent)' = grandParent'
              /\ Upper' \in BeforeRed' /\ Lower' \in BeforeRed'
          BY <1>1, <1>2, <1>9, <3>1, <3>3, <3>5, <3>6, <3>9, <3>11, <3>12
        <4>2. Kid(BeforeLeft', BeforeRight', ~Less(grandParent)', grandParent') \notin BeforeRed'
          BY <1>1, <1>9, <3>5, <3>7, <3>13
        <4>3. Parted(BeforeLeft', BeforeRight', BeforeRed', Upper', Lower')
          BY <1>9, <2>3, <3>5, <3>6, <3>9
        <4>4. /\ OnPath(s, grandParent)' /\ Onward' # nil /\ Onward' \notin BeforeRed'
              /\ BlackKids(BeforeLeft', BeforeRight', BeforeRed', Onward')
          BY <1>9, <3>3, <3>5, <3>10, <3>15
        <4> QED
          BY <3>1, <3>14, <4>1, <4>2, <4>3, <4>4 DEF RotateInv
      <3>17. SearchInv(s)' /\ IdleInv(s)'
        BY <3>1 DEF SearchInv, IdleInv
      <3>18. Shape(BeforeLeft, BeforeRight, BeforeRed, s, h2, Members)'
        BY <1>9, <2>4, <3>5
      <3>19. WriterInv(s, h2)'
        BY <1>1, <1>2, <1>3, <3>1, <3>16, <3>17, <3>18 DEF WriterInv
      <3> QED
        BY <3>19
    <2> QED
      BY <2>7, <2>8
  <1> QED
    BY <1>10, <1>11

\* The new node is linked; either that is all, or Split() rotates above it.
LEMMA InsertStep ==
    ASSUME NEW s, NEW h, WriterInv(s, h), Insert
    PROVE  \E s2, h2 : WriterInv(s2, h2)'
  <1>1. /\ pc = "search" /\ temp = nil
        /\ left' = IF Less(parent) THEN [left EXCEPT ![parent] = key] ELSE left
        /\ right' = IF Less(parent) THEN right ELSE [right EXCEPT ![parent] = key]
    BY DEF Insert, SetSide
  <1>2. /\ Shape(left, right, red, s, h, published)
        /\ Tree(left, right, s) /\ Has(left, right, s, published)
        /\ red \subseteq published /\ published \subseteq Node /\ ~linked
        /\ key \in Node \ published /\ Parted(left, right, red, nil, nil)
        /\ \A x : OnPath(s, x) <=> Way(s, published, key, x)
        /\ AtHead \/ AtNil(s) \/ AtNode(s) \/ AfterRotation(s)
        /\ nil \notin red /\ head \notin red
        /\ head \notin published /\ nil \notin published
        /\ \A m \in red : left[m] \notin red /\ right[m] \notin red
    BY <1>1, SearchFacts
  <1>3. /\ left \in [Node \cup Sentinels -> NodeOrNil] /\ right \in [Node \cup Sentinels -> NodeOrNil]
        /\ twice \in BOOLEAN
    BY DEF WriterInv
  <1>4. AtNil(s)
    BY <1>1, <1>2, NilIsNoNode DEF AtHead, AtNode, AfterRotation, Way
  <1>5. /\ parent \in published \cup {head} /\ Side(parent) = nil
        /\ parent # head => Way(s, published, key, parent)
    BY <1>2, <1>4 DEF AtNil, Way
  <1>6. /\ left' \in [Node \cup Sentinels -> NodeOrNil]
        /\ right' \in [Node \cup Sentinels -> NodeOrNil]
    BY <1>1, <1>2, <1>3 DEF NodeOrNil
  <1>7. /\ \E s2, h2 : Shape(left', right', red \cup {key}, s2, h2, published \cup {key})
        /\ Parted(left', right', red \cup {key}, parent, key)
        /\ parent \notin red => Parted(left', right', red \cup {key}, nil, nil)
        /\ Kid(left', right', Less(parent), parent) = key /\ parent # key
        /\ \A n \in Node \cup {head} : n # parent => left'[n] = left[n] /\ right'[n] = right[n]
    <2>1. /\ Less(parent) \in BOOLEAN /\ (parent = head => ~Less(parent))
          /\ Kid(left, right, Less(parent), parent) = nil
          /\ parent # head => (Less(parent) <=> key < parent) /\ Way(s, published, key, parent)
      BY <1>2, <1>5, LessFacts
    <2>2. PICK b \in BOOLEAN : b = Less(parent)
      BY <2>1
    <2>3. Linking(left, right, s, published, left', right', key, parent, b)
      BY <1>1, <2>1, <2>2 DEF Linking
    <2>4. Grown(left, right, red, published, left', right', key, parent, b)
      BY <1>2, <1>5, <2>3, InsertShape
    <2> QED
      BY <2>2, <2>4 DEF Grown
  <1>8. PICK s2, h2 : Shape(left', right', red \cup {key}, s2, h2, published \cup {key})
    BY <1>7
  <1>9. CASE parent \notin red
    <2>1. /\ red' = (red \cup {key}) \ {right'[head]} /\ published' = published \cup {key}
          /\ pc' = "idle" /\ twice' = FALSE /\ linked' = FALSE
      BY <1>9 DEF Insert, Return
    <2>2. /\ \E h3 : Shape(left', right', red', s2, h3, published')
          /\ Parted(left', right', red', nil, nil)
      BY <1>7, <1>8, <1>9, <2>1, BlackenShape
    <2>3. PICK h3 : Shape(left', right', red', s2, h3, published')
      BY <2>2
    <2>4. /\ BeforeLeft' = left' /\ BeforeRight' = right' /\ BeforeRed' = red'
          /\ Members' = published'
      BY <2>1 DEF BeforeLeft, BeforeRight, BeforeRed, Rotating, Members
    <2>5. Shape(BeforeLeft, BeforeRight, BeforeRed, s2, h3, Members)'
      BY <2>3, <2>4
    <2>6. IdleInv(s2)' /\ SearchInv(s2)' /\ RotateInv(s2)'
      BY <2>1, <2>2 DEF IdleInv, SearchInv, RotateInv, Rotating, Root
    <2>7. WriterInv(s2, h3)'
      BY <1>2, <1>6, <2>1, <2>5, <2>6 DEF WriterInv
    <2> QED
      BY <2>7
  <1>10. CASE parent \in red
    <2>1. /\ red' = red \cup {key, grandParent} /\ pc' = "rotate" /\ linked' = TRUE
          /\ twice' = (Less(grandParent) # Less(parent))
          /\ around' = IF Less(grandParent) # Less(parent) THEN grandParent
                       ELSE greatGrandParent
          /\ key' = key /\ published' = published
          /\ grandParent' = grandParent /\ greatGrandParent' = greatGrandParent
      BY <1>10 DEF Insert, Rotations, path
    <2>2. /\ grandParent \in published /\ parent = Side(grandParent)
          /\ greatGrandParent \in published \cup {head}
          /\ grandParent = Side(greatGrandParent)
          /\ ~(left[grandParent] \in red /\ right[grandParent] \in red)
      BY <1>4, <1>10 DEF AtNil
    <2>3. /\ grandParent \in Node /\ parent \in Node /\ greatGrandParent \in Node \cup {head}
          /\ parent \in {left[grandParent], right[grandParent]}
          /\ grandParent \in {left[greatGrandParent], right[greatGrandParent]}
          /\ parent # nil /\ grandParent # nil
      BY <1>2, <1>10, <2>2, LessFacts
    <2>4. grandParent \notin red
      BY <1>2, <1>10, <2>3
    <2>5. grandParent # parent /\ greatGrandParent # parent
      <3>1. /\ grandParent # parent /\ parent \in s[grandParent]
        BY <1>2, <2>3, KidBelow
      <3>2. CASE greatGrandParent = head
        BY <2>3, <3>1, <3>2, NilIsNoNode
      <3>3. CASE greatGrandParent # head
        <4>1. greatGrandParent \notin s[grandParent]
          BY <1>2, <2>3, <3>3, KidBelow
        <4> QED
          BY <3>1, <4>1
      <3> QED
        BY <3>1, <3>2, <3>3
    <2>6. /\ left'[grandParent] = left[grandParent] /\ right'[grandParent] = right[grandParent]
          /\ left'[greatGrandParent] = left[greatGrandParent]
          /\ right'[greatGrandParent] = right[greatGrandParent]
      BY <1>7, <2>3, <2>5
    <2>7. /\ BeforeLeft' = left' /\ BeforeRight' = right' /\ BeforeRed' = red \cup {key}
          /\ Members' = published \cup {key}
      <3>1. grandParent # key
        BY <1>2, <2>2
      <3> QED
        BY <2>1, <2>4, <3>1 DEF BeforeLeft, BeforeRight, BeforeRed, Rotating, Members
    <2>8. \A b \in BOOLEAN : /\ Kid(left', right', b, grandParent) = Kid(left, right, b, grandParent)
                             /\ Kid(left', right', b, greatGrandParent) = Kid(left, right, b, greatGrandParent)
      BY <2>6 DEF Kid
    <2>9. /\ Less(grandParent)' = Less(grandParent)
          /\ Less(greatGrandParent)' = Less(greatGrandParent)
          /\ Less(grandParent) \in BOOLEAN /\ Less(greatGrandParent) \in BOOLEAN
      BY <2>1 DEF Less
    <2>10. Upper' = parent
      <3>1. Upper' = Kid(left', right', Less(grandParent), grandParent)
        BY <2>1, <2>7, <2>9 DEF Upper, BeforeSide
      <3>2. parent = Kid(left, right, Less(grandParent), grandParent)
        BY <2>2 DEF Side, Kid
      <3> QED
        BY <2>8, <2>9, <3>1, <3>2
    <2>11. Less(Upper)' = Less(parent)
      BY <2>1, <2>10 DEF Less
    <2>12. Lower' = key
      <3>1. (IF twice' THEN Less(Upper)' ELSE Less(grandParent)') = Less(parent)
        BY <2>1, <2>9, <2>11
      <3> QED
        BY <1>7, <2>7, <2>10, <3>1 DEF Lower
    <2>13. BeforeSide(greatGrandParent)' = grandParent'
      <3>1. BeforeSide(greatGrandParent)'
              = Kid(left', right', Less(greatGrandParent), greatGrandParent)
        BY <2>1, <2>7, <2>9 DEF BeforeSide
      <3>2. grandParent = Kid(left, right, Less(greatGrandParent), greatGrandParent)
        BY <2>2 DEF Side, Kid
      <3>3. grandParent' = grandParent
        BY <2>1
      <3> QED
        BY <2>8, <2>9, <3>1, <3>2, <3>3
    <2>14. Kid(left', right', ~Less(grandParent), grandParent) \notin red \cup {key}
      <3> DEFINE v == Kid(left, right, ~Less(grandParent), grandParent)
      <3>1. v \notin red
        BY <1>10, <2>2 DEF Side, Kid
      <3>2. v \in {left[grandParent], right[grandParent]}
        BY DEF Kid
      <3>3. Kid(left', right', ~Less(grandParent), grandParent) = v
        BY <2>8, <2>9
      <3> HIDE DEF v
      <3>4. v # key
        BY <1>2, <2>2, <3>2, KidIsMember, NilIsNoNode
      <3> QED
        BY <3>1, <3>3, <3>4
    <2>15. IF twice' THEN around' = grandParent' /\ Less(Upper)' # Less(grandParent)'
           ELSE around' = greatGrandParent'
      BY <2>1, <2>9, <2>11
    <2>16. RotateInv(s2)'
      <3>1. /\ key' \in Node \ published'
            /\ grandParent' \in Members' /\ grandParent' \in red'
            /\ greatGrandParent' \in Members' \cup {head}
            /\ BeforeSide(greatGrandParent)' = grandParent'
            /\ Upper' \in BeforeRed' /\ Lower' \in BeforeRed'
        BY <1>2, <1>10, <2>1, <2>2, <2>7, <2>10, <2>12, <2>13
      <3>2. Kid(BeforeLeft', BeforeRight', ~Less(grandParent)', grandParent') \notin BeforeRed'
        BY <2>1, <2>7, <2>9, <2>14
      <3>3. Parted(BeforeLeft', BeforeRight', BeforeRed', Upper', Lower')
        BY <1>7, <2>7, <2>10, <2>12
      <3> QED
        BY <2>1, <2>15, <3>1, <3>2, <3>3 DEF RotateInv
    <2>17. SearchInv(s2)' /\ IdleInv(s2)'
      BY <2>1 DEF SearchInv, IdleInv
    <2>18. Shape(BeforeLeft, BeforeRight, BeforeRed, s2, h2, Members)'
      BY <1>8, <2>7
    <2>19. WriterInv(s2, h2)'
      BY <1>2, <1>6, <2>1, <2>16, <2>17, <2>18 DEF WriterInv
    <2> QED
      BY <2>19
  <1> QED
    BY <1>9, <1>10

\* The two nodes that CacheRotate turns below "around".
Mid == BeforeSide(around)
Tip == BeforeSide(Mid)

\* A rotation works on three nodes in a row, as they were before it.
LEMMA RotateFacts ==
    ASSUME NEW s, NEW h, WriterInv(s, h), Rotating
    PROVE  /\ Shape(BeforeLeft, BeforeRight, BeforeRed, s, h, Members)
           /\ Tree(BeforeLeft, BeforeRight, s) /\ Has(BeforeLeft, BeforeRight, s, Members)
           /\ BeforeRed \subseteq Members /\ Members \subseteq Node
           /\ grandParent \in Node /\ Upper \in Node /\ Lower \in Node
           /\ BeforeSide(greatGrandParent) = grandParent
           /\ around \in Members \cup {head} /\ (around = head => ~Less(around))
           /\ Mid \in Node /\ Mid = Kid(BeforeLeft, BeforeRight, Less(around), around)
           /\ Tip \in Node /\ Tip = Kid(BeforeLeft, BeforeRight, Less(Mid), Mid)
           /\ Mid # Tip /\ around # Mid /\ around # Tip
           /\ IF twice THEN around = grandParent /\ Mid = Upper /\ Tip = Lower
              ELSE around = greatGrandParent /\ Mid = grandParent /\ Tip = Upper
           /\ pc # "rotate" => child = Mid /\ grandChild = Tip
  <1>1. /\ Shape(BeforeLeft, BeforeRight, BeforeRed, s, h, Members) /\ RotateInv(s)
        /\ twice \in BOOLEAN
    BY DEF WriterInv
  <1>2. /\ Tree(BeforeLeft, BeforeRight, s) /\ Has(BeforeLeft, BeforeRight, s, Members)
        /\ BeforeRed \subseteq Members /\ Members \subseteq Node
    BY <1>1, MembersAreNodes DEF Shape
  <1>3. /\ grandParent \in Members /\ greatGrandParent \in Members \cup {head}
        /\ BeforeSide(greatGrandParent) = grandParent
        /\ Upper \in BeforeRed /\ Lower \in BeforeRed
        /\ IF twice THEN around = grandParent /\ Less(Upper) # Less(grandParent)
           ELSE around = greatGrandParent
        /\ pc # "rotate" => child = BeforeSide(around) /\ grandChild = BeforeSide(child)
    BY <1>1 DEF RotateInv
  <1>4. grandParent \in Node /\ Upper \in Node /\ Lower \in Node
    BY <1>2, <1>3
  <1>5. around \in Members \cup {head} /\ (around = head => ~Less(around))
    BY <1>3, LessFacts
  <1>6. IF twice THEN around = grandParent /\ Mid = Upper /\ Tip = Lower
        ELSE around = greatGrandParent /\ Mid = grandParent /\ Tip = Upper
    <2>1. CASE twice
      <3>1. Mid = Upper
        BY <1>3, <2>1 DEF Mid, Upper
      <3>2. Tip = Lower
        BY <2>1, <3>1 DEF Tip, Lower, BeforeSide
      <3> QED
        BY <1>3, <2>1, <3>1, <3>2
    <2>2. CASE ~twice
      <3>1. Mid = grandParent
        BY <1>3, <2>2 DEF Mid
      <3>2. Tip = Upper
        BY <3>1 DEF Tip, Upper
      <3> QED
        BY <1>3, <2>2, <3>1, <3>2
    <2> QED
      BY <1>1, <2>1, <2>2
  <1>7. Mid \in Node /\ Tip \in Node
    BY <1>1, <1>4, <1>6
  <1>8. /\ Mid = Kid(BeforeLeft, BeforeRight, Less(around), around)
        /\ Tip = Kid(BeforeLeft, BeforeRight, Less(Mid), Mid)
    BY DEF Mid, Tip, BeforeSide
  <1>9. pc # "rotate" => child = Mid /\ grandChild = Tip
    BY <1>3 DEF Mid, Tip
  <1>10. Mid # Tip /\ around # Mid /\ around # Tip
    <2>1. Less(around) \in BOOLEAN /\ Less(Mid) \in BOOLEAN /\ around \in Node \cup {head}
      BY <1>2, <1>5, LessFacts
    <2> QED
      BY <1>2, <1>5, <1>7, <1>8, <2>1, Kinship
  <1> QED
    BY <1>1, <1>2, <1>3, <1>4, <1>5, <1>6, <1>7, <1>8, <1>9, <1>10

\* The stores within CacheRotate leave the tree that it started from as it was.
LEMMA SameTree ==
    ASSUME NEW s, NEW h, WriterInv(s, h), Rotating, pc' \in {"take", "replace"},
           red' = red, key' = key, grandParent' = grandParent,
           greatGrandParent' = greatGrandParent, around' = around, twice' = twice,
           linked' = linked, published' = published,
           left' \in [Node \cup Sentinels -> NodeOrNil],
           right' \in [Node \cup Sentinels -> NodeOrNil],
           BeforeLeft' = BeforeLeft, BeforeRight' = BeforeRight,
           child' = Mid, grandChild' = Tip,
           pc' = "take" => Kid(left', right', Less(Mid), Mid)
                            = Kid(left', right', ~Less(Mid), Tip),
           pc' = "replace" => Kid(left', right', ~Less(Mid), Tip) = Mid
    PROVE  WriterInv(s, h)'
  <1>1. Rotating'
    BY DEF Rotating
  <1>2. \A n : /\ Less(n)' <=> Less(n)
               /\ BeforeSide(n)' = Kid(BeforeLeft, BeforeRight, Less(n), n)
    BY DEF Less, BeforeSide
  <1>3. /\ BeforeRed' = BeforeRed /\ Members' = Members
        /\ \A n : OnPath(s, n)' <=> OnPath(s, n)
    BY <1>1 DEF BeforeRed, Members, OnPath
  <1>4. Upper' = Upper
    BY <1>2 DEF Upper, BeforeSide
  <1>5. Lower' = Lower
    BY <1>2, <1>4 DEF Lower
  <1>6. Onward' = Onward
    BY <1>2, <1>4, <1>5 DEF Onward, BeforeSide
  <1>7. BeforeSide(around)' = Mid /\ BeforeSide(Mid)' = Tip
    BY <1>2 DEF Mid, Tip, BeforeSide
  <1>8. RotateInv(s) /\ Shape(BeforeLeft, BeforeRight, BeforeRed, s, h, Members)
    BY DEF WriterInv
  <1>9. RotateInv(s)'
    <2>1. /\ key' \in Node \ published'
          /\ grandParent' \in Members' /\ grandParent' \in red'
          /\ greatGrandParent' \in Members' \cup {head}
          /\ Upper' \in BeforeRed' /\ Lower' \in BeforeRed'
      BY <1>3, <1>4, <1>5, <1>8 DEF RotateInv
    <2>2. BeforeSide(greatGrandParent)' = grandParent'
      BY <1>2, <1>8 DEF RotateInv, BeforeSide
    <2>3. Kid(BeforeLeft', BeforeRight', ~Less(grandParent)', grandParent') \notin BeforeRed'
      <3>1. Less(grandParent)' <=> Less(grandParent)
        BY <1>2
      <3> QED
        BY <1>3, <1>8, <3>1 DEF RotateInv, Kid
    <2>4. Parted(BeforeLeft', BeforeRight', BeforeRed', Upper', Lower')
      BY <1>3, <1>4, <1>5, <1>8 DEF RotateInv
    <2>5. IF twice' THEN around' = grandParent' /\ Less(Upper)' # Less(grandParent)'
          ELSE around' = greatGrandParent'
      <3>1. Less(Upper)' = Less(Upper) /\ Less(grandParent)' = Less(grandParent)
        BY <1>4 DEF Less
      <3> QED
        BY <1>8, <3>1 DEF RotateInv
    <2>6. /\ pc' = "take" => Kid(left', right', Less(child)', child')
                              = Kid(left', right', ~Less(child)', grandChild')
          /\ pc' = "replace" => Kid(left', right', ~Less(child)', grandChild') = child'
      <3>1. Less(child)' <=> Less(Mid)
        BY DEF Less
      <3> QED
        BY <3>1 DEF Kid
    <2>7. child' = BeforeSide(around)' /\ grandChild' = BeforeSide(child)'
      BY DEF Mid, Tip, BeforeSide, Less
    <2>8. ~linked' =>
            /\ OnPath(s, grandParent)' /\ Onward' # nil /\ Onward' \notin BeforeRed'
            /\ BlackKids(BeforeLeft', BeforeRight', BeforeRed', Onward')
      BY <1>3, <1>6, <1>8 DEF RotateInv, OnPath
    <2> QED
      BY <2>1, <2>2, <2>3, <2>4, <2>5, <2>6, <2>7, <2>8 DEF RotateInv
  <1>10. IdleInv(s)' /\ SearchInv(s)'
    BY DEF IdleInv, SearchInv
  <1>11. Shape(BeforeLeft, BeforeRight, BeforeRed, s, h, Members)'
    BY <1>3, <1>8
  <1>12. /\ pc' \in {"idle", "search", "rotate", "take", "replace"}
         /\ linked' \in BOOLEAN /\ published' \subseteq Node /\ twice' \in BOOLEAN
    BY DEF WriterInv
  <1> QED
    BY <1>9, <1>10, <1>11, <1>12 DEF WriterInv

\* The first store: the child gets the inner sub-tree of the grandchild.
LEMMA GiveStep ==
    ASSUME NEW s, NEW h, WriterInv(s, h), GiveSubTree
    PROVE  WriterInv(s, h)'
  <1>1. /\ pc = "rotate" /\ pc' = "take" /\ child' = Side(around) /\ grandChild' = Side(child')
        /\ left' = IF Less(child') THEN [left EXCEPT ![child'] = right[grandChild']] ELSE left
        /\ right' = IF Less(child') THEN right ELSE [right EXCEPT ![child'] = left[grandChild']]
        /\ red' = red /\ key' = key /\ grandParent' = grandParent
        /\ greatGrandParent' = greatGrandParent /\ around' = around /\ twice' = twice
        /\ linked' = linked /\ published' = published
    BY DEF GiveSubTree, SetSide, path
  <1>2. BeforeLeft = left /\ BeforeRight = right /\ Rotating
    BY <1>1 DEF BeforeLeft, BeforeRight, Rotating
  <1>3. /\ Mid \in Node /\ Mid = Kid(left, right, Less(around), around)
        /\ Tip \in Node /\ Tip = Kid(left, right, Less(Mid), Mid)
    BY <1>2, RotateFacts
  <1>4. child' = Mid /\ grandChild' = Tip
    BY <1>1, <1>3, LessFacts
  <1>5. /\ left' = IF Less(Mid) THEN [left EXCEPT ![Mid] = right[Tip]] ELSE left
        /\ right' = IF Less(Mid) THEN right ELSE [right EXCEPT ![Mid] = left[Tip]]
    BY <1>1, <1>4
  <1>6. /\ left \in [Node \cup Sentinels -> NodeOrNil]
        /\ right \in [Node \cup Sentinels -> NodeOrNil]
    BY DEF WriterInv
  <1>7. /\ left' \in [Node \cup Sentinels -> NodeOrNil]
        /\ right' \in [Node \cup Sentinels -> NodeOrNil]
    BY <1>3, <1>5, <1>6
  <1>8. Less(child)' = Less(Mid) /\ Less(Mid) \in BOOLEAN
    BY <1>1, <1>4, LessFacts DEF Less
  <1>9. BeforeLeft' = left /\ BeforeRight' = right
    <2>1. /\ BeforeLeft' = IF Less(Mid) THEN [left' EXCEPT ![Mid] = Tip] ELSE left'
          /\ BeforeRight' = IF ~Less(Mid) THEN [right' EXCEPT ![Mid] = Tip] ELSE right'
      BY <1>1, <1>4, <1>8 DEF BeforeLeft, BeforeRight
    <2>2. CASE Less(Mid)
      <3>1. left[Mid] = Tip
        BY <1>3, <2>2 DEF Kid
      <3> QED
        BY <1>3, <1>5, <1>6, <2>1, <2>2, <3>1
    <2>3. CASE ~Less(Mid)
      <3>1. right[Mid] = Tip
        BY <1>3, <2>3 DEF Kid
      <3> QED
        BY <1>3, <1>5, <1>6, <2>1, <2>3, <3>1
    <2> QED
      BY <2>2, <2>3
  <1>10. Kid(left', right', Less(Mid), Mid) = Kid(left', right', ~Less(Mid), Tip)
    BY <1>3, <1>5, <1>6 DEF Kid
  <1> QED
    BY <1>1, <1>2, <1>4, <1>7, <1>9, <1>10, SameTree

\* The second: the grandchild gets the child.
LEMMA TakeStep ==
    ASSUME NEW s, NEW h, WriterInv(s, h), TakeChild
    PROVE  WriterInv(s, h)'
  <1>1. /\ pc = "take" /\ pc' = "replace" /\ child' = child /\ grandChild' = grandChild
        /\ left' = IF ~Less(child) THEN [left EXCEPT ![grandChild] = child] ELSE left
        /\ right' = IF ~Less(child) THEN right ELSE [right EXCEPT ![grandChild] = child]
        /\ red' = red /\ key' = key /\ grandParent' = grandParent
        /\ greatGrandParent' = greatGrandParent /\ around' = around /\ twice' = twice
        /\ linked' = linked /\ published' = published
    BY DEF TakeChild, SetSide, path, rotation
  <1>2. Rotating
    BY <1>1 DEF Rotating
  <1>3. child = Mid /\ grandChild = Tip /\ Mid \in Node /\ Tip \in Node /\ Mid # Tip
    BY <1>1, <1>2, RotateFacts
  <1>4. Kid(left, right, Less(Mid), Mid) = Kid(left, right, ~Less(Mid), Tip)
    BY <1>1, <1>2, <1>3 DEF WriterInv, RotateInv
  <1>5. /\ left' = IF ~Less(Mid) THEN [left EXCEPT ![Tip] = Mid] ELSE left
        /\ right' = IF ~Less(Mid) THEN right ELSE [right EXCEPT ![Tip] = Mid]
    BY <1>1, <1>3
  <1>6. /\ left \in [Node \cup Sentinels -> NodeOrNil]
        /\ right \in [Node \cup Sentinels -> NodeOrNil]
    BY DEF WriterInv
  <1>7. /\ left' \in [Node \cup Sentinels -> NodeOrNil]
        /\ right' \in [Node \cup Sentinels -> NodeOrNil]
    BY <1>3, <1>5, <1>6 DEF NodeOrNil
  <1>8. Less(child)' = Less(Mid) /\ Less(Mid) \in BOOLEAN
    BY <1>1, <1>3, LessFacts DEF Less
  <1>9. BeforeLeft' = BeforeLeft /\ BeforeRight' = BeforeRight
    <2>1. /\ BeforeLeft = IF Less(Mid) THEN [left EXCEPT ![Mid] = Tip] ELSE left
          /\ BeforeRight = IF ~Less(Mid) THEN [right EXCEPT ![Mid] = Tip] ELSE right
      BY <1>1, <1>3 DEF BeforeLeft, BeforeRight
    <2>2. /\ BeforeLeft' = IF Less(Mid) THEN [left' EXCEPT ![Mid] = Tip]
                           ELSE [left' EXCEPT ![Tip] = right'[Mid]]
          /\ BeforeRight' = IF ~Less(Mid) THEN [right' EXCEPT ![Mid] = Tip]
                            ELSE [right' EXCEPT ![Tip] = left'[Mid]]
      BY <1>1, <1>3, <1>8 DEF BeforeLeft, BeforeRight
    <2>3. CASE Less(Mid)
      <3>1. left[Mid] = right[Tip] /\ left' = left /\ right' = [right EXCEPT ![Tip] = Mid]
        BY <1>4, <1>5, <2>3 DEF Kid
      <3> QED
        BY <1>3, <1>6, <2>1, <2>2, <2>3, <3>1
    <2>4. CASE ~Less(Mid)
      <3>1. right[Mid] = left[Tip] /\ right' = right /\ left' = [left EXCEPT ![Tip] = Mid]
        BY <1>4, <1>5, <2>4 DEF Kid
      <3> QED
        BY <1>3, <1>6, <2>1, <2>2, <2>4, <3>1
    <2> QED
      BY <2>3, <2>4
  <1>10. Kid(left', right', ~Less(Mid), Tip) = Mid
    BY <1>3, <1>5, <1>6 DEF Kid
  <1> QED
    BY <1>1, <1>2, <1>3, <1>7, <1>9, <1>10, SameTree

\* A kid of a kid of g, and what is below the three.
LEMMA KinOfKin ==
    ASSUME NEW l, NEW r, NEW s, Tree(l, r, s),
           NEW a \in Node \cup {head}, NEW onA \in BOOLEAN, a = head => ~onA,
           NEW c \in Node, c = Kid(l, r, onA, a),
           NEW onC \in BOOLEAN, NEW g \in Node, g = Kid(l, r, onC, c),
           NEW x \in Node, x \in {l[g], r[g]}, NEW y \in {l[x], r[x]}
    PROVE  y \notin {a, c, g}
  <1>1. a \in Node => c \in {l[a], r[a]}
    BY DEF Kid
  <1>2. g \in {l[c], r[c]} /\ x # nil /\ g # nil /\ c # nil /\ a # nil
    BY NilIsNoNode DEF Kid
  <1>3. /\ g \notin s[x] /\ s[x] \subseteq s[g] /\ c \notin s[g] /\ s[g] \subseteq s[c]
        /\ a \in Node => a \notin s[c]
    BY <1>1, <1>2, KidBelow
  <1>4. y \in NodeOrNil /\ (y # nil => y \in s[x])
    <2>1. y \in NodeOrNil
      BY DEF Tree
    <2> QED
      BY <2>1, KidBelow
  <1>5. head \notin NodeOrNil
    BY NilIsNoNode DEF NodeOrNil
  <1> QED
    BY <1>2, <1>3, <1>4, <1>5

\* The last store of CacheRotate completes the turn.
LEMMA ReplaceTurns ==
    ASSUME NEW s, NEW h, WriterInv(s, h), ReplaceChild
    PROVE  Turned(BeforeLeft, BeforeRight, left', right',
                  around, Less(around), Mid, Less(Mid), Tip)
  <1>1. /\ pc = "replace"
        /\ left' = IF Less(around) THEN [left EXCEPT ![around] = grandChild] ELSE left
        /\ right' = IF Less(around) THEN right ELSE [right EXCEPT ![around] = grandChild]
    BY DEF ReplaceChild, SetSide
  <1>2. Rotating
    BY <1>1 DEF Rotating
  <1>3. /\ child = Mid /\ grandChild = Tip /\ Mid \in Node /\ Tip \in Node
        /\ Mid # Tip /\ around # Mid /\ around # Tip /\ around \in Node \cup {head}
    BY <1>1, <1>2, RotateFacts
  <1>4. Kid(left, right, ~Less(Mid), Tip) = Mid
    BY <1>1, <1>2, <1>3 DEF WriterInv, RotateInv
  <1>5. /\ left \in [Node \cup Sentinels -> NodeOrNil]
        /\ right \in [Node \cup Sentinels -> NodeOrNil]
    BY DEF WriterInv
  <1>6. /\ BeforeLeft = IF Less(Mid) THEN [left EXCEPT ![Mid] = Tip]
                        ELSE [left EXCEPT ![Tip] = right[Mid]]
        /\ BeforeRight = IF ~Less(Mid) THEN [right EXCEPT ![Mid] = Tip]
                         ELSE [right EXCEPT ![Tip] = left[Mid]]
    BY <1>1, <1>3 DEF BeforeLeft, BeforeRight
  <1>7. /\ left' = IF Less(around) THEN [left EXCEPT ![around] = Tip] ELSE left
        /\ right' = IF Less(around) THEN right ELSE [right EXCEPT ![around] = Tip]
    BY <1>1, <1>3
  <1>8. around \in Node \cup Sentinels /\ Mid \in Node \cup Sentinels /\ Tip \in Node \cup Sentinels
        /\ Tip \in NodeOrNil
    BY <1>3 DEF Sentinels, NodeOrNil
  <1>9. /\ left' \in [Node \cup Sentinels -> NodeOrNil]
        /\ right' \in [Node \cup Sentinels -> NodeOrNil]
    BY <1>5, <1>7, <1>8
  <1>10. ASSUME NEW n \in Node \cup Sentinels
         PROVE  /\ left'[n] = IF n = around /\ Less(around) THEN Tip
                              ELSE IF n = Mid /\ Less(Mid) THEN BeforeRight[Tip]
                              ELSE IF n = Tip /\ ~Less(Mid) THEN Mid ELSE BeforeLeft[n]
                /\ right'[n] = IF n = around /\ ~Less(around) THEN Tip
                               ELSE IF n = Mid /\ ~Less(Mid) THEN BeforeLeft[Tip]
                               ELSE IF n = Tip /\ Less(Mid) THEN Mid ELSE BeforeRight[n]
    <2>1. /\ left'[n] = IF n = around /\ Less(around) THEN Tip ELSE left[n]
          /\ right'[n] = IF n = around /\ ~Less(around) THEN Tip ELSE right[n]
      BY <1>5, <1>7, <1>8
    <2>2. CASE Less(Mid)
      <3>1. /\ BeforeLeft[n] = IF n = Mid THEN Tip ELSE left[n]
            /\ BeforeRight[n] = IF n = Tip THEN left[Mid] ELSE right[n]
            /\ BeforeRight[Tip] = left[Mid] /\ right[Tip] = Mid
        BY <1>4, <1>5, <1>6, <1>8, <2>2 DEF Kid
      <3> QED
        BY <1>3, <2>1, <2>2, <3>1
    <2>3. CASE ~Less(Mid)
      <3>1. /\ BeforeRight[n] = IF n = Mid THEN Tip ELSE right[n]
            /\ BeforeLeft[n] = IF n = Tip THEN right[Mid] ELSE left[n]
            /\ BeforeLeft[Tip] = right[Mid] /\ left[Tip] = Mid
        BY <1>4, <1>5, <1>6, <1>8, <2>3 DEF Kid
      <3> QED
        BY <1>3, <2>1, <2>3, <3>1
    <2> QED
      BY <2>2, <2>3
  <1> QED
    BY <1>9, <1>10 DEF Turned

\* The first of two rotations: the path no longer bends.
LEMMA BendStep ==
    ASSUME NEW s, NEW h, WriterInv(s, h), ReplaceChild, twice
    PROVE  \E s2, h2 : WriterInv(s2, h2)'
  <1> DEFINE onA == Less(grandParent)
             onC == Less(Upper)
             inner == Kid(BeforeLeft, BeforeRight, ~onC, Lower)
             outer == Kid(BeforeLeft, BeforeRight, onC, Lower)
             other == Kid(BeforeLeft, BeforeRight, ~onC, Upper)
  <1>1. /\ pc = "replace" /\ pc' = "rotate" /\ around' = greatGrandParent /\ twice' = FALSE
        /\ red' = red /\ key' = key /\ grandParent' = grandParent
        /\ greatGrandParent' = greatGrandParent /\ linked' = linked /\ published' = published
    BY DEF ReplaceChild
  <1>2. Rotating /\ Rotating'
    BY <1>1 DEF Rotating
  <1>3. /\ Shape(BeforeLeft, BeforeRight, BeforeRed, s, h, Members)
        /\ Tree(BeforeLeft, BeforeRight, s) /\ Has(BeforeLeft, BeforeRight, s, Members)
        /\ BeforeRed \subseteq Members /\ Members \subseteq Node
        /\ around = grandParent /\ Mid = Upper /\ Tip = Lower
        /\ grandParent \in Node /\ Upper \in Node /\ Lower \in Node
        /\ Upper = Kid(BeforeLeft, BeforeRight, onA, grandParent)
        /\ Lower = Kid(BeforeLeft, BeforeRight, onC, Upper)
        /\ (grandParent = head => ~onA) /\ onA \in BOOLEAN /\ onC \in BOOLEAN
    <2>1. Less(Mid) = onC /\ Less(around) = onA
      BY <1>2, RotateFacts
    <2> QED
      BY <1>2, <2>1, RotateFacts, LessFacts
  <1>4. /\ key \in Node \ published /\ grandParent \in Members /\ grandParent \in red
        /\ greatGrandParent \in Members \cup {head}
        /\ BeforeSide(greatGrandParent) = grandParent
        /\ Upper \in BeforeRed /\ Lower \in BeforeRed
        /\ Kid(BeforeLeft, BeforeRight, ~onA, grandParent) \notin BeforeRed
        /\ Parted(BeforeLeft, BeforeRight, BeforeRed, Upper, Lower)
        /\ onC # onA
        /\ ~linked => /\ OnPath(s, grandParent) /\ Onward # nil /\ Onward \notin BeforeRed
                      /\ BlackKids(BeforeLeft, BeforeRight, BeforeRed, Onward)
    BY <1>2 DEF WriterInv, RotateInv
  <1>5. Onward = Kid(BeforeLeft, BeforeRight, Less(Lower), Lower)
    BY DEF Onward, BeforeSide
  <1>6. BeforeRed = red \ {grandParent} /\ BeforeRed' = BeforeRed /\ grandParent \notin BeforeRed
    BY <1>1, <1>2 DEF BeforeRed
  <1>7. /\ BeforeLeft' = left' /\ BeforeRight' = right' /\ Members' = Members
    BY <1>1 DEF BeforeLeft, BeforeRight, Members
  <1>8. Turned(BeforeLeft, BeforeRight, left', right', grandParent, onA, Upper, onC, Lower)
    BY <1>3, ReplaceTurns
  <1> HIDE DEF onA, onC
  <1>9. /\ \E s2 : /\ Shape(left', right', BeforeRed, s2, h, Members)
                   /\ s2[Lower] = s[Upper]
                   /\ \A n \in NodeOrNil : n \notin {Upper, Lower} => s2[n] = s[n]
        /\ Parted(left', right', BeforeRed, Lower, Upper)
    BY <1>3, <1>4, <1>6, <1>8, BendShape
  <1>10. PICK s2 : /\ Shape(left', right', BeforeRed, s2, h, Members)
                   /\ s2[Lower] = s[Upper]
                   /\ \A n \in NodeOrNil : n \notin {Upper, Lower} => s2[n] = s[n]
    BY <1>9
  <1>11. Resettled(BeforeLeft, BeforeRight, left', right', grandParent, onA, Upper, onC, Lower,
                   other, inner, outer)
    BY <1>3, <1>8, TurnedKids
  <1>12. grandParent \notin {Upper, Lower} /\ Upper # Lower
    BY <1>3, Kinship
  <1>13. greatGrandParent \notin {grandParent, Upper, Lower}
    <2>1. greatGrandParent \in Node \cup {head}
      BY <1>3, <1>4
    <2>2. grandParent \in {BeforeLeft[greatGrandParent], BeforeRight[greatGrandParent]}
      BY <1>4 DEF BeforeSide, Kid
    <2>3. grandParent \notin {BeforeLeft[Lower], BeforeRight[Lower]}
      BY <1>3, Kinship
    <2>4. /\ Upper \in s[grandParent]
          /\ greatGrandParent \in Node => /\ greatGrandParent \notin s[grandParent]
                                          /\ grandParent # greatGrandParent
      <3>1. Upper \in {BeforeLeft[grandParent], BeforeRight[grandParent]} /\ Upper # nil
        BY <1>3, NilIsNoNode DEF Kid
      <3> QED
        BY <1>3, <2>2, <3>1, KidBelow, NilIsNoNode
    <2> QED
      BY <1>3, <2>1, <2>2, <2>3, <2>4, NilIsNoNode
  <1>14. \A n \in Node \cup {head} : n \notin {grandParent, Upper, Lower} =>
             left'[n] = BeforeLeft[n] /\ right'[n] = BeforeRight[n]
    BY <1>11 DEF Resettled
  <1>15. \A n : Less(n)' = Less(n)
    BY <1>1 DEF Less
  <1>16. Less(grandParent)' = onA
    BY <1>1 DEF onA, Less
  <1>17. Upper' = Lower
    <2>1. Upper' = Kid(left', right', onA, grandParent)
      BY <1>1, <1>7, <1>16 DEF Upper, BeforeSide
    <2> QED
      BY <1>11, <2>1 DEF Resettled
  <1>18. Less(Upper)' = Less(Lower)
    BY <1>1, <1>17 DEF Less
  <1>19. Lower' = Upper
    <2>1. Lower' = Kid(left', right', onA, Lower)
      BY <1>1, <1>7, <1>16, <1>17 DEF Lower
    <2>2. onA = ~onC
      BY <1>3, <1>4
    <2> QED
      BY <1>11, <2>1, <2>2 DEF Resettled
  <1>20. Less(Lower)' = onC
    BY <1>1, <1>19 DEF Less, onC
  <1>21. Onward' = Onward
    <2>1. Less(Lower) \in BOOLEAN
      BY LessFacts
    <2>2. Onward' = IF Less(Lower) = onA THEN Kid(left', right', onC, Upper)
                    ELSE Kid(left', right', Less(Lower), Lower)
      BY <1>1, <1>7, <1>16, <1>17, <1>18, <1>19, <1>20 DEF Onward, BeforeSide
    <2>3. CASE Less(Lower) = onA
      <3>1. Less(Lower) = ~onC
        BY <1>3, <1>4, <2>3
      <3> QED
        BY <1>5, <1>11, <2>2, <2>3, <3>1 DEF Resettled
    <2>4. CASE Less(Lower) # onA
      <3>1. Less(Lower) = onC
        BY <1>3, <1>4, <2>1, <2>4
      <3> QED
        BY <1>5, <1>11, <2>2, <2>4, <3>1 DEF Resettled
    <2> QED
      BY <2>3, <2>4
  <1>22. Onward \in NodeOrNil /\ Onward \notin {grandParent, Upper, Lower}
    <2>1. Onward \in {BeforeLeft[Lower], BeforeRight[Lower]}
      BY <1>5 DEF Kid
    <2>2. Onward \in NodeOrNil
      BY <1>3, <2>1 DEF Tree
    <2> QED
      BY <1>3, <2>1, <2>2, Kinship
  <1>23. BeforeSide(greatGrandParent)' = grandParent
    <2>1. BeforeSide(greatGrandParent)'
            = Kid(left', right', Less(greatGrandParent), greatGrandParent)
      BY <1>1, <1>7 DEF BeforeSide, Less
    <2>2. greatGrandParent \in Node \cup {head}
      BY <1>3, <1>4
    <2> QED
      BY <1>4, <1>13, <1>14, <2>1, <2>2 DEF BeforeSide, Kid
  <1>24. Kid(left', right', ~onA, grandParent) \notin BeforeRed
    BY <1>4, <1>11 DEF Resettled
  <1>25. ~linked => /\ OnPath(s2, grandParent)'
                    /\ BlackKids(left', right', BeforeRed, Onward)
    <2> SUFFICES ASSUME ~linked
                 PROVE  OnPath(s2, grandParent)' /\ BlackKids(left', right', BeforeRed, Onward)
      OBVIOUS
    <2>1. s2[grandParent] = s[grandParent]
      BY <1>3, <1>10, <1>12 DEF NodeOrNil
    <2>2. Way(s2, Members, key, grandParent)
      BY <1>4, <2>1 DEF OnPath, Way
    <2>3. Onward \in Node
      BY <1>4, <1>22 DEF NodeOrNil
    <2>4. BlackKids(left', right', BeforeRed, Onward)
      BY <1>4, <1>14, <1>22, <2>3 DEF BlackKids
    <2> QED
      BY <1>1, <1>7, <2>2, <2>4 DEF OnPath
  <1>26. RotateInv(s2)'
    <2>1. /\ key' \in Node \ published'
          /\ grandParent' \in Members' /\ grandParent' \in red'
          /\ greatGrandParent' \in Members' \cup {head}
          /\ BeforeSide(greatGrandParent)' = grandParent'
          /\ Upper' \in BeforeRed' /\ Lower' \in BeforeRed'
      BY <1>1, <1>4, <1>6, <1>7, <1>17, <1>19, <1>23
    <2>2. Kid(BeforeLeft', BeforeRight', ~Less(grandParent)', grandParent') \notin BeforeRed'
      BY <1>1, <1>6, <1>7, <1>16, <1>24
    <2>3. Parted(BeforeLeft', BeforeRight', BeforeRed', Upper', Lower')
      BY <1>6, <1>7, <1>9, <1>17, <1>19
    <2>4. ~linked' =>
            /\ OnPath(s2, grandParent)' /\ Onward' # nil /\ Onward' \notin BeforeRed'
            /\ BlackKids(BeforeLeft', BeforeRight', BeforeRed', Onward')
      BY <1>1, <1>4, <1>6, <1>7, <1>21, <1>25
    <2> QED
      BY <1>1, <2>1, <2>2, <2>3, <2>4 DEF RotateInv
  <1>27. IdleInv(s2)' /\ SearchInv(s2)'
    BY <1>1 DEF IdleInv, SearchInv
  <1>28. Shape(BeforeLeft, BeforeRight, BeforeRed, s2, h, Members)'
    BY <1>6, <1>7, <1>10
  <1>29. /\ left' \in [Node \cup Sentinels -> NodeOrNil]
         /\ right' \in [Node \cup Sentinels -> NodeOrNil]
         /\ linked' \in BOOLEAN /\ published' \subseteq Node
    BY <1>1, <1>8 DEF Turned, WriterInv
  <1>30. WriterInv(s2, h)'
    BY <1>1, <1>26, <1>27, <1>28, <1>29 DEF WriterInv
  <1> QED
    BY <1>30

\* The last rotation: the insertion ends, or the search goes on above its way.
LEMMA RotateStep ==
    ASSUME NEW s, NEW h, WriterInv(s, h), ReplaceChild, ~twice
    PROVE  \E s2, h2 : WriterInv(s2, h2)'
  <1> DEFINE onA == Less(greatGrandParent)
             onC == Less(grandParent)
             inner == Kid(BeforeLeft, BeforeRight, ~onC, Upper)
             other == Kid(BeforeLeft, BeforeRight, ~onC, grandParent)
             reds == (BeforeRed \cup {grandParent}) \ {Upper}
  <1>1. pc = "replace" /\ grandChild = Upper
    <2>1. pc = "replace"
      BY DEF ReplaceChild
    <2> QED
      BY <2>1, RotateFacts DEF Rotating
  <1>2. Rotating
    BY <1>1 DEF Rotating
  <1>3. /\ Shape(BeforeLeft, BeforeRight, BeforeRed, s, h, Members)
        /\ Tree(BeforeLeft, BeforeRight, s) /\ Has(BeforeLeft, BeforeRight, s, Members)
        /\ BeforeRed \subseteq Members /\ Members \subseteq Node
        /\ around = greatGrandParent /\ Mid = grandParent /\ Tip = Upper
        /\ grandParent \in Node /\ Upper \in Node /\ Lower \in Node
        /\ grandParent = Kid(BeforeLeft, BeforeRight, onA, greatGrandParent)
        /\ Upper = Kid(BeforeLeft, BeforeRight, onC, grandParent)
        /\ (greatGrandParent = head => ~onA) /\ onA \in BOOLEAN /\ onC \in BOOLEAN
    <2>1. Less(Mid) = onC /\ Less(around) = onA
      BY <1>2, RotateFacts
    <2> QED
      BY <1>2, <2>1, RotateFacts, LessFacts
  <1>4. /\ key \in Node \ published /\ grandParent \in Members /\ grandParent \in red
        /\ greatGrandParent \in Members \cup {head}
        /\ Upper \in BeforeRed /\ Lower \in BeforeRed
        /\ Kid(BeforeLeft, BeforeRight, ~onC, grandParent) \notin BeforeRed
        /\ Parted(BeforeLeft, BeforeRight, BeforeRed, Upper, Lower)
        /\ ~linked => /\ OnPath(s, grandParent) /\ Onward # nil /\ Onward \notin BeforeRed
                      /\ BlackKids(BeforeLeft, BeforeRight, BeforeRed, Onward)
    BY <1>2 DEF WriterInv, RotateInv
  <1>5. /\ Lower = Kid(BeforeLeft, BeforeRight, onC, Upper)
        /\ Onward = IF Less(Upper) = onC THEN BeforeSide(Lower)
                    ELSE Kid(BeforeLeft, BeforeRight, Less(Upper), Upper)
    BY DEF Lower, Onward, BeforeSide
  <1>6. BeforeRed = red \ {grandParent} /\ grandParent \notin BeforeRed
        /\ reds = red \ {Upper}
    <2>1. BeforeRed = red \ {grandParent}
      BY <1>2 DEF BeforeRed
    <2> QED
      BY <1>4, <2>1
  <1>7. Turned(BeforeLeft, BeforeRight, left', right', greatGrandParent, onA, grandParent, onC, Upper)
    BY <1>3, ReplaceTurns
  <1> HIDE DEF onA, onC, reds
  <1>8. /\ \E s2, h2 : /\ Shape(left', right', reds, s2, h2, Members)
                       /\ s2[Upper] = s[grandParent]
        /\ Parted(left', right', reds, nil, nil)
    <2>1. Raised(left', right', reds, s, Members, grandParent, Upper)
      BY <1>3, <1>4, <1>5, <1>6, <1>7, RotateShape DEF reds
    <2> QED
      BY <2>1 DEF Raised
  <1>9. PICK s2, h2 : Shape(left', right', reds, s2, h2, Members) /\ s2[Upper] = s[grandParent]
    BY <1>8
  <1>10. /\ left' \in [Node \cup Sentinels -> NodeOrNil]
         /\ right' \in [Node \cup Sentinels -> NodeOrNil]
    BY <1>7 DEF Turned
  <1>11. linked \in BOOLEAN /\ twice \in BOOLEAN /\ published \subseteq Node
    BY DEF WriterInv
  <1>12. CASE linked
    <2>1. /\ pc' = "idle" /\ red' = reds \ {right'[head]} /\ published' = published \cup {key}
          /\ twice' = FALSE /\ linked' = FALSE
      <3>1. /\ pc' = "idle" /\ red' = red \ {Upper, right'[head]}
            /\ published' = published \cup {key} /\ twice' = FALSE /\ linked' = FALSE
        BY <1>1, <1>12 DEF ReplaceChild, Return
      <3> QED
        BY <1>6, <3>1
    <2>2. published' = Members /\ Members' = Members
      BY <1>12, <2>1 DEF Members
    <2>3. /\ \E h3 : Shape(left', right', red', s2, h3, Members)
          /\ Parted(left', right', red', nil, nil)
      BY <1>8, <1>9, <2>1, BlackenShape
    <2>4. PICK h3 : Shape(left', right', red', s2, h3, Members)
      BY <2>3
    <2>5. /\ BeforeLeft' = left' /\ BeforeRight' = right' /\ BeforeRed' = red'
      BY <2>1 DEF BeforeLeft, BeforeRight, BeforeRed, Rotating
    <2>6. Shape(BeforeLeft, BeforeRight, BeforeRed, s2, h3, Members)'
      BY <2>2, <2>4, <2>5
    <2>7. IdleInv(s2)' /\ SearchInv(s2)' /\ RotateInv(s2)'
      BY <2>1, <2>3 DEF IdleInv, SearchInv, RotateInv, Rotating, Root
    <2>8. WriterInv(s2, h3)'
      BY <1>3, <1>10, <2>1, <2>2, <2>6, <2>7 DEF WriterInv
    <2> QED
      BY <2>8
  <1>13. CASE ~linked
    <2>1. /\ pc' = "search" /\ red' = reds /\ temp' = Upper /\ key' = key
          /\ linked' = linked /\ published' = published /\ twice' = twice
      <3>1. /\ pc' = "search" /\ red' = red \ {Upper} /\ temp' = Upper /\ key' = key
            /\ linked' = linked /\ published' = published /\ twice' = twice
        BY <1>1, <1>13 DEF ReplaceChild, rotation
      <3> QED
        BY <1>6, <3>1
    <2>2. /\ BeforeLeft' = left' /\ BeforeRight' = right' /\ BeforeRed' = reds
          /\ Members' = Members
      BY <2>1 DEF BeforeLeft, BeforeRight, BeforeRed, Rotating, Members
    <2>3. Resettled(BeforeLeft, BeforeRight, left', right', greatGrandParent, onA,
                    grandParent, onC, Upper, other, inner, Lower)
      BY <1>3, <1>4, <1>5, <1>7, TurnedKids
    <2>4. \A n \in Node \cup {head} : n \notin {greatGrandParent, grandParent, Upper} =>
              left'[n] = BeforeLeft[n] /\ right'[n] = BeforeRight[n]
      BY <2>3 DEF Resettled
    <2>5. Lower \notin {greatGrandParent, grandParent, Upper} /\ grandParent # Upper
      <3>1. Lower \notin {greatGrandParent, grandParent, Upper}
        BY <2>3 DEF Resettled
      <3> QED
        BY <1>4, <1>6, <3>1
    <2>6. Less(Upper) \in BOOLEAN
      BY LessFacts
    <2>7. Onward \in Node /\ Onward \notin {greatGrandParent, grandParent, Upper}
      <3>1. CASE Less(Upper) = onC
        <4>1. Onward \in {BeforeLeft[Lower], BeforeRight[Lower]}
          BY <1>5, <3>1 DEF BeforeSide, Kid
        <4>2. Onward \in Node
          BY <1>3, <1>4, <1>13, <4>1 DEF Tree, NodeOrNil
        <4>3. Lower \in {BeforeLeft[Upper], BeforeRight[Upper]}
          BY <1>5 DEF Kid
        <4> QED
          BY <1>3, <1>4, <4>1, <4>2, <4>3, KinOfKin
      <3>2. CASE Less(Upper) # onC
        <4>1. Onward \in {BeforeLeft[Upper], BeforeRight[Upper]}
          BY <1>5, <3>2 DEF Kid
        <4>2. Onward \in Node
          BY <1>3, <1>4, <1>13, <4>1 DEF Tree, NodeOrNil
        <4> QED
          BY <1>3, <1>4, <4>1, <4>2, Kinship
      <3> QED
        BY <3>1, <3>2
    <2>8. Onward \notin reds
      BY <1>4, <1>13, <2>7 DEF reds
    <2>9. BlackKids(left', right', reds, Onward)
      <3>1. left'[Onward] = BeforeLeft[Onward] /\ right'[Onward] = BeforeRight[Onward]
        BY <2>4, <2>7
      <3>2. grandParent \notin {BeforeLeft[Onward], BeforeRight[Onward]}
        BY <1>3, <1>4, <2>7, Kinship
      <3> QED
        BY <1>4, <1>13, <3>1, <3>2 DEF BlackKids, reds
    <2>10. OnPath(s2, temp)'
      <3>1. Way(s2, Members, key, Upper)
        BY <1>3, <1>4, <1>9, <1>13 DEF OnPath, Way
      <3> QED
        BY <2>1, <2>2, <3>1 DEF OnPath
    <2>11. ASSUME NEW x \in reds PROVE BlackKids(left', right', reds, x)
      <3>1. nil \notin reds
        BY <1>3, NilIsNoNode DEF reds
      <3> QED
        BY <1>8, <3>1 DEF Parted, BlackKids
    <2>12. PICK x : /\ x = Side(temp)' /\ x \in reds
                    /\ x # nil /\ Side(Side(temp))' = Onward
      <3>1. Side(temp)' = Kid(left', right', Less(Upper), Upper)
        BY <2>1 DEF Side, Less, Kid
      <3>2. CASE Less(Upper) = onC
        <4>1. Side(temp)' = Lower
          BY <2>3, <3>1, <3>2 DEF Resettled
        <4>2. Side(Side(temp))' = Kid(left', right', Less(Lower), Lower)
          BY <2>1, <4>1 DEF Side, Less, Kid
        <4>3. left'[Lower] = BeforeLeft[Lower] /\ right'[Lower] = BeforeRight[Lower]
          BY <1>3, <2>4, <2>5
        <4>4. Side(Side(temp))' = Onward
          BY <1>5, <3>2, <4>2, <4>3 DEF BeforeSide, Kid
        <4>5. Lower \in reds /\ Lower # nil
          BY <1>3, <1>4, <2>5, NilIsNoNode DEF reds
        <4> QED
          BY <4>1, <4>4, <4>5
      <3>3. CASE Less(Upper) # onC
        <4>1. Less(Upper) = ~onC
          BY <1>3, <2>6, <3>3
        <4>2. Side(temp)' = grandParent
          BY <2>3, <3>1, <4>1 DEF Resettled
        <4>3. Side(Side(temp))' = Kid(left', right', onC, grandParent)
          BY <2>1, <4>2 DEF Side, Less, Kid, onC
        <4>4. Side(Side(temp))' = Onward
          BY <1>5, <2>3, <3>3, <4>1, <4>3 DEF Resettled
        <4>5. grandParent \in reds /\ grandParent # nil
          BY <1>3, <2>5, NilIsNoNode DEF reds
        <4> QED
          BY <4>2, <4>4, <4>5
      <3> QED
        BY <3>2, <3>3
    <2>13. Calm(Side(temp))'
      <3>1. /\ BlackKids(left', right', reds, x)
        BY <2>11, <2>12
      <3> QED
        BY <1>4, <1>13, <2>1, <2>9, <2>12, <3>1 DEF Calm
    <2>14. AfterRotation(s2)'
      <3>1. temp' \notin red'
        BY <2>1 DEF reds
      <3> QED
        BY <2>1, <2>10, <2>12, <2>13, <3>1 DEF AfterRotation
    <2>15. SearchInv(s2)' /\ IdleInv(s2)' /\ RotateInv(s2)'
      BY <1>4, <1>8, <1>13, <2>1, <2>14 DEF SearchInv, IdleInv, RotateInv, Rotating
    <2>16. Shape(BeforeLeft, BeforeRight, BeforeRed, s2, h2, Members)'
      BY <1>9, <2>2
    <2>17. WriterInv(s2, h2)'
      BY <1>10, <1>11, <2>1, <2>15, <2>16 DEF WriterInv
    <2> QED
      BY <2>17
  <1> QED
    BY <1>11, <1>12, <1>13

-----------------------------------------------------------------------------
(***************************************************************************)
(* The reader.                                                             *)
(***************************************************************************)
LEMMA SameWriter ==
    ASSUME NEW s, NEW h, WriterInv(s, h), UNCHANGED writerVars
    PROVE  WriterInv(s, h)'
  <1>1. /\ left' = left /\ right' = right /\ red' = red /\ pc' = pc /\ key' = key
        /\ temp' = temp /\ parent' = parent /\ grandParent' = grandParent
        /\ greatGrandParent' = greatGrandParent /\ around' = around /\ child' = child
        /\ grandChild' = grandChild /\ twice' = twice /\ linked' = linked
        /\ published' = published
    BY DEF writerVars, links, path, rotation
  <1>2. /\ BeforeLeft' = BeforeLeft /\ BeforeRight' = BeforeRight /\ BeforeRed' = BeforeRed
        /\ Members' = Members
    BY <1>1 DEF BeforeLeft, BeforeRight, BeforeRed, Members, Rotating, Less
  <1>3. Upper' = Upper /\ Lower' = Lower /\ Onward' = Onward
    BY <1>1, <1>2 DEF Upper, Lower, Onward, BeforeSide, Less
  <1>4. IdleInv(s)'
    BY <1>1 DEF WriterInv, IdleInv, Root
  <1>5. SearchInv(s)'
    <2>1. SearchInv(s)
      BY DEF WriterInv
    <2>2. /\ AtHead' <=> AtHead
          /\ AtNil(s)' <=> AtNil(s)
          /\ AtNode(s)' <=> AtNode(s)
          /\ AfterRotation(s)' <=> AfterRotation(s)
      BY <1>1, <1>2 DEF AtHead, AtNil, AtNode, AfterRotation, Calm, Side, Less, OnPath, Root
    <2> QED
      BY <1>1, <2>1, <2>2 DEF SearchInv
  <1>6. RotateInv(s)'
    <2>1. RotateInv(s)
      BY DEF WriterInv
    <2> QED
      BY <1>1, <1>2, <1>3, <2>1 DEF RotateInv, Rotating, BeforeSide, Less, OnPath
  <1> QED
    BY <1>1, <1>2, <1>4, <1>5, <1>6 DEF WriterInv

\* The tree at rest.
LEMMA IdleFacts ==
    ASSUME NEW s, NEW h, WriterInv(s, h), pc = "idle"
    PROVE  /\ Shape(left, right, red, s, h, published)
           /\ Tree(left, right, s) /\ Has(left, right, s, published)
           /\ published \subseteq Node /\ s[Root] = published /\ Root \in NodeOrNil
           /\ Root \notin red /\ Parted(left, right, red, nil, nil)
  <1>1. ~linked /\ Root \notin red /\ Parted(left, right, red, nil, nil)
    BY DEF WriterInv, IdleInv
  <1>2. /\ BeforeLeft = left /\ BeforeRight = right /\ BeforeRed = red /\ Members = published
    BY <1>1 DEF BeforeLeft, BeforeRight, BeforeRed, Members, Rotating
  <1>3. Shape(left, right, red, s, h, published) /\ published \subseteq Node
    BY <1>2 DEF WriterInv
  <1> QED
    BY <1>1, <1>3 DEF Shape, Has, Root, Tree, Sentinels

\* A query begins at the root, with everything below it.
LEMMA QueryStep ==
    ASSUME NEW s, NEW h, WriterInv(s, h), NEW q \in Counter, get_method(q)
    PROVE  ReaderInv(s)'
  <1>1. /\ Locked => pc = "idle"
        /\ reader' = q /\ node' = Root /\ pc' = pc /\ published' = published
    BY DEF get_method, writerVars
  <1> SUFFICES ASSUME Locked PROVE ReaderInv(s)'
    BY DEF ReaderInv
  <1>2. s[Root] = published /\ Root \in published \cup {nil}
    <2>1. Tree(left, right, s) /\ s[Root] = published /\ Root \in NodeOrNil
      BY <1>1, IdleFacts
    <2> QED
      BY <2>1 DEF Tree, NodeOrNil
  <1> QED
    BY <1>1, <1>2 DEF ReaderInv

\* A step down leaves nothing behind that holds the program counter.
LEMMA WalkStep ==
    ASSUME NEW s, NEW h, WriterInv(s, h), ReaderInv(s), Walk
    PROVE  ReaderInv(s)'
  <1>1. /\ reader # -1 /\ pc' = pc /\ published' = published
    BY DEF Walk, writerVars
  <1> SUFFICES ASSUME Locked, reader' # -1 PROVE ReaderInv(s)'
    BY DEF ReaderInv
  <1>2. /\ pc = "idle" /\ reader \in Nat /\ reader \in Counter /\ node \in published \cup {nil}
        /\ \A n \in published : n <= reader /\ reader < n + Size => n \in s[node]
    BY <1>1, NodeAssumption DEF ReaderInv
  <1>3. Tree(left, right, s) /\ Has(left, right, s, published) /\ published \subseteq Node
    BY <1>2, IdleFacts
  <1>4. /\ node # nil /\ reader' = reader
        /\ \/ reader < node /\ node' = left[node]
           \/ reader >= node + Size /\ node' = right[node]
    BY DEF Walk, Found
  <1>5. /\ node \in Node /\ node \in Nat /\ Size \in Nat \ {0}
        /\ node' \in published \cup {nil}
    <2>1. node \in published /\ node' \in {left[node], right[node]}
      BY <1>2, <1>4
    <2>2. node' # nil => node' \in published
      BY <1>3, <2>1, KidIsMember
    <2> QED
      BY <1>3, <2>1, <2>2, NodeAssumption
  <1>6. ASSUME NEW n \in published, n <= reader, reader < n + Size
        PROVE  n \in s[node']
    <2>1. n \in Node /\ n \in Nat /\ n \in s[node]
      BY <1>2, <1>3, <1>6, NodeAssumption
    <2>2. n = node \/ n \in s[left[node]] \/ n \in s[right[node]]
      BY <1>3, <1>5, <2>1 DEF Tree
    <2>3. CASE reader < node
      <3>1. n # node /\ ~(node < n)
        BY <1>2, <1>5, <1>6, <2>1, <2>3
      <3>2. n \notin s[right[node]]
        BY <1>3, <1>5, <3>1 DEF Tree
      <3>3. node' = left[node]
        BY <1>2, <1>4, <1>5, <2>3
      <3> QED
        BY <2>2, <3>1, <3>2, <3>3
    <2>4. CASE reader >= node + Size
      <3>1. n # node
        BY <1>2, <1>5, <1>6, <2>1, <2>4
      <3>2. n \notin s[left[node]]
        <4>1. SUFFICES ASSUME n < node PROVE FALSE
          BY <1>3, <1>5 DEF Tree
        <4>2. n + Size <= node
          BY <1>5, <2>1, <4>1, NodeAssumption
        <4> QED
          BY <1>2, <1>5, <1>6, <2>1, <2>4, <4>2
      <3>3. node' = right[node]
        BY <1>2, <1>4, <1>5, <2>4
      <3> QED
        BY <2>2, <3>1, <3>2, <3>3
    <2> QED
      BY <1>4, <2>3, <2>4
  <1> QED
    BY <1>1, <1>2, <1>4, <1>5, <1>6 DEF ReaderInv

-----------------------------------------------------------------------------
(***************************************************************************)
(* Every step keeps the invariant.                                         *)
(***************************************************************************)
LEMMA WritingKeeps == TreeInv /\ Writing => TreeInv'
  <1> SUFFICES ASSUME TreeInv, Writing PROVE TreeInv'
    OBVIOUS
  <1>1. PICK s, h : WriterInv(s, h) /\ ReaderInv(s)
    BY DEF TreeInv
  <1>2. pc # "idle" /\ reader' = reader
    BY DEF Writing, Descend, Insert, GiveSubTree, TakeChild, ReplaceChild, readerVars
  <1>3. \A s2 : ReaderInv(s2)'
    BY <1>1, <1>2 DEF ReaderInv
  <1>4. CASE Descend
    BY <1>1, <1>3, <1>4, DescendTree DEF TreeInv
  <1>5. CASE Insert
    BY <1>1, <1>3, <1>5, InsertStep DEF TreeInv
  <1>6. CASE GiveSubTree
    BY <1>1, <1>3, <1>6, GiveStep DEF TreeInv
  <1>7. CASE TakeChild
    BY <1>1, <1>3, <1>7, TakeStep DEF TreeInv
  <1>8. CASE ReplaceChild
    BY <1>1, <1>3, <1>8, BendStep, RotateStep DEF TreeInv
  <1> QED
    BY <1>4, <1>5, <1>6, <1>7, <1>8 DEF Writing

\* A step of anyone keeps the invariant.
LEMMA TreeKept == TreeInv /\ [Next]_vars => TreeInv'
  <1> SUFFICES ASSUME TreeInv, [Next]_vars PROVE TreeInv'
    OBVIOUS
  <1>1. PICK s, h : WriterInv(s, h) /\ ReaderInv(s)
    BY DEF TreeInv
  <1>2. ASSUME NEW n \in Node, AddToLookupTree(n) PROVE TreeInv'
    <2>1. Locked => reader' = -1
      BY <1>2 DEF AddToLookupTree, readerVars
    <2>2. ReaderInv(s)'
      BY <2>1 DEF ReaderInv
    <2> QED
      BY <1>1, <1>2, <2>2, AddTree DEF TreeInv
  <1>3. CASE Writing
    BY <1>3, WritingKeeps
  <1>4. ASSUME NEW q \in Counter, get_method(q) PROVE TreeInv'
    <2>1. UNCHANGED writerVars
      BY <1>4 DEF get_method
    <2> QED
      BY <1>1, <1>4, <2>1, SameWriter, QueryStep DEF TreeInv
  <1>5. CASE Walk
    <2>1. UNCHANGED writerVars
      BY <1>5 DEF Walk
    <2> QED
      BY <1>1, <1>5, <2>1, SameWriter, WalkStep DEF TreeInv
  <1>6. CASE UNCHANGED vars
    <2>1. UNCHANGED writerVars /\ UNCHANGED readerVars
      BY <1>6 DEF vars
    <2>2. ReaderInv(s)'
      BY <1>1, <2>1 DEF ReaderInv, writerVars, readerVars
    <2> QED
      BY <1>1, <2>1, <2>2, SameWriter DEF TreeInv
  <1> QED
    BY <1>2, <1>3, <1>4, <1>5, <1>6 DEF Next

\* The tree that a rotation in progress started from is always a search tree with
\* the nodes that were linked, the same number of black nodes on every way, and
\* at most the two red nodes in a row that the rotation is about.
THEOREM TreeAlways == Spec => []TreeInv
  <1>1. Init => TreeInv
    BY InitTree
  <1>2. TreeInv /\ [Next]_vars => TreeInv'
    BY TreeKept
  <1> QED
    BY <1>1, <1>2, PTL DEF Spec

-----------------------------------------------------------------------------
(***************************************************************************)
(* What the functions of LookupTree compute for a tree.                    *)
(***************************************************************************)
\* A non-empty set of numbers has a least element.
LEMMA LeastNatural ==
    ASSUME NEW T, T \subseteq Nat, T # {}
    PROVE  \E x \in T : \A y \in T : x <= y
  <1> DEFINE R == {ss \in Nat \X Nat : ss[1] < ss[2]}
  <1>1. IsWellFoundedOn(R, Nat)
    BY NatLessThanWellFounded, Zenon DEF OpToRel
  <1> HIDE DEF R
  <1>2. PICK x \in T : \A y \in T : ~ (<<y, x>> \in R)
    BY <1>1, WFMin
  <1>3. \A y \in T : ~(y < x)
    BY <1>2 DEF R
  <1> QED
    BY <1>3

\* Where no red node has a red child, the way down never comes back to a rank.
Rank(reds, h, n) == 2 * h[n] + (IF n \in reds THEN 1 ELSE 0)

\* A child has the lower rank.
LEMMA RankFalls ==
    ASSUME NEW l, NEW r, NEW s, NEW h, NEW members, NEW reds, Shape(l, r, reds, s, h, members),
           Parted(l, r, reds, nil, nil), NEW n \in Node, NEW c \in {l[n], r[n]}
    PROVE  Rank(reds, h, c) \in Nat /\ Rank(reds, h, n) \in Nat
           /\ Rank(reds, h, c) < Rank(reds, h, n)
  <1>1. /\ c \in NodeOrNil /\ n \in NodeOrNil /\ n # nil
        /\ reds \subseteq members /\ members \subseteq Node
    <2>1. Tree(l, r, s) /\ Has(l, r, s, members) /\ reds \subseteq members
      BY DEF Shape
    <2>2. members \subseteq Node
      BY <2>1, MembersAreNodes
    <2>3. l[n] \in NodeOrNil /\ r[n] \in NodeOrNil
      BY <2>1 DEF Tree
    <2> QED
      BY <2>1, <2>2, <2>3, NilIsNoNode DEF NodeOrNil
  <1>2. /\ h[c] \in Nat /\ h[n] \in Nat
        /\ h[n] = h[c] + (IF n \in reds THEN 0 ELSE 1)
    BY <1>1 DEF Shape, Balanced
  <1>3. n \in reds => c \notin reds
    BY <1>1 DEF Parted
  <1> QED
    BY <1>2, <1>3 DEF Rank

\* So a set of nodes has a member with no child in it.
LEMMA LowestNode ==
    ASSUME NEW l, NEW r, NEW s, NEW h, NEW members, NEW reds, Shape(l, r, reds, s, h, members),
           Parted(l, r, reds, nil, nil), NEW T \in SUBSET NodeOrNil, T # {}
    PROVE  \E n \in T : n # nil => l[n] \notin T /\ r[n] \notin T
  <1> DEFINE ranks == {Rank(reds, h, n) : n \in T}
  <1>1. \A n \in NodeOrNil : Rank(reds, h, n) \in Nat
    <2>1. h \in [NodeOrNil -> Nat]
      BY DEF Shape, Balanced
    <2>2. \A n \in NodeOrNil : h[n] \in Nat
      BY <2>1
    <2> QED
      BY <2>2 DEF Rank
  <1>2. PICK n \in T : \A m \in T : Rank(reds, h, n) <= Rank(reds, h, m)
    <2>1. ranks \subseteq Nat /\ ranks # {}
      BY <1>1
    <2>2. PICK x \in ranks : \A y \in ranks : x <= y
      BY <2>1, LeastNatural
    <2> QED
      BY <2>2
  <1>3. ASSUME n # nil, NEW c \in {l[n], r[n]}, c \in T PROVE FALSE
    <2>1. n \in Node
      BY <1>3 DEF NodeOrNil
    <2>2. /\ Rank(reds, h, c) \in Nat /\ Rank(reds, h, n) \in Nat
          /\ Rank(reds, h, c) < Rank(reds, h, n)
      BY <1>3, <2>1, RankFalls
    <2> QED
      BY <1>2, <1>3, <2>2
  <1> QED
    BY <1>3

\* Below is the sub-trees,
LEMMA BelowIsSubTree ==
    ASSUME NEW s, NEW h, WriterInv(s, h), pc = "idle"
    PROVE  \A n \in NodeOrNil : Below[n] = s[n]
  <1>1. /\ Shape(left, right, red, s, h, published) /\ Parted(left, right, red, nil, nil)
        /\ Tree(left, right, s)
    BY IdleFacts
  <1> DEFINE Step(f) == [n \in Node \cup {nil} |->
                            IF n = nil THEN {} ELSE {n} \cup f[left[n]] \cup f[right[n]]]
  <1>2. s = Step(s)
    <2>1. \A n \in Node \cup {nil} :
             s[n] = IF n = nil THEN {} ELSE {n} \cup s[left[n]] \cup s[right[n]]
      BY <1>1, NilIsNoNode DEF Tree
    <2>2. s = [n \in Node \cup {nil} |-> s[n]]
      BY <1>1 DEF Tree, NodeOrNil
    <2> QED
      BY ONLY <2>1, <2>2
  <1>3. Below = Step(Below)
    <2>1. Below = CHOOSE f : f = Step(f)
      BY DEF Below
    <2> QED
      BY <1>2, <2>1
  <1>4. \A n \in NodeOrNil :
           Below[n] = IF n = nil THEN {} ELSE {n} \cup Below[left[n]] \cup Below[right[n]]
    BY <1>3 DEF NodeOrNil
  <1> DEFINE T == {n \in NodeOrNil : Below[n] # s[n]}
  <1>5. SUFFICES ASSUME T # {} PROVE FALSE
    OBVIOUS
  <1>6. PICK n \in T : n # nil => left[n] \notin T /\ right[n] \notin T
    BY <1>1, <1>5, LowestNode
  <1>7. n # nil
    BY <1>1, <1>4, <1>6 DEF Tree
  <1>8. n \in Node /\ left[n] \in NodeOrNil /\ right[n] \in NodeOrNil
    BY <1>1, <1>6, <1>7 DEF Tree, NodeOrNil
  <1>9. Below[left[n]] = s[left[n]] /\ Below[right[n]] = s[right[n]]
    BY <1>6, <1>7, <1>8
  <1>10. s[n] = {n} \cup s[left[n]] \cup s[right[n]]
    BY <1>1, <1>8 DEF Tree
  <1>11. Below[n] = {n} \cup Below[left[n]] \cup Below[right[n]]
    BY <1>4, <1>6, <1>7
  <1> QED
    BY <1>6, <1>9, <1>10, <1>11

\* and BlackHeight the heights that the tree has.
LEMMA BlackHeightIsHeight ==
    ASSUME NEW s, NEW h, WriterInv(s, h), pc = "idle"
    PROVE  \A n \in NodeOrNil : BlackHeight[n] = h[n]
  <1>1. /\ Shape(left, right, red, s, h, published) /\ Parted(left, right, red, nil, nil)
        /\ Tree(left, right, s) /\ Balanced(left, right, red, h)
    BY IdleFacts DEF Shape
  <1> DEFINE Height(f, n) == IF n = nil THEN 0
                             ELSE IF f[left[n]] # f[right[n]] \/ f[left[n]] = -1 THEN -1
                             ELSE IF n \in red THEN f[left[n]] ELSE f[left[n]] + 1
             Step(f) == [n \in Node \cup {nil} |->
                IF n = nil THEN 0
                ELSE LET lesser == f[left[n]]
                         greater == f[right[n]]
                     IN  IF lesser # greater \/ lesser = -1 THEN -1
                         ELSE IF n \in red THEN lesser ELSE lesser + 1]
  <1>2. h = Step(h)
    <2>1. ASSUME NEW n \in Node \cup {nil} PROVE h[n] = Height(h, n)
      <3>1. CASE n = nil
        BY <1>1, <3>1 DEF Balanced
      <3>2. CASE n # nil
        <4>1. /\ n \in Node /\ left[n] \in NodeOrNil /\ h[left[n]] \in Nat
              /\ h[left[n]] = h[right[n]]
              /\ h[n] = h[left[n]] + (IF n \in red THEN 0 ELSE 1)
          BY <1>1, <3>2 DEF Balanced, Tree
        <4> QED
          BY <3>2, <4>1
      <3> QED
        BY <3>1, <3>2
    <2>2. h = [n \in Node \cup {nil} |-> h[n]]
      BY <1>1 DEF Balanced, NodeOrNil
    <2> QED
      BY ONLY <2>1, <2>2
  <1>3. BlackHeight = Step(BlackHeight)
    <2>1. BlackHeight = CHOOSE f : f = Step(f)
      BY DEF BlackHeight
    <2> QED
      BY <1>2, <2>1
  <1>4. \A n \in NodeOrNil : BlackHeight[n] = Height(BlackHeight, n) /\ h[n] = Height(h, n)
    BY <1>2, <1>3 DEF NodeOrNil
  <1> DEFINE T == {n \in NodeOrNil : BlackHeight[n] # h[n]}
  <1>5. SUFFICES ASSUME T # {} PROVE FALSE
    OBVIOUS
  <1>6. PICK n \in T : n # nil => left[n] \notin T /\ right[n] \notin T
    BY <1>1, <1>5, LowestNode
  <1>7. n # nil
    BY <1>4, <1>6
  <1>8. n \in Node /\ left[n] \in NodeOrNil /\ right[n] \in NodeOrNil
    BY <1>1, <1>6, <1>7 DEF Tree, NodeOrNil
  <1>9. BlackHeight[left[n]] = h[left[n]] /\ BlackHeight[right[n]] = h[right[n]]
    BY <1>6, <1>7, <1>8
  <1> QED
    BY <1>4, <1>6, <1>7, <1>9

-----------------------------------------------------------------------------
(***************************************************************************)
(* What the tree promises.                                                 *)
(***************************************************************************)
\* No insertion loses, duplicates or misplaces a published region: at rest the
\* tree has exactly the published regions below its root, in order of address.
THEOREM HoldsPublishedAlways == Spec => []HoldsPublished
  <1>1. TreeInv => HoldsPublished
    <2> SUFFICES ASSUME TreeInv, pc = "idle"
                 PROVE  /\ Below[Root] = published
                        /\ \A n \in published : /\ \A m \in Below[left[n]] : m < n
                                               /\ \A m \in Below[right[n]] : n < m
      BY DEF HoldsPublished
    <2>1. PICK s, h : WriterInv(s, h)
      BY DEF TreeInv
    <2>2. /\ Tree(left, right, s) /\ published \subseteq Node
          /\ s[Root] = published /\ Root \in NodeOrNil
      BY <2>1, IdleFacts
    <2>3. \A n \in NodeOrNil : Below[n] = s[n]
      BY <2>1, BelowIsSubTree
    <2>4. \A n \in published : left[n] \in NodeOrNil /\ right[n] \in NodeOrNil
      BY <2>2 DEF Tree
    <2>5. \A n \in published : /\ \A m \in s[left[n]] : m < n
                               /\ \A m \in s[right[n]] : n < m
      BY <2>2 DEF Tree
    <2> QED
      BY <2>2, <2>3, <2>4, <2>5
  <1> QED
    BY <1>1, TreeAlways, PTL

\* At rest the root is black, no red node has a red child, and all ways to a leaf
\* have the same number of black nodes: Split() repairs what an insertion unbalances.
THEOREM RedBlackAlways == Spec => []RedBlack
  <1>1. TreeInv => RedBlack
    <2> SUFFICES ASSUME TreeInv, pc = "idle"
                 PROVE  /\ Root \notin red
                        /\ \A n \in red : left[n] \notin red /\ right[n] \notin red
                        /\ BlackHeight[Root] # -1
      BY DEF RedBlack
    <2>1. PICK s, h : WriterInv(s, h)
      BY DEF TreeInv
    <2>2. /\ Shape(left, right, red, s, h, published) /\ Root \notin red /\ Root \in NodeOrNil
          /\ Parted(left, right, red, nil, nil) /\ published \subseteq Node
      BY <2>1, IdleFacts
    <2>3. nil \notin red
      BY <2>2, NilIsNoNode DEF Shape
    <2>4. \A n \in red : left[n] \notin red /\ right[n] \notin red
      BY <2>2, <2>3 DEF Parted
    <2>5. BlackHeight[Root] = h[Root] /\ h[Root] \in Nat
      BY <2>1, <2>2, BlackHeightIsHeight DEF Shape, Balanced
    <2> QED
      BY <2>2, <2>4, <2>5
  <1> QED
    BY <1>1, TreeAlways, PTL

\* An insertion publishes its region, and nothing else does; it answers nobody.
LEMMA WriterAdds ==
    ASSUME TreeInv, Writing \/ \E n \in Node : AddToLookupTree(n)
    PROVE  Index!Next \/ UNCHANGED Index!vars
  <1>1. answer' = answer
    BY DEF Writing, Descend, Insert, GiveSubTree, TakeChild, ReplaceChild, AddToLookupTree,
           readerVars
  <1>2. PICK s, h : WriterInv(s, h)
    BY DEF TreeInv
  <1>3. published' = published \/ (published' = published \cup {key} /\ key \in Node)
    <2>1. CASE Insert
      <3>1. key \in Node
        BY <1>2, <2>1, SearchFacts DEF Insert
      <3> QED
        BY <2>1, <3>1 DEF Insert
    <2>2. CASE ReplaceChild
      <3>1. key \in Node
        BY <1>2, <2>2 DEF ReplaceChild, WriterInv, RotateInv, Rotating
      <3> QED
        BY <2>2, <3>1 DEF ReplaceChild
    <2>3. CASE \/ Descend \/ GiveSubTree \/ TakeChild \/ \E n \in Node : AddToLookupTree(n)
      BY <2>3 DEF Descend, GiveSubTree, TakeChild, AddToLookupTree
    <2> QED
      BY <2>1, <2>2, <2>3 DEF Writing
  <1> QED
    BY <1>1, <1>3 DEF Index!Next, Index!Add, Index!vars

\* Under the lock a lookup answers for the published regions.
LEMMA LockedAnswer ==
    ASSUME TreeInv, Locked, Walk
    PROVE  \/ UNCHANGED <<published, reader, answer>>
           \/ /\ reader \in Counter /\ answer' = <<reader, Index!Answer(reader)>>
              /\ published' = published
              /\ \A n \in published : n <= reader /\ reader < n + Size => answer'[2] = n
  <1>1. published' = published /\ pc' = pc /\ reader # -1
    BY DEF Walk, writerVars
  <1>2. PICK s, h : WriterInv(s, h) /\ ReaderInv(s)
    BY DEF TreeInv
  <1>3. /\ pc = "idle" /\ reader \in Counter /\ node \in published \cup {nil}
        /\ \A n \in published : n <= reader /\ reader < n + Size => n \in s[node]
    BY <1>1, <1>2 DEF ReaderInv
  <1>4. Tree(left, right, s) /\ published \subseteq Node
    BY <1>2, <1>3, IdleFacts
  <1> DEFINE found == {n \in published : n <= reader /\ reader < n + Size}
  <1>5. Index!Answer(reader) = IF found = {} THEN nil ELSE CHOOSE n \in found : TRUE
    BY DEF Index!Answer, Index!Holds
  <1>6. CASE node = nil
    <2>1. answer' = <<reader, nil>>
      BY <1>6 DEF Walk, Found
    <2>2. found = {}
      BY <1>3, <1>4, <1>6 DEF Tree
    <2> QED
      BY <1>1, <1>3, <1>5, <2>1, <2>2
  <1>7. CASE node # nil
    <2>1. /\ node \in published /\ node \in Nat /\ Size \in Nat \ {0} /\ reader \in Nat
      BY <1>3, <1>4, <1>7, NodeAssumption
    <2>2. CASE reader < node \/ reader >= node + Size
      BY <1>1, <1>7, <2>2 DEF Walk
    <2>3. CASE ~(reader < node \/ reader >= node + Size)
      <3>1. answer' = <<reader, node>>
        BY <1>7, <2>3 DEF Walk, Found
      <3>2. node \in found
        BY <2>1, <2>3
      <3>3. ASSUME NEW n \in found PROVE n = node
        <4>1. n \in Node /\ node \in Node /\ n \in Nat
          BY <1>4, <2>1, NodeAssumption
        <4>2. n < node => n + Size <= node
          BY <4>1, NodeAssumption
        <4>3. node < n => node + Size <= n
          BY <4>1, NodeAssumption
        <4> QED
          BY <2>1, <2>3, <4>1, <4>2, <4>3
      <3>4. found = {node}
        BY <3>2, <3>3
      <3> HIDE DEF found
      <3>5. Index!Answer(reader) = node
        BY <1>5, <3>4
      <3>6. \A n \in published : n <= reader /\ reader < n + Size => n = node
        BY <3>4 DEF found
      <3> QED
        BY <1>1, <1>3, <3>1, <3>5, <3>6
    <2> QED
      BY <2>2, <2>3
  <1> QED
    BY <1>6, <1>7

\* With cache_lock held around lookups the tree implements CodeIndex: regions are
\* added one by one, and every lookup ends with the region that holds the program
\* counter, or with nil when none does.
THEOREM LockedImplementsIndex == Locked => (Spec => IndexSpec)
  <1> SUFFICES ASSUME Locked PROVE Spec => IndexSpec
    OBVIOUS
  <1>1. Init => Index!Init
    BY DEF Init, Index!Init
  <1>2. TreeInv /\ [Next]_vars => [Index!Next]_(Index!vars)
    <2> SUFFICES ASSUME TreeInv, [Next]_vars PROVE Index!Next \/ UNCHANGED Index!vars
      OBVIOUS
    <2>1. CASE Writing \/ \E n \in Node : AddToLookupTree(n)
      BY <2>1, WriterAdds
    <2>2. CASE \E q \in Counter : get_method(q)
      BY <2>2 DEF get_method, writerVars, Index!vars
    <2>3. CASE Walk
      BY <2>3, LockedAnswer DEF Index!Next, Index!Query, Index!vars
    <2>4. CASE UNCHANGED vars
      BY <2>4 DEF vars, writerVars, readerVars, Index!vars
    <2> QED
      BY <2>1, <2>2, <2>3, <2>4 DEF Next
  <1> QED
    BY <1>1, <1>2, TreeAlways, PTL DEF Spec, IndexSpec, Index!Spec

\* With the lock a lookup finds every region that is published: no lookup runs
\* while a rotation has a sub-tree detached.
THEOREM LockedFinds == Locked => (Spec => PublishedIsFound)
  <1> SUFFICES ASSUME Locked PROVE Spec => PublishedIsFound
    OBVIOUS
  <1> DEFINE Finds == \A n \in published :
                        (reader \in n..(n + Size - 1) /\ reader' = -1) => answer'[2] = n
  <1>1. TreeInv /\ [Next]_vars => [Finds]_vars
    <2> SUFFICES ASSUME TreeInv, Next, NEW n \in published,
                        reader \in n..(n + Size - 1), reader' = -1
                 PROVE  answer'[2] = n
      OBVIOUS
    <2>1. /\ n \in Nat /\ Size \in Nat /\ reader \in Nat
          /\ n <= reader /\ reader < n + Size
      <3>1. published \subseteq Node
        BY DEF TreeInv, WriterInv
      <3>2. n \in Nat /\ Size \in Nat
        BY <3>1, NodeAssumption
      <3> QED
        BY <3>2
    <2>2. Walk
      <3>1. Writing => reader' = reader
        BY DEF Writing, Descend, Insert, GiveSubTree, TakeChild, ReplaceChild, readerVars
      <3>2. ASSUME NEW m \in Node, AddToLookupTree(m) PROVE reader' = reader
        BY <3>2 DEF AddToLookupTree, readerVars
      <3>3. ASSUME NEW q \in Counter, get_method(q) PROVE reader = -1
        BY <3>3 DEF get_method
      <3> QED
        BY <2>1, <3>1, <3>2, <3>3 DEF Next
    <2> QED
      BY <2>1, <2>2, LockedAnswer
  <1> QED
    BY <1>1, TreeAlways, PTL DEF Spec, PublishedIsFound

\* Types; no split ever colours the head or nil.
THEOREM TreeTypes == Spec => []TypeOK
  <1>1. Init => TypeOK
    BY DEF Init, TypeOK, Sentinels
  <1> DEFINE Links == /\ left \in [Node \cup Sentinels -> NodeOrNil]
                      /\ right \in [Node \cup Sentinels -> NodeOrNil]
                      /\ red \subseteq Node /\ published \subseteq Node
                      /\ pc \in {"idle", "search", "rotate", "take", "replace"}
                      /\ twice \in BOOLEAN /\ linked \in BOOLEAN
  <1>2. TreeInv => Links
    <2> SUFFICES ASSUME TreeInv PROVE red \subseteq Node
      BY DEF TreeInv, WriterInv
    <2>1. PICK s, h : WriterInv(s, h)
      BY DEF TreeInv
    <2>2. CASE Rotating
      <3>1. BeforeRed \subseteq Members /\ Members \subseteq Node /\ grandParent \in Node
        BY <2>1, <2>2, RotateFacts
      <3> QED
        BY <2>2, <3>1 DEF BeforeRed
    <2>3. CASE ~Rotating
      <3>1. /\ Tree(BeforeLeft, BeforeRight, s) /\ Has(BeforeLeft, BeforeRight, s, Members)
            /\ BeforeRed \subseteq Members
        BY <2>1 DEF WriterInv, Shape
      <3>2. Members \subseteq Node
        BY <3>1, MembersAreNodes
      <3> QED
        BY <2>3, <3>1, <3>2 DEF BeforeRed
    <2> QED
      BY <2>2, <2>3
  <1>3. Links' /\ TypeOK /\ [Next]_vars => TypeOK'
    <2> SUFFICES ASSUME Links', TypeOK, [Next]_vars PROVE TypeOK'
      OBVIOUS
    <2> DEFINE Somewhere == Node \cup Sentinels
               Locals == /\ key \in Node \cup {0}
                         /\ temp \in Somewhere /\ parent \in Somewhere
                         /\ grandParent \in Somewhere /\ greatGrandParent \in Somewhere
                         /\ around \in Somewhere /\ child \in Somewhere
                         /\ grandChild \in Somewhere
    <2>2. Locals /\ node \in Node \cup {nil} /\ head \in Somewhere /\ nil \in Somewhere
      BY DEF TypeOK, Sentinels
    <2>3. \A n \in Somewhere : /\ left[n] \in Node \cup {nil} /\ right[n] \in Node \cup {nil}
                                /\ Side(n) \in Somewhere
      <3>1. \A n \in Somewhere : left[n] \in Node \cup {nil} /\ right[n] \in Node \cup {nil}
        BY DEF TypeOK
      <3> QED
        BY <3>1 DEF Side, Sentinels
    <2> HIDE DEF Somewhere
    <2>4. Node \subseteq Somewhere
      BY DEF Somewhere
    <2>5. Locals' /\ node' \in Node \cup {nil}
      <3>1. ASSUME NEW n \in Node, AddToLookupTree(n) PROVE Locals' /\ node' = node
        BY <2>2, <3>1 DEF AddToLookupTree, rotation, readerVars
      <3>2. CASE Descend
        BY <2>2, <2>3, <3>2 DEF Descend, Rotations, readerVars
      <3>3. CASE Insert
        BY <2>2, <3>3 DEF Insert, Rotations, Return, path, readerVars
      <3>4. CASE GiveSubTree
        BY <2>2, <2>3, <3>4 DEF GiveSubTree, path, readerVars
      <3>5. CASE TakeChild
        BY <2>2, <3>5 DEF TakeChild, path, rotation, readerVars
      <3>6. CASE ReplaceChild
        BY <2>2, <3>6 DEF ReplaceChild, Return, rotation, readerVars
      <3>7. ASSUME NEW q \in Counter, get_method(q) PROVE Locals' /\ node' \in Node \cup {nil}
        <4>1. node' \in Node \cup {nil}
          BY <2>2, <2>3, <3>7 DEF get_method, Root
        <4> QED
          BY <2>2, <3>7, <4>1 DEF get_method, writerVars, path, rotation
      <3>8. CASE Walk
        <4>1. node' \in Node \cup {nil}
          BY <2>2, <2>3, <2>4, <3>8 DEF Walk, Found
        <4> QED
          BY <2>2, <3>8, <4>1 DEF Walk, writerVars, path, rotation
      <3>9. CASE UNCHANGED vars
        BY <2>2, <3>9 DEF vars, writerVars, readerVars, path, rotation
      <3> QED
        BY <2>2, <3>1, <3>2, <3>3, <3>4, <3>5, <3>6, <3>7, <3>8, <3>9 DEF Next, Writing
    <2> QED
      BY <2>5 DEF TypeOK, NodeOrNil, Somewhere
  <1> HIDE DEF Links
  <1> QED
    BY <1>1, <1>2, <1>3, TreeAlways, PTL DEF Spec

=============================================================================
