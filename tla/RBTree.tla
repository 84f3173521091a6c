-------------------------------- MODULE RBTree --------------------------------
(***************************************************************************)
(* The red-black tree of agc_rbtree.c that holds the timers: insertion     *)
(* with the timer comparison, deletion, minimum and successor, over nodes  *)
(* linked by left, right and parent.  The code's mirror-image branches are *)
(* one operator with a side as parameter.                                  *)
(***************************************************************************)
EXTENDS Naturals, Sequences, FiniteSets

CONSTANTS
  Node,      \* addresses of agc_rbtree_node_t
  Sentinel,  \* the tree's sentinel, a node without a key
  NULL,
  KEY_SPACE  \* keys are taken modulo this (2^64 in the code)

ASSUME RBTreeAssumption ==
  /\ Sentinel \notin Node /\ NULL \notin Node \cup {Sentinel}
  /\ KEY_SPACE \in Nat \ {0}

VARIABLES
  tree,     \* [root, at]: at maps a node to its key, links and colour
  members   \* ghost: the nodes in the tree

Blank == [key |-> 0, left |-> NULL, right |-> NULL, parent |-> NULL, red |-> FALSE]

TreeInit ==
  /\ tree = [root |-> Sentinel, at |-> [a \in Node \cup {Sentinel} |-> Blank]]
  /\ members = {}

-----------------------------------------------------------------------------
Opposite(side) == IF side = "left" THEN "right" ELSE "left"

Put(t, a, field, v) == [t EXCEPT !.at[a] = [@ EXCEPT ![field] = v]]
Paint(t, a, red) == Put(t, a, "red", red)

\* (agc_rbtree_key_int_t) (k - l) < 0
Before(k, l) == 2 * ((k + KEY_SPACE - l) % KEY_SPACE) >= KEY_SPACE

\* The link that leads to a, from its parent or the root, leads to b.
Relink(t, a, b) ==
  LET p == t.at[a].parent IN
  IF a = t.root THEN [t EXCEPT !.root = b]
  ELSE Put(t, p, IF t.at[p].left = a THEN "left" ELSE "right", b)

\* agc_rbtree_left_rotate (side "left") and agc_rbtree_right_rotate.
Rotate(t, side, a) ==
  LET out == Opposite(side)
      b   == t.at[a][out]
      c   == t.at[b][side]
      t1  == Put(t, a, out, c)
      t2  == IF c = Sentinel THEN t1 ELSE Put(t1, c, "parent", a)
      t3  == Relink(Put(t2, b, "parent", t.at[a].parent), a, b)
  IN Put(Put(t3, b, side, a), a, "parent", b)

\* Variant: agc_rbtree_insert_value, which compares keys as they are.
RECURSIVE PlacePlain(_, _, _)
PlacePlain(t, a, k) ==
  LET side == IF k < t.at[a].key THEN "left" ELSE "right"
  IN IF t.at[a][side] = Sentinel THEN <<a, side>> ELSE PlacePlain(t, t.at[a][side], k)

\* Where key k goes below a: the node and the side.
RECURSIVE Place(_, _, _)
Place(t, a, k) ==
  LET side == IF Before(k, t.at[a].key) THEN "left" ELSE "right"
  IN IF t.at[a][side] = Sentinel THEN <<a, side>> ELSE Place(t, t.at[a][side], k)

\* The loop that restores the colours above a red node a.
RECURSIVE InsertFix(_, _)
InsertFix(t, a) ==
  LET p    == t.at[a].parent
      g    == t.at[p].parent
      side == IF p = t.at[g].left THEN "left" ELSE "right"
      u    == t.at[g][Opposite(side)]
      bent == a = t.at[p][Opposite(side)]
      b    == IF bent THEN p ELSE a
      t1   == IF bent THEN Rotate(t, side, p) ELSE t
      p1   == t1.at[b].parent
      t2   == Paint(Paint(t1, p1, FALSE), g, TRUE)
  IN IF a = t.root \/ ~t.at[p].red THEN Paint(t, t.root, FALSE)
     ELSE IF t.at[u].red
          THEN InsertFix(Paint(Paint(Paint(t, p, FALSE), u, FALSE), g, TRUE), g)
          ELSE InsertFix(Rotate(t2, Opposite(side), g), b)

\* agc_rbtree_insert of node a, whose key is set, with agc_rbtree_insert_timer_value.
Insert(t, a) ==
  LET leaf(p, red) == [t EXCEPT !.at[a] = [key |-> t.at[a].key, left |-> Sentinel,
                                           right |-> Sentinel, parent |-> p, red |-> red]]
  IN IF t.root = Sentinel THEN [leaf(NULL, FALSE) EXCEPT !.root = a]
     ELSE LET pos == Place(t, t.root, t.at[a].key)
          IN InsertFix(Put(leaf(pos[1], TRUE), pos[1], pos[2], a), a)

\* agc_rbtree_min
RECURSIVE Min(_, _)
Min(t, a) == IF t.at[a].left = Sentinel THEN a ELSE Min(t, t.at[a].left)

\* Variant: the sibling is not looked at.
DeleteFixOnce(t, a) == Paint(t, a, FALSE)

\* The loop that makes up for the black node missing above a.
RECURSIVE DeleteFix(_, _)
DeleteFix(t, a) ==
  LET p    == t.at[a].parent
      side == IF a = t.at[p].left THEN "left" ELSE "right"
      out  == Opposite(side)
      w    == t.at[p][out]
      t1   == IF t.at[w].red
              THEN Rotate(Paint(Paint(t, w, FALSE), p, TRUE), side, p) ELSE t
      w1   == t1.at[p][out]
      near == t1.at[w1][side]
      far  == t1.at[w1][out]
      t2   == IF t1.at[far].red THEN t1
              ELSE Rotate(Paint(Paint(t1, near, FALSE), w1, TRUE), out, w1)
      w2   == t2.at[p][out]
      t3   == Paint(Paint(Paint(t2, w2, t2.at[p].red), p, FALSE), t2.at[w2][out], FALSE)
      t4   == Rotate(t3, side, p)
  IN IF a = t.root \/ t.at[a].red THEN Paint(t, a, FALSE)
     ELSE IF ~t1.at[near].red /\ ~t1.at[far].red THEN DeleteFix(Paint(t1, w1, TRUE), p)
     ELSE DeleteFix(t4, t4.root)

\* agc_rbtree_delete of node a, which is left blank (its colour, which the next
\* insertion sets, included).
Delete(t, a) ==
  LET n     == t.at[a]
      two   == n.left # Sentinel /\ n.right # Sentinel
      subst == IF two THEN Min(t, n.right) ELSE a
      temp  == IF n.left = Sentinel THEN n.right
               ELSE IF n.right = Sentinel THEN n.left ELSE t.at[subst].right
      p     == t.at[subst].parent
      t1    == Relink(t, subst, temp)
      t2    == Put(t1, temp, "parent", IF two /\ p = a THEN subst ELSE p)
      \* subst takes the place of a
      t3    == IF two THEN Relink([t2 EXCEPT !.at[subst] = [t2.at[a] EXCEPT !.key = t2.at[subst].key]],
                                  a, subst)
               ELSE t2
      l     == t3.at[subst].left
      r     == t3.at[subst].right
      t4    == IF two /\ l # Sentinel THEN Put(t3, l, "parent", subst) ELSE t3
      t5    == IF two /\ r # Sentinel THEN Put(t4, r, "parent", subst) ELSE t4
      clear(s) == [s EXCEPT !.at[a] = Blank]
  IN IF subst = t.root THEN clear(Paint([t EXCEPT !.root = temp], temp, FALSE))
     ELSE IF t.at[subst].red THEN clear(t5)
     ELSE DeleteFix(clear(t5), temp)

\* Variant: without the climb past the ancestors on whose right side a is.
SuccessorNear(t, a) ==
  IF t.at[a].right # Sentinel THEN Min(t, t.at[a].right) ELSE t.at[a].parent

\* agc_rbtree_next, NULL after the last node.
Successor(t, a) ==
  IF t.at[a].right # Sentinel THEN Min(t, t.at[a].right)
  ELSE LET RECURSIVE up(_)
           up(b) == IF b = t.root THEN NULL
                    ELSE IF b = t.at[t.at[b].parent].left THEN t.at[b].parent
                    ELSE up(t.at[b].parent)
       IN up(a)

-----------------------------------------------------------------------------
InsertNode(a, k) ==
  /\ a \notin members
  /\ tree' = Insert(Put(tree, a, "key", k), a)
  /\ members' = members \cup {a}

DeleteNode(a) ==
  /\ a \in members
  /\ tree' = Delete(tree, a)
  /\ members' = members \ {a}

-----------------------------------------------------------------------------
(* Properties. *)

\* The nodes below a in order.
RECURSIVE InOrder(_, _)
InOrder(t, a) ==
  IF a = Sentinel THEN <<>>
  ELSE InOrder(t, t.at[a].left) \o <<a>> \o InOrder(t, t.at[a].right)

\* Black nodes on every path down from a; KEY_SPACE when they differ.
RECURSIVE BlackHeight(_, _)
BlackHeight(t, a) ==
  IF a = Sentinel THEN 1
  ELSE LET l == BlackHeight(t, t.at[a].left)
           r == BlackHeight(t, t.at[a].right)
       IN IF l # r \/ l = KEY_SPACE THEN KEY_SPACE
          ELSE IF t.at[a].red THEN l ELSE l + 1

\* The re-balancing loops: the root is black, no red node has a red child, all
\* paths have as many black nodes, and parent links agree with child links.
Balanced ==
  /\ ~tree.at[tree.root].red /\ ~tree.at[Sentinel].red
  /\ BlackHeight(tree, tree.root) # KEY_SPACE
  /\ \A a \in members : \A side \in {"left", "right"} :
       LET c == tree.at[a][side] IN
       c # Sentinel => /\ tree.at[c].parent = a
                       /\ ~(tree.at[a].red /\ tree.at[c].red)

\* agc_rbtree_min / agc_rbtree_next: starting at the minimum and going from
\* successor to successor visits the nodes in order and ends.
WalkInOrder ==
  LET s == InOrder(tree, tree.root) IN
  members # {} =>
    /\ Min(tree, tree.root) = s[1]
    /\ \A i \in DOMAIN s : Successor(tree, s[i]) = IF i = Len(s) THEN NULL ELSE s[i + 1]
===============================================================================
