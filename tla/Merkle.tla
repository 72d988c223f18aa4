------------------------------- MODULE Merkle ---------------------------------
(***************************************************************************)
(* The Merkle tree of src/hashguard/merkle.py over already hashed leaves.  *)
(* A digest is the term it was computed from, so two digests are equal     *)
(* only if they were computed from the same thing.                         *)
(***************************************************************************)
EXTENDS Integers, Sequences, SequencesExt

Leaf(id) == [leaf |-> id]
Node(left, right) == [left |-> left, right |-> right]

\* An odd level is padded with its own last node.
Padded(level) == IF Len(level) % 2 = 1 THEN Append(level, Last(level)) ELSE level

Above(level) ==
  [i \in 1..(Len(Padded(level)) \div 2) |-> Node(Padded(level)[2 * i - 1], Padded(level)[2 * i])]

\* The levels above the leaves that a tree of this width has.
depth[width \in Nat] == IF width <= 1 THEN 0 ELSE 1 + depth[(width + 1) \div 2]

Levels(leaves) == LET level[h \in Nat] == IF h = 0 THEN leaves ELSE Above(level[h - 1]) IN level

merkle_root(leaves) == Levels(leaves)[depth[Len(leaves)]][1]

\* Mutation: the sides are swapped.
SiblingOnTheOtherSide(level, idx) ==
  IF idx % 2 = 0 THEN [side |-> "L", hash |-> level[idx + 2]] ELSE [side |-> "R", hash |-> level[idx]]

\* The node beside the one at idx (counted from 0), and the side it is on.
Sibling(level, idx) ==
  IF idx % 2 = 0 THEN [side |-> "R", hash |-> level[idx + 2]] ELSE [side |-> "L", hash |-> level[idx]]

\* The position of the node above the leaf at index, level after level.
Ancestors(index) == LET at[h \in Nat] == IF h = 0 THEN index ELSE at[h - 1] \div 2 IN at

build_proof(leaves, index) ==
  [index |-> index, leaf_count |-> Len(leaves),
   path |-> [h \in 1..depth[Len(leaves)] |->
               Sibling(Padded(Levels(leaves)[h - 1]), Ancestors(index)[h - 1])]]

\* The nodes from the leaf up, each made with the sibling that the path names.
Climb(leaf, path) ==
  LET node[h \in Nat] ==
        IF h = 0
        THEN leaf
        ELSE IF path[h].side = "L"
             THEN Node(path[h].hash, node[h - 1])
             ELSE Node(node[h - 1], path[h].hash) IN
  node

verify_proof(leaf, proof, root) ==
  /\ proof.index \in 0..(proof.leaf_count - 1)
  /\ Len(proof.path) = depth[proof.leaf_count]
  /\ Climb(leaf, proof.path)[Len(proof.path)] = root
=============================================================================
