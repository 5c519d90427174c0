---------------------------- MODULE MCAnchoring -----------------------------
(***************************************************************************)
(* Instances of Anchoring for TLC, and the Merkle tree on its own, for     *)
(* every number of leaves up to MaxLeaves.                                 *)
(***************************************************************************)
EXTENDS Anchoring

MaxLeaves == 7
Leaves(n) == [k \in 1..n |-> ToLeaf(k)]

(* getProof: every leaf is proved, and its proof proves no other.          *)
ASSUME ProofsOfEveryTree ==
  \A n \in 1..MaxLeaves : \A k \in 1..n, f \in 1..(MaxLeaves + 1) :
    VerifyProof(ToLeaf(f), GetProof(Leaves(n), k), Root(Leaves(n))) <=> f = k
=============================================================================
