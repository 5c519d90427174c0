----------------------------- MODULE MerkleTree -----------------------------
(***************************************************************************)
(* The Merkle tree of a batch (merkle.util.ts) and the check of a proof of *)
(* inclusion, the same in the gateway and in AuditAnchor.  keccak256 is    *)
(* taken as free of collisions: a digest is the term that was hashed, and  *)
(* the digest of a sorted pair is the term of the unordered pair.          *)
(***************************************************************************)
EXTENDS Naturals, Sequences

(* toLeaf: a second hash, so that a leaf is never an inner node.           *)
ToLeaf(fingerprint) == <<"leaf", fingerprint>>

HashPair(a, b) == <<"node", {a, b}>>

(* The level above: pairs hashed, an orphan at the end promoted as it is.  *)
LevelAbove(level) ==
  [i \in 1..((Len(level) + 1) \div 2) |->
     IF 2 * i <= Len(level) THEN HashPair(level[2 * i - 1], level[2 * i]) ELSE level[2 * i - 1]]

(* Layers(leaves)[n] is the level n above the leaves.  Halving reaches the *)
(* root in fewer levels than there are leaves, and above the root each     *)
(* level repeats it without adding a sibling to any proof.                 *)
Layers(leaves) ==
  LET layer[n \in 0..Len(leaves)] == IF n = 0 THEN leaves ELSE LevelAbove(layer[n - 1])
  IN  layer

Root(leaves) == Layers(leaves)[Len(leaves)][1]

(* index XOR 1, for indices that start at 1.                               *)
Sibling(index) == IF index % 2 = 1 THEN index + 1 ELSE index - 1

(* The index, at each level up to the height, of what stands over a leaf.  *)
Indices(leafIndex, height) ==
  LET index[n \in 0..height] == IF n = 0 THEN leafIndex ELSE (index[n - 1] + 1) \div 2
  IN  index

(* getProof: the siblings from the leaf up, none where it was promoted.    *)
GetProof(leaves, leafIndex) ==
  LET layers  == Layers(leaves)
      indices == Indices(leafIndex, Len(leaves))
      Brother(n) == Sibling(indices[n])
      proof[n \in 0..Len(leaves)] ==
        IF n = 0 THEN << >>
        ELSE IF Brother(n - 1) <= Len(layers[n - 1])
             THEN Append(proof[n - 1], layers[n - 1][Brother(n - 1)])
             ELSE proof[n - 1]
  IN  proof[Len(leaves)]

(* processProof: the siblings hashed in, one after the other.              *)
ProcessProof(leaf, proof) ==
  LET computed[n \in 0..Len(proof)] == IF n = 0 THEN leaf ELSE HashPair(computed[n - 1], proof[n])
  IN  computed[Len(proof)]

VerifyProof(leaf, proof, root) == ProcessProof(leaf, proof) = root
=============================================================================
