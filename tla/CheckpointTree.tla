--------------------------- MODULE CheckpointTree ---------------------------
(***************************************************************************)
(* The sparse Merkle tree of a checkpoint: the messages of a task that     *)
(* NewCheckpointTaskResponseFromMessages puts into it (core/smt/smt.go),   *)
(* the proofs made from it for the verifier, and the verifier,             *)
(* verifyMessageInclusionState of the task manager with its library        *)
(* contracts/evm/src/eth/utils/SparseMerkleTree.sol.                       *)
(*                                                                         *)
(* A hash is the tuple of what was hashed: hashing is injective.  The path *)
(* of a key is its hash; a key, as bits with the most significant first,   *)
(* stands for its path, and every way in which paths can share a prefix    *)
(* occurs.  The tree itself is a library: two leaves share the inner nodes *)
(* of their common prefix, and a leaf stands as high as it stands alone.   *)
(* Only the tree of state root updates is here; that of operator set       *)
(* updates differs in its keys.                                            *)
(***************************************************************************)
EXTENDS Integers, Sequences, FiniteSets

CONSTANTS
  RollupBits, HeightBits, \* of a message's key (32 and 64)
  ByteBits,               \* of a byte of the bit mask (8)
  Digests,                \* digests of messages
  MaxMessages             \* bound: messages of a checkpoint

Depth == RollupBits + HeightBits

\* DEFAULT_VALUE, zero: the hash of nothing.
Default == <<>>

ASSUME TreeAssumption ==
  /\ RollupBits \in Nat \ {0} /\ HeightBits \in Nat \ {0} /\ ByteBits \in Nat \ {0}
  /\ MaxMessages \in Nat
  /\ Default \notin Digests

VARIABLES
  tree,      \* key -> digest of the message under it
  committed  \* the root is computed

treeVars == <<tree, committed>>

Keys == [1..Depth -> {0, 1}]

PowerOf2[e \in 0..Depth] == IF e = 0 THEN 1 ELSE 2 * PowerOf2[e - 1]

StateRootMessages ==
  [rollup : 0..PowerOf2[RollupBits] - 1, height : 0..PowerOf2[HeightBits] - 1,
   digest : Digests]

\* The w lowest bits of x, the most significant first.
Bits(x, w) == [b \in 1..w |-> (x \div PowerOf2[w - b]) % 2]

\* Key: the two fields side by side.
Key(m) == Bits(m.rollup, RollupBits) \o Bits(m.height, HeightBits)

Hash(prefix, left, right) == <<"hash", prefix, left, right>>

\* The beginnings of paths, and the keys of the tree under one of them.
PathPrefixes == UNION {[1..n -> {0, 1}] : n \in 0..Depth}
Under(p) == {k \in DOMAIN tree : SubSeq(k, 1, Len(p)) = p}

\* The node of the tree at a beginning of paths.
Node[p \in PathPrefixes] ==
  IF Under(p) = {} THEN Default
  ELSE IF Cardinality(Under(p)) > 1 THEN Hash(1, Node[Append(p, 0)], Node[Append(p, 1)])
  ELSE LET k == CHOOSE k \in Under(p) : TRUE IN Hash(0, k, tree[k])

Root == Node[<<>>]

TreeInit == tree = <<>> /\ committed = FALSE

\* The database has one message for a key.
AddMessage(m) ==
  /\ ~committed /\ Key(m) \notin DOMAIN tree
  /\ Cardinality(DOMAIN tree) < MaxMessages
  /\ tree' = [k \in DOMAIN tree \cup {Key(m)} |-> IF k = Key(m) THEN m.digest ELSE tree[k]]
  /\ UNCHANGED committed

Commit == ~committed /\ committed' = TRUE /\ UNCHANGED tree

TreeNext == Commit \/ \E m \in StateRootMessages : AddMessage(m)

TreeSpec == TreeInit /\ [][TreeNext]_treeVars

-----------------------------------------------------------------------------
(* Making a proof: ProveCompact, NewSMTVerifierProof *)

\* The inner nodes above the place of a key.
NumSideNodes(key) ==
  CHOOSE n \in 0..Depth :
    /\ Cardinality(Under(SubSeq(key, 1, n))) <= 1
    /\ \A i \in 0..n - 1 : Cardinality(Under(SubSeq(key, 1, i))) > 1

\* The side nodes of the first n levels, from the bottom.
SideNodes(key, n) ==
  [i \in 1..n |-> Node[Append(SubSeq(key, 1, n - i), 1 - key[n - i + 1])]]

\* The elements of a sequence at the places K, in their order.
AtPlaces(seq, K) ==
  [r \in 1..Cardinality(K) |-> seq[CHOOSE k \in K : Cardinality(K \cap 1..k) = r]]

\* The side nodes of a compact proof are those that are not nil.
NotNil(sides) == {i \in 1..Len(sides) : sides[i] # Default}
CompactSides(sides) == AtPlaces(sides, NotNil(sides))

\* The bit mask of a compact proof: a bit for every side node that is nil, in bytes
\* that are filled from their most significant bit.
BitMask(sides) ==
  [b \in 1..(Len(sides) + ByteBits - 1) \div ByteBits |->
    [c \in 1..ByteBits |->
      LET i == (b - 1) * ByteBits + c IN
      IF i <= Len(sides) /\ sides[i] = Default THEN 1 ELSE 0]]

\* bits.Reverse8
ReverseByte(byte) == [c \in 1..ByteBits |-> byte[ByteBits - c + 1]]

\* Mutant: only the bits of every byte are reversed.
formatBits(bitMask) == [b \in DOMAIN bitMask |-> ReverseByte(bitMask[b])]

formatBitMask(bitMask) ==
  [b \in DOMAIN bitMask |-> ReverseByte(bitMask[Len(bitMask) - b + 1])]

\* The bits that are set in the number that a list of bytes stands for.
SetBits(bytes) ==
  {i \in 0..Len(bytes) * ByteBits - 1 :
    bytes[Len(bytes) - (i \div ByteBits)][ByteBits - (i % ByteBits)] = 1}

\* A proof about a key, for the value that the tree has for it or for none.
VerifierProof(key) ==
  LET n == NumSideNodes(key)
      sides == SideNodes(key, n)
      leaf == Node[SubSeq(key, 1, n)]
      other == leaf # Default /\ key \notin DOMAIN tree
  IN  [key |-> key, value |-> IF key \in DOMAIN tree THEN tree[key] ELSE Default,
       bitMask |-> SetBits(formatBitMask(BitMask(sides))),
       sideNodes |-> CompactSides(sides),
       numSideNodes |-> n,
       nonMembershipLeafPath |-> IF other THEN leaf[3] ELSE Default,
       nonMembershipLeafValue |-> IF other THEN leaf[4] ELSE Default]

-----------------------------------------------------------------------------
(* Checking a proof: verifyMessageInclusionState *)

Index(m) == Bits(m.height + m.rollup * PowerOf2[HeightBits], Depth)

\* Mutant: the leaf that proves the absence of a key may be the key's own.
ComputeLeafAny(proof) ==
  IF proof.value # Default THEN Hash(0, proof.key, proof.value)
  ELSE IF proof.nonMembershipLeafPath = Default THEN Default
  ELSE Hash(0, proof.nonMembershipLeafPath, proof.nonMembershipLeafValue)

\* _computeProofLeaf; "reverts" for a leaf of the key itself.
ComputeLeaf(proof) ==
  IF proof.value # Default THEN Hash(0, proof.key, proof.value)
  ELSE IF proof.nonMembershipLeafPath = Default THEN Default
  ELSE IF proof.nonMembershipLeafPath = proof.key THEN <<"reverts">>
  ELSE Hash(0, proof.nonMembershipLeafPath, proof.nonMembershipLeafValue)

\* _computeProofRoot: the side node of the loop's step i, the hash after i steps, and
\* the last one; a side node that is missing reverts.
SideNode(proof, i) ==
  IF i \in proof.bitMask THEN Default
  ELSE proof.sideNodes[Cardinality((0..i) \ proof.bitMask)]

CurrentHash(proof) ==
  LET R[i \in 0..proof.numSideNodes] ==
        IF i = 0 THEN ComputeLeaf(proof)
        ELSE IF proof.key[proof.numSideNodes - i + 1] = 0
             THEN Hash(1, R[i - 1], SideNode(proof, i - 1))
             ELSE Hash(1, SideNode(proof, i - 1), R[i - 1])
  IN  R

ComputeRoot(proof) ==
  IF Cardinality((0..proof.numSideNodes - 1) \ proof.bitMask) > Len(proof.sideNodes)
  THEN <<"reverts">>
  ELSE CurrentHash(proof)[proof.numSideNodes]

VerifyProof(root, proof) ==
  /\ Len(proof.sideNodes) <= Depth /\ proof.numSideNodes <= Depth
  /\ ComputeLeaf(proof) # <<"reverts">>
  /\ root = ComputeRoot(proof)

\* The answer for a message under a root.
VerifyMessageInclusionState(m, root, proof) ==
  IF proof.key # Index(m) \/ ~VerifyProof(root, proof) THEN "reverts"
  ELSE IF proof.value = m.digest THEN "included" ELSE "not included"

-----------------------------------------------------------------------------
(* Properties *)

Included(m) == Key(m) \in DOMAIN tree /\ tree[Key(m)] = m.digest

\* Whatever messages a checkpoint has, the proof that the Go code makes about a key
\* is accepted by the contract, and tells for every message of that key whether it
\* is in the checkpoint.
ProofsConvince ==
  LET root == Root IN
  committed => \A m \in StateRootMessages :
    VerifyMessageInclusionState(m, root, VerifierProof(Key(m))) =
      IF Included(m) THEN "included" ELSE "not included"

\* The hashes in the tree.
Hashes == {Node[p] : p \in PathPrefixes} \ {Default}

\* A proof about m whose leaf is made of c, with n side nodes out of sides.
Claim(m, c, n, sides, mask) ==
  [key |-> Key(m), value |-> c[1], bitMask |-> mask, numSideNodes |-> n,
   sideNodes |-> AtPlaces(sides, {i \in 1..n : i - 1 \notin mask}),
   nonMembershipLeafPath |-> c[2][1], nonMembershipLeafValue |-> c[2][2]]

\* What a proof may claim.  Its side nodes, and the two fields that it hashes to a
\* leaf when it has no value, are those that hash to something in the tree, as all
\* others give another root; the rest is arbitrary.
Claims(m) ==
  LET leaves == {<<h[3], h[4]>> : h \in Hashes} \cup {<<Default, Default>>}
      contents == (Digests \X {<<Default, Default>>}) \cup ({Default} \X leaves)
      sides == [n \in 0..Depth |-> SideNodes(Key(m), n)] IN
  {Claim(m, c, n, sides[n], mask) :
     c \in contents, n \in 0..Depth, mask \in SUBSET (0..Depth - 1)}

\* No proof convinces the contract of the contrary: that a message of the checkpoint
\* is not in it, or that one is that is not; not with a leaf of another key, an inner
\* node passed for a leaf, another depth or another bit mask.
ProofsSound ==
  LET root == Root IN
  committed => \A m \in StateRootMessages : \A proof \in Claims(m) :
    VerifyMessageInclusionState(m, root, proof) \in
      {"reverts", IF Included(m) THEN "included" ELSE "not included"}

-----------------------------------------------------------------------------
(* The invariant behind the properties. *)

TreeInv ==
  /\ DOMAIN tree \subseteq Keys /\ IsFiniteSet(DOMAIN tree)
  /\ tree \in [DOMAIN tree -> Digests]
=============================================================================
