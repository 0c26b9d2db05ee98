------------------------ MODULE MCSFFLRegistryRollup ------------------------
(* A small instance of SFFLRegistryRollup for TLC. *)
EXTENDS SFFLRegistryRollup, FiniteSetsExt, TLC

SumWeights(w, S) == MapThenSumSet(LAMBDA p : w[p], S)

Entries == [pubkey : Pubkeys, weight : Weights]

\* Every single entry, a set of all operators, an operator named twice, two
\* operators that leave together.
SomeDeltas ==
  {<<e>> : e \in Entries} \cup
  {<<[pubkey |-> 1, weight |-> 1], [pubkey |-> 2, weight |-> 1],
     [pubkey |-> 3, weight |-> 1]>>,
   <<[pubkey |-> 2, weight |-> 1], [pubkey |-> 2, weight |-> 0]>>,
   <<[pubkey |-> 1, weight |-> 0], [pubkey |-> 3, weight |-> 0]>>}

\* Lists of up to two non-signers, sorted or not, and one signature of every
\* operator of a set; one signature that counts operator 1 twice.
SomeAgreements ==
  [nonSigners : {<<>>} \cup {<<p>> : p \in Pubkeys} \cup (Pubkeys \X Pubkeys),
   sig : {[p \in Pubkeys |-> IF p \in S THEN 1 ELSE 0] : S \in SUBSET Pubkeys}
         \cup {[p \in Pubkeys |-> IF p = 1 THEN 2 ELSE 0]}]
====
