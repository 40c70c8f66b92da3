------------------------ MODULE MCContactEnrichment -------------------------
(***************************************************************************)
(* ContactEnrichment with two companies: two candidate contacts in the     *)
(* first and one in the second, or one in each.                            *)
(***************************************************************************)
EXTENDS ContactEnrichment

TwoCompanyOf == [k \in {1, 2, 3} |-> IF k = 3 THEN 2 ELSE 1]
PairCompanyOf == [k \in {1, 2} |-> k]
OneCompanyOf == [k \in {1} |-> 1]

\* Both companies are accepted, or only the second.
ShrinkingSnapshots == [s \in {"s1", "s2"} |-> IF s = "s1" THEN {1, 2} ELSE {2}]
OneSnapshot == [s \in {"s1"} |-> {1}]
PairSnapshot == [s \in {"s1"} |-> {1, 2}]

Config(exa, apollo, instantly, batch, statusReads) ==
    [batch   |-> batch,
     ceiling |-> [p \in Provider |-> CASE p = "exa" -> exa [] p = "apollo" -> apollo
                                       [] p = "instantly" -> instantly [] OTHER -> NoCeiling],
     reads   |-> statusReads]

\* A rerun may lower every ceiling, the batch size and the read cap.
TwoConfigs == {Config(NoCeiling, 1, 2, 2, NoCeiling), Config(2, 2, 1, 1, 1)}
\* Ceilings that no purchase exhausts.
OneConfig == {Config(2, 2, 2, 2, 1)}
\* Two status reads in the lifetime of an operation.
CappedReads == {Config(NoCeiling, 1, 1, 1, 2)}

=============================================================================
