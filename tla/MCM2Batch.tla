----------------------------- MODULE MCM2Batch ------------------------------
(***************************************************************************)
(* M2Batch with one Exa and up to two Apify requests and one or two        *)
(* companies.  Every call reserves one unit.                               *)
(***************************************************************************)
EXTENDS M2Batch

MCPlan == <<"exa:ca", "apify:ca", "apify:us">>
MCApifyRequests == {"apify:ca", "apify:us"}
ShortPlan == <<"exa:ca", "apify:ca">>
OneCompany == <<"c1">>
TwoCompanies == <<"c1", "c2">>
UnitReservation == [o \in Op |-> 1]

Ceiling(exa, apify, deepseek) ==
    [p \in Provider |-> CASE p = "exa" -> exa [] p = "apify" -> apify [] p = "deepseek" -> deepseek]

Config(apify, ceiling) == [apify |-> apify, ceiling |-> ceiling]

\* Reruns that drop Apify, set its budget to zero, or lower the Exa ceiling.
ChangingConfigs ==
    {Config(TRUE, Ceiling(NoCeiling, 2, 2)),
     Config(TRUE, Ceiling(3, 0, 2)),
     Config(FALSE, Ceiling(3, 2, 1))}

\* The same invocation again and again.
OneConfig == {Config(TRUE, Ceiling(NoCeiling, 2, 2))}

=============================================================================
