-------------------------- MODULE MCPaidLifecycle --------------------------
(***************************************************************************)
(* PaidLifecycle with two resumable operations of one provider and one of  *)
(* another, under a tight, a loose and an absent ceiling.                  *)
(***************************************************************************)
EXTENDS PaidLifecycle

CONSTANT
    MaxUnits            \* bound: units of money a provider or a ledger may reach

MCOp == {"map1", "map2", "search"}
MCProvider == {"apify", "exa"}
MCProviderOf == [o \in MCOp |-> IF o = "search" THEN "exa" ELSE "apify"]
MCReservation == [o \in MCOp |-> IF o = "map2" THEN 2 ELSE 1]
MCResumableProvider == {"apify"}

MCCeilingChoices ==
    {[p \in MCProvider |-> 3],
     [p \in MCProvider |-> IF p = "exa" THEN NoCeiling ELSE 2]}

MoneyBound ==
    \A p \in Provider : billed[p] <= MaxUnits /\ ledger[p].known <= MaxUnits

=============================================================================
