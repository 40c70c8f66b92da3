---------------------------- MODULE PaidContract ----------------------------
(***************************************************************************)
(* What the paid-operation protocol promises, whatever process dies when   *)
(* (docs/architecture.md, "Durable paid-operation contract"): money moves  *)
(* only for the single operation whose intent is open, never past the      *)
(* ceiling in force, and while an outcome is unknown nothing else opens.   *)
(***************************************************************************)
EXTENDS PaidOperations

CONSTANTS
    Op,                 \* identities of paid operations
    Provider,           \* the services that charge
    ProviderOf          \* Op -> Provider

VARIABLES
    open,               \* the operation with a durable intent and no known outcome, if any
    billed,             \* what each provider has charged since the run began
    limit               \* the ceiling in force for each provider

contractVars == <<open, billed, limit>>

Init ==
    /\ open = {}
    /\ billed = [p \in Provider |-> 0]
    /\ limit \in [Provider -> Ceilings]

\* A rerun of the command may state other ceilings.
SetLimits ==
    /\ limit' \in [Provider -> Ceilings]
    /\ UNCHANGED <<open, billed>>

Open(o) ==
    /\ open = {}
    /\ open' = {o}
    /\ UNCHANGED <<billed, limit>>

Charge(o) ==
    LET p == ProviderOf[o] IN
    /\ open = {o}
    /\ billed' = [billed EXCEPT ![p] = billed'[p]]
    /\ billed'[p] >= billed[p]
    /\ limit[p] # NoCeiling => billed'[p] <= limit[p]
    /\ UNCHANGED <<open, limit>>

\* The outcome is known, or the provider's own run id makes it safe to ask again.
Close ==
    /\ open' = {}
    /\ UNCHANGED <<billed, limit>>

Next ==
    \/ SetLimits
    \/ \E o \in Op : Open(o) \/ Charge(o)
    \/ Close

Spec == Init /\ [][Next]_contractVars

=============================================================================
