--------------------------- MODULE PaidOperations ---------------------------
(***************************************************************************)
(* The rules every paid stage of the pipeline applies to its checkpoint    *)
(* and its usage ledger: pipeline/paid_operations.py over                  *)
(* pipeline/costs.py.  Money is counted in whole units.  A checkpoint maps *)
(* each operation identity to an entry with a "state" field; "none" stands *)
(* for an identity the mapping does not hold yet.                          *)
(***************************************************************************)
EXTENDS Integers

CONSTANT
    NoCeiling           \* the absent ceiling (Python None)

\* A ceiling is a number or absent, never both.
ASSUME NoCeilingAssumption == NoCeiling \notin Int

OpStates == {"none", "in_flight", "pending", "completed", "failed"}

Ceilings == Nat \cup {NoCeiling}

-----------------------------------------------------------------------------
(***************************************************************************)
(* Spend of one provider, replayed from the ledger: the sum of the costs   *)
(* its events state, and whether any event omitted its cost.               *)
(***************************************************************************)
Totals == [known : Nat, missing : BOOLEAN]

NoSpend == [known |-> 0, missing |-> FALSE]

\* Mutant: takes an event without a cost for a free one.
AddEventFree(t, priced, cost) ==
    [known |-> IF priced THEN t.known + cost ELSE t.known, missing |-> t.missing]

\* Mutant: subtracts.
AddEventNegated(t, priced, cost) ==
    [known |-> IF priced THEN t.known - cost ELSE t.known, missing |-> t.missing \/ ~priced]

\* One usage event: every event of a failed call omits its cost.
AddEvent(t, priced, cost) ==
    [known   |-> IF priced THEN t.known + cost ELSE t.known,
     missing |-> t.missing \/ ~priced]

\* Mutant: forgets the reservation of the next call.
ReservationFitsAfter(t, ceiling, reservation) ==
    ceiling # NoCeiling => ~t.missing /\ t.known <= ceiling

\* Unknown spend fits no ceiling; without a ceiling everything fits.
ReservationFits(t, ceiling, reservation) ==
    ceiling # NoCeiling => ~t.missing /\ t.known + reservation <= ceiling

-----------------------------------------------------------------------------
(***************************************************************************)
(* The operation map of a checkpoint.                                      *)
(***************************************************************************)
InFlight(ops) == {o \in DOMAIN ops : ops[o].state = "in_flight"}

\* In-flight operations nobody may replay; "replayable" is the caller's set.
UnknownInFlight(ops, replayable) == InFlight(ops) \ replayable

=============================================================================
