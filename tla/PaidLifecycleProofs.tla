------------------------ MODULE PaidLifecycleProofs -------------------------
(***************************************************************************)
(* The paid-operation protocol keeps every bill within its ceiling and     *)
(* implements PaidContract, for any operations, providers, reservations    *)
(* and ceilings and any number of crashes and reruns.  The invariant is    *)
(* PaidLifecycle!Inv.                                                      *)
(***************************************************************************)
EXTENDS PaidLifecycle, TLAPS

USE NoCeilingAssumption, LifecycleAssumption

-----------------------------------------------------------------------------
\* Adding a usage event to a provider's totals gives totals that know no less.
LEMMA AddEventGrows ==
    ASSUME NEW t \in Totals, NEW priced \in BOOLEAN, NEW cost \in Nat
    PROVE  /\ AddEvent(t, priced, cost) \in Totals
           /\ AddEvent(t, priced, cost).known >= t.known
           /\ ~AddEvent(t, priced, cost).missing =>
                ~t.missing /\ AddEvent(t, priced, cost).known = t.known + cost
<1> DEFINE a == AddEvent(t, priced, cost)
<1>1. t.known \in Nat /\ t.missing \in BOOLEAN
  BY DEF Totals
<1>2. a.known = (IF priced THEN t.known + cost ELSE t.known)
  BY DEF AddEvent
<1>3. a.missing = (t.missing \/ ~priced)
  BY DEF AddEvent
<1>4. a \in Totals
  BY <1>1 DEF AddEvent, Totals
<1>5. a.known >= t.known
  BY <1>1, <1>2
<1>6. ASSUME ~a.missing PROVE ~t.missing /\ a.known = t.known + cost
  <2>1. ~t.missing /\ priced
    BY <1>1, <1>3, <1>6, Zenon
  <2> QED BY <2>1, <1>2
<1> QED BY <1>4, <1>5, <1>6

\* Every step keeps the types.
LEMMA TypeStep ==
    ASSUME TypeOK, [Next]_vars
    PROVE  TypeOK'
<1> USE DEF TypeOK, Entry, OpStates
<1>1. ASSUME NEW c \in CeilingChoices, Start(c) PROVE TypeOK'
  BY <1>1 DEF Start
<1>2. ASSUME NEW o \in Op, Begin(o) PROVE TypeOK'
  BY <1>2 DEF Begin
<1>3. ASSUME NEW o \in Op, Resume(o) PROVE TypeOK'
  BY <1>3 DEF Resume
<1>4. ASSUME NEW cost \in 0..Reservation[cur], Call(cost) PROVE TypeOK'
  <2>1. cost \in Nat /\ ProviderOf[cur] \in Provider
    OBVIOUS
  <2> QED BY <1>4, <2>1 DEF Call
<1>5. CASE RecordRun
  BY <1>5 DEF RecordRun
<1>6. ASSUME NEW priced \in BOOLEAN, RecordUsage(priced) PROVE TypeOK'
  <2>1. \A p \in Provider : AddEvent(tracker[p], priced, charge[cur]) \in Totals
                            /\ AddEvent(ledger[p], priced, charge[cur]) \in Totals
    BY AddEventGrows
  <2> QED BY <1>6, <2>1 DEF RecordUsage
<1>7. CASE Continue
  BY <1>7 DEF Continue
<1>8. ASSUME NEW state \in {"completed", "failed", "pending"}, NEW run \in BOOLEAN,
             Finish(state, run)
      PROVE  TypeOK'
  BY <1>8 DEF Finish
<1>9. CASE Pause
  BY <1>9 DEF Pause
<1>10. CASE Crash
  BY <1>10 DEF Crash
<1>11. CASE UNCHANGED vars
  BY <1>11 DEF vars
<1> QED
  BY <1>1, <1>2, <1>3, <1>4, <1>5, <1>6, <1>7, <1>8, <1>9, <1>10, <1>11 DEF Next

\* Every step keeps the running process's view equal to the files.
LEMMA MemoryStep ==
    ASSUME TypeOK, MemoryMatchesFiles, [Next]_vars
    PROVE  MemoryMatchesFiles'
<1> USE DEF TypeOK, MemoryMatchesFiles, Entry
<1>1. ASSUME NEW c \in CeilingChoices, Start(c) PROVE MemoryMatchesFiles'
  BY <1>1 DEF Start
<1>2. ASSUME NEW o \in Op, Begin(o) PROVE MemoryMatchesFiles'
  BY <1>2 DEF Begin
<1>3. ASSUME NEW o \in Op, Resume(o) PROVE MemoryMatchesFiles'
  BY <1>3 DEF Resume
<1>4. ASSUME NEW cost \in 0..Reservation[cur], Call(cost) PROVE MemoryMatchesFiles'
  BY <1>4 DEF Call
<1>5. CASE RecordRun
  BY <1>5 DEF RecordRun
<1>6. ASSUME NEW priced \in BOOLEAN, RecordUsage(priced) PROVE MemoryMatchesFiles'
  BY <1>6 DEF RecordUsage
<1>7. CASE Continue
  BY <1>7 DEF Continue
<1>8. ASSUME NEW state \in {"completed", "failed", "pending"}, NEW run \in BOOLEAN,
             Finish(state, run)
      PROVE  MemoryMatchesFiles'
  BY <1>8 DEF Finish
<1>9. CASE Pause
  BY <1>9 DEF Pause
<1>10. CASE Crash
  BY <1>10 DEF Crash
<1>11. CASE UNCHANGED vars
  BY <1>11 DEF vars
<1> QED
  BY <1>1, <1>2, <1>3, <1>4, <1>5, <1>6, <1>7, <1>8, <1>9, <1>10, <1>11 DEF Next

\* Two operation maps with the same states have the same operations in flight.
LEMMA SameStatesSameInFlight ==
    ASSUME NEW f \in [Op -> Entry], NEW g \in [Op -> Entry],
           \A o \in Op : f[o].state = g[o].state
    PROVE  InFlight(f) = InFlight(g)
  BY DEF InFlight

\* Every step keeps at most one intent unresolved.
LEMMA IntentStep ==
    ASSUME TypeOK, MemoryMatchesFiles, OneOpenIntent, [Next]_vars
    PROVE  OneOpenIntent'
<1> USE DEF TypeOK, MemoryMatchesFiles, OneOpenIntent, Entry, OpStates,
            Unknown, UnknownInFlight, InFlight, Resumable
<1>1. ASSUME NEW c \in CeilingChoices, Start(c) PROVE OneOpenIntent'
  BY <1>1 DEF Start
<1>2. ASSUME NEW o \in Op, Begin(o) PROVE OneOpenIntent'
  BY <1>2 DEF Begin
<1>3. ASSUME NEW o \in Op, Resume(o) PROVE OneOpenIntent'
  BY <1>3 DEF Resume
<1>4. ASSUME NEW cost \in 0..Reservation[cur], Call(cost) PROVE OneOpenIntent'
  BY <1>4 DEF Call
<1>5. CASE RecordRun
  BY <1>5 DEF RecordRun
<1>6. ASSUME NEW priced \in BOOLEAN, RecordUsage(priced) PROVE OneOpenIntent'
  BY <1>6 DEF RecordUsage
<1>7. CASE Continue
  <2>1. /\ disk' = mem /\ mem' = mem /\ cur' = cur /\ pc = "recorded" /\ pc' = "begun"
        /\ mem[cur].state = "in_flight" /\ ~mem[cur].run
    BY <1>7 DEF Continue
  <2>2. mem[cur] = [state |-> "in_flight", run |-> FALSE]
    BY <2>1
  <2>3. InFlight(disk') = InFlight(disk)
    BY <2>1, SameStatesSameInFlight
  <2>4. Unknown(disk)' \subseteq {cur}
    BY <2>1
  <2> QED BY <2>1, <2>2, <2>3, <2>4
<1>8. ASSUME NEW state \in {"completed", "failed", "pending"}, NEW run \in BOOLEAN,
             Finish(state, run)
      PROVE  OneOpenIntent'
  BY <1>8 DEF Finish
<1>9. CASE Pause
  BY <1>9 DEF Pause
<1>10. CASE Crash
  BY <1>10 DEF Crash
<1>11. CASE UNCHANGED vars
  BY <1>11 DEF vars
<1> QED
  BY <1>1, <1>2, <1>3, <1>4, <1>5, <1>6, <1>7, <1>8, <1>9, <1>10, <1>11 DEF Next

\* A provider whose operations are all settled has billed no more than the ledger states.
LEMMA SettledBill ==
    ASSUME TypeOK, OneOpenIntent, LedgerCoversBill, NEW p \in Provider, ~ledger[p].missing,
           \A o \in InFlight(disk) : ProviderOf[o] = p => pc \in {"begun", "recorded"} /\ o = cur
    PROVE  billed[p] <= ledger[p].known
  BY DEF LedgerCoversBill

\* Every step keeps the ledger within one lost event of the bill.
LEMMA LedgerStep ==
    ASSUME TypeOK, MemoryMatchesFiles, OneOpenIntent, LedgerCoversBill, [Next]_vars
    PROVE  LedgerCoversBill'
<1> USE DEF TypeOK, MemoryMatchesFiles, LedgerCoversBill, Entry, OpStates, InFlight
<1>1. ASSUME NEW c \in CeilingChoices, Start(c) PROVE LedgerCoversBill'
  BY <1>1 DEF Start
<1>2. ASSUME NEW o \in Op, Begin(o) PROVE LedgerCoversBill'
  BY <1>2, SMTT(20) DEF Begin
<1>3. ASSUME NEW o \in Op, Resume(o) PROVE LedgerCoversBill'
  BY <1>3 DEF Resume
<1>4. ASSUME NEW cost \in 0..Reservation[cur], Call(cost) PROVE LedgerCoversBill'
  <2> SUFFICES ASSUME NEW p \in Provider, ~ledger[p].missing
               PROVE  \/ billed'[p] <= ledger[p].known
                      \/ \E o \in InFlight(disk) :
                            ProviderOf[o] = p /\ billed'[p] <= ledger[p].known + charge'[o]
    BY <1>4 DEF Call
  <2>1. CASE p # ProviderOf[cur]
    BY <1>4, <2>1 DEF Call
  <2>2. CASE p = ProviderOf[cur]
    <3>1. cur \in InFlight(disk) /\ \A o \in InFlight(disk) : ProviderOf[o] = p => o = cur
      BY <1>4, <2>2 DEF Call, OneOpenIntent
    <3>2. billed[p] <= ledger[p].known
      BY <1>4, <3>1, SettledBill DEF Call
    <3>3. billed'[p] = billed[p] + cost /\ charge'[cur] = cost
      BY <1>4, <2>2 DEF Call
    <3> QED BY <3>1, <3>2, <3>3, <2>2 DEF Totals
  <2> QED BY <2>1, <2>2
<1>5. CASE RecordRun
  BY <1>5 DEF RecordRun
<1>6. ASSUME NEW priced \in BOOLEAN, RecordUsage(priced) PROVE LedgerCoversBill'
  <2> DEFINE q == ProviderOf[cur]
             a == AddEvent(ledger[q], priced, charge[cur])
  <2>0. ledger[q] \in Totals /\ charge[cur] \in Nat
    OBVIOUS
  <2>1. /\ a \in Totals /\ a.known >= ledger[q].known
        /\ ~a.missing => ~ledger[q].missing /\ a.known = ledger[q].known + charge[cur]
    BY ONLY <2>0, priced \in BOOLEAN, AddEventGrows, Zenon
  <2>2. /\ ledger' = [ledger EXCEPT ![q] = a]
        /\ pc = "called" /\ pc' = "recorded"
        /\ UNCHANGED <<disk, cur, billed, charge>>
    BY <1>6 DEF RecordUsage
  <2> HIDE DEF a
  <2> SUFFICES ASSUME NEW p \in Provider, ~ledger'[p].missing
               PROVE  \/ billed[p] <= ledger'[p].known
                      \/ \E o \in InFlight(disk) :
                            /\ ProviderOf[o] = p
                            /\ billed[p] <= ledger'[p].known + charge[o]
                            /\ o # cur
    BY <2>2
  <2>3. CASE p # q
    BY <2>2, <2>3
  <2>4. CASE p = q
    <3>1. ~ledger[p].missing /\ ledger'[p].known = ledger[p].known + charge[cur]
      BY <2>1, <2>2, <2>4
    <3>2. CASE billed[p] <= ledger[p].known
      BY <3>1, <3>2 DEF Totals
    <3>3. CASE \E o \in InFlight(disk) : ProviderOf[o] = p /\ billed[p] <= ledger[p].known + charge[o]
      <4>1. PICK o \in InFlight(disk) : ProviderOf[o] = p /\ billed[p] <= ledger[p].known + charge[o]
        BY <3>3
      <4>2. CASE o = cur
        BY <3>1, <4>1, <4>2
      <4>3. CASE o # cur
        BY <3>1, <4>1, <4>3 DEF Totals
      <4> QED BY <4>2, <4>3
    <3> QED BY <3>1, <3>2, <3>3
  <2> QED BY <2>3, <2>4
<1>7. CASE Continue
  BY <1>7 DEF Continue
<1>8. ASSUME NEW state \in {"completed", "failed", "pending"}, NEW run \in BOOLEAN,
             Finish(state, run)
      PROVE  LedgerCoversBill'
  <2>1. /\ pc = "recorded" /\ pc' = "ready" /\ cur' = cur
        /\ ledger' = ledger /\ billed' = billed /\ charge' = charge
        /\ mem' = [mem EXCEPT ![cur] = [state |-> state, run |-> mem[cur].run \/ run]]
        /\ disk' = mem'
    BY <1>8 DEF Finish
  <2>2. \A o \in Op : o # cur => mem'[o] = mem[o] /\ mem[o] = disk[o]
    BY <2>1
  <2>3. InFlight(disk) \ {cur} \subseteq InFlight(disk')
    BY <2>1, <2>2
  <2> QED BY <2>1, <2>3
<1>9. CASE Pause
  <2>0. disk' = mem /\ \A o \in Op : mem[o].state = disk[o].state
    BY <1>9 DEF Pause
  <2>1. InFlight(disk') = InFlight(disk)
    BY <2>0, SameStatesSameInFlight
  <2> QED BY <1>9, <2>1 DEF Pause
<1>10. CASE Crash
  BY <1>10 DEF Crash
<1>11. CASE UNCHANGED vars
  BY <1>11 DEF vars
<1> QED
  BY <1>1, <1>2, <1>3, <1>4, <1>5, <1>6, <1>7, <1>8, <1>9, <1>10, <1>11 DEF Next

\* A call that was admitted still fits when the next step makes it.
LEMMA AdmissionStep ==
    ASSUME TypeOK, AdmittedCallFits, [Next]_vars
    PROVE  AdmittedCallFits'
<1> USE DEF AdmittedCallFits
<1>1. ASSUME NEW c \in CeilingChoices, Start(c) PROVE AdmittedCallFits'
  BY <1>1 DEF Start
<1>2. ASSUME NEW o \in Op, Begin(o) PROVE AdmittedCallFits'
  BY <1>2 DEF Begin, Fits
<1>3. ASSUME NEW o \in Op, Resume(o) PROVE AdmittedCallFits'
  BY <1>3 DEF Resume
<1>4. ASSUME NEW cost \in 0..Reservation[cur], Call(cost) PROVE AdmittedCallFits'
  BY <1>4 DEF Call
<1>5. CASE RecordRun
  BY <1>5 DEF RecordRun
<1>6. ASSUME NEW priced \in BOOLEAN, RecordUsage(priced) PROVE AdmittedCallFits'
  BY <1>6 DEF RecordUsage
<1>7. CASE Continue
  BY <1>7 DEF Continue, Fits
<1>8. ASSUME NEW state \in {"completed", "failed", "pending"}, NEW run \in BOOLEAN,
             Finish(state, run)
      PROVE  AdmittedCallFits'
  BY <1>8 DEF Finish
<1>9. CASE Pause
  BY <1>9 DEF Pause
<1>10. CASE Crash
  BY <1>10 DEF Crash
<1>11. CASE UNCHANGED vars
  BY <1>11 DEF vars, Fits
<1> QED
  BY <1>1, <1>2, <1>3, <1>4, <1>5, <1>6, <1>7, <1>8, <1>9, <1>10, <1>11 DEF Next

-----------------------------------------------------------------------------
\* The first state satisfies the inductive invariant.
LEMMA InitInv == Init => Inv
<1> SUFFICES ASSUME Init PROVE Inv
  OBVIOUS
<1> USE DEF Init
<1>1. TypeOK
  BY DEF TypeOK, Entry, OpStates, Absent, Totals, NoSpend
<1>2. InFlight(disk) = {}
  BY DEF InFlight, Absent
<1>3. MemoryMatchesFiles /\ AdmittedCallFits
  BY DEF MemoryMatchesFiles, AdmittedCallFits
<1>4. OneOpenIntent
  BY <1>2 DEF OneOpenIntent
<1>5. LedgerCoversBill
  BY DEF LedgerCoversBill, NoSpend
<1> QED BY <1>1, <1>3, <1>4, <1>5 DEF Inv

\* Every state of every run satisfies the inductive invariant: the process
\* and the files agree, at most one intent is unresolved, and the ledger
\* covers the bill.
THEOREM Invariance == Spec => []Inv
<1>1. Inv /\ [Next]_vars => Inv'
  BY TypeStep, MemoryStep, IntentStep, LedgerStep, AdmissionStep DEF Inv
<1> QED BY InitInv, <1>1, PTL DEF Spec

\* After any crash, the ledger of usage_events.jsonl covers what was billed
\* up to the one call that is still in flight.
THEOREM LedgerCoverage == Spec => []LedgerCoversBill
<1>1. Inv => LedgerCoversBill
  BY DEF Inv
<1> QED BY <1>1, Invariance, PTL

\* The checkpoint, the ledger and the process stay in their types.
THEOREM TypeCorrectness == Spec => []TypeOK
<1>1. Inv => TypeOK
  BY DEF Inv
<1> QED BY <1>1, Invariance, PTL

\* Whatever crashes, never are two paid operations unresolved at once.
THEOREM SingleIntent == Spec => []OneOpenIntent
<1>1. Inv => OneOpenIntent
  BY DEF Inv
<1> QED BY <1>1, Invariance, PTL

-----------------------------------------------------------------------------
\* A call leaves the bill of its provider within the ceiling it was admitted under.
LEMMA CallWithinCeiling ==
    ASSUME Inv, NEW cost \in 0..Reservation[cur], Call(cost)
    PROVE  LET p == ProviderOf[cur] IN
           /\ billed' = [billed EXCEPT ![p] = billed[p] + cost]
           /\ billed[p] + cost \in Nat
           /\ ceiling[p] # NoCeiling => billed[p] + cost <= ceiling[p]
<1> DEFINE p == ProviderOf[cur]
<1> USE DEF Inv, TypeOK
<1>1. p \in Provider /\ billed[p] \in Nat /\ cost \in Nat /\ cost <= Reservation[cur]
  BY DEF Call
<1>2. billed' = [billed EXCEPT ![p] = billed[p] + cost]
  BY DEF Call
<1>3. ASSUME ceiling[p] # NoCeiling PROVE billed[p] + cost <= ceiling[p]
  <2>1. ~ledger[p].missing /\ ledger[p].known + Reservation[cur] <= ceiling[p]
    BY <1>3 DEF Call, AdmittedCallFits, MemoryMatchesFiles, Fits, ReservationFits
  <2>2. \A o \in InFlight(disk) : ProviderOf[o] = p => o = cur
    BY DEF Call, OneOpenIntent, InFlight
  <2>3. billed[p] <= ledger[p].known
    BY <1>1, <2>1, <2>2, SettledBill DEF Call
  <2>4. ceiling[p] \in Nat
    BY <1>1, <1>3 DEF Ceilings
  <2> QED BY <1>1, <2>1, <2>3, <2>4 DEF Totals
<1> QED BY <1>1, <1>2, <1>3

\* No charge ever takes a provider's bill past the ceiling in force.
THEOREM CeilingRespected == Spec => SpendWithinCeiling
<1> DEFINE Within == \A p \in Provider :
                       billed'[p] # billed[p] => ceiling[p] = NoCeiling \/ billed'[p] <= ceiling[p]
<1>1. ASSUME Inv, [Next]_vars PROVE [Within]_vars
  <2>1. ASSUME NEW cost \in 0..Reservation[cur], Call(cost) PROVE Within
    BY <1>1, <2>1, CallWithinCeiling DEF Inv, TypeOK
  <2>2. CASE UNCHANGED billed
    BY <2>2
  <2> QED
    BY <1>1, <2>1, <2>2
    DEF Next, vars, Start, Begin, Resume, RecordRun, RecordUsage, Continue, Finish, Pause, Crash
<1> QED BY Invariance, <1>1, PTL DEF Spec, SpendWithinCeiling

-----------------------------------------------------------------------------
\* Every step is a step of the contract, or changes nothing it speaks of.
LEMMA ContractStep ==
    ASSUME Inv, [Next]_vars
    PROVE  [Contract!Next]_<<Unknown(disk), billed, ceiling>>
<1> DEFINE View == <<Unknown(disk), billed, ceiling>>
           Step == Contract!Next \/ UNCHANGED View
<1> USE DEF Unknown, UnknownInFlight, Resumable, InFlight, Inv, TypeOK, Entry, OpStates,
            Contract!Next
<1>1. ASSUME NEW c \in CeilingChoices, Start(c) PROVE Step
  BY <1>1 DEF Start, Contract!SetLimits, Ceilings, Contract!Ceilings
<1>2. ASSUME NEW o \in Op, Begin(o) PROVE Contract!Open(o)
  <2>1. mem = disk /\ Unknown(disk) = {}
    BY <1>2 DEF Begin, MemoryMatchesFiles, OneOpenIntent
  <2>2. disk' = [disk EXCEPT ![o] = [state |-> "in_flight", run |-> FALSE]]
    BY <1>2, <2>1 DEF Begin
  <2>3. Unknown(disk)' = {o}
    BY <2>1, <2>2
  <2> QED BY <1>2, <2>1, <2>3 DEF Begin, Contract!Open
<1>3. ASSUME NEW o \in Op, Resume(o) PROVE Step
  BY <1>3 DEF Resume
<1>4. ASSUME NEW cost \in 0..Reservation[cur], Call(cost) PROVE Contract!Charge(cur)
  <2>1. Unknown(disk) = {cur} /\ disk' = disk /\ ceiling' = ceiling
    BY <1>4 DEF Call, OneOpenIntent
  <2>2. /\ ProviderOf[cur] \in Provider
        /\ billed' = [billed EXCEPT ![ProviderOf[cur]] = billed[ProviderOf[cur]] + cost]
        /\ ceiling[ProviderOf[cur]] # NoCeiling
             => billed[ProviderOf[cur]] + cost <= ceiling[ProviderOf[cur]]
    BY <1>4, CallWithinCeiling
  <2>3. billed'[ProviderOf[cur]] = billed[ProviderOf[cur]] + cost
        /\ billed'[ProviderOf[cur]] >= billed[ProviderOf[cur]]
    BY <2>2
  <2> QED BY <2>1, <2>2, <2>3 DEF Contract!Charge
<1>5. CASE RecordRun
  <2>1. Unknown(disk)' = {}
    BY <1>5 DEF RecordRun, OneOpenIntent
  <2> QED BY <1>5, <2>1 DEF RecordRun, Contract!Close
<1>6. ASSUME NEW priced \in BOOLEAN, RecordUsage(priced) PROVE Step
  BY <1>6 DEF RecordUsage
<1>7. CASE Continue
  <2>1. Unknown(disk)' = {cur}
    BY <1>7 DEF Continue, MemoryMatchesFiles, OneOpenIntent
  <2>2. Unknown(disk) = {} \/ Unknown(disk) = {cur}
    BY <1>7 DEF Continue, OneOpenIntent
  <2> QED BY <1>7, <2>1, <2>2 DEF Continue, Contract!Open
<1>8. ASSUME NEW state \in {"completed", "failed", "pending"}, NEW run \in BOOLEAN,
             Finish(state, run)
      PROVE  Contract!Close
  <2>1. Unknown(disk)' = {}
    BY <1>8 DEF Finish, MemoryMatchesFiles, OneOpenIntent
  <2> QED BY <1>8, <2>1 DEF Finish, Contract!Close
<1>9. CASE Pause
  <2>1. Unknown(disk) = {} \/ Unknown(disk) = {cur}
    BY <1>9 DEF Pause, OneOpenIntent
  <2>2. Unknown(disk)' = {} \/ Unknown(disk)' = {cur}
    BY <1>9 DEF Pause, MemoryMatchesFiles, OneOpenIntent
  <2>3. UNCHANGED <<billed, ceiling>>
    BY <1>9 DEF Pause
  <2> QED BY <2>1, <2>2, <2>3 DEF Contract!Open, Contract!Close
<1>10. CASE Crash
  BY <1>10 DEF Crash
<1>11. CASE UNCHANGED vars
  BY <1>11 DEF vars
<1>12. Step
  BY <1>1, <1>2, <1>3, <1>4, <1>5, <1>6, <1>7, <1>8, <1>9, <1>10, <1>11 DEF Next
<1> QED BY <1>12

\* The detailed protocol implements its contract: an intent opens only when
\* nothing is unresolved, money moves only for the open intent and within the
\* ceiling, and the intent closes with its outcome or its durable run id.
THEOREM ContractImplemented == Spec => ImplementsContract
<1>1. Init => Contract!Init
  BY DEF Init, Absent, Contract!Init, Ceilings, Contract!Ceilings,
         Unknown, UnknownInFlight, Resumable, InFlight
<1>2. Inv /\ [Next]_vars => [Contract!Next]_<<Unknown(disk), billed, ceiling>>
  BY ContractStep
<1> QED BY <1>1, <1>2, Invariance, PTL DEF Spec, ImplementsContract, Contract!Spec, Contract!contractVars

=============================================================================
