--------------------------- MODULE PaidLifecycle ----------------------------
(***************************************************************************)
(* The protocol a paid stage follows around one provider call, as          *)
(* PaidOperationLifecycle (pipeline/paid_operations.py) and its callers    *)
(* write it: durable intent, call, usage event, durable outcome.  One      *)
(* process runs at a time; it may die between any two of these writes and  *)
(* the command may be run again with other ceilings.                       *)
(*                                                                         *)
(* A stage decides which operation comes next, so Begin, Continue and      *)
(* Resume leave the choice open.  M2Batch implements this module.          *)
(***************************************************************************)
EXTENDS PaidOperations

CONSTANTS
    Op,                 \* identities of paid operations
    Provider,           \* the services that charge
    ProviderOf,         \* Op -> Provider
    Reservation,        \* Op -> Nat: the worst case of one call
    ResumableProvider,  \* providers whose run ids can be polled again (Apify)
    CeilingChoices      \* the ceilings an invocation of the command may state

ASSUME LifecycleAssumption ==
    /\ ProviderOf \in [Op -> Provider]
    /\ Reservation \in [Op -> Nat]
    /\ ResumableProvider \subseteq Provider
    /\ CeilingChoices \subseteq [Provider -> Ceilings]
    /\ CeilingChoices # {}

VARIABLES
    disk,               \* the operation map in checkpoint.json
    mem,                \* the operation map of the running process
    ledger,             \* spend per provider in usage_events.jsonl
    tracker,            \* spend per provider the process replayed and recorded
    ceiling,            \* ceilings of the current invocation
    pc,                 \* where the process is
    cur,                \* the operation it is working on
    billed,             \* (history) what each provider has charged
    charge              \* (history) what the latest call of each operation cost

vars == <<disk, mem, ledger, tracker, ceiling, pc, cur, billed, charge>>

Entry == [state : OpStates, run : BOOLEAN]

Absent == [state |-> "none", run |-> FALSE]

Resumable(ops) ==
    {o \in Op : ProviderOf[o] \in ResumableProvider /\ ops[o].run}

Unknown(ops) == UnknownInFlight(ops, Resumable(ops))

Fits(o) ==
    ReservationFits(tracker[ProviderOf[o]], ceiling[ProviderOf[o]], Reservation[o])

TypeOK ==
    /\ disk \in [Op -> Entry]
    /\ mem \in [Op -> Entry]
    /\ ledger \in [Provider -> Totals]
    /\ tracker \in [Provider -> Totals]
    /\ ceiling \in CeilingChoices
    /\ pc \in {"down", "ready", "begun", "called", "recorded"}
    /\ cur \in Op
    /\ billed \in [Provider -> Nat]
    /\ charge \in [Op -> Nat]

Init ==
    /\ disk = [o \in Op |-> Absent]
    /\ mem = disk
    /\ ledger = [p \in Provider |-> NoSpend]
    /\ tracker = ledger
    /\ ceiling \in CeilingChoices
    /\ pc = "down"
    /\ cur \in Op
    /\ billed = [p \in Provider |-> 0]
    /\ charge = [o \in Op |-> 0]

-----------------------------------------------------------------------------
\* Mutant: starts in spite of an unknown outcome.
StartAnyway(c) ==
    /\ pc = "down"
    /\ pc' = "ready"
    /\ mem' = disk
    /\ tracker' = ledger
    /\ ceiling' = c
    /\ UNCHANGED <<disk, ledger, cur, billed, charge>>

\* Load the checkpoint, replay the ledger; an unknown outcome freezes the run.
Start(c) ==
    /\ pc = "down"
    /\ Unknown(disk) = {}
    /\ pc' = "ready"
    /\ mem' = disk
    /\ tracker' = ledger
    /\ ceiling' = c
    /\ UNCHANGED <<disk, ledger, cur, billed, charge>>

\* Admit the reservation and make the intent durable.
Begin(o) ==
    /\ pc = "ready"
    /\ mem[o].state # "in_flight"
    /\ ~mem[o].run
    /\ \A q \in InFlight(mem) : ProviderOf[q] # ProviderOf[o]
    /\ Fits(o)
    /\ mem' = [mem EXCEPT ![o] = [state |-> "in_flight", run |-> FALSE]]
    /\ disk' = mem'
    /\ pc' = "begun"
    /\ cur' = o
    /\ UNCHANGED <<ledger, tracker, ceiling, billed, charge>>

\* The call itself: the provider charges at most what was reserved for it.
Call(cost) ==
    /\ pc = "begun"
    /\ cost <= Reservation[cur]
    /\ billed' = [billed EXCEPT ![ProviderOf[cur]] = @ + cost]
    /\ charge' = [charge EXCEPT ![cur] = cost]
    /\ pc' = "called"
    /\ UNCHANGED <<disk, mem, ledger, tracker, ceiling, cur>>

\* The provider names its run before it ends: only the file learns of it.
RecordRun ==
    /\ pc = "called"
    /\ ProviderOf[cur] \in ResumableProvider
    /\ disk[cur].state = "in_flight"
    /\ disk' = [disk EXCEPT ![cur].run = TRUE]
    /\ UNCHANGED <<mem, ledger, tracker, ceiling, pc, cur, billed, charge>>

\* A later process asks for the outcome of a run whose id is durable.
Resume(o) ==
    /\ pc = "ready"
    /\ o \in Resumable(mem)
    /\ mem[o].state \in {"in_flight", "pending"}
    /\ pc' = "called"
    /\ cur' = o
    /\ UNCHANGED <<disk, mem, ledger, tracker, ceiling, billed, charge>>

\* Append the usage event, with the call's cost or without one.
RecordUsage(priced) ==
    LET p == ProviderOf[cur] IN
    /\ pc = "called"
    /\ tracker' = [tracker EXCEPT ![p] = AddEvent(@, priced, charge[cur])]
    /\ ledger' = [ledger EXCEPT ![p] = AddEvent(@, priced, charge[cur])]
    /\ pc' = "recorded"
    /\ UNCHANGED <<disk, mem, ceiling, cur, billed, charge>>

\* Another call of the same intent, admitted against the spend so far.
Continue ==
    /\ pc = "recorded"
    /\ mem[cur].state = "in_flight"
    /\ ~mem[cur].run
    /\ Fits(cur)
    /\ pc' = "begun"
    /\ disk' = mem
    /\ UNCHANGED <<mem, ledger, tracker, ceiling, cur, billed, charge>>

\* Make the known outcome durable; a successful resumable call also brings its run id.
Finish(state, run) ==
    /\ pc = "recorded"
    /\ state \in {"completed", "failed", "pending"}
    /\ run => ProviderOf[cur] \in ResumableProvider
    /\ mem' = [mem EXCEPT ![cur] = [state |-> state, run |-> mem[cur].run \/ run]]
    /\ disk' = mem'
    /\ pc' = "ready"
    /\ UNCHANGED <<ledger, tracker, ceiling, cur, billed, charge>>

\* Stop the stage between operations, or in the middle of an ambiguous one.
Pause ==
    /\ pc \in {"ready", "recorded"}
    /\ disk' = mem
    /\ pc' = "down"
    /\ UNCHANGED <<mem, ledger, tracker, ceiling, cur, billed, charge>>

\* The process dies; what it held in memory is gone.
Crash ==
    /\ pc # "down"
    /\ pc' = "down"
    /\ mem' = disk
    /\ tracker' = ledger
    /\ UNCHANGED <<disk, ledger, ceiling, cur, billed, charge>>

Next ==
    \/ \E c \in CeilingChoices : Start(c)
    \/ \E o \in Op : Begin(o) \/ Resume(o)
    \/ \E cost \in 0..Reservation[cur] : Call(cost)
    \/ RecordRun
    \/ \E priced \in BOOLEAN : RecordUsage(priced)
    \/ Continue
    \/ \E state \in {"completed", "failed", "pending"}, run \in BOOLEAN : Finish(state, run)
    \/ Pause
    \/ Crash

Spec == Init /\ [][Next]_vars

-----------------------------------------------------------------------------
(***************************************************************************)
(* Properties.                                                             *)
(***************************************************************************)

\* While a process runs, its operation map and replayed spend are those of
\* the files; only a run id the recorder wrote may be missing from memory.
MemoryMatchesFiles ==
    /\ pc # "down" => tracker = ledger
    /\ pc = "ready" => mem = disk
    /\ pc \in {"begun", "called", "recorded"} =>
         /\ \A o \in Op \ {cur} : mem[o] = disk[o]
         /\ mem[cur].state = disk[cur].state
         /\ mem[cur].run => disk[cur].run

\* A running process has at most its current operation unresolved, and each
\* provider has at most one intent open, however many processes died before.
OneOpenIntent ==
    /\ pc # "down" => Unknown(disk) \subseteq {cur}
    /\ pc = "ready" => Unknown(disk) = {}
    /\ pc = "begun" => disk[cur] = [state |-> "in_flight", run |-> FALSE] /\ mem[cur] = disk[cur]
    /\ \A o, q \in InFlight(disk) : ProviderOf[o] = ProviderOf[q] => o = q

\* The ledger never understates a bill by more than the one call whose event
\* a crash may have lost, and that call's operation is still in flight.
LedgerCoversBill ==
    \A p \in Provider : ~ledger[p].missing =>
        \/ billed[p] <= ledger[p].known
        \/ \E o \in InFlight(disk) :
              /\ ProviderOf[o] = p
              /\ billed[p] <= ledger[p].known + charge[o]
              /\ pc \in {"begun", "recorded"} => o # cur

\* An admitted call still fits when it is made.
AdmittedCallFits == pc = "begun" => Fits(cur)

\* The inductive invariant.
Inv ==
    /\ TypeOK
    /\ MemoryMatchesFiles
    /\ OneOpenIntent
    /\ LedgerCoversBill
    /\ AdmittedCallFits

\* Nothing a provider charges takes its bill past the ceiling in force, over
\* any number of crashes, reruns and changes of ceiling.
SpendWithinCeiling ==
    [][\A p \in Provider :
         billed'[p] # billed[p] => ceiling[p] = NoCeiling \/ billed'[p] <= ceiling[p]]_vars

\* The protocol implements its contract: an intent is open from its write to
\* its durable outcome or durable run id.
Contract == INSTANCE PaidContract WITH open <- Unknown(disk), limit <- ceiling

ImplementsContract == Contract!Spec

=============================================================================
