------------------------------ MODULE M2Batch -------------------------------
(***************************************************************************)
(* The company batch (pipeline/m2_batch.py): bounded discovery through Exa *)
(* and optionally Apify, deduplication, then Exa research and DeepSeek     *)
(* extraction of the selected companies, in order.  Every paid call goes   *)
(* through the protocol of PaidLifecycle.  A step is the code between two  *)
(* writes or calls that another process can observe, so a crash between    *)
(* any two of them is a Crash between two steps.                           *)
(*                                                                         *)
(* Rows, evidence and facts are data: the model keeps only whether they    *)
(* were stored.  What deduplication selects is the constant Companies.     *)
(***************************************************************************)
EXTENDS PaidOperations, Sequences, FiniteSets

CONSTANTS
    Plan,               \* discovery requests in plan order, Exa before Apify
    ApifyRequests,      \* those of the plan that Apify serves
    Companies,          \* the companies deduplication selects, in priority order
    Queries,            \* searches of one company's research catalog
    Reservation,        \* Op -> Nat: the worst case of one call
    Configs,            \* what an invocation may state: Apify adapter or not, ceilings
    MaxFaults,          \* bound: failed calls and crashes of a behavior
    TearAppends         \* bound: whether a crash may tear the append it interrupts

Requests == {Plan[i] : i \in 1..Len(Plan)}
CompanySet == {Companies[i] : i \in 1..Len(Companies)}
Provider == {"exa", "apify", "deepseek"}

Discovery(r) == <<"discovery", r>>
Research(c) == <<"research", c>>
Extraction(c) == <<"extraction", c>>

DiscoveryOps == {Discovery(r) : r \in Requests}
ApifyOps == {Discovery(r) : r \in ApifyRequests}
ResearchOps == {Research(c) : c \in CompanySet}
ExtractionOps == {Extraction(c) : c \in CompanySet}
Op == DiscoveryOps \cup ResearchOps \cup ExtractionOps

ProviderOf == [o \in Op |-> IF o \in ApifyOps THEN "apify"
                            ELSE IF o \in ExtractionOps THEN "deepseek" ELSE "exa"]

ASSUME BatchAssumption ==
    /\ Len(Plan) \in Nat \ {0}
    /\ Len(Companies) \in Nat
    /\ ApifyRequests \subseteq Requests
    /\ Queries \in Nat \ {0}
    /\ Reservation \in [Op -> Nat]
    /\ Configs \subseteq [apify : BOOLEAN, ceiling : [Provider -> Ceilings]]
    /\ MaxFaults \in Nat
    /\ TearAppends \in BOOLEAN

VARIABLES
    disk,               \* checkpoint.json
    mem,                \* the checkpoint object of the running process
    usage,              \* spend per provider in usage_events.jsonl
    tracker,            \* spend per provider the process replayed and recorded
    tails,              \* how the last line of each append-only file ends
    rows,               \* how often each request's rows are in companies_raw.jsonl
    snap,               \* latest snapshot per company in companies_extracted.jsonl
    pc, cur, answer,    \* the process: where it is, on which operation, with what outcome
    todo,               \* persisted Apify runs this process has yet to poll
    config,             \* the configuration it was invoked with
    faults,             \* failed calls and crashes so far
    billed, charge,     \* (history) see PaidLifecycle
    answered            \* (history) research queries whose answers are stored

files == <<usage, tails, rows, snap>>
history == <<billed, charge, answered>>
vars == <<disk, mem, tracker, files, pc, cur, answer, todo, config, faults, history>>

Entry == [state : OpStates, run : BOOLEAN, calls : 0..Queries]
Absent == [state |-> "none", run |-> FALSE, calls |-> 0]

Statuses == {"running", "paused_budget", "paused_retryable", "paused_unknown",
             "failed", "completed"}
Checkpoint == [status : Statuses, ops : [Op -> Entry], discovery : BOOLEAN, dedup : BOOLEAN]

\* How a call ends: its result; a refusal that is safe to retry; a lost
\* answer; an exhausted balance; an error that a retry cannot cure.
Failures == {"retryable", "ambiguous", "exhausted", "fatal"}

Snapshot == [research : {"none", "in_progress", "completed"},
             evidence : BOOLEAN, extracted : BOOLEAN]

Tails == [{"usage", "rows"} -> {"clean", "torn", "glued"}]

TypeOK ==
    /\ disk \in Checkpoint /\ mem \in Checkpoint
    /\ usage \in [Provider -> Totals] /\ tracker \in [Provider -> Totals]
    /\ tails \in Tails
    /\ rows \in [Requests -> Nat]
    /\ snap \in [CompanySet -> Snapshot]
    /\ pc \in {"down", "loop", "begun", "started", "polling", "called", "recorded",
               "answered", "saved", "stored", "failing"}
    /\ cur \in Op
    /\ answer \in Failures \cup {"ok", "none"}
    /\ todo \subseteq ApifyOps
    /\ config \in Configs
    /\ faults \in 0..MaxFaults
    /\ billed \in [Provider -> Nat] /\ charge \in [Op -> Nat]
    /\ answered \in [CompanySet -> SUBSET (0..(Queries - 1))]

Init ==
    /\ disk = [status |-> "running", ops |-> [o \in Op |-> Absent],
               discovery |-> FALSE, dedup |-> FALSE]
    /\ mem = disk
    /\ usage = [p \in Provider |-> NoSpend] /\ tracker = usage
    /\ tails = [f \in {"usage", "rows"} |-> "clean"]
    /\ rows = [r \in Requests |-> 0]
    /\ snap = [c \in CompanySet |->
                 [research |-> "none", evidence |-> FALSE, extracted |-> FALSE]]
    /\ pc = "down" /\ answer = "none" /\ todo = {} /\ faults = 0
    /\ cur = Discovery(Plan[1])
    /\ config \in Configs
    /\ billed = [p \in Provider |-> 0] /\ charge = [o \in Op |-> 0]
    /\ answered = [c \in CompanySet |-> {}]

-----------------------------------------------------------------------------
(***************************************************************************)
(* Choosing the next operation.                                            *)
(***************************************************************************)
\* Mutant: takes every Apify operation for a resumable run.
RunsAssumed(ops) == ApifyOps

Runs(ops) == {o \in ApifyOps : ops[o].run}

\* In-flight operations that freeze the run: all but Apify runs with a known id.
Unknown(ops) == UnknownInFlight(ops, Runs(ops))

\* The Apify requests are planned only with an adapter and a nonzero budget.
ApifyPlanned == config.apify /\ config.ceiling["apify"] # 0

PlannedOps == {o \in DiscoveryOps : o \in ApifyOps => ApifyPlanned}

Skipped(o) ==
    \/ mem.ops[o].state \in {"completed", "failed"}
    \/ o \in Runs(mem.ops) /\ mem.ops[o].state = "pending"

\* Mutant: counts failed runs as pending.
PendingOrFailedRuns == {o \in Runs(mem.ops) : mem.ops[o].state \in {"pending", "failed"}}

PendingRuns == {o \in Runs(mem.ops) : mem.ops[o].state = "pending"}

FirstRequest(ops) ==
    Discovery(Plan[CHOOSE i \in 1..Len(Plan) :
        /\ Discovery(Plan[i]) \in ops
        /\ \A j \in 1..(i - 1) : Discovery(Plan[j]) \notin ops])

UnfinishedRequests == {o \in PlannedOps : ~Skipped(o)}

UnfinishedCompanies == {i \in 1..Len(Companies) : ~snap[Companies[i]].extracted}

NextCompany ==
    Companies[CHOOSE i \in UnfinishedCompanies : \A j \in UnfinishedCompanies : i <= j]

\* The phase the process is in, between two operations.
Phase ==
    IF ~mem.discovery THEN "discovery"
    ELSE IF ~mem.dedup THEN "dedup"
    ELSE IF UnfinishedCompanies # {} THEN "companies" ELSE "done"

\* Mutant: looks at the evidence before research is complete.
NoEvidenceYet == Phase = "companies" /\ ~snap[NextCompany].evidence

NoEvidenceLeft ==
    /\ Phase = "companies"
    /\ snap[NextCompany].research = "completed"
    /\ ~snap[NextCompany].evidence

\* The operation the process works on next, if it has one.
IsNext(o) ==
    \/ /\ Phase = "discovery"
       /\ UnfinishedRequests # {}
       /\ o = FirstRequest(UnfinishedRequests)
    \/ /\ Phase = "companies" /\ ~NoEvidenceLeft
       /\ o = IF snap[NextCompany].research = "completed"
              THEN Extraction(NextCompany) ELSE Research(NextCompany)

Fits(o) ==
    ReservationFits(tracker[ProviderOf[o]], config.ceiling[ProviderOf[o]], Reservation[o])

-----------------------------------------------------------------------------
(***************************************************************************)
(* Writes of the checkpoint.  A pause ends the invocation.                 *)
(***************************************************************************)
Save(checkpoint) == mem' = checkpoint /\ disk' = checkpoint

WithState(o, state) == [mem EXCEPT !.ops[o].state = state]

Pause(status) ==
    /\ Save([mem EXCEPT !.status = status])
    /\ pc' = "down" /\ answer' = "none" /\ todo' = {}

-----------------------------------------------------------------------------
(***************************************************************************)
(* Starting: run_m2_batch.                                                 *)
(***************************************************************************)
\* A finished run is returned as it is, and a ledger that cannot be replayed raises.
CanStart ==
    /\ pc = "down"
    /\ disk.status \notin {"failed", "completed"}
    /\ tails["usage"] # "glued"

Start(cfg) ==
    /\ CanStart
    /\ Unknown(disk.ops) = {}
    /\ config' = cfg
    /\ mem' = disk
    /\ tracker' = usage
    /\ todo' = IF cfg.apify /\ ~disk.discovery
               THEN {o \in ApifyOps : disk.ops[o].state \in {"in_flight", "pending"}}
               ELSE {}
    /\ pc' = "loop"
    /\ UNCHANGED <<disk, files, cur, answer, faults, history>>

\* An operation left in flight by a dead process freezes every later one.
Freeze ==
    /\ CanStart
    /\ Unknown(disk.ops) # {}
    /\ disk' = [disk EXCEPT !.status = "paused_unknown"]
    /\ mem' = disk'
    /\ UNCHANGED <<tracker, files, pc, cur, answer, todo, config, faults, history>>

-----------------------------------------------------------------------------
(***************************************************************************)
(* Persisted Apify runs are polled first: _resume_apify_if_needed.         *)
(***************************************************************************)
ResumeApify ==
    LET o == FirstRequest(todo) IN
    /\ pc = "loop" /\ todo # {}
    /\ IF ~mem.ops[o].run
       THEN Pause("paused_unknown") /\ UNCHANGED cur
       ELSE IF ~ApifyPlanned
       THEN Pause("failed") /\ UNCHANGED cur
       ELSE /\ cur' = o
            /\ todo' = todo \ {o}
            /\ pc' = "polling"
            /\ UNCHANGED <<mem, disk, answer>>
    /\ UNCHANGED <<tracker, files, config, faults, history>>

-----------------------------------------------------------------------------
(***************************************************************************)
(* Between operations.                                                     *)
(***************************************************************************)
\* Every planned request is settled or has a pending Apify run.
EndDiscovery ==
    /\ pc = "loop" /\ todo = {}
    /\ Phase = "discovery" /\ UnfinishedRequests = {}
    /\ IF PendingRuns # {}
       THEN Pause("paused_retryable")
       ELSE /\ Save([mem EXCEPT !.discovery = TRUE])
            /\ UNCHANGED <<pc, answer, todo>>
    /\ UNCHANGED <<tracker, files, cur, config, faults, history>>

\* Deduplication reads every stored row; a row glued to a torn one raises.
Deduplicate ==
    /\ pc = "loop" /\ Phase = "dedup"
    /\ IF tails["rows"] = "glued"
       THEN pc' = "down" /\ mem' = disk /\ tracker' = usage /\ UNCHANGED disk
       ELSE Save([mem EXCEPT !.dedup = TRUE]) /\ UNCHANGED <<pc, tracker>>
    /\ UNCHANGED <<files, cur, answer, todo, config, faults, history>>

\* The batch ends with its last company, or at the first one without evidence.
Complete ==
    /\ pc = "loop" /\ (Phase = "done" \/ NoEvidenceLeft)
    /\ Pause("completed")
    /\ UNCHANGED <<tracker, files, cur, config, faults, history>>

\* A call that does not fit its budget pauses the run.
PauseForBudget ==
    /\ pc = "loop" /\ todo = {}
    /\ \E o \in Op : IsNext(o) /\ ~Fits(o)
    /\ Pause("paused_budget")
    /\ UNCHANGED <<tracker, files, cur, config, faults, history>>

\* Mutant: a new research intent forgets which queries were answered.
BeginAfresh ==
    /\ pc = "loop" /\ todo = {}
    /\ \E o \in Op :
         /\ IsNext(o) /\ Fits(o)
         /\ cur' = o
         /\ Save([mem EXCEPT !.status = "running",
                             !.ops[o] = [Absent EXCEPT !.state = "in_flight"]])
    /\ pc' = "begun"
    /\ UNCHANGED <<tracker, files, answer, todo, config, faults, history>>

\* Mutant: the intent is kept in memory only.
BeginUnsaved ==
    /\ pc = "loop" /\ todo = {}
    /\ \E o \in Op :
         /\ IsNext(o) /\ Fits(o)
         /\ cur' = o
         /\ mem' = [mem EXCEPT !.status = "running",
                              !.ops[o] = [@ EXCEPT !.state = "in_flight", !.run = FALSE]]
    /\ pc' = "begun"
    /\ UNCHANGED <<disk, tracker, files, answer, todo, config, faults, history>>

\* Durable intent: a research intent keeps its cursor of answered queries.
Begin ==
    /\ pc = "loop" /\ todo = {}
    /\ \E o \in Op :
         /\ IsNext(o) /\ Fits(o)
         /\ cur' = o
         /\ Save([mem EXCEPT !.status = "running",
                             !.ops[o] = [state |-> "in_flight", run |-> FALSE,
                                         calls |-> IF o \in ResearchOps THEN @.calls ELSE 0]])
    /\ pc' = "begun"
    /\ UNCHANGED <<tracker, files, answer, todo, config, faults, history>>

-----------------------------------------------------------------------------
(***************************************************************************)
(* The provider call.                                                      *)
(***************************************************************************)
\* A failed call uses up one fault of the bound.
Answers(outcome) ==
    /\ outcome = "ok" \/ faults < MaxFaults
    /\ answer' = outcome
    /\ faults' = IF outcome = "ok" THEN faults ELSE faults + 1

Bill(cost) ==
    /\ billed' = [billed EXCEPT ![ProviderOf[cur]] = @ + cost]
    /\ charge' = [charge EXCEPT ![cur] = cost]
    /\ UNCHANGED answered

\* Exa and DeepSeek answer the request that carries the work.
Call(outcome, cost) ==
    /\ pc = "begun" /\ cur \notin ApifyOps
    /\ Answers(outcome) /\ Bill(cost)
    /\ pc' = "called"
    /\ UNCHANGED <<mem, disk, tracker, files, cur, todo, config>>

\* Apify starts an Actor run, or refuses, or the answer to the start is lost.
StartRun(outcome, cost) ==
    /\ pc = "begun" /\ cur \in ApifyOps
    /\ Answers(outcome) /\ Bill(cost)
    /\ pc' = IF outcome = "ok" THEN "started" ELSE "called"
    /\ UNCHANGED <<mem, disk, tracker, files, cur, todo, config>>

\* The recorder loads the checkpoint file, adds the run id and writes it back.
RecordRun ==
    /\ pc = "started"
    /\ disk' = [disk EXCEPT !.ops[cur].run = TRUE]
    /\ pc' = "polling"
    /\ UNCHANGED <<mem, tracker, files, cur, answer, todo, config, faults, history>>

\* The run ends or the adapter gives up asking.
Poll(outcome) ==
    /\ pc = "polling"
    /\ Answers(outcome)
    /\ pc' = "called"
    /\ UNCHANGED <<mem, disk, tracker, files, cur, todo, config, history>>

\* Append the usage event; a failed call states no cost, a result may lack one.
RecordUsage(priced) ==
    LET p == ProviderOf[cur] IN
    /\ pc = "called"
    /\ priced => answer = "ok"
    /\ usage' = [usage EXCEPT ![p] = AddEvent(@, priced, charge[cur])]
    /\ tracker' = [tracker EXCEPT ![p] = AddEvent(@, priced, charge[cur])]
    /\ tails' = [tails EXCEPT !["usage"] = IF @ = "torn" THEN "glued" ELSE @]
    /\ pc' = "recorded"
    /\ UNCHANGED <<mem, disk, rows, snap, cur, answer, todo, config, faults, history>>

-----------------------------------------------------------------------------
(***************************************************************************)
(* A result: outputs first, then the durable outcome.                      *)
(***************************************************************************)
StoreRows(r) ==
    /\ pc = "recorded" /\ answer = "ok" /\ cur = Discovery(r)
    /\ rows' = [rows EXCEPT ![r] = @ + 1]
    /\ tails' = [tails EXCEPT !["rows"] = IF @ = "torn" THEN "glued" ELSE @]
    /\ pc' = "stored"
    /\ UNCHANGED <<mem, disk, tracker, usage, snap, cur, answer, todo, config, faults, history>>

StoreFacts(c) ==
    /\ pc = "recorded" /\ answer = "ok" /\ cur = Extraction(c)
    /\ snap' = [snap EXCEPT ![c].extracted = TRUE]
    /\ pc' = "stored"
    /\ UNCHANGED <<mem, disk, tracker, usage, tails, rows, cur, answer, todo, config, faults, history>>

\* persist_progress: the evidence of one query, then the cursor.
StoreEvidence(c, found) ==
    /\ pc = "recorded" /\ answer = "ok" /\ cur = Research(c)
    /\ snap' = [snap EXCEPT ![c].research = "in_progress", ![c].evidence = @ \/ found]
    /\ answered' = [answered EXCEPT ![c] = @ \cup {mem.ops[cur].calls}]
    /\ pc' = "answered"
    /\ UNCHANGED <<mem, disk, tracker, usage, tails, rows, cur, answer, todo, config, faults,
                   billed, charge>>

SaveProgress ==
    /\ pc = "answered"
    /\ Save([mem EXCEPT !.ops[cur].calls = @ + 1])
    /\ pc' = "saved"
    /\ UNCHANGED <<tracker, files, cur, answer, todo, config, faults, history>>

\* Mutant: one query too many.
NextQueryPastEnd ==
    /\ pc = "saved" /\ mem.ops[cur].calls <= Queries
    /\ Fits(cur)
    /\ pc' = "begun"
    /\ answer' = "none"
    /\ UNCHANGED <<mem, disk, tracker, files, cur, todo, config, faults, history>>

\* The next query is admitted against the spend so far, within the same intent.
NextQuery ==
    /\ pc = "saved" /\ mem.ops[cur].calls < Queries
    /\ Fits(cur)
    /\ pc' = "begun"
    /\ answer' = "none"
    /\ UNCHANGED <<mem, disk, tracker, files, cur, todo, config, faults, history>>

\* _ResearchBudgetPause: the operation waits, with its cursor, for a later run.
StopQueries ==
    /\ pc = "saved" /\ mem.ops[cur].calls < Queries
    /\ ~Fits(cur)
    /\ Save(WithState(cur, "pending"))
    /\ answer' = "exhausted"
    /\ pc' = "failing"
    /\ UNCHANGED <<tracker, files, cur, todo, config, faults, history>>

StoreResearch(c) ==
    /\ pc = "saved" /\ mem.ops[cur].calls = Queries /\ cur = Research(c)
    /\ snap' = [snap EXCEPT ![c].research = "completed"]
    /\ pc' = "stored"
    /\ UNCHANGED <<mem, disk, tracker, usage, tails, rows, cur, answer, todo, config, faults, history>>

\* Mutant: settles the operation before its output is stored.
FinishEarly ==
    /\ pc \in {"recorded", "stored"} /\ answer = "ok"
    /\ Save(WithState(cur, "completed"))
    /\ pc' = "loop" /\ answer' = "none"
    /\ UNCHANGED <<tracker, files, cur, todo, config, faults, history>>

\* A completed Apify operation also keeps the run id its result names.
FinishCompleted ==
    /\ pc = "stored"
    /\ Save([mem EXCEPT !.ops[cur].state = "completed",
                        !.ops[cur].run = @ \/ cur \in ApifyOps])
    /\ pc' = "loop" /\ answer' = "none"
    /\ UNCHANGED <<tracker, files, cur, todo, config, faults, history>>

-----------------------------------------------------------------------------
(***************************************************************************)
(* A failure.  Only a resumed operation has its run id in memory.          *)
(***************************************************************************)
Failed == pc = "recorded" /\ answer \in Failures

Resumed == mem.ops[cur].run

\* The outcome may have been paid for: leave the intent open and stop.
LeaveUnknown ==
    /\ Failed /\ ~Resumed
    /\ answer = "ambiguous" \/ (cur \in ApifyOps /\ answer = "retryable")
    /\ Pause("paused_unknown")
    /\ UNCHANGED <<tracker, files, cur, config, faults, history>>

\* Apify is optional: its failure settles or parks the operation, and the batch goes on.
FinishApify ==
    /\ Failed /\ cur \in ApifyOps
    /\ Resumed \/ answer \in {"exhausted", "fatal"}
    /\ Save(WithState(cur, IF answer = "retryable" THEN "pending" ELSE "failed"))
    /\ pc' = "loop" /\ answer' = "none"
    /\ UNCHANGED <<tracker, files, cur, todo, config, faults, history>>

\* Exa and DeepSeek are required: settle the operation, then stop the run.
FinishRequired ==
    /\ Failed /\ cur \notin ApifyOps /\ answer # "ambiguous"
    /\ Save(WithState(cur, IF answer = "fatal" THEN "failed" ELSE "pending"))
    /\ pc' = "failing"
    /\ UNCHANGED <<tracker, files, cur, answer, todo, config, faults, history>>

StopRun ==
    /\ pc = "failing"
    /\ Pause(CASE answer = "exhausted" -> "paused_budget"
               [] answer = "fatal" -> "failed"
               [] answer = "retryable" -> "paused_retryable")
    /\ UNCHANGED <<tracker, files, cur, config, faults, history>>

-----------------------------------------------------------------------------
(***************************************************************************)
(* The process dies, perhaps in the middle of an append.                   *)
(***************************************************************************)
Die ==
    /\ pc # "down" /\ faults < MaxFaults
    /\ faults' = faults + 1
    /\ pc' = "down" /\ answer' = "none" /\ todo' = {}
    /\ mem' = disk /\ tracker' = usage
    /\ UNCHANGED <<disk, usage, rows, snap, cur, config, history>>

Crash == Die /\ UNCHANGED tails

TornAppend(f) ==
    /\ TearAppends
    /\ \/ f = "usage" /\ pc = "called"
       \/ f = "rows" /\ pc = "recorded" /\ answer = "ok" /\ cur \in DiscoveryOps
    /\ Die
    /\ tails' = [tails EXCEPT ![f] = IF @ = "clean" THEN "torn" ELSE @]

-----------------------------------------------------------------------------
Process ==
    \/ ResumeApify \/ EndDiscovery \/ Deduplicate \/ Complete \/ PauseForBudget \/ Begin
    \/ RecordRun \/ SaveProgress \/ NextQuery \/ StopQueries \/ FinishCompleted
    \/ LeaveUnknown \/ FinishApify \/ FinishRequired \/ StopRun
    \/ \E priced \in BOOLEAN : RecordUsage(priced)
    \/ \E r \in Requests : StoreRows(r)
    \/ \E c \in CompanySet : StoreFacts(c) \/ StoreResearch(c)
    \/ \E c \in CompanySet, found \in BOOLEAN : StoreEvidence(c, found)

Outcomes == Failures \cup {"ok"}

\* What the providers answer.  A poll of an Apify run, a loop with a deadline of
\* five minutes (discovery/apify.py:171), is one answer.
Environment ==
    \/ \E outcome \in Outcomes, cost \in 0..Reservation[cur] :
          Call(outcome, cost) \/ StartRun(outcome, cost)
    \/ \E outcome \in Outcomes : Poll(outcome)

Launch == Freeze \/ \E cfg \in Configs : Start(cfg)

Next ==
    \/ Launch \/ Process \/ Environment
    \/ Crash \/ \E f \in {"usage", "rows"} : TornAppend(f)

Spec == Init /\ [][Next]_vars

\* The process runs until it exits, calls return (the adapters set timeouts and
\* the poll of a run its deadline), and somebody runs the command again while it
\* can still do something.
FairSpec ==
    /\ Spec
    /\ WF_vars(Process)
    /\ WF_vars(Environment)
    /\ WF_vars(Launch)

-----------------------------------------------------------------------------
(***************************************************************************)
(* Properties.                                                             *)
(***************************************************************************)

\* The batch follows the paid-operation protocol: one intent at a time,
\* admitted against the replayed ledger, nothing after an unknown outcome.
Entries(ops) == [o \in Op |-> [state |-> ops[o].state, run |-> ops[o].run]]

LifecyclePc ==
    CASE pc = "down" -> "down"
      [] pc \in {"loop", "failing"} -> "ready"
      [] pc = "begun" -> "begun"
      [] pc \in {"started", "polling", "called"} -> "called"
      [] OTHER -> "recorded"

Lifecycle ==
    INSTANCE PaidLifecycle
    WITH disk <- Entries(disk.ops), mem <- Entries(mem.ops), ledger <- usage,
         ceiling <- config.ceiling, pc <- LifecyclePc,
         ResumableProvider <- {"apify"}, CeilingChoices <- {cfg.ceiling : cfg \in Configs}

FollowsLifecycle == Lifecycle!Spec

\* An operation is marked completed only after everything it bought is
\* durable, so no crash can lose paid output.
CompletedHasOutput ==
    /\ \A r \in Requests : disk.ops[Discovery(r)].state = "completed" => rows[r] > 0
    /\ \A c \in CompanySet :
         /\ disk.ops[Research(c)].state = "completed" =>
              snap[c].research = "completed" /\ answered[c] = 0..(Queries - 1)
         /\ disk.ops[Extraction(c)].state = "completed" => snap[c].extracted
         /\ snap[c].extracted => disk.ops[Extraction(c)].state \in {"in_flight", "completed"}

\* Output that is stored is never bought again: no search for rows, query or
\* extraction starts when its answer is already on disk.
StoredIsNeverBoughtAgain ==
    [][ pc = "begun" /\ pc' \in {"called", "started"} =>
          /\ \A r \in Requests : cur = Discovery(r) => rows[r] = 0
          /\ \A c \in CompanySet :
               /\ cur = Research(c) => mem.ops[cur].calls \notin answered[c]
               /\ cur = Extraction(c) => ~snap[c].extracted ]_vars

\* A batch reports completion only when it reached the end of its list or a
\* company without evidence, with every company before it extracted.
CompletedIsComplete ==
    disk.status = "completed" =>
        \E n \in 0..Len(Companies) :
            /\ \A i \in 1..n : snap[Companies[i]].extracted
            /\ n < Len(Companies) =>
                 LET s == snap[Companies[n + 1]] IN
                 s.research = "completed" /\ ~s.evidence /\ ~s.extracted

\* Once faults stop, rerunning the command settles the batch: it completes,
\* fails, freezes on an unknown outcome or waits for a larger budget, and
\* never keeps reporting a retryable pause.
RerunsSettle ==
    <>[](disk.status \in {"completed", "failed", "paused_unknown", "paused_budget"})

\* The specs say of an Apify run id: "persist the returned Actor run ID
\* immediately and resume polling that same run".
RunIdIsKept == [][\A o \in ApifyOps : disk.ops[o].run => disk'.ops[o].run]_vars

\* "Authentication/invalid configuration exits failed": the batch does not go
\* past discovery without a required request.
RequiredRequestsSucceed ==
    disk.discovery => \A o \in DiscoveryOps \ ApifyOps : disk.ops[o].state = "completed"

-----------------------------------------------------------------------------
(***************************************************************************)
(* The inductive invariant, in named parts.                                *)
(***************************************************************************)
\* The process is working on the operation cur.
Busy == pc \notin {"down", "loop", "failing"}

\* The running process sees the files, but for the run id the recorder wrote
\* behind its back.
MemoryFollowsDisk ==
    /\ pc # "down" => tracker = usage
    /\ pc \notin {"polling", "called", "recorded", "stored"} => mem = disk
    /\ mem.status = disk.status /\ mem.discovery = disk.discovery /\ mem.dedup = disk.dedup
    /\ \A o \in Op :
         \/ mem.ops[o] = disk.ops[o]
         \/ /\ o = cur /\ o \in ApifyOps /\ disk.ops[o].run /\ ~mem.ops[o].run
            /\ mem.ops[o].state = disk.ops[o].state /\ mem.ops[o].calls = disk.ops[o].calls

\* Only Apify operations have a run id, and one that waits has it.
RunIdsAreApify ==
    \A o \in Op :
        /\ disk.ops[o].run => o \in ApifyOps /\ disk.ops[o].state # "none"
        /\ o \in ApifyOps /\ disk.ops[o].state = "pending" => disk.ops[o].run

\* What the process works on is unsettled, and waiting only if it was resumed.
CurrentIsOpen ==
    /\ Busy =>
         /\ mem.ops[cur].state \in {"in_flight", "pending"}
         /\ ~mem.ops[cur].run => mem.ops[cur].state = "in_flight"
         /\ cur \notin todo
    /\ pc \in {"begun", "started"} => ~mem.ops[cur].run
    /\ pc \in {"started", "polling"} => cur \in ApifyOps
    /\ pc = "polling" => disk.ops[cur].run
    /\ pc \in {"answered", "saved"} => cur \in ResearchOps
    /\ pc = "failing" => answer \in {"exhausted", "fatal", "retryable"}

\* A running process has nothing unresolved but cur, and with an adapter it
\* polls every Apify run left in flight before it plans a new one.
OthersAreResolved ==
    pc # "down" =>
        /\ \A o \in todo : o \in ApifyOps /\ disk.ops[o].state \in {"in_flight", "pending"}
        /\ \A o \in Op : disk.ops[o].state = "in_flight" =>
             \/ Busy /\ o = cur
             \/ /\ o \in ApifyOps /\ disk.ops[o].run
                /\ config.apify /\ ~disk.discovery => o \in todo

\* Rows are stored by an operation that was begun, and nothing that could
\* search again has any.
RowsFollowState ==
    \A r \in Requests :
        LET o == Discovery(r) IN
        /\ disk.ops[o].state = "completed" => rows[r] > 0
        /\ rows[r] > 0 =>
             /\ disk.ops[o].state # "none"
             /\ o \notin ApifyOps => disk.ops[o].state # "pending"
        /\ cur = o /\ pc = "stored" => rows[r] > 0
        /\ cur = o /\ (pc = "begun" \/ (pc \in {"called", "recorded"} /\ o \notin ApifyOps)) =>
             rows[r] = 0

FactsFollowState ==
    \A c \in CompanySet :
        LET o == Extraction(c) IN
        /\ disk.ops[o].state = "completed" => snap[c].extracted
        /\ snap[c].extracted => disk.ops[o].state \in {"in_flight", "completed"}
        /\ cur = o /\ pc = "stored" => snap[c].extracted
        /\ cur = o /\ pc \in {"begun", "called", "recorded"} => ~snap[c].extracted

\* The cursor of a research operation counts the queries whose answers are
\* stored; between the answer and the cursor it is one behind.
CursorFollowsAnswers ==
    \A c \in CompanySet :
        LET o == Research(c)
            e == disk.ops[o]
            upToCursor == answered[c] = 0..(e.calls - 1)
        IN
        /\ e.state \notin {"in_flight", "completed"} => upToCursor /\ e.calls < Queries
        /\ e.state = "completed" => snap[c].research = "completed"
        /\ snap[c].research = "completed" =>
             /\ answered[c] = 0..(Queries - 1)
             /\ e.state \in {"in_flight", "completed"}
        /\ cur = o /\ pc \in {"begun", "called", "recorded"} =>
             upToCursor /\ e.calls < Queries /\ snap[c].research # "completed"
        /\ cur = o /\ pc = "answered" =>
             answered[c] = 0..e.calls /\ e.calls < Queries /\ snap[c].research # "completed"
        /\ cur = o /\ pc = "saved" => upToCursor /\ snap[c].research # "completed"
        /\ cur = o /\ pc = "stored" => snap[c].research = "completed"

\* A process that reported completion has exited.
CompletionIsFinal == disk.status = "completed" => pc = "down"

BatchInv ==
    /\ TypeOK
    /\ MemoryFollowsDisk
    /\ RunIdsAreApify
    /\ CurrentIsOpen
    /\ OthersAreResolved
    /\ RowsFollowState
    /\ FactsFollowState
    /\ CursorFollowsAnswers
    /\ CompletionIsFinal
    /\ CompletedIsComplete

=============================================================================
