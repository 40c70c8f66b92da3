------------------------- MODULE ContactEnrichment --------------------------
(***************************************************************************)
(* The contact stage (pipeline/contact_enrichment.py): an Exa people       *)
(* search per accepted company, one asynchronous Clay run for the paid     *)
(* contacts, an Apollo lookup for those without an email, an Instantly     *)
(* verification of every email.  The stage is bound to one snapshot of the *)
(* company decisions, which another command may replace at any time.       *)
(*                                                                         *)
(* A step is the code between two writes or calls another process can see. *)
(* People are data: the model keeps who is published, who has an email,    *)
(* whose Clay attempt is complete and what the verification said.  The     *)
(* process replays contact_usage_events.jsonl when it starts and appends   *)
(* to it itself, so its own totals are those of the file: usage is both.   *)
(***************************************************************************)
EXTENDS PaidOperations, FiniteSets

CONSTANTS
    Companies,          \* numbered in the order of their ids
    Contacts,           \* possible paid contacts, numbered by company and decision order
    CompanyOf,          \* Contacts -> Companies
    Snapshots,          \* versions of companies_evaluated.jsonl, told apart by fingerprint
    AcceptedIn,         \* Snapshots -> SUBSET Companies
    NoSnapshot,         \* a checkpoint that is not bound yet
    MaxPaid,            \* max_paid_contacts_per_company
    Configs,            \* what an invocation may state: ceilings, batch size, read cap
    MaxFaults,          \* bound: failed or pending answers and crashes of a behavior
    MaxChanges          \* bound: new decisions and changes of the M2 checkpoint

Provider == {"exa", "clay", "apollo", "instantly"}

Exa(c) == <<"exa", c>>
Clay == <<"clay", 0>>
Apollo(k) == <<"apollo", k>>
Instantly(k) == <<"instantly", k>>

Op == {Exa(c) : c \in Companies} \cup {Clay}
        \cup {Apollo(k) : k \in Contacts} \cup {Instantly(k) : k \in Contacts}

ProviderOf == [o \in Op |-> o[1]]

ASSUME ContactAssumption ==
    /\ Companies \subseteq Nat /\ Contacts \subseteq Nat
    /\ CompanyOf \in [Contacts -> Companies]
    /\ AcceptedIn \in [Snapshots -> SUBSET Companies]
    /\ NoSnapshot \notin Snapshots
    /\ MaxPaid \in Nat
    /\ Configs \subseteq [ceiling : [Provider -> Ceilings], batch : Nat, reads : Ceilings]
    /\ \A cfg \in Configs : cfg.ceiling["clay"] = NoCeiling
    /\ MaxFaults \in Nat /\ MaxChanges \in Nat

VARIABLES
    disk,               \* contact_checkpoint.json
    mem,                \* the checkpoint object of the running process
    file,               \* contacts.jsonl, and leads.csv made from it
    people,             \* the contacts the process holds
    usage,              \* spend per provider in contact_usage_events.jsonl
    reads,              \* status reads per operation recorded there
    m3,                 \* the current snapshot of company decisions
    m2Frozen,           \* whether M2's checkpoint holds an unresolved paid operation
    pc, cur, answer,    \* the process: where it is, on which operation, with what answer
    left,               \* companies or contacts the current pass has yet to visit
    capHit,             \* whether a paid contact was left out of the Clay batch
    config,             \* the configuration of the invocation
    faults, changes,    \* failures and outside changes so far
    billed, charge,     \* (history) what each provider charged; the unrecorded part of it
    bought,             \* (history) operations called since the stage was bound
    dispatched,         \* (history) status reads sent for each operation
    steady              \* (history) no new decisions since the process started

process == <<pc, cur, answer, left, capHit, config>>
ledger == <<usage, reads>>
world == <<m3, m2Frozen, changes>>
history == <<billed, charge, bought, dispatched, steady>>
vars == <<disk, mem, file, people, ledger, world, process, faults, history>>

Statuses == {"running", "completed", "paused_budget", "paused_pending", "paused_unknown"}

NoReason == <<"none">>
Reasons == {NoReason, <<"m2_unknown_in_flight">>, <<"clay_start">>, <<"clay_start_unknown">>,
            <<"clay_pending">>, <<"clay_authorization_changed">>, <<"exa_people_budget">>,
            <<"clay_max_contacts">>, <<"apollo_credit_cap">>, <<"instantly_call_cap">>} \cup Op

Entry == [state : OpStates, admitted : Nat]
Absent == [state |-> "none", admitted |-> 0]

\* selected joins the contact_ids of the Exa operations, batch is Clay's.
Checkpoint == [status : Statuses, reason : Reasons, bound : Snapshots \cup {NoSnapshot},
               ops : [Op -> Entry], selected : SUBSET Contacts, batch : SUBSET Contacts]

Contact == [known : BOOLEAN, email : BOOLEAN, clay : BOOLEAN,
            verdict : {"none", "pending", "settled"}]

Nobody == [k \in Contacts |->
             [known |-> FALSE, email |-> FALSE, clay |-> FALSE, verdict |-> "none"]]

\* A result; an asynchronous run that has not ended; an exhausted balance; any other error.
Answers == {"ok", "pending", "exhausted", "error"}

TypeOK ==
    /\ disk \in Checkpoint /\ mem \in Checkpoint
    /\ file \in [Contacts -> Contact] /\ people \in [Contacts -> Contact]
    /\ usage \in [Provider -> Totals] /\ reads \in [Op -> Nat]
    /\ m3 \in Snapshots /\ m2Frozen \in BOOLEAN
    /\ pc \in {"down", "resetting", "begun", "called", "recorded", "stored", "pausing",
               "saving"} \cup Provider
    /\ cur \in Op
    /\ answer \in Answers \cup {"none"}
    /\ left \subseteq Companies \cup Contacts
    /\ capHit \in BOOLEAN
    /\ config \in Configs
    /\ faults \in 0..MaxFaults /\ changes \in 0..MaxChanges
    /\ billed \in [Provider -> Nat] /\ charge \in Nat
    /\ bought \subseteq Op
    /\ dispatched \in [Op -> Nat]
    /\ steady \in BOOLEAN

Init ==
    /\ disk = [status |-> "running", reason |-> NoReason, bound |-> NoSnapshot,
               ops |-> [o \in Op |-> Absent], selected |-> {}, batch |-> {}]
    /\ mem = disk
    /\ file = Nobody /\ people = Nobody
    /\ usage = [p \in Provider |-> NoSpend] /\ reads = [o \in Op |-> 0]
    /\ m3 \in Snapshots /\ m2Frozen = FALSE /\ changes = 0
    /\ pc = "down" /\ answer = "none" /\ left = {} /\ capHit = FALSE
    /\ cur = Clay
    /\ config \in Configs
    /\ faults = 0
    /\ billed = [p \in Provider |-> 0] /\ charge = 0
    /\ bought = {} /\ dispatched = [o \in Op |-> 0] /\ steady = TRUE

-----------------------------------------------------------------------------
(***************************************************************************)
(* Loading and validating: _load_runtime_state.                            *)
(***************************************************************************)
WithState(ck, states) == {o \in Op : ck.ops[o].state \in states}

Unfinished(ck) == WithState(ck, {"in_flight", "pending"})

\* Every contact an operation names is published.
ReferencesHold(ck, contacts) ==
    /\ \A k \in ck.selected \cup ck.batch : contacts[k].known
    /\ \A k \in Contacts :
         ck.ops[Apollo(k)] # Absent \/ ck.ops[Instantly(k)] # Absent => contacts[k].known

\* Status and pause reason agree with the operation they speak of.
StatusHolds(ck) ==
    LET r == ck.reason
        Is(o, states) == ck.ops[o].state \in states
    IN  \/ ck.status = "completed" /\ r = NoReason /\ Unfinished(ck) = {}
        \/ ck.status = "running" /\ r = NoReason /\ WithState(ck, {"pending"}) = {}
        \/ /\ ck.status = "paused_unknown"
           /\ \/ r = <<"m2_unknown_in_flight">>
              \/ r \in {<<"clay_start">>, <<"clay_start_unknown">>} /\ Is(Clay, {"in_flight"})
              \/ r = <<"clay_authorization_changed">> /\ Is(Clay, {"pending"})
              \/ r \in Op \ {Clay} /\ Is(r, {"in_flight"})
        \/ /\ ck.status = "paused_pending"
           /\ \/ r = <<"clay_pending">> /\ Is(Clay, {"pending"})
              \/ r \in Op /\ r[1] = "instantly" /\ Is(r, {"pending"})
        \/ /\ ck.status = "paused_budget"
           /\ \/ r \in {<<"exa_people_budget">>, <<"clay_max_contacts">>,
                        <<"apollo_credit_cap">>, <<"instantly_call_cap">>}
              \/ r = <<"clay_start">> /\ Is(Clay, {"in_flight"})
              \/ r = <<"clay_pending">> /\ Is(Clay, {"pending"})
              \/ r \in Op /\ r[1] \in {"exa", "apollo"} /\ Is(r, {"in_flight"})
              \/ r \in Op /\ r[1] = "instantly" /\ Is(r, {"in_flight", "pending"})

\* Work of a later provider keeps the history that led to it.
PrerequisitesHold(ck) ==
    LET Searched(k) == ck.ops[Exa(CompanyOf[k])].state = "completed" /\ k \in ck.selected IN
    /\ \A k \in ck.batch : Searched(k)
    /\ \A k \in Contacts : ck.ops[Apollo(k)] # Absent \/ ck.ops[Instantly(k)] # Absent =>
         Searched(k) /\ ck.ops[Clay].state = "completed" /\ k \in ck.batch

Loadable(ck, contacts) ==
    /\ ReferencesHold(ck, contacts)
    /\ StatusHolds(ck)
    /\ ck.status # "paused_unknown" => PrerequisitesHold(ck)

-----------------------------------------------------------------------------
(***************************************************************************)
(* Starting: run_contact_enrichment.  A checkpoint that does not validate  *)
(* raises, and a settled or frozen stage is returned as it is.             *)
(***************************************************************************)
Accepted == AcceptedIn[m3]

Load(cfg) ==
    /\ pc = "down" /\ Loadable(disk, file)
    /\ config' = cfg
    /\ steady' = TRUE
    /\ UNCHANGED <<ledger, world, cur, answer, capHit, faults, billed, charge, dispatched>>

\* _pause publishes the contacts (PublishContacts), then saves the reason (SavePause).
Pause(checkpoint, status, reason) ==
    /\ mem' = [checkpoint EXCEPT !.status = status, !.reason = reason]
    /\ pc' = "pausing"

StartFrozen(cfg) ==
    /\ Load(cfg) /\ m2Frozen
    /\ Pause(disk, "paused_unknown", <<"m2_unknown_in_flight">>)
    /\ people' = file
    /\ UNCHANGED <<disk, file, left, bought>>

\* Mutant: rebinds whatever is unfinished.
ResetAnyway(cfg) ==
    /\ Load(cfg) /\ ~m2Frozen
    /\ disk.bound # m3
    /\ people' = Nobody /\ file' = Nobody
    /\ mem' = [status |-> "running", reason |-> NoReason, bound |-> m3,
               ops |-> [o \in Op |-> Absent], selected |-> {}, batch |-> {}]
    /\ pc' = "resetting"
    /\ UNCHANGED <<disk, left, bought>>

\* Mutant: keeps the operations of the old snapshot.
ResetBinding(cfg) ==
    /\ Load(cfg) /\ ~m2Frozen
    /\ disk.bound # m3
    /\ disk.status \notin {"paused_unknown", "paused_pending"} /\ Unfinished(disk) = {}
    /\ people' = file /\ UNCHANGED file
    /\ mem' = [disk EXCEPT !.status = "running", !.reason = NoReason, !.bound = m3]
    /\ pc' = "resetting"
    /\ UNCHANGED <<disk, left, bought>>

\* Settled work of an older snapshot is dropped: empty contacts first, then the binding.
Reset(cfg) ==
    /\ Load(cfg) /\ ~m2Frozen
    /\ disk.bound # m3
    /\ disk.status \notin {"paused_unknown", "paused_pending"} /\ Unfinished(disk) = {}
    /\ people' = Nobody /\ file' = Nobody
    /\ mem' = [status |-> "running", reason |-> NoReason, bound |-> m3,
               ops |-> [o \in Op |-> Absent], selected |-> {}, batch |-> {}]
    /\ pc' = "resetting"
    /\ UNCHANGED <<disk, left, bought>>

SaveReset ==
    /\ pc = "resetting"
    /\ disk' = mem
    /\ pc' = "exa" /\ left' = AcceptedIn[mem.bound]
    /\ bought' = {}
    /\ UNCHANGED <<mem, file, people, ledger, world, cur, answer, capHit, config, faults,
                   billed, charge, dispatched, steady>>

\* Mutant: goes on although the outcome of an operation is unknown.
ResumeAnyway(cfg) ==
    /\ Load(cfg) /\ ~m2Frozen
    /\ disk.bound = m3 /\ disk.status \notin {"completed", "paused_unknown"}
    /\ people' = file
    /\ mem' = disk /\ pc' = "exa" /\ left' = Accepted
    /\ UNCHANGED <<disk, file, bought>>

Resume(cfg) ==
    /\ Load(cfg) /\ ~m2Frozen
    /\ disk.bound = m3 /\ disk.status \notin {"completed", "paused_unknown"}
    /\ people' = file
    /\ IF InFlight(disk.ops) = {}
       THEN mem' = disk /\ pc' = "exa" /\ left' = Accepted
       ELSE /\ LET o == CHOOSE o \in InFlight(disk.ops) : TRUE IN
                 Pause(disk, "paused_unknown", IF o = Clay THEN <<"clay_start_unknown">> ELSE o)
            /\ UNCHANGED left
    /\ UNCHANGED <<disk, file, bought>>

-----------------------------------------------------------------------------
(***************************************************************************)
(* Beginning an operation.                                                 *)
(***************************************************************************)
First(S) == CHOOSE x \in S : \A y \in S : x <= y

At(pass) == pc = pass /\ left # {}

Fits(p) == ReservationFits(usage[p], config.ceiling[p], 1)

Begin(o, batch) ==
    /\ mem' = [mem EXCEPT !.status = "running", !.reason = NoReason, !.batch = batch,
                          !.ops[o] = [state |-> "in_flight", admitted |-> 0]]
    /\ disk' = mem'
    /\ cur' = o /\ pc' = "begun"

\* A status read of a pending operation is admitted durably when reads are capped.
ReadsUsed(o) == IF mem.ops[o].admitted > reads[o] THEN mem.ops[o].admitted ELSE reads[o]

MayRead(o) == config.reads # NoCeiling => ReadsUsed(o) < config.reads

AdmitRead(o) ==
    /\ MayRead(o)
    /\ mem' = IF config.reads = NoCeiling THEN mem
              ELSE [mem EXCEPT !.ops[o].admitted = ReadsUsed(o) + 1]
    /\ disk' = mem'
    /\ cur' = o /\ pc' = "begun"

\* What a pass leaves alone between two operations.
BetweenOps == UNCHANGED <<file, people, ledger, world, answer, capHit, config, faults, history>>

Skip == left' = left \ {First(left)} /\ UNCHANGED <<mem, disk, cur, pc>>

PauseHere(status, reason) == Pause(mem, status, reason) /\ UNCHANGED <<disk, cur, left>>

\* The companies accepted when the stage was bound, as far as they still are.
ExaPass ==
    /\ At("exa") /\ BetweenOps
    /\ LET c == First(left) IN
       IF mem.ops[Exa(c)].state = "completed" \/ c \notin Accepted THEN Skip
       ELSE IF ~Fits("exa") THEN PauseHere("paused_budget", <<"exa_people_budget">>)
       ELSE Begin(Exa(c), mem.batch) /\ UNCHANGED left

\* How many published contacts of its company come before a contact.
Rank(k) ==
    Cardinality({j \in Contacts : j < k /\ people[j].known /\ CompanyOf[j] = CompanyOf[k]})

\* Mutant: takes one contact more than is paid for.
PaidOffByOne ==
    {k \in Contacts : people[k].known /\ CompanyOf[k] \in Accepted /\ Rank(k) <= MaxPaid}

\* The first contacts of each accepted company, in decision order.
Paid == {k \in Contacts : people[k].known /\ CompanyOf[k] \in Accepted /\ Rank(k) < MaxPaid}

EnterClay ==
    /\ pc = "exa" /\ left = {}
    /\ pc' = "clay" /\ left' = Paid
    /\ UNCHANGED <<mem, disk, cur>> /\ BetweenOps

\* The batch is cut to size before the decisions are read again.
Batch ==
    LET waiting == {k \in left : ~people[k].clay} IN
    {k \in waiting : /\ Cardinality({j \in waiting : j < k}) < config.batch
                     /\ CompanyOf[k] \in Accepted}

ClayPass ==
    /\ pc = "clay" /\ BetweenOps
    /\ \/ /\ mem.ops[Clay].state = "pending" /\ UNCHANGED left
          /\ IF \E k \in mem.batch : CompanyOf[k] \notin Accepted
             THEN PauseHere("paused_unknown", <<"clay_authorization_changed">>)
             ELSE IF ~MayRead(Clay) THEN PauseHere("paused_pending", <<"clay_pending">>)
             ELSE AdmitRead(Clay)
       \/ /\ mem.ops[Clay].state = "none" /\ Batch # {}
          /\ Begin(Clay, Batch) /\ UNCHANGED left

\* Mutant: forgets the paid contacts that did not fit the Clay batch.
EnterApolloUncapped ==
    /\ pc = "clay"
    /\ mem.ops[Clay].state = "completed" \/ (mem.ops[Clay].state = "none" /\ Batch = {})
    /\ pc' = "apollo" /\ left' = Paid
    /\ capHit' = FALSE
    /\ UNCHANGED <<mem, disk, file, people, ledger, world, cur, answer, config, faults, history>>

EnterApollo ==
    /\ pc = "clay"
    /\ mem.ops[Clay].state = "completed" \/ (mem.ops[Clay].state = "none" /\ Batch = {})
    /\ pc' = "apollo" /\ left' = Paid
    /\ capHit' = \E k \in Paid : ~people[k].clay
    /\ UNCHANGED <<mem, disk, file, people, ledger, world, cur, answer, config, faults, history>>

\* Paid contacts Clay had no email for.
ApolloPass ==
    /\ At("apollo") /\ BetweenOps
    /\ LET k == First(left) IN
       IF \/ people[k].email \/ ~people[k].clay
          \/ mem.ops[Apollo(k)].state = "completed" \/ CompanyOf[k] \notin Accepted
       THEN Skip
       ELSE IF ~Fits("apollo") THEN PauseHere("paused_budget", <<"apollo_credit_cap">>)
       ELSE Begin(Apollo(k), mem.batch) /\ UNCHANGED left

EnterInstantly ==
    /\ pc = "apollo" /\ left = {}
    /\ pc' = "instantly" /\ left' = Paid
    /\ UNCHANGED <<mem, disk, cur>> /\ BetweenOps

\* Paid contacts with an email: create a verification or ask for a pending one.
InstantlyPass ==
    /\ At("instantly") /\ BetweenOps
    /\ LET k == First(left)
           o == Instantly(k)
       IN IF ~people[k].email \/ mem.ops[o].state = "completed" \/ CompanyOf[k] \notin Accepted
          THEN Skip
          ELSE IF mem.ops[o].state = "pending"
          THEN IF ~MayRead(o) THEN PauseHere("paused_pending", o)
               ELSE AdmitRead(o) /\ UNCHANGED left
          ELSE IF ~Fits("instantly") THEN PauseHere("paused_budget", <<"instantly_call_cap">>)
          ELSE Begin(o, mem.batch) /\ UNCHANGED left

-----------------------------------------------------------------------------
(***************************************************************************)
(* The provider call and its usage event.                                  *)
(***************************************************************************)
Reading == mem.ops[cur].state = "pending"

\* Units a call may cost; only purchases from a provider with a ceiling count.
Costs ==
    IF Reading \/ cur = Clay THEN {0} ELSE IF ProviderOf[cur] = "instantly" THEN {1} ELSE 0..1

Call(outcome, cost) ==
    /\ pc = "begun" /\ cost \in Costs
    /\ outcome = "pending" => Reading \/ ProviderOf[cur] = "instantly"
    /\ outcome = "ok" \/ faults < MaxFaults
    /\ answer' = outcome
    /\ faults' = IF outcome = "ok" THEN faults ELSE faults + 1
    /\ billed' = [billed EXCEPT ![ProviderOf[cur]] = @ + cost]
    /\ charge' = cost
    /\ bought' = IF Reading THEN bought ELSE bought \cup {cur}
    /\ dispatched' = [dispatched EXCEPT ![cur] = IF Reading THEN @ + 1 ELSE @]
    /\ pc' = "called"
    /\ UNCHANGED <<mem, disk, file, people, ledger, world, cur, left, capHit, config, steady>>

Failed == answer \in {"exhausted", "error"}

\* Mutant: an Apollo call that failed or reports nothing is free.
CommittedIfReported(priced) ==
    LET p == ProviderOf[cur] IN
    IF Reading \/ p = "clay" THEN usage[p]
    ELSE IF p = "exa" THEN AddEvent(usage[p], priced, charge)
    ELSE AddEvent(usage[p], TRUE, IF priced THEN charge ELSE 0)

\* What the new usage event adds: an Exa cost if stated, the Apollo credits
\* reported or the one reserved, one Instantly request; a status read nothing.
Committed(priced) ==
    LET p == ProviderOf[cur] IN
    IF Reading \/ p = "clay" THEN usage[p]
    ELSE IF p = "exa" THEN AddEvent(usage[p], priced, charge)
    ELSE AddEvent(usage[p], TRUE, IF priced /\ p = "apollo" THEN charge ELSE 1)

\* Reads are counted per run id or email: those of an earlier Clay run do not count.
RecordUsage(priced) ==
    /\ pc = "called"
    /\ priced => ~Failed
    /\ usage' = [usage EXCEPT ![ProviderOf[cur]] = Committed(priced)]
    /\ reads' = [reads EXCEPT ![cur] = IF Reading THEN @ + 1 ELSE IF cur = Clay THEN 0 ELSE @]
    /\ dispatched' = [dispatched EXCEPT ![cur] = IF ~Reading /\ cur = Clay THEN 0 ELSE @]
    /\ charge' = 0
    /\ pc' = "recorded"
    /\ UNCHANGED <<mem, disk, file, people, world, cur, answer, left, capHit, config, faults,
                   billed, bought, steady>>

-----------------------------------------------------------------------------
(***************************************************************************)
(* Outcomes: contacts are published before the operation is settled.       *)
(***************************************************************************)
AfterCall == UNCHANGED <<ledger, world, capHit, config, faults, history>>

\* A lost purchase freezes the stage, a lost status read only stops it.
StopOnError ==
    /\ pc = "recorded" /\ Failed
    /\ Pause(mem,
             IF answer = "exhausted" THEN "paused_budget"
             ELSE IF Reading THEN "paused_pending" ELSE "paused_unknown",
             IF cur # Clay THEN cur ELSE IF Reading THEN <<"clay_pending">> ELSE <<"clay_start">>)
    /\ UNCHANGED <<disk, file, people, cur, answer, left>> /\ AfterCall

Publish(contacts) ==
    /\ people' = contacts /\ file' = contacts
    /\ pc' = "stored"
    /\ UNCHANGED <<mem, disk, cur, answer, left>> /\ AfterCall

StorePeople(found) ==
    /\ pc = "recorded" /\ answer = "ok" /\ ProviderOf[cur] = "exa"
    /\ \A k \in found : CompanyOf[k] = cur[2]
    /\ Publish([k \in Contacts |-> IF k \in found THEN [Nobody[k] EXCEPT !.known = TRUE]
                                   ELSE people[k]])

StoreClayEmails(found) ==
    /\ pc = "recorded" /\ answer = "ok" /\ cur = Clay /\ Reading
    /\ found \subseteq mem.batch
    /\ Publish([k \in Contacts |->
                  IF k \notin mem.batch THEN people[k]
                  ELSE [people[k] EXCEPT !.clay = TRUE, !.email = @ \/ k \in found]])

StoreApolloEmail(found) ==
    /\ pc = "recorded" /\ answer = "ok" /\ ProviderOf[cur] = "apollo"
    /\ Publish([people EXCEPT ![cur[2]].email = found])

StoreVerdict ==
    /\ pc = "recorded" /\ answer = "ok" /\ ProviderOf[cur] = "instantly"
    /\ Publish([people EXCEPT ![cur[2]].verdict = "settled"])

\* Mutant: settles an operation before publishing what it bought.
FinishUnpublished ==
    /\ pc \in {"recorded", "stored"} /\ answer = "ok"
    /\ mem' = [mem EXCEPT
                 !.ops[cur] = [state |-> "completed", admitted |-> 0],
                 !.selected = IF ProviderOf[cur] # "exa" THEN @ ELSE
                    @ \cup {k \in Contacts : people[k].known /\ CompanyOf[k] = cur[2]}]
    /\ disk' = mem'
    /\ pc' = ProviderOf[cur] /\ answer' = "none"
    /\ left' = IF cur = Clay THEN left ELSE left \ {cur[2]}
    /\ UNCHANGED <<file, people, cur>> /\ AfterCall

FinishCompleted ==
    /\ pc = "stored"
    /\ mem' = [mem EXCEPT
                 !.ops[cur] = [state |-> "completed", admitted |-> 0],
                 !.selected = IF ProviderOf[cur] # "exa" THEN @ ELSE
                    @ \cup {k \in Contacts : people[k].known /\ CompanyOf[k] = cur[2]}]
    /\ disk' = mem'
    /\ pc' = ProviderOf[cur] /\ answer' = "none"
    /\ left' = IF cur = Clay THEN left ELSE left \ {cur[2]}
    /\ UNCHANGED <<file, people, cur>> /\ AfterCall

Pended == [mem EXCEPT !.ops[cur] = [state |-> "pending", admitted |-> 0]]

\* A started Clay run and a pending verification replace the operation's
\* entry by one without admissions; the pause is a save of its own.
FinishPending ==
    /\ pc = "recorded"
    /\ \/ answer = "ok" /\ cur = Clay /\ ~Reading /\ UNCHANGED people
       \/ /\ answer = "pending" /\ ProviderOf[cur] = "instantly"
          /\ people' = [people EXCEPT ![cur[2]].verdict = "pending"]
    /\ disk' = Pended
    /\ Pause(Pended, "paused_pending", IF cur = Clay THEN <<"clay_pending">> ELSE cur)
    /\ UNCHANGED <<file, cur, answer, left>> /\ AfterCall

\* A Clay run that has not ended keeps its entry.
StillPending ==
    /\ pc = "recorded" /\ answer = "pending" /\ cur = Clay
    /\ Pause(mem, "paused_pending", <<"clay_pending">>)
    /\ UNCHANGED <<disk, file, people, cur, answer, left>> /\ AfterCall

\* Every pass is over.
Finish ==
    /\ pc = "instantly" /\ left = {}
    /\ IF capHit THEN Pause(mem, "paused_budget", <<"clay_max_contacts">>)
       ELSE Pause(mem, "completed", NoReason)
    /\ UNCHANGED <<disk, cur, left>> /\ BetweenOps

PublishContacts ==
    /\ pc = "pausing"
    /\ file' = people /\ pc' = "saving"
    /\ UNCHANGED <<mem, disk, people, cur, answer, left>> /\ AfterCall

\* The process ends with this save; what it held in memory is forgotten.
SavePause ==
    /\ pc = "saving"
    /\ disk' = mem
    /\ pc' = "down" /\ answer' = "none" /\ left' = {} /\ capHit' = FALSE
    /\ UNCHANGED <<mem, file, people, ledger, world, cur, config, faults, history>>

-----------------------------------------------------------------------------
(***************************************************************************)
(* Everybody else.                                                         *)
(***************************************************************************)
Crash ==
    /\ pc # "down" /\ faults < MaxFaults
    /\ faults' = faults + 1
    /\ pc' = "down" /\ answer' = "none" /\ left' = {} /\ capHit' = FALSE
    /\ mem' = disk /\ people' = file
    /\ UNCHANGED <<disk, file, ledger, world, cur, config, history>>

\* Another command evaluates the companies again.
Reevaluate ==
    /\ changes < MaxChanges
    /\ m3' \in Snapshots \ {m3}
    /\ changes' = changes + 1 /\ steady' = FALSE
    /\ UNCHANGED <<disk, mem, file, people, ledger, m2Frozen, process, faults,
                   billed, charge, bought, dispatched>>

\* M2's checkpoint gains or loses an unresolved paid operation.
M2Changes ==
    /\ changes < MaxChanges
    /\ m2Frozen' = ~m2Frozen /\ changes' = changes + 1
    /\ UNCHANGED <<disk, mem, file, people, ledger, m3, process, faults, history>>

Stage ==
    \/ \E cfg \in Configs : StartFrozen(cfg) \/ Reset(cfg) \/ Resume(cfg)
    \/ SaveReset
    \/ ExaPass \/ EnterClay \/ ClayPass \/ EnterApollo \/ ApolloPass \/ EnterInstantly
    \/ InstantlyPass \/ Finish
    \/ \E outcome \in Answers, cost \in 0..1 : Call(outcome, cost)
    \/ \E priced \in BOOLEAN : RecordUsage(priced)
    \/ \E found \in SUBSET Contacts : StorePeople(found) \/ StoreClayEmails(found)
    \/ \E found \in BOOLEAN : StoreApolloEmail(found)
    \/ StoreVerdict \/ FinishCompleted \/ FinishPending \/ StillPending \/ StopOnError
    \/ PublishContacts \/ SavePause

Next == Stage \/ Crash \/ Reevaluate \/ M2Changes

Spec == Init /\ [][Next]_vars

-----------------------------------------------------------------------------
(***************************************************************************)
(* Properties.                                                             *)
(***************************************************************************)

\* The stage keeps the contract of paid operations: one intent open at a
\* time, charged within the ceiling in force, across crashes and new bindings.
Contract == INSTANCE PaidContract WITH open <- InFlight(disk.ops), limit <- config.ceiling

ImplementsContract == Contract!Spec

\* Each operation is bought at most once while the stage is bound to one
\* snapshot, however often it is interrupted and rerun.
BoughtOnce == [][pc = "begun" /\ pc' = "called" /\ ~Reading => cur \notin bought]_vars

\* An operation whose outcome is open is settled by its own answer and by
\* nothing else: no rerun, pause or new snapshot of decisions drops it.
WorkIsNotAbandoned ==
    [][\A o \in Unfinished(disk) : disk'.ops[o].state # disk.ops[o].state =>
          cur = o /\ pc \in {"recorded", "stored"} /\ ~Failed]_vars

\* Operations and published contacts belong to companies accepted in the
\* snapshot the checkpoint is bound to, also while it is being rebound.
OnlyBoundWork ==
    LET bound == IF disk.bound = NoSnapshot THEN {} ELSE AcceptedIn[disk.bound] IN
    /\ \A c \in Companies : disk.ops[Exa(c)].state # "none" => c \in bound
    /\ \A k \in Contacts :
         \/ file[k].known \/ k \in disk.batch
         \/ disk.ops[Apollo(k)].state # "none" \/ disk.ops[Instantly(k)].state # "none"
         => CompanyOf[k] \in bound

\* A settled operation's result is published, unless a rebinding has emptied
\* the contacts; so no crash loses what was paid for.
SettledIsPublished ==
    \/ file = Nobody
    \/ /\ \A k \in disk.selected : file[k].known
       /\ disk.ops[Clay].state = "completed" => \A k \in disk.batch : file[k].clay
       /\ \A k \in Contacts : disk.ops[Instantly(k)].state = "completed" =>
            file[k].email /\ file[k].verdict = "settled"

\* Without new decisions during the run, a stage reported as completed has
\* searched every accepted company and taken every paid contact to its end.
CompletedIsDone ==
    [][ disk.status # "completed" /\ disk'.status = "completed" /\ steady =>
          /\ Unfinished(disk') = {}
          /\ \A c \in Accepted : disk'.ops[Exa(c)].state = "completed"
          /\ \A k \in Paid :
               /\ file[k].clay
               /\ IF file[k].email THEN file[k].verdict = "settled"
                  ELSE disk'.ops[Apollo(k)].state = "completed" ]_vars

\* "A restart with that ID polls the same run": whatever a process leaves
\* behind, the next one can load.
RestartsLoad == pc = "down" => Loadable(disk, file)

\* An asynchronous operation gets as many status reads as its cap allows, in
\* its lifetime: each is admitted durably before it is sent.
ReadsWithinCap ==
    [][ \A o \in Op : dispatched'[o] > dispatched[o] /\ config.reads # NoCeiling =>
          dispatched'[o] <= config.reads ]_vars

-----------------------------------------------------------------------------
(***************************************************************************)
(* The inductive invariant, in named parts.                                *)
(***************************************************************************)
\* The process is working on the operation cur, or passing from one to the next.
Busy == pc \in {"begun", "called", "recorded", "stored"}
Passing == Busy \/ pc \in Provider

\* The pass the process is in.
Pass == IF Busy THEN ProviderOf[cur] ELSE pc

\* Memory differs from the files by a binding or a pause not saved yet, and by
\* the verdict of a pending verification that the pause is about to publish.
MemoryFollowsFiles ==
    /\ pc \notin {"resetting", "pausing", "saving"} => mem = disk
    /\ pc \in {"pausing", "saving"} =>
         /\ mem.ops = disk.ops /\ mem.bound = disk.bound
         /\ mem.selected = disk.selected /\ mem.batch = disk.batch
    /\ pc # "pausing" => people = file
    /\ \A k \in Contacts :
         /\ people[k].known <=> file[k].known
         /\ people[k].email <=> file[k].email
         /\ people[k].clay <=> file[k].clay
         /\ people[k].verdict # file[k].verdict => disk.ops[Instantly(k)].state = "pending"

\* A rebinding drops settled work only, and saves an empty binding.
RebindingIsClean ==
    pc = "resetting" =>
        /\ file = Nobody /\ Unfinished(disk) = {}
        /\ mem.bound \in Snapshots /\ mem.selected = {} /\ mem.batch = {}
        /\ mem.status = "running"
        /\ \A o \in Op : mem.ops[o] = Absent

\* Only what can be asked for later waits.
OnlyPollsWait ==
    \A o \in Op : /\ disk.ops[o].state # "failed"
                  /\ disk.ops[o].state = "pending" => ProviderOf[o] \in {"clay", "instantly"}

\* A passing process has nothing unresolved in flight but cur.
CurrentIsOpen ==
    /\ Passing =>
         /\ disk.bound \in Snapshots
         /\ InFlight(disk.ops) \subseteq {cur}
    /\ Busy => disk.ops[cur].state \in {"in_flight", "pending"}
    /\ pc \in Provider => InFlight(disk.ops) = {}
    /\ pc = "stored" => answer = "ok" /\ (cur = Clay => disk.ops[Clay].state = "pending")

\* What a pass has yet to visit belongs to the binding and may be paid for.
VisitsArePaid ==
    /\ Passing /\ Pass = "exa" => left \subseteq AcceptedIn[disk.bound]
    /\ Passing /\ Pass # "exa" =>
         \A k \in left : k \in Contacts /\ people[k].known /\ Rank(k) < MaxPaid

\* Something was bought for the contact, after its company's search.
Worked(k) ==
    \/ k \in disk.batch \/ disk.ops[Apollo(k)].state # "none"
    \/ disk.ops[Instantly(k)].state # "none"

\* A contact comes from its company's search, which precedes whatever is bought
\* for it, and shows what the settled operations bought.
ContactIsPublished(k) ==
    LET search == disk.ops[Exa(CompanyOf[k])].state IN
    /\ file[k].known => search # "none"
    /\ Worked(k) => file[k].known /\ Rank(k) < MaxPaid
    /\ Worked(k) \/ file[k].clay \/ file[k].email \/ file[k].verdict # "none" =>
         search = "completed"
    /\ k \in disk.batch /\ disk.ops[Clay].state = "completed" => file[k].clay
    /\ disk.ops[Instantly(k)].state # "none" => file[k].email
    /\ disk.ops[Instantly(k)].state = "completed" => file[k].verdict = "settled"

WorkIsPublished ==
    /\ \A k \in disk.selected : file[k].known
    /\ \A k \in Contacts : ContactIsPublished(k)

\* While an operation is worked on, the contacts are as its pass found them.
AnswersAreStored ==
    \A k \in Contacts :
        /\ Busy /\ cur = Apollo(k) /\ pc # "stored" => ~people[k].email
        /\ Busy /\ cur = Instantly(k) => people[k].email
        /\ pc = "stored" /\ cur = Clay /\ k \in disk.batch => people[k].clay
        /\ pc = "stored" /\ cur = Instantly(k) => people[k].verdict = "settled"

\* The ledger covers the bill, but for the charge of a call whose usage is not
\* recorded: its operation is in flight and, after a crash, stays so.
LedgerCovers ==
    /\ \A p \in Provider :
         \/ usage[p].missing
         \/ billed[p] <= usage[p].known + IF p = ProviderOf[cur] THEN charge ELSE 0
    /\ charge # 0 =>
         /\ charge = 1 /\ cur # Clay
         /\ pc \in {"called", "down", "pausing", "saving"}
         /\ disk.ops[cur].state = "in_flight"
    /\ pc = "begun" /\ disk.ops[cur].state = "in_flight" /\ cur # Clay =>
         Fits(ProviderOf[cur])

\* What was called is on record, and what is about to be called was not.
BoughtIsRecorded ==
    /\ \A o \in bought : disk.ops[o].state # "none"
    /\ pc = "begun" /\ disk.ops[cur].state = "in_flight" => cur \notin bought

\* Without new decisions, a pass has settled what it has visited.
PassesSettle ==
    LET resolved(k) == people[k].email \/ disk.ops[Apollo(k)].state = "completed"
        verified(k) == people[k].email => disk.ops[Instantly(k)].state = "completed"
        After(passes) == steady /\ Passing /\ Pass \in passes
        done == steady /\ pc \in {"pausing", "saving"} /\ mem.status = "completed"
    IN
    /\ steady /\ Passing => disk.bound = m3
    /\ steady /\ pc = "resetting" => mem.bound = m3
    /\ After({"exa"}) => \A c \in Accepted \ left : disk.ops[Exa(c)].state = "completed"
    /\ After({"clay", "apollo", "instantly"}) \/ done =>
         \A c \in Accepted : disk.ops[Exa(c)].state = "completed"
    /\ After({"apollo", "instantly"}) => disk.ops[Clay].state # "pending"
    /\ (After({"apollo", "instantly"}) /\ ~capHit) \/ done => \A k \in Paid : people[k].clay
    /\ After({"apollo"}) => \A k \in Paid \ left : people[k].clay => resolved(k)
    /\ After({"instantly"}) =>
         \A k \in Paid : /\ people[k].clay => resolved(k)
                         /\ k \notin left => verified(k)
    /\ done => Unfinished(disk) = {} /\ \A k \in Paid : resolved(k) /\ verified(k)

ContactInv ==
    /\ TypeOK
    /\ MemoryFollowsFiles
    /\ RebindingIsClean
    /\ OnlyPollsWait
    /\ CurrentIsOpen
    /\ VisitsArePaid
    /\ OnlyBoundWork
    /\ WorkIsPublished \/ (file = Nobody /\ pc \in {"down", "resetting"})
    /\ AnswersAreStored
    /\ LedgerCovers
    /\ BoughtIsRecorded
    /\ PassesSettle

=============================================================================
