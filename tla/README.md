# Verification of the leads-discovery pipeline

This project models leads-discovery where mistakes cost money, lose what was bought or decide
wrongly about a company: the stages that call paid providers, stop and are run again; the
journal that carries a production run from one lost runner to the next; and the rules that turn
rows into companies, decisions and contacts. The specifications are
written from the code under `src/leads_discovery/`; documents and tests are quoted only where a
run shows the code doing something else.

## 1. Inventory

The pipeline is a command-line program. One command runs one stage in one process; stages talk
through files in a run directory named after the run id. Nothing runs concurrently inside a process. What makes
the program hard is that a process may die between any two writes, that a rerun must go on from
the files alone, and that a paid call whose answer was lost must never be repeated.

| Component | Code | State it keeps | Operations | What makes it correct |
|---|---|---|---|---|
| Paid-operation lifecycle | `pipeline/paid_operations.py` | operation map in a checkpoint | begin, record usage, finish, transition, find unknown work | one open intent; no purchase past a ceiling; an unknown outcome stops everything |
| Usage ledger | `pipeline/costs.py` | `usage_events.jsonl`, totals per provider | append, replay, estimate | recorded spend covers the bill, or is known to be incomplete |
| State files | `pipeline/state.py` | every file of a run | atomic replacement, append, replay | a crash leaves the old or the new file; a torn last line is tolerated |
| Company batch (M1, M2) | `pipeline/m2_batch.py` | `checkpoint.json`, raw rows, extracted snapshots | discovery, deduplication, research, extraction, resume of Apify runs | output durable before its operation is settled; nothing bought twice; required requests succeed |
| Discovery providers | `discovery/*.py` | none; the Apify run id in the checkpoint | search, start and poll a run, classify failures | a run that was started is polled, not replaced |
| Research and extraction | `research/*.py` | company snapshots | query catalog, early stop, extraction, support of facts | facts are supported by stored evidence |
| Deduplication | `dedup.py` | none | group raw rows by domain, by fallback identity, alone | two companies are never mixed; order independent |
| Company evaluation (M3) | `pipeline/evaluation.py`, `scoring/policy.py` | `companies_evaluated.jsonl` | score, accept or reject, write six views | an unknown fact neither rejects nor counts as zero; the views agree |
| Contact stage (M4) | `pipeline/contact_enrichment.py` | `contact_checkpoint.json`, contacts, ledger of its own | people search, Clay run, Apollo lookup, Instantly verification, rebinding | bound to one snapshot of decisions; asynchronous work is finished, not dropped; capped reads |
| Contact providers | `contacts/*.py` | none | one HTTP exchange each; ranking of people | outcome classes, reported credits |
| Canary journal and restart | `pipeline/git_journal.py`, `canary_checkpoint.py`, `canary_restart.py` | encrypted remote journal with a head revision | barrier before a local write, restart capsule | no intent is local only; a stale write is refused; an empty runner can go on |
| Canary paid operations and coverage | `pipeline/canary_*.py` | a private checkpoint and ledger | bounded probes of each provider, outcome report | no start is sent twice; quotas over the lifetime of a canary; success is earned |
| Production canary loop | `production_canary.py` | none | restore, run, poll while pending, snapshot, coverage passes | the passes suffice for every read that is allowed |
| Command line | `cli.py` | none | build configurations, exit codes | only stated configurations reach a stage |
| Calibration | `calibration.py` | two report files | join labels with decisions | both files describe one set of companies |
| Record models | `models.py` | none | validation of records | pure |

How they interact: the batch and the contact stage both use the lifecycle (calls) and the state
files (shared state). The contact stage reads M3's decisions every time it is about to pay for
somebody, and refuses to run while M2's checkpoint holds an unresolved paid operation; another
command may change both while it runs. The canary wraps the run and contact stages, then probes
the providers these legitimately skipped; it mirrors each checkpoint to the journal before the
local write. Evaluation reads the extracted snapshots, the contact stage and calibration read
its views.

Hard behaviours: crashes and reruns with other budgets (all stages), asynchronous provider runs
(Apify, Clay, Instantly), a lost answer against a refused call, decisions replaced under a
running stage, files torn by a crash, caps counted over the lifetime of an operation, runners
lost with their disk between two requests to the journal, several files replaced one after
another. The hazard list in `PROJECT.json` names each with its line.

## 2. Modules

| Module | Models | Uses |
|---|---|---|
| `PaidOperations` | the reservation rule, totals of a ledger, unknown in-flight work | |
| `PaidContract` | what the protocol promises: one open operation, charges within the limit | `PaidOperations` |
| `PaidLifecycle` | the protocol around one paid call: intent, call, usage event, outcome, crash, rerun | `PaidOperations`; implements `PaidContract` |
| `PaidLifecycleProofs` | TLAPS proofs about `PaidLifecycle` | `PaidLifecycle` |
| `M2Batch` | the company batch | `PaidOperations`; implements `PaidLifecycle` |
| `ContactEnrichment` | the contact stage | `PaidOperations`; implements `PaidContract` |
| `M2BatchProofs`, `ContactEnrichmentProofs` | TLAPS proofs about the two stages | `M2Batch`, `ContactEnrichment` |
| `JournalRegister` | what the journal promises: a write takes effect only on the version its writer read | |
| `GitJournal` | the conversation with the release: load, check, upload, move the head, confirm | implements `JournalRegister` |
| `Canary` | the production canary over lost runners: barrier, restart capsule, normal stages, probes, passes, report of the probes | `GitJournal` |
| `GitJournalProofs`, `CanaryProofs` | TLAPS proofs that both implement the register; of the canary also the local part of its invariant | `GitJournal`, `Canary` |
| `CanarySafetyProofs` | TLAPS proofs of the canary's safety properties | `CanaryProofs` |
| `Deduplication`, `Scoring`, `ContactSelection` | pure operators: rows to companies, facts to a decision and a score, people to contacts | |
| `Decisions` | one run directory from rows to decisions, calibration and contacts, with commands that die between two files | the three above |
| `FiniteLemmas` | lemmas about finite sets, the recursion behind folds, sums, strict orders | |
| `DecisionsProofs` | TLAPS proofs about `Decisions` | `Decisions`, `FiniteLemmas` |
| `MCPaidLifecycle`, `MCM2Batch`, `MCContactEnrichment`, `MCCanary`, `MCDecisions` | instances for TLC | |

### State and actions against the code

A *step* is the code between two writes or calls that another process could observe, so a crash
between any two of them is the action `Crash` between two steps. `disk` is the checkpoint file
and `mem` the checkpoint object of the process: the code changes the object first and saves it
later, and two findings live in that difference. `pc` says where the process is; `"down"` is no
process at all. Money is counted in whole units. `billed` and `charge` are history variables:
what the provider charged, which the program cannot see when an answer is lost.

**PaidLifecycle.** `Start` is a command that loads the checkpoint and replays the ledger; it is
disabled while an operation is in flight that nobody may replay. `Begin`, `Call`, `RecordUsage`,
`Finish` are the four writes and calls of `PaidOperationLifecycle`; `Continue` is a further call
of the same intent (the queries of one company's research); `RecordRun` and `Resume` are Apify's
durable run id. Which operation comes next is left open.

**M2Batch.** `Start` and `Freeze` are the entry of `run_m2_batch`; `ResumeApify` and `Poll` are
`_resume_apify_if_needed`; `Begin`, `PauseForBudget`, `EndDiscovery`, `Deduplicate`, `Complete`
are the loops of its phases; `StoreRows`, `StoreEvidence`, `StoreResearch`, `StoreFacts` write
output, and `FinishCompleted`, `FinishApify`, `FinishRequired`, `LeaveUnknown`, `StopRun` handle
each class of failure. A fatal failure of a required request is two saves, hence two actions.
`TornAppend` is a crash inside an append.

**ContactEnrichment.** `StartFrozen`, `Reset` with `SaveReset`, and `Resume` are the entry of
`run_contact_enrichment`; `Loadable` is its whole validation of a checkpoint, and a checkpoint
that does not validate enables none of them, as the code raises. `ExaPass`, `ClayPass`,
`ApolloPass` and `InstantlyPass` are the loops over companies and paid contacts, with `Enter...`
where the code recomputes who is paid for. `Call` is the exchange with a provider, `RecordUsage`
the append to the ledger, `Store...` the publication of contacts, `FinishCompleted`,
`FinishPending`, `StillPending` and `StopOnError` the outcomes, and `PublishContacts` with
`SavePause` the two writes of `_pause`. `Reevaluate` and `M2Changes` are other commands. An
operation's entry keeps the number of status reads admitted, because the code reserves a read
before it sends it. The stage replays its ledger when it starts and appends to it alone, so its
own totals are those of the file and one variable stands for both.

**GitJournal.** Each request to the release is a step. `head` is the release body, `names` the
assets it has, `request` where each client's conversation is; `Check` is the load and comparison before a write, `Upload` the new asset,
`Commit` the move of the head, `Confirm` the read that follows it, `GiveUp` any failed request.
The release service moves the head whoever asks; that a client moves it only from the head it
checked is the code's own doing, and what keeps two clients from passing each other between
check and move is that an asset of the next revision already there is refused. The operators of
the conversation take the payload from `Canary`, so its requests are steps of the canary too.

**Canary.** `disk` holds the files of each runner, `pc` and `todo` where its process is and what
it is about to write. `Start`, `Restore` and `RestoreEnrich` are the entry of `main` and the
restart capsule; `Run`, `Enrich`, `CallEnrich`, `ReadEnrich`, `FinishEnrich` the normal stages
as the journal sees them; `Snapshot` and `SnapshotHead` the capsule of completed stages; `Turn`
is the next probe, if any (a probe the private checkpoint does not list is an entry of state
`none`), and `Begin`, `ReserveRead`, `Call`, `AppendUsage`, `RecordUsage`, `Finish`,
`LeavePending`, `Complete` are its life. Every checkpoint save goes through `Sync` (the barrier:
private state merged into the journal) and only then `Write`. `Stop` is the end of an invocation
by success, error or a lost process; a new `Start` may be on the same runner or another, also
while the old one still runs. `Open` and `RestoreUsage`, as `Restore` and `RestoreEnrich`, are
the two files of a recovery with a crash possible between them. `Integration` is what the
outcome report says of a probe from the runner's files.

**Deduplication, Scoring, ContactSelection, Decisions.** A row is a record of what the
normalizers found in it: domain, name, place, country and how it was spelt. A profile maps a fact
to its value, confidence and support. A person is a set of roles and an identity. The rows that may arrive are places of `Catalogue`,
and a place is also the order of the serialized row; `Digest` is the truncated SHA-256 of an
authority, `Prepare` what `_prepare` makes of a row. `InOrder` is a stable sort over the places of
the search results, `FirstOfEach` the fold that drops a repeated identity. `Discover`,
`Deduplicate`, `Research`, `Extract` and `CompleteBatch` are the writes of the batch to the files
that evaluation reads; `Evaluate` and `Calibrate` read and render everything, then `Publish`
replaces one file per step, and `Crash` ends a command between two. Scores are exact fractions
compared in hundredths of a percent.

## 3. Runs

| Run | Question | Bounds |
|---|---|---|
| `paid_lifecycle` | Does the protocol keep one open intent, a ledger that covers the bill and every bill within its ceiling? Does it implement `PaidContract`? | three operations, two of one resumable provider; ceilings tight, loose, absent; money up to 3 units |
| `m2_batch` | Does the batch implement the protocol, settle only durable output, and never buy stored output again? Is `BatchInv`, the invariant of its proofs, true? | three requests, one company of two queries, two faults of which a crash may tear an append, reruns under three configurations |
| `m2_reruns` | Do reruns settle the batch once faults stop? Is a completed batch complete? | two requests, two companies, two faults |
| `m2_run_id`, `m2_required` | findings, section 5 | as `m2_batch`, one configuration |
| `m4_decisions` | Do other commands make the contact stage drop open work, mix two snapshots or buy twice? | two companies with a contact each, one fault, two outside changes |
| `m4_faults` | Does the stage implement the contract, publish before it settles, and complete only when done? Is `ContactInv`, the invariant of its proofs, true? | two companies, three contacts, two faults, reruns with lower ceilings, batch and read cap |
| `m4_restart`, `m4_reads` | findings, section 5 | one company, one contact |
| `canary` | Do lost or concurrent runners ever send a paid start twice, or one without a durable intent? Does the private state replay wherever it is restored, with completed stages if M3 did not accept? Do the passes reach every allowed read, does the report claim only what happened? Does the journal implement its register? | two runners, two invocations in all, two status reads per operation (hence five passes), the scenarios of M3 |
| `canary_restored` | finding, section 5 | one runner, one start |
| `decisions` | Are companies kept apart whatever the order of rows? Can a missing or doubtful fact reject, or an unknown one count as zero? Do the files of an evaluation and of a calibration agree after crashes? | three rows of a catalogue of overlapping ones, two snapshots, two companies per evaluation, two contacts per company, three search results, work of six |

Why the bounds are enough. Operations interact only through the totals of their provider, the
order of the plan and the rule on unknown work, so two operations of one provider and one of
another show each interaction. Two faults are a failure and a crash on top of it, or a crash of
the process that recovers from a crash; in the contact stage an answer that is still pending
counts as one, so two are a pending run and a crash on top of it. Three contacts give a company with a contact above the paid limit; a Clay batch
of one leaves a paid contact out. Two outside changes are a change and its reversal. Every call
may cost nothing or its full reservation (exactly one for Instantly, whose create is one
request): what lies between adds no admission decision.

Two runners and two invocations give every race of a read with a write of the journal, and a
loss at each step with its recovery on the same and on another disk; two reads are one before and
one after a loss, and the pass bound is the code's formula for that many. `Clay` and `Instantly`
differ in the first answer, which the model keeps; the normal stages save in the same order for
both, so one asynchronous operation stands for them. Three rows are the least that join two
companies through a third; two snapshots are a company extracted after another was evaluated.
`MaxWork` weighs a row or a snapshot one and a command, the end of the batch and the search two,
so that long mixtures of cheap steps are cut and not short ones of all kinds. `MaxEvaluated` 2
with companies of equal score reaches every key of the ranking. It equals the number of snapshots,
so the run never cuts an evaluation off at its limit; the proof of `TypeOK` covers the cut. Work of
six admits one evaluation and one calibration of one company, whole or torn; longer mixtures of
the two are left to the proofs.

`CHECK_DEADLOCK` is off: a settled, frozen or refused run really stops, and a bound on faults or
money stops the rest.

Properties worth reading first: `FollowsLifecycle` (every step of the batch is a step of the
protocol), `LedgerCoversBill`,
`StoredIsNeverBoughtAgain`, `WorkIsNotAbandoned`, `OnlyBoundWork`, `CompletedIsDone`,
`NoPaidStartTwice`, `FreshRunnerCanOpen`, `SuccessIsEarned`, `NoIdentityMixed`, `ViewsAgree`.
`OrderDoesNotMatter`, `UnknownIsNotZero` and `BestContactsKept` compare an algorithm with a
reference definition over all bounded inputs the run reaches.

### Fairness

Only `m2_reruns` assumes any. `WF(Process)`: a running process takes its next step.
`WF(Environment)`: a call returns; each adapter sets an HTTP timeout, and the one loop that waits,
the Apify poll, gives up at a deadline of its own (`discovery/apify.py:171`), which the model has as
an answer that fails. `WF(Launch)`: somebody runs the command again while it can still do something;
the README of the program tells the operator to. Faults are bounded by `MaxFaults`, so the claim is
that reruns settle once faults stop. Nothing is assumed about crashes. That one invocation ends is
not stated: both stages are loops over finite lists.

## 4. Proofs

`PaidLifecycleProofs` proves, for all sets of operations and providers, all reservations and
all ceilings, with any number of crashes and reruns:

- `Invariance`: `Spec => []Inv`. `Inv` is `TypeOK`, `MemoryMatchesFiles`, `OneOpenIntent`,
  `LedgerCoversBill` and `AdmittedCallFits`. None of the last four is inductive alone: the ledger
  covers the bill only because a second call cannot be made while the cost of a lost one is
  unrecorded, which is `OneOpenIntent`; and that needs memory and files to agree between two
  operations. `AdmittedCallFits` carries the admission decision from `Begin` to `Call`.
- `LedgerCoverage`: `Spec => []LedgerCoversBill`.
- `CeilingRespected`: `Spec => SpendWithinCeiling`. A charge happens only at `Call`, where the
  recorded total plus the reservation fits and no unrecorded charge exists for that provider.
- `ContractImplemented`: `Spec => ImplementsContract`, by mapping each step to one of
  `PaidContract` or a stutter.
- `TypeCorrectness` and `SingleIntent`: `TypeOK` and `OneOpenIntent`, parts of `Inv`.

The proofs rest on `LifecycleAssumption` (the constants have their types) and
`NoCeilingAssumption` (an absent ceiling is not a number), and on one fact about the outside
world written in `Call`: a provider charges at most the reservation. The `...Step` lemmas take one case
per action; the case for `RecordUsage` uses `AddEventGrows`.

`M2BatchProofs` proves, for any plan, companies, queries, reservations and configurations, and
any number of failures, torn appends, crashes and reruns:

- `Invariance`: `Spec => []BatchInv`. The properties below are not inductive alone.
  "A completed operation has its output" needs to know, at each point of the process, whether the
  output of the operation worked on is stored; that is `RowsFollowState`, `FactsFollowState` and
  `CursorFollowsAnswers` (between an answer and the save of the cursor the cursor is one behind).
  These speak of the file, while the process writes what its memory holds, so
  `MemoryFollowsDisk` says where the two differ: during one operation, and then in the Apify run
  id only, which the recorder wrote to the file alone. `CurrentIsOpen` and `OthersAreResolved` say that a
  running process has one operation open, beside Apify runs it has yet to poll, and
  `CompletionIsFinal` that no process runs after completion was saved.
- `OutputIsDurable`: `CompletedHasOutput`; `CompletionIsEarned`: `CompletedIsComplete`;
  `TypeCorrectness`: `TypeOK`. Each follows from the invariant.
- `NothingBoughtTwice`: `Spec => StoredIsNeverBoughtAgain`, one case per action that calls.
- `LifecycleFollowed`: `Spec => FollowsLifecycle`. Each of the batch's actions is mapped to one of
  `PaidLifecycle`, or to a stutter when it writes output only.

`ContactEnrichmentProofs` proves, for any companies, contacts, snapshots, ceilings, batch and read
limits, and any number of failures, crashes and outside changes:

- `Invariance`: `Spec => []ContactInv`. Its centre is `WorkIsPublished`: whatever was bought for a
  contact is later than its company's search, and what a settled operation bought is in the
  published file. It fails only after the first write of a rebinding, when the file is empty; hence
  `RebindingIsClean`. `AnswersAreStored` and `VisitsArePaid` carry what a pass found when it began
  to what it writes later; `MemoryFollowsFiles` confines the difference of memory and files to a
  rebinding, a pause and a verdict still pending. `LedgerCovers` is the ledger with the one
  charge that may be unrecorded, `BoughtIsRecorded` keeps the history of purchases below the
  operations in the file, and `PassesSettle` says for each pass what the passes before it settled,
  as long as no new decisions come in.
- `BindingRespected`: `OnlyBoundWork`; `ResultsArePublished`: `SettledIsPublished`;
  `CompletionIsEarned`: `CompletedIsDone`; `TypeCorrectness`: `TypeOK`.
- `NothingBoughtTwice`: `Spec => BoughtOnce`, and `NoWorkAbandoned`:
  `Spec => WorkIsNotAbandoned`. Both use `StepWrites`, which classifies every step by what it does
  to the operations: begins one, settles one, empties all of them at a clean rebinding, charges, or keeps
  their states.
- `ContractImplemented`: `Spec => ImplementsContract`, over the same classification
  (`ChargeMaps` for the one step that charges).

They rest on `BatchAssumption` and `ContactAssumption` (types of the constants, the shape of
a plan; TLC evaluates both) and on `NoCeilingAssumption`. The first attempt at `LifecycleFollowed`
showed the model of a resumed Apify run wrong: on its pauses `ResumeApify` changed the
operation the process works on, which the code does only when it goes on to poll.

`GitJournalProofs` and `CanaryProofs` prove that every step of the journal, and of the canary
that uses it, with any number of runners, is a step of `JournalRegister` or leaves it alone
(`JournalImplementsRegister`, `CanaryImplementsRegister`). The mapping takes the register's
version and value from the head alone, so an interrupted conversation has not happened. The
invariant needed ties a conversation in progress to what its client checked: the head it will
move to is the successor of one it read and whose asset it uploaded, and the asset of a revision
has one author. A canary step outside a conversation leaves head and assets alone.

`CanarySafetyProofs` proves every other property of the canary's run, for any number of runners,
lost, restarted elsewhere or running beside each other, any number of starts and any read limit:

- `NoStartTwice` (`NoPaidStartTwice`), `IntentsAreDurable` (`CallsHaveDurableIntent`),
  `SettledStays` (`SettledStaysSettled`), `DurableStateReopens` (`FreshRunnerCanOpen`),
  `PassesSuffice` (`PassesReachEveryRead`), `ReportsAreEarned` (`SuccessIsEarned`) and
  `TypeCorrectness`.

They share one invariant, `CanaryInv`, which has three layers.

*One runner.* `Local` says what a runner's files, its place and what it is about to save have to
do with each other: `PlaceInv`, `NormalInv` for the stages, `CoverageInv` for the probes,
`SaveInv` for the saves that each place may have begun, `RequestsInv` for its conversation with
the journal. `Prepared` ties it to the journal: as long as the head is the one the runner read,
the payload of its conversation is made from the transition it will replace, and the barrier has
admitted it. The commit happens only in that case (`OwnerKnowsHead`, from the proof of the
register), so a commit has exactly the effect that was checked, whoever ran in between. Every
other step leaves what is durable alone (`QuietOrCommits`).

*What is durable.* `DurableInv` says that barriers and private state name the same states and
that the private state can be replayed, `RestartKnown` and `RestartInv` that a capsule is durable
before any probe begins and stays. `NoOperationInv`, for a company M3 did not accept, that its
normal enrichment never has an operation: without one it never pauses, nothing is embedded, and the
only capsule is that of the completed stages. `FreshRunnerCanOpen` follows. For an accepted company
its last part is false (`canary_restored`).

*What runners know of each other.* A runner's private files are never ahead of the journal, and
what they have completed is what the journal has (`KnownInv`). Of all runners at most one holds the
open intent of a probe, and the journal says `in_flight` then (`IntentInv`): a second one would
have had to move the barrier from a state other than `in_flight`. `StartInv` says the same of the
starts together with how often each was sent: as long as the barrier is `none` it was never sent; the one
runner that may send it has moved the barrier to `in_flight` and not sent it yet; and no step takes
the barrier back to `none`. `EarnedInv` says that whatever a file, a save in progress or the
journal claims was sent. The bound of the passes is in `CoverageInv`: before a pass, a pending
probe has used up its reads or the passes used exceed the reads of both asynchronous probes by at
most one, so that `MaxPasses = 2 * ReadLimit + 1` leaves none unread.

The proofs rest on `PassesAssumption` (the code's formula for the passes) and
`NoPayloadAssumption` (no value of the journal is the one that stands for none). The parts of the
invariant were first checked with TLC on the instance of the run `canary`.

`DecisionsProofs` proves every property of the run `decisions`, for any catalogue of rows in any
number, any profiles, policy and searches, and any number of commands and crashes.

*Companies.* `Deduped` says that the companies are `Deduplicated(rows)`; they are made once, and
no row comes after. `NoIdentityIsMixed` (`NoIdentityMixed`) and `AnyOrderWillDo`
(`OrderDoesNotMatter`) are then facts about that operator.

- Each row with an identity has exactly one home: its domain, the domain its fallback identity
  matches, its fallback group, or itself (`OneHome`, `EveryRowHasAHome`). No two companies share
  an identity because their authorities differ (`IdsApart`). Only singletons need an argument: two
  that report one record id have different ranks, since a rank is a place in a strict order
  (`RanksApart`).
- Order: for two lists that are permutations of each other (`Shuffled`), groups correspond row by
  row, and a company's name, country and reviews depend on counts that a bijection keeps
  (`SameCompany`). The rank of a singleton is the exception. Two equal rows trade ranks when they trade
  places, so ranks agree as sets only: the row at rank `n` among the occurrences of a record id is
  the same row in both lists (`RankNotLower`, `SameRanks`). That is why the code sorts by the
  serialized row, and why `OrderDoesNotMatter` compares companies by the rows in them and not by
  their numbers.

*Scores.* `UnknownsScoreFairly` (`UnknownIsNotZero`): the weights of each category add up to 100
(`CategoryTotals`), every signal is a percentage (`SignalRange`), and a fact of signal zero adds its
weight to the denominator and nothing to the numerator (`FairInCategory`); `ScoreOrder` carries that through
the rounding. `RejectionsGrow`, then `MissingFactsNeverReject` (`NoMissingFactRejects`): what holds
of a profile with facts left out, or known with less confidence, holds of the whole profile, fact by fact. `ProfilesKnown` says
that snapshots hold known profiles.

*Files.* `DecisionFilesAgree` (`ViewsAgree`) and `CalibrationStory` (`CalibrationTellsOneStory`)
speak of moments when no command writes; `WritesInv` and `StoryInv` say what holds in between:
either the running command writes views of some set of records, and each of its files holds its
view already or is still in the job; or it is another command, and the files agree unless
one was torn. While the first file is still to be written, the files are those of the command
before, so a death there tears nothing; any later death marks the command torn; the last file of the next complete one clears the mark. `CalibrationStory` also
needs the records evaluated to be distinct by identity (`RecordsInv`): the table ranks them, and
only a strict order lists each of them once (`RankedIs`).

*Records.* `RecordsInv` says that what the evaluated file holds was decided from a company that
exists and a profile that was extracted, and that an evaluation before deduplication finds nothing;
it survives a new evaluation and everything the batch
does meanwhile. `OutsideIsNeverAccepted` (`OutsideNeverAccepted`) follows: the country of a company
whose rows report one is that one (`CountryOf`), so a rejection holds whatever the score. So does
`DecisionsTypeCorrect` (`TypeOK`), whose ranges of scores and coverages are the bounds of the
policy's arithmetic, with `SnapshotsKnown` for the snapshots.

*Contacts.* `TheBestAreKept` (`BestContactsKept`): the decision order is strict (`OrderFacts`), hence the
sort lists every candidate once and in order (`InOrderIs`); by induction over its length the
fold keeps the first of each identity (`FirstsAreBest`), and the first of an identity is its best
role. `ContactsInv` keeps this from the search to the end, since the companies do not change.

They rest on `CatalogueAssumption`, `DigestAssumption` (no two authorities have one digest: the
code relies on 96 bits of SHA-256 for it) and `InputsAssumption` (types of profiles, results and limits),
which TLC evaluates. Folds, sums and ranks are recursions over data. The library's
induction theorems take an operator and cannot be used here; `FiniteLemmas` states induction over a
set of subsets instead (`SubsetInduction`, `NaturalsUpward`), shows with it that the recursive
function behind a fold exists (`FoldExists`), and derives from that what the proofs use of sums
and orders. `Scoring` and `Deduplication` are written with functions, sums and sorts of this form.

Each theorem is about its own module: this prover cannot cite a theorem of `PaidLifecycle` through
the instance that `M2Batch` makes of it, so that the batch's ceilings follow from
`LifecycleFollowed` and `CeilingRespected` together is an argument on paper.

Every invariant, action property and refinement the passing runs check is stated by a
theorem. Only model-checked is the liveness property, `RerunsSettle`: fairness and `ENABLED` are
out of this prover's reach.

## 5. Findings

| Run | The code | The document |
|---|---|---|
| `m2_run_id` | the recorder writes the Actor run id into the file only; after a failed poll the process saves its older object and the id is gone | M2 design: "persist the returned Actor run ID immediately and resume polling that same run" |
| `m2_required` | a fatal Exa failure is two saves; a crash between them lets the rerun skip the failed required request | M2 design: "Authentication/invalid configuration exits failed" |
| `m4_restart` | a pending run and its pause are two saves; the checkpoint between them is rejected by the loader | M4 design: "A restart with that ID polls the same run" |
| `m4_reads` | a pending Instantly answer replaces the entry and drops the reads admitted; a read lost in a crash is sent again beyond the cap | a test: "A persisted Instantly verification gets three GET attempts without another POST." |
| `canary_restored` | the save that settles the normal Clay or Instantly operation is embedded in the journal as `paused_pending`; later transitions carry it on and, once newer than the completed snapshot, it is what a new runner restores | `docs/architecture.md`: "the canary privately snapshots only the completed normal restart prerequisites" |

Also visible in the models, without a run of their own: the first append after a torn line is glued
to it, and no replay accepts the file again (`state.py:132`), although `iter_jsonl` tolerates a torn
final line; finishing a polled operation leaves
`paused_pending` on disk until the next save (`contact_enrichment.py:1155`, `1375`); rebinding
publishes empty contacts before the checkpoint, and a crash there leaves a checkpoint whose
contacts are missing (`950`); new decisions in the middle of a run make the Instantly pass skip a
pending verification and the stage save a completed checkpoint with pending work (`1293`); a
rerun while M2 is frozen turns a completed stage into `paused_unknown` for good (`978`). A failed
call's usage event has no cost, so under a ceiling for its provider a run cannot go on after one
retryable failure (`costs.py:55`).

In `canary_restored` the runner that restores the old capsule finds nothing pending and no permission
to resume, so it ends before coverage (`production_canary.py:163-170`, `278`); a runner that kept its
completed files is refused by the restore. That canary cannot finish; nothing is bought again.

Also of the canary: an asset uploaded by a runner lost before it moved the head blocks every
later write
(`git_journal.py:447-450`). Usage is appended before the barrier that carries it, so a crash
between the two makes the same disk unusable and only an empty runner goes on
(`canary_checkpoint.py:60-70`). Completing a run without probes is a local write only
(`git_journal.py:827`). Two canaries at once can put a settled normal operation, or a read count,
back to an older value and repeat a read; the concurrency group of the workflow is what keeps two
apart (`git_journal.py:861`).

Of the decisions: a foreign company whose rows spell the country by name only is uncertain and
never rejected (`policy.py:481`); calibration refuses a label of a company that the evaluation
limit pushed out; the policy decides on the exact score and publishes the rounded one.
Rounding also hides small differences: a company of which only the lowest revenue step is known
besides a little else can publish the same score with a negative fact as without it, as the proof
of `UnknownIsNotZero` showed. The property therefore asks for a strictly higher score only where
the weight of the fact is worth a hundredth of a point; that it is never lower holds always.

## 6. Not modelled

- Two processes of the same command on one run directory: the models have one at a time, and
  nothing in the code enforces it.
- Contents of requests, rows, evidence, people and emails; the paths and links `state.py`
  checks; the summaries derived from the ledger.
- Two canaries of two workflows beyond what the journal itself must withstand: they are in the
  model, and properties that need the workflow's concurrency group say so.
- Of the canary: encryption, authentication and sizes of the journal's states, the creation of
  its release; the normal stages beyond one synchronous and one asynchronous operation; contact
  usage, contacts and the published list inside the capsule; spend ceilings of the probes, which
  are one call each. The two reads of `load_canary_restart_state` are one step. Of the outcome
  report only the part about the probes; the rest, and the evidence records, are data. The report
  opens the private work first, which compares the files with the journal and may raise
  (`canary_outcomes.py:241-251`); the model reports from any files, more than the code does.
- Of the decisions: how a raw field is normalized to a name, domain or place (word forms, accents,
  public suffixes); floating point in scores, which are exact here and published rounded half up where
  Python rounds half to even; a calibration that raises (a label of an unknown kind or company, two
  policy versions), which writes nothing; results of a search beyond `MaxResults`; companies with a status
  other than active; the text of reasons.
- Evidence support (`research/evidence_support.py`): rules over regular expressions on page text,
  whose content is wording; the scoring model takes "supported" as a field of a fact.
- Record validation (`models.py`), command-line parsing and exit codes (`cli.py`): no state.

## 7. What is left

1. `PaidStages`: M2 and M4 over the same run directory, the freeze between them.
2. Evidence support as operators over what the regular expressions find.
3. The rest of the canary's outcome report, and the per-operation summary of the ledger.
