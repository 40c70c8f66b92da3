------------------------------- MODULE Canary -------------------------------
(***************************************************************************)
(* The production canary: one company, taken by production_canary.main     *)
(* through the normal run and enrich stages and then through the provider  *)
(* calls those stages legitimately skipped, on runners that may be lost at *)
(* any moment.  What must survive a lost runner is in the private journal  *)
(* of GitJournal, whose requests are steps of this specification too.      *)
(*                                                                         *)
(* The normal stages are reduced to what the journal sees of them, one     *)
(* synchronous operation "run" and one asynchronous operation "enrich"     *)
(* (Clay, or Instantly, whose paths save in the same order); their own     *)
(* modules are M2Batch and ContactEnrichment.  Every error of this code    *)
(* ends the invocation, which here is a step that is not enabled and Stop, *)
(* which always is.                                                        *)
(***************************************************************************)
EXTENDS GitJournal, FiniteSets, TLC

CONSTANTS ReadLimit,     \* _NORMAL_ASYNC_READ_LIMIT and the status-read quotas
          MaxPasses,     \* _COVERAGE_MAX_PASSES
          Scenarios,     \* what M3 decided, and whether an Apollo call is authorized
          MaxStarts      \* bound: invocations, over all runners

ASSUME PassesAssumption ==
    ReadLimit \in Nat \ {0} /\ MaxPasses = 2 * ReadLimit + 1 /\ MaxStarts \in Nat

VARIABLES disk,       \* the files of each runner
          pc,         \* where each runner's process is
          todo,       \* the checkpoint it is writing and where it goes on
          passes,     \* coverage passes of this invocation
          starts,     \* invocations so far
          scenario,   \* the one this run has
          calls       \* how often each provider request was sent (2 stands for more)

canaryVars == <<disk, pc, todo, passes, starts, scenario, calls>>
vars == <<journalVars, canaryVars>>

Async == {"clay", "instantly"}
PrivateOp == {"exa", "clay", "apollo", "instantly"}
Op == {"run", "enrich"} \cup PrivateOp
Dispatch == Op \X (0 .. ReadLimit)

NoFile == NoPayload
NewRun == "none"
NewEnrich == [status |-> "none", op |-> "none", reads |-> 0]
Absent == [state |-> "none", seq |-> 0, recorded |-> FALSE, answer |-> "none"]
NewPrivate == [status |-> "running", ops |-> [o \in PrivateOp |-> Absent]]
NewDisk == [run |-> NewRun, enrich |-> NewEnrich, private |-> NoFile, usage |-> {}]
NoTodo == [file |-> "none", value |-> NoFile, then |-> "none", kind |-> "none",
           payload |-> NoPayload]

\* The files, and what the journal may hold.
StateName == {"in_flight", "pending", "completed"}
RunFile == {"none", "in_flight", "completed"}
EnrichFile ==
    {e \in [status : {"none", "running", "paused_pending", "completed"},
            op : {"none"} \cup StateName, reads : 0 .. ReadLimit] :
        e.status = "none" => e.op = "none"}
Probe == [state : {"none"} \cup StateName, seq : 0 .. ReadLimit, recorded : BOOLEAN,
          answer : {"none", "value", "empty"}]
PrivateFile == [status : {"running", "completed"}, ops : [PrivateOp -> Probe]]
Usage == SUBSET (PrivateOp \X (0 .. ReadLimit))
SharedPrivate == [checkpoint : PrivateFile, usage : Usage]
RestartCapsule == {c \in [run : {"completed"}, enrich : EnrichFile] : c.enrich.status # "none"}
Shared == [barriers : [Op -> {"none"} \cup StateName],
           private : SharedPrivate \cup {NoPayload},
           restart : RestartCapsule \cup {NoPayload}]

ASSUME NoPayloadAssumption ==
    NoPayload \notin PrivateFile \cup SharedPrivate \cup RestartCapsule \cup Shared

TypeOK ==
    /\ disk \in [Client -> [run : RunFile, enrich : EnrichFile,
                            private : PrivateFile \cup {NoFile}, usage : Usage]]
    /\ passes \in [Client -> 0 .. MaxPasses]
    /\ starts \in 0 .. MaxStarts
    /\ calls \in [Dispatch -> 0 .. 2]

-----------------------------------------------------------------------------
\* What the journal holds (git_journal._transition_with_head and the loads).

EmptyTransition == [barriers |-> [o \in Op |-> "none"], private |-> NoPayload,
                    restart |-> NoPayload]

Transition == IF Durable("transition") = NoPayload THEN EmptyTransition
                                                   ELSE Durable("transition")

\* load_canary_restart_state: the capsule inside the last transition wins over
\* the separate one when the transition is the later asset.
RestartState ==
    IF /\ Transition.restart # NoPayload
       /\ head.restart = 0 \/ head.transition >= head.restart
    THEN Transition.restart
    ELSE Durable("restart")

Capsule(d) == [run |-> d.run, enrich |-> d.enrich]

StatusRank(s) == CASE s = "running" -> 0 [] s = "paused_pending" -> 1 [] s = "completed" -> 2
StateRank(s) == CASE s \in {"none", "in_flight"} -> 0 [] s = "pending" -> 1 [] s = "completed" -> 2

\* CanaryRestartState.from_dict and _restart_update_is_safe.
Restorable(capsule) == capsule.run = "completed" /\ capsule.enrich.status # "none"

Progresses(old, new) ==
    /\ StatusRank(old.status) <= StatusRank(new.status)
    /\ StateRank(old.op) <= StateRank(new.op)
    /\ old.reads <= new.reads
    /\ ~ (old.status = "paused_pending" /\ old.op = "none" /\ new.op = "in_flight")

\* _validate_private_replay: what may be opened again.
Dispatches(ops, o) == {<<o, n>> : n \in 0 .. ops[o].seq}

Listed(ops) == {o \in PrivateOp : ops[o].state # "none"}
Unresolved(ops) == {o \in PrivateOp : ops[o].state \in {"in_flight", "pending"}}

Replays(private, usage) ==
    LET ops == private.ops IN
    /\ Cardinality(Unresolved(ops)) <= 1
    /\ private.status = "completed" => Unresolved(ops) = {}
    /\ usage \subseteq UNION {Dispatches(ops, o) : o \in Listed(ops)}
    /\ \A o \in Listed(ops) :
          /\ Dispatches(ops, o) \ {<<o, ops[o].seq>>} \subseteq usage
          /\ ops[o].recorded => <<o, ops[o].seq>> \in usage
          /\ ops[o].recorded \/ ops[o].state = "in_flight"
          /\ ops[o].state = "pending" \/ ops[o].seq > 0 => o \in Async

-----------------------------------------------------------------------------
\* write_checkpoint: the barrier in the journal first, the local file after it.

Operations(file, value) ==
    CASE file = "run"     -> IF value = NewRun THEN <<>> ELSE [o \in {"run"} |-> value]
      [] file = "enrich"  -> IF value.op = "none" THEN <<>> ELSE [o \in {"enrich"} |-> value.op]
      [] file = "private" -> IF value = NoFile THEN <<>>
                             ELSE [o \in Listed(value.ops) |-> value.ops[o].state]

MayBarrierUnknown(old, new, remote) ==
    new = "in_flight" => CASE old = "in_flight" -> remote = "in_flight"
                           [] old = "pending"   -> remote = "pending"
                           [] OTHER             -> TRUE

MayBarrierSettled(old, new, remote) ==
    new = "in_flight" => CASE old = "in_flight" -> remote = "in_flight"
                           [] old = "pending"   -> remote = "pending"
                           [] OTHER             -> remote \in {"none", "completed"}

\* sync_checkpoint_barrier's refusal of an intent that is durable already.
MayBarrier(old, new, remote) ==
    new = "in_flight" => CASE old = "in_flight" -> remote = "in_flight"
                           [] old = "pending"   -> remote = "pending"
                           [] OTHER             -> remote = "none"

OldState(r, file, o) ==
    LET old == Operations(file, disk[r][file])
    IN  IF o \in DOMAIN old THEN old[o] ELSE "none"

NextTransitionOldUsage(r) ==
    LET t == todo[r]
        now == Operations(t.file, t.value)
    IN  [barriers |-> [o \in Op |-> IF o \in DOMAIN now THEN now[o] ELSE Transition.barriers[o]],
         private  |-> IF t.file = "private"
                      THEN [checkpoint |-> t.value,
                            usage |-> IF Transition.private = NoPayload THEN {}
                                      ELSE Transition.private.usage]
                      ELSE Transition.private,
         restart  |-> IF t.file = "enrich" /\ t.value.status = "paused_pending"
                      THEN [run |-> disk[r].run, enrich |-> t.value]
                      ELSE Transition.restart]

NextTransition(r) ==
    LET t == todo[r]
        now == Operations(t.file, t.value)
    IN  [barriers |-> [o \in Op |-> IF o \in DOMAIN now THEN now[o] ELSE Transition.barriers[o]],
         private  |-> IF t.file = "private"
                      THEN [checkpoint |-> t.value, usage |-> disk[r].usage]
                      ELSE Transition.private,
         restart  |-> IF t.file = "enrich" /\ t.value.status = "paused_pending"
                      THEN [run |-> disk[r].run, enrich |-> t.value]
                      ELSE Transition.restart]

At(r, here) == pc[r] = here
Goto(r, there) == pc' = [pc EXCEPT ![r] = there]
Stay == UNCHANGED <<disk, passes, starts, scenario, calls>>

\* Where a save of a checkpoint begins.  The first private one looks after the
\* restart snapshot before it (canary_checkpoint.py:79-95).
Save(r, file, value, then) ==
    /\ todo' = [todo EXCEPT ![r] = [NoTodo EXCEPT !.file = file, !.value = value,
                                                  !.then = then]]
    /\ Goto(r, IF file = "private" /\ disk[r].private = NoFile THEN "snapshot" ELSE "sync")

\* What the next conversation with the journal is to write.
Post(r, kind, payload) ==
    todo' = [todo EXCEPT ![r].kind = kind, ![r].payload = payload]

\* What was read from the journal and is still to be written to a second file.
Keep(r, value) == todo' = [todo EXCEPT ![r] = [NoTodo EXCEPT !.value = value]]

SkipSyncAlways(r) ==
    /\ At(r, "sync")
    /\ Goto(r, "write")
    /\ UNCHANGED <<journalVars, todo>> /\ Stay

\* A checkpoint without operations is not sent to the journal.
SkipSync(r) ==
    /\ At(r, "sync")
    /\ DOMAIN Operations(todo[r].file, todo[r].value) = {}
    /\ Goto(r, "write")
    /\ UNCHANGED <<journalVars, todo>> /\ Stay

Sync(r) ==
    LET now == Operations(todo[r].file, todo[r].value) IN
    /\ At(r, "sync")
    /\ DOMAIN now # {}
    /\ Load(r, "transition")
    /\ \A o \in DOMAIN now :
          MayBarrier(OldState(r, todo[r].file, o), now[o], Transition.barriers[o])
    /\ IF NextTransition(r) = Transition
       THEN Goto(r, "write") /\ UNCHANGED todo
       ELSE /\ Goto(r, "persist")
            /\ Post(r, "transition", NextTransition(r))
    /\ Stay

\* _persist: GitJournal's conversation, and for a checkpoint the local write
\* right after the journal confirmed it.
Persist(r) ==
    /\ At(r, "persist")
    /\ \/ Check(r, todo[r].kind, todo[r].payload)
       \/ Upload(r)
       \/ Commit(r)
    /\ UNCHANGED <<pc, todo>> /\ Stay

Write(r) ==
    /\ \/ At(r, "write") /\ UNCHANGED journalVars
       \/ At(r, "persist") /\ todo[r].kind = "transition" /\ Confirm(r)
    /\ disk' = [disk EXCEPT ![r][todo[r].file] = todo[r].value]
    /\ Goto(r, todo[r].then)
    /\ todo' = [todo EXCEPT ![r] = NoTodo]
    /\ UNCHANGED <<passes, starts, scenario, calls>>

Send(d) == calls' = [calls EXCEPT ![d] = IF @ = 0 THEN 1 ELSE 2]

-----------------------------------------------------------------------------
\* production_canary.main: restore, run, enrich.

Start(r) ==
    /\ At(r, "off") /\ starts < MaxStarts
    /\ starts' = starts + 1
    /\ passes' = [passes EXCEPT ![r] = 0]
    /\ Goto(r, "restore")
    /\ UNCHANGED <<journalVars, disk, todo, scenario, calls>>

\* restore_canary_restart_state, and _normal_m4_requires_resume after it.
Restore(r) ==
    /\ At(r, "restore")
    /\ Load(r, "transition")
    /\ \/ /\ RestartState = NoPayload
          /\ Transition.private = NoPayload
          /\ Goto(r, "run")
          /\ UNCHANGED <<disk, todo>>
       \/ /\ RestartState # NoPayload
          /\ Restorable(RestartState)
          /\ disk[r].run \in {NewRun, RestartState.run}
          /\ disk[r].enrich \in {NewEnrich, RestartState.enrich}
          /\ disk' = [disk EXCEPT ![r].run = RestartState.run]
          /\ Goto(r, "restored")
          /\ Keep(r, RestartState.enrich)
    /\ UNCHANGED <<passes, starts, scenario, calls>>

RestoreEnrich(r) ==
    /\ At(r, "restored")
    /\ disk' = [disk EXCEPT ![r].enrich = todo[r].value]
    /\ Goto(r, IF todo[r].value.status = "completed" THEN "snapshot" ELSE "enrich")
    /\ todo' = [todo EXCEPT ![r] = NoTodo]
    /\ UNCHANGED <<journalVars, passes, starts, scenario, calls>>

Run(r) ==
    /\ At(r, "run")
    /\ \/ disk[r].run = "completed" /\ Goto(r, "enrich") /\ UNCHANGED todo
       \/ disk[r].run = NewRun /\ Save(r, "run", "in_flight", "call run")
    /\ UNCHANGED journalVars /\ Stay

CallRun(r) ==
    /\ At(r, "call run")
    /\ Send(<<"run", 0>>)
    /\ Save(r, "run", "completed", "enrich")
    /\ UNCHANGED <<journalVars, disk, passes, starts, scenario>>

\* _run_normal_enrichment: new work, or one more read of the pending operation
\* while _normal_m4_resume_allowed says so.
Enrich(r) ==
    LET e == disk[r].enrich IN
    /\ At(r, "enrich")
    /\ \/ /\ e.status = "completed"
          /\ Goto(r, "snapshot") /\ UNCHANGED todo
       \/ /\ e.status = "none" /\ ~ scenario.accepted
          /\ Save(r, "enrich", [NewEnrich EXCEPT !.status = "completed"], "snapshot")
       \/ /\ e.status = "none" /\ scenario.accepted
          /\ Save(r, "enrich", [status |-> "running", op |-> "in_flight", reads |-> 0],
                  "call enrich")
       \/ /\ e.status = "paused_pending" /\ e.op = "pending" /\ e.reads < ReadLimit
          /\ Save(r, "enrich", [e EXCEPT !.reads = @ + 1], "read enrich")
    /\ UNCHANGED journalVars /\ Stay

\* A started operation is saved as pending first and paused_pending after it.
CallEnrich(r) ==
    /\ At(r, "call enrich")
    /\ Send(<<"enrich", 0>>)
    /\ Save(r, "enrich", [disk[r].enrich EXCEPT !.op = "pending"], "pause enrich")
    /\ UNCHANGED <<journalVars, disk, passes, starts, scenario>>

PauseEnrich(r) ==
    /\ At(r, "pause enrich")
    /\ Save(r, "enrich", [disk[r].enrich EXCEPT !.status = "paused_pending"], "enrich")
    /\ UNCHANGED journalVars /\ Stay

\* A settled operation drops its count of reads and is saved under the status
\* the checkpoint still has, paused_pending.
ReadEnrich(r) ==
    LET e == disk[r].enrich IN
    /\ At(r, "read enrich")
    /\ Send(<<"enrich", e.reads>>)
    /\ \/ Save(r, "enrich", e, "enrich")
       \/ Save(r, "enrich", [e EXCEPT !.op = "completed", !.reads = 0], "finish enrich")
    /\ UNCHANGED <<journalVars, disk, passes, starts, scenario>>

FinishEnrich(r) ==
    /\ At(r, "finish enrich")
    /\ Save(r, "enrich", [disk[r].enrich EXCEPT !.status = "completed"], "snapshot")
    /\ UNCHANGED journalVars /\ Stay

-----------------------------------------------------------------------------
\* snapshot_canary_restart_state, before coverage and before the first private
\* barrier: read what is durable, then read the head again to write.

AfterSnapshot(r) == IF todo[r].file = "private" THEN "sync" ELSE "open"

Snapshot(r) ==
    /\ At(r, "snapshot")
    /\ Load(r, "transition")
    /\ Restorable(Capsule(disk[r]))
    /\ \/ RestartState = Capsule(disk[r]) /\ Goto(r, AfterSnapshot(r))
       \/ /\ RestartState # Capsule(disk[r])
          /\ RestartState # NoPayload =>
                /\ RestartState.run = disk[r].run
                /\ Progresses(RestartState.enrich, disk[r].enrich)
          /\ Goto(r, "snapshot head")
    /\ UNCHANGED todo /\ Stay

SnapshotHead(r) ==
    /\ At(r, "snapshot head")
    /\ Load(r, "restart")
    /\ IF Durable("restart") = Capsule(disk[r])
       THEN Goto(r, AfterSnapshot(r)) /\ UNCHANGED todo
       ELSE /\ Goto(r, "persist")
            /\ Post(r, "restart", Capsule(disk[r]))
    /\ Stay

SnapshotDone(r) ==
    /\ At(r, "persist") /\ todo[r].kind = "restart"
    /\ Confirm(r)
    /\ Goto(r, AfterSnapshot(r))
    /\ todo' = [todo EXCEPT ![r].kind = "none", ![r].payload = NoPayload]
    /\ Stay

-----------------------------------------------------------------------------
\* Coverage: run_provider_coverage over CanaryPaidOperations.

Private(r) == IF disk[r].private = NoFile THEN NewPrivate ELSE disk[r].private
Entry(r, o) == Private(r).ops[o]
Has(r, o) == o \in Listed(Private(r).ops)
Completed(r, o) == Entry(r, o).state = "completed"
WithEntry(r, o, entry) == [Private(r) EXCEPT !.ops[o] = entry]

\* CanaryPaidOperations.open with read_canary_checkpoint.
Open(r) ==
    LET remote == Transition.private IN
    /\ At(r, "open") /\ passes[r] < MaxPasses
    /\ Load(r, "transition")
    /\ passes' = [passes EXCEPT ![r] = @ + 1]
    /\ \/ /\ remote = NoPayload
          /\ disk[r].private = NoFile /\ disk[r].usage = {}
          /\ Goto(r, "decide") /\ UNCHANGED <<disk, todo>>
       \/ /\ remote # NoPayload
          /\ Replays(remote.checkpoint, remote.usage)
          /\ disk[r].private = remote.checkpoint /\ disk[r].usage = remote.usage
          /\ Goto(r, "decide") /\ UNCHANGED <<disk, todo>>
       \/ /\ remote # NoPayload
          /\ Replays(remote.checkpoint, remote.usage)
          /\ disk[r].private = NoFile /\ disk[r].usage = {}
          /\ disk' = [disk EXCEPT ![r].private = remote.checkpoint]
          /\ Goto(r, "restore usage")
          /\ Keep(r, remote.usage)
    /\ UNCHANGED <<starts, scenario, calls>>

RestoreUsage(r) ==
    /\ At(r, "restore usage")
    /\ disk' = [disk EXCEPT ![r].usage = todo[r].value]
    /\ Goto(r, "decide")
    /\ todo' = [todo EXCEPT ![r] = NoTodo]
    /\ UNCHANGED <<journalVars, passes, starts, scenario, calls>>

\* _exa_contact, _clay_email, _apollo_email, _verify_email: the operation whose
\* turn it is, given what is settled.
Found(r, o) == Completed(r, o) /\ Entry(r, o).answer # "empty"

Turn(r) ==
    {o \in PrivateOp :
        IF scenario.accepted THEN o = "apollo" /\ scenario.shadow
        ELSE \/ o = "exa" /\ ~ Completed(r, "exa")
             \/ o = "clay" /\ Found(r, "exa") /\ ~ Completed(r, "clay")
             \/ o = "instantly" /\ Found(r, "exa") /\ Found(r, "clay")}

NormalResolved(r) ==
    /\ disk[r].run = "completed"
    /\ disk[r].enrich.status = "completed"
    /\ disk[r].enrich.op \notin {"in_flight", "pending"}

ReadsAfterFirst(r, o) == Cardinality({u \in disk[r].usage : u[1] = o /\ u[2] > 1})

Reads(r, o) == Cardinality({u \in disk[r].usage : u[1] = o /\ u[2] > 0})

\* begin, and reserve_async_read on the pending operation.
Begin(r, o) ==
    /\ At(r, "decide")
    /\ o \in Turn(r) /\ ~ Has(r, o)
    /\ NormalResolved(r)
    /\ Private(r).status # "completed" /\ Unresolved(Private(r).ops) = {}
    /\ Save(r, "private",
            WithEntry(r, o, [state |-> "in_flight", seq |-> 0, recorded |-> FALSE,
                             answer |-> "none"]),
            "call")
    /\ UNCHANGED journalVars /\ Stay

ReserveRead(r, o) ==
    /\ At(r, "decide")
    /\ o \in Turn(r) /\ Has(r, o) /\ Entry(r, o).state = "pending"
    /\ NormalResolved(r)
    /\ Unresolved(Private(r).ops) = {o}
    /\ Reads(r, o) < ReadLimit
    /\ Save(r, "private",
            WithEntry(r, o, [Entry(r, o) EXCEPT !.state = "in_flight", !.seq = @ + 1,
                                                !.recorded = FALSE]),
            "call")
    /\ UNCHANGED journalVars /\ Stay

\* The call, then its usage event in the local file, then the checkpoint that
\* says it is recorded and takes the event into the journal.
Current(r) == CHOOSE o \in Unresolved(Private(r).ops) : TRUE

Call(r) ==
    /\ At(r, "call")
    /\ Send(<<Current(r), Entry(r, Current(r)).seq>>)
    /\ Goto(r, "append")
    /\ UNCHANGED <<journalVars, disk, todo, passes, starts, scenario>>

AppendUsage(r) ==
    LET o == Current(r) IN
    /\ At(r, "append")
    /\ disk' = [disk EXCEPT ![r].usage = @ \cup {<<o, Entry(r, o).seq>>}]
    /\ Goto(r, "record")
    /\ UNCHANGED <<journalVars, todo, passes, starts, scenario, calls>>

RecordUsage(r) ==
    LET o == Current(r) IN
    /\ At(r, "record")
    /\ Save(r, "private", WithEntry(r, o, [Entry(r, o) EXCEPT !.recorded = TRUE]), "settle")
    /\ UNCHANGED journalVars /\ Stay

\* A Clay start is always pending; an answer with a value or without one settles.
Answers(o, seq) ==
    IF o = "clay" /\ seq = 0 THEN {"pending"}
    ELSE {"value", "empty"} \cup IF o \in Async THEN {"pending"} ELSE {}

FinishPass(r) ==
    LET o == Current(r) IN
    /\ At(r, "settle")
    /\ Entry(r, o).recorded
    /\ \E a \in Answers(o, Entry(r, o).seq) :
          IF a = "pending"
          THEN Save(r, "private", WithEntry(r, o, [Entry(r, o) EXCEPT !.state = "pending"]), "open")
          ELSE Save(r, "private",
                    WithEntry(r, o, [Entry(r, o) EXCEPT !.state = "completed", !.answer = a]),
                    "open")
    /\ UNCHANGED journalVars /\ Stay

Finish(r) ==
    LET o == Current(r) IN
    /\ At(r, "settle")
    /\ Entry(r, o).recorded
    /\ \E a \in Answers(o, Entry(r, o).seq) :
          IF a = "pending"
          THEN Save(r, "private", WithEntry(r, o, [Entry(r, o) EXCEPT !.state = "pending"]), "open")
          ELSE Save(r, "private",
                    WithEntry(r, o, [Entry(r, o) EXCEPT !.state = "completed", !.answer = a]),
                    "decide")
    /\ UNCHANGED journalVars /\ Stay

\* _finish_summary: pending ends the pass, otherwise the private work completes.
LeavePending(r, o) ==
    /\ At(r, "decide")
    /\ o \in Turn(r) /\ Has(r, o) /\ Entry(r, o).state = "pending"
    /\ Reads(r, o) >= ReadLimit
    /\ Goto(r, "open")
    /\ UNCHANGED <<journalVars, todo>> /\ Stay

Complete(r) ==
    /\ At(r, "decide")
    /\ \A o \in Turn(r) : Completed(r, o)
    /\ \/ Private(r).status = "completed" /\ Goto(r, "off") /\ UNCHANGED todo
       \/ /\ Private(r).status # "completed"
          /\ Save(r, "private", [Private(r) EXCEPT !.status = "completed"], "off")
    /\ UNCHANGED journalVars /\ Stay

\* The invocation ends: an exception, an exit, the end of the passes, or the
\* loss of the process anywhere.
Stop(r) ==
    /\ ~ At(r, "off")
    /\ GiveUp(r)
    /\ Goto(r, "off")
    /\ todo' = [todo EXCEPT ![r] = NoTodo]
    /\ Stay

-----------------------------------------------------------------------------
\* build_canary_coverage_report, of the probes: what a runner reports when it
\* ends.  The code opens the private work first and raises where the files and
\* the journal disagree (canary_outcomes.py:241-251); here a runner may report
\* at any moment, so that this is what its files would say before that check.

Unanswered(r, o) ==
    Entry(r, o).state = "in_flight" \/ ~ \E u \in disk[r].usage : u[1] = o

IntegrationUnpolled(r, o) ==
    IF ~ Has(r, o) THEN "not_exercised"
    ELSE IF Unanswered(r, o) THEN "failure" ELSE "success"

\* A pending operation counts as a success once a status read followed its start.
Integration(r, o) ==
    IF ~ Has(r, o) THEN "not_exercised"
    ELSE IF Unanswered(r, o) THEN "failure"
    ELSE IF Entry(r, o).state = "completed" \/ Entry(r, o).seq > 0 THEN "success"
    ELSE "inconclusive"

-----------------------------------------------------------------------------

Init ==
    /\ JournalInit
    /\ disk = [r \in Client |-> NewDisk]
    /\ pc = [r \in Client |-> "off"]
    /\ todo = [r \in Client |-> NoTodo]
    /\ passes = [r \in Client |-> 0]
    /\ starts = 0
    /\ scenario \in Scenarios
    /\ calls = [d \in Dispatch |-> 0]

Checkpointing(r) == SkipSync(r) \/ Sync(r) \/ Persist(r) \/ Write(r)

Normal(r) ==
    \/ Start(r) \/ Restore(r) \/ RestoreEnrich(r)
    \/ Run(r) \/ CallRun(r)
    \/ Enrich(r) \/ CallEnrich(r) \/ PauseEnrich(r) \/ ReadEnrich(r) \/ FinishEnrich(r)
    \/ Snapshot(r) \/ SnapshotHead(r) \/ SnapshotDone(r)

Coverage(r) ==
    \/ Open(r) \/ RestoreUsage(r)
    \/ \E o \in PrivateOp : Begin(r, o) \/ ReserveRead(r, o) \/ LeavePending(r, o)
    \/ Call(r) \/ AppendUsage(r) \/ RecordUsage(r) \/ Finish(r)
    \/ Complete(r)

Next == \E r \in Client : Checkpointing(r) \/ Normal(r) \/ Coverage(r) \/ Stop(r)

Spec == Init /\ [][Next]_vars

-----------------------------------------------------------------------------

(***************************************************************************)
(* No paid operation is started twice, whichever runners were lost or ran  *)
(* at the same time: a durable intent is never sent again                  *)
(* (git_journal.py:844-859).  Status reads are left out: they are bounded  *)
(* and cost nothing, and two concurrent canaries can repeat them.          *)
(***************************************************************************)
NoPaidStartTwice == \A o \in Op : calls[<<o, 0>>] <= 1

(***************************************************************************)
(* A start, and a private status read, is sent only while the journal says *)
(* in_flight for it, so that a runner lost right after it leaves the       *)
(* barrier behind (canary_checkpoint.py:120-139).                          *)
(***************************************************************************)
CallsHaveDurableIntent ==
    [][\A d \in Dispatch :
          /\ calls'[d] # calls[d]
          /\ d[1] \in PrivateOp \/ d[2] = 0
          => Transition.barriers[d[1]] = "in_flight"]_vars

(***************************************************************************)
(* Whatever private state is durable, a runner without any file of its own *)
(* finds what it needs: usage that accounts for every dispatch recorded,   *)
(* and a capsule of the normal stages (canary_paid_operations.py:243-335,  *)
(* canary_restart.py:351-363).  For a company M3 did not accept, the one   *)
(* kind whose asynchronous probes take several passes, that capsule says   *)
(* the normal stages are completed, so that the runner goes on to open.    *)
(* For an accepted company it may not: RestoredIsCompleted.                *)
(***************************************************************************)
FreshRunnerCanOpen ==
    Transition.private # NoPayload =>
        /\ Replays(Transition.private.checkpoint, Transition.private.usage)
        /\ RestartState # NoPayload /\ Restorable(RestartState)
        /\ ~ scenario.accepted => RestartState.enrich.status = "completed"

(***************************************************************************)
(* "Before the first canary-private paid barrier, the canary privately     *)
(* snapshots only the completed normal restart prerequisites", and a fresh *)
(* runner restores that snapshot (src/docs/architecture.md:66, README.md:  *)
(* 395): once there is private state, what is restored is completed.       *)
(***************************************************************************)
RestoredIsCompleted ==
    Transition.private # NoPayload =>
        RestartState # NoPayload /\ RestartState.enrich.status = "completed"

(***************************************************************************)
(* The coverage passes are enough for every status read the quotas allow:  *)
(* when they are used up nothing pending could still be read               *)
(* (production_canary.py:33, 289-297).                                     *)
(***************************************************************************)
PassesReachEveryRead ==
    \A r \in Client :
        At(r, "open") /\ passes[r] = MaxPasses =>
            \A o \in PrivateOp :
                Private(r).ops[o].state = "pending" => Reads(r, o) >= ReadLimit

(***************************************************************************)
(* The barrier of an operation that completed is never taken back, by a    *)
(* runner that was lost and comes back or by another one (git_journal.py:  *)
(* 844-861).  The normal Clay and Instantly operations are left out: their *)
(* pending state is written without a check (README, section 5).           *)
(***************************************************************************)
SettledStaysSettled ==
    [][\A o \in Op \ {"enrich"} :
          Transition.barriers[o] = "completed" => Transition.barriers[o]' = "completed"]_vars

(***************************************************************************)
(* A probe that a runner reports as a success, whichever runner sent it    *)
(* and however many were lost since, was really exchanged with its         *)
(* provider: every dispatch its entry counts was sent, a pending one was   *)
(* read at least once, and the journal has the operation, with the same    *)
(* outcome once it completed (canary_outcomes.py:438-468).                 *)
(***************************************************************************)
SuccessIsEarned ==
    \A r \in Client, o \in PrivateOp :
        Integration(r, o) = "success" =>
            LET e == Entry(r, o) durable == Transition.private.checkpoint.ops IN
            /\ \A n \in 0 .. e.seq : calls[<<o, n>>] >= 1
            /\ e.state = "pending" => calls[<<o, 1>>] >= 1
            /\ durable[o].state # "none"
            /\ e.state = "completed" => durable[o] = e

=============================================================================
