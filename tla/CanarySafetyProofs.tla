------------------------- MODULE CanarySafetyProofs -------------------------
(***************************************************************************)
(* What the canary's runners may never do, for every number of runners,    *)
(* losses, restarts and reads: the rest of the invariant of CanaryProofs,  *)
(* about what the journal holds, and the safety properties that follow.    *)
(***************************************************************************)
EXTENDS CanaryProofs

\* A runner's step is a step of the journal or leaves it alone.
LEMMA JournalOfRunner ==
    ASSUME NEW r \in Client, RunnerStep(r)
    PROVE  AnyStep(r) \/ UNCHANGED journalVars
<1>1. CASE Stop(r)
    BY <1>1 DEF Stop, AnyStep
<1> QED
    BY <1>1, CheckpointingSteps, NormalSteps, CoverageSteps DEF RunnerStep

LEMMA KeepsConversations ==
    ASSUME JournalInv, NEW r \in Client, RunnerStep(r), NEW s \in Client, s # r
    PROVE  request'[s] = request[s] /\ expected'[s] = expected[s]
<1>1. DOMAIN request = Client /\ DOMAIN expected = Client
    BY DEF JournalInv, RequestInv, ExpectedInv
<1>2. CASE UNCHANGED journalVars
    BY <1>2 DEF journalVars
<1>3. CASE AnyStep(r)
    BY <1>1, <1>3, OtherConversations
<1> QED
    BY <1>2, <1>3, JournalOfRunner

-----------------------------------------------------------------------------
(***************************************************************************)
(* The local parts, for every step.                                        *)
(***************************************************************************)
LEMMA OwnStepLocal ==
    ASSUME JournalInv, Shape, NEW r \in Client, Local(r), RunnerStep(r),
           DurableInv(Transition, Durable("restart"), scenario)
    PROVE  Shape' /\ Local(r)'
<1>1. DOMAIN request = Client
    BY DEF JournalInv, RequestInv
<1>2. Transition \in Shared
    BY DEF DurableInv
<1>3. CASE Checkpointing(r)
    BY <1>1, <1>2, <1>3, SkipSyncKeeps, SyncKeeps, PersistKeeps, WriteKeeps DEF Checkpointing
<1>4. CASE Start(r) \/ Restore(r) \/ RestoreEnrich(r) \/ Run(r) \/ CallRun(r)
    BY <1>4, StartKeeps, RestoreKeeps, RestoreEnrichKeeps, RunKeeps, CallRunKeeps
<1>5. CASE Enrich(r) \/ CallEnrich(r) \/ PauseEnrich(r) \/ ReadEnrich(r) \/ FinishEnrich(r)
    BY <1>5, EnrichKeeps, CallEnrichKeeps, PauseEnrichKeeps, ReadEnrichKeeps, FinishEnrichKeeps
<1>6. CASE Snapshot(r) \/ SnapshotHead(r) \/ SnapshotDone(r)
    BY <1>1, <1>6, SnapshotKeeps
<1>7. CASE Open(r) \/ RestoreUsage(r)
    BY <1>7, OpenKeeps, RestoreUsageKeeps
<1>8. CASE \E o \in PrivateOp : Begin(r, o) \/ ReserveRead(r, o) \/ LeavePending(r, o)
    BY <1>8, BeginKeeps, ReserveReadKeeps, LeavePendingKeeps
<1>9. CASE Call(r) \/ AppendUsage(r) \/ RecordUsage(r) \/ Finish(r) \/ Complete(r)
    BY <1>9, CallKeeps, AppendUsageKeeps, RecordUsageKeeps, FinishKeeps, CompleteKeeps
<1>10. CASE Stop(r)
    BY <1>1, <1>10, StopKeeps
<1> QED
    BY <1>3, <1>4, <1>5, <1>6, <1>7, <1>8, <1>9, <1>10 DEF RunnerStep, Normal, Coverage

LEMMA LocalStep ==
    ASSUME JournalInv, Shape, \A s \in Client : Local(s), NEW r \in Client, RunnerStep(r),
           DurableInv(Transition, Durable("restart"), scenario)
    PROVE  Shape' /\ \A s \in Client : Local(s)'
<1>1. Shape' /\ Local(r)'
    BY OwnStepLocal
<1>2. Frame(r)
    BY FrameOf
<1>3. ASSUME NEW s \in Client \ {r} PROVE Local(s)'
    BY <1>2, <1>3, KeepsConversations, OthersLocal
<1> QED
    BY <1>1, <1>3

-----------------------------------------------------------------------------
(***************************************************************************)
(* What a step does to what is durable: nothing, or it moves the head and  *)
(* makes the payload durable that the runner prepared.                     *)
(***************************************************************************)
Quiet == Transition' = Transition /\ Durable("restart")' = Durable("restart") /\ head' = head

Commits(r) ==
    /\ Commit(r)
    /\ pc[r] = "persist" /\ request[r].phase = "commit"
    /\ request[r].kind = todo[r].kind /\ request[r].payload = todo[r].payload
    /\ UNCHANGED <<disk, pc, todo, passes, starts, scenario, calls>>

LEMMA QuietOrCommits ==
    ASSUME JournalInv, Shape, NEW r \in Client, Local(r), RunnerStep(r)
    PROVE  Quiet \/ Commits(r)
<1>1. CASE UNCHANGED journalVars
    BY <1>1 DEF journalVars, Quiet, Transition, Durable, Latest
<1>2. CASE AnyStep(r) /\ ~ Commit(r)
    BY <1>2, OtherEffect DEF Quiet, Transition
<1>3. CASE AnyStep(r) /\ Commit(r)
    <2>1. request[r].phase = "commit" /\ request'[r].phase = "confirm" /\ DOMAIN request = Client
        BY <1>3 DEF Commit, Onward, JournalInv, RequestInv
    <2>2. request[r] # NoRequest /\ request'[r] # NoRequest
        BY <2>1 DEF NoRequest
    <2>3. pc[r] = "persist" /\ request[r].kind = todo[r].kind /\ request[r].payload = todo[r].payload
        BY <2>1, <2>2 DEF Local, LocalInv, RequestsInv
    <2>4. Persist(r)
        <3>1. ~ Stop(r)
            BY <2>1, <2>2 DEF Stop, GiveUp
        <3>2. ~ SnapshotDone(r) /\ ~ Write(r)
            BY <2>1, <2>3 DEF SnapshotDone, Write, Confirm, At
        <3>3. ~ SkipSync(r) /\ ~ Sync(r) /\ ~ Snapshot(r) /\ ~ SnapshotHead(r)
            BY <2>3 DEF SkipSync, Sync, Snapshot, SnapshotHead, At
        <3>4. ~ (Start(r) \/ Restore(r) \/ RestoreEnrich(r) \/ Run(r) \/ CallRun(r) \/ Enrich(r)
                   \/ CallEnrich(r) \/ PauseEnrich(r) \/ ReadEnrich(r) \/ FinishEnrich(r))
            BY <2>3 DEF Start, Restore, RestoreEnrich, Run, CallRun, Enrich, CallEnrich,
                        PauseEnrich, ReadEnrich, FinishEnrich, At
        <3>5. ~ Coverage(r)
            BY <2>3 DEF Coverage, Open, RestoreUsage, Begin, ReserveRead, LeavePending, Call,
                        AppendUsage, RecordUsage, Finish, Complete, At
        <3> QED
            BY <3>1, <3>2, <3>3, <3>4, <3>5 DEF RunnerStep, Checkpointing, Normal
    <2> QED
        BY <1>3, <2>1, <2>3, <2>4 DEF Commits, Persist, Stay
<1> QED
    BY <1>1, <1>2, <1>3, JournalOfRunner

\* The commit of a transition, and of a separate capsule.
LEMMA TransitionCommitted ==
    ASSUME JournalInv, ContentInv, NEW r \in Client, Prepared(r), Commits(r),
           todo[r].kind = "transition", NextOf(Transition, todo[r], disk[r]) \in Shared
    PROVE  /\ Transition' = NextOf(Transition, todo[r], disk[r])
           /\ Durable("restart")' = Durable("restart")
           /\ Admitted(Transition, todo[r], disk[r])
           /\ head'.restart = head.restart
           /\ \A s \in Client : expected'[s] # head'
<1>1. /\ expected[r] = head
      /\ Durable("transition")' = todo[r].payload
      /\ Durable("restart")' = Durable("restart")
      /\ \A s \in Client : expected'[s] # head'
    BY CommitEffect DEF Commits, Kind
<1>2. todo[r].payload = NextOf(Transition, todo[r], disk[r]) /\ Admitted(Transition, todo[r], disk[r])
    BY <1>1 DEF Prepared, PreparedInv, Commits
<1>3. Transition' = NextOf(Transition, todo[r], disk[r])
    <2>1. todo[r].payload # NoPayload
        BY <1>2, NoPayloadAssumption
    <2>2. Transition' = Durable("transition")'
        BY <1>1, <2>1 DEF Transition
    <2> QED
        BY <1>1, <1>2, <2>2
<1>4. head'.restart = head.restart
    <2>1. head \in Head /\ head' = Advance(head, "transition")
        BY OwnerKnowsHead DEF Commits, Commit, Owns, JournalInv, HeadInv
    <2> QED
        BY <2>1, AdvanceFields
<1> QED
    BY <1>1, <1>2, <1>3, <1>4

LEMMA CapsuleCommitted ==
    ASSUME JournalInv, ContentInv, NEW r \in Client, Prepared(r), Commits(r),
           todo[r].kind = "restart"
    PROVE  /\ Transition' = Transition
           /\ Durable("restart")' = Capsule(disk[r])
           /\ Restorable(Capsule(disk[r]))
           /\ \A s \in Client : expected'[s] # head'
<1>1. /\ Durable("restart")' = todo[r].payload
      /\ Durable("transition")' = Durable("transition")
      /\ \A s \in Client : expected'[s] # head'
    BY CommitEffect DEF Commits, Kind
<1>2. todo[r].payload = Capsule(disk[r]) /\ Restorable(Capsule(disk[r]))
    BY DEF Prepared, PreparedInv, Commits
<1> QED
    BY <1>1, <1>2 DEF Transition

\* What a runner that commits was saving.
LEMMA CommitKinds ==
    ASSUME Shape, NEW r \in Client, Local(r), Commits(r), Transition \in Shared
    PROVE  \/ todo[r].kind = "restart"
           \/ /\ todo[r].kind = "transition" /\ todo[r].file \in FileName
              /\ SaveInv("sync", todo[r], disk[r], passes[r], scenario)
              /\ NextOf(Transition, todo[r], disk[r]) \in Shared
<1>1. \/ todo[r].kind = "restart"
      \/ todo[r].kind = "transition" /\ todo[r].file \in FileName
    BY DEF Local, LocalInv, PlaceInv, Commits
<1>2. SaveInv("sync", todo[r], disk[r], passes[r], scenario)
    <2>1. SaveInv("persist", todo[r], disk[r], passes[r], scenario)
        BY DEF Local, LocalInv, Commits
    <2> QED
        BY <2>1 DEF SaveInv, Saves, SavePlaces
<1> QED
    BY <1>1, <1>2, NextOfShared

-----------------------------------------------------------------------------
(***************************************************************************)
(* A payload is made from what is durable when it is made.                 *)
(***************************************************************************)
LEMMA OthersPrepared ==
    ASSUME JournalInv, ContentInv, Shape, NEW r \in Client, Local(r), Prepared(r), RunnerStep(r),
           NEW s \in Client, s # r, Prepared(s), Transition \in Shared
    PROVE  Prepared(s)'
<1>1. /\ pc'[s] = pc[s] /\ todo'[s] = todo[s] /\ disk'[s] = disk[s]
      /\ request'[s] = request[s] /\ expected'[s] = expected[s]
    BY FrameOf, KeepsConversations DEF Frame
<1>2. CASE Quiet
    BY <1>1, <1>2 DEF Quiet, Prepared
<1>3. CASE Commits(r)
    <2>1. expected'[s] # head'
        BY <1>3, CommitKinds, TransitionCommitted, CapsuleCommitted
    <2>2. PreparedInv(pc[s], todo[s], disk[s], request[s], Transition', FALSE)
        BY DEF Prepared, PreparedInv
    <2> QED
        BY <1>1, <2>1, <2>2 DEF Prepared
<1> QED
    BY <1>2, <1>3, QuietOrCommits

LEMMA NextOfSame ==
    ASSUME NEW T, NEW t, NEW u, NEW d, u.file = t.file, u.value = t.value
    PROVE  NextOf(T, u, d) = NextOf(T, t, d)
BY DEF NextOf

\* Sync prepares the next transition.
LEMMA SyncPrepares ==
    ASSUME Shape, NEW r \in Client, Local(r), Sync(r), Quiet
    PROVE  Prepared(r)'
<1>1. CASE pc'[r] # "persist"
    BY <1>1 DEF Prepared, PreparedInv
<1>2. CASE pc'[r] = "persist"
    <2>1. /\ todo' = [todo EXCEPT ![r].kind = "transition", ![r].payload = NextTransition(r)]
          /\ disk'[r] = disk[r] /\ todo[r] \in Todo
          /\ \A o \in DOMAIN Operations(todo[r].file, todo[r].value) :
                MayBarrier(OldState(r, todo[r].file, o), Operations(todo[r].file, todo[r].value)[o],
                           Transition.barriers[o])
        BY <1>2 DEF Sync, Post, Goto, Stay, Shape
    <2>2. /\ todo'[r].kind = "transition" /\ todo'[r].payload = NextTransition(r)
          /\ todo'[r].file = todo[r].file /\ todo'[r].value = todo[r].value
        BY <2>1 DEF Shape, Todo
    <2>3. NextTransition(r) = NextOf(Transition, todo[r], disk[r])
        BY DEF NextTransition, NextOf
    <2>4. NextOf(Transition', todo'[r], disk'[r]) = NextOf(Transition, todo[r], disk[r])
        <3>1. Transition' = Transition /\ disk'[r] = disk[r]
            BY <2>1 DEF Quiet
        <3>2. NextOf(Transition, todo'[r], disk[r]) = NextOf(Transition, todo[r], disk[r])
            BY <2>2, NextOfSame
        <3> QED
            BY <3>1, <3>2
    <2>5. Admitted(Transition', todo'[r], disk'[r])
        BY <2>1, <2>2 DEF Admitted, OldState, Quiet
    <2> QED
        BY <2>2, <2>3, <2>4, <2>5 DEF Prepared, PreparedInv
<1> QED
    BY <1>1, <1>2

LEMMA SnapshotPrepares ==
    ASSUME Shape, NEW r \in Client, Local(r), SnapshotHead(r)
    PROVE  Prepared(r)'
<1>1. CASE pc'[r] # "persist"
    BY <1>1 DEF Prepared, PreparedInv
<1>2. CASE pc'[r] = "persist"
    <2>1. Restorable(Capsule(disk[r]))
        BY DEF Local, LocalInv, PlaceInv, SnapshotHead, At
    <2>2. /\ todo' = [todo EXCEPT ![r].kind = "restart", ![r].payload = Capsule(disk[r])]
          /\ disk'[r] = disk[r] /\ todo[r] \in Todo
        BY <1>2 DEF SnapshotHead, Post, Goto, Stay, Shape, AfterSnapshot
    <2>3. todo'[r].kind = "restart" /\ todo'[r].payload = Capsule(disk'[r])
        BY <2>2 DEF Shape, Todo
    <2> QED
        BY <2>1, <2>2, <2>3 DEF Prepared, PreparedInv
<1> QED
    BY <1>1, <1>2

\* Check and Upload keep what was prepared; the commit is the end of it.
LEMMA PersistPrepared ==
    ASSUME JournalInv, NEW r \in Client, Prepared(r), Persist(r), Quiet \/ Commits(r)
    PROVE  Prepared(r)'
<1>1. DOMAIN request = Client
    BY DEF JournalInv, RequestInv
<1>2. CASE Commits(r)
    <2>1. request'[r].phase = "confirm"
        BY <1>1, <1>2 DEF Commits, Commit, Onward
    <2> QED
        BY <2>1 DEF Prepared, PreparedInv
<1>3. CASE Quiet /\ ~ Commit(r)
    <2>1. /\ pc[r] = "persist" /\ pc' = pc /\ todo' = todo /\ disk' = disk /\ expected' = expected
          /\ request[r] = NoRequest \/ request[r].phase = "upload"
        BY <1>3 DEF Persist, At, Stay, Check, Upload
    <2>2. request[r].phase # "confirm"
        BY <2>1 DEF NoRequest
    <2> QED
        BY <1>3, <2>1, <2>2 DEF Prepared, PreparedInv, Quiet
<1>4. CASE Quiet /\ Commit(r)
    <2>1. request'[r].phase = "confirm"
        BY <1>1, <1>4 DEF Commit, Onward
    <2> QED
        BY <2>1 DEF Prepared, PreparedInv
<1> QED
    BY <1>2, <1>3, <1>4

LEMMA OwnPrepared ==
    ASSUME JournalInv, Shape, NEW r \in Client, Local(r), Prepared(r), RunnerStep(r)
    PROVE  Prepared(r)'
<1>1. Quiet \/ Commits(r)
    BY QuietOrCommits
<1>2. DOMAIN pc = Client /\ DOMAIN todo = Client
    BY DEF Shape
<1>3. ASSUME pc'[r] # "persist" PROVE Prepared(r)'
    BY <1>3 DEF Prepared, PreparedInv
<1>4. ASSUME todo'[r].kind = "none" PROVE Prepared(r)'
    BY <1>4 DEF Prepared, PreparedInv
<1>5. CASE Sync(r)
    <2>1. ~ Commits(r)
        BY <1>5 DEF Commits, Sync, At
    <2> QED
        BY <1>1, <1>5, <2>1, SyncPrepares
<1>6. CASE SnapshotHead(r)
    BY <1>6, SnapshotPrepares
<1>7. CASE Persist(r)
    BY <1>1, <1>7, PersistPrepared
<1>8. CASE Write(r) \/ Stop(r)
    BY <1>2, <1>4, <1>8 DEF Write, Stop, NoTodo
<1>9. CASE SkipSync(r) \/ Start(r) \/ Restore(r) \/ RestoreEnrich(r) \/ Snapshot(r)
           \/ SnapshotDone(r) \/ Open(r) \/ RestoreUsage(r)
    BY <1>2, <1>3, <1>9 DEF SkipSync, Start, Restore, RestoreEnrich, Snapshot, SnapshotDone,
                            AfterSnapshot, Open, RestoreUsage, Goto
<1>10. CASE Run(r) \/ CallRun(r) \/ Enrich(r) \/ CallEnrich(r) \/ PauseEnrich(r) \/ ReadEnrich(r)
            \/ FinishEnrich(r)
    BY <1>2, <1>3, <1>10 DEF Run, CallRun, Enrich, CallEnrich, PauseEnrich, ReadEnrich,
                             FinishEnrich, Goto, Save
<1>11. CASE \E o \in PrivateOp : Begin(r, o) \/ ReserveRead(r, o) \/ LeavePending(r, o)
    BY <1>2, <1>3, <1>11 DEF Begin, ReserveRead, LeavePending, Goto, Save
<1>12. CASE Call(r) \/ AppendUsage(r) \/ RecordUsage(r) \/ Finish(r) \/ Complete(r)
    BY <1>2, <1>3, <1>12 DEF Call, AppendUsage, RecordUsage, Finish, Complete, Goto, Save
<1> QED
    BY <1>5, <1>6, <1>7, <1>8, <1>9, <1>10, <1>11, <1>12
    DEF RunnerStep, Checkpointing, Normal, Coverage

LEMMA PreparedStep ==
    ASSUME JournalInv, ContentInv, Shape, \A s \in Client : Local(s) /\ Prepared(s),
           NEW r \in Client, RunnerStep(r), Transition \in Shared
    PROVE  \A s \in Client : Prepared(s)'
BY OwnPrepared, OthersPrepared

-----------------------------------------------------------------------------
(***************************************************************************)
(* What lets an empty runner restore the normal stages stays durable.      *)
(***************************************************************************)
RestartKnown == head.restart # 0 => Durable("restart") # NoPayload

LEMMA CapsuleTyped ==
    ASSUME Shape, NEW r \in Client, Restorable(Capsule(disk[r]))
    PROVE  Capsule(disk[r]) \in RestartCapsule /\ Capsule(disk[r]) # NoPayload
<1>1. disk[r] \in Files
    BY ShapeOf
<1>2. Capsule(disk[r]) \in RestartCapsule
    BY <1>1 DEF Files, Capsule, Restorable, RestartCapsule
<1> QED
    BY <1>2, NoPayloadAssumption

\* A transition never drops the capsule it carries.
LEMMA NextOfKeepsRestart ==
    ASSUME Shape, NEW r \in Client, NEW T \in Shared, todo[r].file \in FileName,
           SaveInv("sync", todo[r], disk[r], passes[r], scenario), T.restart # NoPayload
    PROVE  NextOf(T, todo[r], disk[r]).restart # NoPayload
<1> DEFINE t == todo[r]
           d == disk[r]
<1>1. d \in Files
    BY ShapeOf
<1>2. CASE t.file = "run"
    BY <1>2, NextOfRun DEF SaveInv, Saves, SavePlaces, RunPlan, RunFile
<1>3. CASE t.file = "enrich"
    <2>1. d.run = "completed" /\ t.value \in EnrichFile /\ t.value.status # "none"
        BY <1>3 DEF SaveInv, Saves, SavePlaces, EnrichPlan
    <2>2. NextOf(T, t, d).restart = IF t.value.status = "paused_pending"
                                    THEN [run |-> d.run, enrich |-> t.value] ELSE T.restart
        BY <1>3, <2>1, NextOfEnrich
    <2>3. [run |-> d.run, enrich |-> t.value] \in RestartCapsule
        BY <2>1 DEF RestartCapsule
    <2> QED
        BY <2>2, <2>3, NoPayloadAssumption
<1>4. CASE t.file = "private"
    BY <1>4 DEF NextOf
<1> QED
    BY <1>2, <1>3, <1>4 DEF FileName

LEMMA RestartStays ==
    ASSUME JournalInv, ContentInv, Shape, NEW r \in Client, Local(r), Prepared(r), RunnerStep(r),
           Transition \in Shared, RestartKnown
    PROVE  /\ HaveRestart(Transition, Durable("restart"))
                => HaveRestart(Transition, Durable("restart"))'
           /\ RestartKnown'
           /\ Commits(r) /\ todo[r].kind = "restart" => HaveRestart(Transition, Durable("restart"))'
<1>1. CASE Quiet /\ ~ Commits(r)
    BY <1>1 DEF Quiet, HaveRestart, RestartKnown
<1>2. CASE Commits(r) /\ todo[r].kind = "restart"
    <2>1. Durable("restart")' = Capsule(disk[r]) /\ Restorable(Capsule(disk[r]))
        BY <1>2, CapsuleCommitted
    <2>2. Durable("restart")' # NoPayload
        BY <2>1, CapsuleTyped
    <2> QED
        BY <2>2 DEF HaveRestart, RestartKnown
<1>3. CASE Commits(r) /\ todo[r].kind # "restart"
    <2>1. /\ todo[r].kind = "transition" /\ todo[r].file \in FileName
          /\ SaveInv("sync", todo[r], disk[r], passes[r], scenario)
          /\ NextOf(Transition, todo[r], disk[r]) \in Shared
        BY <1>3, CommitKinds
    <2>2. /\ Transition' = NextOf(Transition, todo[r], disk[r])
          /\ Durable("restart")' = Durable("restart")
          /\ head'.restart = head.restart
        BY <1>3, <2>1, TransitionCommitted
    <2>3. Transition.restart # NoPayload => Transition'.restart # NoPayload
        BY <2>1, <2>2, NextOfKeepsRestart
    <2> QED
        BY <1>3, <2>2, <2>3 DEF HaveRestart, RestartKnown
<1> QED
    BY <1>1, <1>2, <1>3, QuietOrCommits

\* What a fresh runner reads is one of the two durable capsules.
LEMMA RestartStateOf ==
    ASSUME RestartKnown, Transition \in Shared, Durable("restart") \in RestartCapsule \cup {NoPayload}
    PROVE  /\ RestartState \in RestartCapsule \cup {NoPayload}
           /\ RestartState # NoPayload => HaveRestart(Transition, Durable("restart"))
           /\ HaveRestart(Transition, Durable("restart")) => RestartState # NoPayload
<1>1. Transition.restart \in RestartCapsule \cup {NoPayload}
    BY DEF Shared
<1> QED
    BY <1>1 DEF RestartState, HaveRestart, RestartKnown

CoverPlaces == Working \cup {"open", "decide", "restore usage"}

\* A runner whose step does not move the head covers only what it covered, or
\* found a capsule.
LEMMA QuietCovers ==
    ASSUME Shape, NEW r \in Client, Local(r), RunnerStep(r), Quiet, ~ Commits(r),
           DOMAIN request = Client,
           Transition \in Shared, Durable("restart") \in RestartCapsule \cup {NoPayload}, RestartKnown,
           Covers(pc[r], todo[r], request[r])'
    PROVE  \/ Covers(pc[r], todo[r], request[r])
           \/ HaveRestart(Transition, Durable("restart"))
<1> DEFINE Goal == \/ Covers(pc[r], todo[r], request[r])
                   \/ HaveRestart(Transition, Durable("restart"))
<1>0. DOMAIN pc = Client /\ DOMAIN todo = Client /\ todo \in [Client -> Todo] /\ todo[r] \in Todo
    BY DEF Shape
<1> NoRequest.phase = "none"
    BY DEF NoRequest
<1>1. ASSUME pc[r] \in CoverPlaces PROVE Goal
    BY <1>1 DEF Covers, CoverPlaces
<1>2. ASSUME Saves(pc[r], todo[r], "private") PROVE Goal
    BY <1>2 DEF Covers
<1>3. ASSUME pc'[r] \notin CoverPlaces, todo'[r].file # "private",
             todo'[r].kind # "restart" \/ request'[r].phase # "confirm" PROVE FALSE
    BY <1>3 DEF Covers, CoverPlaces, Saves
<1>4. CASE SkipSync(r) \/ Sync(r)
    <2>1. /\ pc[r] = "sync" /\ pc'[r] \in {"write", "persist"} /\ request' = request
          /\ todo'[r].file = todo[r].file
          /\ request[r] = NoRequest \/ pc'[r] = "write"
        BY <1>0, <1>4 DEF SkipSync, Sync, Goto, Post, Load, At, Todo, journalVars
    <2>2. todo'[r].file = "private"
        BY <2>1 DEF Covers, Saves, Working
    <2> QED
        BY <1>2, <2>1, <2>2 DEF Saves, SavePlaces
<1>5. CASE Persist(r)
    <2>1. /\ pc[r] = "persist" /\ pc'[r] = "persist" /\ todo' = todo
          /\ Check(r, todo[r].kind, todo[r].payload) \/ Upload(r) \/ Commit(r)
        BY <1>0, <1>5 DEF Persist, At
    <2>2. CASE Commit(r)
        <3>1. request[r].phase = "commit"
            BY <2>2 DEF Commit
        <3>2. request[r].kind = todo[r].kind /\ request[r].payload = todo[r].payload
            BY <2>1, <3>1 DEF Local, LocalInv, RequestsInv
        <3> QED
            BY <1>5, <2>1, <2>2, <3>1, <3>2 DEF Commits, Persist, Stay
    <2>3. CASE ~ Commit(r)
        <3>1. request'[r].phase \in {"upload", "commit"}
            BY <2>1, <2>3 DEF Check, Upload, Onward
        <3> QED
            BY <1>2, <2>1, <3>1 DEF Covers, Saves, Working
    <2> QED BY <2>2, <2>3
<1>6. CASE Write(r)
    <2>1. /\ pc[r] \in {"write", "persist"} /\ pc'[r] = todo[r].then /\ todo'[r] = NoTodo
          /\ pc[r] = "persist" => todo[r].kind = "transition"
        BY <1>0, <1>6 DEF Write, At, Goto
    <2>2. todo[r].then \in CoverPlaces
        BY <1>3, <2>1 DEF NoTodo
    <2>3. todo[r].file \in FileName
        BY <2>1 DEF Local, LocalInv, PlaceInv
    <2>4. SaveInv(pc[r], todo[r], disk[r], passes[r], scenario) /\ pc[r] \in SavePlaces
        BY <2>1 DEF Local, LocalInv, SavePlaces
    <2>5. todo[r].file = "private"
        BY <2>2, <2>3, <2>4 DEF SaveInv, Saves, RunPlan, EnrichPlan, CoverPlaces, Working, FileName
    <2> QED
        BY <1>2, <2>4, <2>5 DEF Saves
<1>7. CASE Start(r) \/ Restore(r) \/ RestoreEnrich(r) \/ Stop(r)
    <2>1. pc'[r] \in {"restore", "run", "restored", "snapshot", "enrich", "off"}
        BY <1>0, <1>7 DEF Start, Restore, RestoreEnrich, Stop, Goto
    <2>2. \/ todo'[r] = todo[r] /\ pc[r] \notin SavePlaces
          \/ todo'[r] = NoTodo
          \/ \E value : todo'[r] = [NoTodo EXCEPT !.value = value]
        BY <1>0, <1>7 DEF Start, Restore, RestoreEnrich, Stop, At, Keep, SavePlaces
    <2>3. todo'[r].file = "none"
        <3>1. \A value : [NoTodo EXCEPT !.value = value].file = "none"
            BY DEF NoTodo
        <3>2. NoTodo.file = "none"
            BY DEF NoTodo
        <3> QED
            BY <2>2, <3>1, <3>2 DEF Local, LocalInv, PlaceInv
    <2> QED
        BY <2>1, <2>3 DEF Covers, Saves, Working
<1>8. CASE Run(r) \/ CallRun(r) \/ Enrich(r) \/ CallEnrich(r) \/ PauseEnrich(r) \/ ReadEnrich(r)
           \/ FinishEnrich(r)
    <2> DEFINE Ordered == \E file \in {"run", "enrich"} : \E value, then :
                              todo' = [todo EXCEPT ![r] = Order(file, value, then)]
    <2>1. pc'[r] \in {"snapshot", "sync", "enrich"} /\ pc[r] \notin SavePlaces
        BY <1>0, <1>8 DEF Run, CallRun, Enrich, CallEnrich, PauseEnrich, ReadEnrich, FinishEnrich,
                          Goto, Save, At, SavePlaces
    <2>2. todo'[r] = todo[r] \/ Ordered
        <3>1. CASE Run(r)
            BY <3>1 DEF Run, Save, Order
        <3>2. CASE CallRun(r)
            BY <3>2 DEF CallRun, Save, Order
        <3>3. CASE Enrich(r)
            BY <3>3 DEF Enrich, Save, Order
        <3>4. CASE CallEnrich(r) \/ PauseEnrich(r) \/ FinishEnrich(r)
            BY <3>4 DEF CallEnrich, PauseEnrich, FinishEnrich, Save, Order
        <3>5. CASE ReadEnrich(r)
            BY <3>5 DEF ReadEnrich, Save, Order
        <3> QED
            BY <1>8, <3>1, <3>2, <3>3, <3>4, <3>5
    <2>3. todo'[r].file # "private"
        <3>1. CASE todo'[r] = todo[r]
            BY <2>1, <3>1 DEF Local, LocalInv, PlaceInv
        <3>2. CASE Ordered
            BY <1>0, <3>2, OrderFields
        <3> QED
            BY <2>2, <3>1, <3>2
    <2> QED
        BY <2>1, <2>3 DEF Covers, Saves, Working
<1>9. CASE Snapshot(r)
    <2>1. /\ pc[r] = "snapshot" /\ todo' = todo
          /\ pc'[r] = "snapshot head" \/ (pc'[r] = AfterSnapshot(r) /\ RestartState = Capsule(disk[r]))
          /\ Restorable(Capsule(disk[r]))
        BY <1>0, <1>9 DEF Snapshot, At, Goto
    <2>2. CASE todo[r].file = "private"
        BY <1>2, <2>1, <2>2 DEF Saves, SavePlaces
    <2>3. CASE todo[r].file # "private"
        <3>1. RestartState = Capsule(disk[r])
            BY <2>1, <2>3 DEF Covers, Saves, Working
        <3> QED
            BY <2>1, <3>1, CapsuleTyped, RestartStateOf
    <2> QED BY <2>2, <2>3
<1>10. CASE SnapshotHead(r)
    <2>1. /\ pc[r] = "snapshot head" /\ todo'[r].file = todo[r].file /\ request' = request
          /\ request[r] = NoRequest
          /\ \/ pc'[r] = "persist"
             \/ pc'[r] = AfterSnapshot(r) /\ Durable("restart") = Capsule(disk[r])
        BY <1>0, <1>10 DEF SnapshotHead, At, Goto, Post, Load, Todo
    <2>2. CASE todo[r].file = "private"
        BY <1>2, <2>1, <2>2 DEF Saves, SavePlaces
    <2>3. CASE todo[r].file # "private"
        <3>1. Durable("restart") = Capsule(disk[r])
            BY <2>1, <2>3 DEF Covers, Saves, Working, AfterSnapshot
        <3>2. Restorable(Capsule(disk[r]))
            BY <2>1 DEF Local, LocalInv, PlaceInv
        <3> QED
            BY <3>1, <3>2, CapsuleTyped DEF HaveRestart
    <2> QED BY <2>2, <2>3
<1>11. CASE SnapshotDone(r)
    BY <1>11 DEF SnapshotDone, At, Confirm, Covers
<1>12. CASE Coverage(r)
    BY <1>1, <1>12 DEF Coverage, Open, RestoreUsage, Begin, ReserveRead, LeavePending, Call,
                       AppendUsage, RecordUsage, Finish, Complete, At, CoverPlaces, Working
<1> QED
    BY <1>4, <1>5, <1>6, <1>7, <1>8, <1>9, <1>10, <1>11, <1>12
    DEF RunnerStep, Checkpointing, Normal

LEMMA RestartStep ==
    ASSUME JournalInv, ContentInv, Shape, \A s \in Client : Local(s) /\ Prepared(s),
           NEW r \in Client, RunnerStep(r), DurableInv(Transition, Durable("restart"), scenario),
           RestartKnown, RestartInv
    PROVE  RestartInv' /\ RestartKnown'
<1> DEFINE Have == HaveRestart(Transition, Durable("restart"))
<1>1. Transition \in Shared /\ Durable("restart") \in RestartCapsule \cup {NoPayload}
    BY DEF DurableInv
<1>2. /\ Have => Have' /\ RestartKnown'
      /\ Commits(r) /\ todo[r].kind = "restart" => Have'
      /\ RestartKnown'
    BY <1>1, RestartStays
<1>3. \A s \in Client : Covers(pc[s], todo[s], request[s]) => Have
    BY DEF RestartInv
<1>4. ASSUME NEW s \in Client, s # r, Covers(pc[s], todo[s], request[s])' PROVE Have'
    BY <1>2, <1>3, <1>4, FrameOf, KeepsConversations DEF Frame
<1>5. ASSUME Covers(pc[r], todo[r], request[r])' PROVE Have'
    <2>1. CASE Commits(r)
        BY <1>2, <1>3, <1>5, <2>1 DEF Covers, Commits
    <2>2. CASE ~ Commits(r)
        <3>1. Quiet
            BY <2>2, QuietOrCommits
        <3>2. DOMAIN request = Client
            BY DEF JournalInv, RequestInv
        <3> QED
            BY <1>1, <1>2, <1>3, <1>5, <2>2, <3>1, <3>2, QuietCovers
    <2> QED BY <2>1, <2>2
<1> QED
    BY <1>2, <1>4, <1>5 DEF RestartInv

-----------------------------------------------------------------------------
(***************************************************************************)
(* Who may send what: the journal knows every probe a runner knows, and an *)
(* intent that one runner may still act on is in flight and its own.       *)
(***************************************************************************)
OpsIn(T) == IF T.private = NoPayload THEN NewPrivate.ops ELSE T.private.checkpoint.ops

\* The private checkpoint of a runner, the one it is saving once that is durable.
View(c, t, d, q) == IF Saves(c, t, "private") /\ Done(c, t, q) THEN t.value ELSE PrivateIn(d)
Live(c, t) == c \in Working \/ Saves(c, t, "private")

InJournal(ops, T) ==
    \A o \in PrivateOp :
        ops[o].state # "none" => /\ OpsIn(T)[o].state # "none"
                                 /\ ops[o].state = "completed" => OpsIn(T)[o] = ops[o]

HasIntent(o, c, t, d, q) == Live(c, t) /\ View(c, t, d, q).ops[o].state = "in_flight"
Holds(r, o) == HasIntent(o, pc[r], todo[r], disk[r], request[r])

KnownInv ==
    \A r \in Client :
        /\ InJournal(PrivateIn(disk[r]).ops, Transition)
        /\ InJournal(View(pc[r], todo[r], disk[r], request[r]).ops, Transition)

IntentInv ==
    \A r \in Client, o \in PrivateOp :
        Holds(r, o) => /\ Transition.barriers[o] = "in_flight"
                       /\ \A s \in Client : Holds(s, o) => s = r

\* One transition takes over what another one settled.
Advances(T, N) ==
    \A o \in PrivateOp :
        OpsIn(T)[o].state # "none" => /\ OpsIn(N)[o].state # "none"
                                      /\ OpsIn(T)[o].state = "completed" => OpsIn(N)[o] = OpsIn(T)[o]

LEMMA InJournalStays ==
    ASSUME NEW ops, NEW T, NEW N, InJournal(ops, T), Advances(T, N)
    PROVE  InJournal(ops, N)
BY DEF InJournal, Advances

LEMMA OpsInOf ==
    ASSUME NEW T, NEW R, NEW sc, DurableInv(T, R, sc)
    PROVE  /\ \A o \in PrivateOp : T.barriers[o] = OpsIn(T)[o].state
           /\ Chain(OpsIn(T), sc)
           /\ OpsIn(T) \in [PrivateOp -> Probe]
<1>1. \A o \in PrivateOp : NewPrivate.ops[o] = Absent
    BY NewPrivateTyped
<1>2. \A o \in PrivateOp : NewPrivate.ops[o].state = "none"
    BY <1>1 DEF Absent
<1>3. Chain(NewPrivate.ops, sc)
    BY <1>2 DEF Chain, Follows, PrivateOp
<1>4. \A o \in PrivateOp : T.barriers[o] = OpsIn(T)[o].state
    BY <1>2 DEF DurableInv, StateIn, OpsIn
<1>5. OpsIn(T) \in [PrivateOp -> Probe]
    <2>1. CASE T.private = NoPayload
        BY <2>1, NewPrivateTyped DEF OpsIn, PrivateFile
    <2>2. CASE T.private # NoPayload
        BY <2>2 DEF OpsIn, DurableInv, Shared, SharedPrivate, PrivateFile
    <2> QED BY <2>1, <2>2
<1> QED
    BY <1>3, <1>4, <1>5 DEF DurableInv, Sound, OpsIn

\* The probes follow one another: who lists an operation that the journal has
\* not settled lists all the journal lists.
LEMMA NotBehind ==
    ASSUME NEW v, NEW w, NEW sc, Chain(v, sc), Chain(w, sc), NEW o \in PrivateOp,
           v[o].state # "none", w[o].state # "completed",
           NEW x \in PrivateOp, v[x].state = "none"
    PROVE  w[x].state = "none"
<1>1. CASE sc.accepted
    BY <1>1 DEF Chain
<1>2. CASE ~ sc.accepted
    BY <1>2 DEF Chain, Follows, PrivateOp
<1> QED
    BY <1>1, <1>2

LEMMA NothingLeft ==
    ASSUME NEW v, NEW w, NEW sc, Chain(v, sc), Chain(w, sc), LastSettled(v, sc),
           \A o \in PrivateOp : v[o].state = "completed" => w[o] = v[o],
           NEW x \in PrivateOp, v[x].state = "none"
    PROVE  w[x].state = "none"
<1>1. CASE sc.accepted
    BY <1>1 DEF Chain, LastSettled
<1>2. CASE ~ sc.accepted
    BY <1>2 DEF Chain, Follows, LastSettled, PrivateOp
<1> QED
    BY <1>1, <1>2

\* An intent is admitted only over what the journal has of the operation.
LEMMA AdmittedPrivate ==
    ASSUME NEW T, NEW t, NEW d \in Files, t.file = "private", t.value \in PrivateFile,
           Admitted(T, t, d), NEW o \in PrivateOp, t.value.ops[o].state = "in_flight"
    PROVE  MayBarrier(PrivateIn(d).ops[o].state, "in_flight", T.barriers[o])
<1> DEFINE now == Operations("private", t.value)
           old == Operations("private", d.private)
           before == IF o \in DOMAIN old THEN old[o] ELSE "none"
<1>1. o \in DOMAIN now /\ now[o] = "in_flight"
    BY PrivateOperations DEF Listed
<1>2. before = PrivateIn(d).ops[o].state
    <2>1. CASE d.private = NoFile
        <3>1. DOMAIN old = {}
            BY <2>1, NoOperations
        <3>2. PrivateIn(d).ops[o] = Absent
            BY <2>1, NewPrivateTyped DEF PrivateIn
        <3> QED
            BY <3>1, <3>2 DEF Absent
    <2>2. CASE d.private # NoFile
        <3>1. d.private \in PrivateFile /\ PrivateIn(d) = d.private
            BY <2>2 DEF Files, PrivateIn
        <3>2. /\ DOMAIN old = Listed(d.private.ops)
              /\ \A x \in Listed(d.private.ops) : old[x] = d.private.ops[x].state
            BY <3>1, PrivateOperations
        <3> QED
            BY <3>1, <3>2 DEF Listed
    <2> QED BY <2>1, <2>2
<1>3. MayBarrier(before, now[o], T.barriers[o])
    BY <1>1 DEF Admitted
<1> QED
    BY <1>1, <1>2, <1>3

LEMMA PrivateAdvances ==
    ASSUME NEW T, NEW R, NEW sc, DurableInv(T, R, sc), NEW t, NEW d \in Files, NEW n,
           t.file = "private", PrivatePlan(t, d, n, sc), Admitted(T, t, d),
           InJournal(PrivateIn(d).ops, T),
           \A o \in PrivateOp : PrivateIn(d).ops[o].state = "in_flight" => T.barriers[o] = "in_flight"
    PROVE  /\ Advances(T, NextOf(T, t, d))
           /\ OpsIn(NextOf(T, t, d)) = t.value.ops
<1> DEFINE p == PrivateIn(d).ops
           v == t.value.ops
           w == OpsIn(T)
<1>1. /\ \A o \in PrivateOp : T.barriers[o] = w[o].state
      /\ Chain(w, sc)
    BY OpsInOf
<1>2. t.value \in PrivateFile /\ Chain(v, sc)
    BY DEF PrivatePlan, Sound
<1>3. \A o \in PrivateOp : p[o].state # "none" =>
          w[o].state # "none" /\ (p[o].state = "completed" => w[o] = p[o])
    BY DEF InJournal
<1>4. OpsIn(NextOf(T, t, d)) = v
    <2>1. NextOf(T, t, d).private # NoPayload /\ NextOf(T, t, d).private.checkpoint = t.value
        <3>1. T \in Shared /\ d.usage \in Usage
            BY DEF DurableInv, Files
        <3> HIDE DEF v
        <3> QED
            BY <1>2, <3>1, NextOfPrivate
    <2> QED
        BY <2>1 DEF OpsIn
<1>5. ASSUME NEW o \in PrivateOp, PlanFor(o, t, d, n), NEW x \in PrivateOp, w[x].state # "none"
      PROVE  v[x].state # "none" /\ (w[x].state = "completed" => v[x] = w[x])
    <2>1. v[o].state # "none"
        BY <1>5 DEF PlanFor
    <2>2. w[o].state # "completed"
        <3>1. CASE p[o].state = "in_flight"
            BY <1>1, <3>1
        <3>2. CASE p[o].state # "in_flight"
            <4>1. v[o].state = "in_flight" /\ p[o].state \in {"none", "pending"}
                BY <1>5, <3>2 DEF PlanFor
            <4>2. MayBarrier(p[o].state, "in_flight", T.barriers[o])
                BY <1>2, <4>1, AdmittedPrivate
            <4>3. T.barriers[o] \in {"none", "pending"}
                BY <4>1, <4>2 DEF MayBarrier
            <4> QED
                BY <1>1, <4>3
        <3> QED BY <3>1, <3>2
    <2>3. v[x].state # "none"
        BY <1>1, <1>2, <1>5, <2>1, <2>2, NotBehind
    <2>4. ASSUME w[x].state = "completed" PROVE v[x] = w[x]
        <3>1. x # o
            BY <2>2, <2>4
        <3>2. v[x] = p[x] /\ p[x].state = "completed"
            BY <1>5, <2>3, <3>1 DEF PlanFor
        <3> QED
            BY <1>3, <3>2
    <2> QED
        BY <2>3, <2>4
<1>6. ASSUME v = p, LastSettled(v, sc), NEW x \in PrivateOp, w[x].state # "none"
      PROVE  v[x].state # "none" /\ (w[x].state = "completed" => v[x] = w[x])
    <2>1. \A o \in PrivateOp : v[o].state = "completed" => w[o] = v[o]
        BY <1>3, <1>6
    <2>2. v[x].state # "none"
        BY <1>1, <1>2, <1>6, <2>1, NothingLeft
    <2> QED
        BY <1>6, <2>1, <2>2 DEF LastSettled
<1> HIDE DEF p, v, w
<1>7. \A x \in PrivateOp : w[x].state # "none" =>
          v[x].state # "none" /\ (w[x].state = "completed" => v[x] = w[x])
    BY <1>5, <1>6 DEF PrivatePlan, p, v
<1> QED
    BY <1>4, <1>7 DEF Advances, v, w

\* A commit of the private checkpoint takes over what was settled.
LEMMA CommitAdvances ==
    ASSUME Shape, NEW r \in Client, Local(r), Commits(r), IntentInv, KnownInv,
           DurableInv(Transition, Durable("restart"), scenario),
           todo[r].kind = "transition", todo[r].file = "private",
           Admitted(Transition, todo[r], disk[r])
    PROVE  LET N == NextOf(Transition, todo[r], disk[r]) IN
           Advances(Transition, N) /\ OpsIn(N) = todo[r].value.ops
<1>1. Saves(pc[r], todo[r], "private") /\ ~ Done(pc[r], todo[r], request[r])
    BY DEF Commits, Saves, SavePlaces, Done, Committed
<1>2. ASSUME NEW o \in PrivateOp, PrivateIn(disk[r]).ops[o].state = "in_flight"
      PROVE  Transition.barriers[o] = "in_flight"
    <2>1. Holds(r, o)
        BY <1>1, <1>2 DEF Holds, HasIntent, Live, View
    <2> QED
        BY <2>1 DEF IntentInv
<1>3. InJournal(PrivateIn(disk[r]).ops, Transition)
    BY DEF KnownInv
<1>4. PrivatePlan(todo[r], disk[r], passes[r], scenario)
    BY <1>1 DEF Local, LocalInv, SaveInv
<1>5. disk[r] \in Files
    BY ShapeOf
<1> QED
    BY <1>2, <1>3, <1>4, <1>5, PrivateAdvances

LEMMA DurablePrivate ==
    ASSUME Shape, NEW r \in Client, Local(r), Commits(r), IntentInv, KnownInv, RestartInv,
           DurableInv(Transition, Durable("restart"), scenario),
           todo[r].kind = "transition", todo[r].file = "private",
           Admitted(Transition, todo[r], disk[r])
    PROVE  DurableInv(NextOf(Transition, todo[r], disk[r]), Durable("restart"), scenario)
<1> DEFINE T == Transition
           t == todo[r]
           d == disk[r]
           N == NextOf(T, t, d)
<1>1. Saves(pc[r], t, "private")
    BY DEF Commits, Saves, SavePlaces
<1>2. PrivatePlan(t, d, passes[r], scenario)
    BY <1>1 DEF Local, LocalInv, SaveInv
<1>3. t.value \in PrivateFile /\ Sound(t.value, d.usage, scenario)
    BY <1>2 DEF PrivatePlan
<1>4. d \in Files /\ d.usage \in Usage /\ T \in Shared
    BY ShapeOf DEF Files, DurableInv
<1>5. /\ N \in Shared
      /\ N.private # NoPayload
      /\ N.private.checkpoint = t.value /\ N.private.usage = d.usage
      /\ N.restart = T.restart
      /\ \A o \in PrivateOp : N.barriers[o] = IF t.value.ops[o].state = "none"
                                              THEN T.barriers[o] ELSE t.value.ops[o].state
    <2> HIDE DEF T, t, d
    <2>1. t.file = "private"
        BY DEF t
    <2> QED
        BY <1>3, <1>4, <2>1, NextOfPrivate
<1>6. /\ \A o \in PrivateOp : T.barriers[o] = OpsIn(T)[o].state
      /\ Advances(T, N) /\ OpsIn(N) = t.value.ops
    BY CommitAdvances, OpsInOf
<1>7. \A o \in PrivateOp : N.barriers[o] = StateIn(N, o)
    <2>1. \A o \in PrivateOp : StateIn(N, o) = t.value.ops[o].state
        BY <1>5 DEF StateIn
    <2>2. \A o \in PrivateOp : t.value.ops[o].state = "none" => OpsIn(T)[o].state = "none"
        BY <1>6 DEF Advances
    <2> QED
        BY <1>5, <1>6, <2>1, <2>2
<1>8. HaveRestart(N, Durable("restart"))
    <2>1. HaveRestart(T, Durable("restart"))
        BY <1>1 DEF RestartInv, Covers
    <2> QED
        BY <1>5, <2>1 DEF HaveRestart
<1>9. Durable("restart") \in RestartCapsule \cup {NoPayload}
    BY DEF DurableInv
<1> HIDE DEF N
<1>10. DurableInv(N, Durable("restart"), scenario)
    BY <1>3, <1>5, <1>7, <1>8, <1>9 DEF DurableInv
<1> QED
    BY <1>10 DEF N

\* The checkpoints of the normal stages leave the private part alone.
LEMMA NormalNext ==
    ASSUME Shape, NEW r \in Client, NEW T \in Shared, todo[r].file \in {"run", "enrich"}
    PROVE  LET N == NextOf(T, todo[r], disk[r]) IN
           /\ N.private = T.private
           /\ \A o \in PrivateOp : N.barriers[o] = T.barriers[o]
<1> DEFINE t == todo[r]
           now == Operations(t.file, t.value)
           N == NextOf(T, t, disk[r])
<1>1. DOMAIN now \subseteq {"run", "enrich"}
    BY DEF Operations
<1>2. N.private = T.private
    BY DEF NextOf
<1>3. \A o \in Op : N.barriers[o] = IF o \in DOMAIN now THEN now[o] ELSE T.barriers[o]
    BY DEF NextOf
<1>4. \A o \in PrivateOp : o \in Op /\ o \notin {"run", "enrich"}
    BY DEF Op, PrivateOp
<1> QED
    BY <1>1, <1>2, <1>3, <1>4

LEMMA DurableStep ==
    ASSUME JournalInv, ContentInv, Shape, NEW r \in Client, Local(r), Prepared(r), RunnerStep(r),
           DurableInv(Transition, Durable("restart"), scenario),
           RestartKnown, RestartInv, KnownInv, IntentInv
    PROVE  /\ DurableInv(Transition, Durable("restart"), scenario)'
           /\ Advances(Transition, Transition')
<1> DEFINE T == Transition
           R == Durable("restart")
<1>0. scenario' = scenario
    BY FrameOf DEF Frame
<1>1. \A ops : Advances(ops, ops)
    BY DEF Advances
<1>2. CASE Quiet
    BY <1>0, <1>1, <1>2 DEF Quiet, DurableInv, HaveRestart, StateIn
<1>3. CASE Commits(r) /\ todo[r].kind = "restart"
    <2>1. T' = T /\ R' = Capsule(disk[r]) /\ R' \in RestartCapsule /\ R' # NoPayload
        BY <1>3, CapsuleCommitted, CapsuleTyped
    <2> QED
        BY <1>0, <1>1, <2>1 DEF DurableInv, HaveRestart, StateIn
<1>4. CASE Commits(r) /\ todo[r].kind # "restart"
    <2>1. T \in Shared
        BY DEF DurableInv
    <2>2. /\ todo[r].kind = "transition" /\ todo[r].file \in FileName
          /\ NextOf(T, todo[r], disk[r]) \in Shared
        BY <1>4, <2>1, CommitKinds
    <2>3. T' = NextOf(T, todo[r], disk[r]) /\ R' = R /\ Admitted(T, todo[r], disk[r])
        BY <1>4, <2>2, TransitionCommitted
    <2>4. CASE todo[r].file = "private"
        <3>1. DurableInv(T', R', scenario')
            BY <1>0, <1>4, <2>2, <2>3, <2>4, DurablePrivate
        <3>2. Advances(T, T')
            BY <1>4, <2>2, <2>3, <2>4, CommitAdvances
        <3> QED
            BY <3>1, <3>2 DEF DurableInv, HaveRestart, StateIn
    <2>5. CASE todo[r].file # "private"
        <3>1. T'.private = T.private /\ \A o \in PrivateOp : T'.barriers[o] = T.barriers[o]
            BY <2>1, <2>2, <2>3, <2>5, NormalNext DEF FileName
        <3>2. HaveRestart(T, R) => HaveRestart(T', R')
            BY <2>1, RestartStays DEF HaveRestart
        <3>3. Advances(T, T')
            BY <3>1 DEF Advances, OpsIn
        <3> QED
            BY <1>0, <2>2, <2>3, <3>1, <3>2, <3>3 DEF DurableInv, HaveRestart, StateIn
    <2> QED BY <2>4, <2>5
<1> QED
    BY <1>2, <1>3, <1>4, QuietOrCommits

-----------------------------------------------------------------------------
(***************************************************************************)
(* What a runner's files and the journal say was sent has been sent.       *)
(***************************************************************************)
Sent(e, K) == e.op \in {"pending", "completed"} => K[<<"enrich", 0>>] >= 1

EntryEarned(o, e, K) ==
    e.state # "none" =>
        /\ \A n \in 0 .. ReadLimit : n < e.seq => K[<<o, n>>] >= 1
        /\ e.state # "in_flight" \/ e.recorded => K[<<o, e.seq>>] >= 1

OpsEarned(ops, K) == \A o \in PrivateOp : EntryEarned(o, ops[o], K)

NormalEarned(c, t, d, K) ==
    /\ Sent(d.enrich, K)
    /\ c = "restored" \/ Saves(c, t, "enrich") => Sent(t.value, K)
    /\ Saves(c, t, "run") /\ t.then = "enrich" => K[<<"run", 0>>] >= 1

ProbesEarned(c, t, d, K) ==
    LET p == PrivateIn(d).ops IN
    /\ OpsEarned(p, K)
    /\ Saves(c, t, "private") => OpsEarned(t.value.ops, K)
    /\ c \in Working \ {"call"} =>
         \A o \in PrivateOp : p[o].state = "in_flight" => K[<<o, p[o].seq>>] >= 1

JournalEarned(T, R, K) ==
    /\ OpsEarned(OpsIn(T), K)
    /\ T.restart # NoPayload => Sent(T.restart.enrich, K)
    /\ R # NoPayload => Sent(R.enrich, K)

EarnedInv ==
    /\ JournalEarned(Transition, Durable("restart"), calls)
    /\ \A r \in Client : /\ NormalEarned(pc[r], todo[r], disk[r], calls)
                         /\ ProbesEarned(pc[r], todo[r], disk[r], calls)

Counts == [Dispatch -> 0 .. 2]

LEMMA SendEffect ==
    ASSUME calls \in Counts, NEW x \in Dispatch, Send(x)
    PROVE  /\ calls'[x] >= 1 /\ calls'[x] = IF calls[x] = 0 THEN 1 ELSE 2
           /\ \A y \in Dispatch : y # x => calls'[y] = calls[y]
BY DEF Send, Counts

LEMMA SentGrows ==
    ASSUME NEW K \in Counts, NEW L \in Counts, \A x \in Dispatch : L[x] >= K[x],
           NEW e, Sent(e, K)
    PROVE  Sent(e, L)
<1>1. <<"enrich", 0>> \in Dispatch
    BY PassesAssumption DEF Dispatch, Op
<1> QED
    BY <1>1 DEF Sent, Counts

LEMMA OpsGrow ==
    ASSUME NEW K \in Counts, NEW L \in Counts, \A x \in Dispatch : L[x] >= K[x],
           NEW ops \in [PrivateOp -> Probe], OpsEarned(ops, K)
    PROVE  OpsEarned(ops, L)
<1> SUFFICES ASSUME NEW o \in PrivateOp, ops[o].state # "none"
             PROVE  /\ \A n \in 0 .. ReadLimit : n < ops[o].seq => L[<<o, n>>] >= 1
                    /\ ops[o].state # "in_flight" \/ ops[o].recorded => L[<<o, ops[o].seq>>] >= 1
    BY DEF OpsEarned, EntryEarned
<1>1. ops[o].seq \in 0 .. ReadLimit
    BY DEF Probe
<1>2. \A n \in 0 .. ReadLimit : <<o, n>> \in Dispatch
    BY DEF Dispatch, Op
<1>3. \A x \in Dispatch : K[x] >= 1 => L[x] >= 1
    BY DEF Counts
<1> QED
    BY <1>1, <1>2, <1>3 DEF OpsEarned, EntryEarned

\* The operations a runner saves are probes.
LEMMA SavedOps ==
    ASSUME Shape, NEW r \in Client, Local(r)
    PROVE  /\ PrivateIn(disk[r]).ops \in [PrivateOp -> Probe]
           /\ Saves(pc[r], todo[r], "private") => todo[r].value.ops \in [PrivateOp -> Probe]
<1>1. PrivateIn(disk[r]) \in PrivateFile
    BY ShapeOf
<1>2. Saves(pc[r], todo[r], "private") => todo[r].value \in PrivateFile
    BY DEF Local, LocalInv, SaveInv, PrivatePlan
<1> QED
    BY <1>1, <1>2 DEF PrivateFile

LEMMA EarnedGrows ==
    ASSUME Shape, NEW r \in Client, Local(r), NEW K \in Counts, NEW L \in Counts,
           \A x \in Dispatch : L[x] >= K[x]
    PROVE  /\ NormalEarned(pc[r], todo[r], disk[r], K) => NormalEarned(pc[r], todo[r], disk[r], L)
           /\ ProbesEarned(pc[r], todo[r], disk[r], K) => ProbesEarned(pc[r], todo[r], disk[r], L)
<1> DEFINE d == disk[r]
           t == todo[r]
           c == pc[r]
           p == PrivateIn(d).ops
<1>1. ASSUME NormalEarned(c, t, d, K) PROVE NormalEarned(c, t, d, L)
    <2>1. Sent(d.enrich, L) /\ (c = "restored" \/ Saves(c, t, "enrich") => Sent(t.value, L))
        BY <1>1, SentGrows DEF NormalEarned
    <2>2. <<"run", 0>> \in Dispatch
        BY PassesAssumption DEF Dispatch, Op
    <2>3. L[<<"run", 0>>] >= K[<<"run", 0>>] /\ K[<<"run", 0>>] \in 0 .. 2 /\ L[<<"run", 0>>] \in 0 .. 2
        BY <2>2 DEF Counts
    <2>4. K[<<"run", 0>>] >= 1 => L[<<"run", 0>>] >= 1
        BY <2>3
    <2> HIDE DEF d, t, c
    <2> QED
        BY <1>1, <2>1, <2>4 DEF NormalEarned
<1>2. ASSUME ProbesEarned(c, t, d, K) PROVE ProbesEarned(c, t, d, L)
    <2>1. p \in [PrivateOp -> Probe] /\ (Saves(c, t, "private") => t.value.ops \in [PrivateOp -> Probe])
        BY SavedOps
    <2>2. OpsEarned(p, L) /\ (Saves(c, t, "private") => OpsEarned(t.value.ops, L))
        BY <1>2, <2>1, OpsGrow DEF ProbesEarned
    <2>3. \A o \in PrivateOp : <<o, p[o].seq>> \in Dispatch
        BY <2>1 DEF Probe, Dispatch, Op
    <2>4. \A x \in Dispatch : K[x] >= 1 => L[x] >= 1
        BY DEF Counts
    <2> HIDE DEF d, t, c
    <2> QED
        BY <1>2, <2>2, <2>3, <2>4 DEF ProbesEarned, p
<1> QED
    BY <1>1, <1>2

\* The files of a save that goes on: nothing new is claimed.
LEMMA SaveGoesOn ==
    ASSUME Shape, NEW r \in Client,
           SkipSync(r) \/ Sync(r) \/ Persist(r) \/ Snapshot(r) \/ SnapshotHead(r) \/ SnapshotDone(r)
    PROVE  /\ pc[r] \in SavePlaces /\ pc'[r] \in SavePlaces \cup {"open"}
           /\ disk' = disk /\ calls' = calls
           /\ todo'[r].file = todo[r].file /\ todo'[r].value = todo[r].value
           /\ todo'[r].then = todo[r].then
           /\ pc'[r] = "write" => SkipSync(r) \/ Sync(r)
           /\ pc'[r] = "open" => todo[r].file # "private"
<1>1. todo \in [Client -> Todo] /\ todo[r] \in Todo /\ DOMAIN pc = Client
    BY DEF Shape
<1>2. ASSUME NEW kind, NEW payload, Post(r, kind, payload)
      PROVE  /\ todo'[r].file = todo[r].file /\ todo'[r].value = todo[r].value
             /\ todo'[r].then = todo[r].then
    BY <1>1, <1>2 DEF Post, Todo
<1>3. CASE SkipSync(r) \/ Persist(r)
    BY <1>1, <1>3 DEF SkipSync, Persist, At, Goto, Stay, SavePlaces
<1>4. CASE Sync(r)
    BY <1>1, <1>2, <1>4 DEF Sync, At, Goto, Stay, SavePlaces
<1>5. CASE Snapshot(r)
    BY <1>1, <1>5 DEF Snapshot, AfterSnapshot, At, Goto, Stay, SavePlaces
<1>6. CASE SnapshotHead(r)
    BY <1>1, <1>2, <1>6 DEF SnapshotHead, AfterSnapshot, At, Goto, Stay, SavePlaces
<1>7. CASE SnapshotDone(r)
    <2>1. /\ todo'[r].file = todo[r].file /\ todo'[r].value = todo[r].value
          /\ todo'[r].then = todo[r].then
        BY <1>1, <1>7 DEF SnapshotDone, Todo
    <2> QED
        BY <1>1, <1>7, <2>1 DEF SnapshotDone, AfterSnapshot, At, Goto, Stay, SavePlaces
<1> QED
    BY <1>3, <1>4, <1>5, <1>6, <1>7

\* What a runner orders when it begins to save.
LEMMA SaveOrders ==
    ASSUME Shape, NEW r \in Client, NEW file, NEW value, NEW then, Save(r, file, value, then)
    PROVE  /\ todo'[r].file = file /\ todo'[r].value = value /\ todo'[r].then = then
           /\ pc'[r] \in {"snapshot", "sync"}
<1>1. DOMAIN todo = Client /\ DOMAIN pc = Client
    BY DEF Shape
<1>2. todo'[r] = Order(file, value, then)
    BY <1>1 DEF Save, Order
<1>3. pc'[r] \in {"snapshot", "sync"}
    BY <1>1 DEF Save, Goto
<1> QED
    BY <1>2, <1>3, OrderFields

LEMMA OwnNormalEarned ==
    ASSUME Shape, NEW r \in Client, Local(r), RunnerStep(r), calls' \in Counts,
           RestartKnown, DurableInv(Transition, Durable("restart"), scenario),
           JournalEarned(Transition, Durable("restart"), calls),
           NormalEarned(pc[r], todo[r], disk[r], calls)
    PROVE  NormalEarned(pc[r], todo[r], disk[r], calls)'
<1> DEFINE K == calls'
           Claims == NormalEarned(pc[r], todo[r], disk[r], calls)'
           idle == pc[r] \notin SavePlaces /\ todo[r].file = "none"
<1>0. /\ DOMAIN pc = Client /\ DOMAIN todo = Client /\ disk \in [Client -> Files]
      /\ disk[r] \in Files
    BY ShapeOf DEF Shape
<1>1. \A x \in Dispatch : K[x] >= calls[x]
    BY FrameOf DEF Frame
<1>2. calls \in Counts
    BY DEF Shape, TypeOK, Counts
<1>3. NormalEarned(pc[r], todo[r], disk[r], K)
    BY <1>1, <1>2, EarnedGrows
<1>4. pc[r] \notin SavePlaces => todo[r].file = "none"
    BY DEF Local, LocalInv, PlaceInv
<1>5. ASSUME disk'[r].enrich = disk[r].enrich \/ Sent(disk'[r].enrich, K),
             pc'[r] # "restored",
             pc'[r] \notin SavePlaces \/ todo'[r].file \notin {"run", "enrich"}
      PROVE  Claims
    BY <1>3, <1>5 DEF NormalEarned, Saves
<1>6. ASSUME disk' = disk, NEW value, NEW then, Save(r, "enrich", value, then), Sent(value, K)
      PROVE  Claims
    <2>1. todo'[r].file = "enrich" /\ todo'[r].value = value /\ pc'[r] # "restored"
        BY <1>6, SaveOrders
    <2> QED
        BY <1>3, <1>6, <2>1 DEF NormalEarned, Saves
<1>7. CASE SkipSync(r) \/ Sync(r) \/ Persist(r) \/ Snapshot(r) \/ SnapshotHead(r) \/ SnapshotDone(r)
    BY <1>3, <1>7, SaveGoesOn DEF NormalEarned, Saves, SavePlaces
<1>8. CASE Write(r)
    <2>1. /\ pc[r] \in {"write", "persist"} /\ pc'[r] = todo[r].then /\ todo'[r] = NoTodo
          /\ disk' = [disk EXCEPT ![r][todo[r].file] = todo[r].value]
          /\ pc[r] = "persist" => todo[r].kind = "transition"
        BY <1>0, <1>8 DEF Write, At, Goto
    <2>2. todo[r].file \in FileName /\ pc[r] \in SavePlaces
        BY <2>1 DEF Local, LocalInv, PlaceInv, SavePlaces
    <2>3. NoTodo.file = "none"
        BY DEF NoTodo
    <2>4. todo[r].then # "restored"
        BY <2>2 DEF Local, LocalInv, SaveInv, Saves, RunPlan, EnrichPlan, PrivatePlan, PlanFor, FileName
    <2>5. CASE todo[r].file = "enrich"
        <3>1. disk'[r].enrich = todo[r].value
            BY <1>0, <2>1, <2>5 DEF Files
        <3>2. Sent(todo[r].value, K)
            BY <1>3, <2>2, <2>5 DEF NormalEarned, Saves
        <3> QED
            BY <1>5, <2>1, <2>3, <2>4, <3>1, <3>2
    <2>6. CASE todo[r].file # "enrich"
        <3>1. disk'[r].enrich = disk[r].enrich
            BY <1>0, <2>1, <2>2, <2>6 DEF Files, FileName
        <3> QED
            BY <1>5, <2>1, <2>3, <2>4, <3>1
    <2> QED BY <2>5, <2>6
<1>9. CASE Start(r) \/ Stop(r)
    BY <1>0, <1>5, <1>9 DEF Start, Stop, Goto, Stay, SavePlaces
<1>10. CASE Restore(r)
    <2>1. disk'[r].enrich = disk[r].enrich
        BY <1>0, <1>10 DEF Restore, Files
    <2>2. CASE pc'[r] = "run"
        BY <1>5, <2>1, <2>2 DEF SavePlaces
    <2>3. CASE pc'[r] # "run"
        <3>1. /\ RestartState # NoPayload /\ pc'[r] = "restored"
              /\ todo' = [todo EXCEPT ![r] = [NoTodo EXCEPT !.value = RestartState.enrich]]
            BY <1>0, <1>10, <2>3 DEF Restore, Goto, Keep
        <3>2. todo'[r].value = RestartState.enrich
            BY <1>0, <3>1 DEF NoTodo
        <3>3. Sent(RestartState.enrich, calls)
            BY <3>1 DEF RestartState, JournalEarned
        <3>4. Sent(RestartState.enrich, K)
            BY <1>1, <1>2, <3>3, SentGrows
        <3> QED
            BY <1>3, <2>1, <3>1, <3>2, <3>4 DEF NormalEarned, Saves, SavePlaces
    <2> QED BY <2>2, <2>3
<1>11. CASE RestoreEnrich(r)
    <2>1. /\ pc[r] = "restored" /\ disk'[r].enrich = todo[r].value /\ todo'[r] = NoTodo
          /\ pc'[r] \in {"snapshot", "enrich"}
        BY <1>0, <1>11 DEF RestoreEnrich, At, Goto, Files
    <2>2. Sent(todo[r].value, K) /\ NoTodo.file = "none"
        BY <1>3, <2>1 DEF NormalEarned, NoTodo
    <2> QED
        BY <1>5, <2>1, <2>2
<1>12. CASE Run(r)
    <2>1. CASE pc'[r] = "enrich"
        BY <1>5, <1>12, <2>1 DEF Run, Stay, SavePlaces
    <2>2. CASE pc'[r] # "enrich"
        <3>1. Save(r, "run", "in_flight", "call run") /\ disk' = disk
            BY <1>0, <1>12, <2>2 DEF Run, Goto, Stay
        <3>2. todo'[r].file = "run" /\ todo'[r].then = "call run" /\ pc'[r] # "restored"
            BY <3>1, SaveOrders
        <3> QED
            BY <1>3, <3>1, <3>2 DEF NormalEarned, Saves
    <2> QED BY <2>1, <2>2
<1>13. CASE CallRun(r)
    <2>1. Save(r, "run", "completed", "enrich") /\ disk' = disk /\ Send(<<"run", 0>>)
        BY <1>13 DEF CallRun
    <2>2. todo'[r].file = "run" /\ pc'[r] # "restored"
        BY <2>1, SaveOrders
    <2>3. <<"run", 0>> \in Dispatch
        BY PassesAssumption DEF Dispatch, Op
    <2>4. K[<<"run", 0>>] >= 1
        BY <1>2, <2>1, <2>3, SendEffect
    <2> QED
        BY <1>3, <2>1, <2>2, <2>4 DEF NormalEarned, Saves
<1>14. CASE Enrich(r)
    <2>1. disk' = disk
        BY <1>14 DEF Enrich, Stay
    <2>2. CASE pc'[r] = "snapshot" /\ todo' = todo
        <3>1. todo'[r].file = "none"
            BY <1>4, <1>14, <2>2 DEF Enrich, At, SavePlaces
        <3> QED
            BY <1>5, <2>1, <2>2, <3>1
    <2>3. CASE \E value, then : Save(r, "enrich", value, then) /\ Sent(value, K)
        BY <1>6, <2>1, <2>3
    <2>4. \/ pc'[r] = "snapshot" /\ todo' = todo
          \/ \E value, then : Save(r, "enrich", value, then) /\ Sent(value, K)
        <3> DEFINE e == disk[r].enrich
        <3>1. e.status = "none" => e.op = "none"
            BY <1>0 DEF Files, EnrichFile
        <3>2. Sent(e, K)
            BY <1>3 DEF NormalEarned
        <3>3. Sent([NewEnrich EXCEPT !.status = "completed"], K)
            BY DEF Sent, NewEnrich
        <3>4. Sent([status |-> "running", op |-> "in_flight", reads |-> 0], K)
            BY DEF Sent
        <3>5. Sent([e EXCEPT !.reads = @ + 1], K)
            <4>1. [e EXCEPT !.reads = @ + 1].op = e.op
                BY <1>0 DEF Files, EnrichFile
            <4> QED
                BY <3>2, <4>1 DEF Sent
        <3> QED
            BY <1>0, <1>14, <3>3, <3>4, <3>5 DEF Enrich, Goto
    <2> QED BY <2>2, <2>3, <2>4
<1>15. CASE CallEnrich(r)
    <2>1. /\ Save(r, "enrich", [disk[r].enrich EXCEPT !.op = "pending"], "pause enrich")
          /\ disk' = disk /\ Send(<<"enrich", 0>>)
        BY <1>15 DEF CallEnrich
    <2>2. <<"enrich", 0>> \in Dispatch
        BY PassesAssumption DEF Dispatch, Op
    <2>3. K[<<"enrich", 0>>] >= 1
        BY <1>2, <2>1, <2>2, SendEffect
    <2> QED
        BY <1>6, <2>1, <2>3 DEF Sent
<1>16. CASE PauseEnrich(r) \/ FinishEnrich(r)
    <2> DEFINE e == disk[r].enrich
    <2>1. Sent(e, K)
        BY <1>3 DEF NormalEarned
    <2>2. \A s : [e EXCEPT !.status = s].op = e.op
        BY <1>0 DEF Files, EnrichFile
    <2>3. \A s : Sent([e EXCEPT !.status = s], K)
        BY <2>1, <2>2 DEF Sent
    <2> QED
        BY <1>6, <1>16, <2>3 DEF PauseEnrich, FinishEnrich, Stay
<1>17. CASE ReadEnrich(r)
    <2> DEFINE e == disk[r].enrich
    <2>1. e.op = "pending" /\ disk' = disk
        BY <1>17 DEF ReadEnrich, At, Local, LocalInv, NormalInv
    <2>2. K[<<"enrich", 0>>] >= 1
        BY <1>3, <2>1 DEF NormalEarned, Sent
    <2>3. \A f : Sent(f, K)
        BY <2>2 DEF Sent
    <2> QED
        BY <1>6, <1>17, <2>1, <2>3 DEF ReadEnrich
<1>18. CASE Open(r)
    <2>1. pc'[r] \in {"decide", "restore usage"}
        BY <1>0, <1>18 DEF Open, Goto
    <2>2. disk' = disk \/ \E private : disk' = [disk EXCEPT ![r].private = private]
        BY <1>18 DEF Open
    <2>3. disk'[r].enrich = disk[r].enrich
        BY <1>0, <2>2 DEF Files
    <2> QED
        BY <1>5, <2>1, <2>3 DEF SavePlaces
<1>19. CASE RestoreUsage(r) \/ AppendUsage(r)
    <2>1. pc'[r] \in {"decide", "record"}
        BY <1>0, <1>19 DEF RestoreUsage, AppendUsage, Goto
    <2>2. \E usage : disk' = [disk EXCEPT ![r].usage = usage]
        BY <1>19 DEF RestoreUsage, AppendUsage
    <2>3. disk'[r].enrich = disk[r].enrich
        BY <1>0, <2>2 DEF Files
    <2> QED
        BY <1>5, <2>1, <2>3 DEF SavePlaces
<1>20. CASE \/ \E o \in PrivateOp : Begin(r, o) \/ ReserveRead(r, o) \/ LeavePending(r, o)
            \/ Call(r) \/ RecordUsage(r) \/ Finish(r) \/ Complete(r)
    <2>1. \/ pc'[r] \in {"open", "append", "off"}
          \/ \E value, then : Save(r, "private", value, then)
        BY <1>0, <1>20 DEF Begin, ReserveRead, LeavePending, Call, RecordUsage, Finish, Complete, Goto
    <2>2. disk' = disk
        BY <1>20 DEF Begin, ReserveRead, LeavePending, Call, RecordUsage, Finish, Complete, Stay
    <2>3. ASSUME NEW value, NEW then, Save(r, "private", value, then)
          PROVE  todo'[r].file = "private" /\ pc'[r] # "restored"
        BY <2>3, SaveOrders
    <2> QED
        BY <1>5, <2>1, <2>2, <2>3 DEF SavePlaces
<1> QED
    BY <1>7, <1>8, <1>9, <1>10, <1>11, <1>12, <1>13, <1>14, <1>15, <1>16, <1>17, <1>18, <1>19, <1>20
    DEF RunnerStep, Checkpointing, Normal, Coverage

\* The private files of the normal stages and of a save do not change.
LEMMA NormalKeepsPrivate ==
    ASSUME Shape, NEW r \in Client, Local(r),
           \/ Start(r) \/ Restore(r) \/ RestoreEnrich(r) \/ Run(r) \/ CallRun(r) \/ Stop(r)
           \/ Enrich(r) \/ CallEnrich(r) \/ PauseEnrich(r) \/ ReadEnrich(r) \/ FinishEnrich(r)
    PROVE  /\ disk'[r].private = disk[r].private /\ disk'[r].usage = disk[r].usage
           /\ pc'[r] \in Stages \cup {"off", "snapshot", "sync"}
           /\ todo'[r].file # "private"
<1>0. /\ DOMAIN pc = Client /\ DOMAIN todo = Client /\ disk \in [Client -> Files]
      /\ disk[r] \in Files
    BY ShapeOf DEF Shape
<1>1. ASSUME NEW file, NEW value, NEW then, Save(r, file, value, then), file # "private", disk' = disk
      PROVE  /\ disk'[r].private = disk[r].private /\ disk'[r].usage = disk[r].usage
             /\ pc'[r] \in Stages \cup {"off", "snapshot", "sync"}
             /\ todo'[r].file # "private"
    BY <1>1, SaveOrders
<1>2. NoTodo.file = "none" /\ \A value : [NoTodo EXCEPT !.value = value].file = "none"
    BY DEF NoTodo
<1>3. pc[r] \notin SavePlaces => todo[r].file # "private"
    BY DEF Local, LocalInv, PlaceInv
<1>4. CASE Start(r) \/ Stop(r)
    BY <1>0, <1>2, <1>3, <1>4 DEF Start, Stop, Goto, Stay, At, Stages, SavePlaces
<1>5. CASE Restore(r)
    <2>1. /\ pc[r] = "restore" /\ pc'[r] \in {"run", "restored"}
          /\ todo'[r] = todo[r] \/ \E value : todo'[r] = [NoTodo EXCEPT !.value = value]
        BY <1>0, <1>5 DEF Restore, Goto, At, Keep
    <2>2. disk' = disk \/ \E run : disk' = [disk EXCEPT ![r].run = run]
        BY <1>5 DEF Restore
    <2>3. disk'[r].private = disk[r].private /\ disk'[r].usage = disk[r].usage
        BY <1>0, <2>2 DEF Files
    <2> QED
        BY <1>2, <1>3, <2>1, <2>3 DEF Stages, SavePlaces
<1>6. CASE RestoreEnrich(r)
    <2>1. pc'[r] \in {"snapshot", "enrich"} /\ todo'[r] = NoTodo
        BY <1>0, <1>6 DEF RestoreEnrich, Goto
    <2>2. disk' = [disk EXCEPT ![r].enrich = todo[r].value]
        BY <1>6 DEF RestoreEnrich
    <2>3. disk'[r].private = disk[r].private /\ disk'[r].usage = disk[r].usage
        BY <1>0, <2>2 DEF Files
    <2> QED
        BY <1>2, <2>1, <2>3 DEF Stages
<1>7. CASE Run(r)
    BY <1>0, <1>1, <1>3, <1>7 DEF Run, Goto, Stay, At, Stages, SavePlaces
<1>8. CASE CallRun(r)
    BY <1>1, <1>8 DEF CallRun
<1>9. CASE Enrich(r)
    BY <1>0, <1>1, <1>3, <1>9 DEF Enrich, Goto, Stay, At, Stages, SavePlaces
<1>10. CASE CallEnrich(r) \/ PauseEnrich(r) \/ FinishEnrich(r)
    BY <1>1, <1>10 DEF CallEnrich, PauseEnrich, FinishEnrich, Stay
<1>11. CASE ReadEnrich(r)
    BY <1>1, <1>11 DEF ReadEnrich
<1> QED
    BY <1>4, <1>5, <1>6, <1>7, <1>8, <1>9, <1>10, <1>11

LEMMA PrivateInSame ==
    ASSUME NEW d, NEW e, e.private = d.private
    PROVE  PrivateIn(e) = PrivateIn(d)
BY DEF PrivateIn

\* Where a save ends.
LEMMA WriteEnds ==
    ASSUME Shape, NEW r \in Client, Local(r), Write(r)
    PROVE  /\ pc[r] \in SavePlaces /\ Done(pc[r], todo[r], request[r])
           /\ todo[r].file \in FileName
           /\ pc'[r] = todo[r].then /\ todo'[r] = NoTodo /\ todo'[r].file = "none"
           /\ todo[r].file # "private" => disk'[r].private = disk[r].private
           /\ todo[r].file = "private" => PrivateIn(disk'[r]) = todo[r].value
           /\ todo[r].file # "private" => pc'[r] \in Stages \cup {"snapshot"}
           /\ todo[r].file = "private" => pc'[r] \in {"call", "settle", "open", "decide", "off"}
           /\ calls' = calls /\ passes' = passes
<1>0. /\ DOMAIN pc = Client /\ DOMAIN todo = Client /\ disk \in [Client -> Files]
      /\ disk[r] \in Files
    BY ShapeOf DEF Shape
<1>1. /\ pc[r] \in {"write", "persist"} /\ pc'[r] = todo[r].then /\ todo'[r] = NoTodo
      /\ disk' = [disk EXCEPT ![r][todo[r].file] = todo[r].value]
      /\ pc[r] = "persist" => todo[r].kind = "transition" /\ request[r].phase = "confirm"
      /\ calls' = calls /\ passes' = passes
    BY <1>0 DEF Write, At, Goto, Confirm
<1>2. todo[r].file \in FileName /\ pc[r] \in SavePlaces /\ Done(pc[r], todo[r], request[r])
    BY <1>1 DEF Local, LocalInv, PlaceInv, SavePlaces, Done, Committed
<1>3. NoTodo.file = "none"
    BY DEF NoTodo
<1>4. SaveInv(pc[r], todo[r], disk[r], passes[r], scenario)
    BY DEF Local, LocalInv
<1>5. todo[r].file # "private" => todo[r].then \in Stages \cup {"snapshot"}
    BY <1>2, <1>4 DEF SaveInv, Saves, RunPlan, EnrichPlan, Stages, FileName
<1>6. todo[r].file = "private" => /\ todo[r].then \in {"call", "settle", "open", "decide", "off"}
                                  /\ todo[r].value \in PrivateFile
    BY <1>2, <1>4 DEF SaveInv, Saves, PrivatePlan, PlanFor
<1>7. todo[r].file # "private" => disk'[r].private = disk[r].private
    BY <1>0, <1>1, <1>2 DEF Files, FileName
<1>8. ASSUME todo[r].file = "private" PROVE PrivateIn(disk'[r]) = todo[r].value
    <2>1. disk'[r].private = todo[r].value
        BY <1>0, <1>1, <1>8 DEF Files
    <2>2. todo[r].value # NoFile
        BY <1>6, <1>8, NoPayloadAssumption DEF NoFile
    <2> QED
        BY <2>1, <2>2 DEF PrivateIn
<1> QED
    BY <1>1, <1>2, <1>3, <1>5, <1>6, <1>7, <1>8

LEMMA OwnProbesEarned ==
    ASSUME Shape, NEW r \in Client, Local(r), RunnerStep(r), calls' \in Counts,
           DurableInv(Transition, Durable("restart"), scenario),
           JournalEarned(Transition, Durable("restart"), calls),
           ProbesEarned(pc[r], todo[r], disk[r], calls)
    PROVE  ProbesEarned(pc[r], todo[r], disk[r], calls)'
<1> DEFINE K == calls'
           p == PrivateIn(disk[r]).ops
           Claims == ProbesEarned(pc[r], todo[r], disk[r], calls)'
<1>0. /\ DOMAIN pc = Client /\ DOMAIN todo = Client /\ disk \in [Client -> Files]
      /\ disk[r] \in Files
    BY ShapeOf DEF Shape
<1>1. (\A x \in Dispatch : K[x] >= calls[x]) /\ calls \in Counts
    BY FrameOf DEF Frame, Shape, TypeOK, Counts
<1>2. ProbesEarned(pc[r], todo[r], disk[r], K)
    BY <1>1, EarnedGrows
<1>3. OpsEarned(p, K) /\ p \in [PrivateOp -> Probe]
    BY <1>2, SavedOps DEF ProbesEarned
<1>4. ASSUME disk'[r].private = disk[r].private, pc'[r] \notin Working \ {"call"},
             pc'[r] \notin SavePlaces \/ todo'[r].file # "private"
      PROVE  Claims
    <2>1. PrivateIn(disk'[r]) = PrivateIn(disk[r])
        BY <1>4, PrivateInSame
    <2> QED
        BY <1>2, <1>4, <2>1 DEF ProbesEarned, Saves
<1>5. ASSUME disk' = disk, NEW value, NEW then, Save(r, "private", value, then),
             OpsEarned(value.ops, K)
      PROVE  Claims
    <2>1. todo'[r].value = value /\ pc'[r] \notin Working
        BY <1>5, SaveOrders DEF Working
    <2> QED
        BY <1>2, <1>5, <2>1 DEF ProbesEarned
<1>6. CASE SkipSync(r) \/ Sync(r) \/ Persist(r) \/ Snapshot(r) \/ SnapshotHead(r) \/ SnapshotDone(r)
    BY <1>2, <1>6, SaveGoesOn DEF ProbesEarned, Saves, SavePlaces, Working
<1>7. CASE Write(r)
    <2>1. /\ pc[r] \in SavePlaces /\ todo[r].file \in FileName
          /\ pc'[r] = todo[r].then /\ todo'[r].file = "none"
          /\ todo[r].file # "private" => disk'[r].private = disk[r].private
          /\ todo[r].file = "private" => PrivateIn(disk'[r]) = todo[r].value
          /\ todo[r].file # "private" => pc'[r] \in Stages \cup {"snapshot"}
          /\ todo[r].file = "private" => pc'[r] \in {"call", "settle", "open", "decide", "off"}
        BY <1>7, WriteEnds
    <2>2. CASE todo[r].file # "private"
        BY <1>4, <2>1, <2>2 DEF Stages, Working
    <2>3. CASE todo[r].file = "private"
        <3> DEFINE v == todo[r].value.ops
        <3>1. OpsEarned(v, K) /\ PrivateIn(disk'[r]).ops = v
            BY <1>2, <2>1, <2>3 DEF ProbesEarned, Saves
        <3>2. PrivatePlan(todo[r], disk[r], passes[r], scenario)
            BY <2>1, <2>3 DEF Local, LocalInv, SaveInv, Saves
        <3>3. ASSUME pc'[r] \in Working \ {"call"}, NEW o \in PrivateOp, v[o].state = "in_flight"
              PROVE  K[<<o, v[o].seq>>] >= 1
            <4>1. todo[r].then = "settle"
                BY <2>1, <2>3, <3>3 DEF Working
            <4>2. PICK x \in PrivateOp : PlanFor(x, todo[r], disk[r], passes[r])
                BY <3>2, <4>1 DEF PrivatePlan
            <4>3. x = o
                BY <3>3, <4>2 DEF PlanFor
            <4>4. v[o].recorded
                BY <4>1, <4>2, <4>3 DEF PlanFor
            <4> QED
                BY <3>1, <3>3, <4>4 DEF OpsEarned, EntryEarned
        <3> HIDE DEF v
        <3> QED
            BY <2>1, <3>1, <3>3 DEF ProbesEarned, Saves
    <2> QED BY <2>2, <2>3
<1>8. CASE \/ Start(r) \/ Restore(r) \/ RestoreEnrich(r) \/ Run(r) \/ CallRun(r) \/ Stop(r)
           \/ Enrich(r) \/ CallEnrich(r) \/ PauseEnrich(r) \/ ReadEnrich(r) \/ FinishEnrich(r)
    <2>1. /\ disk'[r].private = disk[r].private
          /\ pc'[r] \in Stages \cup {"off", "snapshot", "sync"}
          /\ todo'[r].file # "private"
        BY <1>8, NormalKeepsPrivate
    <2> QED
        BY <1>4, <2>1 DEF Stages, Working
<1>9. CASE Open(r)
    <2>1. pc'[r] \in {"decide", "restore usage"}
        BY <1>0, <1>9 DEF Open, Goto
    <2>2. CASE disk' = disk
        BY <1>4, <2>1, <2>2 DEF SavePlaces, Working
    <2>3. CASE disk' # disk
        <3>1. /\ Transition.private # NoPayload
              /\ disk' = [disk EXCEPT ![r].private = Transition.private.checkpoint]
            BY <1>9, <2>3 DEF Open
        <3>2. disk'[r].private = Transition.private.checkpoint
            BY <1>0, <3>1 DEF Files
        <3>3. Transition.private.checkpoint \in PrivateFile
            BY <3>1 DEF DurableInv, Shared, SharedPrivate
        <3>4. PrivateIn(disk'[r]).ops = OpsIn(Transition)
            BY <3>1, <3>2, <3>3, NoPayloadAssumption DEF PrivateIn, OpsIn, NoFile
        <3>5. OpsIn(Transition) \in [PrivateOp -> Probe] /\ OpsEarned(OpsIn(Transition), calls)
            BY OpsInOf DEF JournalEarned
        <3>6. OpsEarned(OpsIn(Transition), K)
            BY <1>1, <3>5, OpsGrow
        <3> QED
            BY <2>1, <3>4, <3>6 DEF ProbesEarned, Saves, SavePlaces, Working
    <2> QED BY <2>2, <2>3
<1>10. CASE RestoreUsage(r)
    <2>1. pc'[r] = "decide" /\ disk' = [disk EXCEPT ![r].usage = todo[r].value]
        BY <1>0, <1>10 DEF RestoreUsage, Goto
    <2>2. disk'[r].private = disk[r].private
        BY <1>0, <2>1 DEF Files
    <2> QED
        BY <1>4, <2>1, <2>2 DEF SavePlaces, Working
<1>11. ASSUME NEW o \in PrivateOp, Begin(r, o) \/ ReserveRead(r, o) \/ LeavePending(r, o)
       PROVE  Claims
    <2>1. /\ Private(r) = PrivateIn(disk[r]) /\ Private(r) \in PrivateFile /\ pc[r] = "decide"
          /\ disk' = disk
        BY <1>11, ShapeOf DEF Begin, ReserveRead, LeavePending, At, Stay
    <2>2. CASE LeavePending(r, o)
        BY <1>0, <1>4, <2>1, <2>2 DEF LeavePending, Goto, SavePlaces, Working
    <2>3. ASSUME NEW e \in Probe, EntryEarned(o, e, K), Save(r, "private", WithEntry(r, o, e), "call")
          PROVE  Claims
        <3> DEFINE v == WithEntry(r, o, e)
        <3>1. v.ops[o] = e /\ \A x \in PrivateOp \ {o} : v.ops[x] = p[x]
            BY <2>1, <2>3, EntryReplaced DEF WithEntry
        <3>2. OpsEarned(v.ops, K)
            BY <1>3, <2>3, <3>1 DEF OpsEarned
        <3> QED
            BY <1>5, <2>1, <2>3, <3>2
    <2>4. CASE Begin(r, o)
        <3> DEFINE e == [state |-> "in_flight", seq |-> 0, recorded |-> FALSE, answer |-> "none"]
        <3>1. e \in Probe
            BY PassesAssumption DEF Probe, StateName
        <3>2. EntryEarned(o, e, K)
            BY PassesAssumption DEF EntryEarned
        <3> QED
            BY <2>3, <2>4, <3>1, <3>2 DEF Begin
    <2>5. CASE ReserveRead(r, o)
        <3> DEFINE b == p[o]
                   e == [b EXCEPT !.state = "in_flight", !.seq = @ + 1, !.recorded = FALSE]
        <3>1. b \in Probe /\ b.state = "pending"
            BY <1>3, <2>1, <2>5 DEF ReserveRead, Entry
        <3>2. Cardinality({u \in disk[r].usage : u[1] = o /\ u[2] > 0}) = b.seq
            <4>1. Replays(Private(r), disk[r].usage) /\ disk[r].usage \in Usage
                BY <2>1, KnowsPrivate DEF Sound
            <4> QED
                BY <2>1, <3>1, <4>1, ReadsAreCounted
        <3>3. b.seq < ReadLimit
            BY <2>5, <3>2 DEF ReserveRead, Reads
        <3>4. /\ e.state = "in_flight" /\ e.seq = b.seq + 1 /\ ~ e.recorded
              /\ e.seq \in 0 .. ReadLimit /\ e \in Probe
            <4>1. b.seq + 1 \in 0 .. ReadLimit
                BY <3>1, <3>3, PassesAssumption DEF Probe
            <4> HIDE DEF b
            <4> QED
                BY <3>1, <4>1 DEF Probe, StateName
        <3>5. EntryEarned(o, b, K)
            BY <1>3 DEF OpsEarned
        <3>6. ASSUME NEW n \in 0 .. ReadLimit, n < e.seq PROVE K[<<o, n>>] >= 1
            <4>1. b.seq \in 0 .. ReadLimit
                BY <3>1 DEF Probe
            <4>2. n < b.seq \/ n = b.seq
                BY <3>4, <3>6, <4>1, PassesAssumption
            <4> QED
                BY <3>1, <3>5, <4>2 DEF EntryEarned
        <3>7. EntryEarned(o, e, K)
            BY <3>4, <3>6 DEF EntryEarned
        <3> QED
            BY <2>1, <2>3, <2>5, <3>4, <3>7 DEF ReserveRead, Entry
    <2> QED BY <1>11, <2>2, <2>4, <2>5
<1>12. CASE Call(r) \/ AppendUsage(r) \/ RecordUsage(r) \/ Finish(r)
    <2> DEFINE o == Current(r)
    <2>1. /\ pc[r] \in Working /\ o \in PrivateOp /\ Entry(r, o) = p[o]
          /\ Private(r) = PrivateIn(disk[r]) /\ Private(r) \in PrivateFile
          /\ p[o] \in Probe /\ p[o].state = "in_flight"
          /\ \A x \in PrivateOp \ {o} : p[x].state \in {"none", "completed"}
        <3>1. pc[r] \in Working
            BY <1>12 DEF Call, AppendUsage, RecordUsage, Finish, At, Working
        <3>2. Private(r) = PrivateIn(disk[r]) /\ Private(r) \in PrivateFile
            BY ShapeOf
        <3>3. /\ o \in PrivateOp /\ Entry(r, o) = Private(r).ops[o]
              /\ Entry(r, o) \in Probe /\ Entry(r, o).state = "in_flight"
              /\ \A x \in PrivateOp \ {o} : Private(r).ops[x].state \in {"none", "completed"}
            BY <3>1, CurrentIs
        <3> QED
            BY <3>1, <3>2, <3>3
    <2>2. EntryEarned(o, p[o], K)
        BY <1>3, <2>1 DEF OpsEarned
    <2>3. pc[r] # "call" => K[<<o, p[o].seq>>] >= 1
        BY <1>2, <2>1 DEF ProbesEarned
    <2>4. CASE Call(r)
        <3>1. disk' = disk /\ todo' = todo /\ pc'[r] = "append" /\ Send(<<o, p[o].seq>>)
            BY <1>0, <2>1, <2>4 DEF Call, Goto
        <3>2. <<o, p[o].seq>> \in Dispatch
            BY <2>1 DEF Dispatch, Op, Probe
        <3>3. K[<<o, p[o].seq>>] >= 1
            BY <1>1, <3>1, <3>2, SendEffect
        <3>4. \A x \in PrivateOp : p[x].state = "in_flight" => x = o
            BY <2>1
        <3> HIDE DEF o
        <3> QED
            BY <1>3, <3>1, <3>3, <3>4 DEF ProbesEarned, Saves, SavePlaces, p
    <2>5. CASE AppendUsage(r)
        <3>1. pc'[r] = "record" /\ pc[r] = "append"
            BY <1>0, <2>5 DEF AppendUsage, Goto, At
        <3>2. \E usage : disk' = [disk EXCEPT ![r].usage = usage]
            BY <2>5 DEF AppendUsage
        <3>3. disk'[r].private = disk[r].private
            BY <1>0, <3>2 DEF Files
        <3>4. PrivateIn(disk'[r]) = PrivateIn(disk[r])
            BY <3>3, PrivateInSame
        <3>5. \A x \in PrivateOp : p[x].state = "in_flight" => x = o
            BY <2>1
        <3> HIDE DEF o
        <3> QED
            BY <1>3, <2>3, <3>1, <3>4, <3>5 DEF ProbesEarned, Saves, SavePlaces, p
    <2>6. ASSUME pc[r] # "call", NEW e \in Probe, e.seq = p[o].seq,
                 NEW then, Save(r, "private", WithEntry(r, o, e), then), disk' = disk
          PROVE  Claims
        <3> DEFINE v == WithEntry(r, o, e)
        <3>1. v.ops[o] = e /\ \A x \in PrivateOp \ {o} : v.ops[x] = p[x]
            BY <2>1, <2>6, EntryReplaced DEF WithEntry
        <3>2. EntryEarned(o, e, K)
            BY <2>1, <2>2, <2>3, <2>6 DEF EntryEarned
        <3>3. OpsEarned(v.ops, K)
            <4> HIDE DEF v, o
            <4> QED
                BY <1>3, <3>1, <3>2 DEF OpsEarned
        <3> QED
            BY <1>5, <2>6, <3>3
    <2>7. CASE RecordUsage(r)
        <3> DEFINE e == [p[o] EXCEPT !.recorded = TRUE]
        <3>1. e \in Probe /\ e.seq = p[o].seq
            BY <2>1 DEF Probe
        <3>2. pc[r] # "call" /\ disk' = disk /\ Save(r, "private", WithEntry(r, o, e), "settle")
            BY <2>1, <2>7 DEF RecordUsage, At, Stay
        <3> QED
            BY <2>6, <3>1, <3>2
    <2>8. CASE Finish(r)
        <3> DEFINE e1 == [p[o] EXCEPT !.state = "pending"]
                   e2(a) == [p[o] EXCEPT !.state = "completed", !.answer = a]
        <3>1. e1 \in Probe /\ e1.seq = p[o].seq
            BY <2>1 DEF Probe, StateName
        <3>2. \A a \in {"value", "empty"} : e2(a) \in Probe /\ e2(a).seq = p[o].seq
            BY <2>1 DEF Probe, StateName
        <3>3. /\ pc[r] # "call" /\ disk' = disk
              /\ \E a \in Answers(o, p[o].seq) :
                    IF a = "pending" THEN Save(r, "private", WithEntry(r, o, e1), "open")
                                     ELSE Save(r, "private", WithEntry(r, o, e2(a)), "decide")
            BY <2>1, <2>8 DEF Finish, At, Stay
        <3>4. \A a \in Answers(o, p[o].seq) : a = "pending" \/ a \in {"value", "empty"}
            BY DEF Answers
        <3> HIDE DEF e1, e2, o
        <3> QED
            BY <2>6, <3>1, <3>2, <3>3, <3>4
    <2> QED BY <1>12, <2>4, <2>5, <2>7, <2>8
<1>13. CASE Complete(r)
    <2>1. disk' = disk
        BY <1>13 DEF Complete, Stay
    <2>2. CASE pc'[r] = "off"
        BY <1>4, <2>1, <2>2 DEF SavePlaces, Working
    <2>3. CASE pc'[r] # "off"
        <3>1. Save(r, "private", [Private(r) EXCEPT !.status = "completed"], "off")
            BY <1>0, <1>13, <2>3 DEF Complete, Goto
        <3>2. Private(r) = PrivateIn(disk[r]) /\ Private(r) \in PrivateFile
            BY ShapeOf
        <3>3. [Private(r) EXCEPT !.status = "completed"].ops = p
            BY <3>2 DEF PrivateFile
        <3> QED
            BY <1>3, <1>5, <2>1, <3>1, <3>3
    <2> QED BY <2>2, <2>3
<1> QED
    BY <1>6, <1>7, <1>8, <1>9, <1>10, <1>11, <1>12, <1>13
    DEF RunnerStep, Checkpointing, Normal, Coverage

LEMMA JournalEarnedGrows ==
    ASSUME NEW T, NEW R, NEW sc, DurableInv(T, R, sc), NEW K \in Counts, NEW L \in Counts,
           \A x \in Dispatch : L[x] >= K[x], JournalEarned(T, R, K)
    PROVE  JournalEarned(T, R, L)
<1>1. OpsIn(T) \in [PrivateOp -> Probe]
    BY OpsInOf
<1>2. OpsEarned(OpsIn(T), L)
    BY <1>1, OpsGrow DEF JournalEarned
<1> QED
    BY <1>2, SentGrows DEF JournalEarned

LEMMA JournalEarnedStep ==
    ASSUME JournalInv, ContentInv, Shape, NEW r \in Client, Local(r), Prepared(r), RunnerStep(r),
           DurableInv(Transition, Durable("restart"), scenario), KnownInv, IntentInv,
           calls' \in Counts, EarnedInv
    PROVE  JournalEarned(Transition, Durable("restart"), calls)'
<1> DEFINE T == Transition
           R == Durable("restart")
           t == todo[r]
           d == disk[r]
<1>1. (\A x \in Dispatch : calls'[x] >= calls[x]) /\ calls \in Counts
    BY FrameOf DEF Frame, Shape, TypeOK, Counts
<1>2. JournalEarned(T, R, calls') /\ T \in Shared
    BY <1>1, JournalEarnedGrows DEF EarnedInv, DurableInv
<1>3. CASE Quiet
    BY <1>2, <1>3 DEF Quiet, JournalEarned
<1>4. CASE Commits(r) /\ t.kind = "restart"
    <2>1. T' = T /\ R' = Capsule(d)
        BY <1>4, CapsuleCommitted
    <2>2. Sent(d.enrich, calls) /\ calls' = calls
        BY <1>4 DEF EarnedInv, NormalEarned, Commits
    <2>3. R'.enrich = d.enrich
        BY <2>1 DEF Capsule
    <2> QED
        BY <1>2, <2>1, <2>2, <2>3 DEF JournalEarned
<1>5. CASE Commits(r) /\ t.kind # "restart"
    <2>1. /\ t.kind = "transition" /\ t.file \in FileName /\ calls' = calls
          /\ NextOf(T, t, d) \in Shared /\ pc[r] = "persist"
        BY <1>2, <1>5, CommitKinds DEF Commits
    <2>2. T' = NextOf(T, t, d) /\ R' = R /\ Admitted(T, t, d)
        BY <1>5, <2>1, TransitionCommitted
    <2>3. CASE t.file = "private"
        <3>1. OpsIn(T') = t.value.ops
            BY <1>5, <2>1, <2>2, <2>3, CommitAdvances
        <3>2. OpsEarned(t.value.ops, calls)
            BY <2>1, <2>3 DEF EarnedInv, ProbesEarned, Saves, SavePlaces
        <3>3. T'.restart = T.restart
            BY <2>2, <2>3 DEF NextOf
        <3> QED
            BY <1>2, <2>1, <2>2, <3>1, <3>2, <3>3 DEF JournalEarned
    <2>4. CASE t.file # "private"
        <3>1. T'.private = T.private
            BY <1>2, <2>1, <2>2, <2>4, NormalNext DEF FileName
        <3>2. OpsIn(T') = OpsIn(T)
            BY <3>1 DEF OpsIn
        <3>3. T'.restart # T.restart => t.file = "enrich" /\ T'.restart.enrich = t.value
            BY <2>2 DEF NextOf
        <3>4. t.file = "enrich" => Sent(t.value, calls)
            BY <2>1 DEF EarnedInv, NormalEarned, Saves, SavePlaces
        <3> QED
            BY <1>2, <2>1, <2>2, <3>2, <3>3, <3>4 DEF JournalEarned
    <2> QED BY <2>3, <2>4
<1> QED
    BY <1>3, <1>4, <1>5, QuietOrCommits

LEMMA EarnedStep ==
    ASSUME JournalInv, ContentInv, Shape, Shape', \A s \in Client : Local(s) /\ Prepared(s),
           NEW r \in Client, RunnerStep(r), RestartKnown,
           DurableInv(Transition, Durable("restart"), scenario), KnownInv, IntentInv, EarnedInv
    PROVE  EarnedInv'
<1>1. /\ calls' \in Counts /\ calls \in Counts
      /\ \A x \in Dispatch : calls'[x] >= calls[x]
    BY FrameOf DEF Frame, Shape, TypeOK, Counts
<1>2. JournalEarned(Transition, Durable("restart"), calls)'
    BY <1>1, JournalEarnedStep
<1>3. NormalEarned(pc[r], todo[r], disk[r], calls)' /\ ProbesEarned(pc[r], todo[r], disk[r], calls)'
    BY <1>1, OwnNormalEarned, OwnProbesEarned DEF EarnedInv
<1>4. ASSUME NEW s \in Client, s # r
      PROVE  NormalEarned(pc[s], todo[s], disk[s], calls)' /\ ProbesEarned(pc[s], todo[s], disk[s], calls)'
    <2>1. /\ NormalEarned(pc[s], todo[s], disk[s], calls')
          /\ ProbesEarned(pc[s], todo[s], disk[s], calls')
        BY <1>1, EarnedGrows DEF EarnedInv
    <2>2. pc'[s] = pc[s] /\ todo'[s] = todo[s] /\ disk'[s] = disk[s]
        BY <1>4, FrameOf DEF Frame
    <2> QED
        BY <2>1, <2>2
<1> QED
    BY <1>2, <1>3, <1>4 DEF EarnedInv

-----------------------------------------------------------------------------
(***************************************************************************)
(* An intent is admitted only where the journal has none.                  *)
(***************************************************************************)
LEMMA StartsAdmitted ==
    ASSUME Shape, NEW r \in Client, Local(r), pc[r] \in SavePlaces, todo[r].file \in FileName,
           NEW T, Admitted(T, todo[r], disk[r])
    PROVE  /\ todo[r].then = "call run" =>
                todo[r].file = "run" /\ todo[r].value = "in_flight" /\ T.barriers["run"] = "none"
           /\ todo[r].then = "call enrich" =>
                /\ todo[r].file = "enrich" /\ todo[r].value \in EnrichFile
                /\ todo[r].value.op = "in_flight" /\ T.barriers["enrich"] = "none"
           /\ todo[r].then = "call" =>
                /\ todo[r].file = "private" /\ todo[r].value \in PrivateFile
                /\ \E o \in PrivateOp :
                      /\ todo[r].value.ops[o].state = "in_flight"
                      /\ T.barriers[o] \in {"none", "pending"}
                      /\ todo[r].value.ops[o].seq = 0 => T.barriers[o] = "none"
                      /\ \A x \in PrivateOp \ {o} : todo[r].value.ops[x].state # "in_flight"
<1> DEFINE t == todo[r]
           d == disk[r]
<1>1. SaveInv(pc[r], t, d, passes[r], scenario)
    BY DEF Local, LocalInv
<1>2. d \in Files /\ PrivateIn(d) \in PrivateFile
    BY ShapeOf
<1>3. ASSUME t.then = "call run"
      PROVE  t.file = "run" /\ t.value = "in_flight" /\ T.barriers["run"] = "none"
    <2>1. t.file = "run" /\ t.value = "in_flight" /\ d.run = "none"
        BY <1>1, <1>3 DEF SaveInv, Saves, RunPlan, EnrichPlan, PrivatePlan, PlanFor, FileName
    <2>2. /\ DOMAIN Operations("run", "in_flight") = {"run"}
          /\ Operations("run", "in_flight")["run"] = "in_flight"
          /\ DOMAIN Operations("run", "none") = {}
        BY RunOperations DEF RunFile
    <2>3. MayBarrier("none", "in_flight", T.barriers["run"])
        BY <2>1, <2>2 DEF Admitted
    <2> QED
        BY <2>1, <2>3 DEF MayBarrier
<1>4. ASSUME t.then = "call enrich"
      PROVE  /\ t.file = "enrich" /\ t.value \in EnrichFile
             /\ t.value.op = "in_flight" /\ T.barriers["enrich"] = "none"
    <2>1. /\ t.file = "enrich" /\ t.value \in EnrichFile /\ t.value.op = "in_flight"
          /\ d.enrich.status = "none"
        BY <1>1, <1>4 DEF SaveInv, Saves, RunPlan, EnrichPlan, PrivatePlan, PlanFor, FileName
    <2>2. d.enrich \in EnrichFile /\ d.enrich.op = "none"
        BY <1>2, <2>1 DEF Files, EnrichFile
    <2>3. /\ DOMAIN Operations("enrich", t.value) = {"enrich"}
          /\ Operations("enrich", t.value)["enrich"] = "in_flight"
          /\ DOMAIN Operations("enrich", d.enrich) = {}
        BY <2>1, <2>2, EnrichOperations
    <2>4. MayBarrier("none", "in_flight", T.barriers["enrich"])
        BY <2>1, <2>3 DEF Admitted
    <2> QED
        BY <2>1, <2>4 DEF MayBarrier
<1>5. ASSUME t.then = "call"
      PROVE  /\ t.file = "private" /\ t.value \in PrivateFile
             /\ \E o \in PrivateOp :
                   /\ t.value.ops[o].state = "in_flight"
                   /\ T.barriers[o] \in {"none", "pending"}
                   /\ t.value.ops[o].seq = 0 => T.barriers[o] = "none"
                   /\ \A x \in PrivateOp \ {o} : t.value.ops[x].state # "in_flight"
    <2> DEFINE p == PrivateIn(d).ops
               v == t.value.ops
    <2>1. t.file = "private" /\ PrivatePlan(t, d, passes[r], scenario)
        BY <1>1, <1>5 DEF SaveInv, Saves, RunPlan, EnrichPlan, FileName
    <2>2. t.value \in PrivateFile
        BY <2>1 DEF PrivatePlan
    <2>3. PICK o \in PrivateOp : PlanFor(o, t, d, passes[r])
        BY <1>5, <2>1 DEF PrivatePlan
    <2>4. /\ v[o].state = "in_flight"
          /\ \/ p[o].state = "none" /\ v[o].seq = 0
             \/ p[o].state = "pending" /\ v[o].seq = p[o].seq + 1
          /\ \A x \in PrivateOp \ {o} : v[x].state # "in_flight"
        BY <1>5, <2>3 DEF PlanFor
    <2>5. MayBarrier(p[o].state, "in_flight", T.barriers[o])
        BY <1>2, <2>1, <2>2, <2>4, AdmittedPrivate
    <2>6. p[o].seq \in Nat
        BY <1>2, PassesAssumption DEF PrivateFile, Probe
    <2>7. p[o].state = "pending" => v[o].seq # 0
        BY <2>4, <2>6
    <2>8. T.barriers[o] = p[o].state
        BY <2>4, <2>5 DEF MayBarrier
    <2> QED
        BY <2>1, <2>2, <2>4, <2>7, <2>8
<1> QED
    BY <1>3, <1>4, <1>5

\* A checkpoint that changes nothing in the journal starts nothing.
LEMMA NothingNew ==
    ASSUME Shape, NEW r \in Client, Local(r), SkipSync(r) \/ Sync(r), pc'[r] = "write",
           DurableInv(Transition, Durable("restart"), scenario)
    PROVE  /\ todo[r].then \notin {"call", "call run", "call enrich"}
           /\ todo[r].file = "private" =>
                /\ InJournal(todo[r].value.ops, Transition)
                /\ \A o \in PrivateOp : todo[r].value.ops[o].state = "in_flight" =>
                      PrivateIn(disk[r]).ops[o].state = "in_flight"
<1> DEFINE t == todo[r]
           d == disk[r]
           T == Transition
           now == Operations(t.file, t.value)
<1>1. pc[r] = "sync" /\ t.file \in FileName /\ pc[r] \in SavePlaces
    BY DEF SkipSync, Sync, At, Local, LocalInv, PlaceInv, SavePlaces
<1>2. SaveInv(pc[r], t, d, passes[r], scenario) /\ d \in Files /\ T \in Shared
    BY ShapeOf DEF Local, LocalInv, DurableInv
<1>3. t.file = "private" => t.value \in PrivateFile
    BY <1>1, <1>2 DEF SaveInv, Saves, PrivatePlan
<1>4. CASE SkipSync(r)
    <2>1. DOMAIN now = {}
        BY <1>4 DEF SkipSync
    <2>2. t.file = "private" => \A o \in PrivateOp : t.value.ops[o].state = "none"
        BY <1>3, <2>1, PrivateOperations DEF Listed
    <2>3. t.file = "run" => t.value \notin {"in_flight", "completed"}
        BY <2>1, RunOperations DEF RunFile
    <2>4. t.file = "enrich" => t.value \notin EnrichFile \/ t.value.op = "none"
        BY <2>1, EnrichOperations
    <2>5. t.then \notin {"call", "call run", "call enrich"}
        <3>1. CASE t.file = "run"
            BY <1>1, <1>2, <2>3, <3>1 DEF SaveInv, Saves, RunPlan
        <3>2. CASE t.file = "enrich"
            BY <1>1, <1>2, <2>4, <3>2 DEF SaveInv, Saves, EnrichPlan
        <3>3. CASE t.file = "private"
            BY <1>1, <1>2, <2>2, <3>3 DEF SaveInv, Saves, PrivatePlan, PlanFor
        <3> QED
            BY <1>1, <3>1, <3>2, <3>3 DEF FileName
    <2> QED
        BY <2>2, <2>5 DEF InJournal
<1>5. CASE Sync(r)
    <2>1. NextTransition(r) = T /\ NextTransition(r) = NextOf(T, t, d)
        BY <1>1, <1>5 DEF Sync, Goto, Shape, NextTransition, NextOf
    <2>2. Admitted(T, t, d)
        BY <1>5 DEF Sync, Admitted, OldState
    <2>3. /\ t.file = "run" /\ t.value = "in_flight" => T.barriers["run"] = "in_flight"
          /\ t.file = "enrich" /\ t.value \in EnrichFile /\ t.value.op = "in_flight" =>
               T.barriers["enrich"] = "in_flight"
        <3>1. \A o \in Op : o \in DOMAIN now => T.barriers[o] = now[o]
            BY <2>1 DEF NextOf
        <3>2. "run" \in Op /\ "enrich" \in Op
            BY DEF Op
        <3>3. t.file = "run" /\ t.value = "in_flight" => T.barriers["run"] = "in_flight"
            BY <3>1, <3>2, RunOperations DEF RunFile
        <3>4. t.file = "enrich" /\ t.value \in EnrichFile /\ t.value.op = "in_flight" =>
                T.barriers["enrich"] = "in_flight"
            BY <3>1, <3>2, EnrichOperations
        <3> QED
            BY <3>3, <3>4
    <2>4. ASSUME t.file = "private"
          PROVE  OpsIn(T) = t.value.ops /\ \A o \in PrivateOp : T.barriers[o] = t.value.ops[o].state
        <3>1. T.private = [checkpoint |-> t.value, usage |-> d.usage]
            BY <2>1, <2>4 DEF NextOf
        <3>2. T.private # NoPayload
            <4>1. [checkpoint |-> t.value, usage |-> d.usage] \in SharedPrivate
                BY <1>2, <1>3, <2>4 DEF SharedPrivate, Files
            <4> QED
                BY <3>1, <4>1, NoPayloadAssumption
        <3>3. OpsIn(T) = t.value.ops
            BY <3>1, <3>2 DEF OpsIn
        <3> QED
            BY <3>3, OpsInOf
    <2>5. t.then \notin {"call", "call run", "call enrich"}
        <3>1. t.then # "call run"
            BY <1>1, <2>2, <2>3, StartsAdmitted
        <3>2. t.then # "call enrich"
            BY <1>1, <2>2, <2>3, StartsAdmitted
        <3>3. ASSUME t.then = "call" PROVE FALSE
            <4>1. t.file = "private" /\ \E o \in PrivateOp :
                     t.value.ops[o].state = "in_flight" /\ T.barriers[o] \in {"none", "pending"}
                BY <1>1, <2>2, <3>3, StartsAdmitted
            <4> QED
                BY <2>4, <4>1
        <3> QED
            BY <3>1, <3>2, <3>3
    <2>6. ASSUME t.file = "private", NEW o \in PrivateOp, t.value.ops[o].state = "in_flight"
          PROVE  PrivateIn(d).ops[o].state = "in_flight"
        <3>1. MayBarrier(PrivateIn(d).ops[o].state, "in_flight", T.barriers[o])
            BY <1>2, <1>3, <2>2, <2>6, AdmittedPrivate
        <3>2. T.barriers[o] = "in_flight"
            BY <2>4, <2>6
        <3> QED
            BY <3>1, <3>2 DEF MayBarrier
    <2> QED
        BY <2>4, <2>5, <2>6 DEF InJournal
<1> QED
    BY <1>4, <1>5

-----------------------------------------------------------------------------
\* The second check of a snapshot goes on, or posts the capsule.
LEMMA SnapshotHeadGoes ==
    ASSUME Shape, NEW r \in Client, SnapshotHead(r)
    PROVE  \/ pc'[r] \in {"sync", "open"} /\ todo' = todo
           \/ pc'[r] = "persist" /\ todo'[r].kind = "restart"
<1>1. DOMAIN pc = Client /\ DOMAIN todo = Client /\ todo \in [Client -> Todo]
    BY DEF Shape
<1>2. todo[r] \in Todo
    BY <1>1
<1>3. "kind" \in DOMAIN todo[r]
    BY <1>2 DEF Todo
<1>4. CASE Goto(r, AfterSnapshot(r)) /\ UNCHANGED todo
    BY <1>1, <1>4 DEF Goto, AfterSnapshot
<1>5. CASE Goto(r, "persist") /\ Post(r, "restart", Capsule(disk[r]))
    <2> DEFINE c == Capsule(disk[r])
    <2>1. todo' = [todo EXCEPT ![r].kind = "restart", ![r].payload = c] /\ pc' = [pc EXCEPT ![r] = "persist"]
        BY <1>5 DEF Goto, Post
    <2> HIDE DEF c
    <2> QED
        BY ONLY <1>1, <1>3, <2>1
<1> QED
    BY <1>4, <1>5 DEF SnapshotHead

(***************************************************************************)
(* What a runner knows and may act on, step by step.                       *)
(***************************************************************************)
Knows(r, T) ==
    /\ InJournal(PrivateIn(disk[r]).ops, T)
    /\ InJournal(View(pc[r], todo[r], disk[r], request[r]).ops, T)

LEMMA QuietIntent ==
    ASSUME Shape, NEW r \in Client, Local(r), Local(r)', RunnerStep(r), Quiet, ~ Commits(r),
           DOMAIN request = Client,
           DurableInv(Transition, Durable("restart"), scenario), NEW T, T = Transition, Knows(r, T)
    PROVE  /\ InJournal(PrivateIn(disk'[r]).ops, T)
           /\ InJournal(View(pc'[r], todo'[r], disk'[r], request'[r]).ops, T)
           /\ \A o \in PrivateOp : Holds(r, o)' => Holds(r, o)
<1> DEFINE p == PrivateIn(disk[r])
           Goal == /\ InJournal(PrivateIn(disk'[r]).ops, T)
                   /\ InJournal(View(pc'[r], todo'[r], disk'[r], request'[r]).ops, T)
                   /\ \A o \in PrivateOp : Holds(r, o)' => Holds(r, o)
           Still == disk'[r].private = disk[r].private
           Open1 == Saves(pc'[r], todo'[r], "private") /\ Done(pc'[r], todo'[r], request'[r])
           Open0 == Saves(pc[r], todo[r], "private") /\ Done(pc[r], todo[r], request[r])
<1>0. /\ DOMAIN pc = Client /\ DOMAIN todo = Client /\ todo \in [Client -> Todo]
      /\ disk \in [Client -> Files] /\ disk[r] \in Files
    BY ShapeOf DEF Shape
<1>1. InJournal(p.ops, T)
    BY DEF Knows
<1>2. ASSUME Still, ~ Open1
      PROVE  /\ PrivateIn(disk'[r]) = p
             /\ View(pc'[r], todo'[r], disk'[r], request'[r]) = p
    BY <1>2, PrivateInSame DEF View
<1>3. ASSUME Still, ~ Open1, ~ Live(pc'[r], todo'[r]) PROVE Goal
    BY <1>1, <1>2, <1>3 DEF Holds, HasIntent
<1>4. ASSUME Still, ~ Open1, ~ Open0, Live(pc[r], todo[r]) PROVE Goal
    BY <1>1, <1>2, <1>4 DEF Holds, HasIntent, View
<1>5. NoRequest.phase = "none" /\ NoTodo.file = "none"
    BY DEF NoRequest, NoTodo
<1>6. CASE Persist(r)
    <2>1. /\ pc[r] = "persist" /\ pc'[r] = "persist" /\ todo' = todo /\ disk' = disk
          /\ Check(r, todo[r].kind, todo[r].payload) \/ Upload(r) \/ Commit(r)
        BY <1>0, <1>6 DEF Persist, At, Stay
    <2>2. ~ Commit(r)
        <3>1. ASSUME Commit(r) PROVE FALSE
            <4>1. request[r].phase = "commit"
                BY <3>1 DEF Commit
            <4>2. request[r].kind = todo[r].kind /\ request[r].payload = todo[r].payload
                BY <2>1, <4>1 DEF Local, LocalInv, RequestsInv
            <4> QED
                BY <1>6, <2>1, <3>1, <4>1, <4>2 DEF Commits, Persist, Stay
        <3> QED BY <3>1
    <2>3. request[r].phase \in {"none", "upload"} /\ request'[r].phase \in {"upload", "commit"}
        BY <1>5, <2>1, <2>2 DEF Check, Upload, Onward
    <2>4. ~ Open1 /\ ~ Open0
        BY <2>1, <2>3 DEF Done, Committed
    <2>5. Live(pc'[r], todo'[r]) => Live(pc[r], todo[r])
        BY <2>1
    <2> QED
        BY <1>3, <1>4, <2>1, <2>4, <2>5
<1>7. CASE Snapshot(r) \/ SnapshotHead(r) \/ SnapshotDone(r)
    <2>1. /\ pc[r] \in SavePlaces /\ pc'[r] \in SavePlaces \cup {"open"} /\ disk' = disk
          /\ todo'[r].file = todo[r].file
        BY <1>7, SaveGoesOn
    <2>2. pc[r] \in {"snapshot", "snapshot head"} \/ (pc[r] = "persist" /\ todo[r].kind = "restart")
        BY <1>7 DEF Snapshot, SnapshotHead, SnapshotDone, At
    <2>3. pc'[r] # "write" /\ (pc'[r] = "persist" => todo'[r].kind = "restart")
        <3>1. CASE Snapshot(r)
            BY <1>0, <3>1 DEF Snapshot, AfterSnapshot, Goto
        <3>2. CASE SnapshotHead(r)
            BY <3>2, SnapshotHeadGoes
        <3>3. CASE SnapshotDone(r)
            BY <1>0, <3>3 DEF SnapshotDone, AfterSnapshot, Goto
        <3> QED
            BY <1>7, <3>1, <3>2, <3>3
    <2>4. ~ Open1 /\ ~ Open0
        BY <2>2, <2>3 DEF Done, Committed
    <2>5. Live(pc'[r], todo'[r]) => Live(pc[r], todo[r])
        BY <2>1 DEF Live, Saves, SavePlaces, Working
    <2> QED
        BY <1>3, <1>4, <2>1, <2>4, <2>5
<1>8. CASE SkipSync(r) \/ Sync(r)
    <2>1. /\ pc[r] = "sync" /\ pc'[r] \in {"write", "persist"} /\ disk' = disk
          /\ request'[r] = request[r] /\ request[r] = NoRequest
          /\ todo'[r].file = todo[r].file /\ todo'[r].value = todo[r].value
        <3>1. pc[r] = "sync" /\ pc'[r] \in {"write", "persist"} /\ request'[r] = request[r]
            BY <1>0, <1>8 DEF SkipSync, Sync, At, Goto, Load, journalVars
        <3>2. request[r] = NoRequest
            BY <3>1 DEF Local, LocalInv, RequestsInv
        <3> QED
            BY <1>8, <3>1, <3>2, SaveGoesOn
    <2>2. ~ Open0 /\ (pc'[r] = "persist" => ~ Open1)
        BY <1>5, <2>1 DEF Done, Committed
    <2>3. Live(pc'[r], todo'[r]) => Live(pc[r], todo[r])
        BY <2>1 DEF Live, Saves, SavePlaces, Working
    <2>4. CASE ~ Open1
        BY <1>3, <1>4, <2>1, <2>2, <2>3, <2>4
    <2>5. CASE Open1
        <3>1. pc'[r] = "write" /\ todo[r].file = "private"
            BY <2>1, <2>2, <2>5 DEF Saves
        <3>2. /\ InJournal(todo[r].value.ops, T)
              /\ \A o \in PrivateOp :
                    todo[r].value.ops[o].state = "in_flight" => p.ops[o].state = "in_flight"
            BY <1>8, <3>1, NothingNew
        <3>3. View(pc'[r], todo'[r], disk'[r], request'[r]) = todo[r].value
            BY <2>1, <2>5 DEF View
        <3>4. View(pc[r], todo[r], disk[r], request[r]) = p
            BY <2>2 DEF View
        <3>5. Live(pc[r], todo[r])
            BY <2>1, <3>1 DEF Live, Saves, SavePlaces
        <3> QED
            BY <1>1, <2>1, <3>2, <3>3, <3>4, <3>5 DEF Holds, HasIntent
    <2> QED BY <2>4, <2>5
<1>9. CASE Write(r)
    <2>1. /\ pc[r] \in SavePlaces /\ Done(pc[r], todo[r], request[r])
          /\ todo[r].file \in FileName
          /\ pc'[r] = todo[r].then /\ todo'[r].file = "none"
          /\ todo[r].file # "private" => Still
          /\ todo[r].file = "private" => PrivateIn(disk'[r]) = todo[r].value
          /\ todo[r].file # "private" => pc'[r] \in Stages \cup {"snapshot"}
        BY <1>9, WriteEnds
    <2>2. ~ Open1
        BY <2>1 DEF Saves
    <2>3. CASE todo[r].file # "private"
        <3>1. ~ Live(pc'[r], todo'[r])
            BY <2>1, <2>3 DEF Live, Saves, Stages, Working
        <3> QED
            BY <1>3, <2>1, <2>2, <2>3, <3>1
    <2>4. CASE todo[r].file = "private"
        <3>1. View(pc[r], todo[r], disk[r], request[r]) = todo[r].value
            BY <2>1, <2>4 DEF View, Saves
        <3>2. View(pc'[r], todo'[r], disk'[r], request'[r]) = todo[r].value
            BY <2>1, <2>2, <2>4 DEF View
        <3>3. InJournal(todo[r].value.ops, T)
            BY <3>1 DEF Knows
        <3>4. Live(pc[r], todo[r])
            BY <2>1, <2>4 DEF Live, Saves
        <3> QED
            BY <2>1, <2>4, <3>1, <3>2, <3>3, <3>4 DEF Holds, HasIntent
    <2> QED BY <2>3, <2>4
<1>10. CASE \/ Start(r) \/ Restore(r) \/ RestoreEnrich(r) \/ Run(r) \/ CallRun(r) \/ Stop(r)
            \/ Enrich(r) \/ CallEnrich(r) \/ PauseEnrich(r) \/ ReadEnrich(r) \/ FinishEnrich(r)
    <2>1. /\ Still /\ pc'[r] \in Stages \cup {"off", "snapshot", "sync"}
          /\ todo'[r].file # "private"
        BY <1>10, NormalKeepsPrivate
    <2>2. ~ Live(pc'[r], todo'[r]) /\ ~ Open1
        BY <2>1 DEF Live, Saves, Stages, Working
    <2> QED
        BY <1>3, <2>1, <2>2
<1>11. CASE Open(r)
    <2>1. pc'[r] \in {"decide", "restore usage"}
        BY <1>0, <1>11 DEF Open, Goto
    <2>2. ~ Live(pc'[r], todo'[r]) /\ ~ Open1
        BY <2>1 DEF Live, Saves, SavePlaces, Working
    <2>3. CASE disk' = disk
        BY <1>3, <2>2, <2>3
    <2>4. CASE disk' # disk
        <3>1. /\ T.private # NoPayload
              /\ disk' = [disk EXCEPT ![r].private = T.private.checkpoint]
            BY <1>11, <2>4 DEF Open
        <3>2. disk'[r].private = T.private.checkpoint
            BY <1>0, <3>1 DEF Files
        <3>3. T.private.checkpoint \in PrivateFile
            BY <3>1 DEF DurableInv, Shared, SharedPrivate
        <3>4. PrivateIn(disk'[r]).ops = OpsIn(T)
            BY <3>1, <3>2, <3>3, NoPayloadAssumption DEF PrivateIn, OpsIn, NoFile
        <3>5. View(pc'[r], todo'[r], disk'[r], request'[r]) = PrivateIn(disk'[r])
            BY <2>2 DEF View
        <3> QED
            BY <2>2, <3>4, <3>5 DEF InJournal, Holds, HasIntent
    <2> QED BY <2>3, <2>4
<1>12. CASE RestoreUsage(r)
    <2>1. pc'[r] = "decide" /\ \E usage : disk' = [disk EXCEPT ![r].usage = usage]
        BY <1>0, <1>12 DEF RestoreUsage, Goto
    <2>2. Still /\ ~ Live(pc'[r], todo'[r]) /\ ~ Open1
        BY <1>0, <2>1 DEF Live, Saves, SavePlaces, Working, Files
    <2> QED
        BY <1>3, <2>2
<1>13. ASSUME disk' = disk, pc[r] = "decide", NEW value, NEW then, Save(r, "private", value, then),
              then \in {"call", "off"}
       PROVE  Goal
    <2>1. /\ todo'[r].file = "private" /\ todo'[r].then = then /\ pc'[r] \in {"snapshot", "sync"}
        BY <1>13, SaveOrders
    <2>2. ~ Open1
        BY <2>1 DEF Done, Committed
    <2>3. PrivatePlan(todo'[r], disk'[r], passes'[r], scenario')
        <3>1. LocalInv(pc'[r], todo'[r], disk'[r], passes'[r], request'[r], scenario')
            BY DEF Local
        <3> QED
            BY <2>1, <3>1 DEF LocalInv, SaveInv, Saves, SavePlaces
    <2>4. \A o \in PrivateOp : p.ops[o].state # "in_flight"
        <3>1. CASE \E o \in PrivateOp : PlanFor(o, todo'[r], disk'[r], passes'[r])
            <4>1. PICK o \in PrivateOp : PlanFor(o, todo'[r], disk'[r], passes'[r])
                BY <3>1
            <4>2. \A x \in PrivateOp \ {o} : p.ops[x].state \in {"none", "completed"}
                BY <1>13, <4>1 DEF PlanFor
            <4>3. p.ops[o].state \in {"none", "pending"}
                BY <1>13, <2>1, <4>1 DEF PlanFor
            <4> QED
                BY <4>2, <4>3
        <3>2. CASE todo'[r].value.ops = p.ops /\ LastSettled(todo'[r].value.ops, scenario')
            BY <3>2 DEF LastSettled
        <3> QED
            BY <1>13, <2>3, <3>1, <3>2 DEF PrivatePlan
    <2> QED
        BY <1>1, <1>2, <1>13, <2>2, <2>4 DEF Holds, HasIntent
<1>14. ASSUME NEW o \in PrivateOp, Begin(r, o) \/ ReserveRead(r, o) \/ LeavePending(r, o) PROVE Goal
    <2>1. CASE LeavePending(r, o)
        <3>1. pc'[r] = "open" /\ disk' = disk
            BY <1>0, <2>1 DEF LeavePending, Goto, Stay
        <3> QED
            BY <1>3, <3>1 DEF Live, Saves, SavePlaces, Working
    <2>2. CASE Begin(r, o) \/ ReserveRead(r, o)
        BY <1>13, <2>2 DEF Begin, ReserveRead, At, Stay
    <2> QED BY <1>14, <2>1, <2>2
<1>15. CASE Complete(r)
    <2>1. CASE pc'[r] = "off"
        <3>1. disk' = disk
            BY <1>15 DEF Complete, Stay
        <3> QED
            BY <1>3, <2>1, <3>1 DEF Live, Saves, SavePlaces, Working
    <2>2. CASE pc'[r] # "off"
        BY <1>0, <1>13, <1>15, <2>2 DEF Complete, At, Goto, Stay
    <2> QED BY <2>1, <2>2
<1>16. CASE Call(r) \/ AppendUsage(r) \/ RecordUsage(r) \/ Finish(r)
    <2>1. pc[r] \in Working /\ Live(pc[r], todo[r]) /\ ~ Open0
        BY <1>16 DEF Call, AppendUsage, RecordUsage, Finish, At, Working, Live, Saves, SavePlaces
    <2>2. CASE Call(r)
        <3>1. pc'[r] = "append" /\ disk' = disk
            BY <1>0, <2>2 DEF Call, Goto
        <3> QED
            BY <1>4, <2>1, <3>1 DEF Saves, SavePlaces
    <2>3. CASE AppendUsage(r)
        <3>1. pc'[r] = "record" /\ \E usage : disk' = [disk EXCEPT ![r].usage = usage]
            BY <1>0, <2>3 DEF AppendUsage, Goto
        <3>2. Still
            BY <1>0, <3>1 DEF Files
        <3> QED
            BY <1>4, <2>1, <3>1, <3>2 DEF Saves, SavePlaces
    <2>4. CASE RecordUsage(r) \/ Finish(r)
        <3>1. disk' = disk /\ \E value, then : Save(r, "private", value, then)
            BY <2>4 DEF RecordUsage, Finish, Stay
        <3>2. pc'[r] \in {"snapshot", "sync"}
            BY <3>1, SaveOrders
        <3>3. ~ Open1
            BY <3>2 DEF Done, Committed
        <3> QED
            BY <1>4, <2>1, <3>1, <3>3
    <2> QED BY <1>16, <2>2, <2>3, <2>4
<1> QED
    BY <1>6, <1>7, <1>8, <1>9, <1>10, <1>11, <1>12, <1>14, <1>15, <1>16
    DEF RunnerStep, Checkpointing, Normal, Coverage

\* While another runner holds an intent no private checkpoint can be committed.
LEMMA NoOtherIntent ==
    ASSUME Shape, NEW r \in Client, Local(r), Commits(r), IntentInv, KnownInv,
           DurableInv(Transition, Durable("restart"), scenario),
           todo[r].kind = "transition", todo[r].file = "private",
           Admitted(Transition, todo[r], disk[r]),
           NEW s \in Client, s # r, NEW o \in PrivateOp, Holds(s, o)
    PROVE  FALSE
<1> DEFINE t == todo[r]
           d == disk[r]
           p == PrivateIn(d).ops
           v == t.value.ops
           w == OpsIn(Transition)
<1>1. Saves(pc[r], t, "private") /\ ~ Done(pc[r], t, request[r]) /\ Live(pc[r], t)
    BY DEF Commits, Saves, SavePlaces, Done, Committed, Live
<1>2. /\ w[o].state = "in_flight" /\ Transition.barriers[o] = "in_flight" /\ ~ Holds(r, o)
    BY OpsInOf DEF IntentInv
<1>3. p[o].state # "in_flight"
    BY <1>1, <1>2 DEF Holds, HasIntent, View
<1>4. v[o].state # "none"
    <2>1. Advances(Transition, NextOf(Transition, t, d)) /\ OpsIn(NextOf(Transition, t, d)) = v
        BY CommitAdvances
    <2> QED
        BY <1>2, <2>1 DEF Advances
<1>5. p[o].state # "completed"
    BY <1>2 DEF KnownInv, InJournal
<1>6. PrivatePlan(t, d, passes[r], scenario) /\ d \in Files
    BY <1>1, ShapeOf DEF Local, LocalInv, SaveInv
<1>7. ASSUME NEW x \in PrivateOp, PlanFor(x, t, d, passes[r]) PROVE FALSE
    <2>1. x = o
        BY <1>4, <1>5, <1>7 DEF PlanFor
    <2>2. v[o].state = "in_flight" /\ p[o].state \in {"none", "pending"}
        BY <1>3, <1>7, <2>1 DEF PlanFor
    <2>3. t.value \in PrivateFile
        BY <1>6 DEF PrivatePlan
    <2>4. MayBarrier(p[o].state, "in_flight", "in_flight")
        BY <1>2, <1>6, <2>2, <2>3, AdmittedPrivate
    <2> QED
        BY <2>2, <2>4 DEF MayBarrier
<1>8. ASSUME v = p, LastSettled(v, scenario) PROVE FALSE
    BY <1>4, <1>5, <1>8 DEF LastSettled
<1> QED
    BY <1>6, <1>7, <1>8 DEF PrivatePlan

\* What a commit does to the intent of the runner that committed.
LEMMA CommitView ==
    ASSUME NEW r \in Client, Commits(r), DOMAIN request = Client
    PROVE  /\ View(pc[r], todo[r], disk[r], request[r]) = PrivateIn(disk[r])
           /\ View(pc'[r], todo'[r], disk'[r], request'[r]) =
                IF todo[r].kind = "transition" /\ todo[r].file = "private"
                THEN todo[r].value ELSE PrivateIn(disk[r])
           /\ Live(pc'[r], todo'[r]) <=> Live(pc[r], todo[r])
           /\ todo[r].file = "private" => Live(pc[r], todo[r])
           /\ PrivateIn(disk'[r]) = PrivateIn(disk[r])
<1>1. /\ pc[r] = "persist" /\ pc'[r] = "persist" /\ todo'[r] = todo[r] /\ disk'[r] = disk[r]
      /\ request[r].phase = "commit" /\ request'[r].phase = "confirm"
    BY DEF Commits, Commit, Onward
<1> QED
    BY <1>1 DEF View, Saves, SavePlaces, Done, Committed, Live

LEMMA OthersIntent ==
    ASSUME JournalInv, Shape, NEW r \in Client, RunnerStep(r), NEW s \in Client, s # r
    PROVE  /\ PrivateIn(disk'[s]) = PrivateIn(disk[s])
           /\ View(pc'[s], todo'[s], disk'[s], request'[s]) = View(pc[s], todo[s], disk[s], request[s])
           /\ \A o \in PrivateOp : Holds(s, o)' <=> Holds(s, o)
<1>1. /\ pc'[s] = pc[s] /\ todo'[s] = todo[s] /\ disk'[s] = disk[s] /\ request'[s] = request[s]
    BY FrameOf, KeepsConversations DEF Frame
<1> QED
    BY <1>1 DEF Holds

LEMMA KnownStep ==
    ASSUME JournalInv, ContentInv, Shape, NEW r \in Client, Local(r), Local(r)', Prepared(r),
           RunnerStep(r), DurableInv(Transition, Durable("restart"), scenario),
           Advances(Transition, Transition'), KnownInv, IntentInv
    PROVE  KnownInv'
<1>0. DOMAIN request = Client
    BY DEF JournalInv, RequestInv
<1>1. ASSUME NEW s \in Client, s # r
      PROVE  /\ InJournal(PrivateIn(disk'[s]).ops, Transition')
             /\ InJournal(View(pc'[s], todo'[s], disk'[s], request'[s]).ops, Transition')
    BY <1>1, OthersIntent, InJournalStays DEF KnownInv
<1>2. /\ InJournal(PrivateIn(disk'[r]).ops, Transition')
      /\ InJournal(View(pc'[r], todo'[r], disk'[r], request'[r]).ops, Transition')
    <2>1. CASE Quiet /\ ~ Commits(r)
        <3>1. Knows(r, Transition) /\ Transition' = Transition
            BY <2>1 DEF Quiet, Knows, KnownInv
        <3> QED
            BY <1>0, <2>1, <3>1, QuietIntent
    <2>2. CASE Commits(r)
        <3>1. InJournal(PrivateIn(disk'[r]).ops, Transition')
            BY <1>0, <2>2, CommitView, InJournalStays DEF KnownInv
        <3>2. CASE todo[r].kind = "transition" /\ todo[r].file = "private"
            <4>1. Transition \in Shared
                BY DEF DurableInv
            <4>2. NextOf(Transition, todo[r], disk[r]) \in Shared
                BY <2>2, <3>2, <4>1, CommitKinds
            <4>3. /\ Transition' = NextOf(Transition, todo[r], disk[r])
                  /\ Admitted(Transition, todo[r], disk[r])
                BY <2>2, <3>2, <4>2, TransitionCommitted
            <4>4. OpsIn(Transition') = todo[r].value.ops
                BY <2>2, <3>2, <4>3, CommitAdvances
            <4>5. View(pc'[r], todo'[r], disk'[r], request'[r]) = todo[r].value
                BY <1>0, <2>2, <3>2, CommitView
            <4> QED
                BY <3>1, <4>4, <4>5 DEF InJournal
        <3>3. CASE ~ (todo[r].kind = "transition" /\ todo[r].file = "private")
            <4>1. View(pc'[r], todo'[r], disk'[r], request'[r]) = PrivateIn(disk'[r])
                BY <1>0, <2>2, <3>3, CommitView
            <4> QED
                BY <3>1, <4>1
        <3> QED BY <3>2, <3>3
    <2> QED BY <2>1, <2>2, QuietOrCommits
<1> QED
    BY <1>1, <1>2 DEF KnownInv

LEMMA IntentStep ==
    ASSUME JournalInv, ContentInv, Shape, NEW r \in Client, Local(r), Local(r)', Prepared(r),
           RunnerStep(r), DurableInv(Transition, Durable("restart"), scenario),
           DurableInv(Transition, Durable("restart"), scenario)', KnownInv, IntentInv
    PROVE  IntentInv'
<1>0. DOMAIN request = Client
    BY DEF JournalInv, RequestInv
<1>1. ASSUME \A s \in Client, o \in PrivateOp : Holds(s, o)' => Holds(s, o),
             \A o \in PrivateOp : Transition'.barriers[o] = Transition.barriers[o]
      PROVE  IntentInv'
    BY <1>1 DEF IntentInv
<1>2. CASE Quiet /\ ~ Commits(r)
    <2>1. Knows(r, Transition)
        BY DEF Knows, KnownInv
    <2>2. \A o \in PrivateOp : Holds(r, o)' => Holds(r, o)
        BY <1>0, <1>2, <2>1, QuietIntent
    <2>3. \A s \in Client, o \in PrivateOp : Holds(s, o)' => Holds(s, o)
        BY <2>2, OthersIntent
    <2> QED
        BY <1>1, <1>2, <2>3 DEF Quiet
<1>3. CASE Commits(r) /\ ~ (todo[r].kind = "transition" /\ todo[r].file = "private")
    <2>1. \A s \in Client, o \in PrivateOp : Holds(s, o)' => Holds(s, o)
        <3>1. \A o \in PrivateOp : Holds(r, o)' => Holds(r, o)
            BY <1>0, <1>3, CommitView DEF Holds, HasIntent
        <3> QED
            BY <3>1, OthersIntent
    <2>2. \A o \in PrivateOp : Transition'.barriers[o] = Transition.barriers[o]
        <3>1. CASE todo[r].kind = "restart"
            BY <1>3, <3>1, CapsuleCommitted
        <3>2. CASE todo[r].kind # "restart"
            <4>1. Transition \in Shared
                BY DEF DurableInv
            <4>2. /\ todo[r].kind = "transition" /\ todo[r].file \in FileName
                  /\ NextOf(Transition, todo[r], disk[r]) \in Shared
                BY <1>3, <3>2, <4>1, CommitKinds
            <4>3. Transition' = NextOf(Transition, todo[r], disk[r])
                BY <1>3, <4>2, TransitionCommitted
            <4> QED
                BY <1>3, <4>1, <4>2, <4>3, NormalNext DEF FileName
        <3> QED BY <3>1, <3>2
    <2> QED
        BY <1>1, <2>1, <2>2
<1>4. CASE Commits(r) /\ todo[r].kind = "transition" /\ todo[r].file = "private"
    <2>1. Transition \in Shared
        BY DEF DurableInv
    <2>2. NextOf(Transition, todo[r], disk[r]) \in Shared
        BY <1>4, <2>1, CommitKinds
    <2>3. /\ Transition' = NextOf(Transition, todo[r], disk[r])
          /\ Admitted(Transition, todo[r], disk[r])
        BY <1>4, <2>2, TransitionCommitted
    <2>4. OpsIn(Transition') = todo[r].value.ops
        BY <1>4, <2>3, CommitAdvances
    <2>5. \A o \in PrivateOp : Transition'.barriers[o] = OpsIn(Transition')[o].state
        <3>1. DurableInv(Transition', Durable("restart")', scenario')
            BY DEF DurableInv, HaveRestart, StateIn
        <3> QED
            BY <3>1, OpsInOf
    <2>6. ASSUME NEW s \in Client, NEW o \in PrivateOp, Holds(s, o)' PROVE s = r
        BY <1>4, <2>3, <2>6, NoOtherIntent, OthersIntent
    <2>7. ASSUME NEW o \in PrivateOp, Holds(r, o)' PROVE Transition'.barriers[o] = "in_flight"
        <3>1. HasIntent(o, pc'[r], todo'[r], disk'[r], request'[r])
            BY <2>7 DEF Holds
        <3>2. View(pc'[r], todo'[r], disk'[r], request'[r]) = todo[r].value
            BY <1>0, <1>4, CommitView
        <3>3. todo[r].value.ops[o].state = "in_flight"
            BY <3>1, <3>2 DEF HasIntent
        <3> QED
            BY <2>4, <2>5, <3>3
    <2> QED
        BY <2>6, <2>7 DEF IntentInv
<1> QED
    BY <1>2, <1>3, <1>4, QuietOrCommits

-----------------------------------------------------------------------------
(***************************************************************************)
(* A start is sent once: by the one runner whose intent the journal        *)
(* admitted, which has not sent it yet.                                    *)
(***************************************************************************)
CallPlaces == {"call run", "call enrich", "call"}

\* The runner is about to send, or will be when the journal confirms its intent.
AtCall(r, place) ==
    pc[r] = place \/ (Committed(pc[r], todo[r], request[r]) /\ todo[r].then = place)

MayStart(r, o) ==
    \/ o = "run" /\ AtCall(r, "call run")
    \/ o = "enrich" /\ AtCall(r, "call enrich")
    \/ /\ o \in PrivateOp /\ AtCall(r, "call")
       /\ View(pc[r], todo[r], disk[r], request[r]).ops[o].state = "in_flight"
       /\ View(pc[r], todo[r], disk[r], request[r]).ops[o].seq = 0

Once(o) ==
    /\ calls[<<o, 0>>] <= 1
    /\ Transition.barriers[o] = "none" => calls[<<o, 0>>] = 0
    /\ \A r \in Client : MayStart(r, o) =>
          /\ Transition.barriers[o] = "in_flight"
          /\ calls[<<o, 0>>] = 0
          /\ \A s \in Client : MayStart(s, o) => s = r

StartInv ==
    /\ \A o \in Op : Once(o)
    /\ \A r \in Client : pc[r] = "write" => todo[r].then \notin CallPlaces

\* Only the end of a save leads to a call.
LEMMA OnlyWriteCalls ==
    ASSUME Shape, NEW r \in Client, RunnerStep(r), pc'[r] \in CallPlaces
    PROVE  Write(r)
<1>0. DOMAIN pc = Client
    BY DEF Shape
<1> USE <1>0 DEF Goto, CallPlaces
<1>1. ASSUME NEW file, NEW value, NEW then, Save(r, file, value, then) PROVE FALSE
    BY <1>1 DEF Save
<1>2. ~ (SkipSync(r) \/ Sync(r) \/ Persist(r))
    BY DEF SkipSync, Sync, Persist, At
<1>3. ~ (Start(r) \/ Restore(r) \/ RestoreEnrich(r) \/ Stop(r))
    BY DEF Start, Restore, RestoreEnrich, Stop
<1>4. ~ (Run(r) \/ CallRun(r) \/ Enrich(r) \/ CallEnrich(r) \/ PauseEnrich(r) \/ ReadEnrich(r)
          \/ FinishEnrich(r))
    BY <1>1 DEF Run, CallRun, Enrich, CallEnrich, PauseEnrich, ReadEnrich, FinishEnrich
<1>5. ~ (Snapshot(r) \/ SnapshotHead(r) \/ SnapshotDone(r))
    BY DEF Snapshot, SnapshotHead, SnapshotDone, AfterSnapshot
<1>6. ~ (Open(r) \/ RestoreUsage(r) \/ Call(r) \/ AppendUsage(r))
    BY DEF Open, RestoreUsage, Call, AppendUsage
<1>7. ~ (RecordUsage(r) \/ Finish(r) \/ Complete(r))
    BY <1>1 DEF RecordUsage, Finish, Complete
<1>8. \A o \in PrivateOp : ~ (Begin(r, o) \/ ReserveRead(r, o) \/ LeavePending(r, o))
    BY <1>1 DEF Begin, ReserveRead, LeavePending
<1> QED
    BY <1>2, <1>3, <1>4, <1>5, <1>6, <1>7, <1>8 DEF RunnerStep, Checkpointing, Normal, Coverage

\* Only a commit makes an intent durable.
LEMMA OnlyCommitCommits ==
    ASSUME Shape, NEW r \in Client, Local(r), RunnerStep(r), ~ Commits(r), DOMAIN request = Client,
           Committed(pc[r], todo[r], request[r])'
    PROVE  FALSE
<1>0. DOMAIN pc = Client /\ DOMAIN todo = Client /\ todo \in [Client -> Todo]
    BY DEF Shape
<1>1. pc'[r] = "persist" /\ todo'[r].kind = "transition" /\ request'[r].phase = "confirm"
    BY DEF Committed
<1>2. NoRequest.phase = "none" /\ NoTodo.kind = "none"
    BY DEF NoRequest, NoTodo
<1> USE <1>0 DEF Goto
<1>3. ASSUME NEW file, NEW value, NEW then, Save(r, file, value, then) PROVE FALSE
    BY <1>1, <1>3 DEF Save
<1>4. CASE Persist(r)
    <2>1. pc[r] = "persist" /\ (Check(r, todo[r].kind, todo[r].payload) \/ Upload(r) \/ Commit(r))
        BY <1>4 DEF Persist, At
    <2>2. ~ Check(r, todo[r].kind, todo[r].payload) /\ ~ Upload(r)
        BY <1>1 DEF Check, Upload, Onward
    <2>3. Commit(r) /\ request[r].phase = "commit"
        BY <2>1, <2>2 DEF Commit
    <2>4. request[r].kind = todo[r].kind /\ request[r].payload = todo[r].payload
        BY <2>1, <2>3 DEF Local, LocalInv, RequestsInv
    <2> QED
        BY <1>4, <2>1, <2>3, <2>4 DEF Commits, Persist, Stay
<1>5. CASE SkipSync(r) \/ Sync(r)
    <2>1. pc[r] = "sync" /\ request'[r] = request[r]
        BY <1>5 DEF SkipSync, Sync, At, Load, journalVars
    <2>2. request[r] = NoRequest
        BY <2>1 DEF Local, LocalInv, RequestsInv
    <2> QED
        BY <1>1, <1>2, <2>1, <2>2
<1>6. CASE Write(r)
    BY <1>1, <1>2, <1>6 DEF Write
<1>7. CASE Start(r) \/ Restore(r) \/ RestoreEnrich(r) \/ Stop(r)
    BY <1>1, <1>7 DEF Start, Restore, RestoreEnrich, Stop
<1>8. CASE Run(r) \/ CallRun(r) \/ Enrich(r) \/ CallEnrich(r) \/ PauseEnrich(r) \/ ReadEnrich(r)
           \/ FinishEnrich(r)
    BY <1>1, <1>3, <1>8
    DEF Run, CallRun, Enrich, CallEnrich, PauseEnrich, ReadEnrich, FinishEnrich
<1>9. CASE Snapshot(r) \/ SnapshotHead(r) \/ SnapshotDone(r)
    <2>1. CASE Snapshot(r)
        BY <1>1, <2>1 DEF Snapshot, AfterSnapshot
    <2>2. CASE SnapshotHead(r)
        BY <1>1, <2>2, SnapshotHeadGoes
    <2>3. CASE SnapshotDone(r)
        BY <1>1, <2>3 DEF SnapshotDone, AfterSnapshot
    <2> QED
        BY <1>9, <2>1, <2>2, <2>3
<1>10. CASE Open(r) \/ RestoreUsage(r) \/ Call(r) \/ AppendUsage(r)
    BY <1>1, <1>10 DEF Open, RestoreUsage, Call, AppendUsage
<1>11. CASE RecordUsage(r) \/ Finish(r) \/ Complete(r)
    BY <1>1, <1>3, <1>11 DEF RecordUsage, Finish, Complete
<1>12. ASSUME NEW o \in PrivateOp, Begin(r, o) \/ ReserveRead(r, o) \/ LeavePending(r, o) PROVE FALSE
    BY <1>1, <1>3, <1>12 DEF Begin, ReserveRead, LeavePending
<1> QED
    BY <1>4, <1>5, <1>6, <1>7, <1>8, <1>9, <1>10, <1>11, <1>12
    DEF RunnerStep, Checkpointing, Normal, Coverage

LEMMA CallIsPrivate ==
    ASSUME Shape, NEW r \in Client, Local(r), pc[r] \in SavePlaces, todo[r].file \in FileName,
           todo[r].then = "call"
    PROVE  todo[r].file = "private"
<1>1. SaveInv(pc[r], todo[r], disk[r], passes[r], scenario)
    BY DEF Local, LocalInv
<1> QED
    BY <1>1 DEF SaveInv, Saves, RunPlan, EnrichPlan, FileName

\* A runner about to send a probe is live.
LEMMA CallIsLive ==
    ASSUME NEW c, NEW t, NEW d, NEW n, NEW q, NEW sc, LocalInv(c, t, d, n, q, sc),
           c = "call" \/ (Committed(c, t, q) /\ t.then = "call")
    PROVE  Live(c, t)
<1>1. CASE c = "call"
    BY <1>1 DEF Live, Working
<1>2. CASE Committed(c, t, q) /\ t.then = "call"
    <2>1. c = "persist" /\ t.kind = "transition" /\ t.file \in FileName
        BY <1>2 DEF Committed, LocalInv, PlaceInv
    <2>2. SaveInv(c, t, d, n, sc)
        BY DEF LocalInv
    <2> QED
        BY <1>2, <2>1, <2>2 DEF SaveInv, Saves, SavePlaces, RunPlan, EnrichPlan, FileName, Live
<1> QED
    BY <1>1, <1>2

\* Without a commit no start becomes possible.
LEMMA StartStays ==
    ASSUME Shape, NEW r \in Client, Local(r), RunnerStep(r), ~ Commits(r),
           DOMAIN request = Client, pc[r] = "write" => todo[r].then \notin CallPlaces,
           NEW o, MayStart(r, o)'
    PROVE  MayStart(r, o) /\ calls' = calls
<1>1. ~ Committed(pc[r], todo[r], request[r])'
    BY OnlyCommitCommits
<1>2. \A place \in CallPlaces : AtCall(r, place)' => pc'[r] = place
    BY <1>1 DEF AtCall
<1>3. pc'[r] \in CallPlaces /\ Write(r)
    BY <1>2, OnlyWriteCalls DEF MayStart, CallPlaces
<1>4. /\ pc[r] \in SavePlaces /\ Done(pc[r], todo[r], request[r])
      /\ todo[r].file \in FileName
      /\ pc'[r] = todo[r].then /\ todo'[r].file = "none"
      /\ todo[r].file = "private" => PrivateIn(disk'[r]) = todo[r].value
    BY <1>3, WriteEnds
<1>5. Committed(pc[r], todo[r], request[r])
    BY <1>3, <1>4 DEF Done
<1>6. \A place \in CallPlaces : AtCall(r, place)' => AtCall(r, place)
    BY <1>2, <1>4, <1>5 DEF AtCall
<1>7. ASSUME pc'[r] = "call"
      PROVE  View(pc'[r], todo'[r], disk'[r], request'[r]) = View(pc[r], todo[r], disk[r], request[r])
    <2>1. todo[r].file = "private"
        BY <1>4, <1>7, CallIsPrivate
    <2>2. View(pc[r], todo[r], disk[r], request[r]) = todo[r].value
        BY <1>4, <2>1 DEF View, Saves
    <2>3. View(pc'[r], todo'[r], disk'[r], request'[r]) = PrivateIn(disk'[r])
        BY <1>4 DEF View, Saves
    <2> QED
        BY <1>4, <2>1, <2>2, <2>3
<1>8. MayStart(r, o)
    BY <1>2, <1>6, <1>7 DEF MayStart, CallPlaces
<1> QED
    BY <1>3, <1>8 DEF Write

LEMMA OthersStart ==
    ASSUME JournalInv, Shape, NEW r \in Client, RunnerStep(r), NEW s \in Client, s # r, NEW o
    PROVE  MayStart(s, o)' <=> MayStart(s, o)
<1>1. /\ pc'[s] = pc[s] /\ todo'[s] = todo[s] /\ disk'[s] = disk[s] /\ request'[s] = request[s]
    BY FrameOf, KeepsConversations DEF Frame
<1>2. \A place \in CallPlaces : AtCall(s, place)' <=> AtCall(s, place)
    BY <1>1 DEF AtCall
<1>3. View(pc'[s], todo'[s], disk'[s], request'[s]) = View(pc[s], todo[s], disk[s], request[s])
    BY <1>1
<1> QED
    BY <1>2, <1>3 DEF MayStart, CallPlaces

\* The steps that send.
LEMMA WhoSends ==
    ASSUME NEW r \in Client, RunnerStep(r)
    PROVE  calls' = calls \/ CallRun(r) \/ CallEnrich(r) \/ ReadEnrich(r) \/ Call(r)
BY DEF RunnerStep, Checkpointing, Normal, Coverage, SkipSync, Sync, Persist, Write, Start, Restore,
       RestoreEnrich, Run, Enrich, PauseEnrich, FinishEnrich, Snapshot, SnapshotHead,
       SnapshotDone, Open, RestoreUsage, Begin, ReserveRead, LeavePending, AppendUsage,
       RecordUsage, Finish, Complete, Stop, Stay

\* A start is counted once, and nothing else counts as a start.
LEMMA StartCounted ==
    ASSUME Shape, NEW r \in Client, Local(r), RunnerStep(r), NEW o \in Op,
           calls'[<<o, 0>>] # calls[<<o, 0>>]
    PROVE  MayStart(r, o) /\ calls'[<<o, 0>>] = (IF calls[<<o, 0>>] = 0 THEN 1 ELSE 2)
<1>0. calls \in Counts /\ <<o, 0>> \in Dispatch /\ disk[r] \in Files
    BY ShapeOf, PassesAssumption DEF Shape, TypeOK, Counts, Dispatch
<1>1. ASSUME NEW x, Send(x)
      PROVE  x = <<o, 0>> /\ calls'[<<o, 0>>] = (IF calls[<<o, 0>>] = 0 THEN 1 ELSE 2)
    BY <1>0, <1>1 DEF Send, Counts
<1>2. CASE CallRun(r)
    <2>1. pc[r] = "call run" /\ Send(<<"run", 0>>)
        BY <1>2 DEF CallRun, At
    <2>2. <<"run", 0>> = <<o, 0>> /\ calls'[<<o, 0>>] = (IF calls[<<o, 0>>] = 0 THEN 1 ELSE 2)
        BY <1>1, <2>1
    <2> QED
        BY <2>1, <2>2 DEF MayStart, AtCall
<1>3. CASE CallEnrich(r)
    <2>1. pc[r] = "call enrich" /\ Send(<<"enrich", 0>>)
        BY <1>3 DEF CallEnrich, At
    <2>2. <<"enrich", 0>> = <<o, 0>> /\ calls'[<<o, 0>>] = (IF calls[<<o, 0>>] = 0 THEN 1 ELSE 2)
        BY <1>1, <2>1
    <2> QED
        BY <2>1, <2>2 DEF MayStart, AtCall
<1>4. CASE ReadEnrich(r)
    <2>0. pc[r] = "read enrich" /\ Send(<<"enrich", disk[r].enrich.reads>>)
        BY <1>4 DEF ReadEnrich, At
    <2>1. <<"enrich", disk[r].enrich.reads>> = <<o, 0>>
        BY <1>1, <2>0
    <2>2. disk[r].enrich.reads > 0 /\ disk[r].enrich.reads \in 0 .. ReadLimit
        BY <1>0, <2>0 DEF Local, LocalInv, NormalInv, Files, EnrichFile
    <2>3. disk[r].enrich.reads # 0
        BY <2>2
    <2> QED
        BY <2>1, <2>3
<1>5. CASE Call(r)
    <2>1. pc[r] = "call" /\ Current(r) = o /\ Entry(r, o).seq = 0
        BY <1>1, <1>5 DEF Call, At
    <2>2. o \in PrivateOp /\ WorksOn(o, pc[r], disk[r])
        BY <2>1, CurrentIs DEF Working
    <2>3. View(pc[r], todo[r], disk[r], request[r]) = PrivateIn(disk[r]) /\ Private(r) = PrivateIn(disk[r])
        BY <2>1 DEF View, Saves, SavePlaces, Private, PrivateIn
    <2>4. PrivateIn(disk[r]).ops[o].state = "in_flight"
        BY <2>2 DEF WorksOn
    <2>5. calls'[<<o, 0>>] = (IF calls[<<o, 0>>] = 0 THEN 1 ELSE 2)
        BY <1>1, <1>5 DEF Call
    <2> QED
        BY <2>1, <2>2, <2>3, <2>4, <2>5 DEF MayStart, AtCall, Entry
<1>6. CASE calls' = calls
    BY <1>6
<1> QED
    BY <1>2, <1>3, <1>4, <1>5, <1>6, WhoSends

\* What a save of the enrichment does to the barriers.
LEMMA EnrichBarriers ==
    ASSUME NEW T \in Shared, NEW t, NEW d, t.file = "enrich", t.value \in EnrichFile,
           t.value.status # "none", d.run = "completed", NEW o \in Op
    PROVE  NextOf(T, t, d).barriers[o] =
              IF o = "enrich" /\ t.value.op # "none" THEN t.value.op ELSE T.barriers[o]
<1> DEFINE now == Operations("enrich", t.value)
           barriers == [x \in Op |-> IF x \in DOMAIN now THEN now[x] ELSE T.barriers[x]]
<1>1. /\ DOMAIN now = IF t.value.op = "none" THEN {} ELSE {"enrich"}
      /\ t.value.op # "none" => now["enrich"] = t.value.op
    BY EnrichOperations
<1>2. NextOf(T, t, d).barriers = barriers
    BY DEF NextOf
<1> HIDE DEF now
<1>3. barriers[o] = IF o = "enrich" /\ t.value.op # "none" THEN t.value.op ELSE T.barriers[o]
    BY <1>1
<1> QED
    BY <1>2, <1>3

\* What a commit does to the barriers: it takes none back, and moves those of
\* the normal stages only to what the runner did.
LEMMA BarriersMove ==
    ASSUME JournalInv, ContentInv, Shape, NEW r \in Client, Local(r), Prepared(r), Commits(r),
           todo[r].kind # "restart", DurableInv(Transition, Durable("restart"), scenario), EarnedInv
    PROVE  LET T == Transition N == Transition' t == todo[r] IN
           /\ Admitted(T, t, disk[r])
           /\ t.file \in FileName
           /\ \A o \in Op : T.barriers[o] # "none" => N.barriers[o] # "none"
           /\ \/ N.barriers["run"] = T.barriers["run"] /\ t.then # "call run"
              \/ N.barriers["run"] = "in_flight" /\ t.then = "call run"
              \/ /\ N.barriers["run"] = "completed" /\ t.then # "call run"
                 /\ calls[<<"run", 0>>] # 0
           /\ \/ N.barriers["enrich"] = T.barriers["enrich"] /\ t.then # "call enrich"
              \/ N.barriers["enrich"] = "in_flight" /\ t.then = "call enrich"
              \/ /\ N.barriers["enrich"] \in {"pending", "completed"} /\ t.then # "call enrich"
                 /\ calls[<<"enrich", 0>>] # 0
<1> DEFINE T == Transition
           N == Transition'
           t == todo[r]
           d == disk[r]
<1>1. T \in Shared
    BY DEF DurableInv
<1>2. /\ t.kind = "transition" /\ t.file \in FileName
      /\ SaveInv("sync", t, d, passes[r], scenario)
      /\ NextOf(T, t, d) \in Shared
    BY <1>1, CommitKinds
<1>3. N = NextOf(T, t, d) /\ Admitted(T, t, d)
    BY <1>2, TransitionCommitted
<1>4. pc[r] = "persist" /\ d \in Files /\ NormalEarned(pc[r], t, d, calls)
    BY ShapeOf DEF Commits, EarnedInv
<1>8. calls[<<"run", 0>>] \in 0 .. 2 /\ calls[<<"enrich", 0>>] \in 0 .. 2
    BY PassesAssumption DEF Shape, TypeOK, Dispatch, Op
<1>5. CASE t.file = "run"
    <2>1. RunPlan(t, d) /\ t.value \in RunFile
        BY <1>2, <1>5 DEF SaveInv, Saves, SavePlaces, RunPlan, RunFile
    <2>2. \A o \in Op : N.barriers[o] = IF o = "run" /\ t.value # "none" THEN t.value
                                                                       ELSE T.barriers[o]
        BY <1>1, <1>3, <1>5, <2>1, NextOfRun
    <2>3. t.then = "enrich" => calls[<<"run", 0>>] # 0
        <3>1. t.then = "enrich" => calls[<<"run", 0>>] >= 1
            BY <1>4, <1>5 DEF NormalEarned, Saves, SavePlaces
        <3> QED
            BY <1>8, <3>1
    <2> HIDE DEF t, T, N, d
    <2> QED
        BY <1>2, <1>3, <2>1, <2>2, <2>3 DEF RunPlan, Op, T, N, t, d
<1>6. CASE t.file = "enrich"
    <2>1. EnrichPlan(t, d)
        BY <1>2, <1>6 DEF SaveInv, Saves, SavePlaces
    <2>2. \A o \in Op : N.barriers[o] = IF o = "enrich" /\ t.value.op # "none" THEN t.value.op
                                                                             ELSE T.barriers[o]
        <3>1. t.value \in EnrichFile /\ t.value.status # "none" /\ d.run = "completed"
            BY <2>1 DEF EnrichPlan
        <3>2. ASSUME NEW o \in Op
              PROVE  NextOf(T, t, d).barriers[o] =
                        IF o = "enrich" /\ t.value.op # "none" THEN t.value.op ELSE T.barriers[o]
            BY <1>1, <1>6, <3>1, EnrichBarriers
        <3> QED
            BY <1>3, <3>2
    <2>3. t.value.op \in {"pending", "completed"} => calls[<<"enrich", 0>>] # 0
        <3>1. t.value.op \in {"pending", "completed"} => calls[<<"enrich", 0>>] >= 1
            BY <1>4, <1>6 DEF NormalEarned, Saves, SavePlaces, Sent
        <3> QED
            BY <1>8, <3>1
    <2>4. /\ t.value.op \in {"none", "in_flight", "pending", "completed"}
          /\ t.value.op = "in_flight" <=> t.then = "call enrich"
          /\ t.then # "call run"
        BY <2>1 DEF EnrichPlan, EnrichFile, StateName
    <2> HIDE DEF t, T, N, d
    <2> QED
        BY <1>2, <1>3, <2>2, <2>3, <2>4 DEF Op, T, N, t, d
<1>7. CASE t.file = "private"
    <2>1. PrivatePlan(t, d, passes[r], scenario) /\ t.value \in PrivateFile
        BY <1>2, <1>7 DEF SaveInv, Saves, SavePlaces, PrivatePlan
    <2>2. /\ \A o \in {"run", "enrich"} : N.barriers[o] = T.barriers[o]
          /\ \A o \in PrivateOp : N.barriers[o] = IF t.value.ops[o].state = "none"
                                                  THEN T.barriers[o] ELSE t.value.ops[o].state
        <3>1. d.usage \in Usage
            BY <1>4 DEF Files
        <3>2. T \in Shared /\ t.file = "private" /\ t.value \in PrivateFile
            BY <1>1, <1>7, <2>1
        <3> HIDE DEF t, T, d
        <3> QED
            BY <1>3, <3>1, <3>2, NextOfPrivate
    <2>3. t.then \notin {"call run", "call enrich"}
        BY <2>1 DEF PrivatePlan, PlanFor
    <2> HIDE DEF t, T, N, d
    <2> QED
        BY <1>2, <1>3, <2>2, <2>3 DEF Op, T, N, t, d
<1> QED
    BY <1>2, <1>5, <1>6, <1>7 DEF FileName

\* A start that a commit makes possible is of an operation the journal had none of.
LEMMA NewStart ==
    ASSUME JournalInv, ContentInv, Shape, NEW r \in Client, Local(r), Prepared(r), Commits(r),
           DurableInv(Transition, Durable("restart"), scenario), EarnedInv, IntentInv',
           Shape', Local(r)', NEW o \in Op, MayStart(r, o)'
    PROVE  Transition.barriers[o] = "none" /\ Transition'.barriers[o] = "in_flight"
<1> DEFINE t == todo[r]
<1>0. DOMAIN request = Client
    BY DEF JournalInv, RequestInv
<1>1. /\ pc[r] = "persist" /\ pc'[r] = "persist" /\ todo'[r] = t
      /\ t.kind = "transition"
      /\ \A place \in CallPlaces : AtCall(r, place)' => t.then = place
    BY DEF Commits, AtCall, Committed, CallPlaces, MayStart
<1>2. /\ Admitted(Transition, t, disk[r]) /\ t.file \in FileName /\ pc[r] \in SavePlaces
      /\ t.then = "call run" => Transition'.barriers["run"] = "in_flight"
      /\ t.then = "call enrich" => Transition'.barriers["enrich"] = "in_flight"
    BY <1>1, BarriersMove DEF SavePlaces
<1>3. CASE o = "run"
    <2>1. t.then = "call run"
        BY <1>1, <1>3 DEF MayStart, CallPlaces, PrivateOp
    <2> QED
        BY <1>2, <1>3, <2>1, StartsAdmitted
<1>4. CASE o = "enrich"
    <2>1. t.then = "call enrich"
        BY <1>1, <1>4 DEF MayStart, CallPlaces, PrivateOp
    <2> QED
        BY <1>2, <1>4, <2>1, StartsAdmitted
<1>5. CASE o \in PrivateOp
    <2>1. /\ t.then = "call"
          /\ View(pc'[r], todo'[r], disk'[r], request'[r]).ops[o].state = "in_flight"
          /\ View(pc'[r], todo'[r], disk'[r], request'[r]).ops[o].seq = 0
        BY <1>1, <1>5 DEF MayStart, CallPlaces, PrivateOp
    <2>2. t.file = "private"
        BY <1>2, <2>1, CallIsPrivate
    <2>3. View(pc'[r], todo'[r], disk'[r], request'[r]) = t.value
        BY <1>0, <1>1, <2>2, CommitView
    <2>4. Transition.barriers[o] = "none"
        <3>1. PICK x \in PrivateOp :
                 /\ t.value.ops[x].seq = 0 => Transition.barriers[x] = "none"
                 /\ \A y \in PrivateOp \ {x} : t.value.ops[y].state # "in_flight"
            BY <1>2, <2>1, StartsAdmitted
        <3>2. x = o
            BY <1>5, <2>1, <2>3, <3>1
        <3> QED
            BY <2>1, <2>3, <3>1, <3>2
    <2>5. Holds(r, o)'
        <3>1. HasIntent(o, pc'[r], todo'[r], disk'[r], request'[r])
            BY <1>1, <2>1, <2>2 DEF HasIntent, Live, Saves, SavePlaces
        <3> QED
            BY <3>1 DEF Holds
    <2>6. Transition'.barriers[o] = "in_flight"
        BY <1>5, <2>5 DEF IntentInv
    <2> QED
        BY <2>4, <2>6
<1> QED
    BY <1>3, <1>4, <1>5 DEF Op

\* A save ends without a call when the journal had nothing to learn from it.
LEMMA WriteBegins ==
    ASSUME Shape, NEW r \in Client, Local(r), RunnerStep(r), pc'[r] = "write"
    PROVE  (SkipSync(r) \/ Sync(r)) /\ todo' = todo
<1>0. DOMAIN pc = Client
    BY DEF Shape
<1> USE <1>0 DEF Goto
<1>1. ASSUME NEW file, NEW value, NEW then, Save(r, file, value, then) PROVE FALSE
    BY <1>1 DEF Save
<1>2. ~ Persist(r)
    BY DEF Persist, At
<1>3. ~ Write(r)
    <2>1. ASSUME Write(r) PROVE FALSE
        <3>1. pc'[r] \in Stages \cup {"snapshot"} \cup {"call", "settle", "open", "decide", "off"}
            BY <2>1, WriteEnds
        <3> QED
            BY <3>1 DEF Stages
    <2> QED BY <2>1
<1>4. ~ (Start(r) \/ Restore(r) \/ RestoreEnrich(r) \/ Stop(r))
    BY DEF Start, Restore, RestoreEnrich, Stop
<1>5. ~ (Run(r) \/ CallRun(r) \/ Enrich(r) \/ CallEnrich(r) \/ PauseEnrich(r) \/ ReadEnrich(r)
          \/ FinishEnrich(r))
    BY <1>1 DEF Run, CallRun, Enrich, CallEnrich, PauseEnrich, ReadEnrich, FinishEnrich
<1>6. ~ (Snapshot(r) \/ SnapshotHead(r) \/ SnapshotDone(r))
    BY DEF Snapshot, SnapshotHead, SnapshotDone, AfterSnapshot
<1>7. ~ (Open(r) \/ RestoreUsage(r) \/ Call(r) \/ AppendUsage(r))
    BY DEF Open, RestoreUsage, Call, AppendUsage
<1>8. ~ (RecordUsage(r) \/ Finish(r) \/ Complete(r))
    BY <1>1 DEF RecordUsage, Finish, Complete
<1>9. \A o \in PrivateOp : ~ (Begin(r, o) \/ ReserveRead(r, o) \/ LeavePending(r, o))
    BY <1>1 DEF Begin, ReserveRead, LeavePending
<1>10. SkipSync(r) \/ Sync(r)
    BY <1>2, <1>3, <1>4, <1>5, <1>6, <1>7, <1>8, <1>9
    DEF RunnerStep, Checkpointing, Normal, Coverage
<1>11. todo' = todo
    BY <1>10 DEF SkipSync, Sync
<1> QED
    BY <1>10, <1>11

LEMMA StartStep ==
    ASSUME JournalInv, ContentInv, Shape, Shape', \A s \in Client : Local(s) /\ Prepared(s),
           \A s \in Client : Local(s)', NEW r \in Client, RunnerStep(r),
           DurableInv(Transition, Durable("restart"), scenario), IntentInv', EarnedInv, StartInv
    PROVE  StartInv'
<1>0. DOMAIN request = Client /\ DOMAIN pc = Client
    BY DEF JournalInv, RequestInv, Shape
<1>1. calls \in Counts /\ \A o \in Op : <<o, 0>> \in Dispatch /\ calls[<<o, 0>>] \in 0 .. 2
    BY PassesAssumption DEF Shape, TypeOK, Counts, Dispatch
<1>2. ASSUME NEW o \in Op
      PROVE  Transition.barriers[o] # "none" => Transition'.barriers[o] # "none"
    <2>1. CASE Quiet
        BY <2>1 DEF Quiet
    <2>2. CASE Commits(r) /\ todo[r].kind = "restart"
        BY <2>2, CapsuleCommitted
    <2>3. CASE Commits(r) /\ todo[r].kind # "restart"
        BY <2>3, BarriersMove
    <2> QED BY <2>1, <2>2, <2>3, QuietOrCommits
<1>3. ASSUME NEW o \in Op, calls'[<<o, 0>>] # calls[<<o, 0>>]
      PROVE  MayStart(r, o) /\ calls'[<<o, 0>>] = 1 /\ Transition.barriers[o] = "in_flight"
    BY <1>3, StartCounted DEF StartInv, Once
<1>4. ASSUME NEW o \in Op, NEW s \in Client, MayStart(s, o)', ~ MayStart(s, o)
      PROVE  /\ s = r /\ Commits(r)
             /\ Transition.barriers[o] = "none" /\ Transition'.barriers[o] = "in_flight"
    <2>1. s = r
        BY <1>4, OthersStart
    <2>2. Commits(r)
        BY <1>0, <1>4, <2>1, StartStays DEF StartInv
    <2> QED
        BY <1>4, <2>1, <2>2, NewStart
<1>5. ASSUME NEW o \in Op, NEW s \in Client, MayStart(s, o)', MayStart(s, o)
      PROVE  calls'[<<o, 0>>] = calls[<<o, 0>>] /\ Transition'.barriers[o] = "in_flight"
    <2>1. calls[<<o, 0>>] = 0 /\ Transition.barriers[o] = "in_flight"
        BY <1>5 DEF StartInv, Once
    <2>2. calls'[<<o, 0>>] = calls[<<o, 0>>]
        <3>1. SUFFICES ASSUME calls'[<<o, 0>>] # calls[<<o, 0>>] PROVE FALSE
            OBVIOUS
        <3>2. MayStart(r, o) /\ s = r
            BY <1>3, <1>5, <3>1 DEF StartInv, Once
        <3>3. ~ Commits(r)
            BY <3>1 DEF Commits
        <3> QED
            BY <1>0, <1>5, <3>1, <3>2, <3>3, StartStays DEF StartInv
    <2>3. Transition'.barriers[o] = "in_flight"
        <3>1. CASE Quiet
            BY <2>1, <3>1 DEF Quiet
        <3>2. CASE Commits(r) /\ todo[r].kind = "restart"
            BY <2>1, <3>2, CapsuleCommitted
        <3>3. CASE o \in PrivateOp
            <4>1. Holds(s, o)'
                <5>1. /\ AtCall(s, "call")'
                      /\ View(pc'[s], todo'[s], disk'[s], request'[s]).ops[o].state = "in_flight"
                    BY <1>5, <3>3 DEF MayStart, PrivateOp
                <5>2. LocalInv(pc'[s], todo'[s], disk'[s], passes'[s], request'[s], scenario')
                    BY DEF Local
                <5>3. Live(pc'[s], todo'[s])
                    BY <5>1, <5>2, CallIsLive DEF AtCall
                <5>4. HasIntent(o, pc'[s], todo'[s], disk'[s], request'[s])
                    BY <5>1, <5>3 DEF HasIntent
                <5> QED
                    BY <5>4 DEF Holds
            <4> QED
                BY <3>3, <4>1 DEF IntentInv
        <3>4. CASE Commits(r) /\ todo[r].kind # "restart" /\ o \in {"run", "enrich"}
            <4>1. /\ Admitted(Transition, todo[r], disk[r]) /\ todo[r].file \in FileName
                  /\ pc[r] \in SavePlaces
                BY <3>4, BarriersMove DEF Commits, SavePlaces
            <4>2. /\ o = "run" => todo[r].then # "call run"
                  /\ o = "enrich" => todo[r].then # "call enrich"
                BY <2>1, <4>1, StartsAdmitted
            <4>3. CASE o = "run"
                BY <2>1, <3>4, <4>2, <4>3, BarriersMove
            <4>4. CASE o = "enrich"
                BY <2>1, <3>4, <4>2, <4>4, BarriersMove
            <4> QED BY <3>4, <4>3, <4>4
        <3> QED
            BY <3>1, <3>2, <3>3, <3>4, QuietOrCommits DEF Op
    <2> QED BY <2>2, <2>3
<1>6. ASSUME NEW o \in Op PROVE Once(o)'
    <2>1. calls'[<<o, 0>>] <= 1
        <3>1. calls[<<o, 0>>] <= 1
            BY DEF StartInv, Once
        <3> QED
            BY <1>3, <3>1
    <2>2. Transition'.barriers[o] = "none" => calls'[<<o, 0>>] = 0
        <3>1. Transition.barriers[o] = "none" => calls[<<o, 0>>] = 0
            BY DEF StartInv, Once
        <3> QED
            BY <1>2, <1>3, <3>1
    <2>3. ASSUME NEW s \in Client, MayStart(s, o)'
          PROVE  /\ Transition'.barriers[o] = "in_flight"
                 /\ calls'[<<o, 0>>] = 0
                 /\ \A x \in Client : MayStart(x, o)' => x = s
        <3>1. CASE MayStart(s, o)
            <4>1. /\ calls[<<o, 0>>] = 0 /\ Transition.barriers[o] = "in_flight"
                  /\ \A x \in Client : MayStart(x, o) => x = s
                BY <3>1 DEF StartInv, Once
            <4>2. \A x \in Client : MayStart(x, o)' => MayStart(x, o)
                BY <1>4, <4>1
            <4> QED
                BY <1>5, <2>3, <3>1, <4>1, <4>2
        <3>2. CASE ~ MayStart(s, o)
            <4>1. /\ s = r /\ Commits(r)
                  /\ Transition.barriers[o] = "none" /\ Transition'.barriers[o] = "in_flight"
                BY <1>4, <2>3, <3>2
            <4>2. calls[<<o, 0>>] = 0 /\ \A x \in Client : ~ MayStart(x, o)
                BY <4>1 DEF StartInv, Once
            <4> QED
                BY <1>4, <4>1, <4>2 DEF Commits
        <3> QED BY <3>1, <3>2
    <2> QED
        BY <2>1, <2>2, <2>3 DEF Once
<1>7. ASSUME NEW s \in Client, pc'[s] = "write" PROVE todo'[s].then \notin CallPlaces
    <2>1. CASE s # r
        BY <1>7, <2>1, FrameOf DEF Frame, StartInv
    <2>2. CASE s = r
        BY <1>0, <1>7, <2>2, WriteBegins, NothingNew DEF CallPlaces
    <2> QED BY <2>1, <2>2
<1> QED
    BY <1>6, <1>7 DEF StartInv

-----------------------------------------------------------------------------
(***************************************************************************)
(* The invariant of the canary.                                            *)
(***************************************************************************)
CanaryInv ==
    /\ JournalInv /\ ContentInv
    /\ Shape
    /\ \A r \in Client : Local(r) /\ Prepared(r)
    /\ DurableInv(Transition, Durable("restart"), scenario)
    /\ RestartKnown /\ RestartInv
    /\ KnownInv /\ IntentInv
    /\ EarnedInv
    /\ StartInv

LEMMA CanaryInit == Init => CanaryInv
<1> SUFFICES ASSUME Init PROVE CanaryInv
    OBVIOUS
<1>1. JournalInv /\ ContentInv
    BY InitInv, InitContent DEF Init
<1>2. /\ head.restart = 0 /\ Durable("transition") = NoPayload /\ Durable("restart") = NoPayload
      /\ \A r \in Client : request[r] = NoRequest
    BY DEF Init, JournalInit, EmptyHead, Durable, Latest
<1>3. Transition = EmptyTransition
    BY <1>2 DEF Transition
<1>4. /\ \A r \in Client : /\ pc[r] = "off" /\ todo[r] = NoTodo /\ disk[r] = NewDisk
                           /\ passes[r] = 0
      /\ \A x \in Dispatch : calls[x] = 0
    BY DEF Init
<1>5. NoTodo.file = "none" /\ NoTodo.kind = "none" /\ NewDisk.private = NoFile /\ NewDisk.enrich.op = "none"
    BY DEF NoTodo, NewDisk, NewEnrich
<1>6. NoTodo \in Todo
    BY NoTodoTyped
<1>7. Shape
    <2>1. NewDisk \in Files
        BY PassesAssumption DEF NewDisk, Files, NewRun, NewEnrich, RunFile, EnrichFile, Usage
    <2>2. MaxPasses \in Nat /\ MaxStarts \in Nat
        BY PassesAssumption
    <2>3. /\ passes \in [Client -> 0 .. MaxPasses] /\ starts \in 0 .. MaxStarts
          /\ calls \in [Dispatch -> 0 .. 2]
        BY <2>2 DEF Init
    <2>4. disk \in [Client -> Files] /\ pc \in [Client -> Places] /\ todo \in [Client -> Todo]
        BY <1>6, <2>1 DEF Init, Places
    <2> QED
        BY <2>3, <2>4 DEF Shape, TypeOK, Files
<1>8. ASSUME NEW r \in Client PROVE Local(r) /\ Prepared(r)
    <2>1. PlaceInv(pc[r], todo[r], disk[r]) /\ RequestsInv(pc[r], todo[r], request[r])
        BY <1>2, <1>4, <1>5 DEF PlaceInv, RequestsInv
    <2>2. NormalInv(pc[r], todo[r], disk[r], passes[r])
        BY <1>4 DEF NormalInv, Stages, SavePlaces
    <2>3. SaveInv(pc[r], todo[r], disk[r], passes[r], scenario)
        BY <1>4 DEF SaveInv, Saves, SavePlaces
    <2>4. CoverageInv(pc[r], todo[r], disk[r], passes[r], scenario)
        BY <1>4 DEF CoverageInv, Working
    <2> QED
        BY <1>4, <2>1, <2>2, <2>3, <2>4 DEF Local, LocalInv, Prepared, PreparedInv
<1>9. DurableInv(Transition, Durable("restart"), scenario)
    <2>1. EmptyTransition \in Shared /\ EmptyTransition.private = NoPayload
        BY DEF EmptyTransition, Shared
    <2>2. \A o \in PrivateOp : EmptyTransition.barriers[o] = "none"
        BY DEF EmptyTransition, Op
    <2> QED
        BY <1>2, <1>3, <2>1, <2>2 DEF DurableInv, StateIn
<1>10. RestartKnown /\ RestartInv
    BY <1>2, <1>4 DEF RestartKnown, RestartInv, Covers, Working, Saves, SavePlaces
<1>11. \A r \in Client : /\ PrivateIn(disk[r]) = NewPrivate
                         /\ View(pc[r], todo[r], disk[r], request[r]) = NewPrivate
                         /\ ~ Live(pc[r], todo[r])
    BY <1>4, <1>5 DEF PrivateIn, View, Live, Saves, SavePlaces, Working
<1>12. \A o \in PrivateOp : NewPrivate.ops[o].state = "none"
    BY NewPrivateTyped DEF Absent
<1>13. KnownInv /\ IntentInv
    BY <1>11, <1>12 DEF KnownInv, InJournal, IntentInv, Holds, HasIntent
<1>14. EarnedInv
    <2>1. OpsEarned(NewPrivate.ops, calls)
        BY <1>12 DEF OpsEarned, EntryEarned
    <2>2. /\ EmptyTransition.private = NoPayload /\ EmptyTransition.restart = NoPayload
          /\ OpsIn(EmptyTransition) = NewPrivate.ops
        BY DEF EmptyTransition, OpsIn
    <2>3. JournalEarned(Transition, Durable("restart"), calls)
        BY <1>2, <1>3, <2>1, <2>2 DEF JournalEarned
    <2>4. ASSUME NEW r \in Client
          PROVE  /\ NormalEarned(pc[r], todo[r], disk[r], calls)
                 /\ ProbesEarned(pc[r], todo[r], disk[r], calls)
        BY <1>4, <1>5, <1>11, <2>1
        DEF NormalEarned, ProbesEarned, Sent, Saves, SavePlaces, Working
    <2> QED
        BY <2>3, <2>4 DEF EarnedInv
<1>15. StartInv
    <2>1. \A o \in Op : calls[<<o, 0>>] = 0
        BY <1>4, PassesAssumption DEF Dispatch
    <2>2. \A r \in Client, o \in Op : ~ MayStart(r, o)
        BY <1>4 DEF MayStart, AtCall, Committed
    <2> QED
        BY <1>4, <2>1, <2>2 DEF StartInv, Once
<1> QED
    BY <1>1, <1>7, <1>8, <1>9, <1>10, <1>13, <1>14, <1>15 DEF CanaryInv

LEMMA CanaryStutter ==
    ASSUME CanaryInv, UNCHANGED vars
    PROVE  CanaryInv'
<1>1. /\ UNCHANGED journalVars
      /\ disk' = disk /\ pc' = pc /\ todo' = todo /\ passes' = passes /\ starts' = starts
      /\ scenario' = scenario /\ calls' = calls
    BY DEF vars, canaryVars
<1>2. /\ names' = names /\ stored' = stored /\ head' = head /\ expected' = expected
      /\ request' = request
    BY <1>1 DEF journalVars
<1>3. JournalInv'
    BY <1>1, StutterInv DEF CanaryInv
<1>4. ContentInv'
    BY <1>2 DEF CanaryInv, ContentInv, Owns
<1>5. Shape'
    BY <1>1 DEF CanaryInv, Shape, TypeOK
<1>6. Transition' = Transition /\ Durable("restart")' = Durable("restart")
    BY <1>2 DEF Transition, Durable, Latest
<1>7. \A r \in Client : Local(r)' /\ Prepared(r)'
    BY <1>1, <1>2, <1>6 DEF CanaryInv, Local, Prepared
<1>8. DurableInv(Transition, Durable("restart"), scenario)'
    BY <1>1, <1>6 DEF CanaryInv, DurableInv, HaveRestart, StateIn
<1>9. RestartKnown' /\ RestartInv'
    BY <1>1, <1>2, <1>6 DEF CanaryInv, RestartKnown, RestartInv, HaveRestart
<1>10. KnownInv' /\ IntentInv'
    BY <1>1, <1>2, <1>6 DEF CanaryInv, KnownInv, IntentInv, Holds
<1>11. EarnedInv'
    BY <1>1, <1>6 DEF CanaryInv, EarnedInv, JournalEarned
<1>12. StartInv'
    <2>1. \A r \in Client, o \in Op : MayStart(r, o)' <=> MayStart(r, o)
        BY <1>1, <1>2 DEF MayStart, AtCall
    <2> QED
        BY <1>1, <1>6, <2>1 DEF CanaryInv, StartInv, Once
<1> QED
    BY <1>3, <1>4, <1>5, <1>7, <1>8, <1>9, <1>10, <1>11, <1>12 DEF CanaryInv

LEMMA CanaryStep ==
    ASSUME CanaryInv, NEW r \in Client, RunnerStep(r)
    PROVE  /\ CanaryInv'
           /\ Advances(Transition, Transition')
<1>1. /\ JournalInv /\ ContentInv /\ Shape
      /\ \A s \in Client : Local(s) /\ Prepared(s)
      /\ DurableInv(Transition, Durable("restart"), scenario)
      /\ RestartKnown /\ RestartInv /\ KnownInv /\ IntentInv /\ EarnedInv /\ StartInv
      /\ Transition \in Shared
    BY DEF CanaryInv, DurableInv
<1>2. JournalInv' /\ ContentInv'
    <2>1. CASE AnyStep(r)
        BY <1>1, <2>1, StepInv, StepContent
    <2>2. CASE UNCHANGED journalVars
        <3>1. JournalInv'
            BY <1>1, <2>2, StutterInv
        <3>2. ContentInv'
            BY <1>1, <2>2 DEF journalVars, ContentInv, Owns
        <3> QED BY <3>1, <3>2
    <2> QED BY <2>1, <2>2, JournalOfRunner
<1>3. Shape' /\ \A s \in Client : Local(s)'
    BY <1>1, LocalStep
<1>4. \A s \in Client : Prepared(s)'
    BY <1>1, PreparedStep
<1>5. /\ DurableInv(Transition, Durable("restart"), scenario)'
      /\ Advances(Transition, Transition')
    BY <1>1, DurableStep
<1>6. RestartInv' /\ RestartKnown'
    BY <1>1, RestartStep
<1>7. KnownInv'
    BY <1>1, <1>3, <1>5, KnownStep
<1>8. IntentInv'
    BY <1>1, <1>3, <1>5, IntentStep
<1>9. EarnedInv'
    BY <1>1, <1>3, EarnedStep
<1>10. StartInv'
    BY <1>1, <1>3, <1>8, StartStep
<1> QED
    BY <1>2, <1>3, <1>4, <1>5, <1>6, <1>7, <1>8, <1>9, <1>10 DEF CanaryInv

LEMMA CanaryNext == CanaryInv /\ [Next]_vars => CanaryInv'
<1> SUFFICES ASSUME CanaryInv, [Next]_vars PROVE CanaryInv'
    OBVIOUS
<1>1. CASE UNCHANGED vars
    BY <1>1, CanaryStutter
<1>2. ASSUME NEW r \in Client, RunnerStep(r) PROVE CanaryInv'
    BY <1>2, CanaryStep
<1> QED
    BY <1>1, <1>2 DEF Next, RunnerStep

-----------------------------------------------------------------------------
(***************************************************************************)
(* A company M3 did not accept has no normal enrichment operation, so that *)
(* no transition embeds a capsule and every durable one is completed: a    *)
(* second invariant, which rests on the first.                             *)
(***************************************************************************)
SettledEnrich == [NewEnrich EXCEPT !.status = "completed"]

NoOperation(c, t, d) ==
    /\ d.enrich \in {NewEnrich, SettledEnrich}
    /\ Saves(c, t, "enrich") \/ c = "restored" => t.value = SettledEnrich

NoOperationInv ==
    ~ scenario.accepted =>
        /\ Transition.restart = NoPayload
        /\ Durable("restart") # NoPayload => Durable("restart").enrich = SettledEnrich
        /\ \A r \in Client : NoOperation(pc[r], todo[r], disk[r])

LEMMA OwnNoOperation ==
    ASSUME Shape, NEW r \in Client, Local(r), RunnerStep(r), ~ scenario.accepted, NoOperationInv
    PROVE  NoOperation(pc[r], todo[r], disk[r])'
<1> DEFINE Goal == NoOperation(pc[r], todo[r], disk[r])'
<1>0. /\ DOMAIN pc = Client /\ DOMAIN todo = Client /\ disk \in [Client -> Files]
      /\ disk[r] \in Files
    BY ShapeOf DEF Shape
<1>1. NoOperation(pc[r], todo[r], disk[r])
    BY DEF NoOperationInv
<1>2. /\ SettledEnrich = [status |-> "completed", op |-> "none", reads |-> 0]
      /\ NewEnrich = [status |-> "none", op |-> "none", reads |-> 0]
    BY DEF SettledEnrich, NewEnrich
<1>3. disk[r].enrich.op = "none" /\ disk[r].enrich.status \in {"none", "completed"}
    BY <1>1, <1>2 DEF NoOperation
<1>4. pc[r] \notin SavePlaces => todo[r].file = "none"
    BY DEF Local, LocalInv, PlaceInv
<1>5. ASSUME disk'[r].enrich = disk[r].enrich \/ disk'[r].enrich = SettledEnrich,
             pc'[r] # "restored", pc'[r] \notin SavePlaces \/ todo'[r].file # "enrich"
      PROVE  Goal
    BY <1>1, <1>5 DEF NoOperation, Saves
<1>6. ASSUME NEW file \in {"run", "private"}, NEW value, NEW then, Save(r, file, value, then),
             disk' = disk
      PROVE  Goal
    <2>1. todo'[r].file = file /\ pc'[r] # "restored"
        BY <1>6, SaveOrders
    <2> QED
        BY <1>5, <1>6, <2>1
<1>7. CASE SkipSync(r) \/ Sync(r) \/ Persist(r) \/ Snapshot(r) \/ SnapshotHead(r) \/ SnapshotDone(r)
    BY <1>1, <1>7, SaveGoesOn DEF NoOperation, Saves, SavePlaces
<1>8. CASE Write(r)
    <2>1. /\ pc[r] \in {"write", "persist"} /\ pc'[r] = todo[r].then /\ todo'[r] = NoTodo
          /\ disk' = [disk EXCEPT ![r][todo[r].file] = todo[r].value]
          /\ pc[r] = "persist" => todo[r].kind = "transition"
        BY <1>0, <1>8 DEF Write, At, Goto
    <2>2. todo[r].file \in FileName /\ pc[r] \in SavePlaces
        BY <2>1 DEF Local, LocalInv, PlaceInv, SavePlaces
    <2>3. NoTodo.file = "none"
        BY DEF NoTodo
    <2>4. todo[r].then # "restored"
        BY <2>2 DEF Local, LocalInv, SaveInv, Saves, RunPlan, EnrichPlan, PrivatePlan, PlanFor, FileName
    <2>5. CASE todo[r].file = "enrich"
        <3>1. disk'[r].enrich = todo[r].value
            BY <1>0, <2>1, <2>5 DEF Files
        <3>2. todo[r].value = SettledEnrich
            BY <1>1, <2>2, <2>5 DEF NoOperation, Saves
        <3> QED
            BY <1>5, <2>1, <2>3, <2>4, <3>1, <3>2
    <2>6. CASE todo[r].file # "enrich"
        <3>1. disk'[r].enrich = disk[r].enrich
            BY <1>0, <2>1, <2>2, <2>6 DEF Files, FileName
        <3> QED
            BY <1>5, <2>1, <2>3, <2>4, <3>1
    <2> QED BY <2>5, <2>6
<1>9. CASE Start(r) \/ Stop(r)
    BY <1>0, <1>5, <1>9 DEF Start, Stop, Goto, Stay, SavePlaces
<1>10. CASE Restore(r)
    <2>1. disk'[r].enrich = disk[r].enrich
        BY <1>0, <1>10 DEF Restore, Files
    <2>2. CASE pc'[r] = "run"
        BY <1>5, <2>1, <2>2 DEF SavePlaces
    <2>3. CASE pc'[r] # "run"
        <3>1. /\ RestartState # NoPayload /\ pc'[r] = "restored"
              /\ todo' = [todo EXCEPT ![r] = [NoTodo EXCEPT !.value = RestartState.enrich]]
            BY <1>0, <1>10, <2>3 DEF Restore, Goto, Keep
        <3>2. todo'[r].value = RestartState.enrich
            BY <1>0, <3>1 DEF NoTodo
        <3>3. RestartState.enrich = SettledEnrich
            BY <3>1 DEF RestartState, NoOperationInv
        <3> QED
            BY <1>1, <2>1, <3>1, <3>2, <3>3 DEF NoOperation
    <2> QED BY <2>2, <2>3
<1>11. CASE RestoreEnrich(r)
    <2>1. /\ pc[r] = "restored" /\ disk'[r].enrich = todo[r].value /\ todo'[r] = NoTodo
          /\ pc'[r] \in {"snapshot", "enrich"}
        BY <1>0, <1>11 DEF RestoreEnrich, At, Goto, Files
    <2>2. todo[r].value = SettledEnrich /\ NoTodo.file = "none"
        BY <1>1, <2>1 DEF NoOperation, NoTodo
    <2> QED
        BY <1>5, <2>1, <2>2
<1>12. CASE Run(r)
    <2>1. disk' = disk
        BY <1>12 DEF Run, Stay
    <2>2. CASE pc'[r] = "enrich"
        BY <1>5, <2>1, <2>2 DEF SavePlaces
    <2>3. CASE pc'[r] # "enrich"
        BY <1>0, <1>6, <1>12, <2>1, <2>3 DEF Run, Goto
    <2> QED BY <2>2, <2>3
<1>13. CASE CallRun(r)
    BY <1>6, <1>13 DEF CallRun
<1>14. CASE Enrich(r)
    <2>1. disk' = disk
        BY <1>14 DEF Enrich, Stay
    <2>2. CASE pc'[r] = "snapshot" /\ todo' = todo
        <3>1. todo'[r].file = "none"
            BY <1>4, <1>14, <2>2 DEF Enrich, At, SavePlaces
        <3> QED
            BY <1>5, <2>1, <2>2, <3>1
    <2>3. CASE Save(r, "enrich", SettledEnrich, "snapshot")
        <3>1. todo'[r].value = SettledEnrich
            BY <2>3, SaveOrders
        <3> QED
            BY <1>1, <2>1, <3>1 DEF NoOperation
    <2> QED
        BY <1>0, <1>3, <1>14, <2>2, <2>3 DEF Enrich, Goto, SettledEnrich
<1>15. ~ CallEnrich(r) /\ ~ PauseEnrich(r) /\ ~ ReadEnrich(r) /\ ~ FinishEnrich(r)
    BY <1>3 DEF CallEnrich, PauseEnrich, ReadEnrich, FinishEnrich, At, Local, LocalInv, NormalInv
<1>16. CASE Open(r)
    <2>1. pc'[r] \in {"decide", "restore usage"}
        BY <1>0, <1>16 DEF Open, Goto
    <2>2. disk' = disk \/ \E private : disk' = [disk EXCEPT ![r].private = private]
        BY <1>16 DEF Open
    <2>3. disk'[r].enrich = disk[r].enrich
        BY <1>0, <2>2 DEF Files
    <2> QED
        BY <1>5, <2>1, <2>3 DEF SavePlaces
<1>17. CASE RestoreUsage(r) \/ AppendUsage(r)
    <2>1. pc'[r] \in {"decide", "record"}
        BY <1>0, <1>17 DEF RestoreUsage, AppendUsage, Goto
    <2>2. \E usage : disk' = [disk EXCEPT ![r].usage = usage]
        BY <1>17 DEF RestoreUsage, AppendUsage
    <2>3. disk'[r].enrich = disk[r].enrich
        BY <1>0, <2>2 DEF Files
    <2> QED
        BY <1>5, <2>1, <2>3 DEF SavePlaces
<1>18. CASE \/ \E o \in PrivateOp : Begin(r, o) \/ ReserveRead(r, o) \/ LeavePending(r, o)
            \/ Call(r) \/ RecordUsage(r) \/ Finish(r) \/ Complete(r)
    <2>1. \/ pc'[r] \in {"open", "append", "off"}
          \/ \E value, then : Save(r, "private", value, then)
        BY <1>0, <1>18 DEF Begin, ReserveRead, LeavePending, Call, RecordUsage, Finish, Complete, Goto
    <2>2. disk' = disk
        BY <1>18 DEF Begin, ReserveRead, LeavePending, Call, RecordUsage, Finish, Complete, Stay
    <2> QED
        BY <1>5, <1>6, <2>1, <2>2 DEF SavePlaces
<1> QED
    BY <1>7, <1>8, <1>9, <1>10, <1>11, <1>12, <1>13, <1>14, <1>15, <1>16, <1>17, <1>18
    DEF RunnerStep, Checkpointing, Normal, Coverage

LEMMA NoOperationInit == Init => NoOperationInv
<1> SUFFICES ASSUME Init PROVE NoOperationInv
    OBVIOUS
<1>1. Durable("transition") = NoPayload /\ Durable("restart") = NoPayload
    BY DEF Init, JournalInit, EmptyHead, Durable, Latest
<1>2. Transition.restart = NoPayload
    BY <1>1 DEF Transition, EmptyTransition
<1>3. \A r \in Client : pc[r] = "off" /\ disk[r].enrich = NewEnrich
    BY DEF Init, NewDisk
<1> QED
    BY <1>1, <1>2, <1>3 DEF NoOperationInv, NoOperation, Saves, SavePlaces

LEMMA NoOperationStep ==
    ASSUME CanaryInv, NoOperationInv, NEW r \in Client, RunnerStep(r)
    PROVE  NoOperationInv'
<1>1. /\ JournalInv /\ ContentInv /\ Shape /\ Local(r) /\ Prepared(r) /\ Transition \in Shared
    BY DEF CanaryInv, DurableInv
<1>2. scenario' = scenario
    BY <1>1, FrameOf DEF Frame
<1> SUFFICES ASSUME ~ scenario.accepted
             PROVE  /\ Transition'.restart = NoPayload
                    /\ Durable("restart")' # NoPayload => Durable("restart")'.enrich = SettledEnrich
                    /\ \A s \in Client : NoOperation(pc[s], todo[s], disk[s])'
    BY <1>2 DEF NoOperationInv
<1>3. ASSUME NEW s \in Client PROVE NoOperation(pc[s], todo[s], disk[s])'
    <2>1. CASE s = r
        BY <1>1, <2>1, OwnNoOperation
    <2>2. CASE s # r
        BY <1>1, <2>2, FrameOf DEF Frame, NoOperationInv
    <2> QED BY <2>1, <2>2
<1>4. CASE Quiet
    BY <1>3, <1>4 DEF Quiet, NoOperationInv
<1>5. CASE Commits(r) /\ todo[r].kind = "restart"
    <2>1. /\ Transition' = Transition /\ Durable("restart")' = Capsule(disk[r])
          /\ Restorable(Capsule(disk[r]))
        BY <1>1, <1>5, CapsuleCommitted
    <2>2. disk[r].enrich \in {NewEnrich, SettledEnrich} /\ disk[r].enrich.status # "none"
        BY <2>1 DEF NoOperationInv, NoOperation, Restorable, Capsule
    <2>3. Capsule(disk[r]).enrich = SettledEnrich
        BY <2>2 DEF Capsule, NewEnrich
    <2> QED
        BY <1>3, <2>1, <2>3 DEF NoOperationInv
<1>6. CASE Commits(r) /\ todo[r].kind # "restart"
    <2>1. /\ todo[r].kind = "transition" /\ pc[r] \in SavePlaces
          /\ NextOf(Transition, todo[r], disk[r]) \in Shared
        BY <1>1, <1>6, CommitKinds DEF Commits, SavePlaces
    <2>2. /\ Transition' = NextOf(Transition, todo[r], disk[r])
          /\ Durable("restart")' = Durable("restart")
        BY <1>1, <1>6, <2>1, TransitionCommitted
    <2>3. todo[r].file = "enrich" => todo[r].value.status = "completed"
        BY <2>1 DEF NoOperationInv, NoOperation, Saves, SettledEnrich, NewEnrich
    <2>4. Transition'.restart = Transition.restart
        BY <2>2, <2>3 DEF NextOf
    <2> QED
        BY <1>3, <2>2, <2>4 DEF NoOperationInv
<1> QED
    BY <1>1, <1>4, <1>5, <1>6, QuietOrCommits

LEMMA NoOperationNext == CanaryInv /\ NoOperationInv /\ [Next]_vars => NoOperationInv'
<1> SUFFICES ASSUME CanaryInv, NoOperationInv, [Next]_vars PROVE NoOperationInv'
    OBVIOUS
<1>1. CASE UNCHANGED vars
    BY <1>1 DEF vars, canaryVars, journalVars, NoOperationInv, Transition, Durable, Latest
<1>2. ASSUME NEW r \in Client, RunnerStep(r) PROVE NoOperationInv'
    BY <1>2, NoOperationStep
<1> QED
    BY <1>1, <1>2 DEF Next, RunnerStep

-----------------------------------------------------------------------------
(***************************************************************************)
(* What the invariant gives.                                               *)
(***************************************************************************)
LEMMA InvStarts == CanaryInv => NoPaidStartTwice
BY DEF CanaryInv, StartInv, Once, NoPaidStartTwice

LEMMA InvReplays == CanaryInv /\ NoOperationInv => FreshRunnerCanOpen
<1> SUFFICES ASSUME CanaryInv, NoOperationInv, Transition.private # NoPayload
             PROVE  /\ Replays(Transition.private.checkpoint, Transition.private.usage)
                    /\ RestartState # NoPayload /\ Restorable(RestartState)
                    /\ ~ scenario.accepted => RestartState.enrich.status = "completed"
    BY DEF FreshRunnerCanOpen
<1>1. /\ Replays(Transition.private.checkpoint, Transition.private.usage)
      /\ HaveRestart(Transition, Durable("restart"))
      /\ Transition \in Shared /\ Durable("restart") \in RestartCapsule \cup {NoPayload}
    BY DEF CanaryInv, DurableInv, Sound
<1>2. RestartState \in RestartCapsule \cup {NoPayload} /\ RestartState # NoPayload
    BY <1>1, RestartStateOf DEF CanaryInv
<1>3. Restorable(RestartState)
    BY <1>2 DEF RestartCapsule, Restorable
<1>4. ASSUME ~ scenario.accepted PROVE RestartState.enrich.status = "completed"
    <2>1. RestartState.enrich = SettledEnrich
        BY <1>2, <1>4 DEF RestartState, NoOperationInv
    <2> QED
        BY <2>1 DEF SettledEnrich, NewEnrich
<1> QED
    BY <1>1, <1>2, <1>3, <1>4

LEMMA InvReads == CanaryInv => PassesReachEveryRead
<1> SUFFICES ASSUME CanaryInv, NEW r \in Client, At(r, "open"), passes[r] = MaxPasses,
                    NEW o \in PrivateOp, Private(r).ops[o].state = "pending"
             PROVE  Reads(r, o) >= ReadLimit
    BY DEF PassesReachEveryRead
<1> DEFINE p == PrivateIn(disk[r])
<1>1. /\ disk[r] \in Files /\ Private(r) = p /\ p \in PrivateFile /\ disk[r].usage \in Usage
    BY ShapeOf DEF CanaryInv, Files
<1>2. MaxPasses = 2 * ReadLimit + 1 /\ ReadLimit \in Nat /\ ReadLimit # 0
    BY PassesAssumption
<1>3. passes[r] # 0
    BY <1>2
<1>4. /\ Sound(p, disk[r].usage, scenario)
      /\ p.ops[o].seq >= ReadLimit \/ passes[r] <= 1 + ReadsIn(p.ops)
    BY <1>1, <1>3 DEF CanaryInv, Local, LocalInv, CoverageInv, At
<1>5. Replays(p, disk[r].usage)
    BY <1>4 DEF Sound
<1>6. Reads(r, o) = p.ops[o].seq
    BY <1>1, <1>5, ReadsAreCounted DEF Reads
<1>7. o \in {"clay", "instantly"}
    <2>1. Accounts(o, p.ops[o], disk[r].usage) /\ p.ops[o].state = "pending"
        BY <1>1, <1>5, ReplaysGives
    <2> QED
        BY <2>1 DEF Accounts, Async
<1>8. p.ops["clay"].seq \in 0 .. ReadLimit /\ p.ops["instantly"].seq \in 0 .. ReadLimit
    BY <1>1 DEF PrivateFile, Probe, PrivateOp
<1>9. ASSUME passes[r] <= 1 + ReadsIn(p.ops) PROVE p.ops[o].seq >= ReadLimit
    <2>1. 2 * ReadLimit + 1 <= 1 + (p.ops["clay"].seq + p.ops["instantly"].seq)
        BY <1>2, <1>9 DEF ReadsIn
    <2>2. p.ops["clay"].seq >= ReadLimit /\ p.ops["instantly"].seq >= ReadLimit
        BY <1>2, <1>8, <2>1
    <2> QED
        BY <1>7, <2>2
<1> QED
    BY <1>4, <1>6, <1>9

LEMMA InvSuccess == CanaryInv => SuccessIsEarned
<1> SUFFICES ASSUME CanaryInv, NEW r \in Client, NEW o \in PrivateOp, Integration(r, o) = "success"
             PROVE  LET e == Entry(r, o) durable == Transition.private.checkpoint.ops IN
                    /\ \A n \in 0 .. e.seq : calls[<<o, n>>] >= 1
                    /\ e.state = "pending" => calls[<<o, 1>>] >= 1
                    /\ durable[o].state # "none"
                    /\ e.state = "completed" => durable[o] = e
    BY DEF SuccessIsEarned
<1> DEFINE p == PrivateIn(disk[r])
           e == p.ops[o]
<1>1. Private(r) = p /\ p \in PrivateFile /\ Entry(r, o) = e /\ e.seq \in 0 .. ReadLimit
    BY ShapeOf DEF CanaryInv, Entry, PrivateFile, Probe
<1>2. /\ e.state # "none" /\ e.state # "in_flight"
      /\ e.state = "completed" \/ e.seq > 0
    BY <1>1 DEF Integration, Unanswered, Has, Listed
<1>3. EntryEarned(o, e, calls)
    BY DEF CanaryInv, EarnedInv, ProbesEarned, OpsEarned
<1>4. \A n \in 0 .. e.seq : calls[<<o, n>>] >= 1
    <2>1. /\ \A n \in 0 .. ReadLimit : n < e.seq => calls[<<o, n>>] >= 1
          /\ calls[<<o, e.seq>>] >= 1
        BY <1>2, <1>3 DEF EntryEarned
    <2>2. \A n \in 0 .. e.seq : n = e.seq \/ (n \in 0 .. ReadLimit /\ n < e.seq)
        BY <1>1, PassesAssumption
    <2> HIDE DEF e
    <2> QED
        BY <2>1, <2>2
<1>5. e.state = "pending" => calls[<<o, 1>>] >= 1
    <2>1. e.state = "pending" => 1 \in 0 .. e.seq
        BY <1>1, <1>2, PassesAssumption
    <2> QED
        BY <1>4, <2>1
<1>6. /\ OpsIn(Transition)[o].state # "none"
      /\ e.state = "completed" => OpsIn(Transition)[o] = e
    BY <1>2 DEF CanaryInv, KnownInv, InJournal
<1>7. OpsIn(Transition) = Transition.private.checkpoint.ops
    <2>1. NewPrivate.ops[o].state = "none"
        BY NewPrivateTyped DEF Absent
    <2> QED
        BY <1>6, <2>1 DEF OpsIn
<1> QED
    BY <1>1, <1>4, <1>5, <1>6, <1>7

(***************************************************************************)
(* A step that sends finds its intent in the journal.                      *)
(***************************************************************************)
LEMMA SendsWithIntent ==
    ASSUME CanaryInv, NEW r \in Client, RunnerStep(r), NEW x \in Dispatch,
           calls'[x] # calls[x], x[1] \in PrivateOp \/ x[2] = 0
    PROVE  Transition.barriers[x[1]] = "in_flight"
<1>1. PICK o \in Op, n \in 0 .. ReadLimit : x = <<o, n>>
    BY DEF Dispatch
<1>2. x[1] = o /\ x[2] = n
    BY <1>1
<1>3. CASE n = 0
    BY <1>1, <1>2, <1>3, StartCounted DEF CanaryInv, StartInv, Once
<1>4. CASE n # 0
    <2>1. o \in PrivateOp
        BY <1>2, <1>4
    <2>2. ASSUME NEW y, Send(y) PROVE y = x
        BY <2>2 DEF Send, CanaryInv, Shape, TypeOK
    <2>3. ~ CallRun(r) /\ ~ CallEnrich(r) /\ ~ ReadEnrich(r)
        <3>1. <<"run", 0>> # x /\ <<"enrich", 0>> # x /\ \A m : <<"enrich", m>> # x
            BY <1>1, <2>1 DEF PrivateOp
        <3>2. ~ Send(<<"run", 0>>) /\ \A m : ~ Send(<<"enrich", m>>)
            BY <2>2, <3>1
        <3> QED
            BY <3>2 DEF CallRun, CallEnrich, ReadEnrich
    <2>4. Call(r)
        BY <2>3, WhoSends
    <2>5. pc[r] = "call" /\ Send(<<Current(r), Entry(r, Current(r)).seq>>)
        BY <2>4 DEF Call, At
    <2>6. <<Current(r), Entry(r, Current(r)).seq>> = x
        BY <2>2, <2>5
    <2>7. Current(r) = o
        BY <1>1, <2>6
    <2>8. WorksOn(o, pc[r], disk[r])
        BY <2>5, <2>7, CurrentIs DEF CanaryInv, Working
    <2>9. View(pc[r], todo[r], disk[r], request[r]) = PrivateIn(disk[r])
        BY <2>5 DEF View, Saves, SavePlaces
    <2>10. Holds(r, o)
        BY <2>5, <2>8, <2>9 DEF Holds, HasIntent, Live, Working, WorksOn
    <2> QED
        BY <1>2, <2>1, <2>10 DEF CanaryInv, IntentInv
<1> QED
    BY <1>3, <1>4

\* A settled barrier is not moved.
LEMMA SettledStep ==
    ASSUME CanaryInv, NEW r \in Client, RunnerStep(r), NEW o \in Op \ {"enrich"},
           Transition.barriers[o] = "completed"
    PROVE  Transition'.barriers[o] = "completed"
<1>0. /\ JournalInv /\ ContentInv /\ Shape /\ Local(r) /\ Prepared(r)
      /\ DurableInv(Transition, Durable("restart"), scenario) /\ EarnedInv
    BY DEF CanaryInv
<1>1. CASE o \in PrivateOp
    <2>1. CanaryInv' /\ Advances(Transition, Transition')
        BY CanaryStep
    <2>2. DurableInv(Transition', Durable("restart")', scenario')
        BY <2>1 DEF CanaryInv, DurableInv, HaveRestart, StateIn
    <2>3. OpsIn(Transition)[o].state = "completed"
        BY <1>0, <1>1, OpsInOf
    <2>4. OpsIn(Transition')[o] = OpsIn(Transition)[o]
        BY <1>1, <2>1, <2>3 DEF Advances
    <2> QED
        BY <1>1, <2>2, <2>3, <2>4, OpsInOf
<1>2. CASE o = "run"
    <2>1. CASE Quiet
        BY <2>1 DEF Quiet
    <2>2. CASE Commits(r) /\ todo[r].kind = "restart"
        BY <1>0, <2>2, CapsuleCommitted
    <2>3. CASE Commits(r) /\ todo[r].kind # "restart"
        <3>1. /\ Admitted(Transition, todo[r], disk[r]) /\ todo[r].file \in FileName
              /\ pc[r] \in SavePlaces
            BY <1>0, <2>3, BarriersMove DEF Commits, SavePlaces
        <3>2. todo[r].then # "call run"
            BY <1>0, <1>2, <3>1, StartsAdmitted
        <3> QED
            BY <1>0, <1>2, <2>3, <3>2, BarriersMove
    <2> QED BY <1>0, <2>1, <2>2, <2>3, QuietOrCommits
<1> QED
    BY <1>1, <1>2 DEF Op

-----------------------------------------------------------------------------
(***************************************************************************)
(* The files, the counters and the calls of every runner have their types, *)
(* whatever was lost on the way.                                           *)
(***************************************************************************)
THEOREM TypeCorrectness == Spec => []TypeOK
<1>1. CanaryInv => TypeOK
    BY DEF CanaryInv, Shape
<1> QED
    BY <1>1, CanaryInit, CanaryNext, PTL DEF Spec

(***************************************************************************)
(* No paid operation is started twice, by any number of runners, lost and  *)
(* restarted anywhere (git_journal.py:844-859).                            *)
(***************************************************************************)
THEOREM NoStartTwice == Spec => []NoPaidStartTwice
BY CanaryInit, CanaryNext, InvStarts, PTL DEF Spec

(***************************************************************************)
(* A start, and a private status read, is sent only while the journal says *)
(* in_flight for it (canary_checkpoint.py:120-139).                        *)
(***************************************************************************)
THEOREM IntentsAreDurable == Spec => CallsHaveDurableIntent
<1>1. CanaryInv /\ [Next]_vars =>
         [\A d \in Dispatch :
             /\ calls'[d] # calls[d]
             /\ d[1] \in PrivateOp \/ d[2] = 0
             => Transition.barriers[d[1]] = "in_flight"]_vars
    <2> SUFFICES ASSUME CanaryInv, [Next]_vars, ~ UNCHANGED vars,
                        NEW d \in Dispatch, calls'[d] # calls[d], d[1] \in PrivateOp \/ d[2] = 0
                 PROVE  Transition.barriers[d[1]] = "in_flight"
        OBVIOUS
    <2>1. PICK r \in Client : RunnerStep(r)
        BY DEF Next, RunnerStep
    <2> QED
        BY <2>1, SendsWithIntent
<1> QED
    BY <1>1, CanaryInit, CanaryNext, PTL DEF Spec, CallsHaveDurableIntent

(***************************************************************************)
(* The barrier of an operation that completed is never taken back, by a    *)
(* runner that comes back or by another one; the asynchronous normal one   *)
(* excepted, whose pending state is not checked (git_journal.py:844-861).  *)
(***************************************************************************)
THEOREM SettledStays == Spec => SettledStaysSettled
<1> DEFINE Stays == \A o \in Op \ {"enrich"} :
                       Transition.barriers[o] = "completed" => Transition.barriers[o]' = "completed"
<1>1. CanaryInv /\ [Next]_vars => [Stays]_vars
    <2> SUFFICES ASSUME CanaryInv, [Next]_vars, ~ UNCHANGED vars PROVE Stays
        OBVIOUS
    <2>1. PICK r \in Client : RunnerStep(r)
        BY DEF Next, RunnerStep
    <2> QED
        BY <2>1, SettledStep
<1> QED
    BY <1>1, CanaryInit, CanaryNext, PTL DEF Spec, SettledStaysSettled

(***************************************************************************)
(* Whatever private state is durable replays, and the normal stages it     *)
(* depends on can be restored: completed ones, for a company M3 did not    *)
(* accept (canary_paid_operations.py:243-335, canary_restart.py:351-363).  *)
(***************************************************************************)
THEOREM DurableStateReopens == Spec => []FreshRunnerCanOpen
BY CanaryInit, CanaryNext, NoOperationInit, NoOperationNext, InvReplays, PTL DEF Spec

(***************************************************************************)
(* The coverage passes are enough for every status read the quotas allow,  *)
(* for every read limit (production_canary.py:33, 289-297).                *)
(***************************************************************************)
THEOREM PassesSuffice == Spec => []PassesReachEveryRead
BY CanaryInit, CanaryNext, InvReads, PTL DEF Spec

(***************************************************************************)
(* A probe that a runner reports as a success was really exchanged with    *)
(* its provider, and the journal has its outcome                           *)
(* (canary_outcomes.py:438-468).                                           *)
(***************************************************************************)
THEOREM ReportsAreEarned == Spec => []SuccessIsEarned
BY CanaryInit, CanaryNext, InvSuccess, PTL DEF Spec

=============================================================================
