---------------------------- MODULE CanaryProofs ----------------------------
(***************************************************************************)
(* The canary, with its requests to the journal interleaved with every     *)
(* other step of its runners, still implements the journal's register: it  *)
(* touches the journal only through the conversation of GitJournal.        *)
(***************************************************************************)
EXTENDS Canary, GitJournalProofs, FiniteSetTheorems, FunctionTheorems

LEMMA CheckpointingSteps ==
    ASSUME NEW r \in Client, Checkpointing(r)
    PROVE  AnyStep(r) \/ UNCHANGED journalVars
<1>1. CASE SkipSync(r)
    BY <1>1 DEF SkipSync
<1>2. CASE Sync(r)
    BY <1>2 DEF Sync, AnyStep
<1>3. CASE Persist(r)
    BY <1>3 DEF Persist, AnyStep
<1>4. CASE Write(r)
    BY <1>4 DEF Write, AnyStep
<1> QED
    BY <1>1, <1>2, <1>3, <1>4 DEF Checkpointing

LEMMA NormalSteps ==
    ASSUME NEW r \in Client, Normal(r)
    PROVE  AnyStep(r) \/ UNCHANGED journalVars
<1>1. CASE Start(r) \/ RestoreEnrich(r) \/ Run(r) \/ CallRun(r)
    BY <1>1 DEF Start, RestoreEnrich, Run, CallRun
<1>2. CASE Enrich(r) \/ CallEnrich(r) \/ PauseEnrich(r) \/ ReadEnrich(r) \/ FinishEnrich(r)
    BY <1>2 DEF Enrich, CallEnrich, PauseEnrich, ReadEnrich, FinishEnrich
<1>3. CASE Restore(r)
    BY <1>3 DEF Restore, AnyStep
<1>4. CASE Snapshot(r)
    BY <1>4 DEF Snapshot, AnyStep
<1>5. CASE SnapshotHead(r)
    BY <1>5 DEF SnapshotHead, AnyStep
<1>6. CASE SnapshotDone(r)
    BY <1>6 DEF SnapshotDone, AnyStep
<1> QED
    BY <1>1, <1>2, <1>3, <1>4, <1>5, <1>6 DEF Normal

LEMMA CoverageSteps ==
    ASSUME NEW r \in Client, Coverage(r)
    PROVE  AnyStep(r) \/ UNCHANGED journalVars
<1>1. CASE Open(r)
    BY <1>1 DEF Open, AnyStep
<1>2. CASE \E o \in PrivateOp : Begin(r, o) \/ ReserveRead(r, o) \/ LeavePending(r, o)
    BY <1>2 DEF Begin, ReserveRead, LeavePending
<1>3. CASE RestoreUsage(r) \/ Call(r) \/ AppendUsage(r) \/ RecordUsage(r)
    BY <1>3 DEF RestoreUsage, Call, AppendUsage, RecordUsage
<1>4. CASE Finish(r) \/ Complete(r)
    BY <1>4 DEF Finish, Complete
<1> QED
    BY <1>1, <1>2, <1>3, <1>4 DEF Coverage

\* What one step of any runner does to the journal.
LEMMA JournalOfNext ==
    ASSUME [Next]_vars
    PROVE  (\E r \in Client : AnyStep(r)) \/ UNCHANGED journalVars
<1>1. ASSUME NEW r \in Client, Stop(r) PROVE AnyStep(r)
    BY <1>1 DEF Stop, AnyStep
<1>2. CASE UNCHANGED vars
    BY <1>2 DEF vars
<1> QED
    BY <1>1, <1>2, CheckpointingSteps, NormalSteps, CoverageSteps DEF Next

(***************************************************************************)
(* No canary overwrites a state it did not read: over any number of        *)
(* runners, losses and restarts the journal behaves as a compare-and-set   *)
(* register (git_journal.py:590-684).                                      *)
(***************************************************************************)
THEOREM CanaryImplementsRegister == Spec => ImplementsRegister
<1>1. JournalInv /\ [Next]_vars => JournalInv'
    BY JournalOfNext, StepInv, StutterInv
<1>2. JournalInv /\ [Next]_vars => [Register!RegisterNext]_(Register!registerVars)
    BY JournalOfNext, StepRefines, StutterRefines
<1>3. Init => JournalInit
    BY DEF Init
<1> QED
    BY <1>1, <1>2, <1>3, InitInv, InitRefines, PTL
    DEF Spec, ImplementsRegister, Register!RegisterSpec

-----------------------------------------------------------------------------
(***************************************************************************)
(* The invariant.  Its local parts speak of one runner, of its files d,    *)
(* place c, save t, passes n and request q; what the journal makes durable *)
(* is the transition T and the separate capsule R.                         *)
(***************************************************************************)
Places == {"off", "restore", "restored", "run", "call run", "enrich", "call enrich",
           "pause enrich", "read enrich", "finish enrich", "snapshot", "snapshot head",
           "sync", "persist", "write", "open", "restore usage", "decide", "call", "append",
           "record", "settle"}
Working == {"call", "append", "record", "settle"}
SavePlaces == {"snapshot", "snapshot head", "sync", "persist", "write"}
FileName == {"run", "enrich", "private"}

Todo ==
    [file : {"none"} \cup FileName,
     value : RunFile \cup EnrichFile \cup PrivateFile \cup Usage \cup {NoFile},
     then : {"none"} \cup Places,
     kind : {"none"} \cup Kind,
     payload : Shared \cup RestartCapsule \cup {NoPayload}]

\* Every variable has its type.
Shape == TypeOK /\ pc \in [Client -> Places] /\ todo \in [Client -> Todo]

PrivateIn(d) == IF d.private = NoFile THEN NewPrivate ELSE d.private
Saves(c, t, file) == c \in SavePlaces /\ t.file = file

\* A save whose new value is durable, or has nothing the journal keeps.
Committed(c, t, q) == c = "persist" /\ t.kind = "transition" /\ q.phase = "confirm"
Done(c, t, q) == c = "write" \/ Committed(c, t, q)

\* What each place works on.
PlaceInv(c, t, d) ==
    /\ c \notin SavePlaces => t.file = "none"
    /\ c \in {"sync", "write"} => t.file \in FileName
    /\ c \in {"snapshot", "snapshot head"} => t.file \in {"none", "private"}
    /\ c = "persist" => \/ t.kind = "transition" /\ t.file \in FileName
                        \/ t.kind = "restart" /\ t.file \in {"none", "private"}
    /\ c = "restored" =>
         t.value \in EnrichFile /\ t.value.status # "none" /\ d.run = "completed"
    /\ c = "restore usage" => t.value \in Usage /\ d.private # NoFile
    /\ c = "snapshot head" => Restorable(Capsule(d))

\* A conversation with the journal is about what the runner saves.
RequestsInv(c, t, q) ==
    /\ c # "persist" => q = NoRequest
    /\ c = "persist" =>
         /\ q.phase \in {"none", "upload", "commit", "confirm"}
         /\ q.phase \in {"upload", "commit"} => q.kind = t.kind /\ q.payload = t.payload

\* The files where a normal stage goes on, before any coverage pass.
Stages == {"restore", "restored", "run", "call run", "enrich", "call enrich", "pause enrich",
           "read enrich", "finish enrich"}

NormalInv(c, t, d, n) ==
    /\ c \in Stages \/ (c \in SavePlaces /\ t.file # "private") => n = 0
    /\ c = "call run" => d.run = "in_flight"
    /\ c \in {"enrich", "call enrich", "pause enrich", "read enrich", "finish enrich"} =>
         d.run = "completed"
    /\ c \in {"call enrich", "pause enrich", "read enrich", "finish enrich"} =>
         d.enrich.status # "none"
    /\ c = "call enrich" => d.enrich.op = "in_flight"
    /\ c \in {"pause enrich", "read enrich"} => d.enrich.op = "pending"
    /\ c = "read enrich" => d.enrich.reads > 0
    /\ c = "finish enrich" => d.enrich.op = "completed"

RunPlan(t, d) ==
    \/ t.then = "call run" /\ t.value = "in_flight" /\ d.run = "none"
    \/ t.then = "enrich" /\ t.value = "completed" /\ d.run = "in_flight"

EnrichPlan(t, d) ==
    LET v == t.value IN
    /\ d.run = "completed"
    /\ v \in EnrichFile /\ v.status # "none"
    /\ t.then \in {"call enrich", "pause enrich", "read enrich", "enrich", "finish enrich",
                   "snapshot"}
    /\ v.op = "in_flight" <=> t.then = "call enrich"
    /\ t.then = "call enrich" => d.enrich.status = "none"
    /\ t.then = "read enrich" => v.reads > 0
    /\ t.then \in {"pause enrich", "read enrich"} => v.op = "pending"
    /\ t.then = "finish enrich" => v.op = "completed"

\* The order of the probes, and when none is left to begin.
Follows(ops, o, before) ==
    ops[o].state # "none" => ops[before].state = "completed" /\ ops[before].answer # "empty"

Chain(ops, sc) ==
    /\ sc.accepted => \A o \in PrivateOp : ops[o].state # "none" => o = "apollo" /\ sc.shadow
    /\ ~ sc.accepted =>
         /\ ops["apollo"].state = "none"
         /\ Follows(ops, "clay", "exa") /\ Follows(ops, "instantly", "clay")

LastSettled(ops, sc) ==
    /\ \A o \in PrivateOp : ops[o].state \in {"none", "completed"}
    /\ sc.accepted /\ sc.shadow => ops["apollo"].state = "completed"
    /\ ~ sc.accepted =>
         /\ ops["exa"].state = "completed"
         /\ ops["exa"].answer # "empty" => ops["clay"].state = "completed"
         /\ ops["exa"].answer # "empty" /\ ops["clay"].answer # "empty" =>
              ops["instantly"].state = "completed"

\* A private checkpoint that a runner may go on from, with its usage.
Sound(p, usage, sc) ==
    /\ Replays(p, usage)
    /\ Chain(p.ops, sc)
    /\ \A o \in PrivateOp : p.ops[o].state = "none" => p.ops[o] = Absent
    /\ \A x, y \in PrivateOp : {p.ops[x].state, p.ops[y].state} \subseteq {"in_flight", "pending"}
                              => x = y

ReadsIn(ops) == ops["clay"].seq + ops["instantly"].seq

\* The one operation a save of the private checkpoint changes.
PlanFor(o, t, d, n) ==
    LET p == PrivateIn(d).ops
        v == t.value.ops
    IN  /\ \A x \in PrivateOp \ {o} : v[x] = p[x] /\ p[x].state \in {"none", "completed"}
        /\ n <= 1 + ReadsIn(v)
        /\ \/ /\ t.then = "call" /\ v[o].state = "in_flight" /\ ~ v[o].recorded
              /\ \/ p[o].state = "none" /\ v[o].seq = 0
                 \/ p[o].state = "pending" /\ v[o].seq = p[o].seq + 1
           \/ /\ p[o].state = "in_flight" /\ v[o].seq = p[o].seq /\ v[o].recorded
              /\ \/ t.then = "settle" /\ v[o].state = "in_flight"
                 \/ t.then = "open" /\ v[o].state = "pending"
                 \/ t.then = "decide" /\ v[o].state = "completed"

PrivatePlan(t, d, n, sc) ==
    /\ t.value \in PrivateFile
    /\ Sound(t.value, d.usage, sc)
    /\ \/ t.then = "off" /\ t.value.ops = PrivateIn(d).ops /\ LastSettled(t.value.ops, sc)
       \/ \E o \in PrivateOp : PlanFor(o, t, d, n)

SaveInv(c, t, d, n, sc) ==
    /\ Saves(c, t, "run") => RunPlan(t, d)
    /\ Saves(c, t, "enrich") => EnrichPlan(t, d)
    /\ Saves(c, t, "private") => PrivatePlan(t, d, n, sc)

\* What a runner works on is its one unsettled operation.
WorksOn(o, c, d) ==
    LET p == PrivateIn(d).ops IN
    /\ \A x \in PrivateOp \ {o} : p[x].state \in {"none", "completed"}
    /\ p[o].state = "in_flight"
    /\ c \in {"record", "settle"} => <<o, p[o].seq>> \in d.usage
    /\ c = "settle" => p[o].recorded

CoverageInv(c, t, d, n, sc) ==
    LET p == PrivateIn(d).ops IN
    /\ c \in Working => /\ \E o \in PrivateOp : WorksOn(o, c, d)
                        /\ n <= 1 + ReadsIn(p)
    /\ c \in Working \cup {"decide"} \/ (c = "open" /\ n # 0) => Sound(PrivateIn(d), d.usage, sc)
    /\ c = "restore usage" => Sound(PrivateIn(d), t.value, sc)
    /\ c \in {"decide", "restore usage"} =>
         /\ \A o \in PrivateOp :
               p[o].state = "pending" => p[o].seq >= ReadLimit \/ n <= 2 + ReadsIn(p)
         /\ Unresolved(p) = {} => n <= 1 + ReadsIn(p)
    /\ c = "open" /\ n # 0 =>
         /\ \E o \in PrivateOp : p[o].state = "pending"
         /\ \A o \in PrivateOp :
               p[o].state = "pending" => p[o].seq >= ReadLimit \/ n <= 1 + ReadsIn(p)

LocalInv(c, t, d, n, q, sc) ==
    /\ PlaceInv(c, t, d)
    /\ RequestsInv(c, t, q)
    /\ NormalInv(c, t, d, n)
    /\ SaveInv(c, t, d, n, sc)
    /\ CoverageInv(c, t, d, n, sc)

Local(r) == LocalInv(pc[r], todo[r], disk[r], passes[r], request[r], scenario)

\* A payload still to be committed was made from the transition it replaces.
NextOf(T, t, d) ==
    LET now == Operations(t.file, t.value)
    IN  [barriers |-> [o \in Op |-> IF o \in DOMAIN now THEN now[o] ELSE T.barriers[o]],
         private  |-> IF t.file = "private" THEN [checkpoint |-> t.value, usage |-> d.usage]
                                           ELSE T.private,
         restart  |-> IF t.file = "enrich" /\ t.value.status = "paused_pending"
                      THEN [run |-> d.run, enrich |-> t.value] ELSE T.restart]

Admitted(T, t, d) ==
    LET now == Operations(t.file, t.value)
        old == Operations(t.file, d[t.file])
    IN  \A o \in DOMAIN now :
           MayBarrier(IF o \in DOMAIN old THEN old[o] ELSE "none", now[o], T.barriers[o])

PreparedInv(c, t, d, q, T, current) ==
    c = "persist" /\ q.phase # "confirm" =>
        /\ t.kind = "restart" => t.payload = Capsule(d) /\ Restorable(t.payload)
        /\ t.kind = "transition" /\ current => t.payload = NextOf(T, t, d) /\ Admitted(T, t, d)

Prepared(r) ==
    PreparedInv(pc[r], todo[r], disk[r], request[r], Transition, expected[r] = head)

\* What is durable lets an empty runner go on.
HaveRestart(T, R) == T.restart # NoPayload \/ R # NoPayload

StateIn(T, o) == IF T.private = NoPayload THEN "none" ELSE T.private.checkpoint.ops[o].state

DurableInv(T, R, sc) ==
    /\ T \in Shared
    /\ R \in RestartCapsule \cup {NoPayload}
    /\ \A o \in PrivateOp : T.barriers[o] = StateIn(T, o)
    /\ T.private # NoPayload =>
         Sound(T.private.checkpoint, T.private.usage, sc) /\ HaveRestart(T, R)

\* A runner in its coverage passes left a capsule behind.
Covers(c, t, q) ==
    \/ c \in Working \cup {"open", "decide", "restore usage"}
    \/ Saves(c, t, "private")
    \/ c = "persist" /\ t.kind = "restart" /\ q.phase = "confirm"

RestartInv ==
    \A r \in Client :
        Covers(pc[r], todo[r], request[r]) => HaveRestart(Transition, Durable("restart"))

-----------------------------------------------------------------------------
(***************************************************************************)
(* The frame of a step.                                                    *)
(***************************************************************************)
RunnerStep(r) == Checkpointing(r) \/ Normal(r) \/ Coverage(r) \/ Stop(r)

\* What a step of r leaves of the others, of the scenario and of the calls.
Frame(r) ==
    /\ \A s \in Client \ {r} :
          /\ disk'[s] = disk[s] /\ pc'[s] = pc[s] /\ todo'[s] = todo[s] /\ passes'[s] = passes[s]
    /\ scenario' = scenario
    /\ \A x \in Dispatch : calls'[x] >= calls[x]

LEMMA FrameOf ==
    ASSUME Shape, NEW r \in Client, RunnerStep(r)
    PROVE  Frame(r)
<1> USE DEF Goto, Stay, Save
<1>0. /\ DOMAIN disk = Client /\ DOMAIN pc = Client /\ DOMAIN todo = Client
      /\ DOMAIN passes = Client /\ calls \in [Dispatch -> 0 .. 2]
    BY DEF Shape, TypeOK
<1>1. ASSUME UNCHANGED calls,
             \A s \in Client \ {r} :
                /\ disk'[s] = disk[s] /\ pc'[s] = pc[s] /\ todo'[s] = todo[s]
                /\ passes'[s] = passes[s],
             scenario' = scenario
      PROVE  Frame(r)
    BY <1>0, <1>1 DEF Frame
<1>2. ASSUME NEW x, Send(x),
             \A s \in Client \ {r} :
                /\ disk'[s] = disk[s] /\ pc'[s] = pc[s] /\ todo'[s] = todo[s]
                /\ passes'[s] = passes[s],
             scenario' = scenario
      PROVE  Frame(r)
    BY <1>0, <1>2 DEF Frame, Send
<1>3. CASE Checkpointing(r)
    BY <1>0, <1>1, <1>3 DEF Checkpointing, SkipSync, Sync, Post, Persist, Write
<1>4. CASE CallRun(r) \/ CallEnrich(r) \/ ReadEnrich(r) \/ Call(r)
    BY <1>0, <1>2, <1>4 DEF CallRun, CallEnrich, ReadEnrich, Call
<1>5. CASE Start(r) \/ Restore(r) \/ RestoreEnrich(r) \/ Run(r) \/ Enrich(r) \/ PauseEnrich(r)
           \/ FinishEnrich(r)
    BY <1>0, <1>1, <1>5 DEF Start, Restore, RestoreEnrich, Run, Enrich, PauseEnrich, FinishEnrich,
       Keep
<1>6. CASE Snapshot(r) \/ SnapshotHead(r) \/ SnapshotDone(r) \/ Stop(r)
    BY <1>0, <1>1, <1>6 DEF Snapshot, SnapshotHead, SnapshotDone, Stop, Post
<1>7. CASE Open(r) \/ RestoreUsage(r) \/ AppendUsage(r) \/ RecordUsage(r) \/ Finish(r)
           \/ Complete(r)
    BY <1>0, <1>1, <1>7 DEF Open, RestoreUsage, AppendUsage, RecordUsage, Finish, Complete, Keep
<1>8. CASE \E o \in PrivateOp : Begin(r, o) \/ ReserveRead(r, o) \/ LeavePending(r, o)
    BY <1>0, <1>1, <1>8 DEF Begin, ReserveRead, LeavePending
<1> QED
    BY <1>3, <1>4, <1>5, <1>6, <1>7, <1>8 DEF RunnerStep, Normal, Coverage

-----------------------------------------------------------------------------
(***************************************************************************)
(* What a private checkpoint and its usage say of each other.              *)
(***************************************************************************)
Accounts(o, e, usage) ==
    /\ \A n \in 0 .. ReadLimit : <<o, n>> \in usage => e.state # "none" /\ n <= e.seq
    /\ e.state # "none" =>
          /\ \A n \in 0 .. ReadLimit : n < e.seq => <<o, n>> \in usage
          /\ e.recorded => <<o, e.seq>> \in usage
          /\ e.recorded \/ e.state = "in_flight"
          /\ e.state = "pending" \/ e.seq > 0 => o \in Async

Lonely(ops) ==
    \A x, y \in PrivateOp : {ops[x].state, ops[y].state} \subseteq {"in_flight", "pending"} => x = y

\* At most one operation is unresolved, as a set.
LEMMA OneUnresolved ==
    ASSUME NEW ops, Lonely(ops)
    PROVE  Cardinality(Unresolved(ops)) <= 1
<1>1. CASE Unresolved(ops) = {}
    BY <1>1, FS_EmptySet
<1>2. CASE Unresolved(ops) # {}
    <2>1. PICK o \in Unresolved(ops) : TRUE
        BY <1>2
    <2>2. Unresolved(ops) = {o}
        BY <2>1 DEF Lonely, Unresolved
    <2> QED
        BY <2>2, FS_Singleton
<1> QED
    BY <1>1, <1>2

\* Accounts, entry by entry, is what Replays asks of the usage.
LEMMA ReplaysFrom ==
    ASSUME NEW p \in PrivateFile, NEW usage \in Usage, Lonely(p.ops),
           p.status = "completed" => \A o \in PrivateOp : p.ops[o].state \notin {"in_flight", "pending"},
           \A o \in PrivateOp : Accounts(o, p.ops[o], usage)
    PROVE  Replays(p, usage)
<1>1. Cardinality(Unresolved(p.ops)) <= 1
    BY OneUnresolved
<1>2. p.status = "completed" => Unresolved(p.ops) = {}
    BY DEF Unresolved
<1>3. \A o \in PrivateOp : p.ops[o].seq \in 0 .. ReadLimit
    BY DEF PrivateFile, Probe
<1>4. ASSUME NEW u \in usage PROVE \E o \in Listed(p.ops) : u \in Dispatches(p.ops, o)
    <2>1. PICK o \in PrivateOp, n \in 0 .. ReadLimit : u = <<o, n>>
        BY <1>4 DEF Usage
    <2>2. Accounts(o, p.ops[o], usage) /\ <<o, n>> \in usage
        BY <1>4, <2>1
    <2>3. p.ops[o].state # "none" /\ n <= p.ops[o].seq
        BY <2>1, <2>2 DEF Accounts
    <2>4. n \in 0 .. p.ops[o].seq
        BY <1>3, <2>1, <2>3, PassesAssumption
    <2> QED
        BY <2>1, <2>3, <2>4 DEF Dispatches, Listed
<1>5. ASSUME NEW o \in Listed(p.ops)
      PROVE  Dispatches(p.ops, o) \ {<<o, p.ops[o].seq>>} \subseteq usage
    <2>1. o \in PrivateOp /\ p.ops[o].state # "none"
        BY DEF Listed
    <2>2. ASSUME NEW n \in 0 .. p.ops[o].seq, <<o, n>> # <<o, p.ops[o].seq>>
          PROVE  <<o, n>> \in usage
        <3>1. n \in 0 .. ReadLimit /\ n < p.ops[o].seq
            BY <1>3, <2>1, <2>2, PassesAssumption
        <3> QED
            BY <2>1, <3>1 DEF Accounts
    <2> QED
        BY <2>2 DEF Dispatches
<1>6. \A o \in Listed(p.ops) :
         /\ p.ops[o].recorded => <<o, p.ops[o].seq>> \in usage
         /\ p.ops[o].recorded \/ p.ops[o].state = "in_flight"
         /\ p.ops[o].state = "pending" \/ p.ops[o].seq > 0 => o \in Async
    BY DEF Listed, Accounts
<1> QED
    BY <1>1, <1>2, <1>4, <1>5, <1>6 DEF Replays

LEMMA ReplaysGives ==
    ASSUME NEW p \in PrivateFile, NEW usage \in Usage, Replays(p, usage), NEW o \in PrivateOp
    PROVE  Accounts(o, p.ops[o], usage)
<1>1. \A x \in PrivateOp : p.ops[x].seq \in 0 .. ReadLimit
    BY DEF PrivateFile, Probe
<1>2. ASSUME NEW n \in 0 .. ReadLimit, <<o, n>> \in usage
      PROVE  p.ops[o].state # "none" /\ n <= p.ops[o].seq
    <2>1. PICK x \in Listed(p.ops) : <<o, n>> \in Dispatches(p.ops, x)
        BY <1>2 DEF Replays
    <2>2. PICK m \in 0 .. p.ops[x].seq : <<o, n>> = <<x, m>>
        BY <2>1 DEF Dispatches
    <2>3. o = x /\ n = m
        BY <2>2
    <2> QED
        BY <1>1, <2>1, <2>3, PassesAssumption DEF Listed
<1>3. ASSUME p.ops[o].state # "none", NEW n \in 0 .. ReadLimit, n < p.ops[o].seq
      PROVE  <<o, n>> \in usage
    <2>1. o \in Listed(p.ops)
        BY <1>3 DEF Listed
    <2>2. n \in 0 .. p.ops[o].seq /\ n # p.ops[o].seq
        BY <1>1, <1>3, PassesAssumption
    <2>3. <<o, n>> \in Dispatches(p.ops, o) /\ <<o, n>> # <<o, p.ops[o].seq>>
        BY <2>2 DEF Dispatches
    <2> QED
        BY <2>1, <2>3 DEF Replays
<1>4. p.ops[o].state # "none" =>
         /\ p.ops[o].recorded => <<o, p.ops[o].seq>> \in usage
         /\ p.ops[o].recorded \/ p.ops[o].state = "in_flight"
         /\ p.ops[o].state = "pending" \/ p.ops[o].seq > 0 => o \in Async
    BY DEF Replays, Listed
<1> QED
    BY <1>2, <1>3, <1>4 DEF Accounts

\* The reads of a pending operation are those its entry counts.
LEMMA ReadsAreCounted ==
    ASSUME NEW p \in PrivateFile, NEW usage \in Usage, Replays(p, usage),
           NEW o \in PrivateOp, p.ops[o].state = "pending"
    PROVE  Cardinality({u \in usage : u[1] = o /\ u[2] > 0}) = p.ops[o].seq
<1> DEFINE s == p.ops[o].seq
           reads == {u \in usage : u[1] = o /\ u[2] > 0}
           f == [n \in 1 .. s |-> <<o, n>>]
<1>1. s \in 0 .. ReadLimit /\ s \in Nat
    BY PassesAssumption DEF PrivateFile, Probe
<1>2. Accounts(o, p.ops[o], usage) /\ p.ops[o].recorded
    BY ReplaysGives DEF Accounts
<1>3. ASSUME NEW n \in 1 .. s PROVE <<o, n>> \in reads
    <2>1. n \in 0 .. ReadLimit /\ n <= s /\ n > 0
        BY <1>1, PassesAssumption
    <2>2. <<o, n>> \in usage
        BY <1>1, <1>2, <2>1 DEF Accounts
    <2> QED
        BY <2>1, <2>2
<1>4. ASSUME NEW u \in reads PROVE \E n \in 1 .. s : u = <<o, n>>
    <2>1. PICK x \in PrivateOp, n \in 0 .. ReadLimit : u = <<x, n>>
        BY <1>4 DEF Usage
    <2>2. x = o /\ n > 0 /\ <<o, n>> \in usage
        BY <1>4, <2>1
    <2>3. n <= s
        BY <1>2, <2>1, <2>2 DEF Accounts
    <2> QED
        BY <1>1, <2>1, <2>2, <2>3, PassesAssumption
<1>5. f \in Bijection(1 .. s, reads)
    <2>1. f \in [1 .. s -> reads]
        BY <1>3
    <2>2. \A a, b \in DOMAIN f : f[a] = f[b] => a = b
        OBVIOUS
    <2>3. \A u \in reads : \E n \in 1 .. s : f[n] = u
        BY <1>4
    <2> HIDE DEF f, reads
    <2> QED
        BY <2>1, <2>2, <2>3 DEF Bijection, Injection, Surjection, IsInjective
<1>6. IsFiniteSet(1 .. s) /\ Cardinality(1 .. s) = s
    <2>1. IsFiniteSet(1 .. s) /\ Cardinality(1 .. s) = IF 1 > s THEN 0 ELSE s - 1 + 1
        BY <1>1, FS_Interval
    <2> QED
        BY <1>1, <2>1
<1>7. ExistsBijection(1 .. s, reads)
    BY <1>5 DEF ExistsBijection
<1> HIDE DEF f, reads
<1>8. Cardinality(reads) = Cardinality(1 .. s)
    BY <1>6, <1>7, FS_Bijection
<1> QED
    BY <1>6, <1>8 DEF reads

-----------------------------------------------------------------------------
(***************************************************************************)
(* The types of what a runner has, and of what it posts.                   *)
(***************************************************************************)
Files == [run : RunFile, enrich : EnrichFile, private : PrivateFile \cup {NoFile}, usage : Usage]

LEMMA NewPrivateTyped ==
    /\ NewPrivate \in PrivateFile
    /\ \A o \in PrivateOp : NewPrivate.ops[o] = Absent
<1>1. Absent \in Probe
    BY PassesAssumption DEF Absent, Probe
<1> QED
    BY <1>1 DEF NewPrivate, PrivateFile

LEMMA ShapeOf ==
    ASSUME Shape, NEW r \in Client
    PROVE  /\ disk \in [Client -> Files] /\ disk[r] \in Files
           /\ pc[r] \in Places /\ todo[r] \in Todo /\ passes[r] \in 0 .. MaxPasses
           /\ Private(r) = PrivateIn(disk[r]) /\ PrivateIn(disk[r]) \in PrivateFile
<1>1. disk \in [Client -> Files] /\ disk[r] \in Files
    BY DEF Shape, TypeOK, Files
<1>2. pc[r] \in Places /\ todo[r] \in Todo /\ passes[r] \in 0 .. MaxPasses
    BY DEF Shape, TypeOK
<1>3. Private(r) = PrivateIn(disk[r])
    BY DEF Private, PrivateIn
<1>4. PrivateIn(disk[r]) \in PrivateFile
    BY <1>1, NewPrivateTyped DEF PrivateIn, Files
<1> QED
    BY <1>1, <1>2, <1>3, <1>4

\* The operations of a checkpoint, file by file.
LEMMA RunOperations ==
    ASSUME NEW value \in RunFile
    PROVE  /\ DOMAIN Operations("run", value) = IF value = "none" THEN {} ELSE {"run"}
           /\ value # "none" => Operations("run", value)["run"] = value
BY DEF Operations, NewRun

LEMMA EnrichOperations ==
    ASSUME NEW value \in EnrichFile
    PROVE  /\ DOMAIN Operations("enrich", value) = IF value.op = "none" THEN {} ELSE {"enrich"}
           /\ value.op # "none" => Operations("enrich", value)["enrich"] = value.op
BY DEF Operations

LEMMA PrivateOperations ==
    ASSUME NEW value \in PrivateFile
    PROVE  /\ DOMAIN Operations("private", value) = Listed(value.ops)
           /\ \A o \in Listed(value.ops) : Operations("private", value)[o] = value.ops[o].state
BY NoPayloadAssumption DEF Operations, NoFile

LEMMA NoOperations ==
    DOMAIN Operations("private", NoFile) = {}
BY DEF Operations

\* What a checkpoint makes of the transition, file by file.
LEMMA NextOfRun ==
    ASSUME NEW T \in Shared, NEW t, NEW d, t.file = "run", t.value \in RunFile
    PROVE  LET N == NextOf(T, t, d) IN
           /\ N \in Shared
           /\ N.private = T.private /\ N.restart = T.restart
           /\ \A o \in Op : N.barriers[o] = IF o = "run" /\ t.value # "none" THEN t.value
                                                                          ELSE T.barriers[o]
<1> DEFINE now == Operations("run", t.value)
           N == NextOf(T, t, d)
<1>1. /\ DOMAIN now = IF t.value = "none" THEN {} ELSE {"run"}
      /\ t.value # "none" => now["run"] = t.value
    BY RunOperations
<1>2. N = [barriers |-> [o \in Op |-> IF o \in DOMAIN now THEN now[o] ELSE T.barriers[o]],
           private |-> T.private, restart |-> T.restart]
    BY DEF NextOf
<1>3. \A o \in Op : N.barriers[o] = IF o \in DOMAIN now THEN now[o] ELSE T.barriers[o]
    BY <1>2
<1>4. \A o \in Op : N.barriers[o] = IF o = "run" /\ t.value # "none" THEN t.value
                                                                     ELSE T.barriers[o]
    BY <1>1, <1>3
<1>5. \A o \in Op : (IF o \in DOMAIN now THEN now[o] ELSE T.barriers[o]) \in {"none"} \cup StateName
    BY <1>1 DEF Shared, RunFile, StateName
<1> HIDE DEF now, N
<1>6. N \in Shared
    BY <1>2, <1>5 DEF Shared
<1> QED
    BY <1>2, <1>4, <1>6 DEF N

LEMMA NextOfEnrich ==
    ASSUME NEW T \in Shared, NEW t, NEW d, t.file = "enrich", t.value \in EnrichFile,
           t.value.status # "none", d.run = "completed"
    PROVE  LET N == NextOf(T, t, d) IN
           /\ N \in Shared
           /\ N.private = T.private
           /\ N.restart = IF t.value.status = "paused_pending"
                          THEN [run |-> d.run, enrich |-> t.value] ELSE T.restart
           /\ \A o \in Op : N.barriers[o] = IF o = "enrich" /\ t.value.op # "none" THEN t.value.op
                                                                               ELSE T.barriers[o]
<1> DEFINE now == Operations("enrich", t.value)
           N == NextOf(T, t, d)
           R == IF t.value.status = "paused_pending"
                THEN [run |-> d.run, enrich |-> t.value] ELSE T.restart
<1>1. /\ DOMAIN now = IF t.value.op = "none" THEN {} ELSE {"enrich"}
      /\ t.value.op # "none" => now["enrich"] = t.value.op
    BY EnrichOperations
<1>2. N = [barriers |-> [o \in Op |-> IF o \in DOMAIN now THEN now[o] ELSE T.barriers[o]],
           private |-> T.private, restart |-> R]
    BY DEF NextOf
<1>3. \A o \in Op : N.barriers[o] = IF o \in DOMAIN now THEN now[o] ELSE T.barriers[o]
    BY <1>2
<1>4. \A o \in Op : N.barriers[o] = IF o = "enrich" /\ t.value.op # "none" THEN t.value.op
                                                                     ELSE T.barriers[o]
    BY <1>1, <1>3
<1>5. \A o \in Op : (IF o \in DOMAIN now THEN now[o] ELSE T.barriers[o]) \in {"none"} \cup StateName
    BY <1>1 DEF Shared, EnrichFile, StateName
<1>6. R \in RestartCapsule \cup {NoPayload}
    <2>1. CASE t.value.status = "paused_pending"
        BY <2>1 DEF RestartCapsule
    <2>2. CASE t.value.status # "paused_pending"
        BY <2>2 DEF Shared
    <2> QED BY <2>1, <2>2
<1> HIDE DEF now, R
<1>7. [o \in Op |-> IF o \in DOMAIN now THEN now[o] ELSE T.barriers[o]]
         \in [Op -> {"none"} \cup StateName]
    BY <1>5
<1>8. N \in Shared
    <2>1. T.private \in SharedPrivate \cup {NoPayload}
        BY DEF Shared
    <2> HIDE DEF N
    <2> QED
        BY <1>2, <1>6, <1>7, <2>1 DEF Shared
<1> QED
    BY <1>2, <1>4, <1>8 DEF N, R

LEMMA NextOfPrivate ==
    ASSUME NEW T \in Shared, NEW t, NEW d, t.file = "private", t.value \in PrivateFile,
           d.usage \in Usage
    PROVE  LET N == NextOf(T, t, d) IN
           /\ N \in Shared
           /\ N.private # NoPayload
           /\ N.private.checkpoint = t.value /\ N.private.usage = d.usage
           /\ N.restart = T.restart
           /\ \A o \in {"run", "enrich"} : N.barriers[o] = T.barriers[o]
           /\ \A o \in PrivateOp : N.barriers[o] = IF t.value.ops[o].state = "none"
                                                   THEN T.barriers[o] ELSE t.value.ops[o].state
<1> DEFINE now == Operations("private", t.value)
           N == NextOf(T, t, d)
<1>1. /\ DOMAIN now = Listed(t.value.ops)
      /\ \A o \in Listed(t.value.ops) : now[o] = t.value.ops[o].state
    BY PrivateOperations
<1>2. N = [barriers |-> [o \in Op |-> IF o \in DOMAIN now THEN now[o] ELSE T.barriers[o]],
           private |-> [checkpoint |-> t.value, usage |-> d.usage], restart |-> T.restart]
    BY DEF NextOf
<1>3. \A o \in Op : N.barriers[o] = IF o \in DOMAIN now THEN now[o] ELSE T.barriers[o]
    BY <1>2
<1>4. \A o \in PrivateOp : N.barriers[o] = IF t.value.ops[o].state = "none"
                                           THEN T.barriers[o] ELSE t.value.ops[o].state
    BY <1>1, <1>3 DEF Listed, Op
<1>5. \A o \in {"run", "enrich"} : N.barriers[o] = T.barriers[o]
    BY <1>1, <1>3 DEF Listed, Op, PrivateOp
<1>6. \A o \in Op : (IF o \in DOMAIN now THEN now[o] ELSE T.barriers[o]) \in {"none"} \cup StateName
    BY <1>1 DEF Shared, Listed, PrivateFile, Probe
<1>7. [checkpoint |-> t.value, usage |-> d.usage] \in SharedPrivate
    BY DEF SharedPrivate
<1>8. [checkpoint |-> t.value, usage |-> d.usage] # NoPayload
    BY <1>7, NoPayloadAssumption
<1> HIDE DEF now
<1>9. [o \in Op |-> IF o \in DOMAIN now THEN now[o] ELSE T.barriers[o]]
         \in [Op -> {"none"} \cup StateName]
    BY <1>6
<1>10. N \in Shared
    <2>1. T.restart \in RestartCapsule \cup {NoPayload}
        BY DEF Shared
    <2> HIDE DEF N
    <2> QED
        BY <1>2, <1>7, <1>9, <2>1 DEF Shared
<1> QED
    BY <1>2, <1>4, <1>5, <1>8, <1>10 DEF N

\* A transition that a runner may post is one.
LEMMA NextOfShared ==
    ASSUME Shape, NEW r \in Client, NEW T \in Shared, todo[r].file \in FileName,
           SaveInv("sync", todo[r], disk[r], passes[r], scenario)
    PROVE  NextOf(T, todo[r], disk[r]) \in Shared
<1> DEFINE t == todo[r]
           d == disk[r]
<1>1. d \in Files
    BY ShapeOf
<1>2. CASE t.file = "run"
    BY <1>2, NextOfRun DEF SaveInv, Saves, SavePlaces, RunPlan, RunFile
<1>3. CASE t.file = "enrich"
    BY <1>3, NextOfEnrich DEF SaveInv, Saves, SavePlaces, EnrichPlan
<1>4. CASE t.file = "private"
    BY <1>1, <1>4, NextOfPrivate DEF SaveInv, Saves, SavePlaces, PrivatePlan, Files
<1> QED
    BY <1>2, <1>3, <1>4 DEF FileName

-----------------------------------------------------------------------------
(***************************************************************************)
(* The local parts, step by step.                                          *)
(***************************************************************************)
Plan(t, d, n, sc) ==
    /\ t.file = "run" => RunPlan(t, d)
    /\ t.file = "enrich" => EnrichPlan(t, d)
    /\ t.file = "private" => PrivatePlan(t, d, n, sc)
    /\ t.file # "private" => n = 0

Order(file, value, then) == [NoTodo EXCEPT !.file = file, !.value = value, !.then = then]

LEMMA OrderFields ==
    ASSUME NEW file, NEW value, NEW then
    PROVE  /\ Order(file, value, then).file = file
           /\ Order(file, value, then).value = value
           /\ Order(file, value, then).then = then
BY DEF Order, NoTodo

LEMMA NoTodoTyped == NoTodo \in Todo
BY DEF NoTodo, Todo, NoFile

LEMMA SaveShape ==
    ASSUME Shape, NEW r \in Client, NEW file \in FileName,
           NEW value \in RunFile \cup EnrichFile \cup PrivateFile, NEW then \in Places,
           Save(r, file, value, then)
    PROVE  /\ todo' \in [Client -> Todo] /\ pc' \in [Client -> Places]
           /\ todo'[r] = Order(file, value, then)
           /\ pc'[r] = IF file = "private" /\ disk[r].private = NoFile THEN "snapshot" ELSE "sync"
<1> DEFINE t == Order(file, value, then)
<1>1. todo \in [Client -> Todo] /\ pc \in [Client -> Places]
    BY DEF Shape
<1>2. t \in Todo
    BY NoTodoTyped DEF Todo, Order
<1>3. todo' = [todo EXCEPT ![r] = t]
    BY DEF Save, Order
<1> HIDE DEF t
<1>4. todo' \in [Client -> Todo] /\ todo'[r] = t
    BY <1>1, <1>2, <1>3
<1>5. /\ pc' \in [Client -> Places]
      /\ pc'[r] = IF file = "private" /\ disk[r].private = NoFile THEN "snapshot" ELSE "sync"
    BY <1>1 DEF Save, Goto, Places
<1> QED
    BY <1>4, <1>5 DEF t

\* A save that was planned keeps the shape, and the local part of its runner.
LEMMA SaveKeeps ==
    ASSUME Shape, NEW r \in Client, NEW file \in FileName,
           NEW value \in RunFile \cup EnrichFile \cup PrivateFile, NEW then \in Places,
           Save(r, file, value, then), request[r] = NoRequest,
           UNCHANGED <<request, disk, passes, starts, scenario>>, calls' \in [Dispatch -> 0 .. 2],
           Plan(Order(file, value, then), disk[r], passes[r], scenario)
    PROVE  Shape' /\ Local(r)'
<1>1. /\ todo' \in [Client -> Todo] /\ pc' \in [Client -> Places]
      /\ todo'[r] = Order(file, value, then)
      /\ pc'[r] = IF file = "private" /\ disk[r].private = NoFile THEN "snapshot" ELSE "sync"
    BY SaveShape
<1>2. Shape'
    BY <1>1 DEF Shape, TypeOK
<1>3. /\ todo'[r].file \in FileName /\ pc'[r] \in {"snapshot", "sync"}
      /\ pc'[r] = "snapshot" => todo'[r].file = "private"
      /\ Plan(todo'[r], disk'[r], passes'[r], scenario')
    BY <1>1, OrderFields
<1>4. PlaceInv(pc'[r], todo'[r], disk'[r])
    BY <1>3 DEF PlaceInv, SavePlaces
<1>5. RequestsInv(pc'[r], todo'[r], request'[r])
    BY <1>3 DEF RequestsInv
<1>6. NormalInv(pc'[r], todo'[r], disk'[r], passes'[r])
    BY <1>3 DEF NormalInv, Stages, Plan
<1>7. SaveInv(pc'[r], todo'[r], disk'[r], passes'[r], scenario')
    BY <1>3 DEF SaveInv, Saves, Plan
<1>8. CoverageInv(pc'[r], todo'[r], disk'[r], passes'[r], scenario')
    BY <1>3 DEF CoverageInv, Working
<1> QED
    BY <1>2, <1>4, <1>5, <1>6, <1>7, <1>8 DEF Local, LocalInv

\* Before its first coverage pass a runner that writes nothing has little to keep.
LEMMA StageLocal ==
    ASSUME NEW r \in Client, request'[r] = NoRequest, passes'[r] = 0,
           \/ pc'[r] \in Stages \cup {"off", "open"}
           \/ pc'[r] \in {"snapshot", "snapshot head"} /\ todo'[r].file = "none",
           PlaceInv(pc'[r], todo'[r], disk'[r]),
           NormalInv(pc'[r], todo'[r], disk'[r], passes'[r])
    PROVE  Local(r)'
<1>1. RequestsInv(pc'[r], todo'[r], request'[r])
    BY DEF RequestsInv, Stages
<1>2. SaveInv(pc'[r], todo'[r], disk'[r], passes'[r], scenario')
    BY DEF SaveInv, Saves, SavePlaces, Stages
<1>3. CoverageInv(pc'[r], todo'[r], disk'[r], passes'[r], scenario')
    <2>1. pc'[r] \notin Working \cup {"decide", "restore usage"}
        BY DEF Working, Stages
    <2> QED
        BY <2>1 DEF CoverageInv
<1> QED
    BY <1>1, <1>2, <1>3 DEF Local, LocalInv

\* The runners that do not step.
LEMMA OthersLocal ==
    ASSUME NEW r \in Client, Frame(r), NEW s \in Client \ {r}, request'[s] = request[s], Local(s)
    PROVE  Local(s)'
BY DEF Local, Frame

LEMMA StartKeeps ==
    ASSUME Shape, NEW r \in Client, Local(r), Start(r)
    PROVE  Shape' /\ Local(r)'
<1> USE DEF Start
<1>1. Shape'
    <2>1. MaxPasses \in Nat /\ MaxStarts \in Nat
        BY PassesAssumption
    <2>2. starts' \in 0 .. MaxStarts
        BY <2>1 DEF Shape, TypeOK
    <2>3. passes' \in [Client -> 0 .. MaxPasses]
        BY <2>1 DEF Shape, TypeOK
    <2>4. pc' \in [Client -> Places]
        BY DEF Shape, Goto, Places
    <2> QED
        BY <2>2, <2>3, <2>4 DEF Shape, TypeOK
<1>2. pc'[r] = "restore" /\ passes'[r] = 0 /\ request'[r] = request[r]
    BY ShapeOf DEF Goto, Shape, TypeOK, journalVars
<1>3. request'[r] = NoRequest /\ todo'[r].file = "none"
    BY <1>2 DEF Local, LocalInv, RequestsInv, PlaceInv, At, SavePlaces
<1>4. PlaceInv(pc'[r], todo'[r], disk'[r])
    BY <1>2, <1>3 DEF PlaceInv
<1>5. NormalInv(pc'[r], todo'[r], disk'[r], passes'[r])
    BY <1>2 DEF NormalInv, SavePlaces
<1>6. pc'[r] \in Stages /\ passes'[r] = 0
    BY <1>2 DEF Stages
<1> HIDE DEF Start
<1> QED
    BY <1>1, <1>3, <1>4, <1>5, <1>6, StageLocal

LEMMA RestoreKeeps ==
    ASSUME Shape, NEW r \in Client, Local(r), Restore(r),
           DurableInv(Transition, Durable("restart"), scenario)
    PROVE  Shape' /\ Local(r)'
<1>1. passes[r] = 0 /\ request[r] = NoRequest /\ pc[r] = "restore" /\ todo[r].file = "none"
    BY DEF Restore, At, Local, LocalInv, NormalInv, RequestsInv, Stages, PlaceInv, SavePlaces
<1>2. passes' = passes /\ request' = request /\ starts' = starts /\ calls' = calls
    BY DEF Restore, Load
<1>3. CASE Goto(r, "run") /\ UNCHANGED <<disk, todo>>
    <2>1. Shape'
        BY <1>2, <1>3 DEF Shape, TypeOK, Goto, Places
    <2>2. pc'[r] = "run"
        BY <1>3 DEF Shape, Goto
    <2> QED
        BY <1>1, <1>2, <1>3, <2>1, <2>2, StageLocal
        DEF Stages, PlaceInv, NormalInv, SavePlaces
<1>4. CASE /\ RestartState # NoPayload /\ Restorable(RestartState)
           /\ disk' = [disk EXCEPT ![r].run = RestartState.run]
           /\ Goto(r, "restored") /\ Keep(r, RestartState.enrich)
    <2>1. RestartState \in RestartCapsule
        BY <1>4 DEF DurableInv, RestartState, Shared
    <2>2. /\ RestartState.run = "completed" /\ RestartState.enrich \in EnrichFile
          /\ RestartState.enrich.status # "none"
        BY <2>1 DEF RestartCapsule
    <2>3. disk \in [Client -> Files]
        BY ShapeOf
    <2>4. disk' \in [Client -> Files] /\ disk'[r].run = "completed"
        BY <1>4, <2>2, <2>3 DEF Files, RunFile
    <2>5. /\ todo' \in [Client -> Todo] /\ todo'[r].value = RestartState.enrich
          /\ todo'[r].file = "none" /\ pc' \in [Client -> Places] /\ pc'[r] = "restored"
        BY <1>4, <2>2, NoTodoTyped DEF Shape, Keep, Todo, NoTodo, Goto, Places
    <2>6. Shape'
        BY <1>2, <2>4, <2>5 DEF Shape, TypeOK, Files
    <2> QED
        BY <1>1, <1>2, <2>2, <2>4, <2>5, <2>6, StageLocal
        DEF Stages, PlaceInv, NormalInv, SavePlaces
<1> QED
    BY <1>3, <1>4 DEF Restore

LEMMA RestoreEnrichKeeps ==
    ASSUME Shape, NEW r \in Client, Local(r), RestoreEnrich(r)
    PROVE  Shape' /\ Local(r)'
<1>1. /\ passes[r] = 0 /\ request[r] = NoRequest /\ pc[r] = "restored"
      /\ todo[r].value \in EnrichFile /\ disk[r].run = "completed"
    BY DEF RestoreEnrich, At, Local, LocalInv, NormalInv, RequestsInv, Stages, PlaceInv
<1>2. passes' = passes /\ request' = request /\ starts' = starts /\ calls' = calls
    BY DEF RestoreEnrich, journalVars
<1>3. disk \in [Client -> Files]
    BY ShapeOf
<1>4. disk' \in [Client -> Files] /\ disk'[r].run = "completed"
    BY <1>1, <1>3 DEF RestoreEnrich, Files
<1>5. todo' \in [Client -> Todo] /\ todo'[r].file = "none"
    BY NoTodoTyped DEF RestoreEnrich, Shape, NoTodo
<1>6. pc' \in [Client -> Places] /\ pc'[r] \in {"snapshot", "enrich"}
    BY DEF RestoreEnrich, Shape, Goto, Places
<1>7. Shape'
    BY <1>2, <1>4, <1>5, <1>6 DEF Shape, TypeOK, Files
<1> QED
    BY <1>1, <1>2, <1>4, <1>5, <1>6, <1>7, StageLocal
    DEF Stages, PlaceInv, NormalInv, SavePlaces

LEMMA SendTyped ==
    ASSUME Shape, NEW x, Send(x)
    PROVE  calls' \in [Dispatch -> 0 .. 2]
<1>1. calls \in [Dispatch -> 0 .. 2] /\ calls' = [calls EXCEPT ![x] = IF @ = 0 THEN 1 ELSE 2]
    BY DEF Shape, TypeOK, Send
<1>2. 1 \in 0 .. 2 /\ 2 \in 0 .. 2
    OBVIOUS
<1>3. ASSUME NEW y \in Dispatch PROVE calls'[y] \in 0 .. 2
    BY <1>1, <1>2
<1> QED
    BY <1>1, <1>3

LEMMA RunKeeps ==
    ASSUME Shape, NEW r \in Client, Local(r), Run(r)
    PROVE  Shape' /\ Local(r)'
<1>1. passes[r] = 0 /\ request[r] = NoRequest /\ todo[r].file = "none"
    BY DEF Run, At, Local, LocalInv, NormalInv, RequestsInv, Stages, PlaceInv, SavePlaces
<1>2. UNCHANGED <<request, disk, passes, starts, scenario, calls>>
    BY DEF Run, journalVars, Stay
<1>3. CASE disk[r].run = "completed" /\ Goto(r, "enrich") /\ UNCHANGED todo
    <2>1. pc' \in [Client -> Places] /\ pc'[r] = "enrich"
        BY <1>3 DEF Shape, Goto, Places
    <2>2. Shape'
        BY <1>2, <1>3, <2>1 DEF Shape, TypeOK
    <2> QED
        BY <1>1, <1>2, <1>3, <2>1, <2>2, StageLocal DEF Stages, PlaceInv, NormalInv, SavePlaces
<1>4. CASE disk[r].run = NewRun /\ Save(r, "run", "in_flight", "call run")
    <2>1. Plan(Order("run", "in_flight", "call run"), disk[r], passes[r], scenario)
        <3> DEFINE t == Order("run", "in_flight", "call run")
        <3>1. t.file = "run" /\ t.value = "in_flight" /\ t.then = "call run"
            BY DEF Order, NoTodo
        <3> HIDE DEF t
        <3>2. Plan(t, disk[r], passes[r], scenario)
            BY <1>1, <1>4, <3>1 DEF Plan, RunPlan, NewRun
        <3> QED
            BY <3>2 DEF t
    <2>2. calls' \in [Dispatch -> 0 .. 2]
        BY <1>2 DEF Shape, TypeOK
    <2> QED
        BY <1>1, <1>2, <1>4, <2>1, <2>2, SaveKeeps DEF FileName, RunFile, Places
<1> QED
    BY <1>3, <1>4 DEF Run

LEMMA CallRunKeeps ==
    ASSUME Shape, NEW r \in Client, Local(r), CallRun(r)
    PROVE  Shape' /\ Local(r)'
<1>1. passes[r] = 0 /\ request[r] = NoRequest /\ disk[r].run = "in_flight"
    BY DEF CallRun, At, Local, LocalInv, NormalInv, RequestsInv, Stages
<1>2. /\ UNCHANGED <<request, disk, passes, starts, scenario>>
      /\ Send(<<"run", 0>>) /\ Save(r, "run", "completed", "enrich")
    BY DEF CallRun, journalVars
<1>3. calls' \in [Dispatch -> 0 .. 2]
    BY <1>2, SendTyped
<1>4. Plan(Order("run", "completed", "enrich"), disk[r], passes[r], scenario)
    BY <1>1, OrderFields DEF Plan, RunPlan
<1> QED
    BY <1>1, <1>2, <1>3, <1>4, SaveKeeps DEF FileName, RunFile, Places

LEMMA EnrichKeeps ==
    ASSUME Shape, NEW r \in Client, Local(r), Enrich(r)
    PROVE  Shape' /\ Local(r)'
<1> DEFINE e == disk[r].enrich
<1>1. /\ passes[r] = 0 /\ request[r] = NoRequest /\ todo[r].file = "none"
      /\ disk[r].run = "completed"
    BY DEF Enrich, At, Local, LocalInv, NormalInv, RequestsInv, Stages, PlaceInv, SavePlaces
<1>2. /\ UNCHANGED <<request, disk, passes, starts, scenario, calls>>
      /\ calls' \in [Dispatch -> 0 .. 2]
    BY DEF Enrich, journalVars, Stay, Shape, TypeOK
<1>3. e \in EnrichFile /\ ReadLimit \in Nat
    BY ShapeOf, PassesAssumption DEF Files
<1>4. CASE e.status = "completed" /\ Goto(r, "snapshot") /\ UNCHANGED todo
    <2>1. pc' \in [Client -> Places] /\ pc'[r] = "snapshot"
        BY <1>4 DEF Shape, Goto, Places
    <2>2. Shape'
        BY <1>2, <1>4, <2>1 DEF Shape, TypeOK
    <2> QED
        BY <1>1, <1>2, <1>4, <2>1, <2>2, StageLocal
        DEF Stages, PlaceInv, NormalInv, SavePlaces
<1>5. ASSUME NEW value \in EnrichFile, value.status # "none", NEW then \in Places,
             Save(r, "enrich", value, then),
             then \in {"call enrich", "read enrich", "snapshot"},
             value.op = "in_flight" <=> then = "call enrich",
             then = "call enrich" => e.status = "none",
             then = "read enrich" => value.reads > 0 /\ value.op = "pending"
      PROVE  Shape' /\ Local(r)'
    <2>1. EnrichPlan(Order("enrich", value, then), disk[r])
        <3> DEFINE t == Order("enrich", value, then)
        <3>1. t.value = value /\ t.then = then
            BY OrderFields
        <3> HIDE DEF t
        <3>2. EnrichPlan(t, disk[r])
            BY <1>1, <1>5, <3>1 DEF EnrichPlan
        <3> QED
            BY <3>2 DEF t
    <2>2. Plan(Order("enrich", value, then), disk[r], passes[r], scenario)
        BY <1>1, <2>1, OrderFields DEF Plan
    <2> QED
        BY <1>1, <1>2, <1>5, <2>2, SaveKeeps DEF FileName
<1>6. CASE /\ e.status = "none"
           /\ Save(r, "enrich", [NewEnrich EXCEPT !.status = "completed"], "snapshot")
    <2>1. [NewEnrich EXCEPT !.status = "completed"] \in EnrichFile
        BY <1>3 DEF NewEnrich, EnrichFile
    <2> QED
        BY <1>5, <1>6, <2>1 DEF NewEnrich, Places
<1>7. CASE /\ e.status = "none"
           /\ Save(r, "enrich", [status |-> "running", op |-> "in_flight", reads |-> 0],
                   "call enrich")
    <2>1. [status |-> "running", op |-> "in_flight", reads |-> 0] \in EnrichFile
        BY <1>3 DEF EnrichFile, StateName
    <2> QED
        BY <1>5, <1>7, <2>1 DEF Places
<1>8. CASE /\ e.status = "paused_pending" /\ e.op = "pending" /\ e.reads < ReadLimit
           /\ Save(r, "enrich", [e EXCEPT !.reads = @ + 1], "read enrich")
    <2>1. [e EXCEPT !.reads = @ + 1] \in EnrichFile
        <3>1. e.reads \in 0 .. ReadLimit
            BY <1>3 DEF EnrichFile
        <3>2. e.reads < ReadLimit
            BY <1>8
        <3> HIDE DEF e
        <3>3. e.reads + 1 \in 0 .. ReadLimit
            BY <1>3, <3>1, <3>2
        <3> QED
            BY <1>3, <1>8, <3>3 DEF EnrichFile
    <2>2. [e EXCEPT !.reads = @ + 1].reads > 0
        BY <1>3 DEF EnrichFile
    <2>3. [e EXCEPT !.reads = @ + 1].status = e.status /\ [e EXCEPT !.reads = @ + 1].op = e.op
        BY <1>3 DEF EnrichFile
    <2> QED
        BY <1>5, <1>8, <2>1, <2>2, <2>3 DEF Places
<1> HIDE DEF e
<1> QED
    BY <1>4, <1>6, <1>7, <1>8 DEF Enrich, e

LEMMA CallEnrichKeeps ==
    ASSUME Shape, NEW r \in Client, Local(r), CallEnrich(r)
    PROVE  Shape' /\ Local(r)'
<1> DEFINE e == disk[r].enrich
           v == [e EXCEPT !.op = "pending"]
           t == Order("enrich", v, "pause enrich")
<1>1. /\ passes[r] = 0 /\ request[r] = NoRequest /\ disk[r].run = "completed" /\ e.status # "none"
    BY DEF CallEnrich, At, Local, LocalInv, NormalInv, RequestsInv, Stages
<1>2. /\ UNCHANGED <<request, disk, passes, starts, scenario>>
      /\ Send(<<"enrich", 0>>) /\ Save(r, "enrich", v, "pause enrich")
    BY DEF CallEnrich, journalVars
<1>3. calls' \in [Dispatch -> 0 .. 2]
    BY <1>2, SendTyped
<1>4. e \in EnrichFile
    BY ShapeOf DEF Files
<1>5. v \in EnrichFile /\ v.status = e.status /\ v.op = "pending"
    BY <1>1, <1>4 DEF EnrichFile, StateName
<1>6. t.file = "enrich" /\ t.value = v /\ t.then = "pause enrich"
    BY DEF Order, NoTodo
<1> HIDE DEF e, v, t
<1>7. Plan(t, disk[r], passes[r], scenario)
    BY <1>1, <1>5, <1>6 DEF Plan, EnrichPlan
<1> QED
    BY <1>1, <1>2, <1>3, <1>5, <1>7, SaveKeeps DEF FileName, Places, t

LEMMA PauseEnrichKeeps ==
    ASSUME Shape, NEW r \in Client, Local(r), PauseEnrich(r)
    PROVE  Shape' /\ Local(r)'
<1> DEFINE e == disk[r].enrich
           v == [e EXCEPT !.status = "paused_pending"]
           t == Order("enrich", v, "enrich")
<1>1. /\ passes[r] = 0 /\ request[r] = NoRequest /\ disk[r].run = "completed" /\ e.op = "pending"
    BY DEF PauseEnrich, At, Local, LocalInv, NormalInv, RequestsInv, Stages
<1>2. /\ UNCHANGED <<request, disk, passes, starts, scenario, calls>>
      /\ Save(r, "enrich", v, "enrich")
    BY DEF PauseEnrich, journalVars, Stay
<1>3. calls' \in [Dispatch -> 0 .. 2]
    BY <1>2 DEF Shape, TypeOK
<1>4. e \in EnrichFile
    BY ShapeOf DEF Files
<1>5. v \in EnrichFile /\ v.status = "paused_pending" /\ v.op = "pending"
    BY <1>1, <1>4 DEF EnrichFile
<1>6. t.file = "enrich" /\ t.value = v /\ t.then = "enrich"
    BY DEF Order, NoTodo
<1> HIDE DEF e, v, t
<1>7. Plan(t, disk[r], passes[r], scenario)
    BY <1>1, <1>5, <1>6 DEF Plan, EnrichPlan
<1> QED
    BY <1>1, <1>2, <1>3, <1>5, <1>7, SaveKeeps DEF FileName, Places, t

LEMMA ReadEnrichKeeps ==
    ASSUME Shape, NEW r \in Client, Local(r), ReadEnrich(r)
    PROVE  Shape' /\ Local(r)'
<1> DEFINE e == disk[r].enrich
           done == [e EXCEPT !.op = "completed", !.reads = 0]
<1>1. /\ passes[r] = 0 /\ request[r] = NoRequest /\ disk[r].run = "completed"
      /\ e.op = "pending" /\ e.status # "none"
    BY DEF ReadEnrich, At, Local, LocalInv, NormalInv, RequestsInv, Stages
<1>2. /\ UNCHANGED <<request, disk, passes, starts, scenario>> /\ Send(<<"enrich", e.reads>>)
      /\ Save(r, "enrich", e, "enrich") \/ Save(r, "enrich", done, "finish enrich")
    BY DEF ReadEnrich, journalVars
<1>3. calls' \in [Dispatch -> 0 .. 2]
    BY <1>2, SendTyped
<1>4. e \in EnrichFile /\ ReadLimit \in Nat
    BY ShapeOf, PassesAssumption DEF Files
<1>5. done \in EnrichFile /\ done.status = e.status /\ done.op = "completed"
    <2>1. 0 \in 0 .. ReadLimit
        BY <1>4
    <2> HIDE DEF e
    <2> QED
        BY <1>1, <1>4, <2>1 DEF EnrichFile, StateName
<1>6. ASSUME NEW v \in EnrichFile, v.status # "none", NEW then \in {"enrich", "finish enrich"},
             v.op = IF then = "enrich" THEN "pending" ELSE "completed"
      PROVE  Plan(Order("enrich", v, then), disk[r], passes[r], scenario)
    <2> DEFINE t == Order("enrich", v, then)
    <2>1. t.file = "enrich" /\ t.value = v /\ t.then = then
        BY DEF Order, NoTodo
    <2> HIDE DEF t
    <2>2. Plan(t, disk[r], passes[r], scenario)
        BY <1>1, <1>6, <2>1 DEF Plan, EnrichPlan
    <2> QED
        BY <2>2 DEF t
<1>7. CASE Save(r, "enrich", e, "enrich")
    BY <1>1, <1>2, <1>3, <1>4, <1>6, <1>7, SaveKeeps DEF FileName, Places
<1>8. CASE Save(r, "enrich", done, "finish enrich")
    <2>1. Plan(Order("enrich", done, "finish enrich"), disk[r], passes[r], scenario)
        BY <1>1, <1>5, <1>6
    <2> HIDE DEF done, e
    <2> QED
        BY <1>1, <1>2, <1>3, <1>5, <1>8, <2>1, SaveKeeps DEF FileName, Places
<1> QED
    BY <1>2, <1>7, <1>8

LEMMA FinishEnrichKeeps ==
    ASSUME Shape, NEW r \in Client, Local(r), FinishEnrich(r)
    PROVE  Shape' /\ Local(r)'
<1> DEFINE e == disk[r].enrich
           v == [e EXCEPT !.status = "completed"]
           t == Order("enrich", v, "snapshot")
<1>1. /\ passes[r] = 0 /\ request[r] = NoRequest /\ disk[r].run = "completed"
      /\ e.op = "completed" /\ e.status # "none"
    BY DEF FinishEnrich, At, Local, LocalInv, NormalInv, RequestsInv, Stages
<1>2. /\ UNCHANGED <<request, disk, passes, starts, scenario, calls>>
      /\ Save(r, "enrich", v, "snapshot")
    BY DEF FinishEnrich, journalVars, Stay
<1>3. calls' \in [Dispatch -> 0 .. 2]
    BY <1>2 DEF Shape, TypeOK
<1>4. e \in EnrichFile
    BY ShapeOf DEF Files
<1>5. v \in EnrichFile /\ v.status = "completed" /\ v.op = "completed"
    BY <1>1, <1>4 DEF EnrichFile
<1>6. t.file = "enrich" /\ t.value = v /\ t.then = "snapshot"
    BY DEF Order, NoTodo
<1> HIDE DEF e, v, t
<1>7. Plan(t, disk[r], passes[r], scenario)
    BY <1>1, <1>5, <1>6 DEF Plan, EnrichPlan
<1> QED
    BY <1>1, <1>2, <1>3, <1>5, <1>7, SaveKeeps DEF FileName, Places, t

\* A runner that goes from one place of a save to the next.
LEMMA SaveMoves ==
    ASSUME NEW r \in Client, Local(r), pc[r] \in SavePlaces, pc'[r] \in SavePlaces,
           disk'[r] = disk[r], passes'[r] = passes[r], scenario' = scenario,
           todo'[r].file = todo[r].file, todo'[r].value = todo[r].value,
           todo'[r].then = todo[r].then,
           PlaceInv(pc'[r], todo'[r], disk'[r]), RequestsInv(pc'[r], todo'[r], request'[r])
    PROVE  Local(r)'
<1>1. NormalInv(pc'[r], todo'[r], disk'[r], passes'[r])
    BY DEF Local, LocalInv, NormalInv, SavePlaces, Stages
<1>2. CoverageInv(pc'[r], todo'[r], disk'[r], passes'[r], scenario')
    <2>1. pc'[r] \notin Working \cup {"decide", "restore usage", "open"}
        BY DEF Working, SavePlaces
    <2> QED
        BY <2>1 DEF CoverageInv
<1>3. SaveInv(pc[r], todo[r], disk[r], passes[r], scenario)
    BY DEF Local, LocalInv
<1>4. SaveInv(pc'[r], todo'[r], disk'[r], passes'[r], scenario')
    <2>1. RunPlan(todo[r], disk[r]) => RunPlan(todo'[r], disk'[r])
        BY DEF RunPlan
    <2>2. EnrichPlan(todo[r], disk[r]) => EnrichPlan(todo'[r], disk'[r])
        BY DEF EnrichPlan
    <2>3. \A o \in PrivateOp : PlanFor(o, todo[r], disk[r], passes[r])
                             => PlanFor(o, todo'[r], disk'[r], passes'[r])
        BY DEF PlanFor
    <2>4. PrivatePlan(todo[r], disk[r], passes[r], scenario)
          => PrivatePlan(todo'[r], disk'[r], passes'[r], scenario')
        BY <2>3 DEF PrivatePlan
    <2> QED
        BY <1>3, <2>1, <2>2, <2>4 DEF SaveInv, Saves
<1> QED
    BY <1>1, <1>2, <1>4 DEF Local, LocalInv

LEMMA SnapshotKeeps ==
    ASSUME Shape, NEW r \in Client, Local(r), DOMAIN request = Client,
           Snapshot(r) \/ SnapshotHead(r) \/ SnapshotDone(r)
    PROVE  Shape' /\ Local(r)'
<1>1. /\ pc[r] \in SavePlaces /\ todo[r].file \in {"none", "private"}
      /\ UNCHANGED <<disk, passes, starts, scenario, calls>>
    BY DEF Snapshot, SnapshotHead, SnapshotDone, At, Stay, Local, LocalInv, PlaceInv, SavePlaces
<1>2. todo[r].file = "none" => passes[r] = 0
    BY <1>1 DEF Local, LocalInv, NormalInv
<1>3. /\ todo \in [Client -> Todo] /\ pc \in [Client -> Places] /\ disk[r] \in Files
    BY ShapeOf DEF Shape
<1>4. todo' \in [Client -> Todo] /\ pc' \in [Client -> Places]
      => Shape'
    BY <1>1 DEF Shape, TypeOK
<1>5. ASSUME /\ todo'[r].file = todo[r].file /\ todo'[r].value = todo[r].value
             /\ todo'[r].then = todo[r].then,
             pc'[r] = AfterSnapshot(r), request'[r] = NoRequest
      PROVE  Local(r)'
    <2>1. CASE todo[r].file = "private"
        <3>1. pc'[r] = "sync"
            BY <1>5, <2>1 DEF AfterSnapshot
        <3>2. PlaceInv(pc'[r], todo'[r], disk'[r]) /\ RequestsInv(pc'[r], todo'[r], request'[r])
            BY <1>5, <2>1, <3>1 DEF PlaceInv, RequestsInv, FileName, SavePlaces
        <3> QED
            BY <1>1, <1>5, <3>1, <3>2, SaveMoves DEF SavePlaces
    <2>2. CASE todo[r].file = "none"
        <3>1. pc'[r] = "open" /\ passes'[r] = 0 /\ todo'[r].file = "none"
            BY <1>1, <1>2, <1>5, <2>2 DEF AfterSnapshot
        <3>2. PlaceInv(pc'[r], todo'[r], disk'[r])
            BY <3>1 DEF PlaceInv
        <3>3. NormalInv(pc'[r], todo'[r], disk'[r], passes'[r])
            BY <3>1 DEF NormalInv
        <3> QED
            BY <1>5, <3>1, <3>2, <3>3, StageLocal
    <2> QED
        BY <1>1, <2>1, <2>2
<1>6. AfterSnapshot(r) \in Places
    BY DEF AfterSnapshot, Places
<1>7. CASE Snapshot(r)
    <2>1. /\ pc[r] = "snapshot" /\ request[r] = NoRequest /\ request' = request /\ todo' = todo
          /\ Restorable(Capsule(disk[r]))
        BY <1>7 DEF Snapshot, At, Load
    <2>2. CASE Goto(r, AfterSnapshot(r))
        <3>1. pc' \in [Client -> Places] /\ pc'[r] = AfterSnapshot(r)
            BY <1>3, <1>6, <2>2 DEF Goto
        <3> QED
            BY <1>3, <1>4, <1>5, <2>1, <3>1
    <2>3. CASE Goto(r, "snapshot head")
        <3>1. pc' \in [Client -> Places] /\ pc'[r] = "snapshot head"
            BY <1>3, <2>3 DEF Goto, Places
        <3>2. PlaceInv(pc'[r], todo'[r], disk'[r]) /\ RequestsInv(pc'[r], todo'[r], request'[r])
            BY <1>1, <2>1, <3>1 DEF PlaceInv, RequestsInv, SavePlaces
        <3> QED
            BY <1>1, <1>3, <1>4, <2>1, <3>1, <3>2, SaveMoves DEF SavePlaces
    <2> QED
        BY <1>7, <2>2, <2>3 DEF Snapshot
<1>8. CASE SnapshotHead(r)
    <2>1. /\ pc[r] = "snapshot head" /\ request[r] = NoRequest /\ request' = request
          /\ Restorable(Capsule(disk[r]))
        BY <1>8 DEF SnapshotHead, At, Load, Local, LocalInv, PlaceInv
    <2>2. CASE Goto(r, AfterSnapshot(r)) /\ UNCHANGED todo
        <3>1. pc' \in [Client -> Places] /\ pc'[r] = AfterSnapshot(r)
            BY <1>3, <1>6, <2>2 DEF Goto
        <3> QED
            BY <1>3, <1>4, <1>5, <2>1, <2>2, <3>1
    <2>3. CASE Goto(r, "persist") /\ Post(r, "restart", Capsule(disk[r]))
        <3>1. pc' \in [Client -> Places] /\ pc'[r] = "persist"
            BY <1>3, <2>3 DEF Goto, Places
        <3>2. Capsule(disk[r]) \in RestartCapsule
            BY <1>3, <2>1 DEF Capsule, RestartCapsule, Restorable, Files
        <3>3. /\ todo' = [todo EXCEPT ![r].kind = "restart", ![r].payload = Capsule(disk[r])]
            BY <2>3 DEF Post
        <3>4. /\ todo' \in [Client -> Todo] /\ todo'[r].kind = "restart"
              /\ todo'[r].file = todo[r].file /\ todo'[r].value = todo[r].value
              /\ todo'[r].then = todo[r].then
            BY <1>3, <3>2, <3>3 DEF Todo, Kind
        <3>5. PlaceInv(pc'[r], todo'[r], disk'[r])
            BY <1>1, <3>1, <3>4 DEF PlaceInv, SavePlaces
        <3>6. RequestsInv(pc'[r], todo'[r], request'[r])
            <4>1. NoRequest.phase = "none" /\ request'[r] = NoRequest
                BY <2>1 DEF NoRequest
            <4> QED
                BY <3>1, <4>1 DEF RequestsInv
        <3> QED
            BY <1>1, <1>4, <2>1, <3>1, <3>4, <3>5, <3>6, SaveMoves DEF SavePlaces
    <2> QED
        BY <1>8, <2>2, <2>3 DEF SnapshotHead
<1>9. CASE SnapshotDone(r)
    <2>1. /\ Goto(r, AfterSnapshot(r)) /\ request' = [request EXCEPT ![r] = NoRequest]
          /\ todo' = [todo EXCEPT ![r].kind = "none", ![r].payload = NoPayload]
          /\ request[r].phase = "confirm"
        BY <1>9 DEF SnapshotDone, Confirm
    <2>2. pc' \in [Client -> Places] /\ pc'[r] = AfterSnapshot(r)
        BY <1>3, <1>6, <2>1 DEF Goto
    <2>3. /\ todo' \in [Client -> Todo]
          /\ todo'[r].file = todo[r].file /\ todo'[r].value = todo[r].value
          /\ todo'[r].then = todo[r].then
        BY <1>3, <2>1 DEF Todo
    <2> QED
        BY <1>4, <1>5, <2>1, <2>2, <2>3
<1> QED
    BY <1>7, <1>8, <1>9

LEMMA StopKeeps ==
    ASSUME Shape, NEW r \in Client, Stop(r), DOMAIN request = Client
    PROVE  Shape' /\ Local(r)'
<1>1. /\ todo' = [todo EXCEPT ![r] = NoTodo] /\ pc' = [pc EXCEPT ![r] = "off"]
      /\ request' = [request EXCEPT ![r] = NoRequest]
      /\ UNCHANGED <<disk, passes, starts, scenario, calls>>
    BY DEF Stop, GiveUp, Goto, Stay
<1>2. todo' \in [Client -> Todo] /\ pc' \in [Client -> Places]
    BY <1>1, NoTodoTyped DEF Shape, Places
<1>3. pc'[r] = "off" /\ request'[r] = NoRequest /\ todo'[r].file = "none"
    BY <1>1 DEF Shape, NoTodo
<1>4. Shape'
    BY <1>1, <1>2 DEF Shape, TypeOK
<1>5. PlaceInv(pc'[r], todo'[r], disk'[r]) /\ RequestsInv(pc'[r], todo'[r], request'[r])
    BY <1>3 DEF PlaceInv, RequestsInv
<1>6. NormalInv(pc'[r], todo'[r], disk'[r], passes'[r])
    BY <1>3 DEF NormalInv, Stages, SavePlaces
<1>7. SaveInv(pc'[r], todo'[r], disk'[r], passes'[r], scenario')
    BY <1>3 DEF SaveInv, Saves, SavePlaces
<1>8. CoverageInv(pc'[r], todo'[r], disk'[r], passes'[r], scenario')
    BY <1>3 DEF CoverageInv, Working
<1> QED
    BY <1>4, <1>5, <1>6, <1>7, <1>8 DEF Local, LocalInv

LEMMA SkipSyncKeeps ==
    ASSUME Shape, NEW r \in Client, Local(r), SkipSync(r)
    PROVE  Shape' /\ Local(r)'
<1>1. /\ pc[r] = "sync" /\ Goto(r, "write") /\ UNCHANGED <<request, todo>>
      /\ UNCHANGED <<disk, passes, starts, scenario, calls>>
    BY DEF SkipSync, At, Stay, journalVars
<1>2. todo[r].file \in FileName /\ request[r] = NoRequest
    BY <1>1 DEF Local, LocalInv, PlaceInv, RequestsInv
<1>3. pc' \in [Client -> Places] /\ pc'[r] = "write"
    BY <1>1 DEF Goto, Shape, Places
<1>4. Shape'
    BY <1>1, <1>3 DEF Shape, TypeOK
<1>5. PlaceInv(pc'[r], todo'[r], disk'[r]) /\ RequestsInv(pc'[r], todo'[r], request'[r])
    BY <1>1, <1>2, <1>3 DEF PlaceInv, RequestsInv, SavePlaces
<1> QED
    BY <1>1, <1>3, <1>4, <1>5, SaveMoves DEF SavePlaces

LEMMA SyncKeeps ==
    ASSUME Shape, NEW r \in Client, Local(r), Sync(r), Transition \in Shared
    PROVE  Shape' /\ Local(r)'
<1>1. /\ pc[r] = "sync" /\ request' = request
      /\ UNCHANGED <<disk, passes, starts, scenario, calls>>
    BY DEF Sync, At, Stay, Load
<1>2. todo[r].file \in FileName /\ request[r] = NoRequest
    BY <1>1 DEF Local, LocalInv, PlaceInv, RequestsInv
<1>3. /\ todo \in [Client -> Todo] /\ pc \in [Client -> Places]
    BY DEF Shape
<1>4. todo' \in [Client -> Todo] /\ pc' \in [Client -> Places] => Shape'
    BY <1>1 DEF Shape, TypeOK
<1>5. CASE Goto(r, "write") /\ UNCHANGED todo
    <2>1. pc' \in [Client -> Places] /\ pc'[r] = "write"
        BY <1>3, <1>5 DEF Goto, Places
    <2>2. PlaceInv(pc'[r], todo'[r], disk'[r]) /\ RequestsInv(pc'[r], todo'[r], request'[r])
        BY <1>1, <1>2, <1>5, <2>1 DEF PlaceInv, RequestsInv, SavePlaces
    <2> QED
        BY <1>1, <1>3, <1>4, <1>5, <2>1, <2>2, SaveMoves DEF SavePlaces
<1>6. CASE Goto(r, "persist") /\ Post(r, "transition", NextTransition(r))
    <2>1. pc' \in [Client -> Places] /\ pc'[r] = "persist"
        BY <1>3, <1>6 DEF Goto, Places
    <2>2. NextTransition(r) = NextOf(Transition, todo[r], disk[r])
        BY DEF NextTransition, NextOf
    <2>3. SaveInv("sync", todo[r], disk[r], passes[r], scenario)
        BY <1>1 DEF Local, LocalInv
    <2>4. NextTransition(r) \in Shared
        BY <1>2, <2>2, <2>3, NextOfShared
    <2>5. todo' = [todo EXCEPT ![r].kind = "transition", ![r].payload = NextTransition(r)]
        BY <1>6 DEF Post
    <2>6. /\ todo' \in [Client -> Todo] /\ todo'[r].kind = "transition"
          /\ todo'[r].file = todo[r].file /\ todo'[r].value = todo[r].value
          /\ todo'[r].then = todo[r].then
        BY <1>3, <2>4, <2>5 DEF Todo, Kind
    <2>7. PlaceInv(pc'[r], todo'[r], disk'[r])
        BY <1>2, <2>1, <2>6 DEF PlaceInv, SavePlaces
    <2>8. RequestsInv(pc'[r], todo'[r], request'[r])
        <3>1. NoRequest.phase = "none" /\ request'[r] = NoRequest
            BY <1>1, <1>2 DEF NoRequest
        <3> QED
            BY <2>1, <3>1 DEF RequestsInv
    <2> QED
        BY <1>1, <1>4, <2>1, <2>6, <2>7, <2>8, SaveMoves DEF SavePlaces
<1> QED
    BY <1>5, <1>6 DEF Sync

LEMMA PersistKeeps ==
    ASSUME Shape, NEW r \in Client, Local(r), Persist(r), DOMAIN request = Client
    PROVE  Shape' /\ Local(r)'
<1>1. /\ pc[r] = "persist" /\ UNCHANGED <<pc, todo, disk, passes, starts, scenario, calls>>
    BY DEF Persist, At, Stay
<1>2. Shape'
    BY <1>1 DEF Shape, TypeOK
<1>3. /\ request'[r].phase \in {"upload", "commit", "confirm"}
      /\ request'[r].phase \in {"upload", "commit"} =>
           request'[r].kind = todo[r].kind /\ request'[r].payload = todo[r].payload
    <2>1. CASE Check(r, todo[r].kind, todo[r].payload)
        BY <2>1 DEF Check
    <2>2. CASE Upload(r)
        BY <1>1, <2>2 DEF Upload, Onward, Local, LocalInv, RequestsInv
    <2>3. CASE Commit(r)
        BY <2>3 DEF Commit, Onward
    <2> QED
        BY <2>1, <2>2, <2>3 DEF Persist
<1>4. RequestsInv(pc'[r], todo'[r], request'[r])
    BY <1>1, <1>3 DEF RequestsInv
<1>5. PlaceInv(pc'[r], todo'[r], disk'[r])
    BY <1>1 DEF Local, LocalInv
<1> QED
    BY <1>1, <1>2, <1>4, <1>5, SaveMoves DEF SavePlaces

\* Where a save goes on, with the file it wrote.
LEMMA AfterRun ==
    ASSUME NEW r \in Client, Local(r), todo[r].file = "run", pc[r] \in SavePlaces,
           pc'[r] = todo[r].then, disk'[r].run = todo[r].value, todo'[r].file = "none",
           request'[r] = NoRequest, passes'[r] = passes[r]
    PROVE  Local(r)'
<1>1. RunPlan(todo[r], disk[r]) /\ passes'[r] = 0
    BY DEF Local, LocalInv, SaveInv, Saves, NormalInv
<1>2. \/ pc'[r] = "call run" /\ disk'[r].run = "in_flight"
      \/ pc'[r] = "enrich" /\ disk'[r].run = "completed"
    BY <1>1 DEF RunPlan
<1>3. PlaceInv(pc'[r], todo'[r], disk'[r])
    BY <1>2 DEF PlaceInv
<1>4. NormalInv(pc'[r], todo'[r], disk'[r], passes'[r])
    BY <1>1, <1>2 DEF NormalInv
<1>5. pc'[r] \in Stages
    BY <1>2 DEF Stages
<1> QED
    BY <1>1, <1>3, <1>4, <1>5, StageLocal

LEMMA AfterEnrich ==
    ASSUME NEW r \in Client, Local(r), todo[r].file = "enrich", pc[r] \in SavePlaces,
           pc'[r] = todo[r].then, disk'[r].enrich = todo[r].value, disk'[r].run = disk[r].run,
           todo'[r].file = "none", request'[r] = NoRequest, passes'[r] = passes[r]
    PROVE  Local(r)'
<1>1. EnrichPlan(todo[r], disk[r]) /\ passes'[r] = 0
    BY DEF Local, LocalInv, SaveInv, Saves, NormalInv
<1>2. /\ pc'[r] \in {"call enrich", "pause enrich", "read enrich", "enrich", "finish enrich",
                     "snapshot"}
      /\ disk'[r].run = "completed" /\ disk'[r].enrich.status # "none"
      /\ pc'[r] = "call enrich" => disk'[r].enrich.op = "in_flight"
      /\ pc'[r] \in {"pause enrich", "read enrich"} => disk'[r].enrich.op = "pending"
      /\ pc'[r] = "read enrich" => disk'[r].enrich.reads > 0
      /\ pc'[r] = "finish enrich" => disk'[r].enrich.op = "completed"
    BY <1>1 DEF EnrichPlan
<1>3. PlaceInv(pc'[r], todo'[r], disk'[r])
    BY <1>2 DEF PlaceInv
<1>4. NormalInv(pc'[r], todo'[r], disk'[r], passes'[r])
    BY <1>1, <1>2 DEF NormalInv
<1>5. pc'[r] \in Stages \/ pc'[r] = "snapshot"
    BY <1>2 DEF Stages
<1> QED
    BY <1>1, <1>3, <1>4, <1>5, StageLocal

LEMMA AfterPrivate ==
    ASSUME Shape, NEW r \in Client, Local(r), todo[r].file = "private", pc[r] \in SavePlaces,
           pc'[r] = todo[r].then, disk'[r].private = todo[r].value,
           disk'[r].usage = disk[r].usage,
           todo'[r].file = "none", request'[r] = NoRequest, passes'[r] = passes[r],
           scenario' = scenario
    PROVE  Local(r)'
<1> DEFINE v == todo[r].value
           n == passes[r]
<1>1. PrivatePlan(todo[r], disk[r], n, scenario)
    BY DEF Local, LocalInv, SaveInv, Saves
<1>2. v \in PrivateFile /\ Sound(v, disk[r].usage, scenario)
    BY <1>1 DEF PrivatePlan
<1>3. PrivateIn(disk'[r]) = v
    BY <1>2, NoPayloadAssumption DEF PrivateIn, NoFile
<1>4. RequestsInv(pc'[r], todo'[r], request'[r])
    <2>1. todo[r].then # "persist"
        BY <1>1 DEF PrivatePlan, PlanFor
    <2> QED
        BY <2>1 DEF RequestsInv
<1>5. pc'[r] \in {"off", "call", "settle", "open", "decide"}
    BY <1>1 DEF PrivatePlan, PlanFor
<1>6. PlaceInv(pc'[r], todo'[r], disk'[r])
    BY <1>5 DEF PlaceInv
<1>7. NormalInv(pc'[r], todo'[r], disk'[r], passes'[r])
    BY <1>5 DEF NormalInv, Stages, SavePlaces
<1>8. SaveInv(pc'[r], todo'[r], disk'[r], passes'[r], scenario')
    BY <1>5 DEF SaveInv, Saves, SavePlaces
<1>9. CoverageInv(pc'[r], todo'[r], disk'[r], passes'[r], scenario')
    <2>1. CASE pc'[r] = "off"
        BY <2>1 DEF CoverageInv, Working
    <2>2. CASE pc'[r] # "off"
        <3>1. PICK o \in PrivateOp : PlanFor(o, todo[r], disk[r], n)
            BY <1>1, <2>2 DEF PrivatePlan
        <3>2. \A x \in PrivateOp \ {o} : v.ops[x].state \in {"none", "completed"}
            BY <3>1 DEF PlanFor
        <3>3. n <= 1 + ReadsIn(v.ops)
            BY <3>1 DEF PlanFor
        <3>4. CASE pc'[r] \in {"call", "settle"}
            <4>1. v.ops[o].state = "in_flight" /\ (pc'[r] = "settle" => v.ops[o].recorded)
                BY <3>1, <3>4 DEF PlanFor
            <4>2. v.ops[o].recorded => <<o, v.ops[o].seq>> \in disk[r].usage
                BY <1>2, <4>1 DEF Sound, Replays, Listed
            <4>3. WorksOn(o, pc'[r], disk'[r])
                BY <1>3, <3>2, <3>4, <4>1, <4>2 DEF WorksOn
            <4>4. Sound(PrivateIn(disk'[r]), disk'[r].usage, scenario')
                BY <1>2, <1>3
            <4> HIDE DEF v, n
            <4> QED
                BY <1>3, <3>3, <3>4, <4>3, <4>4 DEF CoverageInv, Working, n
        <3>5. CASE pc'[r] = "decide"
            <4>1. v.ops[o].state = "completed"
                BY <3>1, <3>5 DEF PlanFor
            <4>2. \A x \in PrivateOp : v.ops[x].state # "pending"
                BY <3>2, <4>1
            <4>3. Sound(PrivateIn(disk'[r]), disk'[r].usage, scenario')
                BY <1>2, <1>3
            <4> HIDE DEF v, n
            <4> QED
                BY <1>3, <3>3, <3>5, <4>2, <4>3 DEF CoverageInv, Working, n
        <3>6. CASE pc'[r] = "open"
            <4>1. v.ops[o].state = "pending"
                BY <3>1, <3>6 DEF PlanFor
            <4>2. Sound(PrivateIn(disk'[r]), disk'[r].usage, scenario')
                BY <1>2, <1>3
            <4> HIDE DEF v, n
            <4> QED
                BY <1>3, <3>3, <3>6, <4>1, <4>2 DEF CoverageInv, Working, n
        <3> QED
            BY <1>5, <2>2, <3>4, <3>5, <3>6
    <2> QED
        BY <2>1, <2>2
<1> QED
    BY <1>4, <1>6, <1>7, <1>8, <1>9 DEF Local, LocalInv

LEMMA WriteKeeps ==
    ASSUME Shape, NEW r \in Client, Local(r), Write(r), DOMAIN request = Client
    PROVE  Shape' /\ Local(r)'
<1> DEFINE t == todo[r]
           v == todo[r].value
<1>1. /\ disk' = [disk EXCEPT ![r][t.file] = v] /\ pc' = [pc EXCEPT ![r] = t.then]
      /\ todo' = [todo EXCEPT ![r] = NoTodo]
      /\ UNCHANGED <<passes, starts, scenario, calls>>
    BY DEF Write, Goto
<1>2. /\ pc[r] \in {"persist", "write"} /\ t.file \in FileName
      /\ pc[r] \in SavePlaces /\ request'[r] = NoRequest
    <2>1. CASE pc[r] = "write" /\ UNCHANGED journalVars
        BY <2>1 DEF Local, LocalInv, PlaceInv, RequestsInv, SavePlaces, journalVars
    <2>2. CASE pc[r] = "persist" /\ t.kind = "transition" /\ Confirm(r)
        BY <2>2 DEF Local, LocalInv, PlaceInv, SavePlaces, Confirm
    <2> QED
        BY <2>1, <2>2 DEF Write, At
<1>3. /\ disk \in [Client -> Files] /\ disk[r] \in Files /\ t \in Todo
      /\ todo \in [Client -> Todo] /\ pc \in [Client -> Places]
    BY ShapeOf DEF Shape
<1>4. SaveInv(pc[r], t, disk[r], passes[r], scenario)
    BY DEF Local, LocalInv
<1>5. todo' \in [Client -> Todo] /\ todo'[r].file = "none"
    BY <1>1, <1>3, NoTodoTyped DEF NoTodo
<1>6. t.then \in Places
    BY <1>2, <1>4 DEF SaveInv, Saves, RunPlan, EnrichPlan, PrivatePlan, PlanFor, FileName, Places
<1>7. pc' \in [Client -> Places] /\ pc'[r] = t.then
    BY <1>1, <1>3, <1>6
<1>8. disk' \in [Client -> Files] => Shape'
    BY <1>1, <1>5, <1>7 DEF Shape, TypeOK, Files
<1>9. CASE t.file = "run"
    <2>1. v \in RunFile
        BY <1>2, <1>4, <1>9 DEF SaveInv, Saves, RunPlan, RunFile
    <2>2. disk' = [disk EXCEPT ![r].run = v]
        BY <1>1, <1>3, <1>9 DEF Files
    <2>3. disk' \in [Client -> Files] /\ disk'[r].run = v
        BY <1>3, <2>1, <2>2 DEF Files
    <2> QED
        BY <1>1, <1>2, <1>5, <1>7, <1>8, <1>9, <2>3, AfterRun
<1>10. CASE t.file = "enrich"
    <2>1. v \in EnrichFile
        BY <1>2, <1>4, <1>10 DEF SaveInv, Saves, EnrichPlan
    <2>2. disk' = [disk EXCEPT ![r].enrich = v]
        BY <1>1, <1>3, <1>10 DEF Files
    <2>3. disk' \in [Client -> Files] /\ disk'[r].enrich = v /\ disk'[r].run = disk[r].run
        BY <1>3, <2>1, <2>2 DEF Files
    <2> QED
        BY <1>1, <1>2, <1>5, <1>7, <1>8, <1>10, <2>3, AfterEnrich
<1>11. CASE t.file = "private"
    <2>1. v \in PrivateFile
        BY <1>2, <1>4, <1>11 DEF SaveInv, Saves, PrivatePlan
    <2>2. disk' = [disk EXCEPT ![r].private = v]
        BY <1>1, <1>3, <1>11 DEF Files
    <2>3. disk' \in [Client -> Files] /\ disk'[r].private = v /\ disk'[r].usage = disk[r].usage
        BY <1>3, <2>1, <2>2 DEF Files
    <2> QED
        BY <1>1, <1>2, <1>5, <1>7, <1>8, <1>11, <2>3, AfterPrivate
<1> QED
    BY <1>2, <1>9, <1>10, <1>11 DEF FileName

-----------------------------------------------------------------------------
(***************************************************************************)
(* The coverage passes.                                                    *)
(***************************************************************************)

\* When the operation whose turn it is has completed, no other is left.
LEMMA TurnSettled ==
    ASSUME NEW r \in Client, \A o \in Turn(r) : Completed(r, o)
    PROVE  /\ scenario.accepted /\ scenario.shadow => Completed(r, "apollo")
           /\ ~ scenario.accepted =>
                /\ Completed(r, "exa")
                /\ Found(r, "exa") => Completed(r, "clay")
                /\ Found(r, "exa") /\ Found(r, "clay") => Completed(r, "instantly")
BY DEF Turn, PrivateOp

\* A checkpoint with one entry replaced.
LEMMA EntryReplaced ==
    ASSUME NEW p \in PrivateFile, NEW o \in PrivateOp, NEW e \in Probe
    PROVE  LET w == [p EXCEPT !.ops[o] = e] IN
           /\ w \in PrivateFile /\ w.status = p.status /\ w.ops[o] = e
           /\ \A x \in PrivateOp \ {o} : w.ops[x] = p.ops[x]
<1>1. p.ops \in [PrivateOp -> Probe]
    BY DEF PrivateFile
<1> QED
    BY <1>1 DEF PrivateFile

\* The order of the probes survives a step of one that was begun.
LEMMA ChainKept ==
    ASSUME NEW ops, NEW new, NEW sc, Chain(ops, sc), NEW o \in PrivateOp,
           ops[o].state \in {"in_flight", "pending"},
           \A x \in PrivateOp \ {o} : new[x] = ops[x]
    PROVE  Chain(new, sc)
<1>1. CASE sc.accepted
    BY <1>1 DEF Chain
<1>2. CASE ~ sc.accepted
    <2>1. o # "apollo" /\ new["apollo"].state = "none"
        BY <1>2 DEF Chain, PrivateOp
    <2>2. Follows(ops, "clay", "exa") /\ Follows(ops, "instantly", "clay")
        BY <1>2 DEF Chain
    <2>3. CASE o = "exa"
        BY <1>2, <2>1, <2>2, <2>3 DEF Chain, Follows, PrivateOp
    <2>4. CASE o = "clay"
        BY <1>2, <2>1, <2>2, <2>4 DEF Chain, Follows, PrivateOp
    <2>5. CASE o = "instantly"
        BY <1>2, <2>1, <2>2, <2>5 DEF Chain, Follows, PrivateOp
    <2> QED
        BY <2>1, <2>3, <2>4, <2>5 DEF PrivateOp
<1> QED
    BY <1>1, <1>2

\* A checkpoint stays sound when the entry that replaces another is accounted for.
LEMMA SoundWith ==
    ASSUME NEW p \in PrivateFile, NEW usage \in Usage, NEW sc, Replays(p, usage),
           \A x \in PrivateOp : p.ops[x].state = "none" => p.ops[x] = Absent,
           NEW o \in PrivateOp, NEW e \in Probe, e.state # "none",
           NEW w \in PrivateFile, w.status = p.status, w.ops[o] = e,
           \A x \in PrivateOp \ {o} : w.ops[x] = p.ops[x],
           \A x \in PrivateOp \ {o} : p.ops[x].state \in {"none", "completed"},
           p.status # "completed", NEW uses \in Usage, usage \subseteq uses,
           \A u \in uses : u[1] # o => u \in usage,
           Accounts(o, e, uses), Chain(w.ops, sc)
    PROVE  Sound(w, uses, sc)
<1>1. \A x \in PrivateOp : w.ops[x].state = "none" => w.ops[x] = Absent
    OBVIOUS
<1>2. Lonely(w.ops)
    <2>1. \A x \in PrivateOp \ {o} : w.ops[x].state \in {"none", "completed"}
        OBVIOUS
    <2> QED
        BY ONLY <2>1 DEF Lonely
<1>3. ASSUME NEW x \in PrivateOp PROVE Accounts(x, w.ops[x], uses)
    <2>1. CASE x = o
        BY <2>1
    <2>2. CASE x # o
        <3>1. Accounts(x, p.ops[x], usage) /\ w.ops[x] = p.ops[x]
            BY <2>2, ReplaysGives
        <3>2. \A n \in 0 .. ReadLimit : <<x, n>> \in uses <=> <<x, n>> \in usage
            BY <2>2
        <3>3. p.ops[x].seq \in 0 .. ReadLimit
            BY DEF PrivateFile, Probe
        <3> QED
            BY <3>1, <3>2, <3>3 DEF Accounts
    <2> QED
        BY <2>1, <2>2
<1>4. Replays(w, uses)
    BY <1>2, <1>3, ReplaysFrom
<1> QED
    BY <1>1, <1>2, <1>4 DEF Sound, Lonely

\* What a runner that decides, or works, knows of its private checkpoint.
LEMMA KnowsPrivate ==
    ASSUME Shape, NEW r \in Client, Local(r), pc[r] \in Working \cup {"decide"}
    PROVE  /\ Private(r) = PrivateIn(disk[r]) /\ Private(r) \in PrivateFile
           /\ disk[r].usage \in Usage /\ Sound(Private(r), disk[r].usage, scenario)
           /\ request[r] = NoRequest /\ todo[r].file = "none"
<1>1. /\ Private(r) = PrivateIn(disk[r]) /\ Private(r) \in PrivateFile
      /\ disk[r].usage \in Usage
    BY ShapeOf DEF Files
<1>2. Sound(PrivateIn(disk[r]), disk[r].usage, scenario)
    BY DEF Local, LocalInv, CoverageInv
<1>3. pc[r] \notin SavePlaces /\ pc[r] # "persist"
    BY DEF Working, SavePlaces
<1>4. request[r] = NoRequest /\ todo[r].file = "none"
    BY <1>3 DEF Local, LocalInv, RequestsInv, PlaceInv
<1> QED
    BY <1>1, <1>2, <1>4

\* A save of the private checkpoint that replaces one entry.
LEMMA EntrySaved ==
    ASSUME Shape, NEW r \in Client, Local(r), pc[r] \in Working \cup {"decide"},
           NEW o \in PrivateOp, NEW e \in Probe, NEW then \in Places,
           Save(r, "private", WithEntry(r, o, e), then),
           UNCHANGED <<request, disk, passes, starts, scenario, calls>>,
           e.state # "none", Private(r).status # "completed",
           \A x \in PrivateOp \ {o} : Private(r).ops[x].state \in {"none", "completed"},
           Accounts(o, e, disk[r].usage),
           Chain(WithEntry(r, o, e).ops, scenario),
           PlanFor(o, Order("private", WithEntry(r, o, e), then), disk[r], passes[r])
    PROVE  Shape' /\ Local(r)'
<1> DEFINE p == Private(r)
           w == WithEntry(r, o, e)
           t == Order("private", w, then)
<1>1. /\ p = PrivateIn(disk[r]) /\ p \in PrivateFile /\ disk[r].usage \in Usage
      /\ Sound(p, disk[r].usage, scenario) /\ request[r] = NoRequest
    BY KnowsPrivate
<1>2. /\ w \in PrivateFile /\ w.status = p.status /\ w.ops[o] = e
      /\ \A x \in PrivateOp \ {o} : w.ops[x] = p.ops[x]
    BY <1>1, EntryReplaced DEF WithEntry
<1>3. t.file = "private" /\ t.value = w
    BY DEF Order, NoTodo
<1>4. Sound(w, disk[r].usage, scenario)
    <2>1. /\ Replays(p, disk[r].usage)
          /\ \A x \in PrivateOp : p.ops[x].state = "none" => p.ops[x] = Absent
        BY <1>1 DEF Sound
    <2> HIDE DEF p, w, t
    <2> QED
        BY <1>1, <1>2, <2>1, SoundWith DEF p, w
<1> HIDE DEF p, w, t
<1>5. PrivatePlan(t, disk[r], passes[r], scenario)
    BY <1>2, <1>3, <1>4 DEF PrivatePlan, t, w
<1>6. Plan(t, disk[r], passes[r], scenario)
    BY <1>3, <1>5 DEF Plan
<1>7. calls' \in [Dispatch -> 0 .. 2]
    BY DEF Shape, TypeOK
<1> QED
    BY <1>1, <1>2, <1>6, <1>7, SaveKeeps DEF FileName, t, w

LEMMA BeginKeeps ==
    ASSUME Shape, NEW r \in Client, Local(r), NEW o \in PrivateOp, Begin(r, o)
    PROVE  Shape' /\ Local(r)'
<1> DEFINE p == Private(r)
           e == [state |-> "in_flight", seq |-> 0, recorded |-> FALSE, answer |-> "none"]
           w == WithEntry(r, o, e)
           t == Order("private", w, "call")
<1>1. /\ pc[r] = "decide" /\ o \in Turn(r) /\ p.ops[o].state = "none"
      /\ p.status # "completed" /\ Unresolved(p.ops) = {}
      /\ Save(r, "private", w, "call")
      /\ UNCHANGED <<request, disk, passes, starts, scenario, calls>>
    BY DEF Begin, At, Has, Listed, Stay, journalVars
<1>2. /\ p = PrivateIn(disk[r]) /\ p \in PrivateFile /\ disk[r].usage \in Usage
      /\ Sound(p, disk[r].usage, scenario)
    BY <1>1, KnowsPrivate
<1>3. /\ p.ops[o] = Absent /\ Replays(p, disk[r].usage) /\ Chain(p.ops, scenario)
    BY <1>1, <1>2 DEF Sound
<1>4. \A x \in PrivateOp : p.ops[x].state \in {"none", "completed"}
    <2>1. \A x \in PrivateOp : p.ops[x].state \in {"none"} \cup StateName
        BY <1>2 DEF PrivateFile, Probe
    <2>2. \A x \in PrivateOp : p.ops[x].state \notin {"in_flight", "pending"}
        BY <1>1 DEF Unresolved
    <2> QED
        BY <2>1, <2>2 DEF StateName
<1>5. e \in Probe
    BY PassesAssumption DEF Probe, StateName
<1>6. Accounts(o, e, disk[r].usage)
    <2>1. Accounts(o, Absent, disk[r].usage)
        BY <1>2, <1>3, ReplaysGives
    <2>2. \A n \in 0 .. ReadLimit : <<o, n>> \notin disk[r].usage
        BY <2>1 DEF Accounts, Absent
    <2>3. \A n \in 0 .. ReadLimit : ~ (n < 0)
        BY PassesAssumption
    <2> QED
        BY <2>2, <2>3 DEF Accounts
<1>7. /\ w \in PrivateFile /\ w.ops[o] = e
      /\ \A x \in PrivateOp \ {o} : w.ops[x] = p.ops[x]
    BY <1>2, <1>5, EntryReplaced DEF WithEntry
<1>8. Chain(w.ops, scenario)
    <2>1. CASE scenario.accepted
        <3>1. o = "apollo" /\ scenario.shadow
            BY <1>1, <2>1 DEF Turn
        <3> QED
            BY <1>3, <1>7, <2>1, <3>1 DEF Chain
    <2>2. CASE ~ scenario.accepted
        <3>1. /\ o \in {"exa", "clay", "instantly"}
              /\ o \in {"clay", "instantly"} =>
                   p.ops["exa"].state = "completed" /\ p.ops["exa"].answer # "empty"
              /\ o = "instantly" =>
                   p.ops["clay"].state = "completed" /\ p.ops["clay"].answer # "empty"
            BY <1>1, <2>2 DEF Turn, Found, Completed, Entry
        <3>2. /\ Follows(p.ops, "clay", "exa") /\ Follows(p.ops, "instantly", "clay")
              /\ p.ops["apollo"].state = "none"
            BY <1>3, <2>2 DEF Chain
        <3> HIDE DEF p, w, e
        <3>3. w.ops["apollo"].state = "none"
            BY <1>7, <3>1, <3>2 DEF PrivateOp
        <3>4. Follows(w.ops, "clay", "exa")
            BY <1>1, <1>7, <3>1, <3>2 DEF PrivateOp, Follows
        <3>5. Follows(w.ops, "instantly", "clay")
            BY <1>1, <1>7, <3>1, <3>2 DEF PrivateOp, Follows
        <3> QED
            BY <2>2, <3>3, <3>4, <3>5 DEF Chain
    <2> QED
        BY <2>1, <2>2
<1>9. PlanFor(o, t, disk[r], passes[r])
    <2>1. t.value = w /\ t.then = "call"
        BY DEF Order, NoTodo
    <2>2. passes[r] <= 1 + ReadsIn(p.ops)
        BY <1>1, <1>2 DEF Local, LocalInv, CoverageInv
    <2>3. ReadsIn(w.ops) = ReadsIn(p.ops)
        <3>1. w.ops[o].seq = p.ops[o].seq
            BY <1>3, <1>7 DEF Absent
        <3>2. \A x \in PrivateOp : w.ops[x].seq = p.ops[x].seq
            BY <1>7, <3>1
        <3> HIDE DEF p, w
        <3> QED
            BY <3>2 DEF ReadsIn, PrivateOp
    <2>4. e.state = "in_flight" /\ ~ e.recorded /\ e.seq = 0
        OBVIOUS
    <2> HIDE DEF p, w, e, t
    <2> QED
        BY <1>1, <1>2, <1>4, <1>7, <2>1, <2>2, <2>3, <2>4 DEF PlanFor
<1>10. e.state # "none"
    OBVIOUS
<1> HIDE DEF e
<1> QED
    BY <1>1, <1>2, <1>4, <1>5, <1>6, <1>8, <1>9, <1>10, EntrySaved DEF Places

LEMMA ReserveReadKeeps ==
    ASSUME Shape, NEW r \in Client, Local(r), NEW o \in PrivateOp, ReserveRead(r, o)
    PROVE  Shape' /\ Local(r)'
<1> DEFINE p == Private(r)
           old == p.ops[o]
           e == [old EXCEPT !.state = "in_flight", !.seq = @ + 1, !.recorded = FALSE]
           w == WithEntry(r, o, e)
           t == Order("private", w, "call")
<1>1. /\ pc[r] = "decide" /\ old.state = "pending" /\ Unresolved(p.ops) = {o}
      /\ Reads(r, o) < ReadLimit
      /\ Save(r, "private", w, "call")
      /\ UNCHANGED <<request, disk, passes, starts, scenario, calls>>
    BY DEF ReserveRead, At, Entry, Stay, journalVars
<1>2. /\ p = PrivateIn(disk[r]) /\ p \in PrivateFile /\ disk[r].usage \in Usage
      /\ Sound(p, disk[r].usage, scenario)
    BY <1>1, KnowsPrivate
<1>3. Replays(p, disk[r].usage) /\ Chain(p.ops, scenario)
    BY <1>2 DEF Sound
<1>4. old \in Probe /\ Accounts(o, old, disk[r].usage)
    BY <1>2, <1>3, ReplaysGives DEF PrivateFile
<1>5. old.seq < ReadLimit
    <2>1. Reads(r, o) = old.seq
        BY <1>1, <1>2, <1>3, ReadsAreCounted DEF Reads
    <2> QED
        BY <1>1, <2>1
<1>6. /\ e \in Probe /\ e.state = "in_flight" /\ e.seq = old.seq + 1 /\ ~ e.recorded
    <2>1. old.seq + 1 \in 0 .. ReadLimit
        BY <1>4, <1>5, PassesAssumption DEF Probe
    <2> HIDE DEF old
    <2> QED
        BY <1>4, <2>1 DEF Probe, StateName
<1>7. \A x \in PrivateOp \ {o} : p.ops[x].state \in {"none", "completed"}
    <2>1. \A x \in PrivateOp : p.ops[x].state \in {"none"} \cup StateName
        BY <1>2 DEF PrivateFile, Probe
    <2>2. \A x \in PrivateOp \ {o} : p.ops[x].state \notin {"in_flight", "pending"}
        BY <1>1 DEF Unresolved
    <2> QED
        BY <2>1, <2>2 DEF StateName
<1>8. p.status # "completed"
    BY <1>1, <1>3 DEF Replays
<1>9. Accounts(o, e, disk[r].usage)
    <2>1. old.seq \in 0 .. ReadLimit /\ old.recorded /\ o \in Async /\ <<o, old.seq>> \in disk[r].usage
        BY <1>1, <1>4 DEF Accounts, Probe
    <2>2. \A n \in 0 .. ReadLimit : <<o, n>> \in disk[r].usage => n <= old.seq
        BY <1>4 DEF Accounts
    <2>3. \A n \in 0 .. ReadLimit : n < old.seq => <<o, n>> \in disk[r].usage
        BY <1>1, <1>4 DEF Accounts
    <2> HIDE DEF old, e
    <2>4. \A n \in 0 .. ReadLimit : n < e.seq => n < old.seq \/ n = old.seq
        BY <1>6, <2>1, PassesAssumption
    <2>5. \A n \in 0 .. ReadLimit : n <= old.seq => n <= e.seq
        BY <1>6, <2>1, PassesAssumption
    <2> QED
        BY <1>6, <2>1, <2>2, <2>3, <2>4, <2>5 DEF Accounts
<1>10. /\ w \in PrivateFile /\ w.ops[o] = e
       /\ \A x \in PrivateOp \ {o} : w.ops[x] = p.ops[x]
    BY <1>2, <1>6, EntryReplaced DEF WithEntry
<1>11. Chain(w.ops, scenario)
    BY <1>1, <1>3, <1>10, ChainKept
<1>12. PlanFor(o, t, disk[r], passes[r])
    <2>1. t.value = w /\ t.then = "call"
        BY DEF Order, NoTodo
    <2>2. passes[r] <= 2 + ReadsIn(p.ops)
        BY <1>1, <1>2, <1>4, <1>5, PassesAssumption DEF Local, LocalInv, CoverageInv, Probe
    <2>3. ReadsIn(w.ops) = ReadsIn(p.ops) + 1
        <3>1. o \in {"clay", "instantly"}
            BY <1>1, <1>4 DEF Accounts, Async
        <3>2. \A x \in PrivateOp : p.ops[x].seq \in Nat
            BY <1>2, PassesAssumption DEF PrivateFile, Probe
        <3> HIDE DEF p, w, e
        <3> QED
            BY <1>6, <1>10, <3>1, <3>2 DEF ReadsIn, PrivateOp
    <2>4. ReadsIn(p.ops) \in Nat /\ passes[r] \in Nat
        <3>1. \A x \in PrivateOp : p.ops[x].seq \in Nat
            BY <1>2, PassesAssumption DEF PrivateFile, Probe
        <3>2. passes[r] \in Nat
            BY ShapeOf, PassesAssumption
        <3> QED
            BY <3>1, <3>2 DEF ReadsIn, PrivateOp
    <2> HIDE DEF p, w, e, t, old
    <2>5. passes[r] <= 1 + ReadsIn(w.ops)
        BY <2>2, <2>3, <2>4
    <2> QED
        BY <1>1, <1>2, <1>6, <1>7, <1>10, <2>1, <2>5 DEF PlanFor, old
<1> HIDE DEF e
<1>13. e.state # "none"
    BY <1>6
<1> QED
    BY <1>1, <1>2, <1>6, <1>7, <1>8, <1>9, <1>11, <1>12, <1>13, EntrySaved DEF Places

LEMMA LeavePendingKeeps ==
    ASSUME Shape, NEW r \in Client, Local(r), NEW o \in PrivateOp, LeavePending(r, o)
    PROVE  Shape' /\ Local(r)'
<1> DEFINE p == Private(r)
<1>1. /\ pc[r] = "decide" /\ p.ops[o].state = "pending" /\ Reads(r, o) >= ReadLimit
      /\ pc' = [pc EXCEPT ![r] = "open"]
      /\ UNCHANGED <<request, todo, disk, passes, starts, scenario, calls>>
    BY DEF LeavePending, At, Entry, Stay, journalVars, Goto
<1>2. /\ p = PrivateIn(disk[r]) /\ p \in PrivateFile /\ disk[r].usage \in Usage
      /\ Sound(p, disk[r].usage, scenario) /\ request[r] = NoRequest /\ todo[r].file = "none"
    BY <1>1, KnowsPrivate
<1>3. p.ops[o].seq >= ReadLimit
    BY <1>1, <1>2, ReadsAreCounted DEF Reads, Sound
<1>4. \A x \in PrivateOp : p.ops[x].state = "pending" => x = o
    BY <1>1, <1>2 DEF Sound
<1>5. pc' \in [Client -> Places] /\ pc'[r] = "open"
    BY <1>1 DEF Shape, Places
<1>6. Shape'
    BY <1>1, <1>5 DEF Shape, TypeOK
<1>7. PlaceInv(pc'[r], todo'[r], disk'[r]) /\ RequestsInv(pc'[r], todo'[r], request'[r])
    BY <1>1, <1>2, <1>5 DEF PlaceInv, RequestsInv
<1>8. NormalInv(pc'[r], todo'[r], disk'[r], passes'[r])
    BY <1>5 DEF NormalInv, Stages, SavePlaces
<1>9. SaveInv(pc'[r], todo'[r], disk'[r], passes'[r], scenario')
    BY <1>5 DEF SaveInv, Saves, SavePlaces
<1>10. CoverageInv(pc'[r], todo'[r], disk'[r], passes'[r], scenario')
    <2>1. /\ \E x \in PrivateOp : PrivateIn(disk'[r]).ops[x].state = "pending"
          /\ \A x \in PrivateOp : PrivateIn(disk'[r]).ops[x].state = "pending"
                                  => PrivateIn(disk'[r]).ops[x].seq >= ReadLimit
          /\ Sound(PrivateIn(disk'[r]), disk'[r].usage, scenario')
        BY <1>1, <1>2, <1>3, <1>4
    <2> QED
        BY <1>5, <2>1 DEF CoverageInv, Working
<1> QED
    BY <1>6, <1>7, <1>8, <1>9, <1>10 DEF Local, LocalInv

\* What a working runner works on is what the code takes for current.
LEMMA CurrentIs ==
    ASSUME Shape, NEW r \in Client, Local(r), pc[r] \in Working
    PROVE  LET o == Current(r) e == Entry(r, Current(r)) IN
           /\ o \in PrivateOp /\ WorksOn(o, pc[r], disk[r])
           /\ e = Private(r).ops[o] /\ e \in Probe /\ e.state = "in_flight"
           /\ \A x \in PrivateOp \ {o} : Private(r).ops[x].state \in {"none", "completed"}
           /\ Private(r).status # "completed"
           /\ passes[r] <= 1 + ReadsIn(Private(r).ops)
           /\ Accounts(o, e, disk[r].usage) /\ Chain(Private(r).ops, scenario)
<1> DEFINE p == Private(r)
<1>1. /\ p = PrivateIn(disk[r]) /\ p \in PrivateFile /\ disk[r].usage \in Usage
      /\ Sound(p, disk[r].usage, scenario)
    BY KnowsPrivate
<1>2. PICK o \in PrivateOp : WorksOn(o, pc[r], disk[r])
    BY DEF Local, LocalInv, CoverageInv
<1>3. /\ \A x \in PrivateOp \ {o} : p.ops[x].state \in {"none", "completed"}
      /\ p.ops[o].state = "in_flight"
    BY <1>1, <1>2 DEF WorksOn
<1>4. Unresolved(p.ops) = {o}
    BY <1>3 DEF Unresolved
<1>5. Current(r) = o
    BY <1>4 DEF Current
<1>6. passes[r] <= 1 + ReadsIn(p.ops)
    BY <1>1 DEF Local, LocalInv, CoverageInv
<1>7. p.status # "completed" /\ Accounts(o, p.ops[o], disk[r].usage)
    BY <1>1, <1>4, ReplaysGives DEF Sound, Replays
<1>8. p.ops[o] \in Probe /\ Chain(p.ops, scenario)
    BY <1>1 DEF PrivateFile, Sound
<1> QED
    BY <1>2, <1>3, <1>5, <1>6, <1>7, <1>8 DEF Entry

\* A runner that goes on working.
LEMMA WorkGoesOn ==
    ASSUME NEW r \in Client, pc'[r] \in Working, request'[r] = NoRequest, todo'[r].file = "none",
           NEW o \in PrivateOp, WorksOn(o, pc'[r], disk'[r]),
           passes'[r] <= 1 + ReadsIn(PrivateIn(disk'[r]).ops),
           Sound(PrivateIn(disk'[r]), disk'[r].usage, scenario')
    PROVE  Local(r)'
<1>1. pc'[r] \notin SavePlaces \cup {"persist", "restored", "restore usage", "open", "decide"}
      /\ pc'[r] \notin Stages
    BY DEF Working, SavePlaces, Stages
<1>2. PlaceInv(pc'[r], todo'[r], disk'[r])
    BY <1>1 DEF PlaceInv, SavePlaces
<1>3. RequestsInv(pc'[r], todo'[r], request'[r])
    BY <1>1 DEF RequestsInv
<1>4. NormalInv(pc'[r], todo'[r], disk'[r], passes'[r])
    BY <1>1 DEF NormalInv, Stages
<1>5. SaveInv(pc'[r], todo'[r], disk'[r], passes'[r], scenario')
    BY <1>1 DEF SaveInv, Saves
<1>6. CoverageInv(pc'[r], todo'[r], disk'[r], passes'[r], scenario')
    BY <1>1 DEF CoverageInv
<1> QED
    BY <1>2, <1>3, <1>4, <1>5, <1>6 DEF Local, LocalInv

LEMMA CallKeeps ==
    ASSUME Shape, NEW r \in Client, Local(r), Call(r)
    PROVE  Shape' /\ Local(r)'
<1> DEFINE o == Current(r)
<1>1. /\ pc[r] = "call" /\ pc' = [pc EXCEPT ![r] = "append"] /\ Send(<<o, Entry(r, o).seq>>)
      /\ UNCHANGED <<request, disk, todo, passes, starts, scenario>>
    BY DEF Call, At, journalVars, Goto
<1>2. pc[r] \in Working
    BY <1>1 DEF Working
<1>3. /\ o \in PrivateOp /\ WorksOn(o, pc[r], disk[r])
      /\ passes[r] <= 1 + ReadsIn(Private(r).ops)
    BY <1>2, CurrentIs
<1>4. /\ Private(r) = PrivateIn(disk[r]) /\ Sound(Private(r), disk[r].usage, scenario)
      /\ request[r] = NoRequest /\ todo[r].file = "none"
    BY <1>2, KnowsPrivate
<1>5. calls' \in [Dispatch -> 0 .. 2]
    BY <1>1, SendTyped
<1>6. pc' \in [Client -> Places] /\ pc'[r] = "append"
    BY <1>1 DEF Shape, Places
<1>7. Shape'
    BY <1>1, <1>5, <1>6 DEF Shape, TypeOK
<1> HIDE DEF o
<1>8. WorksOn(o, pc'[r], disk'[r])
    BY <1>1, <1>3, <1>6 DEF WorksOn
<1> QED
    BY <1>1, <1>3, <1>4, <1>6, <1>7, <1>8, WorkGoesOn DEF Working

LEMMA AppendUsageKeeps ==
    ASSUME Shape, NEW r \in Client, Local(r), AppendUsage(r)
    PROVE  Shape' /\ Local(r)'
<1> DEFINE o == Current(r)
           e == Entry(r, o)
           p == Private(r)
           uses == disk[r].usage \cup {<<o, e.seq>>}
<1>1. /\ pc[r] = "append" /\ pc' = [pc EXCEPT ![r] = "record"]
      /\ disk' = [disk EXCEPT ![r].usage = @ \cup {<<o, e.seq>>}]
      /\ UNCHANGED <<request, todo, passes, starts, scenario, calls>>
    BY DEF AppendUsage, At, journalVars, Goto
<1>2. pc[r] \in Working
    BY <1>1 DEF Working
<1>3. /\ o \in PrivateOp /\ WorksOn(o, pc[r], disk[r])
      /\ e = p.ops[o] /\ e \in Probe /\ e.state = "in_flight"
      /\ \A x \in PrivateOp \ {o} : p.ops[x].state \in {"none", "completed"}
      /\ p.status # "completed"
      /\ passes[r] <= 1 + ReadsIn(p.ops)
      /\ Accounts(o, e, disk[r].usage) /\ Chain(p.ops, scenario)
    BY <1>2, CurrentIs
<1>4. /\ p = PrivateIn(disk[r]) /\ p \in PrivateFile /\ Sound(p, disk[r].usage, scenario)
      /\ request[r] = NoRequest /\ todo[r].file = "none" /\ disk[r].usage \in Usage
    BY <1>2, KnowsPrivate
<1>5. e.seq \in 0 .. ReadLimit
    BY <1>3 DEF Probe
<1> HIDE DEF o, e, p
<1>6. uses \in Usage /\ disk[r].usage \subseteq uses
    BY <1>3, <1>4, <1>5 DEF Usage
<1>7. \A u \in uses : u[1] # o => u \in disk[r].usage
    OBVIOUS
<1>8. \A n \in 0 .. ReadLimit : <<o, n>> \in uses <=> <<o, n>> \in disk[r].usage \/ n = e.seq
    OBVIOUS
<1>9. <<o, e.seq>> \in uses
    OBVIOUS
<1>10. disk' = [disk EXCEPT ![r].usage = uses]
    BY <1>1
<1> HIDE DEF uses
<1>11. Accounts(o, e, uses)
    <2>1. \A n \in 0 .. ReadLimit : n = e.seq => n <= e.seq
        BY <1>5, PassesAssumption
    <2> QED
        BY <1>3, <1>8, <1>9, <2>1 DEF Accounts
<1>12. Sound(p, uses, scenario)
    <2>1. /\ Replays(p, disk[r].usage)
          /\ \A x \in PrivateOp : p.ops[x].state = "none" => p.ops[x] = Absent
        BY <1>4 DEF Sound
    <2>2. e.state # "none"
        BY <1>3
    <2> QED
        BY <1>3, <1>4, <1>6, <1>7, <1>11, <2>1, <2>2, SoundWith
<1>13. /\ disk' \in [Client -> Files] /\ disk'[r].usage = uses
       /\ disk'[r].private = disk[r].private
    BY <1>6, <1>10, ShapeOf DEF Files
<1>14. pc' \in [Client -> Places] /\ pc'[r] = "record"
    BY <1>1 DEF Shape, Places
<1>15. Shape'
    BY <1>1, <1>13, <1>14 DEF Shape, TypeOK, Files
<1>16. PrivateIn(disk'[r]) = p
    BY <1>4, <1>13 DEF PrivateIn
<1>17. WorksOn(o, pc'[r], disk'[r])
    BY <1>3, <1>4, <1>9, <1>13, <1>14, <1>16 DEF WorksOn
<1> QED
    BY <1>1, <1>3, <1>4, <1>12, <1>13, <1>14, <1>15, <1>16, <1>17, WorkGoesOn DEF Working

LEMMA RecordUsageKeeps ==
    ASSUME Shape, NEW r \in Client, Local(r), RecordUsage(r)
    PROVE  Shape' /\ Local(r)'
<1> DEFINE o == Current(r)
           old == Entry(r, o)
           e == [old EXCEPT !.recorded = TRUE]
           p == Private(r)
           w == WithEntry(r, o, e)
           t == Order("private", w, "settle")
<1>1. /\ pc[r] = "record" /\ Save(r, "private", w, "settle")
      /\ UNCHANGED <<request, disk, passes, starts, scenario, calls>>
    BY DEF RecordUsage, At, journalVars, Stay
<1>2. pc[r] \in Working
    BY <1>1 DEF Working
<1>3. /\ o \in PrivateOp /\ WorksOn(o, pc[r], disk[r])
      /\ old = p.ops[o] /\ old \in Probe /\ old.state = "in_flight"
      /\ \A x \in PrivateOp \ {o} : p.ops[x].state \in {"none", "completed"}
      /\ p.status # "completed"
      /\ passes[r] <= 1 + ReadsIn(p.ops)
      /\ Accounts(o, old, disk[r].usage) /\ Chain(p.ops, scenario)
    BY <1>2, CurrentIs
<1>4. p = PrivateIn(disk[r]) /\ p \in PrivateFile
    BY <1>2, KnowsPrivate
<1>5. <<o, old.seq>> \in disk[r].usage
    BY <1>1, <1>3, <1>4 DEF WorksOn
<1> HIDE DEF o, old, p
<1>6. e \in Probe /\ e.state = "in_flight" /\ e.seq = old.seq /\ e.recorded
    BY <1>3 DEF Probe
<1> HIDE DEF e
<1>7. /\ w.ops[o] = e /\ \A x \in PrivateOp \ {o} : w.ops[x] = p.ops[x]
    <2>1. w = [p EXCEPT !.ops[o] = e]
        BY DEF WithEntry, p
    <2> HIDE DEF w
    <2> QED
        BY <1>3, <1>4, <1>6, <2>1, EntryReplaced
<1> HIDE DEF w
<1>8. Accounts(o, e, disk[r].usage)
    BY <1>3, <1>5, <1>6 DEF Accounts
<1>9. Chain(w.ops, scenario)
    BY <1>3, <1>7, ChainKept
<1>10. t.value = w /\ t.then = "settle"
    BY DEF Order, NoTodo
<1>11. ReadsIn(w.ops) = ReadsIn(p.ops)
    <2>1. \A x \in PrivateOp : w.ops[x].seq = p.ops[x].seq
        BY <1>3, <1>6, <1>7
    <2> QED
        BY <2>1 DEF ReadsIn, PrivateOp
<1> HIDE DEF t
<1>12. PlanFor(o, t, disk[r], passes[r])
    BY <1>3, <1>4, <1>6, <1>7, <1>10, <1>11 DEF PlanFor
<1>13. e.state # "none"
    BY <1>6
<1> QED
    BY <1>1, <1>2, <1>3, <1>6, <1>8, <1>9, <1>12, <1>13, EntrySaved DEF Places, p, w, t

LEMMA FinishKeeps ==
    ASSUME Shape, NEW r \in Client, Local(r), Finish(r)
    PROVE  Shape' /\ Local(r)'
<1> DEFINE o == Current(r)
           old == Entry(r, o)
           p == Private(r)
<1>1. /\ pc[r] = "settle" /\ old.recorded
      /\ UNCHANGED <<request, disk, passes, starts, scenario, calls>>
    BY DEF Finish, At, journalVars, Stay
<1>2. pc[r] \in Working
    BY <1>1 DEF Working
<1>3. /\ o \in PrivateOp
      /\ old = p.ops[o] /\ old \in Probe /\ old.state = "in_flight"
      /\ \A x \in PrivateOp \ {o} : p.ops[x].state \in {"none", "completed"}
      /\ p.status # "completed"
      /\ passes[r] <= 1 + ReadsIn(p.ops)
      /\ Accounts(o, old, disk[r].usage) /\ Chain(p.ops, scenario)
    BY <1>2, CurrentIs
<1>4. p = PrivateIn(disk[r]) /\ p \in PrivateFile
    BY <1>2, KnowsPrivate
<1>5. ASSUME NEW e \in Probe, NEW then \in Places, Save(r, "private", WithEntry(r, o, e), then),
             e.seq = old.seq, e.recorded,
             \/ e.state = "pending" /\ then = "open" /\ o \in Async
             \/ e.state = "completed" /\ then = "decide"
      PROVE  Shape' /\ Local(r)'
    <2> DEFINE w == WithEntry(r, o, e)
               t == Order("private", w, then)
    <2> HIDE DEF o, old, p
    <2>1. /\ w.ops[o] = e /\ \A x \in PrivateOp \ {o} : w.ops[x] = p.ops[x]
        BY <1>3, <1>4, EntryReplaced DEF WithEntry, p
    <2> HIDE DEF w
    <2>2. Accounts(o, e, disk[r].usage)
        BY <1>1, <1>3, <1>5 DEF Accounts
    <2>3. Chain(w.ops, scenario)
        BY <1>3, <2>1, ChainKept
    <2>4. t.value = w /\ t.then = then
        BY DEF Order, NoTodo
    <2>5. ReadsIn(w.ops) = ReadsIn(p.ops)
        <3>1. \A x \in PrivateOp : w.ops[x].seq = p.ops[x].seq
            BY <1>3, <1>5, <2>1
        <3> QED
            BY <3>1 DEF ReadsIn, PrivateOp
    <2> HIDE DEF t
    <2>6. PlanFor(o, t, disk[r], passes[r])
        BY <1>3, <1>4, <1>5, <2>1, <2>4, <2>5 DEF PlanFor
    <2>7. e.state # "none"
        BY <1>5
    <2> QED
        BY <1>1, <1>2, <1>3, <1>5, <2>2, <2>3, <2>6, <2>7, EntrySaved DEF p, w, t
<1>6. PICK a \in Answers(o, old.seq) :
         IF a = "pending"
         THEN Save(r, "private", WithEntry(r, o, [old EXCEPT !.state = "pending"]), "open")
         ELSE Save(r, "private", WithEntry(r, o, [old EXCEPT !.state = "completed", !.answer = a]),
                   "decide")
    BY DEF Finish
<1>7. a = "pending" => o \in Async
    BY <1>6 DEF Answers, Async
<1>8. a # "pending" => a \in {"value", "empty"}
    BY <1>6 DEF Answers
<1> HIDE DEF o, old, p
<1>9. CASE a = "pending"
    <2> DEFINE e == [old EXCEPT !.state = "pending"]
    <2>1. e \in Probe /\ e.seq = old.seq /\ e.recorded /\ e.state = "pending"
        BY <1>1, <1>3 DEF Probe, StateName
    <2>2. Save(r, "private", WithEntry(r, o, e), "open")
        BY <1>6, <1>9
    <2> HIDE DEF e
    <2> QED
        BY <1>5, <1>7, <1>9, <2>1, <2>2 DEF Places
<1>10. CASE a # "pending"
    <2> DEFINE e == [old EXCEPT !.state = "completed", !.answer = a]
    <2>1. e \in Probe /\ e.seq = old.seq /\ e.recorded /\ e.state = "completed"
        BY <1>1, <1>3, <1>8, <1>10 DEF Probe, StateName
    <2>2. Save(r, "private", WithEntry(r, o, e), "decide")
        BY <1>6, <1>10
    <2> HIDE DEF e
    <2> QED
        BY <1>5, <2>1, <2>2 DEF Places
<1> QED
    BY <1>9, <1>10

\* A runner that ends, with nothing to write.
LEMMA OffLocal ==
    ASSUME NEW r \in Client, pc'[r] = "off", request'[r] = NoRequest, todo'[r].file = "none"
    PROVE  Local(r)'
<1>1. PlaceInv(pc'[r], todo'[r], disk'[r]) /\ RequestsInv(pc'[r], todo'[r], request'[r])
    BY DEF PlaceInv, RequestsInv
<1>2. NormalInv(pc'[r], todo'[r], disk'[r], passes'[r])
    BY DEF NormalInv, Stages, SavePlaces
<1>3. SaveInv(pc'[r], todo'[r], disk'[r], passes'[r], scenario')
    BY DEF SaveInv, Saves, SavePlaces
<1>4. CoverageInv(pc'[r], todo'[r], disk'[r], passes'[r], scenario')
    BY DEF CoverageInv, Working
<1> QED
    BY <1>1, <1>2, <1>3, <1>4 DEF Local, LocalInv

LEMMA CompleteKeeps ==
    ASSUME Shape, NEW r \in Client, Local(r), Complete(r)
    PROVE  Shape' /\ Local(r)'
<1> DEFINE p == Private(r)
           w == [p EXCEPT !.status = "completed"]
           t == Order("private", w, "off")
<1>1. /\ pc[r] = "decide" /\ \A o \in Turn(r) : Completed(r, o)
      /\ UNCHANGED <<request, disk, passes, starts, scenario, calls>>
      /\ \/ Goto(r, "off") /\ UNCHANGED todo
         \/ Save(r, "private", w, "off")
    BY DEF Complete, At, journalVars, Stay
<1>2. /\ p = PrivateIn(disk[r]) /\ p \in PrivateFile /\ disk[r].usage \in Usage
      /\ Sound(p, disk[r].usage, scenario) /\ request[r] = NoRequest /\ todo[r].file = "none"
    BY <1>1, KnowsPrivate
<1>3. CASE Goto(r, "off") /\ UNCHANGED todo
    <2>1. pc' \in [Client -> Places] /\ pc'[r] = "off"
        BY <1>3 DEF Shape, Goto, Places
    <2>2. Shape'
        BY <1>1, <1>3, <2>1 DEF Shape, TypeOK
    <2> QED
        BY <1>1, <1>2, <1>3, <2>1, <2>2, OffLocal
<1>4. CASE Save(r, "private", w, "off")
    <2>1. /\ scenario.accepted /\ scenario.shadow => p.ops["apollo"].state = "completed"
          /\ ~ scenario.accepted =>
               /\ p.ops["exa"].state = "completed"
               /\ p.ops["exa"].answer # "empty" => p.ops["clay"].state = "completed"
               /\ p.ops["exa"].answer # "empty" /\ p.ops["clay"].answer # "empty"
                  => p.ops["instantly"].state = "completed"
        BY <1>1, TurnSettled DEF Found, Completed, Entry
    <2>2. Chain(p.ops, scenario)
        BY <1>2 DEF Sound
    <2> HIDE DEF p
    <2>3. \A o \in PrivateOp : p.ops[o].state \in {"none", "completed"}
        <3>1. CASE scenario.accepted
            BY <2>1, <2>2, <3>1 DEF Chain
        <3>2. CASE ~ scenario.accepted
            BY <2>1, <2>2, <3>2 DEF Chain, Follows, PrivateOp
        <3> QED
            BY <3>1, <3>2
    <2>4. w \in PrivateFile /\ w.ops = p.ops
        BY <1>2 DEF PrivateFile
    <2>5. t.file = "private" /\ t.value = w /\ t.then = "off"
        BY DEF Order, NoTodo
    <2> HIDE DEF w, t
    <2>6. Sound(w, disk[r].usage, scenario)
        <3>1. Lonely(w.ops)
            BY <2>3, <2>4 DEF Lonely
        <3>2. \A o \in PrivateOp : Accounts(o, w.ops[o], disk[r].usage)
            BY <1>2, <2>4, ReplaysGives DEF Sound
        <3>3. \A o \in PrivateOp : w.ops[o].state \notin {"in_flight", "pending"}
            BY <2>3, <2>4
        <3>4. Replays(w, disk[r].usage)
            BY <1>2, <2>4, <3>1, <3>2, <3>3, ReplaysFrom
        <3> QED
            BY <1>2, <2>4, <3>1, <3>4 DEF Sound, Lonely
    <2>7. LastSettled(w.ops, scenario)
        BY <2>1, <2>3, <2>4 DEF LastSettled
    <2>8. Plan(t, disk[r], passes[r], scenario)
        BY <1>2, <2>4, <2>5, <2>6, <2>7 DEF Plan, PrivatePlan
    <2>9. calls' \in [Dispatch -> 0 .. 2]
        BY <1>1 DEF Shape, TypeOK
    <2> QED
        BY <1>1, <1>2, <1>4, <2>4, <2>8, <2>9, SaveKeeps DEF FileName, Places, t
<1> QED
    BY <1>1, <1>3, <1>4

LEMMA OpenKeeps ==
    ASSUME Shape, NEW r \in Client, Local(r), Open(r),
           DurableInv(Transition, Durable("restart"), scenario)
    PROVE  Shape' /\ Local(r)'
<1> DEFINE remote == Transition.private
           p == PrivateIn(disk[r])
           n == passes[r]
<1>1. /\ pc[r] = "open" /\ n < MaxPasses /\ passes' = [passes EXCEPT ![r] = @ + 1]
      /\ request[r] = NoRequest /\ request' = request
      /\ UNCHANGED <<starts, scenario, calls>>
    BY DEF Open, At, Load
<1>2. /\ disk \in [Client -> Files] /\ disk[r] \in Files /\ passes \in [Client -> 0 .. MaxPasses]
      /\ todo \in [Client -> Todo] /\ pc \in [Client -> Places] /\ n \in 0 .. MaxPasses
      /\ MaxPasses \in Nat
    BY ShapeOf, PassesAssumption DEF Shape, TypeOK
<1>3. /\ n # 0 => /\ \E o \in PrivateOp : p.ops[o].state = "pending"
                  /\ \A o \in PrivateOp :
                        p.ops[o].state = "pending" => p.ops[o].seq >= ReadLimit \/ n <= 1 + ReadsIn(p.ops)
      /\ todo[r].file = "none"
    BY <1>1 DEF Local, LocalInv, CoverageInv, PlaceInv, SavePlaces
<1>4. passes' \in [Client -> 0 .. MaxPasses] /\ passes'[r] = n + 1
    <2>1. n + 1 \in 0 .. MaxPasses
        BY <1>1, <1>2
    <2> QED
        BY <1>1, <1>2, <2>1
<1>5. remote # NoPayload =>
         /\ remote.checkpoint \in PrivateFile /\ remote.usage \in Usage
         /\ Sound(remote.checkpoint, remote.usage, scenario)
    BY DEF DurableInv, Shared, SharedPrivate
<1>6. p \in PrivateFile /\ (disk[r].private = NoFile => p = NewPrivate)
    BY ShapeOf DEF PrivateIn
<1>7. disk[r].private = NoFile => n = 0
    BY <1>3, <1>6, NewPrivateTyped DEF Absent
<1>8. ASSUME NEW ops, ops \in [PrivateOp -> Probe]
      PROVE  /\ ReadsIn(ops) \in Nat
    BY <1>8, PassesAssumption DEF ReadsIn, Probe, PrivateOp
<1> HIDE DEF remote, p, n
\* What the passes allow when the pass begins.
<1>9. ASSUME NEW q \in PrivateFile, q = p \/ n = 0
      PROVE  /\ \A o \in PrivateOp :
                   q.ops[o].state = "pending" => q.ops[o].seq >= ReadLimit \/ n + 1 <= 2 + ReadsIn(q.ops)
             /\ Unresolved(q.ops) = {} => n + 1 <= 1 + ReadsIn(q.ops)
    <2>1. ReadsIn(q.ops) \in Nat /\ n \in Nat
        BY <1>2, <1>8 DEF PrivateFile
    <2>2. CASE n = 0
        BY <2>1, <2>2
    <2>3. CASE n # 0
        <3>1. \A o \in PrivateOp :
                 q.ops[o].state = "pending" => q.ops[o].seq >= ReadLimit \/ n <= 1 + ReadsIn(q.ops)
            BY <1>3, <1>9, <2>3
        <3>2. \E o \in PrivateOp : q.ops[o].state = "pending"
            BY <1>3, <1>9, <2>3
        <3>3. Unresolved(q.ops) # {}
            BY <3>2 DEF Unresolved
        <3>4. n <= 1 + ReadsIn(q.ops) => n + 1 <= 2 + ReadsIn(q.ops)
            BY <2>1
        <3> QED
            BY <3>1, <3>3, <3>4
    <2> QED
        BY <2>2, <2>3
<1>10. ASSUME pc'[r] = "decide", UNCHANGED <<disk, todo>>, Goto(r, "decide"),
              Sound(p, disk[r].usage, scenario)
       PROVE  Shape' /\ Local(r)'
    <2>1. pc' \in [Client -> Places]
        BY <1>2, <1>10 DEF Goto, Places
    <2>2. Shape'
        BY <1>1, <1>4, <1>10, <2>1 DEF Shape, TypeOK
    <2>3. PlaceInv(pc'[r], todo'[r], disk'[r]) /\ RequestsInv(pc'[r], todo'[r], request'[r])
        BY <1>1, <1>3, <1>10 DEF PlaceInv, RequestsInv
    <2>4. NormalInv(pc'[r], todo'[r], disk'[r], passes'[r])
        BY <1>10 DEF NormalInv, Stages, SavePlaces
    <2>5. SaveInv(pc'[r], todo'[r], disk'[r], passes'[r], scenario')
        BY <1>10 DEF SaveInv, Saves, SavePlaces
    <2>6. PrivateIn(disk'[r]) = p /\ Sound(p, disk'[r].usage, scenario')
        BY <1>1, <1>10 DEF p
    <2>7. CoverageInv(pc'[r], todo'[r], disk'[r], passes'[r], scenario')
        BY <1>4, <1>6, <1>9, <1>10, <2>6 DEF CoverageInv, Working
    <2> QED
        BY <2>2, <2>3, <2>4, <2>5, <2>7 DEF Local, LocalInv
<1>11. CASE /\ remote = NoPayload /\ disk[r].private = NoFile /\ disk[r].usage = {}
            /\ Goto(r, "decide") /\ UNCHANGED <<disk, todo>>
    <2>1. p = NewPrivate
        BY <1>6, <1>11
    <2>2. \A o \in PrivateOp : p.ops[o] = Absent /\ p.ops[o].state = "none"
        BY <2>1, NewPrivateTyped DEF Absent
    <2>3. Lonely(p.ops) /\ (\A o \in PrivateOp : p.ops[o].state \notin {"in_flight", "pending"})
        BY <2>2 DEF Lonely
    <2>4. Chain(p.ops, scenario)
        BY <2>2 DEF Chain, Follows, PrivateOp
    <2>5. \A o \in PrivateOp : Accounts(o, p.ops[o], {})
        BY <2>2 DEF Accounts
    <2>6. Replays(p, {})
        BY <1>6, <2>3, <2>5, ReplaysFrom DEF Usage
    <2>7. Sound(p, disk[r].usage, scenario)
        BY <1>11, <2>2, <2>3, <2>4, <2>6 DEF Sound, Lonely
    <2>8. pc'[r] = "decide"
        BY <1>2, <1>11 DEF Goto
    <2> QED
        BY <1>10, <1>11, <2>7, <2>8
<1>12. CASE /\ remote # NoPayload
            /\ disk[r].private = remote.checkpoint /\ disk[r].usage = remote.usage
            /\ Goto(r, "decide") /\ UNCHANGED <<disk, todo>>
    <2>1. p = remote.checkpoint
        BY <1>5, <1>12, NoPayloadAssumption DEF p, PrivateIn, NoFile
    <2>2. pc'[r] = "decide"
        BY <1>2, <1>12 DEF Goto
    <2> QED
        BY <1>5, <1>10, <1>12, <2>1, <2>2
<1>13. CASE /\ remote # NoPayload /\ disk[r].private = NoFile /\ disk[r].usage = {}
            /\ disk' = [disk EXCEPT ![r].private = remote.checkpoint]
            /\ Goto(r, "restore usage") /\ Keep(r, remote.usage)
    <2>1. /\ remote.checkpoint \in PrivateFile /\ remote.usage \in Usage
          /\ Sound(remote.checkpoint, remote.usage, scenario) /\ n = 0
        BY <1>5, <1>7, <1>13
    <2>2. disk' \in [Client -> Files] /\ disk'[r].private = remote.checkpoint
        BY <1>2, <1>13, <2>1 DEF Files
    <2>3. /\ todo' \in [Client -> Todo] /\ todo'[r].value = remote.usage
          /\ todo'[r].file = "none"
        BY <1>2, <1>13, <2>1, NoTodoTyped DEF Keep, Todo, NoTodo
    <2>4. pc' \in [Client -> Places] /\ pc'[r] = "restore usage"
        BY <1>2, <1>13 DEF Goto, Places
    <2>5. Shape'
        BY <1>1, <1>4, <2>2, <2>3, <2>4 DEF Shape, TypeOK, Files
    <2>6. disk'[r].private # NoFile /\ PrivateIn(disk'[r]) = remote.checkpoint
        BY <2>1, <2>2, NoPayloadAssumption DEF PrivateIn, NoFile
    <2>7. PlaceInv(pc'[r], todo'[r], disk'[r]) /\ RequestsInv(pc'[r], todo'[r], request'[r])
        BY <1>1, <2>1, <2>3, <2>4, <2>6 DEF PlaceInv, RequestsInv
    <2>8. NormalInv(pc'[r], todo'[r], disk'[r], passes'[r])
        BY <2>4 DEF NormalInv, Stages, SavePlaces
    <2>9. SaveInv(pc'[r], todo'[r], disk'[r], passes'[r], scenario')
        BY <2>4 DEF SaveInv, Saves, SavePlaces
    <2>10. CoverageInv(pc'[r], todo'[r], disk'[r], passes'[r], scenario')
        <3>1. /\ Sound(PrivateIn(disk'[r]), todo'[r].value, scenario')
              /\ \A o \in PrivateOp :
                    PrivateIn(disk'[r]).ops[o].state = "pending" =>
                       \/ PrivateIn(disk'[r]).ops[o].seq >= ReadLimit
                       \/ passes'[r] <= 2 + ReadsIn(PrivateIn(disk'[r]).ops)
              /\ Unresolved(PrivateIn(disk'[r]).ops) = {} =>
                    passes'[r] <= 1 + ReadsIn(PrivateIn(disk'[r]).ops)
            BY <1>1, <1>4, <1>9, <2>1, <2>3, <2>6
        <3> QED
            BY <2>4, <3>1 DEF CoverageInv, Working
    <2> QED
        BY <2>5, <2>7, <2>8, <2>9, <2>10 DEF Local, LocalInv
<1> QED
    BY <1>11, <1>12, <1>13 DEF Open, remote

LEMMA RestoreUsageKeeps ==
    ASSUME Shape, NEW r \in Client, Local(r), RestoreUsage(r)
    PROVE  Shape' /\ Local(r)'
<1>1. /\ pc[r] = "restore usage" /\ request' = request /\ request[r] = NoRequest
      /\ disk' = [disk EXCEPT ![r].usage = todo[r].value]
      /\ pc' = [pc EXCEPT ![r] = "decide"] /\ todo' = [todo EXCEPT ![r] = NoTodo]
      /\ UNCHANGED <<passes, starts, scenario, calls>>
    BY DEF RestoreUsage, At, Goto, journalVars, Local, LocalInv, RequestsInv
<1>2. todo[r].value \in Usage /\ disk \in [Client -> Files]
    BY <1>1, ShapeOf DEF Local, LocalInv, PlaceInv
<1>3. /\ disk' \in [Client -> Files] /\ disk'[r].usage = todo[r].value
      /\ disk'[r].private = disk[r].private
    BY <1>1, <1>2 DEF Files
<1>4. /\ todo' \in [Client -> Todo] /\ todo'[r].file = "none"
      /\ pc' \in [Client -> Places] /\ pc'[r] = "decide"
    BY <1>1, NoTodoTyped DEF Shape, NoTodo, Places
<1>5. Shape'
    BY <1>1, <1>3, <1>4 DEF Shape, TypeOK, Files
<1>6. PlaceInv(pc'[r], todo'[r], disk'[r]) /\ RequestsInv(pc'[r], todo'[r], request'[r])
    BY <1>1, <1>4 DEF PlaceInv, RequestsInv
<1>7. NormalInv(pc'[r], todo'[r], disk'[r], passes'[r])
    BY <1>4 DEF NormalInv, Stages, SavePlaces
<1>8. SaveInv(pc'[r], todo'[r], disk'[r], passes'[r], scenario')
    BY <1>4 DEF SaveInv, Saves, SavePlaces
<1>9. PrivateIn(disk'[r]) = PrivateIn(disk[r])
    BY <1>3 DEF PrivateIn
<1>10. CoverageInv(pc[r], todo[r], disk[r], passes[r], scenario)
    BY DEF Local, LocalInv
<1>11. CoverageInv(pc'[r], todo'[r], disk'[r], passes'[r], scenario')
    BY <1>1, <1>3, <1>4, <1>9, <1>10 DEF CoverageInv, Working
<1> QED
    BY <1>5, <1>6, <1>7, <1>8, <1>11 DEF Local, LocalInv

=============================================================================
