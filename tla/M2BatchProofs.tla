--------------------------- MODULE M2BatchProofs ----------------------------
(***************************************************************************)
(* The company batch, for any plan, companies, reservations, ceilings,     *)
(* reruns and crashes.  The invariant is M2Batch!BatchInv.                 *)
(***************************************************************************)
EXTENDS M2Batch, FiniteSetTheorems, WellFoundedInduction, TLAPS

USE NoCeilingAssumption, BatchAssumption

-----------------------------------------------------------------------------
(***************************************************************************)
(* Identities of operations.                                               *)
(***************************************************************************)
\* Discovery, research and extraction operations are never mistaken for one another.
LEMMA Identities ==
    /\ \A r, q : Discovery(r) = Discovery(q) => r = q
    /\ \A c, d : Research(c) = Research(d) => c = d
    /\ \A c, d : Extraction(c) = Extraction(d) => c = d
    /\ \A r, c : Discovery(r) # Research(c) /\ Discovery(r) # Extraction(c)
    /\ \A c, d : Research(c) # Extraction(d)
  BY DEF Discovery, Research, Extraction

\* Every operation is of one kind, and Apify serves discovery only.
LEMMA Kinds ==
    /\ \A r \in Requests : Discovery(r) \in DiscoveryOps
    /\ \A c \in CompanySet : Research(c) \in ResearchOps /\ Extraction(c) \in ExtractionOps
    /\ \A o \in DiscoveryOps : o \notin ResearchOps /\ o \notin ExtractionOps
    /\ \A o \in ResearchOps : o \notin ExtractionOps
    /\ Op = DiscoveryOps \cup ResearchOps \cup ExtractionOps
    /\ ApifyOps \subseteq DiscoveryOps
  BY Identities DEF DiscoveryOps, ResearchOps, ExtractionOps, ApifyOps, Op

\* Apify operations, and no others, are charged by Apify.
LEMMA Providers ==
    /\ ProviderOf \in [Op -> Provider]
    /\ \A o \in Op : ProviderOf[o] = "apify" <=> o \in ApifyOps
    /\ \A o \in Op : ProviderOf[o] = "deepseek" => o \in ExtractionOps
<1>1. ApifyOps \subseteq Op
  BY Kinds
<1> QED BY <1>1 DEF ProviderOf, Provider

\* A nonempty set of numbers up to N has a least element.
LEMMA LeastOf ==
    ASSUME NEW N \in Nat, NEW S \in SUBSET (1..N), S # {}
    PROVE  \E m \in S : \A n \in S : m <= n
<1> DEFINE T == {1..n : n \in S}
           R == StrictSubsetOrdering(1..N)
<1>1. IsWellFoundedOn(R, FiniteSubsetsOf(1..N))
  BY FS_StrictSubsetOrderingWellFounded
<1>2. T \subseteq FiniteSubsetsOf(1..N) /\ T # {}
  <2>1. \A n \in S : 1..n \subseteq 1..N /\ IsFiniteSet(1..n)
    BY FS_Interval
  <2>2. \A n \in S : 1..n \in FiniteSubsetsOf(1..N)
    BY <2>1 DEF FiniteSubsetsOf
  <2>3. PICK n \in S : TRUE
    OBVIOUS
  <2>4. 1..n \in T
    OBVIOUS
  <2> QED BY <2>2, <2>4
<1>3. \E x \in T : \A y \in T : ~ (<<y, x>> \in R)
  <2> HIDE DEF T, R
  <2> QED BY <1>1, <1>2, WFMin
<1>4. PICK m \in S : \A n \in S : <<1..n, 1..m>> \notin R
  BY <1>3
<1>5. ASSUME NEW n \in S, n < m PROVE FALSE
  <2>1. 1..n \subseteq 1..m /\ m \in 1..m /\ m \notin 1..n
    BY <1>5
  <2>2. 1..n \in SUBSET (1..N) /\ 1..m \in SUBSET (1..N)
    OBVIOUS
  <2>3. <<1..n, 1..m>> \in R
    BY <2>1, <2>2 DEF StrictSubsetOrdering
  <2> QED BY <1>4, <2>3
<1> QED BY <1>5

\* The first planned request among some operations is one of them.
LEMMA FirstIsMember ==
    ASSUME NEW ops, ops \subseteq DiscoveryOps, ops # {}
    PROVE  FirstRequest(ops) \in ops
<1> DEFINE S == {i \in 1..Len(Plan) : Discovery(Plan[i]) \in ops}
<1>1. S \in SUBSET (1..Len(Plan)) /\ S # {}
  BY DEF DiscoveryOps, Requests
<1>2. PICK m \in S : \A n \in S : m <= n
  BY <1>1, LeastOf
<1>3. /\ m \in 1..Len(Plan) /\ Discovery(Plan[m]) \in ops
      /\ \A j \in 1..(m - 1) : Discovery(Plan[j]) \notin ops
  BY <1>2
<1> QED BY <1>3 DEF FirstRequest

\* The company the batch works on next is one of those without facts, and
\* every company before it has them.
LEMMA NextIsFirst ==
    ASSUME UnfinishedCompanies # {}
    PROVE  \E i \in 1..Len(Companies) :
              /\ NextCompany = Companies[i] /\ ~snap[Companies[i]].extracted
              /\ \A j \in 1..(i - 1) : snap[Companies[j]].extracted
<1>1. UnfinishedCompanies \in SUBSET (1..Len(Companies))
  BY DEF UnfinishedCompanies
<1>2. \E m \in UnfinishedCompanies : \A n \in UnfinishedCompanies : m <= n
  BY <1>1, LeastOf
<1>3. PICK i \in UnfinishedCompanies :
        NextCompany = Companies[i] /\ \A j \in UnfinishedCompanies : i <= j
  BY <1>2 DEF NextCompany
<1>4. \A j \in 1..(i - 1) : j \notin UnfinishedCompanies /\ j \in 1..Len(Companies)
  BY <1>1, <1>3
<1> QED BY <1>1, <1>3, <1>4 DEF UnfinishedCompanies

-----------------------------------------------------------------------------
(***************************************************************************)
(* What the actions write.                                                 *)
(***************************************************************************)
\* The operation map new differs from old in one entry at most, which it names.
OneEntry(old, new, o, state, run, calls) ==
    /\ \A q \in Op : q # o => new[q] = old[q]
    /\ new[o].state = state /\ (new[o].run <=> run) /\ new[o].calls = calls

\* The checkpoints m and n agree on everything but their operations.
SameStages(m, n) ==
    n.status = m.status /\ n.discovery = m.discovery /\ n.dedup = m.dedup

\* What TypeOK says of a checkpoint and of the entry of an operation.
LEMMA EntryType ==
    ASSUME NEW m \in Checkpoint, NEW o \in Op
    PROVE  /\ m.ops \in [Op -> Entry] /\ m.ops[o] \in Entry
           /\ m.ops[o].state \in OpStates /\ m.ops[o].run \in BOOLEAN
           /\ m.ops[o].calls \in 0..Queries
           /\ m.status \in Statuses /\ m.discovery \in BOOLEAN /\ m.dedup \in BOOLEAN
  BY DEF Checkpoint, Entry

\* Changing the status of a checkpoint changes nothing else.
LEMMA StatusWritten ==
    ASSUME NEW m \in Checkpoint, NEW s \in Statuses
    PROVE  LET n == [m EXCEPT !.status = s] IN
           /\ n \in Checkpoint /\ n.status = s
           /\ n.ops = m.ops /\ n.discovery = m.discovery /\ n.dedup = m.dedup
  BY DEF Checkpoint

\* Replacing the entry of one operation changes nothing else.
LEMMA EntryWritten ==
    ASSUME NEW m \in Checkpoint, NEW o \in Op, NEW e \in Entry
    PROVE  LET n == [m EXCEPT !.ops[o] = e] IN
           /\ n \in Checkpoint /\ SameStages(m, n)
           /\ n.ops[o] = e /\ \A q \in Op : q # o => n.ops[q] = m.ops[q]
  BY DEF Checkpoint, SameStages

\* A pause writes the status and ends the invocation.
LEMMA PauseWrites ==
    ASSUME TypeOK, NEW s \in Statuses, Pause(s)
    PROVE  /\ mem' \in Checkpoint /\ disk' = mem' /\ mem'.status = s
           /\ mem'.ops = mem.ops /\ mem'.discovery = mem.discovery /\ mem'.dedup = mem.dedup
           /\ pc' = "down" /\ answer' = "none" /\ todo' = {}
  BY StatusWritten DEF Pause, Save, TypeOK

\* A settled operation keeps its run id and its cursor.
LEMMA StateWrites ==
    ASSUME TypeOK, NEW s \in OpStates, Save(WithState(cur, s))
    PROVE  /\ mem' \in Checkpoint /\ disk' = mem' /\ SameStages(mem, mem')
           /\ OneEntry(mem.ops, mem'.ops, cur, s, mem.ops[cur].run, mem.ops[cur].calls)
<1> DEFINE e == [mem.ops[cur] EXCEPT !.state = s]
<1>1. mem \in Checkpoint /\ cur \in Op
  BY DEF TypeOK
<1>2. mem.ops[cur] \in Entry
  BY <1>1, EntryType
<1>3. e \in Entry /\ e.state = s /\ (e.run <=> mem.ops[cur].run) /\ e.calls = mem.ops[cur].calls
  BY <1>2 DEF Entry
<1>4. mem' = [mem EXCEPT !.ops[cur] = e] /\ disk' = mem'
  BY DEF Save, WithState
<1> HIDE DEF e
<1>5. /\ mem' \in Checkpoint /\ SameStages(mem, mem')
      /\ mem'.ops[cur] = e /\ \A q \in Op : q # cur => mem'.ops[q] = mem.ops[q]
  BY <1>1, <1>3, <1>4, EntryWritten
<1> QED BY <1>3, <1>4, <1>5 DEF OneEntry

\* Beginning an operation writes its intent.
LEMMA BeginWrites ==
    ASSUME TypeOK, Begin
    PROVE  \E o \in Op, n \in 0..Queries :
              /\ IsNext(o) /\ Fits(o) /\ cur' = o
              /\ o \in ResearchOps => n = mem.ops[o].calls
              /\ mem' \in Checkpoint /\ disk' = mem' /\ mem'.status = "running"
              /\ OneEntry(mem.ops, mem'.ops, o, "in_flight", FALSE, n)
              /\ mem'.discovery = mem.discovery /\ mem'.dedup = mem.dedup
<1>1. PICK o \in Op :
        /\ IsNext(o) /\ Fits(o) /\ cur' = o
        /\ Save([mem EXCEPT !.status = "running",
                            !.ops[o] = [state |-> "in_flight", run |-> FALSE,
                                        calls |-> IF o \in ResearchOps THEN @.calls ELSE 0]])
  BY DEF Begin
<1> DEFINE n == IF o \in ResearchOps THEN mem.ops[o].calls ELSE 0
           e == [state |-> "in_flight", run |-> FALSE, calls |-> n]
           m == [mem EXCEPT !.status = "running"]
<1>2. mem \in Checkpoint
  BY DEF TypeOK
<1>3. n \in 0..Queries /\ e \in Entry
  BY <1>2, EntryType DEF Entry, OpStates
<1>4. /\ m \in Checkpoint /\ m.status = "running" /\ m.ops = mem.ops
      /\ m.discovery = mem.discovery /\ m.dedup = mem.dedup
  BY <1>2, StatusWritten DEF Statuses
<1>5. mem' = [m EXCEPT !.ops[o] = e] /\ disk' = mem'
  BY <1>1, <1>2 DEF Save, Checkpoint
<1>6. e.state = "in_flight" /\ ~e.run /\ e.calls = n
  OBVIOUS
<1> HIDE DEF m, e, n
<1>7. /\ mem' \in Checkpoint /\ SameStages(m, mem')
      /\ mem'.ops[o] = e /\ \A q \in Op : q # o => mem'.ops[q] = mem.ops[q]
  BY <1>3, <1>4, <1>5, EntryWritten, SMTT(20)
<1>8. OneEntry(mem.ops, mem'.ops, o, "in_flight", FALSE, n)
  BY <1>6, <1>7 DEF OneEntry
<1> QED BY <1>1, <1>3, <1>4, <1>5, <1>7, <1>8 DEF n, SameStages

\* The recorder writes the run id to the file only.
LEMMA RecordRunWrites ==
    ASSUME TypeOK, RecordRun
    PROVE  /\ disk' \in Checkpoint /\ SameStages(disk, disk')
           /\ OneEntry(disk.ops, disk'.ops, cur,
                       disk.ops[cur].state, TRUE, disk.ops[cur].calls)
<1> DEFINE e == [disk.ops[cur] EXCEPT !.run = TRUE]
<1>1. disk \in Checkpoint /\ cur \in Op
  BY DEF TypeOK
<1>2. disk.ops[cur] \in Entry
  BY <1>1, EntryType
<1>3. e \in Entry /\ e.state = disk.ops[cur].state /\ e.run /\ e.calls = disk.ops[cur].calls
  BY <1>2 DEF Entry
<1>4. disk' = [disk EXCEPT !.ops[cur] = e]
  BY DEF RecordRun
<1> HIDE DEF e
<1> QED BY <1>1, <1>3, <1>4, EntryWritten DEF OneEntry

\* Progress moves the cursor past the query just answered.
LEMMA ProgressWrites ==
    ASSUME TypeOK, SaveProgress, mem.ops[cur].calls < Queries
    PROVE  /\ mem' \in Checkpoint /\ disk' = mem' /\ SameStages(mem, mem')
           /\ OneEntry(mem.ops, mem'.ops, cur,
                       mem.ops[cur].state, mem.ops[cur].run, mem.ops[cur].calls + 1)
<1> DEFINE e == [mem.ops[cur] EXCEPT !.calls = @ + 1]
<1>1. mem \in Checkpoint /\ cur \in Op
  BY DEF TypeOK
<1>2. mem.ops[cur] \in Entry
  BY <1>1, EntryType
<1>3. /\ e \in Entry /\ e.state = mem.ops[cur].state /\ (e.run <=> mem.ops[cur].run)
      /\ e.calls = mem.ops[cur].calls + 1
  BY <1>2, SMTT(20) DEF Entry
<1>4. mem' = [mem EXCEPT !.ops[cur] = e] /\ disk' = mem'
  BY DEF SaveProgress, Save
<1> HIDE DEF e
<1>5. /\ mem' \in Checkpoint /\ SameStages(mem, mem')
      /\ mem'.ops[cur] = e /\ \A q \in Op : q # cur => mem'.ops[q] = mem.ops[q]
  BY <1>1, <1>3, <1>4, EntryWritten
<1> QED BY <1>3, <1>4, <1>5 DEF OneEntry

\* A completed operation keeps its run id, and an Apify one has it now.
LEMMA CompletedWrites ==
    ASSUME TypeOK, FinishCompleted
    PROVE  /\ mem' \in Checkpoint /\ disk' = mem' /\ SameStages(mem, mem')
           /\ OneEntry(mem.ops, mem'.ops, cur, "completed",
                       mem.ops[cur].run \/ cur \in ApifyOps, mem.ops[cur].calls)
<1> DEFINE d == [mem.ops[cur] EXCEPT !.state = "completed"]
           e == [d EXCEPT !.run = @ \/ cur \in ApifyOps]
           m == [mem EXCEPT !.ops[cur] = d]
<1>1. mem \in Checkpoint /\ cur \in Op
  BY DEF TypeOK
<1>2. mem.ops[cur] \in Entry
  BY <1>1, EntryType
<1>3. d \in Entry /\ d.state = "completed" /\ (d.run <=> mem.ops[cur].run)
      /\ d.calls = mem.ops[cur].calls
  BY <1>2 DEF Entry, OpStates
<1>4. e \in Entry /\ e.state = d.state /\ (e.run <=> (d.run \/ cur \in ApifyOps)) /\ e.calls = d.calls
  <2> HIDE DEF d
  <2> QED BY <1>3 DEF Entry
<1>5. m \in Checkpoint /\ SameStages(mem, m) /\ m.ops[cur] = d
      /\ \A q \in Op : q # cur => m.ops[q] = mem.ops[q]
  BY <1>1, <1>3, EntryWritten
<1>6. mem' = [m EXCEPT !.ops[cur].run = @ \/ cur \in ApifyOps] /\ disk' = mem'
  BY DEF FinishCompleted, Save
<1>7. mem' = [m EXCEPT !.ops[cur] = e]
  <2> HIDE DEF d, m
  <2> QED BY <1>5, <1>6
<1> HIDE DEF d, e, m
<1>8. mem' \in Checkpoint /\ SameStages(m, mem') /\ mem'.ops[cur] = e
      /\ \A q \in Op : q # cur => mem'.ops[q] = m.ops[q]
  BY <1>1, <1>4, <1>5, <1>7, EntryWritten
<1> QED BY <1>3, <1>4, <1>5, <1>6, <1>8 DEF OneEntry, SameStages

-----------------------------------------------------------------------------
(***************************************************************************)
(* Every step keeps the types.                                             *)
(***************************************************************************)
\* One more usage event leaves totals.
LEMMA EventAdded ==
    ASSUME NEW t \in Totals, NEW priced \in BOOLEAN, NEW cost \in Nat
    PROVE  AddEvent(t, priced, cost) \in Totals
<1>1. t.known \in Nat /\ t.missing \in BOOLEAN
  BY DEF Totals
<1> QED BY <1>1 DEF AddEvent, Totals

\* What TypeOK says of a checkpoint and the operations it names.
LEMMA Typed ==
    ASSUME TypeOK
    PROVE  /\ disk \in Checkpoint /\ mem \in Checkpoint /\ cur \in Op
           /\ ProviderOf[cur] \in Provider
           /\ charge[cur] \in Nat /\ Reservation[cur] \in Nat
           /\ \A o \in Op : disk.ops[o] \in Entry /\ mem.ops[o] \in Entry
  BY EntryType, Providers DEF TypeOK

\* Every step keeps the types.
LEMMA TypeStep ==
    ASSUME TypeOK, CurrentIsOpen, CursorFollowsAnswers, MemoryFollowsDisk, OthersAreResolved,
           [Next]_vars
    PROVE  TypeOK'
<1> USE DEF TypeOK, files, history
<1>1. ASSUME NEW cfg \in Configs, Start(cfg) PROVE TypeOK'
  BY <1>1 DEF Start
<1>2. CASE Freeze
  <2>1. disk' \in Checkpoint /\ mem' = disk'
    BY <1>2, StatusWritten DEF Freeze, Statuses
  <2> QED BY <1>2, <2>1 DEF Freeze
<1>3. CASE ResumeApify
  <2> DEFINE o == FirstRequest(todo)
  <2>1. todo \subseteq DiscoveryOps /\ todo # {}
    BY <1>3, Kinds DEF ResumeApify
  <2>2. o \in todo /\ o \in Op
    BY <2>1, FirstIsMember, Kinds
  <2> HIDE DEF o
  <2>3. CASE Pause("paused_unknown") /\ UNCHANGED cur
    BY <1>3, <2>3, PauseWrites DEF ResumeApify, Statuses
  <2>4. CASE Pause("failed") /\ UNCHANGED cur
    BY <1>3, <2>4, PauseWrites DEF ResumeApify, Statuses
  <2>5. CASE cur' = o /\ todo' = todo \ {o} /\ pc' = "polling" /\ UNCHANGED <<mem, disk, answer>>
    BY <1>3, <2>2, <2>5 DEF ResumeApify
  <2> QED BY <1>3, <2>3, <2>4, <2>5 DEF ResumeApify, o
<1>4. CASE EndDiscovery
  <2>1. CASE Pause("paused_retryable")
    BY <1>4, <2>1, PauseWrites DEF EndDiscovery, Statuses
  <2>2. CASE Save([mem EXCEPT !.discovery = TRUE]) /\ UNCHANGED <<pc, answer, todo>>
    <3>1. mem' \in Checkpoint /\ disk' = mem'
      BY <2>2 DEF Save, Checkpoint
    <3> QED BY <1>4, <2>2, <3>1 DEF EndDiscovery
  <2> QED BY <1>4, <2>1, <2>2 DEF EndDiscovery
<1>5. CASE Deduplicate
  <2>1. CASE mem' = disk /\ tracker' = usage /\ pc' = "down" /\ UNCHANGED disk
    BY <1>5, <2>1 DEF Deduplicate
  <2>2. CASE Save([mem EXCEPT !.dedup = TRUE]) /\ UNCHANGED <<pc, tracker>>
    <3>1. mem' \in Checkpoint /\ disk' = mem'
      BY <2>2 DEF Save, Checkpoint
    <3> QED BY <1>5, <2>2, <3>1 DEF Deduplicate
  <2> QED BY <1>5, <2>1, <2>2 DEF Deduplicate
<1>6. CASE Complete
  BY <1>6, PauseWrites DEF Complete, Statuses
<1>7. CASE PauseForBudget
  BY <1>7, PauseWrites DEF PauseForBudget, Statuses
<1>8. CASE Begin
  <2>1. mem' \in Checkpoint /\ disk' = mem' /\ cur' \in Op
    BY <1>8, BeginWrites
  <2> QED BY <1>8, <2>1 DEF Begin
<1>9. CASE RecordRun
  BY <1>9, RecordRunWrites DEF RecordRun
<1>10. CASE SaveProgress
  <2>1. PICK c \in CompanySet : cur = Research(c)
    BY <1>10, Kinds DEF SaveProgress, CurrentIsOpen, ResearchOps
  <2>2. mem.ops[cur].calls < Queries
    BY <1>10, <2>1 DEF SaveProgress, CursorFollowsAnswers, MemoryFollowsDisk
  <2> QED BY <1>10, <2>2, ProgressWrites DEF SaveProgress
<1>11. CASE NextQuery
  BY <1>11 DEF NextQuery
<1>12. CASE StopQueries
  BY <1>12, StateWrites DEF StopQueries, OpStates, Failures
<1>13. CASE FinishCompleted
  BY <1>13, CompletedWrites DEF FinishCompleted
<1>14. CASE LeaveUnknown
  BY <1>14, PauseWrites DEF LeaveUnknown, Statuses
<1>15. CASE FinishApify
  BY <1>15, StateWrites DEF FinishApify, OpStates
<1>16. CASE FinishRequired
  BY <1>16, StateWrites DEF FinishRequired, OpStates
<1>17. CASE StopRun
  <2>1. \E s \in Statuses : Pause(s)
    BY <1>17 DEF StopRun, CurrentIsOpen, Statuses
  <2> QED BY <1>17, <2>1, PauseWrites DEF StopRun
<1>18. ASSUME NEW priced \in BOOLEAN, RecordUsage(priced) PROVE TypeOK'
  <2> DEFINE p == ProviderOf[cur]
  <2>1. /\ AddEvent(usage[p], priced, charge[cur]) \in Totals
        /\ AddEvent(tracker[p], priced, charge[cur]) \in Totals
    BY Typed, EventAdded
  <2>2. tails' \in Tails
    BY <1>18 DEF RecordUsage, Tails
  <2>3. usage' \in [Provider -> Totals] /\ tracker' \in [Provider -> Totals]
    BY <1>18, <2>1 DEF RecordUsage
  <2> QED BY <1>18, <2>2, <2>3 DEF RecordUsage
<1>19. ASSUME NEW r \in Requests, StoreRows(r) PROVE TypeOK'
  <2>1. tails' \in Tails
    BY <1>19 DEF StoreRows, Tails
  <2> QED BY <1>19, <2>1 DEF StoreRows
<1>20. ASSUME NEW c \in CompanySet, StoreFacts(c) PROVE TypeOK'
  <2> DEFINE s == [snap[c] EXCEPT !.extracted = TRUE]
  <2>0. snap[c] \in Snapshot
    OBVIOUS
  <2>1. s \in Snapshot
    BY <2>0 DEF Snapshot
  <2>2. snap' = [snap EXCEPT ![c] = s]
    BY <1>20 DEF StoreFacts
  <2> HIDE DEF s
  <2>3. snap' \in [CompanySet -> Snapshot]
    BY <2>1, <2>2
  <2> QED BY <1>20, <2>3 DEF StoreFacts
<1>21. ASSUME NEW c \in CompanySet, StoreResearch(c) PROVE TypeOK'
  <2> DEFINE s == [snap[c] EXCEPT !.research = "completed"]
  <2>0. snap[c] \in Snapshot
    OBVIOUS
  <2>1. s \in Snapshot
    BY <2>0 DEF Snapshot
  <2>2. snap' = [snap EXCEPT ![c] = s]
    BY <1>21 DEF StoreResearch
  <2> HIDE DEF s
  <2>3. snap' \in [CompanySet -> Snapshot]
    BY <2>1, <2>2
  <2> QED BY <1>21, <2>3 DEF StoreResearch
<1>22. ASSUME NEW c \in CompanySet, NEW found \in BOOLEAN, StoreEvidence(c, found) PROVE TypeOK'
  <2>1. snap' \in [CompanySet -> Snapshot]
    <3> DEFINE s == [snap[c] EXCEPT !.research = "in_progress"]
               t == [s EXCEPT !.evidence = @ \/ found]
               m == [snap EXCEPT ![c] = s]
    <3>0. snap[c] \in Snapshot /\ snap \in [CompanySet -> Snapshot]
      OBVIOUS
    <3>1. s \in Snapshot
      BY <3>0 DEF Snapshot
    <3>2. t \in Snapshot
      <4> HIDE DEF s
      <4> QED BY <3>1 DEF Snapshot
    <3>3. snap' = [m EXCEPT ![c].evidence = @ \/ found]
      BY <1>22 DEF StoreEvidence
    <3>4. m \in [CompanySet -> Snapshot] /\ m[c] = s
      <4> HIDE DEF s
      <4> QED BY <3>0, <3>1
    <3>5. snap' = [m EXCEPT ![c] = t]
      <4> HIDE DEF m, s
      <4> QED BY <3>3, <3>4
    <3> HIDE DEF m, t
    <3> QED BY <3>2, <3>4, <3>5
  <2>2. mem.ops[cur].calls \in 0..(Queries - 1)
    <3>1. /\ mem.ops[cur].calls = disk.ops[cur].calls
          /\ disk.ops[cur].calls < Queries
      BY <1>22 DEF StoreEvidence, CursorFollowsAnswers, MemoryFollowsDisk
    <3>2. mem.ops[cur].calls \in 0..Queries
      BY EntryType
    <3> QED BY <3>1, <3>2
  <2>3. answered' \in [CompanySet -> SUBSET (0..(Queries - 1))]
    BY <1>22, <2>2 DEF StoreEvidence
  <2> QED BY <1>22, <2>1, <2>3 DEF StoreEvidence
<1>23. ASSUME NEW outcome \in Outcomes, NEW cost \in 0..Reservation[cur],
              Call(outcome, cost) \/ StartRun(outcome, cost)
       PROVE  TypeOK'
  <2>1. billed' \in [Provider -> Nat] /\ charge' \in [Op -> Nat] /\ answered' = answered
    <3>1. cost \in Nat /\ ProviderOf[cur] \in Provider
      BY Typed
    <3>2. Bill(cost)
      BY <1>23 DEF Call, StartRun
    <3> QED BY <3>1, <3>2 DEF Bill
  <2>2. faults' \in 0..MaxFaults /\ answer' \in Failures \cup {"ok", "none"}
    BY <1>23 DEF Call, StartRun, Answers, Outcomes
  <2> QED BY <1>23, <2>1, <2>2 DEF Call, StartRun
<1>24. ASSUME NEW outcome \in Outcomes, Poll(outcome) PROVE TypeOK'
  <2>1. faults' \in 0..MaxFaults /\ answer' \in Failures \cup {"ok", "none"}
    BY <1>24 DEF Poll, Answers, Outcomes
  <2> QED BY <1>24, <2>1 DEF Poll
<1>25. CASE Crash
  BY <1>25 DEF Crash, Die
<1>26. ASSUME NEW f \in {"usage", "rows"}, TornAppend(f) PROVE TypeOK'
  <2>1. tails' \in Tails
    BY <1>26 DEF TornAppend, Tails
  <2> QED BY <1>26, <2>1 DEF TornAppend, Die
<1>27. CASE UNCHANGED vars
  BY <1>27 DEF vars
<1> QED
  BY <1>1, <1>2, <1>3, <1>4, <1>5, <1>6, <1>7, <1>8, <1>9, <1>10, <1>11, <1>12, <1>13, <1>14,
     <1>15, <1>16, <1>17, <1>18, <1>19, <1>20, <1>21, <1>22, <1>23, <1>24, <1>25, <1>26, <1>27
  DEF Next, Launch, Process, Environment

-----------------------------------------------------------------------------
(***************************************************************************)
(* Steps that end the invocation.                                          *)
(***************************************************************************)
\* The parts of the invariant that relate the checkpoint, the process and the outputs.
Relations ==
    /\ MemoryFollowsDisk
    /\ RunIdsAreApify
    /\ CurrentIsOpen
    /\ OthersAreResolved
    /\ RowsFollowState
    /\ FactsFollowState
    /\ CursorFollowsAnswers
    /\ CompletionIsFinal

\* The memory of the process knows every state and cursor of the file, and of
\* the run ids those it may rely on.
LEMMA MemoryAgrees ==
    ASSUME TypeOK, Relations
    PROVE  \A o \in Op :
              /\ mem.ops[o].state = disk.ops[o].state
              /\ mem.ops[o].calls = disk.ops[o].calls
              /\ mem.ops[o].run => disk.ops[o].run /\ o \in ApifyOps /\ mem.ops[o].state # "none"
              /\ o \in ApifyOps /\ mem.ops[o].state = "pending" => mem.ops[o].run
              /\ o # cur \/ o \notin ApifyOps \/ ~Busy => mem.ops[o] = disk.ops[o]
<1> SUFFICES ASSUME NEW o \in Op
             PROVE  /\ mem.ops[o].state = disk.ops[o].state
                    /\ mem.ops[o].calls = disk.ops[o].calls
                    /\ mem.ops[o].run => disk.ops[o].run /\ o \in ApifyOps /\ mem.ops[o].state # "none"
                    /\ o \in ApifyOps /\ mem.ops[o].state = "pending" => mem.ops[o].run
                    /\ o # cur \/ o \notin ApifyOps \/ ~Busy => mem.ops[o] = disk.ops[o]
  OBVIOUS
<1>1. CASE mem.ops[o] = disk.ops[o]
  BY <1>1 DEF Relations, RunIdsAreApify
<1>2. CASE mem.ops[o] # disk.ops[o]
  <2>1. /\ o = cur /\ o \in ApifyOps /\ disk.ops[o].run /\ ~mem.ops[o].run
        /\ mem.ops[o].state = disk.ops[o].state /\ mem.ops[o].calls = disk.ops[o].calls
    BY <1>2 DEF Relations, MemoryFollowsDisk
  <2>2. Busy
    BY <1>2 DEF Relations, MemoryFollowsDisk, Busy
  <2> QED BY <2>1, <2>2 DEF Relations, CurrentIsOpen
<1> QED BY <1>1, <1>2

\* When the process exits, by a pause or a crash, with the checkpoint of the
\* file or the one it held in memory, nothing that was related comes apart.
LEMMA ExitKeeps ==
    ASSUME TypeOK, Relations,
           pc' = "down", disk' = mem',
           disk'.ops = disk.ops \/ disk'.ops = mem.ops,
           UNCHANGED <<rows, snap, answered>>
    PROVE  Relations'
<1>1. \A o \in Op : /\ disk'.ops[o].state = disk.ops[o].state
                    /\ disk'.ops[o].calls = disk.ops[o].calls
                    /\ disk'.ops[o].run => o \in ApifyOps /\ disk'.ops[o].state # "none"
                    /\ o \in ApifyOps /\ disk'.ops[o].state = "pending" => disk'.ops[o].run
  BY MemoryAgrees DEF Relations, RunIdsAreApify
<1>2. MemoryFollowsDisk' /\ CurrentIsOpen' /\ OthersAreResolved' /\ CompletionIsFinal'
  BY DEF MemoryFollowsDisk, CurrentIsOpen, OthersAreResolved, CompletionIsFinal, Busy
<1>3. RunIdsAreApify'
  BY <1>1 DEF RunIdsAreApify
<1>4. RowsFollowState'
  BY <1>1, Kinds DEF RowsFollowState, Relations
<1>5. FactsFollowState'
  BY <1>1, Kinds DEF FactsFollowState, Relations
<1>6. CursorFollowsAnswers'
  BY <1>1, Kinds DEF CursorFollowsAnswers, Relations
<1> QED BY <1>2, <1>3, <1>4, <1>5, <1>6 DEF Relations

\* Every pause ends the invocation that way.
LEMMA PauseKeeps ==
    ASSUME TypeOK, Relations, NEW s \in Statuses, Pause(s), UNCHANGED <<rows, snap, answered>>
    PROVE  Relations'
  BY PauseWrites, ExitKeeps

\* So does every crash.
LEMMA DieKeeps ==
    ASSUME TypeOK, Relations, Die
    PROVE  Relations'
  BY ExitKeeps DEF Die, history

-----------------------------------------------------------------------------
(***************************************************************************)
(* Starting, and the steps between operations.                             *)
(***************************************************************************)
\* A new process begins with the checkpoint of the file.
LEMMA StartKeeps ==
    ASSUME TypeOK, Relations, NEW cfg \in Configs, Start(cfg)
    PROVE  Relations'
<1>1. /\ pc = "down" /\ pc' = "loop" /\ mem' = disk /\ disk' = disk /\ tracker' = usage
      /\ usage' = usage /\ config' = cfg /\ disk.status # "completed"
      /\ UNCHANGED <<rows, snap, answered, cur>>
      /\ todo' = IF cfg.apify /\ ~disk.discovery
                 THEN {o \in ApifyOps : disk.ops[o].state \in {"in_flight", "pending"}}
                 ELSE {}
  BY DEF Start, CanStart, files, history
<1>2. \A o \in Op : disk.ops[o].state = "in_flight" => o \in ApifyOps /\ disk.ops[o].run
  BY EntryType DEF Start, Unknown, UnknownInFlight, InFlight, Runs, TypeOK, Checkpoint
<1>3. MemoryFollowsDisk' /\ CurrentIsOpen' /\ CompletionIsFinal'
  BY <1>1 DEF MemoryFollowsDisk, CurrentIsOpen, CompletionIsFinal, Busy
<1>4. OthersAreResolved'
  BY <1>1, <1>2 DEF OthersAreResolved
<1>5. RunIdsAreApify' /\ RowsFollowState' /\ FactsFollowState' /\ CursorFollowsAnswers'
  BY <1>1 DEF Relations, RunIdsAreApify, RowsFollowState, FactsFollowState, CursorFollowsAnswers
<1> QED BY <1>3, <1>4, <1>5 DEF Relations

\* A frozen checkpoint keeps its operations.
LEMMA FreezeKeeps ==
    ASSUME TypeOK, Relations, Freeze
    PROVE  Relations'
<1>1. disk \in Checkpoint
  BY DEF TypeOK
<1>2. disk'.ops = disk.ops
  BY <1>1, StatusWritten DEF Freeze, Statuses
<1> QED BY <1>2, ExitKeeps DEF Freeze, CanStart, files, history

\* A resumed Apify run becomes the current operation.
LEMMA ResumeKeeps ==
    ASSUME TypeOK, Relations, ResumeApify
    PROVE  Relations'
<1> DEFINE o == FirstRequest(todo)
<1>1. o \in todo /\ o \in Op /\ o \in ApifyOps
  <2>1. todo \subseteq DiscoveryOps /\ todo # {} /\ todo \subseteq ApifyOps
    BY Kinds DEF ResumeApify, TypeOK
  <2> QED BY <2>1, FirstIsMember, Kinds
<1> HIDE DEF o
<1>2. CASE Pause("paused_unknown")
  BY <1>2, PauseKeeps DEF ResumeApify, Statuses, files, history
<1>3. CASE Pause("failed")
  BY <1>3, PauseKeeps DEF ResumeApify, Statuses, files, history
<1>4. CASE /\ cur' = o /\ todo' = todo \ {o} /\ pc' = "polling" /\ mem.ops[o].run
           /\ UNCHANGED <<mem, disk, answer>>
  <2>1. /\ pc = "loop" /\ mem = disk /\ ~Busy
        /\ UNCHANGED <<mem, disk, tracker, usage, rows, snap, answered, config>>
    BY <1>4 DEF ResumeApify, Relations, MemoryFollowsDisk, files, history, Busy
  <2>2. disk.ops[o].state \in {"in_flight", "pending"} /\ disk.ops[o].run
    BY <1>1, <1>4, <2>1 DEF Relations, OthersAreResolved
  <2>3. MemoryFollowsDisk' /\ CompletionIsFinal' /\ RunIdsAreApify'
    BY <1>4, <2>1 DEF Relations, MemoryFollowsDisk, CompletionIsFinal, RunIdsAreApify
  <2>4. CurrentIsOpen'
    BY <1>1, <1>4, <2>1, <2>2 DEF CurrentIsOpen, Busy
  <2>5. OthersAreResolved'
    BY <1>1, <1>4, <2>1, <2>2 DEF Relations, OthersAreResolved, Busy
  <2>6. RowsFollowState' /\ FactsFollowState' /\ CursorFollowsAnswers'
    BY <1>1, <1>4, <2>1 DEF Relations, RowsFollowState, FactsFollowState, CursorFollowsAnswers
  <2> QED BY <2>3, <2>4, <2>5, <2>6 DEF Relations
<1> QED BY <1>2, <1>3, <1>4 DEF ResumeApify, o

\* The end of discovery is marked, or waits for a pending run.
LEMMA EndDiscoveryKeeps ==
    ASSUME TypeOK, Relations, EndDiscovery
    PROVE  Relations'
<1>1. CASE Pause("paused_retryable")
  BY <1>1, PauseKeeps DEF EndDiscovery, Statuses, files, history
<1>2. CASE Save([mem EXCEPT !.discovery = TRUE]) /\ UNCHANGED <<pc, answer, todo>>
  <2>1. /\ disk' = mem' /\ mem'.ops = mem.ops /\ mem'.status = mem.status /\ mem'.discovery
    BY <1>2 DEF Save, TypeOK, Checkpoint
  <2>2. /\ pc = "loop" /\ todo = {} /\ mem = disk
        /\ UNCHANGED <<pc, cur, answer, todo, config, tracker, usage, rows, snap, answered>>
    BY <1>2 DEF EndDiscovery, Relations, MemoryFollowsDisk, files, history
  <2>3. MemoryFollowsDisk' /\ RunIdsAreApify' /\ CurrentIsOpen' /\ CompletionIsFinal'
    BY <2>1, <2>2
    DEF Relations, MemoryFollowsDisk, RunIdsAreApify, CurrentIsOpen, CompletionIsFinal, Busy
  <2>4. OthersAreResolved'
    BY <2>1, <2>2 DEF Relations, OthersAreResolved, Busy
  <2>5. RowsFollowState' /\ FactsFollowState' /\ CursorFollowsAnswers'
    BY <2>1, <2>2 DEF Relations, RowsFollowState, FactsFollowState, CursorFollowsAnswers
  <2> QED BY <2>3, <2>4, <2>5 DEF Relations
<1> QED BY <1>1, <1>2 DEF EndDiscovery

\* Deduplication marks its stage, or raises.
LEMMA DeduplicateKeeps ==
    ASSUME TypeOK, Relations, Deduplicate
    PROVE  Relations'
<1>1. CASE pc' = "down" /\ mem' = disk /\ UNCHANGED disk
  BY <1>1, ExitKeeps DEF Deduplicate, files, history
<1>2. CASE Save([mem EXCEPT !.dedup = TRUE]) /\ UNCHANGED <<pc, tracker>>
  <2>1. /\ disk' = mem' /\ mem'.ops = mem.ops /\ mem'.status = mem.status
        /\ mem'.discovery = mem.discovery
    BY <1>2 DEF Save, TypeOK, Checkpoint
  <2>2. /\ pc = "loop" /\ mem = disk
        /\ UNCHANGED <<pc, cur, answer, todo, config, tracker, usage, rows, snap, answered>>
    BY <1>2 DEF Deduplicate, Relations, MemoryFollowsDisk, files, history
  <2> QED
    BY <2>1, <2>2
    DEF Relations, MemoryFollowsDisk, RunIdsAreApify, CurrentIsOpen, OthersAreResolved,
        RowsFollowState, FactsFollowState, CursorFollowsAnswers, CompletionIsFinal, Busy
<1> QED BY <1>1, <1>2 DEF Deduplicate

\* What the next operation may be: nothing of it is stored, it has no run id
\* and is not in flight, and no operation of its provider is.
LEMMA NextIsFresh ==
    ASSUME TypeOK, Relations, pc = "loop", todo = {}, NEW o \in Op, IsNext(o)
    PROVE  /\ disk.ops[o].state # "in_flight" /\ ~disk.ops[o].run
           /\ \A q \in Op : disk.ops[q].state = "in_flight" => ProviderOf[q] # ProviderOf[o]
           /\ \A r \in Requests : o = Discovery(r) => rows[r] = 0
           /\ \A c \in CompanySet : o = Extraction(c) => ~snap[c].extracted
           /\ \A c \in CompanySet : o = Research(c) =>
                /\ snap[c].research # "completed"
                /\ answered[c] = 0..(disk.ops[o].calls - 1) /\ disk.ops[o].calls < Queries
           /\ disk.ops[o].state # "completed"
           /\ o \in ApifyOps => config.apify /\ ~disk.discovery
<1>1. mem = disk
  BY DEF Relations, MemoryFollowsDisk
<1>2. \A q \in Op : disk.ops[q].state = "in_flight" =>
        q \in ApifyOps /\ ~(config.apify /\ ~disk.discovery)
  BY DEF Relations, OthersAreResolved, Busy
<1>3. CASE o = FirstRequest(UnfinishedRequests) /\ UnfinishedRequests # {} /\ Phase = "discovery"
  <2>1. o \in UnfinishedRequests
    <3>1. UnfinishedRequests \subseteq DiscoveryOps
      BY DEF UnfinishedRequests, PlannedOps
    <3> QED BY <1>3, <3>1, FirstIsMember
  <2>2. /\ o \in DiscoveryOps
        /\ o \in ApifyOps => config.apify
        /\ disk.ops[o].state \notin {"completed", "failed"}
        /\ ~(o \in ApifyOps /\ disk.ops[o].run /\ disk.ops[o].state = "pending")
    BY <1>1, <2>1 DEF UnfinishedRequests, PlannedOps, Skipped, Runs, ApifyPlanned
  <2>3. ~disk.discovery
    BY <1>1, <1>3 DEF Phase
  <2>4. disk.ops[o].state # "in_flight"
    BY <1>2, <2>2, <2>3
  <2>5. disk.ops[o].state \in OpStates
    BY EntryType DEF TypeOK
  <2>6. disk.ops[o].state = "none" \/ (disk.ops[o].state = "pending" /\ o \notin ApifyOps)
    BY <2>2, <2>4, <2>5 DEF OpStates, Relations, RunIdsAreApify
  <2>7. ~disk.ops[o].run
    BY <2>6 DEF Relations, RunIdsAreApify
  <2>8. \A q \in Op : disk.ops[q].state = "in_flight" => ProviderOf[q] # ProviderOf[o]
    BY <1>2, <2>2, <2>3, Providers
  <2>9. ASSUME NEW r \in Requests, o = Discovery(r) PROVE rows[r] = 0
    BY <2>6, <2>9 DEF Relations, RowsFollowState, TypeOK
  <2> QED BY <2>2, <2>3, <2>4, <2>6, <2>7, <2>8, <2>9, Identities, Kinds DEF ResearchOps, ExtractionOps
<1>4. CASE /\ Phase = "companies"
           /\ o = IF snap[NextCompany].research = "completed"
                  THEN Extraction(NextCompany) ELSE Research(NextCompany)
  <2>1. PICK c \in CompanySet : c = NextCompany /\ ~snap[c].extracted
    <3>1. UnfinishedCompanies # {}
      BY <1>4 DEF Phase
    <3> QED BY <3>1, NextIsFirst DEF CompanySet
  <2>2. o \notin DiscoveryOps /\ o \notin ApifyOps
    BY <1>4, <2>1, Kinds
  <2>3. disk.ops[o].state # "in_flight" /\ ~disk.ops[o].run
    BY <1>2, <2>2 DEF Relations, RunIdsAreApify
  <2>4. \A q \in Op : disk.ops[q].state = "in_flight" => ProviderOf[q] # ProviderOf[o]
    BY <1>2, <2>2, Providers
  <2>5. ASSUME NEW d \in CompanySet, o = Extraction(d)
        PROVE  ~snap[d].extracted /\ disk.ops[o].state # "completed"
    <3>1. d = c
      BY <1>4, <2>1, <2>5, Identities
    <3> QED BY <2>1, <2>5, <3>1 DEF Relations, FactsFollowState
  <2>6. ASSUME NEW d \in CompanySet, o = Research(d)
        PROVE  /\ snap[d].research # "completed" /\ disk.ops[o].state # "completed"
               /\ answered[d] = 0..(disk.ops[o].calls - 1) /\ disk.ops[o].calls < Queries
    <3>1. d = c /\ snap[d].research # "completed"
      BY <1>4, <2>1, <2>6, Identities
    <3> QED BY <2>3, <2>6, <3>1 DEF Relations, CursorFollowsAnswers
  <2>7. disk.ops[o].state # "completed"
    BY <1>4, <2>1, <2>5, <2>6
  <2> QED BY <2>2, <2>3, <2>4, <2>5, <2>6, <2>7, Kinds
<1> QED BY <1>3, <1>4 DEF IsNext

\* A new intent finds nothing of its output stored.
LEMMA BeginKeeps ==
    ASSUME TypeOK, Relations, Begin
    PROVE  Relations'
<1>1. PICK o \in Op, n \in 0..Queries :
        /\ IsNext(o) /\ cur' = o
        /\ o \in ResearchOps => n = mem.ops[o].calls
        /\ disk' = mem' /\ mem'.status = "running"
        /\ OneEntry(mem.ops, mem'.ops, o, "in_flight", FALSE, n)
        /\ mem'.discovery = mem.discovery /\ mem'.dedup = mem.dedup
  BY BeginWrites
<1>2. /\ pc = "loop" /\ pc' = "begun" /\ todo = {} /\ mem = disk /\ tracker = usage
      /\ UNCHANGED <<answer, todo, config, tracker, usage, rows, snap, answered>>
  BY DEF Begin, Relations, MemoryFollowsDisk, files, history
<1>3. /\ \A q \in Op : q # o => disk'.ops[q] = disk.ops[q] /\ mem'.ops[q] = mem.ops[q]
      /\ disk'.ops[o].state = "in_flight" /\ ~disk'.ops[o].run /\ disk'.ops[o].calls = n
      /\ mem'.ops[o].state = "in_flight" /\ ~mem'.ops[o].run
  BY <1>1, <1>2 DEF OneEntry
<1>4. MemoryFollowsDisk' /\ CompletionIsFinal'
  BY <1>1, <1>2 DEF MemoryFollowsDisk, CompletionIsFinal
<1>5. RunIdsAreApify'
  BY <1>3 DEF Relations, RunIdsAreApify
<1>6. CurrentIsOpen'
  BY <1>1, <1>2, <1>3 DEF CurrentIsOpen, Busy
<1>7. OthersAreResolved'
  BY <1>1, <1>2, <1>3 DEF Relations, OthersAreResolved, Busy
<1>8. RowsFollowState'
  BY <1>1, <1>2, <1>3, NextIsFresh, Kinds DEF Relations, RowsFollowState
<1>9. FactsFollowState'
  BY <1>1, <1>2, <1>3, NextIsFresh, Kinds DEF Relations, FactsFollowState
<1>10. CursorFollowsAnswers'
  BY <1>1, <1>2, <1>3, NextIsFresh, Kinds, SMTT(20) DEF Relations, CursorFollowsAnswers
<1> QED BY <1>4, <1>5, <1>6, <1>7, <1>8, <1>9, <1>10 DEF Relations

-----------------------------------------------------------------------------
(***************************************************************************)
(* The call and its usage event.                                           *)
(***************************************************************************)
\* A call leaves the checkpoint and the outputs alone.
LEMMA CallKeeps ==
    ASSUME TypeOK, Relations, NEW outcome, NEW cost, Call(outcome, cost)
    PROVE  Relations'
<1>1. /\ pc = "begun" /\ pc' = "called" /\ cur \notin ApifyOps /\ mem = disk
      /\ UNCHANGED <<mem, disk, cur, todo, config, tracker, usage, rows, snap, answered>>
  BY DEF Call, Bill, Relations, MemoryFollowsDisk, files, history
<1>2. MemoryFollowsDisk' /\ RunIdsAreApify' /\ CurrentIsOpen' /\ CompletionIsFinal'
  BY <1>1
  DEF Relations, MemoryFollowsDisk, RunIdsAreApify, CurrentIsOpen, CompletionIsFinal, Busy
<1>3. OthersAreResolved'
  BY <1>1 DEF Relations, OthersAreResolved, Busy
<1>4. RowsFollowState' /\ FactsFollowState' /\ CursorFollowsAnswers'
  BY <1>1 DEF Relations, RowsFollowState, FactsFollowState, CursorFollowsAnswers
<1> QED BY <1>2, <1>3, <1>4 DEF Relations

\* So does the start of an Apify run.
LEMMA StartRunKeeps ==
    ASSUME TypeOK, Relations, NEW outcome, NEW cost, StartRun(outcome, cost)
    PROVE  Relations'
<1>1. /\ pc = "begun" /\ pc' \in {"started", "called"} /\ cur \in ApifyOps /\ mem = disk
      /\ UNCHANGED <<mem, disk, cur, todo, config, tracker, usage, rows, snap, answered>>
  BY DEF StartRun, Bill, Relations, MemoryFollowsDisk, files, history
<1>2. MemoryFollowsDisk' /\ RunIdsAreApify' /\ CurrentIsOpen' /\ CompletionIsFinal'
  BY <1>1
  DEF Relations, MemoryFollowsDisk, RunIdsAreApify, CurrentIsOpen, CompletionIsFinal, Busy
<1>3. OthersAreResolved'
  BY <1>1 DEF Relations, OthersAreResolved, Busy
<1>4. cur \in DiscoveryOps
  BY <1>1, Kinds
<1>5. RowsFollowState' /\ FactsFollowState' /\ CursorFollowsAnswers'
  BY <1>1, <1>4, Kinds DEF Relations, RowsFollowState, FactsFollowState, CursorFollowsAnswers
<1> QED BY <1>2, <1>3, <1>5 DEF Relations

\* The recorder adds the run id behind the back of the process.
LEMMA RecordRunKeeps ==
    ASSUME TypeOK, Relations, RecordRun
    PROVE  Relations'
<1>1. /\ pc = "started" /\ pc' = "polling" /\ cur \in ApifyOps /\ cur \in Op /\ mem = disk
      /\ ~mem.ops[cur].run /\ mem.ops[cur].state = "in_flight" /\ cur \notin todo
      /\ UNCHANGED <<mem, cur, todo, config, tracker, usage, rows, snap, answered>>
  BY DEF RecordRun, Relations, MemoryFollowsDisk, CurrentIsOpen, Busy, TypeOK, files, history
<1>2. /\ SameStages(disk, disk')
      /\ \A q \in Op : q # cur => disk'.ops[q] = disk.ops[q]
      /\ disk'.ops[cur].state = "in_flight" /\ disk'.ops[cur].run
      /\ disk'.ops[cur].calls = disk.ops[cur].calls
  BY <1>1, RecordRunWrites DEF OneEntry
<1>3. MemoryFollowsDisk' /\ CompletionIsFinal'
  BY <1>1, <1>2 DEF Relations, MemoryFollowsDisk, CompletionIsFinal, SameStages
<1>4. RunIdsAreApify'
  BY <1>1, <1>2 DEF Relations, RunIdsAreApify
<1>5. CurrentIsOpen'
  BY <1>1, <1>2 DEF Relations, CurrentIsOpen, Busy
<1>6. \A o \in Op : /\ disk'.ops[o].state = disk.ops[o].state
                    /\ disk'.ops[o].calls = disk.ops[o].calls
                    /\ o # cur => disk'.ops[o].run = disk.ops[o].run
  BY <1>1, <1>2
<1>7. OthersAreResolved'
  <2>1. \A o \in todo : o \in Op /\ o \in ApifyOps /\ disk.ops[o].state \in {"in_flight", "pending"}
    BY <1>1, Kinds DEF Relations, OthersAreResolved
  <2>2. \A o \in Op : disk.ops[o].state = "in_flight" =>
          \/ o = cur
          \/ /\ o \in ApifyOps /\ disk.ops[o].run
             /\ config.apify /\ ~disk.discovery => o \in todo
    BY <1>1 DEF Relations, OthersAreResolved
  <2> QED BY <1>1, <1>2, <1>6, <2>1, <2>2 DEF OthersAreResolved, Busy, SameStages
<1>8. RowsFollowState'
  BY <1>1, <1>6, Kinds DEF Relations, RowsFollowState
<1>9. FactsFollowState' /\ CursorFollowsAnswers'
  BY <1>1, <1>6, Kinds DEF Relations, FactsFollowState, CursorFollowsAnswers
<1> QED BY <1>3, <1>4, <1>5, <1>7, <1>8, <1>9 DEF Relations

\* The end of an Apify run.
LEMMA PollKeeps ==
    ASSUME TypeOK, Relations, NEW outcome, Poll(outcome)
    PROVE  Relations'
<1>1. /\ pc = "polling" /\ pc' = "called" /\ cur \in ApifyOps
      /\ UNCHANGED <<mem, disk, cur, todo, config, tracker, usage, rows, snap, answered>>
  BY DEF Poll, Relations, CurrentIsOpen, files, history
<1>2. MemoryFollowsDisk' /\ RunIdsAreApify' /\ CurrentIsOpen' /\ CompletionIsFinal'
  BY <1>1
  DEF Relations, MemoryFollowsDisk, RunIdsAreApify, CurrentIsOpen, CompletionIsFinal, Busy
<1>3. OthersAreResolved'
  BY <1>1 DEF Relations, OthersAreResolved, Busy
<1>4. RowsFollowState' /\ FactsFollowState' /\ CursorFollowsAnswers'
  BY <1>1, Kinds DEF Relations, RowsFollowState, FactsFollowState, CursorFollowsAnswers
<1> QED BY <1>2, <1>3, <1>4 DEF Relations

\* The usage event goes to the ledger and to the tracker alike.
LEMMA RecordUsageKeeps ==
    ASSUME TypeOK, Relations, NEW priced, RecordUsage(priced)
    PROVE  Relations'
<1>1. /\ pc = "called" /\ pc' = "recorded" /\ tracker' = usage'
      /\ UNCHANGED <<mem, disk, cur, todo, config, rows, snap, answered>>
  BY DEF RecordUsage, Relations, MemoryFollowsDisk, history
<1>2. MemoryFollowsDisk' /\ RunIdsAreApify' /\ CurrentIsOpen' /\ CompletionIsFinal'
  BY <1>1
  DEF Relations, MemoryFollowsDisk, RunIdsAreApify, CurrentIsOpen, CompletionIsFinal, Busy
<1>3. OthersAreResolved'
  BY <1>1 DEF Relations, OthersAreResolved, Busy
<1>4. RowsFollowState' /\ FactsFollowState' /\ CursorFollowsAnswers'
  BY <1>1 DEF Relations, RowsFollowState, FactsFollowState, CursorFollowsAnswers
<1> QED BY <1>2, <1>3, <1>4 DEF Relations

-----------------------------------------------------------------------------
(***************************************************************************)
(* Storing the output of a call.                                           *)
(***************************************************************************)
\* Rows are appended before the operation is settled.
LEMMA StoreRowsKeeps ==
    ASSUME TypeOK, Relations, NEW r \in Requests, StoreRows(r)
    PROVE  Relations'
<1>1. /\ pc = "recorded" /\ pc' = "stored" /\ cur = Discovery(r) /\ Busy
      /\ rows' = [rows EXCEPT ![r] = @ + 1]
      /\ UNCHANGED <<mem, disk, cur, todo, config, tracker, usage, snap, answered>>
  BY DEF StoreRows, Busy, history
<1>2. MemoryFollowsDisk' /\ RunIdsAreApify' /\ CurrentIsOpen' /\ CompletionIsFinal'
  BY <1>1
  DEF Relations, MemoryFollowsDisk, RunIdsAreApify, CurrentIsOpen, CompletionIsFinal, Busy
<1>3. OthersAreResolved'
  BY <1>1 DEF Relations, OthersAreResolved, Busy
<1>4. disk.ops[cur].state # "none" /\ (cur \notin ApifyOps => disk.ops[cur].state # "pending")
  BY <1>1, Typed, MemoryAgrees DEF Relations, CurrentIsOpen
<1>5. /\ \A q \in Requests : q # r => rows'[q] = rows[q] /\ Discovery(q) # cur
      /\ rows'[r] = rows[r] + 1 /\ rows[r] \in Nat
  BY <1>1, Identities DEF TypeOK
<1>6. RowsFollowState'
  BY <1>1, <1>4, <1>5 DEF Relations, RowsFollowState
<1>7. FactsFollowState' /\ CursorFollowsAnswers'
  BY <1>1, Identities DEF Relations, FactsFollowState, CursorFollowsAnswers
<1> QED BY <1>2, <1>3, <1>6, <1>7 DEF Relations

\* The entry of an operation that Apify does not serve is in flight while it is worked on.
LEMMA CurrentInFlight ==
    ASSUME TypeOK, Relations, Busy, cur \notin ApifyOps
    PROVE  disk.ops[cur].state = "in_flight" /\ ~mem.ops[cur].run /\ mem.ops[cur] = disk.ops[cur]
  BY Typed, MemoryAgrees DEF Relations, CurrentIsOpen

\* Facts are stored before the extraction is settled.
LEMMA StoreFactsKeeps ==
    ASSUME TypeOK, Relations, NEW c \in CompanySet, StoreFacts(c)
    PROVE  Relations'
<1>1. /\ pc = "recorded" /\ pc' = "stored" /\ cur = Extraction(c) /\ Busy
      /\ UNCHANGED <<mem, disk, cur, todo, config, tracker, usage, rows, answered>>
  BY DEF StoreFacts, Busy, history
<1>2. MemoryFollowsDisk' /\ RunIdsAreApify' /\ CurrentIsOpen' /\ CompletionIsFinal'
  BY <1>1
  DEF Relations, MemoryFollowsDisk, RunIdsAreApify, CurrentIsOpen, CompletionIsFinal, Busy
<1>3. OthersAreResolved'
  BY <1>1 DEF Relations, OthersAreResolved, Busy
<1>4. disk.ops[cur].state = "in_flight"
  BY <1>1, Kinds, CurrentInFlight
<1>5. /\ \A d \in CompanySet : /\ d # c => snap'[d] = snap[d] /\ Extraction(d) # cur
                               /\ snap'[d].research = snap[d].research
      /\ snap'[c].extracted
  BY <1>1, Identities DEF StoreFacts, TypeOK, Snapshot
<1>6. FactsFollowState'
  BY <1>1, <1>4, <1>5 DEF Relations, FactsFollowState
<1>7. RowsFollowState' /\ CursorFollowsAnswers'
  BY <1>1, <1>5, Identities DEF Relations, RowsFollowState, CursorFollowsAnswers
<1> QED BY <1>2, <1>3, <1>6, <1>7 DEF Relations

\* The answer of a query is stored before the cursor moves past it.
LEMMA StoreEvidenceKeeps ==
    ASSUME TypeOK, Relations, NEW c \in CompanySet, NEW found, StoreEvidence(c, found)
    PROVE  Relations'
<1>1. /\ pc = "recorded" /\ pc' = "answered" /\ cur = Research(c) /\ Busy
      /\ UNCHANGED <<mem, disk, cur, todo, config, tracker, usage, rows>>
  BY DEF StoreEvidence, Busy
<1>2. cur \in ResearchOps /\ cur \notin ApifyOps /\ cur \in Op
  BY <1>1, Kinds
<1>3. disk.ops[cur].state = "in_flight" /\ mem.ops[cur] = disk.ops[cur]
  BY <1>1, <1>2, CurrentInFlight
<1>4. mem = disk
  <2>1. \A o \in Op : mem.ops[o] = disk.ops[o]
    BY <1>2, MemoryAgrees
  <2>2. mem.ops \in [Op -> Entry] /\ disk.ops \in [Op -> Entry]
    BY <1>2, Typed, EntryType
  <2>3. mem.ops = disk.ops
    BY <2>1, <2>2
  <2> QED BY <2>3, Typed DEF Relations, MemoryFollowsDisk, Checkpoint
<1>5. MemoryFollowsDisk' /\ RunIdsAreApify' /\ CurrentIsOpen' /\ CompletionIsFinal'
  BY <1>1, <1>2, <1>4
  DEF Relations, MemoryFollowsDisk, RunIdsAreApify, CurrentIsOpen, CompletionIsFinal, Busy
<1>6. OthersAreResolved'
  BY <1>1 DEF Relations, OthersAreResolved, Busy
<1> DEFINE n == disk.ops[cur].calls
<1>7. n \in 0..Queries
  BY <1>2, Typed, EntryType
<1>8. /\ answered[c] = 0..(n - 1) /\ n < Queries /\ snap[c].research # "completed"
  BY <1>1 DEF Relations, CursorFollowsAnswers
<1>9. answered'[c] = 0..n
  <2>1. answered'[c] = answered[c] \cup {n}
    BY <1>3 DEF StoreEvidence, TypeOK
  <2>2. (0..(n - 1)) \cup {n} = 0..n
    BY <1>7
  <2> QED BY <1>8, <2>1, <2>2
<1>10. /\ \A d \in CompanySet :
            /\ d # c => snap'[d] = snap[d] /\ answered'[d] = answered[d] /\ Research(d) # cur
            /\ snap'[d].extracted <=> snap[d].extracted
       /\ snap'[c].research # "completed"
  <2>1. ASSUME NEW d \in CompanySet, d # c
        PROVE  snap'[d] = snap[d] /\ answered'[d] = answered[d] /\ Research(d) # cur
    BY <1>1, <2>1, Identities DEF StoreEvidence, TypeOK
  <2>2. snap'[c] = [[snap[c] EXCEPT !.research = "in_progress"] EXCEPT !.evidence = @ \/ found]
    BY DEF StoreEvidence, TypeOK
  <2>3. snap[c] \in Snapshot
    BY DEF TypeOK
  <2>4. (snap'[c].extracted <=> snap[c].extracted) /\ snap'[c].research = "in_progress"
    BY <2>2, <2>3 DEF Snapshot
  <2> QED BY <2>1, <2>4
<1>11. CursorFollowsAnswers'
  <2> HIDE DEF n
  <2> SUFFICES ASSUME NEW d \in CompanySet PROVE CursorFollowsAnswers!(d)'
    BY DEF CursorFollowsAnswers
  <2>1. CASE d = c
    BY <1>1, <1>3, <1>8, <1>9, <1>10, <2>1 DEF n
  <2>2. CASE d # c
    BY <1>1, <1>10, <2>2 DEF Relations, CursorFollowsAnswers
  <2> QED BY <2>1, <2>2
<1>12. RowsFollowState' /\ FactsFollowState'
  BY <1>1, <1>10, Identities DEF Relations, RowsFollowState, FactsFollowState
<1> QED BY <1>5, <1>6, <1>11, <1>12 DEF Relations

\* Research is stored as completed after its last query.
LEMMA StoreResearchKeeps ==
    ASSUME TypeOK, Relations, NEW c \in CompanySet, StoreResearch(c)
    PROVE  Relations'
<1>1. /\ pc = "saved" /\ pc' = "stored" /\ cur = Research(c) /\ Busy /\ mem = disk
      /\ mem.ops[cur].calls = Queries
      /\ UNCHANGED <<mem, disk, cur, todo, config, tracker, usage, rows, answered>>
  BY DEF StoreResearch, Busy, Relations, MemoryFollowsDisk, history
<1>2. MemoryFollowsDisk' /\ RunIdsAreApify' /\ CurrentIsOpen' /\ CompletionIsFinal'
  BY <1>1
  DEF Relations, MemoryFollowsDisk, RunIdsAreApify, CurrentIsOpen, CompletionIsFinal, Busy
<1>3. OthersAreResolved'
  BY <1>1 DEF Relations, OthersAreResolved, Busy
<1>4. cur \notin ApifyOps /\ disk.ops[cur].state = "in_flight"
  BY <1>1, Kinds, CurrentInFlight
<1>5. answered[c] = 0..(Queries - 1)
  BY <1>1 DEF Relations, CursorFollowsAnswers
<1>6. /\ \A d \in CompanySet : /\ d # c => snap'[d] = snap[d] /\ Research(d) # cur
                               /\ snap'[d].extracted <=> snap[d].extracted
      /\ snap'[c].research = "completed"
  <2>1. snap[c] \in Snapshot /\ snap \in [CompanySet -> Snapshot]
    BY DEF TypeOK
  <2>2. snap'[c].research = "completed" /\ (snap'[c].extracted <=> snap[c].extracted)
    BY <2>1 DEF StoreResearch, Snapshot
  <2>3. \A d \in CompanySet : d # c => snap'[d] = snap[d] /\ Research(d) # cur
    BY <1>1, <2>1, Identities DEF StoreResearch
  <2> QED BY <2>2, <2>3
<1>7. CursorFollowsAnswers'
  BY <1>1, <1>4, <1>5, <1>6 DEF Relations, CursorFollowsAnswers
<1>8. RowsFollowState' /\ FactsFollowState'
  BY <1>1, <1>6, Identities DEF Relations, RowsFollowState, FactsFollowState
<1> QED BY <1>2, <1>3, <1>7, <1>8 DEF Relations

\* The cursor moves past the query whose answer is stored.
LEMMA SaveProgressKeeps ==
    ASSUME TypeOK, Relations, SaveProgress
    PROVE  Relations'
<1>1. /\ pc = "answered" /\ pc' = "saved" /\ Busy /\ mem = disk
      /\ UNCHANGED <<cur, todo, config, tracker, usage, rows, snap, answered>>
  BY DEF SaveProgress, Busy, Relations, MemoryFollowsDisk, files, history
<1>2. PICK c \in CompanySet : cur = Research(c)
  BY <1>1 DEF Relations, CurrentIsOpen, ResearchOps
<1>3. cur \in Op /\ cur \in ResearchOps /\ cur \notin ApifyOps /\ cur \notin DiscoveryOps
  BY <1>2, Kinds
<1>4. disk.ops[cur].state = "in_flight" /\ ~disk.ops[cur].run /\ disk.ops[cur].calls \in 0..Queries
  BY <1>1, <1>3, CurrentInFlight, Typed, EntryType
<1>5. /\ disk.ops[cur].calls < Queries /\ snap[c].research # "completed"
      /\ answered[c] = 0..disk.ops[cur].calls
  BY <1>1, <1>2 DEF Relations, CursorFollowsAnswers
<1>6. /\ disk' = mem' /\ SameStages(disk, disk')
      /\ \A q \in Op : q # cur => disk'.ops[q] = disk.ops[q]
      /\ disk'.ops[cur].state = "in_flight" /\ ~disk'.ops[cur].run
      /\ disk'.ops[cur].calls = disk.ops[cur].calls + 1
  BY <1>1, <1>3, <1>4, <1>5, ProgressWrites DEF OneEntry
<1>7. \A o \in Op : disk'.ops[o].state = disk.ops[o].state /\ (disk'.ops[o].run <=> disk.ops[o].run)
  BY <1>4, <1>6
<1>8. MemoryFollowsDisk' /\ CompletionIsFinal'
  BY <1>1, <1>6 DEF Relations, MemoryFollowsDisk, CompletionIsFinal, SameStages
<1>9. RunIdsAreApify'
  BY <1>7 DEF Relations, RunIdsAreApify
<1>10. CurrentIsOpen'
  BY <1>1, <1>3, <1>6 DEF Relations, CurrentIsOpen, Busy
<1>11. OthersAreResolved'
  <2>1. \A o \in todo : o \in Op /\ o \in ApifyOps /\ disk.ops[o].state \in {"in_flight", "pending"}
    BY <1>1, Kinds DEF Relations, OthersAreResolved
  <2> QED BY <1>1, <1>6, <1>7, <2>1 DEF Relations, OthersAreResolved, Busy, SameStages
<1>12. RowsFollowState'
  BY <1>1, <1>2, <1>7, Kinds, Identities DEF Relations, RowsFollowState
<1>13. FactsFollowState'
  BY <1>1, <1>2, <1>7, Kinds, Identities DEF Relations, FactsFollowState
<1>14. CursorFollowsAnswers'
  <2>1. \A d \in CompanySet : d # c => Research(d) \in Op /\ Research(d) # cur
    BY <1>2, Kinds, Identities
  <2>2. answered[c] = 0..(disk'.ops[cur].calls - 1)
    <3>1. disk'.ops[cur].calls - 1 = disk.ops[cur].calls
      BY <1>4, <1>6
    <3> QED BY <1>5, <3>1
  <2> QED BY <1>1, <1>2, <1>5, <1>6, <2>1, <2>2 DEF Relations, CursorFollowsAnswers
<1> QED BY <1>8, <1>9, <1>10, <1>11, <1>12, <1>13, <1>14 DEF Relations

\* The next query starts where the cursor points.
LEMMA NextQueryKeeps ==
    ASSUME TypeOK, Relations, NextQuery
    PROVE  Relations'
<1>1. /\ pc = "saved" /\ pc' = "begun" /\ mem = disk /\ mem.ops[cur].calls < Queries
      /\ cur \in ResearchOps
      /\ UNCHANGED <<mem, disk, cur, todo, config, tracker, usage, rows, snap, answered>>
  BY DEF NextQuery, Relations, MemoryFollowsDisk, CurrentIsOpen, files, history
<1>2. cur \notin ApifyOps /\ cur \notin DiscoveryOps /\ cur \notin ExtractionOps /\ ~mem.ops[cur].run
  BY <1>1, Kinds, CurrentInFlight DEF Busy
<1>3. MemoryFollowsDisk' /\ RunIdsAreApify' /\ CurrentIsOpen' /\ CompletionIsFinal'
  BY <1>1, <1>2
  DEF Relations, MemoryFollowsDisk, RunIdsAreApify, CurrentIsOpen, CompletionIsFinal, Busy
<1>4. OthersAreResolved'
  BY <1>1 DEF Relations, OthersAreResolved, Busy
<1>5. RowsFollowState' /\ FactsFollowState'
  BY <1>1, <1>2, Kinds DEF Relations, RowsFollowState, FactsFollowState
<1>6. CursorFollowsAnswers'
  BY <1>1 DEF Relations, CursorFollowsAnswers
<1> QED BY <1>3, <1>4, <1>5, <1>6 DEF Relations

-----------------------------------------------------------------------------
(***************************************************************************)
(* Settling the current operation.                                         *)
(***************************************************************************)
\* The outcome of an operation is written when its output is stored, or when
\* it has none.
LEMMA SettleKeeps ==
    ASSUME TypeOK, Relations, Busy, NEW s \in {"completed", "failed", "pending"}, NEW run \in BOOLEAN,
           disk' = mem', SameStages(mem, mem'),
           OneEntry(mem.ops, mem'.ops, cur, s, run, mem.ops[cur].calls),
           run => cur \in ApifyOps,
           s = "pending" /\ cur \in ApifyOps => run,
           pc' \in {"loop", "failing"},
           pc' = "failing" => answer' \in {"exhausted", "fatal", "retryable"},
           s = "completed" => pc = "stored",
           s # "completed" => pc = "recorded" \/ (pc = "saved" /\ mem.ops[cur].calls < Queries),
           UNCHANGED <<cur, todo, config, tracker, usage, rows, snap, answered>>
    PROVE  Relations'
<1>1. cur \in Op /\ \A q \in Op : mem.ops[q].state = disk.ops[q].state
                                  /\ mem.ops[q].calls = disk.ops[q].calls
  BY Typed, MemoryAgrees
<1>2. /\ \A q \in Op : q # cur => disk'.ops[q] = disk.ops[q]
      /\ disk'.ops[cur].state = s /\ (disk'.ops[cur].run <=> run)
      /\ disk'.ops[cur].calls = disk.ops[cur].calls
  BY <1>1, MemoryAgrees DEF OneEntry
<1>3. MemoryFollowsDisk' /\ CompletionIsFinal' /\ CurrentIsOpen'
  BY DEF Relations, MemoryFollowsDisk, CompletionIsFinal, CurrentIsOpen, SameStages, Busy
<1>4. RunIdsAreApify'
  BY <1>1, <1>2 DEF Relations, RunIdsAreApify
<1>5. OthersAreResolved'
  <2>1. \A o \in todo : o # cur /\ o \in Op /\ o \in ApifyOps /\ disk.ops[o].state \in {"in_flight", "pending"}
    BY Kinds DEF Relations, OthersAreResolved, CurrentIsOpen, Busy
  <2>2. disk'.discovery = disk.discovery
    BY DEF Relations, MemoryFollowsDisk, SameStages
  <2>3. \A o \in Op : disk'.ops[o].state = "in_flight" => o # cur /\ disk.ops[o].state = "in_flight"
    BY <1>2
  <2> QED BY <1>2, <2>1, <2>2, <2>3 DEF Relations, OthersAreResolved, Busy
<1>6. RowsFollowState'
  <2> SUFFICES ASSUME NEW r \in Requests PROVE RowsFollowState!(r)'
    BY DEF RowsFollowState
  <2>1. CASE cur = Discovery(r)
    <3>1. cur \notin ResearchOps
      BY <2>1, Kinds
    <3>2. s # "completed" => pc = "recorded"
      BY <3>1 DEF Relations, CurrentIsOpen
    <3>3. rows[r] \in Nat
      BY DEF TypeOK
    <3> QED BY <1>2, <2>1, <3>2, <3>3 DEF Relations, RowsFollowState
  <2>2. CASE cur # Discovery(r)
    BY <1>2, <2>2, Kinds DEF Relations, RowsFollowState
  <2> QED BY <2>1, <2>2
<1>7. FactsFollowState'
  <2> SUFFICES ASSUME NEW c \in CompanySet PROVE FactsFollowState!(c)'
    BY DEF FactsFollowState
  <2>1. CASE cur = Extraction(c)
    <3>1. cur \notin ResearchOps
      BY <2>1, Kinds
    <3>2. s # "completed" => pc = "recorded"
      BY <3>1 DEF Relations, CurrentIsOpen
    <3> QED BY <1>2, <2>1, <3>2 DEF Relations, FactsFollowState
  <2>2. CASE cur # Extraction(c)
    BY <1>2, <2>2, Kinds DEF Relations, FactsFollowState
  <2> QED BY <2>1, <2>2
<1>8. CursorFollowsAnswers'
  <2> SUFFICES ASSUME NEW c \in CompanySet PROVE CursorFollowsAnswers!(c)'
    BY DEF CursorFollowsAnswers
  <2>1. CASE cur = Research(c)
    BY <1>1, <1>2, <2>1 DEF Relations, CursorFollowsAnswers
  <2>2. CASE cur # Research(c)
    BY <1>2, <2>2, Kinds DEF Relations, CursorFollowsAnswers
  <2> QED BY <2>1, <2>2
<1> QED BY <1>3, <1>4, <1>5, <1>6, <1>7, <1>8 DEF Relations

\* A stored output completes its operation.
LEMMA FinishCompletedKeeps ==
    ASSUME TypeOK, Relations, FinishCompleted
    PROVE  Relations'
<1> DEFINE run == mem.ops[cur].run \/ cur \in ApifyOps
<1>1. run \in BOOLEAN /\ (run => cur \in ApifyOps) /\ ((cur \in ApifyOps) => run)
  BY Typed, MemoryAgrees
<1>2. /\ disk' = mem' /\ SameStages(mem, mem')
      /\ OneEntry(mem.ops, mem'.ops, cur, "completed", run, mem.ops[cur].calls)
  BY CompletedWrites
<1>3. /\ pc = "stored" /\ pc' = "loop" /\ Busy
      /\ UNCHANGED <<cur, todo, config, tracker, usage, rows, snap, answered>>
  BY DEF FinishCompleted, Busy, files, history
<1> HIDE DEF run
<1> QED BY <1>1, <1>2, <1>3, SettleKeeps

\* Research that exhausts its budget between two queries waits with its cursor.
LEMMA StopQueriesKeeps ==
    ASSUME TypeOK, Relations, StopQueries
    PROVE  Relations'
<1>1. /\ pc = "saved" /\ pc' = "failing" /\ answer' = "exhausted" /\ Busy
      /\ mem.ops[cur].calls < Queries /\ Save(WithState(cur, "pending"))
      /\ UNCHANGED <<cur, todo, config, tracker, usage, rows, snap, answered>>
  BY DEF StopQueries, Busy, files, history
<1>2. cur \notin ApifyOps /\ ~mem.ops[cur].run /\ mem.ops[cur].run \in BOOLEAN
  BY <1>1, Kinds, Typed, CurrentInFlight, EntryType DEF Relations, CurrentIsOpen
<1>3. /\ disk' = mem' /\ SameStages(mem, mem')
      /\ OneEntry(mem.ops, mem'.ops, cur, "pending", mem.ops[cur].run, mem.ops[cur].calls)
  BY <1>1, StateWrites DEF OpStates
<1> QED BY <1>1, <1>2, <1>3, SettleKeeps

\* A failed Apify operation is settled, or parked with its run id.
LEMMA FinishApifyKeeps ==
    ASSUME TypeOK, Relations, FinishApify
    PROVE  Relations'
<1> DEFINE s == IF answer = "retryable" THEN "pending" ELSE "failed"
<1>1. /\ pc = "recorded" /\ pc' = "loop" /\ cur \in ApifyOps /\ Busy
      /\ Save(WithState(cur, s)) /\ (s = "pending" => mem.ops[cur].run)
      /\ UNCHANGED <<cur, todo, config, tracker, usage, rows, snap, answered>>
  BY DEF FinishApify, Failed, Resumed, Busy, files, history
<1>2. mem.ops[cur].run \in BOOLEAN /\ s \in OpStates /\ s \in {"failed", "pending"}
  BY Typed, EntryType DEF OpStates
<1>3. /\ disk' = mem' /\ SameStages(mem, mem')
      /\ OneEntry(mem.ops, mem'.ops, cur, s, mem.ops[cur].run, mem.ops[cur].calls)
  <2> HIDE DEF s
  <2> QED BY <1>1, <1>2, StateWrites
<1> HIDE DEF s
<1> QED BY <1>1, <1>2, <1>3, SettleKeeps

\* A failed required operation is settled before the run stops.
LEMMA FinishRequiredKeeps ==
    ASSUME TypeOK, Relations, FinishRequired
    PROVE  Relations'
<1> DEFINE s == IF answer = "fatal" THEN "failed" ELSE "pending"
<1>1. /\ pc = "recorded" /\ pc' = "failing" /\ cur \notin ApifyOps /\ Busy
      /\ Save(WithState(cur, s)) /\ answer' \in {"exhausted", "fatal", "retryable"}
      /\ UNCHANGED <<cur, todo, config, tracker, usage, rows, snap, answered>>
  BY DEF FinishRequired, Failed, Failures, Busy, files, history
<1>2. mem.ops[cur].run \in BOOLEAN /\ ~mem.ops[cur].run /\ s \in OpStates /\ s \in {"failed", "pending"}
  BY <1>1, Typed, EntryType, CurrentInFlight DEF OpStates
<1>3. /\ disk' = mem' /\ SameStages(mem, mem')
      /\ OneEntry(mem.ops, mem'.ops, cur, s, mem.ops[cur].run, mem.ops[cur].calls)
  <2> HIDE DEF s
  <2> QED BY <1>1, <1>2, StateWrites
<1> HIDE DEF s
<1> QED BY <1>1, <1>2, <1>3, SettleKeeps

-----------------------------------------------------------------------------
(***************************************************************************)
(* The whole step.                                                         *)
(***************************************************************************)
\* Every step keeps the relations of checkpoint, process and outputs.
LEMMA RelationsStep ==
    ASSUME TypeOK, Relations, [Next]_vars
    PROVE  Relations'
<1>1. CASE Complete \/ PauseForBudget \/ LeaveUnknown
  <2>1. UNCHANGED <<rows, snap, answered>> /\ \E s \in Statuses : Pause(s)
    BY <1>1 DEF Complete, PauseForBudget, LeaveUnknown, Statuses, files, history
  <2> QED BY <2>1, PauseKeeps
<1>2. CASE StopRun
  <2>1. UNCHANGED <<rows, snap, answered>> /\ \E s \in Statuses : Pause(s)
    BY <1>2 DEF StopRun, Relations, CurrentIsOpen, Statuses, files, history
  <2> QED BY <2>1, PauseKeeps
<1>3. CASE Crash \/ \E f \in {"usage", "rows"} : TornAppend(f)
  <2>1. Die
    BY <1>3 DEF Crash, TornAppend
  <2> QED BY <2>1, DieKeeps
<1>4. CASE UNCHANGED vars
  <2> USE <1>4 DEF vars, files, history
  <2>1. MemoryFollowsDisk' /\ RunIdsAreApify' /\ CurrentIsOpen' /\ CompletionIsFinal'
    BY DEF Relations, MemoryFollowsDisk, RunIdsAreApify, CurrentIsOpen, CompletionIsFinal, Busy
  <2>2. OthersAreResolved' /\ RowsFollowState' /\ FactsFollowState' /\ CursorFollowsAnswers'
    BY DEF Relations, OthersAreResolved, RowsFollowState, FactsFollowState, CursorFollowsAnswers, Busy
  <2> QED BY <2>1, <2>2 DEF Relations
<1>5. CASE Launch
  BY <1>5, StartKeeps, FreezeKeeps DEF Launch
<1>6. CASE Environment
  BY <1>6, CallKeeps, StartRunKeeps, PollKeeps DEF Environment
<1>7. CASE Process /\ ~Complete /\ ~PauseForBudget /\ ~LeaveUnknown /\ ~StopRun
  BY <1>7, ResumeKeeps, EndDiscoveryKeeps, DeduplicateKeeps, BeginKeeps, RecordRunKeeps,
     SaveProgressKeeps, NextQueryKeeps, StopQueriesKeeps, FinishCompletedKeeps, FinishApifyKeeps,
     FinishRequiredKeeps, RecordUsageKeeps, StoreRowsKeeps, StoreFactsKeeps, StoreResearchKeeps,
     StoreEvidenceKeeps
  DEF Process
<1> QED BY <1>1, <1>2, <1>3, <1>4, <1>5, <1>6, <1>7 DEF Next

\* Only the end of the batch reports completion.
LEMMA OthersDoNotComplete ==
    ASSUME TypeOK, Relations, Next, ~Complete
    PROVE  disk'.status # "completed"
<1> USE DEF Relations, CompletionIsFinal
<1>1. ASSUME NEW s \in Statuses \ {"completed"}, Pause(s) PROVE disk'.status # "completed"
  BY <1>1, PauseWrites
<1>2. CASE Launch
  <2>1. CASE Freeze
    BY <2>1, StatusWritten DEF Freeze, Statuses, TypeOK
  <2>2. ASSUME NEW cfg \in Configs, Start(cfg) PROVE disk'.status # "completed"
    BY <2>2 DEF Start, CanStart
  <2> QED BY <1>2, <2>1, <2>2 DEF Launch
<1>3. CASE Environment
  BY <1>3 DEF Environment, Call, StartRun, Poll
<1>4. CASE Crash \/ \E f \in {"usage", "rows"} : TornAppend(f)
  BY <1>4 DEF Crash, TornAppend, Die
<1>5. CASE ResumeApify
  BY <1>1, <1>5 DEF ResumeApify, Statuses
<1>6. CASE EndDiscovery
  <2>1. CASE Pause("paused_retryable")
    BY <1>1, <2>1 DEF Statuses
  <2>2. CASE Save([mem EXCEPT !.discovery = TRUE])
    BY <1>6, <2>2 DEF EndDiscovery, Save, TypeOK, Checkpoint, MemoryFollowsDisk
  <2> QED BY <1>6, <2>1, <2>2 DEF EndDiscovery
<1>7. CASE Deduplicate
  <2>1. CASE UNCHANGED disk
    BY <1>7, <2>1 DEF Deduplicate
  <2>2. CASE Save([mem EXCEPT !.dedup = TRUE])
    BY <1>7, <2>2 DEF Deduplicate, Save, TypeOK, Checkpoint, MemoryFollowsDisk
  <2> QED BY <1>7, <2>1, <2>2 DEF Deduplicate
<1>8. CASE PauseForBudget
  BY <1>1, <1>8 DEF PauseForBudget, Statuses
<1>9. CASE Begin
  BY <1>9, BeginWrites
<1>10. CASE RecordRun
  BY <1>10, RecordRunWrites DEF RecordRun, SameStages
<1>11. CASE SaveProgress
  <2>1. PICK c \in CompanySet : cur = Research(c)
    BY <1>11 DEF SaveProgress, CurrentIsOpen, ResearchOps
  <2>2. mem.ops[cur].calls < Queries
    BY <1>11, <2>1 DEF SaveProgress, CursorFollowsAnswers, MemoryFollowsDisk
  <2> QED BY <1>11, <2>2, ProgressWrites DEF SaveProgress, SameStages, MemoryFollowsDisk
<1>12. CASE FinishCompleted
  BY <1>12, CompletedWrites DEF FinishCompleted, SameStages, MemoryFollowsDisk
<1>13. ASSUME NEW s \in OpStates, Save(WithState(cur, s)), pc # "down" PROVE disk'.status # "completed"
  BY <1>13, StateWrites DEF SameStages, MemoryFollowsDisk
<1>14. CASE StopQueries
  BY <1>13, <1>14 DEF StopQueries, OpStates
<1>15. CASE FinishApify
  BY <1>13, <1>15 DEF FinishApify, Failed, OpStates
<1>16. CASE FinishRequired
  BY <1>13, <1>16 DEF FinishRequired, Failed, OpStates
<1>17. CASE LeaveUnknown
  BY <1>1, <1>17 DEF LeaveUnknown, Statuses
<1>18. CASE StopRun
  BY <1>1, <1>18 DEF StopRun, CurrentIsOpen, Statuses
<1>19. CASE UNCHANGED disk /\ pc # "down"
  BY <1>19
<1> QED
  BY <1>2, <1>3, <1>4, <1>5, <1>6, <1>7, <1>8, <1>9, <1>10, <1>11, <1>12, <1>14, <1>15,
     <1>16, <1>17, <1>18, <1>19
  DEF Next, Process, NextQuery, RecordUsage, StoreRows, StoreFacts, StoreResearch, StoreEvidence

\* What the batch reports when it ends is so.
LEMMA CompletionStep ==
    ASSUME TypeOK, Relations, CompletedIsComplete, [Next]_vars
    PROVE  CompletedIsComplete'
<1>1. CASE Next /\ ~Complete
  BY <1>1, OthersDoNotComplete DEF CompletedIsComplete
<1>2. CASE UNCHANGED vars
  BY <1>2 DEF vars, files, CompletedIsComplete
<1>3. CASE Complete
  <2>1. snap' = snap
    BY <1>3 DEF Complete, files
  <2>2. CASE UnfinishedCompanies = {}
    <3>1. \A i \in 1..Len(Companies) : snap[Companies[i]].extracted
      BY <2>2 DEF UnfinishedCompanies
    <3> QED BY <2>1, <3>1 DEF CompletedIsComplete
  <2>3. CASE UnfinishedCompanies # {}
    <3>1. NoEvidenceLeft
      BY <1>3, <2>3 DEF Complete, Phase
    <3>2. PICK i \in 1..Len(Companies) :
            /\ NextCompany = Companies[i] /\ ~snap[Companies[i]].extracted
            /\ \A j \in 1..(i - 1) : snap[Companies[j]].extracted
      BY <2>3, NextIsFirst
    <3>3. snap[Companies[i]].research = "completed" /\ ~snap[Companies[i]].evidence
      BY <3>1, <3>2 DEF NoEvidenceLeft
    <3>4. i - 1 \in 0..Len(Companies) /\ (i - 1) + 1 = i
      OBVIOUS
    <3> QED BY <2>1, <3>2, <3>3, <3>4 DEF CompletedIsComplete
  <2> QED BY <2>2, <2>3
<1> QED BY <1>1, <1>2, <1>3

\* The first state satisfies the invariant.
LEMMA InitInv == Init => BatchInv
<1> SUFFICES ASSUME Init PROVE BatchInv
  OBVIOUS
<1>1. /\ mem = disk /\ pc = "down" /\ usage = tracker /\ disk.status = "running" /\ todo = {}
      /\ \A o \in Op : disk.ops[o].state = "none" /\ ~disk.ops[o].run /\ disk.ops[o].calls = 0
      /\ \A r \in Requests : rows[r] = 0
      /\ \A c \in CompanySet : /\ snap[c].research = "none" /\ ~snap[c].extracted
                               /\ answered[c] = {}
  BY DEF Init, Absent
<1>2. TypeOK
  <2>1. cur \in Op
    BY Kinds DEF Init, Requests
  <2>2. Absent \in Entry
    BY DEF Absent, Entry, OpStates
  <2>3. disk \in Checkpoint /\ mem \in Checkpoint
    BY <2>2 DEF Init, Checkpoint, Statuses
  <2>4. NoSpend \in Totals
    BY DEF NoSpend, Totals
  <2> QED BY <2>1, <2>3, <2>4 DEF Init, TypeOK, Tails, Snapshot
<1>3. MemoryFollowsDisk /\ RunIdsAreApify /\ CurrentIsOpen /\ OthersAreResolved
  BY <1>1 DEF MemoryFollowsDisk, RunIdsAreApify, CurrentIsOpen, OthersAreResolved, Busy
<1>4. RowsFollowState /\ FactsFollowState /\ CompletionIsFinal /\ CompletedIsComplete
  BY <1>1, Kinds DEF RowsFollowState, FactsFollowState, CompletionIsFinal, CompletedIsComplete
<1>5. CursorFollowsAnswers
  <2>1. 0..(0 - 1) = {} /\ 0 < Queries
    OBVIOUS
  <2> QED BY <1>1, <2>1, Kinds DEF CursorFollowsAnswers
<1> QED BY <1>2, <1>3, <1>4, <1>5 DEF BatchInv

\* Every state of every run satisfies the invariant.
THEOREM Invariance == Spec => []BatchInv
<1>1. BatchInv /\ [Next]_vars => BatchInv'
  BY TypeStep, RelationsStep, CompletionStep DEF BatchInv, Relations
<1> QED BY InitInv, <1>1, PTL DEF Spec

\* The checkpoint, the files and the process stay in their types.
THEOREM TypeCorrectness == Spec => []TypeOK
<1>1. BatchInv => TypeOK
  BY DEF BatchInv
<1> QED BY <1>1, Invariance, PTL

\* No crash, at any step, loses what a completed operation bought: its rows,
\* evidence or facts are in the files before the checkpoint says it is done.
THEOREM OutputIsDurable == Spec => []CompletedHasOutput
<1>1. BatchInv => CompletedHasOutput
  <2> SUFFICES ASSUME BatchInv PROVE CompletedHasOutput
    OBVIOUS
  <2>1. \A r \in Requests : disk.ops[Discovery(r)].state = "completed" => rows[r] > 0
    BY DEF BatchInv, RowsFollowState
  <2>2. \A c \in CompanySet :
          /\ disk.ops[Extraction(c)].state = "completed" => snap[c].extracted
          /\ snap[c].extracted => disk.ops[Extraction(c)].state \in {"in_flight", "completed"}
    BY DEF BatchInv, FactsFollowState
  <2>3. \A c \in CompanySet : disk.ops[Research(c)].state = "completed" =>
          snap[c].research = "completed" /\ answered[c] = 0..(Queries - 1)
    BY DEF BatchInv, CursorFollowsAnswers
  <2> QED BY <2>1, <2>2, <2>3 DEF CompletedHasOutput
<1> QED BY <1>1, Invariance, PTL

\* A batch that reports completion has extracted every company, or every one
\* before the first company without evidence.
THEOREM CompletionIsEarned == Spec => []CompletedIsComplete
<1>1. BatchInv => CompletedIsComplete
  BY DEF BatchInv
<1> QED BY <1>1, Invariance, PTL

\* No search, query or extraction is bought whose answer is already in the
\* files, however the processes before this one ended.
THEOREM NothingBoughtTwice == Spec => StoredIsNeverBoughtAgain
<1> DEFINE Fresh ==
      /\ \A r \in Requests : cur = Discovery(r) => rows[r] = 0
      /\ \A c \in CompanySet :
           /\ cur = Research(c) => mem.ops[cur].calls \notin answered[c]
           /\ cur = Extraction(c) => ~snap[c].extracted
<1>1. ASSUME BatchInv, pc = "begun" PROVE Fresh
  <2>1. mem = disk
    BY <1>1 DEF BatchInv, MemoryFollowsDisk
  <2>2. \A r \in Requests : cur = Discovery(r) => rows[r] = 0
    BY <1>1 DEF BatchInv, RowsFollowState
  <2>3. \A c \in CompanySet : cur = Extraction(c) => ~snap[c].extracted
    BY <1>1 DEF BatchInv, FactsFollowState
  <2>4. ASSUME NEW c \in CompanySet, cur = Research(c)
        PROVE  mem.ops[cur].calls \notin answered[c]
    <3>1. answered[c] = 0..(disk.ops[cur].calls - 1)
      BY <1>1, <2>4 DEF BatchInv, CursorFollowsAnswers
    <3>2. disk.ops[cur].calls \in 0..Queries
      BY <1>1, Typed, EntryType DEF BatchInv
    <3> QED BY <2>1, <3>1, <3>2
  <2> QED BY <2>2, <2>3, <2>4
<1>2. BatchInv => (pc = "begun" /\ pc' \in {"called", "started"} => Fresh)
  BY <1>1
<1> QED BY <1>2, Invariance, PTL DEF StoredIsNeverBoughtAgain

-----------------------------------------------------------------------------
(***************************************************************************)
(* The batch follows the paid-operation protocol.  Lifecycle reads the     *)
(* protocol's operation maps off the checkpoint: Entries forgets cursors.  *)
(***************************************************************************)
\* Maps that agree on states and run ids look the same to the protocol.
LEMMA SameEntries ==
    ASSUME NEW f \in [Op -> Entry], NEW g \in [Op -> Entry],
           \A o \in Op : f[o].state = g[o].state /\ (f[o].run <=> g[o].run)
    PROVE  Entries(f) = Entries(g)
<1>1. ASSUME NEW o \in Op
      PROVE  [state |-> f[o].state, run |-> f[o].run] = [state |-> g[o].state, run |-> g[o].run]
  <2>1. f[o].run \in BOOLEAN /\ g[o].run \in BOOLEAN
    BY DEF Entry
  <2>2. f[o].run = g[o].run
    BY <2>1
  <2> QED BY <2>2
<1> QED BY <1>1, Zenon DEF Entries

\* What the protocol sees of an operation.
LEMMA EntrySeen ==
    ASSUME NEW f \in [Op -> Entry]
    PROVE  /\ Entries(f) \in [Op -> [state : OpStates, run : BOOLEAN]]
           /\ \A o \in Op : Entries(f)[o].state = f[o].state /\ (Entries(f)[o].run <=> f[o].run)
<1>1. \A o \in Op : f[o].state \in OpStates /\ f[o].run \in BOOLEAN
  BY DEF Entry
<1>2. \A o \in Op : Entries(f)[o].state = f[o].state /\ Entries(f)[o].run = f[o].run
  BY DEF Entries
<1>3. Entries(f) \in [Op -> [state : OpStates, run : BOOLEAN]]
  BY <1>1 DEF Entries
<1>4. \A o \in Op : Entries(f)[o].run <=> f[o].run
  BY <1>2, Zenon
<1> QED BY <1>2, <1>3, <1>4

\* The protocol finds the same operations in flight and unknown.
LEMMA UnknownSeen ==
    ASSUME NEW f \in [Op -> Entry]
    PROVE  /\ Lifecycle!InFlight(Entries(f)) = {o \in Op : f[o].state = "in_flight"}
           /\ Lifecycle!Unknown(Entries(f)) = Unknown(f)
<1>1. DOMAIN Entries(f) = Op /\ DOMAIN f = Op
  BY DEF Entries
<1>2. Lifecycle!InFlight(Entries(f)) = {o \in Op : f[o].state = "in_flight"}
  BY <1>1, EntrySeen DEF Lifecycle!InFlight
<1>3. Lifecycle!Resumable(Entries(f)) = Runs(f)
  BY EntrySeen, Providers, Kinds DEF Lifecycle!Resumable, Runs
<1> QED BY <1>1, <1>2, <1>3 DEF Lifecycle!Unknown, Lifecycle!UnknownInFlight, Unknown, UnknownInFlight, InFlight

\* An entry the protocol sees is its state and whether it has a run id.
LEMMA SameSeen ==
    ASSUME NEW e \in [state : OpStates, run : BOOLEAN], NEW f \in [state : OpStates, run : BOOLEAN],
           e.state = f.state, e.run <=> f.run
    PROVE  e = f
<1>1. e.run = f.run
  OBVIOUS
<1> QED BY <1>1

\* Setting the run flag of such an entry leaves its state.
LEMMA RunSet ==
    ASSUME NEW e \in [state : OpStates, run : BOOLEAN]
    PROVE  /\ [e EXCEPT !.run = TRUE] \in [state : OpStates, run : BOOLEAN]
           /\ [e EXCEPT !.run = TRUE].state = e.state /\ [e EXCEPT !.run = TRUE].run
  OBVIOUS

\* The operation maps of both checkpoints are maps of entries.
LEMMA OpsTyped ==
    ASSUME TypeOK
    PROVE  disk.ops \in [Op -> Entry] /\ mem.ops \in [Op -> Entry] /\ cur \in Op
  BY DEF TypeOK, Checkpoint

\* A pause is a pause of the protocol, from wherever it may pause.
LEMMA PauseMaps ==
    ASSUME BatchInv, NEW s \in Statuses, Pause(s), pc \in {"loop", "failing", "recorded"},
           UNCHANGED <<tracker, usage, cur, config, billed, charge>>
    PROVE  Lifecycle!Pause
<1>1. mem'.ops = mem.ops /\ disk'.ops = mem.ops /\ pc' = "down"
  BY PauseWrites DEF BatchInv
<1> QED BY <1>1 DEF Lifecycle!Pause, LifecyclePc

\* A crash is a crash of the protocol.
LEMMA DieMaps ==
    ASSUME BatchInv, Die
    PROVE  Lifecycle!Crash
  BY DEF Die, history, Lifecycle!Crash, LifecyclePc, BatchInv, TypeOK

\* A new intent is one the protocol admits.
LEMMA BeginMaps ==
    ASSUME BatchInv, BatchInv', Begin
    PROVE  \E o \in Op : Lifecycle!Begin(o)
<1>1. PICK o \in Op, n \in 0..Queries :
        /\ IsNext(o) /\ Fits(o) /\ cur' = o
        /\ disk' = mem'
        /\ OneEntry(mem.ops, mem'.ops, o, "in_flight", FALSE, n)
  BY BeginWrites DEF BatchInv
<1>2. /\ pc = "loop" /\ pc' = "begun" /\ todo = {} /\ mem = disk
      /\ UNCHANGED <<config, tracker, usage, billed, charge>>
  BY DEF Begin, BatchInv, MemoryFollowsDisk, files, history
<1>3. mem.ops \in [Op -> Entry] /\ mem'.ops \in [Op -> Entry] /\ disk.ops \in [Op -> Entry]
  BY OpsTyped DEF BatchInv, TypeOK, Checkpoint
<1>4. Entries(mem'.ops) = [Entries(mem.ops) EXCEPT ![o] = [state |-> "in_flight", run |-> FALSE]]
  <2>1. mem'.ops[o].state = "in_flight" /\ mem'.ops[o].run = FALSE
    BY <1>1, <1>3 DEF OneEntry, Entry
  <2>2. Entries(mem'.ops)[o] = [state |-> "in_flight", run |-> FALSE]
    BY <2>1 DEF Entries
  <2>3. Entries(mem'.ops) = [Entries(mem.ops) EXCEPT ![o] = Entries(mem'.ops)[o]]
    BY <1>1 DEF OneEntry, Entries
  <2> QED BY <2>2, <2>3
<1>5. /\ mem.ops[o].state # "in_flight" /\ ~mem.ops[o].run
      /\ \A q \in Op : mem.ops[q].state = "in_flight" => ProviderOf[q] # ProviderOf[o]
  BY <1>1, <1>2, NextIsFresh DEF BatchInv, Relations
<1>6. /\ Entries(mem.ops)[o].state # "in_flight" /\ ~Entries(mem.ops)[o].run
      /\ \A q \in Lifecycle!InFlight(Entries(mem.ops)) : ProviderOf[q] # ProviderOf[o]
  <2>1. Entries(mem.ops)[o].state # "in_flight" /\ ~Entries(mem.ops)[o].run
    BY <1>3, <1>5, EntrySeen
  <2>2. Lifecycle!InFlight(Entries(mem.ops)) = {q \in Op : mem.ops[q].state = "in_flight"}
    BY <1>3, UnknownSeen
  <2> QED BY <1>5, <2>1, <2>2
<1>7. Lifecycle!Fits(o)
  BY <1>1 DEF Fits, ReservationFits, Lifecycle!Fits, Lifecycle!ReservationFits
<1>8. LifecyclePc = "ready" /\ LifecyclePc' = "begun"
  BY <1>2 DEF LifecyclePc
<1>9. Lifecycle!Begin(o)
  BY <1>1, <1>2, <1>4, <1>6, <1>7, <1>8 DEF Lifecycle!Begin
<1> QED BY <1>9

\* A settled operation is finished in the protocol.
LEMMA FinishMaps ==
    ASSUME BatchInv, BatchInv', Busy, pc \in {"recorded", "saved", "stored"},
           NEW s \in {"completed", "failed", "pending"}, NEW run \in BOOLEAN,
           run => cur \in ApifyOps, disk' = mem', pc' \in {"loop", "failing"},
           OneEntry(mem.ops, mem'.ops, cur, s, mem.ops[cur].run \/ run, mem.ops[cur].calls),
           UNCHANGED <<cur, config, tracker, usage, billed, charge>>
    PROVE  Lifecycle!Finish(s, run)
<1>1. mem.ops \in [Op -> Entry] /\ mem'.ops \in [Op -> Entry] /\ cur \in Op
  BY OpsTyped DEF BatchInv, TypeOK, Checkpoint
<1>2. mem.ops[cur].run \in BOOLEAN /\ (mem.ops[cur].run \/ run) \in BOOLEAN
  BY <1>1 DEF Entry
<1>3. Entries(mem'.ops) =
        [Entries(mem.ops) EXCEPT ![cur] = [state |-> s, run |-> mem.ops[cur].run \/ run]]
  <2>1. mem'.ops[cur].state = s /\ mem'.ops[cur].run = (mem.ops[cur].run \/ run)
    BY <1>1, <1>2 DEF OneEntry, Entry
  <2>2. Entries(mem'.ops)[cur] = [state |-> s, run |-> mem.ops[cur].run \/ run]
    BY <1>1, <2>1 DEF Entries
  <2>3. Entries(mem'.ops) = [Entries(mem.ops) EXCEPT ![cur] = Entries(mem'.ops)[cur]]
    BY <1>1 DEF OneEntry, Entries
  <2> QED BY <2>2, <2>3
<1>4. Entries(mem.ops)[cur].run = mem.ops[cur].run
  BY <1>1 DEF Entries
<1>5. LifecyclePc = "recorded" /\ LifecyclePc' = "ready"
  BY DEF LifecyclePc
<1>6. run => ProviderOf[cur] \in {"apify"}
  BY <1>1, Providers
<1> QED BY <1>3, <1>4, <1>5, <1>6 DEF Lifecycle!Finish

\* A step that changes nothing the protocol speaks of.
LEMMA StutterMaps ==
    ASSUME TypeOK, TypeOK',
           \A o \in Op : /\ disk'.ops[o].state = disk.ops[o].state
                         /\ disk'.ops[o].run <=> disk.ops[o].run
                         /\ mem'.ops[o].state = mem.ops[o].state
                         /\ mem'.ops[o].run <=> mem.ops[o].run,
           LifecyclePc' = LifecyclePc,
           UNCHANGED <<usage, tracker, config, cur, billed, charge>>
    PROVE  UNCHANGED Lifecycle!vars
<1>1. /\ disk.ops \in [Op -> Entry] /\ disk'.ops \in [Op -> Entry]
      /\ mem.ops \in [Op -> Entry] /\ mem'.ops \in [Op -> Entry]
  BY DEF TypeOK, Checkpoint
<1>2. Entries(disk'.ops) = Entries(disk.ops) /\ Entries(mem'.ops) = Entries(mem.ops)
  BY <1>1, SameEntries
<1> QED BY <1>2 DEF Lifecycle!vars

\* Every step of the batch is a step of the protocol, or one it does not see.
LEMMA LifecycleStep ==
    ASSUME BatchInv, BatchInv', [Next]_vars
    PROVE  Lifecycle!Next \/ UNCHANGED Lifecycle!vars
<1> USE DEF files, history
<1>0. TypeOK /\ TypeOK' /\ Relations
  BY DEF BatchInv, Relations
<1>1. ASSUME NEW cfg \in Configs, Start(cfg) PROVE Lifecycle!Next
  <2>1. LifecyclePc = "down" /\ LifecyclePc' = "ready"
    BY <1>1 DEF Start, CanStart, LifecyclePc
  <2>2. Lifecycle!Unknown(Entries(disk.ops)) = {}
    BY <1>0, <1>1, UnknownSeen, OpsTyped DEF Start
  <2>3. Lifecycle!Start(cfg.ceiling)
    BY <1>1, <2>1, <2>2 DEF Start, Lifecycle!Start
  <2> QED BY <2>3 DEF Lifecycle!Next
<1>2. CASE Freeze
  <2>1. /\ pc = "down" /\ pc' = "down" /\ mem = disk /\ mem' = disk' /\ disk'.ops = disk.ops
        /\ UNCHANGED <<usage, tracker, config, cur, billed, charge>>
    BY <1>2, StatusWritten
    DEF Freeze, CanStart, BatchInv, MemoryFollowsDisk, TypeOK, Statuses
  <2>2. LifecyclePc' = LifecyclePc
    BY <2>1 DEF LifecyclePc
  <2> QED BY <2>1, <2>2 DEF Lifecycle!vars
<1>3. CASE ResumeApify
  <2> DEFINE o == FirstRequest(todo)
  <2>1. o \in todo /\ o \in Op /\ o \in ApifyOps
    <3>1. todo \subseteq DiscoveryOps /\ todo # {} /\ todo \subseteq ApifyOps
      BY <1>0, <1>3, Kinds DEF ResumeApify, TypeOK
    <3> QED BY <3>1, FirstIsMember, Kinds
  <2> HIDE DEF o
  <2>2. CASE \E s \in Statuses : Pause(s) /\ UNCHANGED cur
    BY <1>3, <2>2, PauseMaps DEF ResumeApify, Lifecycle!Next
  <2>3. CASE /\ cur' = o /\ pc' = "polling" /\ mem.ops[o].run /\ UNCHANGED <<mem, disk>>
    <3>1. /\ pc = "loop" /\ mem = disk
          /\ UNCHANGED <<mem, disk, tracker, usage, config, billed, charge>>
      BY <1>3, <2>3 DEF ResumeApify, BatchInv, MemoryFollowsDisk
    <3>2. mem.ops[o].state \in {"in_flight", "pending"}
      BY <2>1, <3>1 DEF BatchInv, OthersAreResolved
    <3>3. mem.ops \in [Op -> Entry]
      BY <1>0, OpsTyped
    <3>4. ProviderOf[o] = "apify"
      BY <2>1, Providers
    <3>5. Entries(mem.ops)[o].run /\ Entries(mem.ops)[o].state \in {"in_flight", "pending"}
      BY <2>1, <2>3, <3>2, <3>3, EntrySeen
    <3>6. LifecyclePc = "ready" /\ LifecyclePc' = "called"
      BY <2>3, <3>1 DEF LifecyclePc
    <3>7. Lifecycle!Resume(o)
      BY <2>1, <2>3, <3>1, <3>4, <3>5, <3>6 DEF Lifecycle!Resume, Lifecycle!Resumable
    <3> QED BY <2>1, <3>7 DEF Lifecycle!Next
  <2> QED BY <1>3, <2>2, <2>3 DEF ResumeApify, o, Statuses
<1>4. CASE EndDiscovery
  <2>1. CASE Pause("paused_retryable")
    BY <1>4, <2>1, PauseMaps DEF EndDiscovery, Statuses, Lifecycle!Next
  <2>2. CASE Save([mem EXCEPT !.discovery = TRUE]) /\ UNCHANGED <<pc, answer, todo>>
    <3>1. /\ disk'.ops = disk.ops /\ mem'.ops = mem.ops
          /\ UNCHANGED <<pc, usage, tracker, config, cur, billed, charge>>
      BY <1>4, <2>2 DEF EndDiscovery, Save, BatchInv, MemoryFollowsDisk, TypeOK, Checkpoint
    <3> QED BY <3>1 DEF Lifecycle!vars, LifecyclePc
  <2> QED BY <1>4, <2>1, <2>2 DEF EndDiscovery
<1>5. CASE Deduplicate
  <2>1. CASE pc' = "down" /\ mem' = disk /\ tracker' = usage /\ UNCHANGED disk
    <3>1. Lifecycle!Crash
      BY <1>5, <2>1 DEF Deduplicate, Lifecycle!Crash, LifecyclePc
    <3> QED BY <3>1 DEF Lifecycle!Next
  <2>2. CASE Save([mem EXCEPT !.dedup = TRUE]) /\ UNCHANGED <<pc, tracker>>
    <3>1. /\ disk'.ops = disk.ops /\ mem'.ops = mem.ops
          /\ UNCHANGED <<pc, usage, tracker, config, cur, billed, charge>>
      BY <1>5, <2>2 DEF Deduplicate, Save, BatchInv, MemoryFollowsDisk, TypeOK, Checkpoint
    <3> QED BY <3>1 DEF Lifecycle!vars, LifecyclePc
  <2> QED BY <1>5, <2>1, <2>2 DEF Deduplicate
<1>6. CASE Complete
  BY <1>6, PauseMaps DEF Complete, Statuses, Lifecycle!Next
<1>7. CASE PauseForBudget
  BY <1>7, PauseMaps DEF PauseForBudget, Statuses, Lifecycle!Next
<1>8. CASE Begin
  BY <1>8, BeginMaps DEF Lifecycle!Next
<1>9. CASE RecordRun
  <2>1. /\ pc = "started" /\ pc' = "polling" /\ cur \in ApifyOps /\ cur \in Op
        /\ disk.ops[cur].state = "in_flight"
        /\ UNCHANGED <<mem, cur, config, tracker, usage, billed, charge>>
    BY <1>0, <1>9, MemoryAgrees
    DEF RecordRun, BatchInv, CurrentIsOpen, MemoryFollowsDisk, Busy, TypeOK
  <2>2. OneEntry(disk.ops, disk'.ops, cur, "in_flight", TRUE, disk.ops[cur].calls)
    BY <1>0, <1>9, <2>1, RecordRunWrites
  <2>3. disk.ops \in [Op -> Entry] /\ disk'.ops \in [Op -> Entry]
    BY <1>0 DEF TypeOK, Checkpoint
  <2> DEFINE e == Entries(disk.ops)[cur]
             f == Entries(disk'.ops)[cur]
  <2>4. /\ disk'.ops[cur].state = "in_flight" /\ disk'.ops[cur].run
    BY <2>1, <2>2, <2>3 DEF OneEntry
  <2>5. e \in [state : OpStates, run : BOOLEAN] /\ e.state = "in_flight"
    BY <2>1, <2>3, EntrySeen
  <2>6. f \in [state : OpStates, run : BOOLEAN] /\ f.state = "in_flight" /\ f.run
    BY <2>1, <2>3, <2>4, EntrySeen
  <2>7. Entries(disk'.ops) = [Entries(disk.ops) EXCEPT ![cur] = f]
    BY <2>2 DEF OneEntry, Entries
  <2>8. f = [e EXCEPT !.run = TRUE]
    <3> HIDE DEF e, f
    <3> QED BY <2>5, <2>6, RunSet, SameSeen
  <2>9. Entries(disk'.ops) = [Entries(disk.ops) EXCEPT ![cur].run = TRUE]
    BY <2>7, <2>8
  <2>10. LifecyclePc = "called" /\ LifecyclePc' = "called"
    BY <2>1 DEF LifecyclePc
  <2>11. ProviderOf[cur] \in {"apify"}
    BY <2>1, Providers
  <2>12. Lifecycle!RecordRun
    BY <2>1, <2>5, <2>9, <2>10, <2>11 DEF Lifecycle!RecordRun
  <2> QED BY <2>12 DEF Lifecycle!Next
<1>10. CASE SaveProgress
  <2>1. PICK c \in CompanySet : cur = Research(c)
    BY <1>10 DEF SaveProgress, BatchInv, CurrentIsOpen, ResearchOps
  <2>2. mem = disk /\ mem.ops[cur].calls < Queries
    BY <1>10, <2>1 DEF SaveProgress, BatchInv, CursorFollowsAnswers, MemoryFollowsDisk
  <2>3. /\ disk' = mem'
        /\ \A o \in Op : mem'.ops[o].state = mem.ops[o].state /\ (mem'.ops[o].run <=> mem.ops[o].run)
    BY <1>0, <1>10, <2>2, ProgressWrites DEF OneEntry
  <2>4. LifecyclePc' = LifecyclePc /\ UNCHANGED <<usage, tracker, config, cur, billed, charge>>
    BY <1>10 DEF SaveProgress, LifecyclePc
  <2> QED BY <1>0, <2>2, <2>3, <2>4, StutterMaps
<1>11. CASE NextQuery
  <2>1. /\ pc = "saved" /\ pc' = "begun" /\ mem = disk /\ Fits(cur)
        /\ UNCHANGED <<mem, disk, cur, config, tracker, usage, billed, charge>>
    BY <1>11 DEF NextQuery, BatchInv, MemoryFollowsDisk
  <2>2. cur \notin ApifyOps
    BY <1>11, Kinds DEF NextQuery, BatchInv, CurrentIsOpen
  <2>3. mem.ops[cur].state = "in_flight" /\ ~mem.ops[cur].run
    BY <1>0, <2>1, <2>2, CurrentInFlight DEF Busy
  <2>4. Entries(mem.ops)[cur].state = "in_flight" /\ ~Entries(mem.ops)[cur].run
    BY <1>0, <2>3, OpsTyped, EntrySeen
  <2>5. Lifecycle!Fits(cur)
    BY <2>1 DEF Fits, ReservationFits, Lifecycle!Fits, Lifecycle!ReservationFits
  <2>6. LifecyclePc = "recorded" /\ LifecyclePc' = "begun"
    BY <2>1 DEF LifecyclePc
  <2>7. Lifecycle!Continue
    BY <2>1, <2>4, <2>5, <2>6 DEF Lifecycle!Continue
  <2> QED BY <2>7 DEF Lifecycle!Next
<1>12. ASSUME NEW s \in {"pending", "failed"}, Save(WithState(cur, s)), pc \in {"recorded", "saved"},
              pc' \in {"loop", "failing"}, UNCHANGED <<cur, config, tracker, usage, billed, charge>>
       PROVE  Lifecycle!Next
  <2>1. /\ disk' = mem'
        /\ OneEntry(mem.ops, mem'.ops, cur, s, mem.ops[cur].run, mem.ops[cur].calls)
    BY <1>0, <1>12, StateWrites DEF OpStates
  <2>2. (mem.ops[cur].run \/ FALSE) <=> mem.ops[cur].run
    OBVIOUS
  <2>3. OneEntry(mem.ops, mem'.ops, cur, s, mem.ops[cur].run \/ FALSE, mem.ops[cur].calls)
    BY <2>1, <2>2 DEF OneEntry
  <2>4. Lifecycle!Finish(s, FALSE)
    BY <1>12, <2>1, <2>3, FinishMaps DEF Busy
  <2> QED BY <2>4 DEF Lifecycle!Next
<1>13. CASE StopQueries
  BY <1>12, <1>13 DEF StopQueries
<1>14. CASE FinishApify
  BY <1>12, <1>14 DEF FinishApify, Failed
<1>15. CASE FinishRequired
  BY <1>12, <1>15 DEF FinishRequired, Failed
<1>16. CASE FinishCompleted
  <2> DEFINE run == cur \in ApifyOps
  <2>1. run \in BOOLEAN
    OBVIOUS
  <2>2. /\ disk' = mem'
        /\ OneEntry(mem.ops, mem'.ops, cur, "completed", mem.ops[cur].run \/ run, mem.ops[cur].calls)
    BY <1>0, <1>16, CompletedWrites
  <2>3. /\ pc = "stored" /\ pc' = "loop" /\ Busy /\ (run => cur \in ApifyOps)
        /\ UNCHANGED <<cur, config, tracker, usage, billed, charge>>
    BY <1>16 DEF FinishCompleted, Busy
  <2> HIDE DEF run
  <2>4. Lifecycle!Finish("completed", run)
    BY <2>1, <2>2, <2>3, FinishMaps
  <2> QED BY <2>1, <2>4 DEF Lifecycle!Next
<1>17. CASE LeaveUnknown
  BY <1>17, PauseMaps DEF LeaveUnknown, Failed, Statuses, Lifecycle!Next
<1>18. CASE StopRun
  <2>1. \E s \in Statuses : Pause(s)
    BY <1>18 DEF StopRun, BatchInv, CurrentIsOpen, Statuses
  <2> QED BY <1>18, <2>1, PauseMaps DEF StopRun, Lifecycle!Next
<1>19. ASSUME NEW priced \in BOOLEAN, RecordUsage(priced) PROVE Lifecycle!Next
  <2>1. LifecyclePc = "called" /\ LifecyclePc' = "recorded"
    BY <1>19 DEF RecordUsage, LifecyclePc
  <2>2. Lifecycle!RecordUsage(priced)
    BY <1>19, <2>1 DEF RecordUsage, AddEvent, Lifecycle!RecordUsage, Lifecycle!AddEvent
  <2> QED BY <2>2 DEF Lifecycle!Next
<1>20. CASE \/ \E r \in Requests : StoreRows(r)
            \/ \E c \in CompanySet : StoreFacts(c) \/ StoreResearch(c)
            \/ \E c \in CompanySet, found \in BOOLEAN : StoreEvidence(c, found)
  <2>1. /\ UNCHANGED <<mem, disk, usage, tracker, config, cur, billed, charge>>
        /\ pc \in {"recorded", "saved"} /\ pc' \in {"answered", "stored"}
    BY <1>20 DEF StoreRows, StoreFacts, StoreResearch, StoreEvidence
  <2> QED BY <2>1 DEF Lifecycle!vars, LifecyclePc
<1>21. ASSUME NEW outcome \in Outcomes, NEW cost \in 0..Reservation[cur],
              Call(outcome, cost) \/ StartRun(outcome, cost)
       PROVE  Lifecycle!Next
  <2>1. LifecyclePc = "begun" /\ LifecyclePc' = "called"
    BY <1>21 DEF Call, StartRun, LifecyclePc
  <2>2. cost <= Reservation[cur]
    BY <1>0, Typed
  <2>3. Lifecycle!Call(cost)
    BY <1>21, <2>1, <2>2 DEF Call, StartRun, Bill, Lifecycle!Call
  <2> QED BY <2>3 DEF Lifecycle!Next
<1>22. ASSUME NEW outcome \in Outcomes, Poll(outcome) PROVE UNCHANGED Lifecycle!vars
  BY <1>22 DEF Poll, Lifecycle!vars, LifecyclePc
<1>23. CASE Crash \/ \E f \in {"usage", "rows"} : TornAppend(f)
  BY <1>23, DieMaps DEF Crash, TornAppend, Lifecycle!Next
<1>24. CASE UNCHANGED vars
  BY <1>24 DEF vars, Lifecycle!vars, LifecyclePc
<1> QED
  BY <1>1, <1>2, <1>3, <1>4, <1>5, <1>6, <1>7, <1>8, <1>9, <1>10, <1>11, <1>13, <1>14, <1>15,
     <1>16, <1>17, <1>18, <1>19, <1>20, <1>21, <1>22, <1>23, <1>24
  DEF Next, Launch, Process, Environment

\* The batch implements the paid-operation protocol: whatever its plan, its
\* companies and its reruns, it opens, calls, records and settles its
\* operations in no other order than PaidLifecycle allows.
THEOREM LifecycleFollowed == Spec => FollowsLifecycle
<1>1. Init => Lifecycle!Init
  <2> SUFFICES ASSUME Init PROVE Lifecycle!Init
    OBVIOUS
  <2>1. mem = disk /\ disk.ops = [o \in Op |-> Absent] /\ LifecyclePc = "down" /\ cur \in Op
    BY Kinds DEF Init, LifecyclePc, Requests
  <2>2. Entries(disk.ops) = [o \in Op |-> Lifecycle!Absent]
    BY <2>1 DEF Entries, Absent, Lifecycle!Absent
  <2> QED BY <2>1, <2>2 DEF Init, NoSpend, Lifecycle!Init, Lifecycle!NoSpend
<1>2. BatchInv /\ BatchInv' /\ [Next]_vars => [Lifecycle!Next]_(Lifecycle!vars)
  BY LifecycleStep
<1> QED BY <1>1, <1>2, Invariance, PTL DEF Spec, FollowsLifecycle, Lifecycle!Spec

=============================================================================
