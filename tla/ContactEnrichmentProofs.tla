----------------------- MODULE ContactEnrichmentProofs -----------------------
(***************************************************************************)
(* The contact stage, for any companies, contacts, snapshots, ceilings,    *)
(* crashes and outside changes.  The invariant is                          *)
(* ContactEnrichment!ContactInv.                                           *)
(***************************************************************************)
EXTENDS ContactEnrichment, FiniteSetTheorems, WellFoundedInduction, TLAPS

USE NoCeilingAssumption, ContactAssumption

-----------------------------------------------------------------------------
(***************************************************************************)
(* Identities of operations, and the next one to visit.                    *)
(***************************************************************************)
\* Every operation is named by its provider and its company or contact.
LEMMA Identities ==
    /\ \A c \in Companies : Exa(c) \in Op /\ ProviderOf[Exa(c)] = "exa" /\ Exa(c)[2] = c
    /\ Clay \in Op /\ ProviderOf[Clay] = "clay"
    /\ \A k \in Contacts :
         /\ Apollo(k) \in Op /\ ProviderOf[Apollo(k)] = "apollo" /\ Apollo(k)[2] = k
         /\ Instantly(k) \in Op /\ ProviderOf[Instantly(k)] = "instantly" /\ Instantly(k)[2] = k
  BY DEF Exa, Clay, Apollo, Instantly, Op, ProviderOf

\* There are no other operations.
LEMMA Kinds ==
    ASSUME NEW o \in Op
    PROVE  /\ ProviderOf[o] \in Provider
           /\ ProviderOf[o] = "exa" => o[2] \in Companies /\ o = Exa(o[2])
           /\ ProviderOf[o] = "clay" => o = Clay
           /\ ProviderOf[o] = "apollo" => o[2] \in Contacts /\ o = Apollo(o[2])
           /\ ProviderOf[o] = "instantly" => o[2] \in Contacts /\ o = Instantly(o[2])
  BY DEF Exa, Clay, Apollo, Instantly, Op, ProviderOf, Provider

\* Operations of different companies, contacts or providers are different.
LEMMA Distinct ==
    /\ \A c, d \in Companies : Exa(c) = Exa(d) => c = d
    /\ \A k, l \in Contacts : Apollo(k) = Apollo(l) => k = l
    /\ \A k, l \in Contacts : Instantly(k) = Instantly(l) => k = l
    /\ \A c \in Companies : Exa(c) # Clay
    /\ \A c \in Companies, k \in Contacts : Exa(c) # Apollo(k) /\ Exa(c) # Instantly(k)
    /\ \A k \in Contacts : Clay # Apollo(k) /\ Clay # Instantly(k)
    /\ \A k, l \in Contacts : Apollo(k) # Instantly(l)
  BY DEF Exa, Clay, Apollo, Instantly

\* A nonempty set of numbers has a least element.
LEMMA LeastOf ==
    ASSUME NEW S \in SUBSET Nat, S # {}
    PROVE  \E m \in S : \A n \in S : m <= n
<1>1. PICK N \in Nat : N \in S
  OBVIOUS
<1> DEFINE T == {0..n : n \in {i \in S : i <= N}}
           R == StrictSubsetOrdering(0..N)
<1>2. IsWellFoundedOn(R, FiniteSubsetsOf(0..N))
  <2>1. IsFiniteSet(0..N)
    BY FS_Interval
  <2> QED BY <2>1, FS_StrictSubsetOrderingWellFounded
<1>3. T \subseteq FiniteSubsetsOf(0..N) /\ T # {}
  <2>1. \A n \in S : n <= N => 0..n \subseteq 0..N /\ IsFiniteSet(0..n)
    BY FS_Interval
  <2> QED BY <1>1, <2>1 DEF FiniteSubsetsOf
<1>4. \E x \in T : \A y \in T : ~ (<<y, x>> \in R)
  <2> HIDE DEF T, R
  <2> QED BY <1>2, <1>3, WFMin
<1>5. PICK m \in S : m <= N /\ \A n \in S : n <= N => <<0..n, 0..m>> \notin R
  BY <1>4
<1>6. ASSUME NEW n \in S, n < m PROVE FALSE
  <2>1. 0..n \subseteq 0..m /\ m \in 0..m /\ m \notin 0..n
    BY <1>6
  <2>2. n <= N /\ 0..n \in SUBSET (0..N) /\ 0..m \in SUBSET (0..N)
    BY <1>5, <1>6
  <2>3. <<0..n, 0..m>> \in R
    BY <2>1, <2>2 DEF StrictSubsetOrdering
  <2> QED BY <1>5, <2>2, <2>3
<1> QED BY <1>6

\* A pass visits one of those it has left.
LEMMA FirstIsMember ==
    ASSUME NEW S \in SUBSET Nat, S # {}
    PROVE  First(S) \in S
  BY LeastOf DEF First

-----------------------------------------------------------------------------
(***************************************************************************)
(* What the actions write.                                                 *)
(***************************************************************************)
\* The operation map new differs from old in one state at most, which it names.
Moved(old, new, o, state) ==
    new[o].state = state /\ \A q \in Op : q # o => new[q].state = old[q].state

\* The checkpoints m and n are bound alike and select the same contacts.
SameBinding(m, n) == n.bound = m.bound /\ n.selected = m.selected

\* The types TypeOK gives the parts of a checkpoint.
LEMMA CheckpointType ==
    ASSUME NEW m \in Checkpoint
    PROVE  /\ m.status \in Statuses /\ m.reason \in Reasons
           /\ m.bound \in Snapshots \cup {NoSnapshot}
           /\ m.selected \in SUBSET Contacts /\ m.batch \in SUBSET Contacts
           /\ m.ops \in [Op -> Entry]
           /\ \A o \in Op : /\ m.ops[o] \in Entry /\ m.ops[o].state \in OpStates
                            /\ m.ops[o].admitted \in Nat
  BY DEF Checkpoint, Entry

\* A pause changes status and reason of the checkpoint it is given.
LEMMA PauseWrites ==
    ASSUME NEW m \in Checkpoint, NEW status \in Statuses, NEW reason \in Reasons,
           Pause(m, status, reason)
    PROVE  /\ mem' \in Checkpoint /\ mem'.status = status /\ pc' = "pausing"
           /\ mem'.ops = m.ops /\ mem'.batch = m.batch /\ SameBinding(m, mem')
  BY DEF Pause, Checkpoint, SameBinding

\* Beginning an operation writes its intent.
LEMMA BeginWrites ==
    ASSUME mem \in Checkpoint, NEW o \in Op, NEW batch \in SUBSET Contacts, Begin(o, batch)
    PROVE  /\ mem' \in Checkpoint /\ disk' = mem' /\ mem'.status = "running"
           /\ Moved(mem.ops, mem'.ops, o, "in_flight")
           /\ mem'.batch = batch /\ SameBinding(mem, mem')
           /\ cur' = o /\ pc' = "begun"
<1> DEFINE e == [state |-> "in_flight", admitted |-> 0]
           m == [mem EXCEPT !.status = "running", !.reason = NoReason, !.batch = batch]
<1>1. e \in Entry /\ e.state = "in_flight"
  BY DEF Entry, OpStates
<1>2. /\ m \in Checkpoint /\ m.status = "running" /\ m.batch = batch
      /\ m.ops = mem.ops /\ SameBinding(mem, m)
  BY DEF Checkpoint, Statuses, Reasons, SameBinding
<1>3. mem' = [m EXCEPT !.ops[o] = e] /\ disk' = mem' /\ cur' = o /\ pc' = "begun"
  BY DEF Begin, Checkpoint
<1> HIDE DEF e, m
<1> QED BY <1>1, <1>2, <1>3 DEF Checkpoint, SameBinding, Moved

\* Admitting a status read changes no state.
LEMMA AdmitWrites ==
    ASSUME mem \in Checkpoint, reads \in [Op -> Nat], NEW o \in Op, AdmitRead(o)
    PROVE  /\ mem' \in Checkpoint /\ disk' = mem' /\ mem'.status = mem.status
           /\ \A q \in Op : mem'.ops[q].state = mem.ops[q].state
           /\ mem'.batch = mem.batch /\ SameBinding(mem, mem')
           /\ cur' = o /\ pc' = "begun"
<1>1. ReadsUsed(o) \in Nat /\ mem.ops[o] \in Entry
  BY CheckpointType DEF ReadsUsed
<1> DEFINE e == [mem.ops[o] EXCEPT !.admitted = ReadsUsed(o) + 1]
<1>2. e \in Entry /\ e.state = mem.ops[o].state
  BY <1>1 DEF Entry
<1>3. mem' = mem \/ mem' = [mem EXCEPT !.ops[o] = e]
  BY DEF AdmitRead
<1>4. disk' = mem' /\ cur' = o /\ pc' = "begun"
  BY DEF AdmitRead
<1> HIDE DEF e
<1> QED BY <1>2, <1>3, <1>4 DEF Checkpoint, SameBinding

\* Completing an operation settles it, and a search selects its contacts.
LEMMA CompletedWrites ==
    ASSUME mem \in Checkpoint, cur \in Op, FinishCompleted
    PROVE  /\ mem' \in Checkpoint /\ disk' = mem' /\ mem'.status = mem.status
           /\ Moved(mem.ops, mem'.ops, cur, "completed")
           /\ mem'.bound = mem.bound /\ mem'.batch = mem.batch
           /\ \A k \in mem'.selected : k \in mem.selected \/ (k \in Contacts /\ people[k].known)
<1> DEFINE sel == IF ProviderOf[cur] # "exa" THEN mem.selected ELSE
              mem.selected \cup {k \in Contacts : people[k].known /\ CompanyOf[k] = cur[2]}
           e == [state |-> "completed", admitted |-> 0]
<1>1. /\ sel \in SUBSET Contacts
      /\ \A k \in sel : k \in mem.selected \/ (k \in Contacts /\ people[k].known)
  BY CheckpointType
<1>2. mem' = [mem EXCEPT !.ops[cur] = e, !.selected = sel] /\ disk' = mem'
  BY DEF FinishCompleted, Checkpoint
<1>3. e \in Entry /\ e.state = "completed"
  BY DEF Entry, OpStates
<1> HIDE DEF sel, e
<1> QED BY <1>1, <1>2, <1>3 DEF Checkpoint, Moved

\* An operation that waits is on record as such.
LEMMA PendedWrites ==
    ASSUME mem \in Checkpoint, cur \in Op
    PROVE  /\ Pended \in Checkpoint /\ Moved(mem.ops, Pended.ops, cur, "pending")
           /\ Pended.batch = mem.batch /\ SameBinding(mem, Pended)
<1> DEFINE e == [state |-> "pending", admitted |-> 0]
<1>1. Pended = [mem EXCEPT !.ops[cur] = e, !.selected = mem.selected]
  BY DEF Pended, Checkpoint
<1>2. mem.selected \in SUBSET Contacts
  BY CheckpointType
<1>3. e \in Entry /\ e.state = "pending"
  BY DEF Entry, OpStates
<1> HIDE DEF e
<1> QED BY <1>1, <1>2, <1>3 DEF Checkpoint, SameBinding, Moved

-----------------------------------------------------------------------------
(***************************************************************************)
(* Every step keeps the types.                                             *)
(***************************************************************************)
\* What the invariant says of the entry a pass takes up next.
LEMMA NextVisit ==
    ASSUME TypeOK, CurrentIsOpen, VisitsArePaid, pc \in Provider, left # {}
    PROVE  /\ First(left) \in left
           /\ pc = "exa" => First(left) \in Companies
           /\ pc # "exa" => First(left) \in Contacts
<1>1. pc # "down" /\ Passing /\ Pass = pc
  BY DEF Passing, Pass, Busy, Provider
<1>2. CASE pc = "exa"
  <2>1. left \subseteq AcceptedIn[disk.bound] /\ disk.bound \in Snapshots
    BY <1>1, <1>2 DEF VisitsArePaid, CurrentIsOpen
  <2>2. left \in SUBSET Nat /\ left \subseteq Companies
    BY <2>1
  <2> QED BY <1>2, <2>2, FirstIsMember
<1>3. CASE pc # "exa"
  <2>1. left \in SUBSET Nat /\ left \subseteq Contacts
    BY <1>1, <1>3 DEF VisitsArePaid
  <2> QED BY <1>3, <2>1, FirstIsMember
<1> QED BY <1>2, <1>3

\* The spend of a provider after one more event.
LEMMA CommittedType ==
    ASSUME TypeOK, NEW priced \in BOOLEAN
    PROVE  ProviderOf[cur] \in Provider /\ Committed(priced) \in Totals
<1>1. cur \in Op /\ charge \in Nat /\ ProviderOf[cur] \in Provider
  BY Kinds DEF TypeOK
<1>2. usage[ProviderOf[cur]] \in Totals
  BY <1>1 DEF TypeOK
<1> DEFINE t == usage[ProviderOf[cur]]
<1>3. \A b \in BOOLEAN, n \in Nat : AddEvent(t, b, n) \in Totals
  BY <1>2 DEF AddEvent, Totals
<1> HIDE DEF t
<1>4. Committed(priced) = t \/ \E b \in BOOLEAN, n \in Nat : Committed(priced) = AddEvent(t, b, n)
  BY <1>1 DEF Committed, t
<1> QED BY <1>1, <1>2, <1>3, <1>4 DEF t

\* Contacts keep their type under every change a step makes to one.
LEMMA ContactChanged ==
    ASSUME NEW c \in Contact
    PROVE  /\ \A b \in BOOLEAN : [c EXCEPT !.known = b] \in Contact
           /\ \A b \in BOOLEAN : [c EXCEPT !.email = b] \in Contact
           /\ \A b \in BOOLEAN : [c EXCEPT !.clay = TRUE, !.email = @ \/ b] \in Contact
           /\ [c EXCEPT !.verdict = "settled"] \in Contact
           /\ [c EXCEPT !.verdict = "pending"] \in Contact
  BY DEF Contact

\* The empty publication is one.
LEMMA NobodyType ==
    Nobody \in [Contacts -> Contact]
  BY DEF Nobody, Contact

\* What invocations load.
LEMMA LoadTypes ==
    ASSUME TypeOK, NEW cfg \in Configs, StartFrozen(cfg) \/ Reset(cfg) \/ Resume(cfg)
    PROVE  TypeOK'
<1> USE DEF TypeOK, Load, ledger, world
<1>1. CASE StartFrozen(cfg)
  <2>1. mem' \in Checkpoint /\ pc' = "pausing"
    BY <1>1, PauseWrites DEF StartFrozen, Statuses, Reasons
  <2> QED BY <1>1, <2>1 DEF StartFrozen
<1>2. CASE Reset(cfg)
  <2>1. mem' \in Checkpoint
    BY <1>2 DEF Reset, Checkpoint, Statuses, Reasons, Entry, OpStates, Absent
  <2> QED BY <1>2, <2>1, NobodyType DEF Reset
<1>3. CASE Resume(cfg)
  <2>1. mem' \in Checkpoint /\ pc' \in {"exa", "pausing"} /\ left' \subseteq Companies \cup Contacts
    <3>1. CASE InFlight(disk.ops) = {}
      BY <1>3, <3>1 DEF Resume, Accepted
    <3>2. CASE InFlight(disk.ops) # {}
      <4> DEFINE o == CHOOSE o \in InFlight(disk.ops) : TRUE
                 r == IF o = Clay THEN <<"clay_start_unknown">> ELSE o
      <4>1. o \in InFlight(disk.ops)
        BY <3>2
      <4>2. disk.ops \in [Op -> Entry]
        BY CheckpointType
      <4>3. o \in Op
        BY <4>1, <4>2 DEF InFlight
      <4>4. r \in Reasons
        BY <4>3 DEF Reasons
      <4>5. Pause(disk, "paused_unknown", r) /\ UNCHANGED left
        BY <1>3, <3>2 DEF Resume
      <4> HIDE DEF r, o
      <4> QED BY <4>4, <4>5, PauseWrites DEF Statuses
    <3> QED BY <3>1, <3>2
  <2> QED BY <1>3, <2>1 DEF Resume, Provider
<1> QED BY <1>1, <1>2, <1>3

\* What the passes begin, admit and pause.
LEMMA PassTypes ==
    ASSUME TypeOK, CurrentIsOpen, VisitsArePaid,
           ExaPass \/ ClayPass \/ ApolloPass \/ InstantlyPass \/ Finish
    PROVE  TypeOK'
<1> USE DEF TypeOK, BetweenOps, ledger, world, history
<1>1. ASSUME NEW status \in Statuses, NEW reason \in Reasons, PauseHere(status, reason), BetweenOps
      PROVE  TypeOK'
  <2>1. mem' \in Checkpoint /\ pc' = "pausing"
    BY <1>1, PauseWrites DEF PauseHere
  <2> QED BY <1>1, <2>1 DEF PauseHere
<1>2. ASSUME NEW o \in Op, NEW batch \in SUBSET Contacts, Begin(o, batch), UNCHANGED left, BetweenOps
      PROVE  TypeOK'
  BY <1>2, BeginWrites
<1>3. ASSUME NEW o \in Op, AdmitRead(o), UNCHANGED left, BetweenOps
      PROVE  TypeOK'
  BY <1>3, AdmitWrites
<1>4. ASSUME Skip, BetweenOps
      PROVE  TypeOK'
  BY <1>4 DEF Skip
<1>5. mem.batch \in SUBSET Contacts
  BY CheckpointType
<1>6. CASE ExaPass
  <2>1. First(left) \in Companies
    BY <1>6, NextVisit DEF ExaPass, At, Provider
  <2>2. Exa(First(left)) \in Op
    BY <2>1, Identities
  <2>3. \/ Skip \/ PauseHere("paused_budget", <<"exa_people_budget">>)
        \/ Begin(Exa(First(left)), mem.batch) /\ UNCHANGED left
    BY <1>6 DEF ExaPass
  <2> QED BY <1>1, <1>2, <1>4, <1>5, <1>6, <2>2, <2>3 DEF ExaPass, Statuses, Reasons
<1>7. CASE ClayPass
  <2>1. Batch \in SUBSET Contacts
    BY <1>7 DEF ClayPass, Batch, VisitsArePaid, Passing, Pass, Busy, Provider
  <2>2. \/ PauseHere("paused_unknown", <<"clay_authorization_changed">>)
        \/ PauseHere("paused_pending", <<"clay_pending">>)
        \/ AdmitRead(Clay) /\ UNCHANGED left
        \/ Begin(Clay, Batch) /\ UNCHANGED left
    BY <1>7 DEF ClayPass
  <2> HIDE DEF Batch
  <2> QED BY <1>1, <1>2, <1>3, <1>7, <2>1, <2>2, Identities DEF ClayPass, Statuses, Reasons
<1>8. CASE ApolloPass
  <2>1. First(left) \in Contacts
    BY <1>8, NextVisit DEF ApolloPass, At, Provider
  <2>2. Apollo(First(left)) \in Op
    BY <2>1, Identities
  <2>3. \/ Skip \/ PauseHere("paused_budget", <<"apollo_credit_cap">>)
        \/ Begin(Apollo(First(left)), mem.batch) /\ UNCHANGED left
    BY <1>8 DEF ApolloPass
  <2> QED BY <1>1, <1>2, <1>4, <1>5, <1>8, <2>2, <2>3 DEF ApolloPass, Statuses, Reasons
<1>9. CASE InstantlyPass
  <2> DEFINE o == Instantly(First(left))
  <2>1. First(left) \in Contacts
    BY <1>9, NextVisit DEF InstantlyPass, At, Provider
  <2>2. o \in Op
    BY <2>1, Identities
  <2>3. \/ Skip \/ PauseHere("paused_pending", o)
        \/ PauseHere("paused_budget", <<"instantly_call_cap">>)
        \/ AdmitRead(o) /\ UNCHANGED left
        \/ Begin(o, mem.batch) /\ UNCHANGED left
    BY <1>9 DEF InstantlyPass
  <2> HIDE DEF o
  <2> QED BY <1>1, <1>2, <1>3, <1>4, <1>5, <1>9, <2>2, <2>3 DEF InstantlyPass, Statuses, Reasons
<1>10. CASE Finish
  BY <1>1, <1>10 DEF Finish, PauseHere, Statuses, Reasons
<1> QED BY <1>6, <1>7, <1>8, <1>9, <1>10

\* What the call, its usage event and its answer change.
LEMMA CallTypes ==
    ASSUME TypeOK, CurrentIsOpen,
           \/ \E outcome \in Answers, cost \in 0..1 : Call(outcome, cost)
           \/ \E priced \in BOOLEAN : RecordUsage(priced)
           \/ \E found \in SUBSET Contacts : StorePeople(found) \/ StoreClayEmails(found)
           \/ \E found \in BOOLEAN : StoreApolloEmail(found)
           \/ StoreVerdict \/ FinishCompleted \/ FinishPending \/ StillPending \/ StopOnError
    PROVE  TypeOK'
<1> USE DEF TypeOK, AfterCall, ledger, world, history
<1>0. cur \in Op /\ ProviderOf[cur] \in Provider
  BY Kinds
<1>1. ASSUME NEW outcome \in Answers, NEW cost \in 0..1, Call(outcome, cost)
      PROVE  TypeOK'
  BY <1>0, <1>1 DEF Call
<1>2. ASSUME NEW priced \in BOOLEAN, RecordUsage(priced)
      PROVE  TypeOK'
  <2>1. Committed(priced) \in Totals
    BY CommittedType
  <2> QED BY <1>0, <1>2, <2>1 DEF RecordUsage
<1>3. ASSUME NEW found \in SUBSET Contacts, StorePeople(found)
      PROVE  TypeOK'
  <2>1. \A k \in Contacts : [Nobody[k] EXCEPT !.known = TRUE] \in Contact
    BY NobodyType, ContactChanged
  <2>2. people' \in [Contacts -> Contact] /\ file' = people'
    BY <1>3, <2>1 DEF StorePeople, Publish
  <2> QED BY <1>3, <2>2 DEF StorePeople, Publish
<1>4. ASSUME NEW found \in SUBSET Contacts, StoreClayEmails(found)
      PROVE  TypeOK'
  <2>1. \A k \in Contacts :
          [people[k] EXCEPT !.clay = TRUE, !.email = @ \/ k \in found] \in Contact
    BY ContactChanged
  <2>2. people' \in [Contacts -> Contact] /\ file' = people'
    BY <1>4, <2>1 DEF StoreClayEmails, Publish
  <2> QED BY <1>4, <2>2 DEF StoreClayEmails, Publish
<1>5. ASSUME NEW found \in BOOLEAN, StoreApolloEmail(found)
      PROVE  TypeOK'
  <2>1. cur[2] \in Contacts
    BY <1>0, <1>5, Kinds DEF StoreApolloEmail
  <2>2. [people[cur[2]] EXCEPT !.email = found] \in Contact
    BY <2>1, ContactChanged
  <2>3. people' \in [Contacts -> Contact] /\ file' = people'
    BY <1>5, <2>1, <2>2 DEF StoreApolloEmail, Publish
  <2> QED BY <1>5, <2>3 DEF StoreApolloEmail, Publish
<1>6. CASE StoreVerdict
  <2>1. cur[2] \in Contacts
    BY <1>0, <1>6, Kinds DEF StoreVerdict
  <2>2. [people[cur[2]] EXCEPT !.verdict = "settled"] \in Contact
    BY <2>1, ContactChanged
  <2>3. people' \in [Contacts -> Contact] /\ file' = people'
    BY <1>6, <2>1, <2>2 DEF StoreVerdict, Publish
  <2> QED BY <1>6, <2>3 DEF StoreVerdict, Publish
<1>7. CASE FinishCompleted
  <2>1. mem' \in Checkpoint /\ disk' = mem'
    BY <1>7, CompletedWrites
  <2> QED BY <1>0, <1>7, <2>1 DEF FinishCompleted
<1>8. CASE FinishPending
  <2> DEFINE r == IF cur = Clay THEN <<"clay_pending">> ELSE cur
  <2>1. Pended \in Checkpoint /\ r \in Reasons
    BY PendedWrites DEF Reasons
  <2>2. Pause(Pended, "paused_pending", r) /\ disk' = Pended
    BY <1>8 DEF FinishPending
  <2>3. people' \in [Contacts -> Contact]
    <3>1. CASE UNCHANGED people
      BY <3>1
    <3>2. CASE /\ ProviderOf[cur] = "instantly"
               /\ people' = [people EXCEPT ![cur[2]].verdict = "pending"]
      <4>1. cur[2] \in Contacts
        BY <3>2, Kinds
      <4>2. [people[cur[2]] EXCEPT !.verdict = "pending"] \in Contact
        BY <4>1, ContactChanged
      <4> QED BY <3>2, <4>1, <4>2
    <3> QED BY <1>8, <3>1, <3>2 DEF FinishPending
  <2> HIDE DEF r
  <2>4. mem' \in Checkpoint /\ pc' = "pausing"
    BY <2>1, <2>2, PauseWrites DEF Statuses
  <2> QED BY <1>8, <2>1, <2>2, <2>3, <2>4 DEF FinishPending
<1>9. CASE StillPending
  <2>1. mem' \in Checkpoint /\ pc' = "pausing"
    BY <1>9, PauseWrites DEF StillPending, Statuses, Reasons
  <2> QED BY <1>9, <2>1 DEF StillPending
<1>10. CASE StopOnError
  <2> DEFINE s == IF answer = "exhausted" THEN "paused_budget"
                  ELSE IF Reading THEN "paused_pending" ELSE "paused_unknown"
             r == IF cur # Clay THEN cur
                  ELSE IF Reading THEN <<"clay_pending">> ELSE <<"clay_start">>
  <2>1. s \in Statuses /\ r \in Reasons
    BY DEF Statuses, Reasons
  <2>2. Pause(mem, s, r)
    BY <1>10 DEF StopOnError
  <2> HIDE DEF s, r
  <2>3. mem' \in Checkpoint /\ pc' = "pausing"
    BY <2>1, <2>2, PauseWrites
  <2> QED BY <1>10, <2>3 DEF StopOnError
<1> QED BY <1>1, <1>2, <1>3, <1>4, <1>5, <1>6, <1>7, <1>8, <1>9, <1>10

\* Every step keeps the types.
LEMMA TypeStep ==
    ASSUME TypeOK, CurrentIsOpen, VisitsArePaid, RebindingIsClean, [Next]_vars
    PROVE  TypeOK'
<1>1. ASSUME NEW cfg \in Configs, StartFrozen(cfg) \/ Reset(cfg) \/ Resume(cfg)
      PROVE  TypeOK'
  BY <1>1, LoadTypes
<1>2. CASE SaveReset
  <2>1. AcceptedIn[mem.bound] \subseteq Companies
    BY <1>2 DEF SaveReset, RebindingIsClean
  <2> QED BY <1>2, <2>1 DEF SaveReset, TypeOK, ledger, world, Provider
<1>3. CASE ExaPass \/ ClayPass \/ ApolloPass \/ InstantlyPass \/ Finish
  BY <1>3, PassTypes
<1>4. CASE EnterClay \/ EnterApollo \/ EnterInstantly
  <2>1. Paid' \in SUBSET Contacts /\ Paid \in SUBSET Contacts
    BY DEF Paid
  <2> HIDE DEF Paid
  <2> QED
    BY <1>4, <2>1
    DEF EnterClay, EnterApollo, EnterInstantly, BetweenOps, TypeOK, ledger, world, history, Provider
<1>5. CASE \/ \E outcome \in Answers, cost \in 0..1 : Call(outcome, cost)
           \/ \E priced \in BOOLEAN : RecordUsage(priced)
           \/ \E found \in SUBSET Contacts : StorePeople(found) \/ StoreClayEmails(found)
           \/ \E found \in BOOLEAN : StoreApolloEmail(found)
           \/ StoreVerdict \/ FinishCompleted \/ FinishPending \/ StillPending \/ StopOnError
  BY <1>5, CallTypes
<1>6. CASE PublishContacts \/ SavePause
  BY <1>6 DEF PublishContacts, SavePause, AfterCall, TypeOK, ledger, world, history
<1>7. CASE Crash
  <2>1. faults' \in 0..MaxFaults
    BY <1>7 DEF Crash, TypeOK
  <2> QED BY <1>7, <2>1 DEF Crash, TypeOK, ledger, world, history
<1>8. CASE Reevaluate \/ M2Changes
  <2>1. changes' \in 0..MaxChanges /\ m3' \in Snapshots
    BY <1>8 DEF Reevaluate, M2Changes, TypeOK
  <2>2. m2Frozen' \in BOOLEAN
    BY <1>8, Zenon DEF Reevaluate, M2Changes, TypeOK
  <2> QED BY <1>8, <2>1, <2>2 DEF Reevaluate, M2Changes, TypeOK, ledger, process, history
<1>9. CASE UNCHANGED vars
  BY <1>9 DEF vars, TypeOK, ledger, world, process, history
<1> QED BY <1>1, <1>2, <1>3, <1>4, <1>5, <1>6, <1>7, <1>8, <1>9 DEF Next, Stage

-----------------------------------------------------------------------------
(***************************************************************************)
(* What a step that touches none of it leaves alone.                       *)
(***************************************************************************)
\* The relations of the invariant, apart from the types.
Relations ==
    /\ MemoryFollowsFiles /\ RebindingIsClean /\ OnlyPollsWait /\ CurrentIsOpen /\ VisitsArePaid
    /\ OnlyBoundWork
    /\ WorkIsPublished \/ (file = Nobody /\ pc \in {"down", "resetting"})
    /\ AnswersAreStored /\ LedgerCovers /\ BoughtIsRecorded /\ PassesSettle

\* The step leaves the operations on file in their states, and what they are bound to.
SameWork ==
    /\ disk'.bound = disk.bound /\ disk'.selected = disk.selected /\ disk'.batch = disk.batch
    /\ \A o \in Op : disk'.ops[o].state = disk.ops[o].state

\* The step publishes nobody and hides nobody.
SameKnown == \A k \in Contacts : people'[k].known <=> people[k].known

\* The rank of a contact depends on who is published only.
LEMMA SameRank ==
    ASSUME SameKnown
    PROVE  \A k \in Contacts : Rank(k)' = Rank(k)
<1>1. ASSUME NEW k \in Contacts PROVE Rank(k)' = Rank(k)
  <2>1. {j \in Contacts : j < k /\ people'[j].known /\ CompanyOf[j] = CompanyOf[k]}
          = {j \in Contacts : j < k /\ people[j].known /\ CompanyOf[j] = CompanyOf[k]}
    BY DEF SameKnown
  <2> QED BY <2>1 DEF Rank
<1> QED BY <1>1

\* Who may be paid for depends on that and on the decisions.
LEMMA SamePaid ==
    ASSUME SameKnown, m3' = m3
    PROVE  Paid' = Paid /\ Accepted' = Accepted
<1>1. \A k \in Contacts : Rank(k)' = Rank(k)
  BY SameRank
<1> QED BY <1>1 DEF Paid, Accepted, SameKnown

\* The published work is as before if neither it nor the operations change.
LEMMA SamePublished ==
    ASSUME SameWork, SameKnown, file' = file, WorkIsPublished
    PROVE  WorkIsPublished'
<1>1. \A k \in Contacts : Rank(k)' = Rank(k)
  BY SameRank
<1>2. \A k \in Contacts : /\ Exa(CompanyOf[k]) \in Op /\ Apollo(k) \in Op /\ Instantly(k) \in Op
                         /\ Clay \in Op
  BY Identities
<1> HIDE DEF Rank
<1> QED BY <1>1, <1>2 DEF WorkIsPublished, ContactIsPublished, Worked, SameWork

\* Operations and contacts belong to the binding as before.
LEMMA SameBound ==
    ASSUME SameWork, file' = file, OnlyBoundWork
    PROVE  OnlyBoundWork'
<1>1. /\ \A c \in Companies : Exa(c) \in Op
      /\ \A k \in Contacts : Apollo(k) \in Op /\ Instantly(k) \in Op
  BY Identities
<1> QED BY <1>1 DEF OnlyBoundWork, SameWork

\* Nothing waits that did not.
LEMMA SameWaiting ==
    ASSUME SameWork, OnlyPollsWait
    PROVE  OnlyPollsWait'
  BY DEF OnlyPollsWait, SameWork

\* In-flight operations are those in that state.
LEMMA SameInFlight ==
    ASSUME TypeOK, TypeOK', SameWork
    PROVE  InFlight(disk'.ops) = InFlight(disk.ops) /\ Unfinished(disk)' = Unfinished(disk)
<1>1. disk.ops \in [Op -> Entry] /\ disk'.ops \in [Op -> Entry]
  BY CheckpointType DEF TypeOK
<1> QED BY <1>1 DEF SameWork, InFlight, Unfinished, WithState

\* The members of these sets, for any checkpoint.
LEMMA Members ==
    ASSUME NEW m \in Checkpoint
    PROVE  /\ \A o : o \in InFlight(m.ops) <=> o \in Op /\ m.ops[o].state = "in_flight"
           /\ \A o : o \in Unfinished(m) <=> o \in Op /\ m.ops[o].state \in {"in_flight", "pending"}
  BY CheckpointType DEF InFlight, Unfinished, WithState

-----------------------------------------------------------------------------
(***************************************************************************)
(* Steps that keep the relations: crashes, other commands and the pause.   *)
(***************************************************************************)
LEMMA InitRelations ==
    ASSUME Init
    PROVE  TypeOK /\ Relations
<1>1. \A o \in Op : disk.ops[o] = Absent /\ Absent.state = "none"
  BY DEF Init, Absent
<1>2. disk \in Checkpoint
  BY DEF Init, Checkpoint, Statuses, Reasons, Entry, OpStates, Absent
<1>3. TypeOK
  <2>1. usage \in [Provider -> Totals] /\ billed \in [Provider -> Nat]
    BY DEF Init, NoSpend, Totals
  <2>2. reads \in [Op -> Nat] /\ dispatched \in [Op -> Nat] /\ cur \in Op
    BY Identities DEF Init
  <2>3. faults \in 0..MaxFaults /\ changes \in 0..MaxChanges
    BY DEF Init
  <2> QED BY <1>2, <2>1, <2>2, <2>3, NobodyType DEF Init, TypeOK
<1>4. /\ \A c \in Companies : Exa(c) \in Op
      /\ \A k \in Contacts : Exa(CompanyOf[k]) \in Op /\ Apollo(k) \in Op /\ Instantly(k) \in Op
  BY Identities
<1>5. MemoryFollowsFiles /\ RebindingIsClean /\ CurrentIsOpen /\ VisitsArePaid
  BY DEF Init, MemoryFollowsFiles, RebindingIsClean, CurrentIsOpen, VisitsArePaid, Passing, Busy,
         Provider
<1>6. OnlyPollsWait
  BY <1>1 DEF OnlyPollsWait
<1>7. OnlyBoundWork
  BY <1>1, <1>4 DEF Init, OnlyBoundWork, Nobody
<1>8. file = Nobody /\ pc = "down"
  BY DEF Init
<1>9. AnswersAreStored /\ BoughtIsRecorded /\ PassesSettle
  BY DEF Init, AnswersAreStored, BoughtIsRecorded, PassesSettle, Passing, Busy, Provider
<1>10. LedgerCovers
  BY DEF Init, LedgerCovers, NoSpend
<1> QED BY <1>3, <1>5, <1>6, <1>7, <1>8, <1>9, <1>10 DEF Relations

\* What a crashed process held in memory was on file, but for a charge.
LEMMA CrashKeeps ==
    ASSUME TypeOK, TypeOK', Relations, Crash
    PROVE  Relations'
<1> USE DEF Relations
<1>1. /\ UNCHANGED <<disk, file, cur, usage, m3, bought, billed, charge, steady>>
      /\ pc # "down" /\ pc' = "down" /\ mem' = disk /\ people' = file /\ left' = {}
  BY DEF Crash, ledger, world, history
<1>2. SameWork /\ SameKnown
  BY <1>1 DEF SameWork, SameKnown, MemoryFollowsFiles
<1>3. MemoryFollowsFiles' /\ RebindingIsClean' /\ CurrentIsOpen' /\ VisitsArePaid'
  BY <1>1 DEF MemoryFollowsFiles, RebindingIsClean, CurrentIsOpen, VisitsArePaid, Passing, Busy, Provider
<1>4. OnlyPollsWait' /\ OnlyBoundWork'
  BY <1>1, <1>2, SameWaiting, SameBound
<1>5. WorkIsPublished' \/ (file' = Nobody /\ pc' = "down")
  BY <1>1, <1>2, SamePublished
<1>6. AnswersAreStored' /\ BoughtIsRecorded' /\ PassesSettle'
  BY <1>1 DEF AnswersAreStored, BoughtIsRecorded, PassesSettle, Passing, Busy, Provider
<1>7. LedgerCovers'
  BY <1>1 DEF LedgerCovers
<1> QED BY <1>3, <1>4, <1>5, <1>6, <1>7

\* Other commands reach the decisions and M2's checkpoint only.
LEMMA OutsideKeeps ==
    ASSUME TypeOK, TypeOK', Relations, Reevaluate \/ M2Changes \/ UNCHANGED vars
    PROVE  Relations'
<1> USE DEF Relations
<1>1. /\ UNCHANGED <<disk, mem, file, people, cur, usage, config, bought, billed, charge,
                     pc, left, answer, capHit>>
      /\ ~steady' \/ UNCHANGED <<m3, steady>>
  BY DEF Reevaluate, M2Changes, vars, ledger, world, process, history
<1>2. SameWork /\ SameKnown
  BY <1>1 DEF SameWork, SameKnown
<1>3. \A k \in Contacts : Rank(k)' = Rank(k)
  BY <1>2, SameRank
<1>4. Passing' = Passing /\ Busy' = Busy /\ Pass' = Pass
  BY <1>1 DEF Passing, Busy, Pass
<1>5. MemoryFollowsFiles' /\ RebindingIsClean' /\ CurrentIsOpen'
  BY <1>1, <1>4 DEF MemoryFollowsFiles, RebindingIsClean, CurrentIsOpen, Unfinished, WithState
<1>6. VisitsArePaid'
  BY <1>1, <1>3, <1>4 DEF VisitsArePaid
<1>7. OnlyPollsWait' /\ OnlyBoundWork'
  BY <1>1, <1>2, SameWaiting, SameBound
<1>8. WorkIsPublished' \/ (file' = Nobody /\ pc' \in {"down", "resetting"})
  BY <1>1, <1>2, SamePublished
<1>9. AnswersAreStored' /\ BoughtIsRecorded'
  BY <1>1, <1>4 DEF AnswersAreStored, BoughtIsRecorded
<1>10. LedgerCovers'
  BY <1>1 DEF LedgerCovers, Fits
<1>11. PassesSettle'
  <2>1. CASE ~steady'
    BY <2>1 DEF PassesSettle
  <2>2. CASE UNCHANGED <<m3, steady>>
    <3>1. Paid' = Paid /\ Accepted' = Accepted
      BY <1>2, <2>2, SamePaid
    <3>2. Unfinished(disk)' = Unfinished(disk)
      BY <1>2, SameInFlight
    <3> HIDE DEF Paid, Accepted, Unfinished
    <3> QED BY <1>1, <1>4, <2>2, <3>1, <3>2 DEF PassesSettle
  <2> QED BY <1>1, <2>1, <2>2
<1> QED BY <1>5, <1>6, <1>7, <1>8, <1>9, <1>10, <1>11

\* A pause that reports no completion, taken where no charge is pending.
LEMMA PauseKeeps ==
    ASSUME TypeOK, TypeOK', Relations,
           Passing, pc # "called", pc' = "pausing",
           UNCHANGED <<disk, file, people, cur, usage, m3, bought, billed, charge, steady>>,
           mem'.ops = disk.ops, mem'.batch = disk.batch, SameBinding(disk, mem'),
           mem'.status # "completed"
    PROVE  Relations'
<1> USE DEF Relations
<1>1. SameWork /\ SameKnown
  BY DEF SameWork, SameKnown
<1>2. ~Passing' /\ ~Busy' /\ pc # "pausing" /\ pc # "down" /\ pc # "resetting" /\ pc # "saving"
  BY DEF Passing, Busy, Provider
<1>3. MemoryFollowsFiles' /\ RebindingIsClean' /\ CurrentIsOpen' /\ VisitsArePaid'
  BY <1>2
  DEF MemoryFollowsFiles, RebindingIsClean, CurrentIsOpen, VisitsArePaid, SameBinding, Provider
<1>4. OnlyPollsWait' /\ OnlyBoundWork' /\ WorkIsPublished'
  BY <1>1, <1>2, SameWaiting, SameBound, SamePublished
<1>5. AnswersAreStored' /\ BoughtIsRecorded' /\ PassesSettle'
  BY <1>2 DEF AnswersAreStored, BoughtIsRecorded, PassesSettle
<1>6. LedgerCovers'
  BY <1>2 DEF LedgerCovers
<1> QED BY <1>3, <1>4, <1>5, <1>6

\* Publishing the contacts of a pause adds the verdict of a pending verification.
LEMMA PublishKeeps ==
    ASSUME TypeOK, TypeOK', Relations, PublishContacts
    PROVE  Relations'
<1> USE DEF Relations
<1>1. /\ pc = "pausing" /\ pc' = "saving" /\ file' = people
      /\ UNCHANGED <<disk, mem, people, cur, usage, m3, bought, billed, charge, steady>>
  BY DEF PublishContacts, AfterCall, ledger, world, history
<1>2. SameWork /\ SameKnown /\ ~Passing' /\ ~Busy'
  BY <1>1 DEF SameWork, SameKnown, Passing, Busy, Provider
<1>3. MemoryFollowsFiles' /\ RebindingIsClean' /\ CurrentIsOpen' /\ VisitsArePaid'
  BY <1>1, <1>2 DEF MemoryFollowsFiles, RebindingIsClean, CurrentIsOpen, VisitsArePaid, Provider
<1>4. \A k \in Contacts : Rank(k)' = Rank(k)
  BY <1>2, SameRank
<1>5. OnlyBoundWork'
  BY <1>1 DEF OnlyBoundWork, MemoryFollowsFiles
<1>6. WorkIsPublished'
  <2>1. \A k \in Contacts :
          /\ file'[k].known <=> file[k].known
          /\ file'[k].email <=> file[k].email
          /\ file'[k].clay <=> file[k].clay
          /\ file'[k].verdict # file[k].verdict => disk.ops[Instantly(k)].state = "pending"
    BY <1>1 DEF MemoryFollowsFiles
  <2>2. WorkIsPublished
    BY <1>1
  <2>3. \A k \in disk'.selected : file'[k].known
    BY <1>1, <2>1, <2>2, CheckpointType DEF WorkIsPublished, ContactIsPublished, Worked, TypeOK
  <2> HIDE DEF Rank
  <2> QED BY <1>1, <1>4, <2>1, <2>2, <2>3 DEF WorkIsPublished, ContactIsPublished, Worked
<1>7. OnlyPollsWait' /\ AnswersAreStored' /\ BoughtIsRecorded'
  BY <1>1, <1>2 DEF OnlyPollsWait, AnswersAreStored, BoughtIsRecorded
<1>8. LedgerCovers'
  BY <1>1 DEF LedgerCovers
<1>9. PassesSettle'
  <2>1. Paid' = Paid /\ Accepted' = Accepted
    BY <1>1, <1>2, SamePaid
  <2>2. Unfinished(disk)' = Unfinished(disk)
    BY <1>2, SameInFlight
  <2> HIDE DEF Paid, Accepted, Unfinished
  <2> QED BY <1>1, <1>2, <2>1, <2>2 DEF PassesSettle
<1> QED BY <1>3, <1>5, <1>6, <1>7, <1>8, <1>9

\* The save of a pause writes a status and a reason.
LEMMA SaveKeeps ==
    ASSUME TypeOK, TypeOK', Relations, SavePause
    PROVE  Relations'
<1> USE DEF Relations
<1>1. /\ pc = "saving" /\ pc' = "down" /\ disk' = mem
      /\ UNCHANGED <<file, mem, people, cur, usage, m3, bought, billed, charge, steady>>
  BY DEF SavePause, ledger, world, history
<1>2. SameWork /\ SameKnown /\ disk'.ops = disk.ops /\ ~Passing' /\ ~Busy'
  BY <1>1 DEF SameWork, SameKnown, MemoryFollowsFiles, Passing, Busy, Provider
<1>3. MemoryFollowsFiles' /\ RebindingIsClean' /\ CurrentIsOpen' /\ VisitsArePaid'
  BY <1>1, <1>2 DEF MemoryFollowsFiles, RebindingIsClean, CurrentIsOpen, VisitsArePaid, Provider
<1>4. OnlyPollsWait' /\ OnlyBoundWork' /\ WorkIsPublished'
  BY <1>1, <1>2, SameWaiting, SameBound, SamePublished
<1>5. AnswersAreStored' /\ BoughtIsRecorded' /\ PassesSettle'
  BY <1>1, <1>2 DEF AnswersAreStored, BoughtIsRecorded, PassesSettle
<1>6. LedgerCovers'
  BY <1>1, <1>2 DEF LedgerCovers
<1> QED BY <1>3, <1>4, <1>5, <1>6

-----------------------------------------------------------------------------
(***************************************************************************)
(* Steps that keep the relations: starting.                                *)
(***************************************************************************)
\* What is loaded refers to published contacts.
LEMMA LoadedIsPublished ==
    ASSUME TypeOK, Relations, pc = "down", Loadable(disk, file)
    PROVE  WorkIsPublished
<1>1. CASE file = Nobody
  <2>1. \A k \in Contacts : ~file[k].known /\ ~file[k].email /\ ~file[k].clay
                            /\ file[k].verdict = "none"
    BY <1>1 DEF Nobody
  <2>2. \A k \in Contacts :
          k \notin disk.selected /\ k \notin disk.batch
          /\ disk.ops[Apollo(k)] = Absent /\ disk.ops[Instantly(k)] = Absent
    BY <2>1 DEF Loadable, ReferencesHold
  <2>3. disk.selected \subseteq Contacts
    BY CheckpointType DEF TypeOK
  <2>4. \A k \in Contacts :
          disk.ops[Apollo(k)].state = "none" /\ disk.ops[Instantly(k)].state = "none"
    <3>1. Absent.state = "none"
      BY DEF Absent
    <3> QED BY <2>2, <3>1
  <2>5. \A k \in disk.selected : FALSE
    BY <2>2, <2>3
  <2> QED BY <2>1, <2>2, <2>4, <2>5 DEF WorkIsPublished, ContactIsPublished, Worked
<1> QED BY <1>1 DEF Relations

\* Being frozen by M2 changes the pause reason only.
LEMMA FrozenKeeps ==
    ASSUME TypeOK, TypeOK', Relations, NEW cfg \in Configs, StartFrozen(cfg)
    PROVE  Relations'
<1> USE DEF Relations
<1>1. /\ pc = "down" /\ pc' = "pausing" /\ people' = file /\ Loadable(disk, file)
      /\ UNCHANGED <<disk, file, cur, usage, m3, bought, billed, charge>>
  BY DEF StartFrozen, Load, Pause, ledger, world
<1>2. /\ mem'.ops = disk.ops /\ mem'.batch = disk.batch /\ SameBinding(disk, mem')
      /\ mem'.status = "paused_unknown"
  BY PauseWrites DEF StartFrozen, Statuses, Reasons, TypeOK
<1>3. SameWork /\ SameKnown /\ ~Passing' /\ ~Busy'
  BY <1>1 DEF SameWork, SameKnown, MemoryFollowsFiles, Passing, Busy, Provider
<1>4. MemoryFollowsFiles' /\ RebindingIsClean' /\ CurrentIsOpen' /\ VisitsArePaid'
  BY <1>1, <1>2, <1>3
  DEF MemoryFollowsFiles, RebindingIsClean, CurrentIsOpen, VisitsArePaid, SameBinding, Provider
<1>5. OnlyPollsWait' /\ OnlyBoundWork' /\ WorkIsPublished'
  BY <1>1, <1>3, SameWaiting, SameBound, LoadedIsPublished, SamePublished
<1>6. AnswersAreStored' /\ BoughtIsRecorded' /\ PassesSettle'
  BY <1>1, <1>2, <1>3 DEF AnswersAreStored, BoughtIsRecorded, PassesSettle
<1>7. LedgerCovers'
  BY <1>1 DEF LedgerCovers
<1> QED BY <1>4, <1>5, <1>6, <1>7

\* A rebinding empties the contacts and prepares an empty checkpoint.
LEMMA ResetKeeps ==
    ASSUME TypeOK, TypeOK', Relations, NEW cfg \in Configs, Reset(cfg)
    PROVE  Relations'
<1> USE DEF Relations
<1>1. /\ pc = "down" /\ pc' = "resetting" /\ people' = Nobody /\ file' = Nobody
      /\ Unfinished(disk) = {}
      /\ UNCHANGED <<disk, cur, usage, m3, bought, billed, charge>>
  BY DEF Reset, Load, ledger, world
<1>2. /\ mem'.bound = m3 /\ mem'.selected = {} /\ mem'.batch = {} /\ mem'.status = "running"
      /\ \A o \in Op : mem'.ops[o] = Absent
  BY DEF Reset
<1>3. SameWork /\ ~Passing' /\ ~Busy' /\ Unfinished(disk)' = Unfinished(disk)
  BY <1>1 DEF SameWork, Passing, Busy, Provider, Unfinished, WithState
<1>4. MemoryFollowsFiles'
  BY <1>1, <1>3 DEF MemoryFollowsFiles
<1>5. RebindingIsClean'
  BY <1>1, <1>2, <1>3 DEF RebindingIsClean, TypeOK
<1>6. CurrentIsOpen' /\ VisitsArePaid'
  BY <1>1, <1>3 DEF CurrentIsOpen, VisitsArePaid, Provider
<1>7. OnlyPollsWait'
  BY <1>3, SameWaiting
<1>8. OnlyBoundWork'
  BY <1>1 DEF OnlyBoundWork, Nobody
<1>9. AnswersAreStored' /\ BoughtIsRecorded'
  BY <1>1, <1>3 DEF AnswersAreStored, BoughtIsRecorded
<1>10. PassesSettle'
  BY <1>1, <1>2, <1>3 DEF PassesSettle
<1>11. charge = 0
  BY <1>1, Members DEF LedgerCovers, TypeOK
<1>12. LedgerCovers'
  BY <1>1, <1>11 DEF LedgerCovers
<1> QED BY <1>1, <1>4, <1>5, <1>6, <1>7, <1>8, <1>9, <1>10, <1>12

\* The empty binding is saved.
LEMMA SaveResetKeeps ==
    ASSUME TypeOK, TypeOK', Relations, SaveReset
    PROVE  Relations'
<1> USE DEF Relations
<1>1. /\ pc = "resetting" /\ pc' = "exa" /\ disk' = mem /\ left' = AcceptedIn[mem.bound]
      /\ bought' = {} /\ file = Nobody /\ people = Nobody
      /\ UNCHANGED <<mem, file, people, cur, usage, m3, billed, charge, steady, config>>
  BY DEF SaveReset, RebindingIsClean, MemoryFollowsFiles, ledger, world
<1>2. /\ disk'.bound \in Snapshots /\ disk'.selected = {} /\ disk'.batch = {}
      /\ \A o \in Op : disk'.ops[o].state = "none"
  BY <1>1 DEF RebindingIsClean, Absent
<1>3. Passing' /\ ~Busy' /\ Pass' = "exa" /\ InFlight(disk'.ops) = {}
  <2>1. Passing' /\ ~Busy' /\ Pass' = "exa"
    BY <1>1 DEF Passing, Busy, Provider, Pass
  <2>2. \A o : o \in InFlight(disk'.ops) => o \in Op /\ disk'.ops[o].state = "in_flight"
    BY Members DEF TypeOK
  <2> QED BY <1>2, <2>1, <2>2
<1>4. \A k \in Contacts : ~file'[k].known /\ ~file'[k].email /\ ~file'[k].clay
                          /\ file'[k].verdict = "none"
  BY <1>1 DEF Nobody
<1>5. MemoryFollowsFiles' /\ RebindingIsClean' /\ CurrentIsOpen'
  BY <1>1, <1>2, <1>3 DEF MemoryFollowsFiles, RebindingIsClean, CurrentIsOpen
<1>6. VisitsArePaid'
  BY <1>1, <1>3 DEF VisitsArePaid
<1>7. OnlyPollsWait'
  BY <1>2 DEF OnlyPollsWait
<1>8. \A k \in Contacts : Exa(CompanyOf[k]) \in Op /\ Apollo(k) \in Op /\ Instantly(k) \in Op
  BY Identities
<1>9. OnlyBoundWork' /\ WorkIsPublished'
  <2>1. \A c \in Companies : Exa(c) \in Op
    BY Identities
  <2>2. OnlyBoundWork'
    BY <1>2, <1>4, <1>8, <2>1 DEF OnlyBoundWork
  <2>3. WorkIsPublished'
    BY <1>2, <1>4, <1>8 DEF WorkIsPublished, ContactIsPublished, Worked
  <2> QED BY <2>2, <2>3
<1>10. AnswersAreStored' /\ BoughtIsRecorded'
  BY <1>1, <1>3 DEF AnswersAreStored, BoughtIsRecorded
<1>11. PassesSettle'
  BY <1>1, <1>3 DEF PassesSettle, Accepted
<1>12. charge = 0
  BY <1>1 DEF LedgerCovers
<1>13. LedgerCovers'
  BY <1>1, <1>12 DEF LedgerCovers
<1> QED BY <1>5, <1>6, <1>7, <1>9, <1>10, <1>11, <1>13

\* A rerun goes through the passes again, or pauses on an unknown outcome.
LEMMA ResumeKeeps ==
    ASSUME TypeOK, TypeOK', Relations, NEW cfg \in Configs, Resume(cfg)
    PROVE  Relations'
<1> USE DEF Relations
<1>1. /\ pc = "down" /\ people' = file /\ Loadable(disk, file) /\ disk.bound = m3
      /\ mem = disk /\ people = file
      /\ UNCHANGED <<disk, file, cur, usage, m3, bought, billed, charge>>
  BY DEF Resume, Load, ledger, world, MemoryFollowsFiles
<1>2. SameWork /\ SameKnown /\ WorkIsPublished
  BY <1>1, LoadedIsPublished DEF SameWork, SameKnown
<1>3. OnlyPollsWait' /\ OnlyBoundWork' /\ WorkIsPublished'
  BY <1>1, <1>2, SameWaiting, SameBound, SamePublished
<1>4. CASE InFlight(disk.ops) = {}
  <2>1. mem' = disk /\ pc' = "exa" /\ left' = Accepted
    BY <1>4 DEF Resume
  <2>2. Passing' /\ ~Busy' /\ Pass' = "exa" /\ InFlight(disk'.ops) = {}
    BY <1>1, <1>4, <2>1 DEF Passing, Busy, Provider, Pass
  <2>3. MemoryFollowsFiles' /\ RebindingIsClean' /\ CurrentIsOpen' /\ VisitsArePaid'
    BY <1>1, <2>1, <2>2
    DEF MemoryFollowsFiles, RebindingIsClean, CurrentIsOpen, VisitsArePaid, Accepted, TypeOK
  <2>4. AnswersAreStored' /\ BoughtIsRecorded'
    BY <1>1, <2>1, <2>2 DEF AnswersAreStored, BoughtIsRecorded
  <2>5. PassesSettle'
    BY <1>1, <2>1, <2>2 DEF PassesSettle, Accepted
  <2>6. charge = 0
    BY <1>4, Members DEF LedgerCovers, TypeOK
  <2>7. LedgerCovers'
    BY <1>1, <2>1, <2>6 DEF LedgerCovers
  <2> QED BY <1>3, <2>3, <2>4, <2>5, <2>7
<1>5. CASE InFlight(disk.ops) # {}
  <2> DEFINE o == CHOOSE o \in InFlight(disk.ops) : TRUE
             r == IF o = Clay THEN <<"clay_start_unknown">> ELSE o
  <2>1. o \in InFlight(disk.ops) /\ disk \in Checkpoint
    BY <1>5 DEF TypeOK
  <2>2. r \in Reasons
    BY <2>1, Members DEF Reasons
  <2>3. Pause(disk, "paused_unknown", r)
    BY <1>5 DEF Resume
  <2> HIDE DEF o, r
  <2>4. /\ mem'.ops = disk.ops /\ mem'.batch = disk.batch /\ SameBinding(disk, mem')
        /\ mem'.status = "paused_unknown" /\ pc' = "pausing"
    BY <2>1, <2>2, <2>3, PauseWrites DEF Statuses
  <2>5. ~Passing' /\ ~Busy'
    BY <2>4 DEF Passing, Busy, Provider
  <2>6. MemoryFollowsFiles' /\ RebindingIsClean' /\ CurrentIsOpen' /\ VisitsArePaid'
    BY <1>1, <2>4, <2>5
    DEF MemoryFollowsFiles, RebindingIsClean, CurrentIsOpen, VisitsArePaid, SameBinding, Provider
  <2>7. AnswersAreStored' /\ BoughtIsRecorded' /\ PassesSettle'
    BY <1>1, <2>4, <2>5 DEF AnswersAreStored, BoughtIsRecorded, PassesSettle
  <2>8. LedgerCovers'
    BY <1>1, <2>4 DEF LedgerCovers
  <2> QED BY <1>3, <2>6, <2>7, <2>8
<1> QED BY <1>4, <1>5

-----------------------------------------------------------------------------
(***************************************************************************)
(* Steps that keep the relations: the passes.                              *)
(***************************************************************************)
\* Moving on within a pass or to another one reaches left, capHit and pc only.
BetweenPasses ==
    /\ pc \in Provider /\ pc' \in Provider
    /\ UNCHANGED <<disk, mem, file, people, cur, usage, config, m3, bought, billed, charge, steady>>

LEMMA BetweenKeeps ==
    ASSUME TypeOK, TypeOK', Relations, BetweenPasses
    PROVE  /\ MemoryFollowsFiles' /\ RebindingIsClean' /\ OnlyPollsWait' /\ CurrentIsOpen'
           /\ OnlyBoundWork' /\ WorkIsPublished' /\ AnswersAreStored' /\ LedgerCovers'
           /\ BoughtIsRecorded'
           /\ Passing /\ Passing' /\ ~Busy /\ ~Busy' /\ Pass = pc /\ Pass' = pc'
           /\ SameKnown
<1> USE DEF Relations, BetweenPasses
<1>1. SameWork /\ SameKnown
  BY DEF SameWork, SameKnown
<1>2. Passing /\ Passing' /\ ~Busy /\ ~Busy' /\ Pass = pc /\ Pass' = pc'
  BY DEF Passing, Busy, Pass, Provider
<1>3. MemoryFollowsFiles' /\ RebindingIsClean' /\ CurrentIsOpen'
  BY <1>2 DEF MemoryFollowsFiles, RebindingIsClean, CurrentIsOpen, Provider
<1>4. OnlyPollsWait' /\ OnlyBoundWork' /\ WorkIsPublished'
  BY <1>1, SameWaiting, SameBound, SamePublished DEF Provider
<1>5. AnswersAreStored' /\ BoughtIsRecorded' /\ LedgerCovers'
  BY <1>2 DEF AnswersAreStored, BoughtIsRecorded, LedgerCovers, Provider
<1> QED BY <1>1, <1>2, <1>3, <1>4, <1>5

\* A pass leaves out what it need not visit.
LEMMA SkipKeeps ==
    ASSUME TypeOK, TypeOK', Relations, BetweenOps, Skip, NEW x \in left, x = First(left),
           pc \in {"exa", "apollo", "instantly"},
           pc = "exa" /\ x \in Accepted => disk.ops[Exa(x)].state = "completed",
           pc = "apollo" /\ x \in Paid /\ people[x].clay =>
             people[x].email \/ disk.ops[Apollo(x)].state = "completed",
           pc = "instantly" /\ x \in Paid /\ people[x].email =>
             disk.ops[Instantly(x)].state = "completed"
    PROVE  Relations'
<1>1. BetweenPasses /\ pc' = pc /\ left' = left \ {x} /\ capHit' = capHit
  BY DEF BetweenPasses, BetweenOps, Skip, ledger, world, history, Provider
<1>2. /\ MemoryFollowsFiles' /\ RebindingIsClean' /\ OnlyPollsWait' /\ CurrentIsOpen'
      /\ OnlyBoundWork' /\ WorkIsPublished' /\ AnswersAreStored' /\ LedgerCovers'
      /\ BoughtIsRecorded'
      /\ Passing /\ Passing' /\ ~Busy /\ ~Busy' /\ Pass = pc /\ Pass' = pc'
      /\ SameKnown
  BY <1>1, BetweenKeeps
<1>3. VisitsArePaid'
  <2>1. \A k \in Contacts : Rank(k)' = Rank(k)
    BY <1>2, SameRank
  <2> HIDE DEF Rank
  <2> QED BY <1>1, <1>2, <2>1 DEF VisitsArePaid, BetweenPasses, Relations
<1>4. PassesSettle'
  <2>1. Paid' = Paid /\ Accepted' = Accepted
    BY <1>1, <1>2, SamePaid DEF BetweenPasses
  <2> HIDE DEF Paid, Accepted
  <2> QED BY <1>1, <1>2, <2>1 DEF PassesSettle, BetweenPasses, Relations, Provider
<1> QED BY <1>2, <1>3, <1>4 DEF Relations

\* A pass ends when it has visited everything.
LEMMA EnterKeeps ==
    ASSUME TypeOK, TypeOK', Relations, EnterClay \/ EnterApollo \/ EnterInstantly
    PROVE  Relations'
<1>1. /\ BetweenPasses /\ left' = Paid
      /\ \/ pc = "exa" /\ left = {} /\ pc' = "clay"
         \/ /\ pc = "clay" /\ pc' = "apollo" /\ capHit' = \E k \in Paid : ~people[k].clay
            /\ disk.ops[Clay].state # "pending"
         \/ pc = "apollo" /\ left = {} /\ pc' = "instantly" /\ capHit' = capHit
  BY DEF BetweenPasses, BetweenOps, EnterClay, EnterApollo, EnterInstantly, ledger, world, history,
         Provider, Relations, MemoryFollowsFiles
<1>2. /\ MemoryFollowsFiles' /\ RebindingIsClean' /\ OnlyPollsWait' /\ CurrentIsOpen'
      /\ OnlyBoundWork' /\ WorkIsPublished' /\ AnswersAreStored' /\ LedgerCovers'
      /\ BoughtIsRecorded'
      /\ Passing /\ Passing' /\ ~Busy /\ ~Busy' /\ Pass = pc /\ Pass' = pc'
      /\ SameKnown
  BY <1>1, BetweenKeeps
<1>3. VisitsArePaid'
  <2>1. \A k \in Contacts : Rank(k)' = Rank(k)
    BY <1>2, SameRank
  <2>2. \A k \in Paid : k \in Contacts /\ people[k].known /\ Rank(k) < MaxPaid
    BY DEF Paid
  <2> HIDE DEF Rank, Paid
  <2> QED BY <1>1, <1>2, <2>1, <2>2 DEF VisitsArePaid, BetweenPasses
<1>4. PassesSettle'
  <2>1. Paid' = Paid /\ Accepted' = Accepted
    BY <1>1, <1>2, SamePaid DEF BetweenPasses
  <2> HIDE DEF Paid, Accepted
  <2>2. CASE pc = "exa"
    BY <1>1, <1>2, <2>1, <2>2 DEF PassesSettle, BetweenPasses, Relations
  <2>3. CASE pc = "clay"
    BY <1>1, <1>2, <2>1, <2>3 DEF PassesSettle, BetweenPasses, Relations
  <2>4. CASE pc = "apollo"
    BY <1>1, <1>2, <2>1, <2>4 DEF PassesSettle, BetweenPasses, Relations
  <2> QED BY <1>1, <2>2, <2>3, <2>4
<1> QED BY <1>2, <1>3, <1>4 DEF Relations

\* An intent is opened for something the pass was to visit.
LEMMA BeginKeeps ==
    ASSUME TypeOK, TypeOK', Relations, BetweenOps, UNCHANGED left,
           NEW o \in Op, NEW batch \in SUBSET Contacts, Begin(o, batch),
           pc = ProviderOf[o], disk.ops[o].state \notin {"completed", "pending"},
           ProviderOf[o] = "exa" => o[2] \in left,
           ProviderOf[o] = "apollo" => o[2] \in left /\ ~people[o[2]].email,
           ProviderOf[o] = "instantly" => o[2] \in left /\ people[o[2]].email,
           IF o = Clay THEN batch \subseteq left
           ELSE batch = disk.batch /\ Fits(ProviderOf[o])
    PROVE  Relations'
<1> USE DEF Relations
<1>1. /\ UNCHANGED <<file, people, usage, m3, capHit, config, bought, billed, charge, steady, left>>
      /\ pc \in Provider /\ ProviderOf[o] \in Provider
  BY Kinds DEF BetweenOps, ledger, world, history
<1>2. mem = disk /\ people = file /\ Passing /\ ~Busy /\ Pass = pc
  BY <1>1 DEF MemoryFollowsFiles, Passing, Busy, Pass, Provider
<1>3. /\ mem' \in Checkpoint /\ disk' = mem' /\ Moved(disk.ops, disk'.ops, o, "in_flight")
      /\ disk'.batch = batch /\ SameBinding(disk, disk')
      /\ cur' = o /\ pc' = "begun"
  BY <1>2, BeginWrites DEF TypeOK
<1>4. Passing' /\ Busy' /\ Pass' = Pass
  BY <1>2, <1>3 DEF Passing, Busy, Pass
<1>5. InFlight(disk.ops) = {} /\ disk.ops[o].state = "none"
  <2>1. InFlight(disk.ops) = {}
    BY <1>1 DEF CurrentIsOpen
  <2>2. disk.ops[o].state # "in_flight" /\ disk.ops[o].state \in OpStates
    BY <2>1, Members, CheckpointType DEF TypeOK
  <2> QED BY <2>1, <2>2 DEF OnlyPollsWait, OpStates
<1>6. InFlight(disk'.ops) \subseteq {o}
  <2>1. \A q \in InFlight(disk'.ops) : q \in Op /\ disk'.ops[q].state = "in_flight"
    BY <1>3, Members
  <2>2. \A q \in Op : disk.ops[q].state # "in_flight"
    BY <1>5, Members DEF TypeOK
  <2> QED BY <1>3, <2>1, <2>2 DEF Moved
<1>7. SameKnown /\ \A k \in Contacts : Rank(k)' = Rank(k)
  <2>1. SameKnown
    BY <1>1 DEF SameKnown
  <2> QED BY <2>1, SameRank
<1>8. /\ \A c \in Companies : Exa(c) \in Op
      /\ \A k \in Contacts : /\ Apollo(k) \in Op /\ Instantly(k) \in Op
                             /\ CompanyOf[k] \in Companies
      /\ Clay \in Op
  BY Identities
<1>9. MemoryFollowsFiles' /\ RebindingIsClean'
  BY <1>1, <1>2, <1>3 DEF MemoryFollowsFiles, RebindingIsClean
<1>10. OnlyPollsWait'
  BY <1>3 DEF OnlyPollsWait, Moved
<1>11. CurrentIsOpen'
  BY <1>2, <1>3, <1>4, <1>6 DEF CurrentIsOpen, Moved, SameBinding, Provider
<1>12. VisitsArePaid'
  <2> HIDE DEF Rank
  <2> QED BY <1>1, <1>2, <1>3, <1>4, <1>7 DEF VisitsArePaid, SameBinding
<1>13. \A k \in batch :
          \/ /\ file[k].known /\ Rank(k) < MaxPaid
             /\ disk.ops[Exa(CompanyOf[k])].state = "completed"
          \/ k \in disk.batch /\ o # Clay
  <2>1. CASE o # Clay
    BY <2>1
  <2>2. CASE o = Clay
    <3>1. \A k \in batch : k \in Contacts /\ people[k].known /\ Rank(k) < MaxPaid
      BY <1>2, <2>2, Identities DEF VisitsArePaid
    <3>2. \A c \in Companies : disk.ops[Exa(c)].state \in {"none", "completed"}
      <4> TAKE c \in Companies
      <4>1. Exa(c) \in Op /\ disk.ops[Exa(c)].state \in OpStates
        BY <1>8, CheckpointType DEF TypeOK
      <4>2. disk.ops[Exa(c)].state \notin {"in_flight", "pending", "failed"}
        BY <1>5, <4>1, Members, Identities DEF OnlyPollsWait, TypeOK
      <4> QED BY <4>1, <4>2 DEF OpStates
    <3>3. WorkIsPublished
      BY <1>1 DEF Provider
    <3> HIDE DEF Rank
    <3> QED BY <1>2, <1>8, <3>1, <3>2, <3>3 DEF WorkIsPublished, ContactIsPublished, Worked
  <2> QED BY <2>1, <2>2
<1>14. OnlyBoundWork'
  <2>1. /\ \A c \in Companies :
             disk'.ops[Exa(c)].state # "none" => disk.ops[Exa(c)].state # "none" \/ o = Exa(c)
        /\ \A k \in Contacts :
             /\ disk'.ops[Apollo(k)].state # "none" =>
                  disk.ops[Apollo(k)].state # "none" \/ o = Apollo(k)
             /\ disk'.ops[Instantly(k)].state # "none" =>
                  disk.ops[Instantly(k)].state # "none" \/ o = Instantly(k)
    BY <1>3, <1>8 DEF Moved
  <2>2. disk.bound \in Snapshots /\ disk.bound # NoSnapshot /\ disk'.bound = disk.bound
    BY <1>2, <1>3 DEF CurrentIsOpen, SameBinding
  <2>3. \A c \in Companies : o = Exa(c) => c \in AcceptedIn[disk.bound]
    <3> TAKE c \in Companies
    <3> HAVE o = Exa(c)
    <3>1. ProviderOf[o] = "exa" /\ o[2] = c
      BY Identities
    <3> QED BY <1>2, <3>1 DEF VisitsArePaid
  <2>4. \A k \in Contacts : k \in batch \/ o = Apollo(k) \/ o = Instantly(k) =>
          file[k].known \/ k \in disk.batch
    <3> TAKE k \in Contacts
    <3>1. CASE o = Apollo(k) \/ o = Instantly(k)
      <4>1. ProviderOf[o] \in {"apollo", "instantly"} /\ o[2] = k
        BY <3>1, Identities
      <4>2. k \in left
        BY <4>1
      <4> QED BY <1>2, <4>1, <4>2 DEF VisitsArePaid
    <3> QED BY <1>13, <3>1
  <2> QED BY <1>1, <1>3, <2>1, <2>2, <2>3, <2>4 DEF OnlyBoundWork
<1>15. WorkIsPublished'
  <2>0. WorkIsPublished
    BY <1>1 DEF Provider
  <2>1. \A k \in Contacts :
          o = Apollo(k) \/ o = Instantly(k) => k \in left /\ file[k].known /\ Rank(k) < MaxPaid
    <3> TAKE k \in Contacts
    <3> HAVE o = Apollo(k) \/ o = Instantly(k)
    <3>1. ProviderOf[o] \in {"apollo", "instantly"} /\ o[2] = k
      BY Identities
    <3>2. k \in left /\ pc # "exa"
      BY <3>1
    <3> HIDE DEF Rank
    <3> QED BY <1>2, <3>2 DEF VisitsArePaid
  <2>2. \A k \in Contacts :
          o = Apollo(k) \/ o = Instantly(k) => disk.ops[Exa(CompanyOf[k])].state = "completed"
    <3> TAKE k \in Contacts
    <3> HAVE o = Apollo(k) \/ o = Instantly(k)
    <3>1. disk.ops[Exa(CompanyOf[k])].state # "none"
      BY <2>0, <2>1 DEF WorkIsPublished, ContactIsPublished, Worked
    <3>2. Exa(CompanyOf[k]) \in Op /\ ProviderOf[Exa(CompanyOf[k])] = "exa"
      <4>1. CompanyOf[k] \in Companies
        OBVIOUS
      <4> QED BY <4>1, Identities
    <3>3. disk.ops[Exa(CompanyOf[k])].state \in OpStates
      BY <3>2, CheckpointType DEF TypeOK
    <3>4. disk.ops[Exa(CompanyOf[k])].state \notin {"in_flight", "pending", "failed"}
      BY <1>5, <3>2, Members DEF OnlyPollsWait, TypeOK
    <3> QED BY <3>1, <3>3, <3>4 DEF OpStates
  <2>3. \A k \in disk'.selected : file'[k].known
    BY <1>1, <1>3, <2>0 DEF WorkIsPublished, ContactIsPublished, Worked, SameBinding
  <2>4. \A k \in Contacts :
          /\ \/ disk'.ops[Exa(CompanyOf[k])].state = disk.ops[Exa(CompanyOf[k])].state
             \/ /\ disk.ops[Exa(CompanyOf[k])].state = "none"
                /\ disk'.ops[Exa(CompanyOf[k])].state = "in_flight"
          /\ disk'.ops[Apollo(k)].state # "none" =>
               disk.ops[Apollo(k)].state # "none" \/ o = Apollo(k)
          /\ disk'.ops[Instantly(k)].state # "none" =>
               disk.ops[Instantly(k)].state # "none" \/ o = Instantly(k)
          /\ disk'.ops[Instantly(k)].state = "completed" =>
               disk.ops[Instantly(k)].state = "completed"
          /\ disk'.ops[Clay].state = "completed" => disk.ops[Clay].state = "completed" /\ o # Clay
    BY <1>3, <1>5, <1>8 DEF Moved
  <2>5. \A k \in Contacts : o = Instantly(k) => file[k].email
    <3> TAKE k \in Contacts
    <3> HAVE o = Instantly(k)
    <3>1. ProviderOf[o] = "instantly" /\ o[2] = k
      BY Identities
    <3> QED BY <1>2, <3>1
  <2> HIDE DEF Rank
  <2>6. ASSUME NEW k \in Contacts
        PROVE  ContactIsPublished(k)'
    <3>1. ContactIsPublished(k)
      BY <2>0 DEF WorkIsPublished
    <3>2. k \in disk'.batch =>
            \/ /\ file[k].known /\ Rank(k) < MaxPaid
               /\ disk.ops[Exa(CompanyOf[k])].state = "completed"
            \/ k \in disk.batch /\ o # Clay
      BY <1>3, <1>13
    <3>3. /\ disk'.ops[Apollo(k)].state # "none" =>
               disk.ops[Apollo(k)].state # "none" \/ o = Apollo(k)
          /\ disk'.ops[Instantly(k)].state # "none" =>
               disk.ops[Instantly(k)].state # "none" \/ o = Instantly(k)
      BY <2>4
    <3>4. o = Apollo(k) \/ o = Instantly(k) =>
            /\ file[k].known /\ Rank(k) < MaxPaid
            /\ disk.ops[Exa(CompanyOf[k])].state = "completed"
      BY <2>1, <2>2
    <3>5. Worked(k)' => /\ file[k].known /\ Rank(k) < MaxPaid
                        /\ disk.ops[Exa(CompanyOf[k])].state = "completed"
      BY <3>1, <3>2, <3>3, <3>4 DEF ContactIsPublished, Worked
    <3>6. k \in disk'.batch /\ disk'.ops[Clay].state = "completed" => file[k].clay
      <4>1. o # Clay => batch = disk.batch
        OBVIOUS
      <4> QED BY <1>3, <2>4, <3>1, <4>1 DEF ContactIsPublished
    <3>7. /\ disk'.ops[Instantly(k)].state # "none" => file[k].email
          /\ disk'.ops[Instantly(k)].state = "completed" => file[k].verdict = "settled"
      BY <2>4, <2>5, <3>1 DEF ContactIsPublished
    <3> HIDE DEF Worked
    <3> QED BY <1>1, <1>7, <2>4, <3>1, <3>5, <3>6, <3>7 DEF ContactIsPublished
  <2> QED BY <2>3, <2>6 DEF WorkIsPublished
<1>16. AnswersAreStored'
  BY <1>1, <1>2, <1>3, Identities DEF AnswersAreStored
<1>17. charge = 0
  BY <1>1 DEF LedgerCovers, Provider
<1>18. LedgerCovers'
  BY <1>1, <1>3, <1>17 DEF LedgerCovers, Fits
<1>19. BoughtIsRecorded'
  <2>1. bought \subseteq Op
    BY DEF TypeOK
  <2> QED BY <1>1, <1>3, <1>5, <2>1 DEF BoughtIsRecorded, Moved
<1>20. PassesSettle'
  <2>1. Paid' = Paid /\ Accepted' = Accepted
    BY <1>1, <1>7, SamePaid
  <2>2. \A q \in Op : /\ disk.ops[q].state = "completed" => disk'.ops[q].state = "completed"
                      /\ disk'.ops[q].state = "pending" => disk.ops[q].state = "pending"
    BY <1>3, <1>5 DEF Moved
  <2>3. \A k \in Paid : k \in Contacts
    BY DEF Paid
  <2>4. \A c \in Accepted : c \in Companies
    BY DEF Accepted, TypeOK
  <2>5. pc' \notin {"pausing", "saving", "resetting"} /\ disk'.bound = disk.bound
    BY <1>3 DEF SameBinding
  <2> HIDE DEF Paid, Accepted
  <2> QED BY <1>1, <1>2, <1>4, <1>8, <2>1, <2>2, <2>3, <2>4, <2>5 DEF PassesSettle
<1> QED BY <1>9, <1>10, <1>11, <1>12, <1>14, <1>15, <1>16, <1>18, <1>19, <1>20

\* A status read is admitted for what waits.
LEMMA AdmitKeeps ==
    ASSUME TypeOK, TypeOK', Relations, BetweenOps, UNCHANGED left,
           NEW o \in Op, AdmitRead(o), pc = ProviderOf[o], disk.ops[o].state = "pending"
    PROVE  Relations'
<1> USE DEF Relations
<1>1. /\ UNCHANGED <<file, people, usage, m3, capHit, config, bought, billed, charge, steady, left>>
      /\ pc \in Provider /\ ProviderOf[o] \in Provider
  BY Kinds DEF BetweenOps, ledger, world, history
<1>2. mem = disk /\ people = file /\ Passing /\ ~Busy /\ Pass = pc
  BY <1>1 DEF MemoryFollowsFiles, Passing, Busy, Pass, Provider
<1>3. /\ mem' \in Checkpoint /\ disk' = mem' /\ SameWork /\ cur' = o /\ pc' = "begun"
  BY <1>2, AdmitWrites DEF TypeOK, SameBinding, SameWork
<1>4. Passing' /\ Busy' /\ Pass' = Pass
  BY <1>2, <1>3 DEF Passing, Busy, Pass
<1>5. InFlight(disk'.ops) = {} /\ Unfinished(disk)' = Unfinished(disk)
  <2>1. InFlight(disk.ops) = {}
    BY <1>1 DEF CurrentIsOpen
  <2> QED BY <1>3, <2>1, SameInFlight
<1>6. SameKnown
  BY <1>1 DEF SameKnown
<1>7. MemoryFollowsFiles' /\ RebindingIsClean'
  BY <1>1, <1>2, <1>3 DEF MemoryFollowsFiles, RebindingIsClean
<1>8. OnlyPollsWait' /\ OnlyBoundWork' /\ WorkIsPublished'
  BY <1>1, <1>3, <1>6, SameWaiting, SameBound, SamePublished DEF Provider
<1>9. CurrentIsOpen'
  BY <1>2, <1>3, <1>4, <1>5 DEF CurrentIsOpen, SameWork, Provider
<1>10. VisitsArePaid'
  <2>1. \A k \in Contacts : Rank(k)' = Rank(k)
    BY <1>6, SameRank
  <2> HIDE DEF Rank
  <2> QED BY <1>1, <1>2, <1>3, <1>4, <2>1 DEF VisitsArePaid, SameWork
<1>11. AnswersAreStored'
  <2>1. \A k \in Contacts : o # Apollo(k)
    BY Identities DEF OnlyPollsWait
  <2>2. \A k \in Contacts : o = Instantly(k) => file[k].email
    BY <1>1 DEF WorkIsPublished, ContactIsPublished, Worked, Provider
  <2> QED BY <1>1, <1>2, <1>3, <2>1, <2>2 DEF AnswersAreStored
<1>12. charge = 0
  BY <1>1 DEF LedgerCovers, Provider
<1>13. LedgerCovers'
  BY <1>1, <1>3, <1>12 DEF LedgerCovers, SameWork
<1>14. BoughtIsRecorded'
  <2>1. bought \subseteq Op
    BY DEF TypeOK
  <2> QED BY <1>1, <1>3, <2>1 DEF BoughtIsRecorded, SameWork
<1>15. PassesSettle'
  <2>1. Paid' = Paid /\ Accepted' = Accepted
    BY <1>1, <1>6, SamePaid
  <2>2. \A q \in Op : disk.ops[q].state = disk'.ops[q].state
    BY <1>3 DEF SameWork
  <2>3. /\ \A k \in Paid : Apollo(k) \in Op /\ Instantly(k) \in Op
        /\ \A c \in Accepted : Exa(c) \in Op
        /\ Clay \in Op
    BY Identities DEF Paid, Accepted, TypeOK
  <2>4. pc' \notin {"pausing", "saving", "resetting"} /\ disk'.bound = disk.bound
    BY <1>3 DEF SameWork
  <2> HIDE DEF Paid, Accepted
  <2> QED BY <1>1, <1>2, <1>4, <2>1, <2>2, <2>3, <2>4 DEF PassesSettle
<1> QED BY <1>7, <1>8, <1>9, <1>10, <1>11, <1>13, <1>14, <1>15

\* The passes pause where they are.
LEMMA PauseHereKeeps ==
    ASSUME TypeOK, TypeOK', Relations, BetweenOps, pc \in Provider,
           NEW status \in Statuses, NEW reason \in Reasons, PauseHere(status, reason),
           status # "completed"
    PROVE  Relations'
<1>1. /\ UNCHANGED <<disk, file, people, cur, usage, m3, bought, billed, charge, steady>>
      /\ Pause(mem, status, reason)
  BY DEF BetweenOps, PauseHere, ledger, world, history
<1>2. mem = disk /\ Passing /\ pc # "called"
  BY DEF Relations, MemoryFollowsFiles, Passing, Provider
<1>3. /\ mem'.ops = disk.ops /\ mem'.batch = disk.batch /\ SameBinding(disk, mem')
      /\ mem'.status = status /\ pc' = "pausing"
  BY <1>1, <1>2, PauseWrites DEF TypeOK
<1> QED BY <1>1, <1>2, <1>3, PauseKeeps

LEMMA ExaPassKeeps ==
    ASSUME TypeOK, TypeOK', Relations, ExaPass
    PROVE  Relations'
<1> DEFINE c == First(left)
<1>1. /\ pc = "exa" /\ pc \in Provider /\ left # {} /\ BetweenOps /\ mem = disk
      /\ mem.batch \in SUBSET Contacts
  BY CheckpointType DEF ExaPass, At, Provider, Relations, MemoryFollowsFiles, TypeOK
<1>2. c \in left /\ c \in Companies
  BY <1>1, NextVisit DEF Relations
<1>3. Exa(c) \in Op /\ ProviderOf[Exa(c)] = "exa" /\ Exa(c)[2] = c /\ Exa(c) # Clay
  BY <1>2, Identities
<1>4. CASE mem.ops[Exa(c)].state = "completed" \/ c \notin Accepted
  <2>1. Skip
    BY <1>4 DEF ExaPass
  <2> HIDE DEF c
  <2> QED BY <1>1, <1>2, <1>4, <2>1, SkipKeeps DEF c
<1>5. CASE ~Fits("exa") /\ PauseHere("paused_budget", <<"exa_people_budget">>)
  BY <1>1, <1>5, PauseHereKeeps DEF Statuses, Reasons
<1>6. CASE /\ mem.ops[Exa(c)].state # "completed" /\ Fits("exa")
           /\ Begin(Exa(c), mem.batch) /\ UNCHANGED left
  <2>1. disk.ops[Exa(c)].state # "pending"
    BY <1>3 DEF Relations, OnlyPollsWait
  <2> HIDE DEF c
  <2> QED BY <1>1, <1>2, <1>3, <1>6, <2>1, BeginKeeps
<1> QED BY <1>4, <1>5, <1>6 DEF ExaPass

LEMMA ClayPassKeeps ==
    ASSUME TypeOK, TypeOK', Relations, ClayPass
    PROVE  Relations'
<1>1. pc = "clay" /\ pc \in Provider /\ BetweenOps /\ mem = disk
  BY DEF ClayPass, Provider, Relations, MemoryFollowsFiles
<1>2. Clay \in Op /\ ProviderOf[Clay] = "clay"
  BY Identities
<1>3. CASE \/ PauseHere("paused_unknown", <<"clay_authorization_changed">>)
           \/ PauseHere("paused_pending", <<"clay_pending">>)
  BY <1>1, <1>3, PauseHereKeeps DEF Statuses, Reasons
<1>4. CASE mem.ops[Clay].state = "pending" /\ AdmitRead(Clay) /\ UNCHANGED left
  BY <1>1, <1>2, <1>4, AdmitKeeps
<1>5. CASE mem.ops[Clay].state = "none" /\ Begin(Clay, Batch) /\ UNCHANGED left
  <2>1. Passing /\ Pass = "clay"
    BY <1>1 DEF Passing, Pass, Busy
  <2>2. Batch \subseteq left /\ left \subseteq Contacts
    BY <2>1 DEF Batch, VisitsArePaid, Relations
  <2> HIDE DEF Batch
  <2> QED BY <1>1, <1>2, <1>5, <2>2, BeginKeeps
<1> QED BY <1>3, <1>4, <1>5 DEF ClayPass

LEMMA ApolloPassKeeps ==
    ASSUME TypeOK, TypeOK', Relations, ApolloPass
    PROVE  Relations'
<1> DEFINE k == First(left)
<1>1. /\ pc = "apollo" /\ pc \in Provider /\ left # {} /\ BetweenOps /\ mem = disk
      /\ mem.batch \in SUBSET Contacts
  BY CheckpointType DEF ApolloPass, At, Provider, Relations, MemoryFollowsFiles, TypeOK
<1>2. k \in left /\ k \in Contacts
  BY <1>1, NextVisit DEF Relations
<1>3. /\ Apollo(k) \in Op /\ ProviderOf[Apollo(k)] = "apollo" /\ Apollo(k)[2] = k
      /\ Apollo(k) # Clay
  BY <1>2, Identities
<1>4. CASE /\ \/ people[k].email \/ ~people[k].clay
              \/ mem.ops[Apollo(k)].state = "completed" \/ CompanyOf[k] \notin Accepted
           /\ Skip
  <2>1. k \in Paid => CompanyOf[k] \in Accepted
    BY DEF Paid
  <2> HIDE DEF k, Paid
  <2> QED BY <1>1, <1>2, <1>4, <2>1, SkipKeeps DEF k
<1>5. CASE PauseHere("paused_budget", <<"apollo_credit_cap">>)
  BY <1>1, <1>5, PauseHereKeeps DEF Statuses, Reasons
<1>6. CASE /\ ~people[k].email /\ mem.ops[Apollo(k)].state # "completed" /\ Fits("apollo")
           /\ Begin(Apollo(k), mem.batch) /\ UNCHANGED left
  <2>1. disk.ops[Apollo(k)].state # "pending"
    BY <1>3 DEF Relations, OnlyPollsWait
  <2> HIDE DEF k
  <2> QED BY <1>1, <1>2, <1>3, <1>6, <2>1, BeginKeeps
<1> QED BY <1>4, <1>5, <1>6 DEF ApolloPass

LEMMA InstantlyPassKeeps ==
    ASSUME TypeOK, TypeOK', Relations, InstantlyPass
    PROVE  Relations'
<1> DEFINE k == First(left)
           o == Instantly(k)
<1>1. /\ pc = "instantly" /\ pc \in Provider /\ left # {} /\ BetweenOps /\ mem = disk
      /\ mem.batch \in SUBSET Contacts
  BY CheckpointType DEF InstantlyPass, At, Provider, Relations, MemoryFollowsFiles, TypeOK
<1>2. k \in left /\ k \in Contacts
  BY <1>1, NextVisit DEF Relations
<1>3. o \in Op /\ ProviderOf[o] = "instantly" /\ o[2] = k /\ o # Clay
  BY <1>2, Identities
<1>4. CASE /\ ~people[k].email \/ mem.ops[o].state = "completed" \/ CompanyOf[k] \notin Accepted
           /\ Skip
  <2>1. k \in Paid => CompanyOf[k] \in Accepted
    BY DEF Paid
  <2> HIDE DEF k, Paid
  <2> QED BY <1>1, <1>2, <1>4, <2>1, SkipKeeps DEF k
<1>5. CASE PauseHere("paused_pending", o) \/ PauseHere("paused_budget", <<"instantly_call_cap">>)
  <2>1. o \in Reasons /\ <<"instantly_call_cap">> \in Reasons
    BY <1>3 DEF Reasons
  <2> HIDE DEF o
  <2> QED BY <1>1, <1>5, <2>1, PauseHereKeeps DEF Statuses
<1>6. CASE mem.ops[o].state = "pending" /\ AdmitRead(o) /\ UNCHANGED left
  <2> HIDE DEF o
  <2> QED BY <1>1, <1>3, <1>6, AdmitKeeps
<1>7. CASE /\ people[k].email /\ mem.ops[o].state \notin {"completed", "pending"}
           /\ Fits("instantly") /\ Begin(o, mem.batch) /\ UNCHANGED left
  <2> HIDE DEF k, o
  <2> QED BY <1>1, <1>2, <1>3, <1>7, BeginKeeps
<1> QED BY <1>4, <1>5, <1>6, <1>7 DEF InstantlyPass

\* The last pass is over: everything paid for is done, or the Clay batch was too small.
LEMMA FinishKeeps ==
    ASSUME TypeOK, TypeOK', Relations, Finish
    PROVE  Relations'
<1>1. /\ pc = "instantly" /\ pc \in Provider /\ left = {} /\ BetweenOps /\ mem = disk
      /\ Passing /\ ~Busy /\ Pass = "instantly"
  BY DEF Finish, Provider, Relations, MemoryFollowsFiles, Passing, Busy, Pass
<1>2. CASE capHit
  BY <1>1, <1>2, PauseHereKeeps DEF Finish, PauseHere, Statuses, Reasons
<1>3. CASE ~capHit
  <2> USE DEF Relations
  <2>1. Pause(mem, "completed", NoReason) /\ mem \in Checkpoint
    BY <1>3 DEF Finish, TypeOK
  <2>2. /\ mem'.ops = disk.ops /\ mem'.batch = disk.batch /\ SameBinding(disk, mem')
        /\ mem'.status = "completed" /\ pc' = "pausing"
    BY <1>1, <2>1, PauseWrites DEF Statuses, Reasons
  <2>3. UNCHANGED <<disk, file, people, cur, usage, m3, bought, billed, charge, steady>>
    BY <1>1 DEF Finish, BetweenOps, ledger, world, history
  <2>4. SameWork /\ SameKnown /\ ~Passing' /\ ~Busy'
    BY <2>2, <2>3 DEF SameWork, SameKnown, Passing, Busy, Provider
  <2>5. MemoryFollowsFiles' /\ RebindingIsClean' /\ CurrentIsOpen' /\ VisitsArePaid'
    BY <1>1, <2>2, <2>3, <2>4
    DEF MemoryFollowsFiles, RebindingIsClean, CurrentIsOpen, VisitsArePaid, SameBinding, Provider
  <2>6. OnlyPollsWait' /\ OnlyBoundWork' /\ WorkIsPublished'
    BY <1>1, <2>3, <2>4, SameWaiting, SameBound, SamePublished
  <2>7. AnswersAreStored' /\ BoughtIsRecorded'
    BY <2>2, <2>3, <2>4 DEF AnswersAreStored, BoughtIsRecorded
  <2>8. LedgerCovers'
    BY <1>1, <2>2, <2>3 DEF LedgerCovers
  <2>9. ASSUME steady
        PROVE  /\ disk.bound = m3 /\ disk.ops[Clay].state # "pending"
               /\ \A c \in Accepted : disk.ops[Exa(c)].state = "completed"
               /\ \A k \in Paid :
                    /\ people[k].clay
                    /\ people[k].email \/ disk.ops[Apollo(k)].state = "completed"
                    /\ people[k].email => disk.ops[Instantly(k)].state = "completed"
    <3> HIDE DEF Paid, Accepted
    <3> QED BY <1>1, <1>3, <2>9 DEF PassesSettle
  <2>10. ASSUME steady, NEW o \in Op, disk.ops[o].state = "pending"
         PROVE  FALSE
    <3>1. o # Clay
      BY <2>9, <2>10
    <3>2. ProviderOf[o] = "instantly"
      BY <2>10, <3>1, Kinds DEF OnlyPollsWait
    <3> DEFINE k == o[2]
    <3>3. k \in Contacts /\ o = Instantly(k)
      BY <3>2, Kinds
    <3> HIDE DEF k
    <3>4. people[k].known /\ people[k].email /\ Rank(k) < MaxPaid
      <4> HIDE DEF Rank
      <4> QED BY <1>1, <2>10, <3>3 DEF WorkIsPublished, ContactIsPublished, Worked, MemoryFollowsFiles
    <3>5. CompanyOf[k] \in Accepted
      BY <1>1, <2>9, <2>10, <3>3 DEF OnlyBoundWork, Accepted, CurrentIsOpen
    <3>6. k \in Paid
      BY <3>3, <3>4, <3>5 DEF Paid
    <3> QED BY <2>9, <2>10, <3>3, <3>4, <3>6
  <2>11. steady => Unfinished(disk) = {}
    <3>1. InFlight(disk.ops) = {}
      BY <1>1 DEF CurrentIsOpen
    <3> QED BY <2>10, <3>1, Members DEF TypeOK
  <2>12. PassesSettle'
    <3>1. Paid' = Paid /\ Accepted' = Accepted
      BY <2>3, <2>4, SamePaid
    <3>2. Unfinished(disk)' = Unfinished(disk)
      BY <2>4, SameInFlight
    <3> HIDE DEF Paid, Accepted, Unfinished
    <3> QED BY <2>2, <2>3, <2>4, <2>9, <2>11, <3>1, <3>2 DEF PassesSettle
  <2> QED BY <2>5, <2>6, <2>7, <2>8, <2>12
<1> QED BY <1>2, <1>3

-----------------------------------------------------------------------------
(***************************************************************************)
(* Steps that keep the relations: the call and its outcome.                *)
(***************************************************************************)
\* From the call to the answer nothing on file moves.
Answering ==
    /\ Busy /\ Busy'
    /\ pc' # "stored" /\ pc # "stored"
    /\ UNCHANGED <<disk, mem, file, people, cur, left, capHit, config, m3, steady>>

LEMMA AnsweringKeeps ==
    ASSUME TypeOK, TypeOK', Relations, Answering
    PROVE  /\ MemoryFollowsFiles' /\ RebindingIsClean' /\ OnlyPollsWait' /\ CurrentIsOpen'
           /\ VisitsArePaid' /\ OnlyBoundWork' /\ WorkIsPublished' /\ AnswersAreStored'
           /\ PassesSettle'
<1> USE DEF Relations
<1>1. UNCHANGED <<disk, mem, file, people, cur, left, capHit, config, m3, steady>>
  BY DEF Answering
<1>2. /\ Passing /\ Passing' /\ Busy /\ Busy' /\ Pass' = Pass
      /\ pc \notin {"down", "resetting", "pausing", "saving"} \cup Provider
      /\ pc' \notin {"down", "resetting", "pausing", "saving", "stored"} \cup Provider
  BY DEF Answering, Passing, Busy, Pass, Provider
<1>3. SameWork /\ SameKnown
  BY <1>1 DEF SameWork, SameKnown
<1>4. MemoryFollowsFiles' /\ RebindingIsClean' /\ CurrentIsOpen'
  BY <1>1, <1>2 DEF MemoryFollowsFiles, RebindingIsClean, CurrentIsOpen
<1>5. OnlyPollsWait' /\ OnlyBoundWork' /\ WorkIsPublished'
  BY <1>1, <1>2, <1>3, SameWaiting, SameBound, SamePublished
<1>6. VisitsArePaid'
  <2>1. \A k \in Contacts : Rank(k)' = Rank(k)
    BY <1>3, SameRank
  <2> HIDE DEF Rank
  <2> QED BY <1>1, <1>2, <2>1 DEF VisitsArePaid
<1>7. AnswersAreStored'
  BY <1>1, <1>2 DEF AnswersAreStored, Answering
<1>8. PassesSettle'
  <2>1. Paid' = Paid /\ Accepted' = Accepted
    BY <1>1, <1>3, SamePaid
  <2> HIDE DEF Paid, Accepted
  <2> QED BY <1>1, <1>2, <2>1 DEF PassesSettle
<1> QED BY <1>4, <1>5, <1>6, <1>7, <1>8

LEMMA CallKeeps ==
    ASSUME TypeOK, TypeOK', Relations, NEW outcome \in Answers, NEW cost \in 0..1,
           Call(outcome, cost)
    PROVE  Relations'
<1>1. /\ pc = "begun" /\ pc' = "called" /\ cost \in Costs /\ charge' = cost
      /\ billed' = [billed EXCEPT ![ProviderOf[cur]] = @ + cost]
      /\ bought' = IF Reading THEN bought ELSE bought \cup {cur}
      /\ UNCHANGED <<disk, mem, file, people, cur, left, capHit, config, m3, steady, usage>>
  BY DEF Call, ledger, world
<1>2. Answering /\ mem = disk /\ disk.ops[cur].state \in {"in_flight", "pending"}
  BY <1>1 DEF Answering, Busy, Relations, MemoryFollowsFiles, CurrentIsOpen
<1>3. /\ MemoryFollowsFiles' /\ RebindingIsClean' /\ OnlyPollsWait' /\ CurrentIsOpen'
      /\ VisitsArePaid' /\ OnlyBoundWork' /\ WorkIsPublished' /\ AnswersAreStored'
      /\ PassesSettle'
  BY <1>2, AnsweringKeeps
<1>4. cur \in Op /\ ProviderOf[cur] \in Provider /\ charge = 0
  BY <1>1, Kinds DEF TypeOK, Relations, LedgerCovers
<1>5. cost # 0 => cost = 1 /\ cur # Clay /\ disk.ops[cur].state = "in_flight"
  BY <1>1, <1>2 DEF Costs, Reading
<1>6. LedgerCovers'
  <2>1. \A p \in Provider : \/ usage'[p].missing
                            \/ billed'[p] <= usage'[p].known
                                 + IF p = ProviderOf[cur'] THEN charge' ELSE 0
    <3> TAKE p \in Provider
    <3>1. usage[p].missing \/ billed[p] <= usage[p].known
      BY <1>4 DEF Relations, LedgerCovers, TypeOK, Totals
    <3>2. billed'[p] = IF p = ProviderOf[cur] THEN billed[p] + cost ELSE billed[p]
      BY <1>1 DEF TypeOK
    <3>3. billed[p] \in Nat /\ usage[p].known \in Nat /\ cost \in Nat
      BY DEF TypeOK, Totals
    <3> QED BY <1>1, <3>1, <3>2, <3>3
  <2> QED BY <1>1, <1>5, <2>1 DEF LedgerCovers
<1>7. BoughtIsRecorded'
  BY <1>1, <1>2 DEF BoughtIsRecorded, Relations
<1> QED BY <1>3, <1>6, <1>7 DEF Relations

\* The usage event records at least what was charged, or that it is unknown.
LEMMA RecordKeeps ==
    ASSUME TypeOK, TypeOK', Relations, NEW priced \in BOOLEAN, RecordUsage(priced)
    PROVE  Relations'
<1>1. /\ pc = "called" /\ pc' = "recorded" /\ charge' = 0
      /\ usage' = [usage EXCEPT ![ProviderOf[cur]] = Committed(priced)]
      /\ UNCHANGED <<disk, mem, file, people, cur, left, capHit, config, m3, steady,
                     bought, billed>>
  BY DEF RecordUsage, world
<1>2. Answering /\ mem = disk
  BY <1>1 DEF Answering, Busy, Relations, MemoryFollowsFiles
<1>3. /\ MemoryFollowsFiles' /\ RebindingIsClean' /\ OnlyPollsWait' /\ CurrentIsOpen'
      /\ VisitsArePaid' /\ OnlyBoundWork' /\ WorkIsPublished' /\ AnswersAreStored'
      /\ PassesSettle'
  BY <1>2, AnsweringKeeps
<1>4. cur \in Op /\ ProviderOf[cur] \in Provider
  BY Kinds DEF TypeOK
<1>5. charge \in {0, 1} /\ (Reading \/ ProviderOf[cur] = "clay" => charge = 0)
  <2>1. ProviderOf[cur] = "clay" => cur = Clay
    BY Kinds DEF TypeOK
  <2> QED BY <1>2, <2>1 DEF LedgerCovers, Relations, Reading
<1>6. LedgerCovers'
  <2>1. \A p \in Provider : \/ usage'[p].missing
                            \/ billed'[p] <= usage'[p].known
    <3> TAKE p \in Provider
    <3>1. usage[p].missing \/ billed[p] <= usage[p].known + IF p = ProviderOf[cur] THEN charge ELSE 0
      BY DEF Relations, LedgerCovers
    <3>2. billed[p] \in Nat /\ usage[p].known \in Nat
      BY DEF TypeOK, Totals
    <3>3. CASE p # ProviderOf[cur]
      <4>1. usage'[p] = usage[p]
        BY <1>1, <3>3 DEF TypeOK
      <4> QED BY <1>1, <3>1, <3>2, <3>3, <4>1
    <3>4. CASE p = ProviderOf[cur]
      <4>1. usage'[p] = Committed(priced)
        BY <1>1, <3>4 DEF TypeOK
      <4>2. \/ charge = 0 /\ Committed(priced) = usage[p]
            \/ Committed(priced) = AddEvent(usage[p], priced, charge)
            \/ Committed(priced) = AddEvent(usage[p], TRUE, charge)
            \/ Committed(priced) = AddEvent(usage[p], TRUE, 1)
        BY <1>5, <3>4 DEF Committed
      <4>3. \A b \in BOOLEAN, n \in Nat :
              /\ AddEvent(usage[p], b, n).missing <=> (usage[p].missing \/ ~b)
              /\ AddEvent(usage[p], b, n).known = IF b THEN usage[p].known + n ELSE usage[p].known
        BY DEF AddEvent
      <4>4. CASE charge = 0 /\ Committed(priced) = usage[p]
        BY <1>1, <3>1, <3>2, <3>4, <4>1, <4>4
      <4>5. CASE ~(charge = 0 /\ Committed(priced) = usage[p])
        <5>1. PICK b \in BOOLEAN, n \in {charge, 1} :
                Committed(priced) = AddEvent(usage[p], b, n)
          BY <4>2, <4>5
        <5>2. n \in Nat /\ charge <= n /\ charge \in Nat
          BY <1>5, <5>1
        <5> QED BY <1>1, <3>1, <3>2, <3>4, <4>1, <4>3, <5>1, <5>2
      <4> QED BY <4>4, <4>5
    <3> QED BY <3>3, <3>4
  <2> QED BY <1>1, <2>1 DEF LedgerCovers, TypeOK, Totals
<1>7. BoughtIsRecorded'
  BY <1>1, <1>2 DEF BoughtIsRecorded, Relations
<1> QED BY <1>3, <1>6, <1>7 DEF Relations

\* Publishing an answer reaches the contacts only.
Storing ==
    /\ pc = "recorded" /\ pc' = "stored" /\ answer = "ok" /\ file' = people'
    /\ cur = Clay => disk.ops[Clay].state = "pending"
    /\ UNCHANGED <<disk, mem, cur, answer, left, usage, m3, capHit, config, billed, charge,
                   bought, steady>>

LEMMA StoringKeeps ==
    ASSUME TypeOK, TypeOK', Relations, Storing
    PROVE  /\ MemoryFollowsFiles' /\ RebindingIsClean' /\ OnlyPollsWait' /\ CurrentIsOpen'
           /\ LedgerCovers' /\ BoughtIsRecorded'
           /\ people = file /\ WorkIsPublished /\ SameWork
           /\ Passing /\ Passing' /\ Busy /\ Busy' /\ Pass' = Pass /\ Pass = ProviderOf[cur]
           /\ disk.ops[cur].state \in {"in_flight", "pending"}
<1> USE DEF Relations, Storing
<1>1. Passing /\ Passing' /\ Busy /\ Busy' /\ Pass' = Pass /\ Pass = ProviderOf[cur]
  BY DEF Passing, Busy, Pass
<1>2. SameWork /\ people = file /\ WorkIsPublished
  BY DEF SameWork, MemoryFollowsFiles
<1>3. MemoryFollowsFiles' /\ RebindingIsClean' /\ CurrentIsOpen'
  BY <1>1 DEF MemoryFollowsFiles, RebindingIsClean, CurrentIsOpen, Provider
<1>4. OnlyPollsWait'
  BY <1>2, SameWaiting
<1>5. LedgerCovers' /\ BoughtIsRecorded'
  BY DEF LedgerCovers, BoughtIsRecorded
<1>6. disk.ops[cur].state \in {"in_flight", "pending"}
  BY <1>1 DEF CurrentIsOpen
<1> QED BY <1>1, <1>2, <1>3, <1>4, <1>5, <1>6

\* An answer that hides and reveals nobody keeps the visits and the binding.
LEMMA StoringKnown ==
    ASSUME TypeOK, TypeOK', Relations, Storing, SameKnown
    PROVE  /\ VisitsArePaid' /\ OnlyBoundWork' /\ Paid' = Paid /\ Accepted' = Accepted
           /\ \A k \in Contacts : Rank(k)' = Rank(k)
<1>1. people = file /\ Passing /\ Passing' /\ Busy /\ Busy' /\ Pass' = Pass
  BY StoringKeeps
<1>2. Paid' = Paid /\ Accepted' = Accepted /\ \A k \in Contacts : Rank(k)' = Rank(k)
  BY SameRank, SamePaid DEF Storing
<1>3. VisitsArePaid'
  <2> HIDE DEF Rank
  <2> QED BY <1>1, <1>2 DEF VisitsArePaid, Relations, Storing, SameKnown
<1>4. OnlyBoundWork'
  BY <1>1 DEF OnlyBoundWork, Relations, Storing, SameKnown
<1> QED BY <1>2, <1>3, <1>4

\* The people a search found, whose company has no other work yet.
LEMMA StorePeopleKeeps ==
    ASSUME TypeOK, TypeOK', Relations, NEW found \in SUBSET Contacts, StorePeople(found)
    PROVE  Relations'
<1>1. /\ cur \in Op /\ ProviderOf[cur] = "exa" /\ cur[2] \in Companies /\ cur = Exa(cur[2])
      /\ cur # Clay
  BY Kinds, Identities DEF StorePeople, TypeOK
<1> DEFINE c == cur[2]
<1>2. /\ Storing
      /\ people' = [k \in Contacts |-> IF k \in found THEN [Nobody[k] EXCEPT !.known = TRUE]
                                       ELSE people[k]]
      /\ \A k \in found : CompanyOf[k] = c
  BY <1>1 DEF StorePeople, Publish, Storing, AfterCall, ledger, world, history
<1>3. /\ MemoryFollowsFiles' /\ RebindingIsClean' /\ OnlyPollsWait' /\ CurrentIsOpen'
      /\ LedgerCovers' /\ BoughtIsRecorded'
      /\ people = file /\ WorkIsPublished /\ SameWork
      /\ Passing /\ Passing' /\ Busy /\ Busy' /\ Pass' = Pass /\ Pass = "exa"
      /\ disk.ops[Exa(c)].state \in {"in_flight", "pending"}
  BY <1>1, <1>2, StoringKeeps
<1>4. \A k \in Contacts :
        \/ people'[k] = people[k]
        \/ /\ CompanyOf[k] = c /\ people'[k].known /\ ~people'[k].clay /\ ~people'[k].email
           /\ people'[k].verdict = "none"
  BY <1>2 DEF Nobody
<1> HIDE DEF c
<1>5. \A k \in Contacts : CompanyOf[k] # c => Rank(k)' = Rank(k)
  <2> TAKE k \in Contacts
  <2> HAVE CompanyOf[k] # c
  <2>1. {j \in Contacts : j < k /\ people'[j].known /\ CompanyOf[j] = CompanyOf[k]}
          = {j \in Contacts : j < k /\ people[j].known /\ CompanyOf[j] = CompanyOf[k]}
    BY <1>4
  <2> QED BY <2>1 DEF Rank
<1>6. VisitsArePaid'
  BY <1>2, <1>3 DEF VisitsArePaid, Relations, Storing
<1>7. c \in Companies /\ Exa(c) \in Op
  BY <1>1 DEF c
<1>8. OnlyBoundWork'
  BY <1>2, <1>3, <1>4, <1>7 DEF OnlyBoundWork, Relations, Storing
<1>9. WorkIsPublished'
  <2>1. \A k \in disk.selected : k \in Contacts
    BY CheckpointType DEF TypeOK
  <2>2. \A k \in Contacts : people[k].known => people'[k].known
    BY <1>4
  <2>3. \A k \in disk'.selected : file'[k].known
    BY <1>2, <1>3, <2>1, <2>2 DEF WorkIsPublished, ContactIsPublished, Worked, Storing
  <2>4. \A k \in Contacts : Worked(k)' <=> Worked(k)
    BY <1>2 DEF Worked, Storing
  <2>5. ASSUME NEW k \in Contacts
        PROVE  ContactIsPublished(k)'
    <3>1. ContactIsPublished(k)
      BY <1>3 DEF WorkIsPublished
    <3> HIDE DEF Rank, Worked
    <3>2. CASE CompanyOf[k] # c
      BY <1>2, <1>3, <1>4, <1>5, <2>4, <3>1, <3>2 DEF ContactIsPublished, Storing
    <3>3. CASE CompanyOf[k] = c
      <4>1. /\ ~Worked(k) /\ ~file[k].clay /\ ~file[k].email /\ file[k].verdict = "none"
            /\ disk.ops[Instantly(k)].state = "none" /\ k \notin disk.batch
        BY <1>3, <3>1, <3>3 DEF ContactIsPublished, Worked
      <4>2. ~file'[k].clay /\ ~file'[k].email /\ file'[k].verdict = "none"
        BY <1>2, <1>3, <1>4, <4>1 DEF Storing
      <4> QED BY <1>2, <1>3, <2>4, <3>3, <4>1, <4>2 DEF ContactIsPublished, Storing
    <3> QED BY <3>2, <3>3
  <2> QED BY <2>3, <2>5 DEF WorkIsPublished
<1>10. AnswersAreStored'
  BY <1>1, <1>2, Distinct DEF AnswersAreStored, Storing
<1>11. PassesSettle'
  <2>1. Accepted' = Accepted
    BY <1>2 DEF Accepted, Storing
  <2> HIDE DEF Accepted, Paid
  <2> QED BY <1>2, <1>3, <2>1 DEF PassesSettle, Relations, Storing
<1> QED BY <1>3, <1>6, <1>8, <1>9, <1>10, <1>11 DEF Relations

\* The emails a Clay run found, for the contacts of its batch.
LEMMA StoreClayKeeps ==
    ASSUME TypeOK, TypeOK', Relations, NEW found \in SUBSET Contacts, StoreClayEmails(found)
    PROVE  Relations'
<1>1. cur = Clay /\ Clay \in Op /\ ProviderOf[Clay] = "clay"
  BY Identities DEF StoreClayEmails
<1>2. /\ Storing
      /\ people' = [k \in Contacts |->
                      IF k \notin mem.batch THEN people[k]
                      ELSE [people[k] EXCEPT !.clay = TRUE, !.email = @ \/ k \in found]]
      /\ mem = disk
  BY DEF StoreClayEmails, Publish, Storing, AfterCall, ledger, world, history, Reading,
         Relations, MemoryFollowsFiles
<1>3. /\ MemoryFollowsFiles' /\ RebindingIsClean' /\ OnlyPollsWait' /\ CurrentIsOpen'
      /\ LedgerCovers' /\ BoughtIsRecorded'
      /\ people = file /\ WorkIsPublished /\ SameWork
      /\ Passing /\ Passing' /\ Busy /\ Busy' /\ Pass' = Pass /\ Pass = "clay"
  BY <1>1, <1>2, StoringKeeps
<1>4. \A k \in Contacts :
        /\ k \notin disk.batch => people'[k] = people[k]
        /\ k \in disk.batch => /\ people'[k].known <=> people[k].known
                               /\ people'[k].clay
                               /\ people[k].email => people'[k].email
                               /\ people'[k].verdict = people[k].verdict
  <2>1. \A k \in Contacts : people[k] \in Contact
    BY DEF TypeOK
  <2> QED BY <1>2, <2>1 DEF Contact
<1>5. SameKnown
  BY <1>4 DEF SameKnown
<1>6. /\ VisitsArePaid' /\ OnlyBoundWork' /\ Paid' = Paid /\ Accepted' = Accepted
      /\ \A k \in Contacts : Rank(k)' = Rank(k)
  BY <1>2, <1>5, StoringKnown
<1>7. WorkIsPublished'
  <2>1. \A k \in disk.selected : k \in Contacts
    BY CheckpointType DEF TypeOK
  <2>2. \A k \in disk'.selected : file'[k].known
    BY <1>2, <1>3, <1>5, <2>1 DEF WorkIsPublished, ContactIsPublished, Worked, Storing, SameKnown
  <2>3. ASSUME NEW k \in Contacts
        PROVE  ContactIsPublished(k)'
    <3>1. ContactIsPublished(k)
      BY <1>3 DEF WorkIsPublished
    <3>2. Worked(k)' <=> Worked(k)
      BY <1>2 DEF Worked, Storing
    <3> HIDE DEF Rank
    <3>3. CASE k \notin disk.batch
      <4>1. file'[k] = file[k]
        BY <1>2, <1>3, <1>4, <3>3 DEF Storing
      <4> QED BY <1>2, <1>6, <3>1, <3>2, <4>1 DEF ContactIsPublished, Storing
    <3>4. CASE k \in disk.batch
      <4>1. /\ file'[k].known <=> file[k].known
            /\ file'[k].clay
            /\ file[k].email => file'[k].email
            /\ file'[k].verdict = file[k].verdict
        BY <1>2, <1>3, <1>4, <3>4 DEF Storing
      <4>2. Worked(k)
        BY <3>4 DEF Worked
      <4> QED BY <1>2, <1>6, <3>1, <3>2, <4>1, <4>2 DEF ContactIsPublished, Storing
    <3> QED BY <3>3, <3>4
  <2> QED BY <2>2, <2>3 DEF WorkIsPublished
<1>8. AnswersAreStored'
  BY <1>1, <1>2, <1>4, Distinct DEF AnswersAreStored, Storing
<1>9. PassesSettle'
  <2> HIDE DEF Accepted, Paid
  <2> QED BY <1>2, <1>3, <1>6 DEF PassesSettle, Relations, Storing
<1> QED BY <1>3, <1>6, <1>7, <1>8, <1>9 DEF Relations

\* The email Apollo may have had, for a contact that had none.
LEMMA StoreApolloKeeps ==
    ASSUME TypeOK, TypeOK', Relations, NEW found \in BOOLEAN, StoreApolloEmail(found)
    PROVE  Relations'
<1> DEFINE a == cur[2]
<1>1. /\ cur \in Op /\ ProviderOf[cur] = "apollo" /\ a \in Contacts /\ cur = Apollo(a)
      /\ cur # Clay
  BY Kinds, Identities DEF StoreApolloEmail, TypeOK
<1>2. Storing /\ people' = [people EXCEPT ![a].email = found]
  BY <1>1 DEF StoreApolloEmail, Publish, Storing, AfterCall, ledger, world, history
<1>3. /\ MemoryFollowsFiles' /\ RebindingIsClean' /\ OnlyPollsWait' /\ CurrentIsOpen'
      /\ LedgerCovers' /\ BoughtIsRecorded'
      /\ people = file /\ WorkIsPublished /\ SameWork
      /\ Passing /\ Passing' /\ Busy /\ Busy' /\ Pass' = Pass /\ Pass = "apollo"
      /\ disk.ops[Apollo(a)].state \in {"in_flight", "pending"}
  BY <1>1, <1>2, StoringKeeps
<1>4. ~people[a].email
  BY <1>1, <1>2, <1>3 DEF AnswersAreStored, Relations, Storing
<1>5. \A k \in Contacts :
        /\ k # a => people'[k] = people[k]
        /\ people'[k].known <=> people[k].known
        /\ people'[k].clay <=> people[k].clay
        /\ people'[k].verdict = people[k].verdict
  BY <1>1, <1>2 DEF TypeOK, Contact
<1> HIDE DEF a
<1>6. SameKnown
  BY <1>5 DEF SameKnown
<1>7. /\ VisitsArePaid' /\ OnlyBoundWork' /\ Paid' = Paid /\ Accepted' = Accepted
      /\ \A k \in Contacts : Rank(k)' = Rank(k)
  BY <1>2, <1>6, StoringKnown
<1>8. WorkIsPublished'
  <2>1. \A k \in disk.selected : k \in Contacts
    BY CheckpointType DEF TypeOK
  <2>2. \A k \in disk'.selected : file'[k].known
    BY <1>2, <1>3, <1>6, <2>1 DEF WorkIsPublished, Storing, SameKnown
  <2>3. ASSUME NEW k \in Contacts
        PROVE  ContactIsPublished(k)'
    <3>1. ContactIsPublished(k)
      BY <1>3 DEF WorkIsPublished
    <3>2. Worked(k)' <=> Worked(k)
      BY <1>2 DEF Worked, Storing
    <3> HIDE DEF Rank
    <3>3. CASE k # a
      <4>1. file'[k] = file[k]
        BY <1>2, <1>3, <1>5, <3>3 DEF Storing
      <4> QED BY <1>2, <1>7, <3>1, <3>2, <4>1 DEF ContactIsPublished, Storing
    <3>4. CASE k = a
      <4>1. Worked(k)
        BY <1>3, <3>4 DEF Worked
      <4>2. disk.ops[Instantly(k)].state = "none"
        BY <1>3, <1>4, <3>1, <3>4 DEF ContactIsPublished
      <4>3. /\ file'[k].known <=> file[k].known
            /\ file'[k].clay <=> file[k].clay
            /\ file'[k].verdict = file[k].verdict
        BY <1>2, <1>3, <1>5 DEF Storing
      <4> QED BY <1>2, <1>7, <3>1, <3>2, <4>1, <4>2, <4>3 DEF ContactIsPublished, Storing
    <3> QED BY <3>3, <3>4
  <2> QED BY <2>2, <2>3 DEF WorkIsPublished
<1>9. AnswersAreStored'
  BY <1>1, <1>2, Distinct DEF AnswersAreStored, Storing
<1>10. PassesSettle'
  <2>1. \A k \in Paid : k \in Contacts
    BY DEF Paid
  <2>2. pc' \notin {"pausing", "saving", "resetting"}
    BY <1>2 DEF Storing
  <2>3. /\ steady => disk.bound = m3 /\ disk.ops[Clay].state # "pending"
                     /\ \A c \in Accepted : disk.ops[Exa(c)].state = "completed"
        /\ steady /\ ~capHit => \A k \in Paid : people[k].clay
    <3> HIDE DEF Accepted, Paid
    <3> QED BY <1>3 DEF PassesSettle, Relations
  <2>4. steady => \A k \in Paid \ left : people[k].clay =>
          people[k].email \/ disk.ops[Apollo(k)].state = "completed"
    <3> HIDE DEF Paid
    <3> QED BY <1>3 DEF PassesSettle, Relations
  <2>5. steady => \A k \in Paid \ left : people'[k].clay =>
          people'[k].email \/ disk.ops[Apollo(k)].state = "completed"
    <3> HIDE DEF Paid
    <3> QED BY <1>3, <1>4, <1>5, <2>1, <2>4
  <2> HIDE DEF Accepted, Paid
  <2> QED BY <1>2, <1>3, <1>5, <1>7, <2>1, <2>2, <2>3, <2>5 DEF PassesSettle, Storing
<1> QED BY <1>3, <1>7, <1>8, <1>9, <1>10 DEF Relations

\* The verdict on a contact's email.
LEMMA StoreVerdictKeeps ==
    ASSUME TypeOK, TypeOK', Relations, StoreVerdict
    PROVE  Relations'
<1> DEFINE a == cur[2]
<1>1. /\ cur \in Op /\ ProviderOf[cur] = "instantly" /\ a \in Contacts /\ cur = Instantly(a)
      /\ cur # Clay
  BY Kinds, Identities DEF StoreVerdict, TypeOK
<1>2. Storing /\ people' = [people EXCEPT ![a].verdict = "settled"]
  BY <1>1 DEF StoreVerdict, Publish, Storing, AfterCall, ledger, world, history
<1>3. /\ MemoryFollowsFiles' /\ RebindingIsClean' /\ OnlyPollsWait' /\ CurrentIsOpen'
      /\ LedgerCovers' /\ BoughtIsRecorded'
      /\ people = file /\ WorkIsPublished /\ SameWork
      /\ Passing /\ Passing' /\ Busy /\ Busy' /\ Pass' = Pass /\ Pass = "instantly"
      /\ disk.ops[Instantly(a)].state \in {"in_flight", "pending"}
  BY <1>1, <1>2, StoringKeeps
<1>4. \A k \in Contacts :
        /\ k # a => people'[k] = people[k]
        /\ people'[k].known <=> people[k].known
        /\ people'[k].clay <=> people[k].clay
        /\ people'[k].email <=> people[k].email
  BY <1>1, <1>2 DEF TypeOK, Contact
<1>5. people'[a].verdict = "settled"
  BY <1>1, <1>2 DEF TypeOK, Contact
<1> HIDE DEF a
<1>6. SameKnown
  BY <1>4 DEF SameKnown
<1>7. /\ VisitsArePaid' /\ OnlyBoundWork' /\ Paid' = Paid /\ Accepted' = Accepted
      /\ \A k \in Contacts : Rank(k)' = Rank(k)
  BY <1>2, <1>6, StoringKnown
<1>8. WorkIsPublished'
  <2>1. \A k \in disk.selected : k \in Contacts
    BY CheckpointType DEF TypeOK
  <2>2. \A k \in disk'.selected : file'[k].known
    BY <1>2, <1>3, <1>6, <2>1 DEF WorkIsPublished, Storing, SameKnown
  <2>3. ASSUME NEW k \in Contacts
        PROVE  ContactIsPublished(k)'
    <3>1. ContactIsPublished(k)
      BY <1>3 DEF WorkIsPublished
    <3>2. Worked(k)' <=> Worked(k)
      BY <1>2 DEF Worked, Storing
    <3> HIDE DEF Rank
    <3>3. CASE k # a
      <4>1. file'[k] = file[k]
        BY <1>2, <1>3, <1>4, <3>3 DEF Storing
      <4> QED BY <1>2, <1>7, <3>1, <3>2, <4>1 DEF ContactIsPublished, Storing
    <3>4. CASE k = a
      <4>1. Worked(k)
        BY <1>3, <3>4 DEF Worked
      <4>2. /\ file'[k].known <=> file[k].known
            /\ file'[k].clay <=> file[k].clay
            /\ file'[k].email <=> file[k].email
            /\ file'[k].verdict = "settled"
        BY <1>2, <1>3, <1>4, <1>5, <3>4 DEF Storing
      <4> QED BY <1>2, <1>7, <3>1, <3>2, <4>1, <4>2 DEF ContactIsPublished, Storing
    <3> QED BY <3>3, <3>4
  <2> QED BY <2>2, <2>3 DEF WorkIsPublished
<1>9. AnswersAreStored'
  BY <1>1, <1>2, <1>3, <1>4, <1>5, Distinct DEF AnswersAreStored, Relations, Storing
<1>10. PassesSettle'
  <2>1. \A k \in Paid : k \in Contacts
    BY DEF Paid
  <2>2. pc' \notin {"pausing", "saving", "resetting"}
    BY <1>2 DEF Storing
  <2> HIDE DEF Accepted, Paid
  <2> QED BY <1>2, <1>3, <1>4, <1>7, <2>1, <2>2 DEF PassesSettle, Relations, Storing
<1> QED BY <1>3, <1>7, <1>8, <1>9, <1>10 DEF Relations

\* An operation is settled after its result was published.
LEMMA CompletedKeeps ==
    ASSUME TypeOK, TypeOK', Relations, FinishCompleted
    PROVE  Relations'
<1> USE DEF Relations
<1>1. /\ pc = "stored" /\ pc' = ProviderOf[cur] /\ cur \in Op /\ ProviderOf[cur] \in Provider
      /\ UNCHANGED <<file, people, cur, usage, m3, capHit, config, billed, charge, bought, steady>>
      /\ left' = IF cur = Clay THEN left ELSE left \ {cur[2]}
  BY Kinds DEF FinishCompleted, AfterCall, ledger, world, history, TypeOK
<1>2. /\ mem = disk /\ people = file /\ Passing /\ Busy /\ Pass = ProviderOf[cur]
      /\ InFlight(disk.ops) \subseteq {cur} /\ disk.ops[cur].state \in {"in_flight", "pending"}
      /\ WorkIsPublished /\ disk.bound \in Snapshots
  BY <1>1 DEF MemoryFollowsFiles, Passing, Busy, Pass, CurrentIsOpen
<1>3. /\ mem' \in Checkpoint /\ disk' = mem' /\ Moved(disk.ops, disk'.ops, cur, "completed")
      /\ disk'.bound = disk.bound /\ disk'.batch = disk.batch
      /\ \A k \in disk'.selected : k \in disk.selected \/ (k \in Contacts /\ people[k].known)
  BY <1>1, <1>2, CompletedWrites DEF TypeOK
<1>4. Passing' /\ ~Busy' /\ Pass' = Pass /\ pc' \notin {"down", "resetting", "pausing", "saving", "begun", "called", "stored"}
  BY <1>1, <1>2 DEF Passing, Busy, Pass, Provider
<1>5. SameKnown /\ \A k \in Contacts : Rank(k)' = Rank(k)
  <2>1. SameKnown
    BY <1>1 DEF SameKnown
  <2> QED BY <2>1, SameRank
<1>6. MemoryFollowsFiles' /\ RebindingIsClean'
  BY <1>1, <1>2, <1>3, <1>4 DEF MemoryFollowsFiles, RebindingIsClean
<1>7. OnlyPollsWait'
  BY <1>3 DEF OnlyPollsWait, Moved
<1>8. CurrentIsOpen'
  <2>1. \A q \in InFlight(disk'.ops) : q \in Op /\ disk'.ops[q].state = "in_flight"
    BY <1>3, Members
  <2>2. \A q \in Op : disk.ops[q].state = "in_flight" => q = cur
    BY <1>2, Members DEF TypeOK
  <2>3. InFlight(disk'.ops) = {}
    BY <1>3, <2>1, <2>2 DEF Moved
  <2> QED BY <1>2, <1>3, <1>4, <2>3 DEF CurrentIsOpen
<1>9. VisitsArePaid'
  <2> HIDE DEF Rank
  <2> QED BY <1>1, <1>2, <1>3, <1>4, <1>5 DEF VisitsArePaid
<1>10. /\ \A c \in Companies : Exa(c) \in Op
       /\ \A k \in Contacts : /\ Apollo(k) \in Op /\ Instantly(k) \in Op
                              /\ CompanyOf[k] \in Companies
       /\ Clay \in Op
  BY Identities
<1>11. OnlyBoundWork'
  <2>1. \A q \in Op : disk'.ops[q].state # "none" => disk.ops[q].state # "none"
    BY <1>2, <1>3 DEF Moved
  <2> QED BY <1>1, <1>3, <1>10, <2>1 DEF OnlyBoundWork
<1>12. WorkIsPublished'
  <2>1. \A k \in disk'.selected : file'[k].known
    BY <1>1, <1>2, <1>3 DEF WorkIsPublished
  <2>2. ASSUME NEW k \in Contacts
        PROVE  ContactIsPublished(k)'
    <3>1. ContactIsPublished(k)
      BY <1>2 DEF WorkIsPublished
    <3>2. \A q \in Op : \/ disk'.ops[q].state = disk.ops[q].state
                        \/ /\ q = cur /\ disk'.ops[q].state = "completed"
                           /\ disk.ops[q].state \in {"in_flight", "pending"}
      BY <1>2, <1>3 DEF Moved
    <3>3. Worked(k)' <=> Worked(k)
      BY <1>3, <1>10, <3>2 DEF Worked
    <3>4. /\ cur = Clay /\ k \in disk.batch => file[k].clay
          /\ cur = Instantly(k) => file[k].verdict = "settled"
      BY <1>1, <1>2 DEF AnswersAreStored
    <3> HIDE DEF Rank, Worked
    <3> QED BY <1>1, <1>3, <1>5, <1>10, <3>1, <3>2, <3>3, <3>4 DEF ContactIsPublished
  <2> QED BY <2>1, <2>2 DEF WorkIsPublished
<1>13. AnswersAreStored'
  BY <1>4 DEF AnswersAreStored
<1>14. charge = 0
  BY <1>1 DEF LedgerCovers
<1>15. LedgerCovers'
  BY <1>1, <1>4, <1>14 DEF LedgerCovers
<1>16. BoughtIsRecorded'
  <2>1. bought \subseteq Op
    BY DEF TypeOK
  <2> QED BY <1>1, <1>3, <1>4, <2>1 DEF BoughtIsRecorded, Moved
<1>17. PassesSettle'
  <2>1. Paid' = Paid /\ Accepted' = Accepted
    BY <1>1, <1>5, SamePaid
  <2>2. \A q \in Op : /\ disk.ops[q].state = "completed" => disk'.ops[q].state = "completed"
                      /\ disk'.ops[q].state = "pending" => disk.ops[q].state = "pending"
    BY <1>3 DEF Moved
  <2>3. disk'.ops[cur].state = "completed"
    BY <1>3 DEF Moved
  <2>4. \A k \in Paid : k \in Contacts
    BY DEF Paid
  <2>5. \A c \in Accepted : c \in Companies
    BY DEF Accepted, TypeOK
  <2> HIDE DEF Paid, Accepted
  <2>6. CASE ProviderOf[cur] = "exa"
    <3> DEFINE d == cur[2]
    <3>1. cur = Exa(d) /\ cur # Clay /\ left' = left \ {d}
      BY <1>1, <2>6, Kinds, Identities
    <3> HIDE DEF d
    <3>2. steady => /\ disk.bound = m3
                    /\ \A c \in Accepted \ left : disk.ops[Exa(c)].state = "completed"
      BY <1>2, <2>6 DEF PassesSettle
    <3>3. steady => \A c \in Accepted \ left' : disk'.ops[Exa(c)].state = "completed"
      BY <1>10, <2>2, <2>3, <2>5, <3>1, <3>2
    <3>4. Pass' = "exa" /\ pc' \notin {"pausing", "saving", "resetting"}
      BY <1>2, <1>4, <2>6
    <3> QED BY <1>1, <1>3, <2>1, <3>2, <3>3, <3>4 DEF PassesSettle
  <2>7. CASE ProviderOf[cur] = "clay"
    BY <1>1, <1>2, <1>3, <1>4, <1>10, <2>1, <2>2, <2>3, <2>5, <2>7 DEF PassesSettle
  <2>8. CASE ProviderOf[cur] = "apollo"
    <3> DEFINE a == cur[2]
    <3>1. cur = Apollo(a) /\ cur # Clay /\ left' = left \ {a}
      BY <1>1, <2>8, Kinds, Identities
    <3> HIDE DEF a
    <3>2. steady => /\ disk.bound = m3 /\ disk.ops[Clay].state # "pending"
                    /\ \A c \in Accepted : disk.ops[Exa(c)].state = "completed"
                    /\ ~capHit => \A k \in Paid : people[k].clay
                    /\ \A k \in Paid \ left : people[k].clay =>
                         people[k].email \/ disk.ops[Apollo(k)].state = "completed"
      BY <1>2, <2>8 DEF PassesSettle
    <3>3. steady => \A k \in Paid \ left' : people[k].clay =>
            people[k].email \/ disk'.ops[Apollo(k)].state = "completed"
      BY <1>10, <2>2, <2>3, <2>4, <3>1, <3>2
    <3>4. steady => /\ disk'.ops[Clay].state # "pending"
                    /\ \A c \in Accepted : disk'.ops[Exa(c)].state = "completed"
      BY <1>10, <2>2, <2>5, <3>2
    <3>5. Pass' = "apollo" /\ pc' \notin {"pausing", "saving", "resetting"}
      BY <1>2, <1>4, <2>8
    <3> QED BY <1>1, <1>3, <2>1, <3>2, <3>3, <3>4, <3>5 DEF PassesSettle
  <2>9. CASE ProviderOf[cur] = "instantly"
    <3> DEFINE a == cur[2]
    <3>1. cur = Instantly(a) /\ cur # Clay /\ left' = left \ {a}
      BY <1>1, <2>9, Kinds, Identities
    <3> HIDE DEF a
    <3>2. steady => /\ disk.bound = m3 /\ disk.ops[Clay].state # "pending"
                    /\ \A c \in Accepted : disk.ops[Exa(c)].state = "completed"
                    /\ ~capHit => \A k \in Paid : people[k].clay
                    /\ \A k \in Paid : people[k].clay =>
                         people[k].email \/ disk.ops[Apollo(k)].state = "completed"
                    /\ \A k \in Paid : k \notin left /\ people[k].email =>
                         disk.ops[Instantly(k)].state = "completed"
      BY <1>2, <2>9 DEF PassesSettle
    <3>3. steady => \A k \in Paid : k \notin left' /\ people[k].email =>
            disk'.ops[Instantly(k)].state = "completed"
      BY <1>10, <2>2, <2>3, <2>4, <3>1, <3>2
    <3>4. steady => /\ disk'.ops[Clay].state # "pending"
                    /\ \A c \in Accepted : disk'.ops[Exa(c)].state = "completed"
                    /\ \A k \in Paid : people[k].clay =>
                         people[k].email \/ disk'.ops[Apollo(k)].state = "completed"
      BY <1>10, <2>2, <2>4, <2>5, <3>2
    <3>5. Pass' = "instantly" /\ pc' \notin {"pausing", "saving", "resetting"}
      BY <1>2, <1>4, <2>9
    <3> QED BY <1>1, <1>3, <2>1, <3>2, <3>3, <3>4, <3>5 DEF PassesSettle
  <2> QED BY <1>1, <2>6, <2>7, <2>8, <2>9 DEF Provider
<1> QED BY <1>6, <1>7, <1>8, <1>9, <1>11, <1>12, <1>13, <1>15, <1>16, <1>17

\* An operation to ask for later is put on record, and the pause prepared.
LEMMA PendedKeeps ==
    ASSUME TypeOK, TypeOK', Relations, FinishPending
    PROVE  Relations'
<1> USE DEF Relations
<1>1. /\ pc = "recorded" /\ cur \in Op /\ disk' = Pended /\ Pended \in Checkpoint
      /\ ProviderOf[cur] \in {"clay", "instantly"}
      /\ UNCHANGED <<file, cur, usage, m3, billed, charge, bought, steady>>
      /\ Pause(Pended, "paused_pending", IF cur = Clay THEN <<"clay_pending">> ELSE cur)
  BY PendedWrites, Identities DEF FinishPending, AfterCall, ledger, world, history, TypeOK
<1> DEFINE r == IF cur = Clay THEN <<"clay_pending">> ELSE cur
<1>2. r \in Reasons
  BY <1>1 DEF Reasons
<1>3. Pause(Pended, "paused_pending", r)
  BY <1>1
<1> HIDE DEF r
<1>4. /\ mem = disk /\ people = file /\ Passing /\ Busy
      /\ disk.ops[cur].state \in {"in_flight", "pending"} /\ WorkIsPublished
  BY <1>1 DEF MemoryFollowsFiles, Passing, Busy, CurrentIsOpen
<1>5. /\ mem'.ops = disk'.ops /\ mem'.batch = disk'.batch /\ SameBinding(disk', mem')
      /\ mem'.status = "paused_pending" /\ pc' = "pausing"
  BY <1>1, <1>2, <1>3, PauseWrites DEF Statuses
<1>6. /\ Moved(disk.ops, disk'.ops, cur, "pending")
      /\ disk'.bound = disk.bound /\ disk'.batch = disk.batch /\ disk'.selected = disk.selected
  BY <1>1, <1>4, PendedWrites DEF TypeOK, SameBinding
<1>7. \A k \in Contacts :
        /\ people'[k].known <=> people[k].known
        /\ people'[k].email <=> people[k].email
        /\ people'[k].clay <=> people[k].clay
        /\ people'[k].verdict # people[k].verdict => cur = Instantly(k)
  <2>1. CASE UNCHANGED people
    BY <2>1
  <2>2. CASE /\ ProviderOf[cur] = "instantly"
             /\ people' = [people EXCEPT ![cur[2]].verdict = "pending"]
    <3> DEFINE a == cur[2]
    <3>1. a \in Contacts /\ cur = Instantly(a)
      BY <1>1, <2>2, Kinds
    <3>2. people' = [people EXCEPT ![a].verdict = "pending"]
      BY <2>2
    <3> HIDE DEF a
    <3> QED BY <3>1, <3>2 DEF TypeOK, Contact
  <2> QED BY <2>1, <2>2 DEF FinishPending
<1>8. SameKnown /\ \A k \in Contacts : Rank(k)' = Rank(k)
  <2>1. SameKnown
    BY <1>7 DEF SameKnown
  <2> QED BY <2>1, SameRank
<1>9. ~Passing' /\ ~Busy'
  BY <1>5 DEF Passing, Busy, Provider
<1>10. MemoryFollowsFiles'
  <2>1. \A k \in Contacts : people'[k].verdict # file'[k].verdict =>
          disk'.ops[Instantly(k)].state = "pending"
    BY <1>1, <1>4, <1>6, <1>7 DEF Moved
  <2> QED BY <1>1, <1>4, <1>5, <1>7, <2>1 DEF MemoryFollowsFiles, SameBinding
<1>11. RebindingIsClean' /\ CurrentIsOpen' /\ VisitsArePaid' /\ AnswersAreStored'
  BY <1>5, <1>9 DEF RebindingIsClean, CurrentIsOpen, VisitsArePaid, AnswersAreStored, Provider
<1>12. OnlyPollsWait'
  BY <1>1, <1>6 DEF OnlyPollsWait, Moved
<1>13. /\ \A c \in Companies : Exa(c) \in Op
       /\ \A k \in Contacts : /\ Apollo(k) \in Op /\ Instantly(k) \in Op
                              /\ CompanyOf[k] \in Companies /\ Exa(CompanyOf[k]) # cur
       /\ Clay \in Op
  BY <1>1, Identities
<1>14. \A q \in Op : \/ disk'.ops[q].state = disk.ops[q].state
                     \/ /\ q = cur /\ disk'.ops[q].state = "pending"
                        /\ disk.ops[q].state \in {"in_flight", "pending"}
  BY <1>4, <1>6 DEF Moved
<1>15. OnlyBoundWork'
  BY <1>1, <1>6, <1>13, <1>14 DEF OnlyBoundWork
<1>16. WorkIsPublished'
  <2>1. \A k \in disk'.selected : file'[k].known
    BY <1>1, <1>4, <1>6 DEF WorkIsPublished
  <2>2. ASSUME NEW k \in Contacts
        PROVE  ContactIsPublished(k)'
    <3>1. ContactIsPublished(k)
      BY <1>4 DEF WorkIsPublished
    <3>2. Worked(k)' <=> Worked(k)
      BY <1>6, <1>13, <1>14 DEF Worked
    <3> HIDE DEF Rank, Worked
    <3> QED BY <1>1, <1>6, <1>8, <1>13, <1>14, <3>1, <3>2 DEF ContactIsPublished
  <2> QED BY <2>1, <2>2 DEF WorkIsPublished
<1>17. charge = 0
  BY <1>1 DEF LedgerCovers
<1>18. LedgerCovers'
  BY <1>1, <1>5, <1>17 DEF LedgerCovers
<1>19. BoughtIsRecorded'
  <2>1. bought \subseteq Op
    BY DEF TypeOK
  <2> QED BY <1>1, <1>5, <1>14, <2>1 DEF BoughtIsRecorded
<1>20. PassesSettle'
  BY <1>5, <1>9 DEF PassesSettle
<1> QED BY <1>10, <1>11, <1>12, <1>15, <1>16, <1>18, <1>19, <1>20

\* A run that has not ended, or an error, pauses the stage as it is.
LEMMA StoppedKeeps ==
    ASSUME TypeOK, TypeOK', Relations, StillPending \/ StopOnError
    PROVE  Relations'
<1>1. /\ pc = "recorded" /\ cur \in Op /\ mem \in Checkpoint
      /\ UNCHANGED <<disk, file, people, cur, usage, m3, billed, charge, bought, steady>>
  BY DEF StillPending, StopOnError, AfterCall, ledger, world, history, TypeOK
<1>2. mem = disk /\ Passing
  BY <1>1 DEF Relations, MemoryFollowsFiles, Passing, Busy
<1>3. PICK s \in Statuses \ {"completed"}, r \in Reasons : Pause(mem, s, r)
  <2>1. CASE StillPending
    BY <2>1 DEF StillPending, Statuses, Reasons
  <2>2. CASE StopOnError
    <3> DEFINE t == IF answer = "exhausted" THEN "paused_budget"
                    ELSE IF Reading THEN "paused_pending" ELSE "paused_unknown"
               q == IF cur # Clay THEN cur
                    ELSE IF Reading THEN <<"clay_pending">> ELSE <<"clay_start">>
    <3>1. t \in Statuses \ {"completed"} /\ q \in Reasons
      BY <1>1 DEF Statuses, Reasons
    <3>2. Pause(mem, t, q)
      BY <2>2 DEF StopOnError
    <3> HIDE DEF t, q
    <3> QED BY <3>1, <3>2
  <2> QED BY <2>1, <2>2
<1>4. /\ mem'.ops = disk.ops /\ mem'.batch = disk.batch /\ SameBinding(disk, mem')
      /\ mem'.status = s /\ pc' = "pausing"
  BY <1>1, <1>2, <1>3, PauseWrites
<1> QED BY <1>1, <1>2, <1>3, <1>4, PauseKeeps

-----------------------------------------------------------------------------
(***************************************************************************)
(* The invariant.                                                          *)
(***************************************************************************)
LEMMA RelationsStep ==
    ASSUME TypeOK, TypeOK', Relations, [Next]_vars
    PROVE  Relations'
<1>1. ASSUME NEW cfg \in Configs, StartFrozen(cfg) \/ Reset(cfg) \/ Resume(cfg)
      PROVE  Relations'
  BY <1>1, FrozenKeeps, ResetKeeps, ResumeKeeps
<1>2. CASE SaveReset
  BY <1>2, SaveResetKeeps
<1>3. CASE ExaPass \/ ClayPass \/ ApolloPass \/ InstantlyPass \/ Finish
  BY <1>3, ExaPassKeeps, ClayPassKeeps, ApolloPassKeeps, InstantlyPassKeeps, FinishKeeps
<1>4. CASE EnterClay \/ EnterApollo \/ EnterInstantly
  BY <1>4, EnterKeeps
<1>5. ASSUME NEW outcome \in Answers, NEW cost \in 0..1, Call(outcome, cost)
      PROVE  Relations'
  BY <1>5, CallKeeps
<1>6. ASSUME NEW priced \in BOOLEAN, RecordUsage(priced)
      PROVE  Relations'
  BY <1>6, RecordKeeps
<1>7. ASSUME NEW found \in SUBSET Contacts, StorePeople(found) \/ StoreClayEmails(found)
      PROVE  Relations'
  BY <1>7, StorePeopleKeeps, StoreClayKeeps
<1>8. ASSUME NEW found \in BOOLEAN, StoreApolloEmail(found)
      PROVE  Relations'
  BY <1>8, StoreApolloKeeps
<1>9. CASE StoreVerdict \/ FinishCompleted \/ FinishPending \/ StillPending \/ StopOnError
  BY <1>9, StoreVerdictKeeps, CompletedKeeps, PendedKeeps, StoppedKeeps
<1>10. CASE PublishContacts \/ SavePause \/ Crash
  BY <1>10, PublishKeeps, SaveKeeps, CrashKeeps
<1>11. CASE Reevaluate \/ M2Changes \/ UNCHANGED vars
  BY <1>11, OutsideKeeps
<1> QED
  BY <1>1, <1>2, <1>3, <1>4, <1>5, <1>6, <1>7, <1>8, <1>9, <1>10, <1>11 DEF Next, Stage

\* Types and relations are the invariant of the module.
LEMMA InvParts ==
    ContactInv <=> TypeOK /\ Relations
  BY DEF ContactInv, Relations

\* Every step keeps the invariant.
LEMMA InvStep ==
    ASSUME ContactInv, [Next]_vars
    PROVE  ContactInv'
<1>1. TypeOK /\ Relations
  BY InvParts
<1>2. TypeOK'
  BY <1>1, TypeStep DEF Relations
<1>3. Relations'
  BY <1>1, <1>2, RelationsStep
<1> QED BY <1>2, <1>3 DEF ContactInv, Relations


-----------------------------------------------------------------------------
(***************************************************************************)
(* What a step does to the operations on file: it begins one, settles one, *)
(* saves an empty binding, charges for one, or leaves their states alone.  *)
(***************************************************************************)
Begins(o) ==
    /\ InFlight(disk.ops) = {} /\ InFlight(disk'.ops) = {o} /\ disk.ops[o].state = "none"
    /\ Moved(disk.ops, disk'.ops, o, "in_flight")
    /\ disk'.status = "running" /\ UNCHANGED <<billed, config>>

Settles ==
    /\ pc \in {"recorded", "stored"} /\ ~Failed
    /\ \E s \in {"pending", "completed"} : Moved(disk.ops, disk'.ops, cur, s)
    /\ InFlight(disk'.ops) = {}
    /\ disk'.status = disk.status /\ UNCHANGED <<billed, config>>

Empties ==
    /\ Unfinished(disk) = {} /\ InFlight(disk'.ops) = {}
    /\ disk'.status = "running" /\ UNCHANGED <<billed, config>>

Charges ==
    /\ \E outcome \in Answers, cost \in 0..1 : Call(outcome, cost)
    /\ UNCHANGED <<disk, config>>

KeepsStates ==
    /\ \A o \in Op : disk'.ops[o].state = disk.ops[o].state
    /\ disk'.status = disk.status \/ SavePause
    /\ UNCHANGED billed

\* A pass begins one operation, admits a read, or writes nothing.
LEMMA PassWrites ==
    ASSUME TypeOK, Relations, ExaPass \/ ClayPass \/ ApolloPass \/ InstantlyPass \/ Finish
    PROVE  /\ UNCHANGED <<billed, config>> /\ mem = disk /\ InFlight(disk.ops) = {}
           /\ \/ UNCHANGED disk
              \/ \E o \in Op : AdmitRead(o)
              \/ \E o \in Op, batch \in SUBSET Contacts :
                   Begin(o, batch) /\ disk.ops[o].state = "none"
<1>1. UNCHANGED <<billed, config>> /\ pc \in Provider /\ mem = disk /\ InFlight(disk.ops) = {}
  BY DEF ExaPass, ClayPass, ApolloPass, InstantlyPass, Finish, At, BetweenOps, history, Provider,
         Relations, MemoryFollowsFiles, CurrentIsOpen
<1>2. mem.batch \in SUBSET Contacts
  BY CheckpointType DEF TypeOK
<1>3. \A o \in Op : disk.ops[o].state \notin {"completed", "pending"} => disk.ops[o].state = "none"
  <2>1. \A o \in Op : disk.ops[o].state \in OpStates
    BY CheckpointType DEF TypeOK
  <2>2. \A o \in Op : disk.ops[o].state \notin {"in_flight", "failed"}
    BY <1>1, Members DEF TypeOK, Relations, OnlyPollsWait
  <2> QED BY <2>1, <2>2 DEF OpStates
<1>4. CASE ExaPass
  <2> DEFINE o == Exa(First(left))
  <2>1. o \in Op /\ disk.ops[o].state # "pending"
    <3>1. First(left) \in Companies
      BY <1>1, <1>4, NextVisit DEF ExaPass, At, Relations
    <3>2. o \in Op /\ ProviderOf[o] = "exa"
      BY <3>1, Identities
    <3> HIDE DEF o
    <3> QED BY <3>2 DEF Relations, OnlyPollsWait
  <2>2. \/ UNCHANGED disk
        \/ disk.ops[o].state # "completed" /\ Begin(o, mem.batch)
    BY <1>1, <1>4 DEF ExaPass, Skip, PauseHere
  <2> HIDE DEF o
  <2> QED BY <1>1, <1>2, <1>3, <2>1, <2>2
<1>5. CASE ClayPass
  <2>1. Clay \in Op /\ Passing /\ Pass = "clay"
    BY <1>1, <1>5, Identities DEF ClayPass, Passing, Pass, Busy
  <2>2. Batch \in SUBSET Contacts
    BY <2>1 DEF Batch, VisitsArePaid, Relations
  <2>3. \/ UNCHANGED disk \/ AdmitRead(Clay)
        \/ disk.ops[Clay].state = "none" /\ Begin(Clay, Batch)
    BY <1>1, <1>5 DEF ClayPass, PauseHere
  <2> QED BY <1>1, <2>1, <2>2, <2>3
<1>6. CASE ApolloPass
  <2> DEFINE o == Apollo(First(left))
  <2>1. o \in Op /\ disk.ops[o].state # "pending"
    <3>1. First(left) \in Contacts
      BY <1>1, <1>6, NextVisit DEF ApolloPass, At, Relations
    <3>2. o \in Op /\ ProviderOf[o] = "apollo"
      BY <3>1, Identities
    <3> HIDE DEF o
    <3> QED BY <3>2 DEF Relations, OnlyPollsWait
  <2>2. \/ UNCHANGED disk
        \/ disk.ops[o].state # "completed" /\ Begin(o, mem.batch)
    BY <1>1, <1>6 DEF ApolloPass, Skip, PauseHere
  <2> HIDE DEF o
  <2> QED BY <1>1, <1>2, <1>3, <2>1, <2>2
<1>7. CASE InstantlyPass
  <2> DEFINE o == Instantly(First(left))
  <2>1. o \in Op
    BY <1>1, <1>7, NextVisit, Identities DEF InstantlyPass, At, Relations
  <2>2. \/ UNCHANGED disk \/ AdmitRead(o)
        \/ disk.ops[o].state \notin {"completed", "pending"} /\ Begin(o, mem.batch)
    BY <1>1, <1>7 DEF InstantlyPass, Skip, PauseHere
  <2> HIDE DEF o
  <2> QED BY <1>1, <1>2, <1>3, <2>1, <2>2
<1>8. CASE Finish
  BY <1>1, <1>8 DEF Finish
<1> QED BY <1>4, <1>5, <1>6, <1>7, <1>8

LEMMA StepWrites ==
    ASSUME ContactInv, ContactInv', [Next]_vars
    PROVE  (\E o \in Op : Begins(o)) \/ Settles \/ Empties \/ Charges \/ KeepsStates
<1>1. TypeOK /\ Relations /\ TypeOK' /\ Relations'
  BY DEF ContactInv, Relations
<1>2. disk \in Checkpoint /\ mem \in Checkpoint /\ disk' \in Checkpoint
      /\ cur \in Op /\ reads \in [Op -> Nat]
  BY <1>1 DEF TypeOK
<1>3. ASSUME UNCHANGED <<disk, billed>> PROVE KeepsStates
  BY <1>3 DEF KeepsStates
<1>4. CASE \E cfg \in Configs : StartFrozen(cfg) \/ Reset(cfg) \/ Resume(cfg)
  BY <1>3, <1>4 DEF StartFrozen, Reset, Resume, Load
<1>5. CASE SaveReset
  <2>1. /\ Unfinished(disk) = {} /\ disk' = mem /\ mem.status = "running"
        /\ \A o \in Op : mem.ops[o].state = "none"
        /\ UNCHANGED <<billed, config>>
    BY <1>1, <1>5 DEF SaveReset, Relations, RebindingIsClean, Absent
  <2>2. InFlight(disk'.ops) = {}
    BY <1>2, <2>1, Members
  <2> QED BY <2>1, <2>2 DEF Empties
<1>6. CASE ExaPass \/ ClayPass \/ ApolloPass \/ InstantlyPass \/ Finish
  <2>1. UNCHANGED <<billed, config>> /\ mem = disk /\ InFlight(disk.ops) = {}
    BY <1>1, <1>6, PassWrites
  <2>2. ASSUME NEW o \in Op, AdmitRead(o) PROVE KeepsStates
    BY <1>2, <2>1, <2>2, AdmitWrites DEF KeepsStates
  <2>3. ASSUME NEW o \in Op, NEW batch \in SUBSET Contacts, Begin(o, batch),
               disk.ops[o].state = "none"
        PROVE  Begins(o)
    <3>1. disk' = mem' /\ mem'.status = "running" /\ Moved(disk.ops, disk'.ops, o, "in_flight")
      BY <1>2, <2>1, <2>3, BeginWrites
    <3>2. InFlight(disk'.ops) = {o}
      <4>1. \A q \in Op : disk.ops[q].state # "in_flight"
        BY <1>2, <2>1, Members
      <4>2. \A q : q \in InFlight(disk'.ops) <=> q \in Op /\ disk'.ops[q].state = "in_flight"
        BY <1>2, Members
      <4> QED BY <3>1, <4>1, <4>2 DEF Moved
    <3> QED BY <2>1, <2>3, <3>1, <3>2 DEF Begins
  <2> QED BY <1>1, <1>3, <1>6, <2>1, <2>2, <2>3, PassWrites
<1>7. CASE EnterClay \/ EnterApollo \/ EnterInstantly
  BY <1>3, <1>7 DEF EnterClay, EnterApollo, EnterInstantly, BetweenOps, history
<1>8. CASE \E outcome \in Answers, cost \in 0..1 : Call(outcome, cost)
  BY <1>8 DEF Charges, Call
<1>9. CASE \E priced \in BOOLEAN : RecordUsage(priced)
  BY <1>3, <1>9 DEF RecordUsage
<1>10. CASE \/ \E found \in SUBSET Contacts : StorePeople(found) \/ StoreClayEmails(found)
            \/ \E found \in BOOLEAN : StoreApolloEmail(found)
            \/ StoreVerdict
  BY <1>3, <1>10 DEF StorePeople, StoreClayEmails, StoreApolloEmail, StoreVerdict, Publish,
                     AfterCall, history
<1>11. ASSUME pc \in {"recorded", "stored"}
       PROVE  mem = disk /\ InFlight(disk.ops) \subseteq {cur}
  BY <1>1, <1>11 DEF Relations, MemoryFollowsFiles, CurrentIsOpen, Passing, Busy
<1>12. ASSUME NEW s \in {"pending", "completed"}, Moved(disk.ops, disk'.ops, cur, s),
              InFlight(disk.ops) \subseteq {cur}
       PROVE  InFlight(disk'.ops) = {}
  <2>1. \A q \in Op : disk.ops[q].state = "in_flight" => q = cur
    BY <1>2, <1>12, Members
  <2>2. \A q : q \in InFlight(disk'.ops) => q \in Op /\ disk'.ops[q].state = "in_flight"
    BY <1>2, Members
  <2> QED BY <1>12, <2>1, <2>2 DEF Moved
<1>13. CASE FinishCompleted
  <2>1. pc = "stored" /\ UNCHANGED <<billed, config>>
    BY <1>13 DEF FinishCompleted, AfterCall, history
  <2>2. mem = disk /\ InFlight(disk.ops) \subseteq {cur} /\ ~Failed
    BY <1>1, <1>11, <2>1 DEF Relations, CurrentIsOpen, Failed
  <2>3. /\ disk' = mem' /\ mem'.status = mem.status
        /\ Moved(disk.ops, disk'.ops, cur, "completed")
    BY <1>2, <1>13, <2>2, CompletedWrites
  <2> QED BY <1>12, <2>1, <2>2, <2>3 DEF Settles
<1>14. CASE FinishPending
  <2>1. /\ pc = "recorded" /\ ~Failed /\ disk' = Pended /\ UNCHANGED <<billed, config>>
    BY <1>14 DEF FinishPending, AfterCall, history, Failed
  <2>2. mem = disk /\ InFlight(disk.ops) \subseteq {cur}
    BY <1>11, <2>1
  <2>3. Moved(disk.ops, disk'.ops, cur, "pending")
    BY <1>2, <2>1, <2>2, PendedWrites
  <2>4. Pended.status = mem.status
    BY <1>2 DEF Pended, Checkpoint
  <2> QED BY <1>12, <2>1, <2>2, <2>3, <2>4 DEF Settles
<1>15. CASE StillPending \/ StopOnError \/ PublishContacts
  BY <1>3, <1>15 DEF StillPending, StopOnError, PublishContacts, AfterCall, history
<1>16. CASE SavePause
  <2>1. disk' = mem /\ mem.ops = disk.ops /\ UNCHANGED billed
    BY <1>1, <1>16 DEF SavePause, history, Relations, MemoryFollowsFiles
  <2> QED BY <1>16, <2>1 DEF KeepsStates
<1>17. CASE Crash \/ Reevaluate \/ M2Changes
  BY <1>3, <1>17 DEF Crash, Reevaluate, M2Changes, history
<1>18. CASE UNCHANGED vars
  BY <1>3, <1>18 DEF vars, history
<1> QED
  BY <1>4, <1>5, <1>6, <1>7, <1>8, <1>9, <1>10, <1>13, <1>14, <1>15, <1>16, <1>17, <1>18
  DEF Next, Stage

-----------------------------------------------------------------------------
(***************************************************************************)
(* Theorems.                                                               *)
(***************************************************************************)
\* Every reachable state satisfies the invariant, whatever crashes, whatever
\* the providers answer and whenever the decisions change.
THEOREM Invariance == Spec => []ContactInv
<1>1. Init => ContactInv
  BY InitRelations DEF ContactInv, Relations
<1>2. ContactInv /\ [Next]_vars => ContactInv'
  BY InvStep
<1> QED BY <1>1, <1>2, PTL DEF Spec

\* The checkpoint, the contacts and the ledger keep their shapes.
THEOREM TypeCorrectness == Spec => []TypeOK
<1>1. ContactInv => TypeOK
  BY DEF ContactInv
<1> QED BY <1>1, Invariance, PTL

\* No operation and no published contact belongs to a company that was not
\* accepted in the snapshot the checkpoint is bound to, also between the two
\* writes of a rebinding.
THEOREM BindingRespected == Spec => []OnlyBoundWork
<1>1. ContactInv => OnlyBoundWork
  BY DEF ContactInv
<1> QED BY <1>1, Invariance, PTL

\* What a settled operation bought is published: the contacts are written
\* before the operation is settled, and a crash comes between the two only
\* while the operation is unresolved.
THEOREM ResultsArePublished == Spec => []SettledIsPublished
<1>1. ContactInv => SettledIsPublished
  <2>1. SUFFICES ASSUME ContactInv, file # Nobody PROVE SettledIsPublished
    BY DEF SettledIsPublished
  <2>2. WorkIsPublished /\ disk.batch \in SUBSET Contacts
    BY <2>1, CheckpointType DEF ContactInv, TypeOK
  <2> QED BY <2>2 DEF SettledIsPublished, WorkIsPublished, ContactIsPublished
<1> QED BY <1>1, Invariance, PTL

\* No purchase is made twice under one binding, however often the stage is
\* interrupted and rerun.
THEOREM NothingBoughtTwice == Spec => BoughtOnce
<1>1. ContactInv => (pc = "begun" /\ pc' = "called" /\ ~Reading => cur \notin bought)
  <2> SUFFICES ASSUME ContactInv, pc = "begun", ~Reading PROVE cur \notin bought
    OBVIOUS
  <2>1. mem = disk /\ Busy
    BY DEF ContactInv, MemoryFollowsFiles, Busy
  <2>2. disk.ops[cur].state = "in_flight"
    BY <2>1 DEF ContactInv, CurrentIsOpen, Reading
  <2> QED BY <2>2 DEF ContactInv, BoughtIsRecorded
<1>2. ContactInv /\ [Next]_vars =>
        [pc = "begun" /\ pc' = "called" /\ ~Reading => cur \notin bought]_vars
  BY <1>1
<1> QED BY <1>2, Invariance, PTL DEF Spec, BoughtOnce

\* An operation whose outcome is open is settled by its own answer only: no
\* rerun, pause, crash or new snapshot drops it.
THEOREM NoWorkAbandoned == Spec => WorkIsNotAbandoned
<1> DEFINE Kept == \A o \in Unfinished(disk) : disk'.ops[o].state # disk.ops[o].state =>
                     cur = o /\ pc \in {"recorded", "stored"} /\ ~Failed
<1>1. ASSUME ContactInv, ContactInv', [Next]_vars PROVE Kept
  <2>1. \A o : o \in Unfinished(disk) <=> o \in Op /\ disk.ops[o].state \in {"in_flight", "pending"}
    BY <1>1, Members DEF ContactInv, TypeOK
  <2>2. CASE Settles
    BY <2>1, <2>2 DEF Settles, Moved
  <2>3. CASE \E o \in Op : Begins(o)
    BY <2>1, <2>3 DEF Begins, Moved
  <2>4. CASE Empties
    BY <2>4 DEF Empties
  <2>5. CASE Charges \/ KeepsStates
    BY <2>1, <2>5 DEF Charges, KeepsStates
  <2> QED BY <1>1, <2>2, <2>3, <2>4, <2>5, StepWrites
<1>2. ContactInv /\ ContactInv' /\ [Next]_vars => [Kept]_vars
  BY <1>1
<1> QED BY <1>2, Invariance, PTL DEF Spec, WorkIsNotAbandoned

\* A stage reported as completed, without new decisions during its run, has
\* searched every accepted company and taken every paid contact to its end.
THEOREM CompletionIsEarned == Spec => CompletedIsDone
<1> DEFINE Done == disk.status # "completed" /\ disk'.status = "completed" /\ steady =>
                     /\ Unfinished(disk') = {}
                     /\ \A c \in Accepted : disk'.ops[Exa(c)].state = "completed"
                     /\ \A k \in Paid :
                          /\ file[k].clay
                          /\ IF file[k].email THEN file[k].verdict = "settled"
                             ELSE disk'.ops[Apollo(k)].state = "completed"
<1>1. ASSUME ContactInv, ContactInv', [Next]_vars,
             disk.status # "completed", disk'.status = "completed", steady
      PROVE  Done
  <2>1. SavePause
    BY <1>1, StepWrites DEF Begins, Settles, Empties, Charges, KeepsStates
  <2>2. /\ pc = "saving" /\ disk' = mem /\ people = file
        /\ mem.ops = disk.ops /\ mem.status = "completed"
        /\ WorkIsPublished /\ disk.batch \in SUBSET Contacts
    BY <1>1, <2>1, CheckpointType DEF SavePause, ContactInv, MemoryFollowsFiles, TypeOK
  <2>3. \A k \in Paid : k \in Contacts
    BY DEF Paid
  <2> HIDE DEF Paid, Accepted
  <2>4. /\ Unfinished(disk) = {}
        /\ \A c \in Accepted : disk.ops[Exa(c)].state = "completed"
        /\ \A k \in Paid : /\ people[k].clay
                           /\ people[k].email \/ disk.ops[Apollo(k)].state = "completed"
                           /\ people[k].email => disk.ops[Instantly(k)].state = "completed"
    BY <1>1, <2>2 DEF ContactInv, PassesSettle
  <2>5. Unfinished(disk') = {}
    BY <2>2, <2>4 DEF Unfinished, WithState
  <2>6. \A k \in Paid : disk.ops[Instantly(k)].state = "completed" => file[k].verdict = "settled"
    BY <2>2, <2>3 DEF WorkIsPublished, ContactIsPublished
  <2> QED BY <2>2, <2>4, <2>5, <2>6
<1>2. ContactInv /\ ContactInv' /\ [Next]_vars => [Done]_vars
  BY <1>1
<1> QED BY <1>2, Invariance, PTL DEF Spec, CompletedIsDone

\* A call charges for the operation in flight, within the ceiling in force.
LEMMA ChargeMaps ==
    ASSUME ContactInv, Charges
    PROVE  (\E o \in Op : Contract!Charge(o)) \/ UNCHANGED Contract!contractVars
<1>1. PICK outcome \in Answers, cost \in 0..1 : Call(outcome, cost)
  BY DEF Charges
<1> DEFINE p == ProviderOf[cur]
<1>2. /\ pc = "begun" /\ cost \in Costs /\ billed' = [billed EXCEPT ![p] = billed[p] + cost]
      /\ UNCHANGED <<disk, config>>
  BY <1>1 DEF Call
<1>3. /\ cur \in Op /\ p \in Provider /\ billed \in [Provider -> Nat] /\ disk \in Checkpoint
      /\ usage[p] \in Totals
  BY Kinds DEF ContactInv, TypeOK
<1>4. mem = disk /\ Busy /\ Passing
  BY <1>2 DEF ContactInv, MemoryFollowsFiles, Busy, Passing
<1>5. CASE cost = 0
  <2>1. billed' = billed
    BY <1>2, <1>3, <1>5
  <2> QED BY <1>2, <2>1 DEF Contract!contractVars
<1>6. CASE cost # 0
  <2>1. cost = 1 /\ cur # Clay /\ disk.ops[cur].state = "in_flight"
    BY <1>2, <1>4, <1>6 DEF Costs, Reading, ContactInv, CurrentIsOpen
  <2>2. InFlight(disk.ops) = {cur}
    <3>1. cur \in InFlight(disk.ops)
      BY <1>3, <2>1, Members
    <3> QED BY <1>4, <3>1 DEF ContactInv, CurrentIsOpen
  <2>3. billed'[p] = billed[p] + 1 /\ billed' = [billed EXCEPT ![p] = billed'[p]]
    BY <1>2, <1>3, <2>1
  <2>4. Fits(p) /\ (usage[p].missing \/ billed[p] <= usage[p].known)
    <3>1. charge = 0
      BY <1>2 DEF ContactInv, LedgerCovers
    <3>2. usage[p].missing \/ billed[p] <= usage[p].known + charge
      BY <1>3 DEF ContactInv, LedgerCovers
    <3>3. Fits(p)
      BY <1>2, <2>1 DEF ContactInv, LedgerCovers
    <3> HIDE DEF p
    <3> QED BY <1>3, <3>1, <3>2, <3>3 DEF Totals
  <2>5. config.ceiling[p] \in Ceilings
    BY <1>3 DEF ContactInv, TypeOK
  <2> HIDE DEF p
  <2>6. billed'[p] >= billed[p]
    BY <1>3, <2>3
  <2>7. config.ceiling[p] # NoCeiling => billed'[p] <= config.ceiling[p]
    <3>1. usage[p].known \in Nat /\ billed[p] \in Nat
      BY <1>3 DEF Totals
    <3> QED BY <2>3, <2>4, <2>5, <3>1 DEF Fits, ReservationFits, Ceilings
  <2>8. Contract!Charge(cur)
    BY <1>2, <2>2, <2>3, <2>6, <2>7 DEF Contract!Charge, p
  <2> QED BY <1>3, <2>8
<1> QED BY <1>5, <1>6

\* The stage keeps the contract of paid operations.  An intent that opens or
\* closes is a begun or settled operation; a charge comes with the one intent
\* open, below the ceiling by what the ledger holds; loading may state other
\* ceilings; everything else leaves the contract's state alone.
THEOREM ContractImplemented == Spec => ImplementsContract
<1>1. Init => Contract!Init
  <2> SUFFICES ASSUME Init PROVE Contract!Init
    OBVIOUS
  <2>1. InFlight(disk.ops) = {}
    BY DEF Init, InFlight, Absent
  <2>2. config.ceiling \in [Provider -> Ceilings]
    BY DEF Init
  <2> QED BY <2>1, <2>2 DEF Init, Contract!Init, Ceilings, Contract!Ceilings
<1>2. ASSUME ContactInv, ContactInv', [Next]_vars
      PROVE  [Contract!Next]_(Contract!contractVars)
  <2>1. CASE \E o \in Op : Begins(o)
    <3>1. PICK o \in Op : Begins(o)
      BY <2>1
    <3>2. Contract!Open(o)
      BY <3>1 DEF Begins, Contract!Open
    <3> QED BY <3>2 DEF Contract!Next
  <2>2. CASE Settles \/ Empties
    BY <2>2 DEF Settles, Empties, Contract!Next, Contract!Close
  <2>3. CASE Charges
    BY <1>2, <2>3, ChargeMaps DEF Contract!Next
  <2>4. CASE KeepsStates
    <3>1. InFlight(disk'.ops) = InFlight(disk.ops)
      <4>1. disk \in Checkpoint /\ disk' \in Checkpoint
        BY <1>2 DEF ContactInv, TypeOK
      <4>2. \A q : q \in InFlight(disk'.ops) <=> q \in InFlight(disk.ops)
        BY <2>4, <4>1, Members DEF KeepsStates
      <4> QED BY <4>2
    <3>2. config'.ceiling \in [Provider -> Ceilings] /\ UNCHANGED billed
      BY <1>2, <2>4 DEF KeepsStates, ContactInv, TypeOK
    <3>3. Contract!SetLimits
      BY <3>1, <3>2 DEF Contract!SetLimits, Ceilings, Contract!Ceilings
    <3> QED BY <3>3 DEF Contract!Next
  <2> QED BY <1>2, <2>1, <2>2, <2>3, <2>4, StepWrites
<1>3. ContactInv /\ ContactInv' /\ [Next]_vars => [Contract!Next]_(Contract!contractVars)
  BY <1>2
<1> QED BY <1>1, <1>3, Invariance, PTL DEF Spec, ImplementsContract, Contract!Spec
=============================================================================
