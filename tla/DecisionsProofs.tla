--------------------------- MODULE DecisionsProofs ---------------------------
(***************************************************************************)
(* For any catalogue of rows, any digest without collisions, any profiles, *)
(* any policy limits, any searches and any number of commands and crashes: *)
(* no company mixes two identities or loses a row, and the companies do    *)
(* not depend on the order of the rows; no missing or doubtful fact fires  *)
(* a rejection, none counts as zero, and what lies outside is never accepted; the         *)
(* decision files agree whenever no evaluation was torn, the calibration   *)
(* files tell one story, and the people kept are the best.                 *)
(***************************************************************************)
EXTENDS Decisions, FiniteLemmas, FiniteSetTheorems, FunctionTheorems, SequenceTheorems, TLAPS

-----------------------------------------------------------------------------
(***************************************************************************)
(* Missing and doubtful facts.                                             *)
(***************************************************************************)

\* What was extracted is a number, or Null or Malformed.
Extracted(p) == \A key \in DOMAIN p : p[key] \in [value : Int, confidence : Nat, cited : BOOLEAN]

\* One profile knows no fact better than another.
Weaker(q, p) ==
    /\ DOMAIN q \subseteq DOMAIN p
    /\ \A key \in DOMAIN q :
          /\ q[key].value = p[key].value /\ q[key].cited = p[key].cited
          /\ {q[key].confidence, p[key].confidence} \subseteq Nat
          /\ q[key].confidence <= p[key].confidence

\* Leaving facts out leaves the others as they are.
LEMMA WithoutKeeps ==
    ASSUME NEW p, NEW gone
    PROVE  /\ DOMAIN Without(p, gone) = DOMAIN p \ gone
           /\ \A key \in DOMAIN p \ gone : Without(p, gone)[key] = p[key]
  BY DEF Without

LEMMA WithoutIsWeaker ==
    ASSUME NEW p, Extracted(p), NEW gone
    PROVE  Weaker(Without(p, gone), p)
<1> DEFINE q == Without(p, gone)
<1>1. DOMAIN q = DOMAIN p \ gone /\ \A key \in DOMAIN p \ gone : q[key] = p[key]
  BY WithoutKeeps
<1> HIDE DEF q
<1>2. \A key \in DOMAIN p : p[key].confidence \in Nat /\ p[key].confidence <= p[key].confidence
  BY DEF Extracted
<1>3. Weaker(q, p)
  BY <1>1, <1>2 DEF Weaker
<1> QED BY <1>3 DEF q

LEMMA DoubtedIsWeaker ==
    ASSUME NEW p, Extracted(p), NEW some, NEW limit \in Nat
    PROVE  Weaker(Doubted(p, some, limit), p)
<1> DEFINE q == Doubted(p, some, limit)
<1>1. /\ DOMAIN q = DOMAIN p
      /\ \A key \in DOMAIN p :
            q[key] = IF key \in some /\ p[key].confidence > limit
                     THEN [p[key] EXCEPT !.confidence = limit] ELSE p[key]
  BY DEF Doubted
<1> HIDE DEF q
<1>2. ASSUME NEW key \in DOMAIN p
      PROVE  /\ q[key].value = p[key].value /\ q[key].cited = p[key].cited
             /\ {q[key].confidence, p[key].confidence} \subseteq Nat
             /\ q[key].confidence <= p[key].confidence
  <2>1. p[key] \in [value : Int, confidence : Nat, cited : BOOLEAN]
    BY DEF Extracted
  <2>2. CASE q[key] = p[key]
    BY <2>1, <2>2
  <2>3. CASE p[key].confidence > limit /\ q[key] = [p[key] EXCEPT !.confidence = limit]
    BY <2>1, <2>3
  <2> QED BY <1>1, <2>2, <2>3
<1>3. Weaker(q, p)
  BY <1>1, <1>2 DEF Weaker
<1> QED BY <1>3 DEF q

\* A fact that can be used in the weaker profile can be used in the other.
LEMMA UsableWeaker ==
    ASSUME NEW p, NEW q, Weaker(q, p), NEW key \in Usable(q)
    PROVE  /\ key \in Usable(p) /\ q[key].value = p[key].value
           /\ {q[key].confidence, p[key].confidence} \subseteq Nat
           /\ q[key].confidence <= p[key].confidence
<1>1. key \in DOMAIN q /\ ~ Invalid(q, key) /\ q[key].value # Null
      /\ q[key].confidence >= Policy.minimum_fact
  BY DEF Usable
<1>2. /\ key \in DOMAIN p
      /\ q[key].value = p[key].value /\ q[key].cited = p[key].cited
      /\ {q[key].confidence, p[key].confidence} \subseteq Nat
      /\ q[key].confidence <= p[key].confidence
  BY <1>1 DEF Weaker
<1>3. p[key].value # Null /\ ~ Invalid(p, key)
  BY <1>1, <1>2 DEF Invalid
<1>4. p[key].confidence >= Policy.minimum_fact
  BY <1>1, <1>2, InputsAssumption DEF InputsAssumption
<1> QED BY <1>2, <1>3, <1>4 DEF Usable

\* What holds of the weaker profile holds of the other.
LEMMA HoldsWeaker ==
    ASSUME NEW p, NEW q, Weaker(q, p), NEW key, NEW value,
           Holds(q, key, value, Policy.hard_rejection)
    PROVE  Holds(p, key, value, Policy.hard_rejection)
<1>1. /\ key \in Usable(q) /\ q[key].value = value
      /\ q[key].confidence >= Policy.hard_rejection
  BY DEF Holds
<1>2. /\ key \in Usable(p) /\ q[key].value = p[key].value
      /\ {q[key].confidence, p[key].confidence} \subseteq Nat
      /\ q[key].confidence <= p[key].confidence
  BY <1>1, UsableWeaker
<1>3. p[key].confidence >= Policy.hard_rejection
  BY <1>1, <1>2, InputsAssumption DEF InputsAssumption
<1> QED BY <1>1, <1>2, <1>3 DEF Holds

LEMMA TooSmallWeaker ==
    ASSUME NEW p, NEW q, Weaker(q, p), TooSmall(q)
    PROVE  TooSmall(p)
<1>1. /\ {"employee_count", "branch_count"} \subseteq Usable(q)
      /\ q["employee_count"].value < 10
      /\ q["employee_count"].confidence >= Policy.hard_rejection
  BY DEF TooSmall
<1>2. /\ {"employee_count", "branch_count"} \subseteq Usable(p)
      /\ q["employee_count"].value = p["employee_count"].value
      /\ {q["employee_count"].confidence, p["employee_count"].confidence} \subseteq Nat
      /\ q["employee_count"].confidence <= p["employee_count"].confidence
  BY <1>1, UsableWeaker
<1>3. p["employee_count"].value < 10
  BY <1>1, <1>2
<1>4. p["employee_count"].confidence >= Policy.hard_rejection
  BY <1>1, <1>2, InputsAssumption DEF InputsAssumption
<1>5. /\ Holds(p, "branch_count", 1, Policy.hard_rejection)
      /\ Holds(p, "inside_sales_or_estimating_presence", 0, Policy.hard_rejection)
      /\ Holds(p, "rfq_or_quote_workflow_evidence", 0, Policy.hard_rejection)
  BY HoldsWeaker DEF TooSmall
<1> QED BY <1>2, <1>3, <1>4, <1>5 DEF TooSmall

\* The reasons to reject a company only grow with what is known about it.
THEOREM RejectionsGrow ==
    ASSUME NEW p, NEW q, Weaker(q, p), NEW outside \in BOOLEAN
    PROVE  Rejections(q, outside) \subseteq Rejections(p, outside)
<1>1. Holds(q, "pvf_relevant", 0, Policy.hard_rejection)
         => Holds(p, "pvf_relevant", 0, Policy.hard_rejection)
  BY HoldsWeaker
<1>2. Holds(q, "known_current_direct_competitor_customer", 1, Policy.hard_rejection)
         => Holds(p, "known_current_direct_competitor_customer", 1, Policy.hard_rejection)
  BY HoldsWeaker
<1>3. TooSmall(q) => TooSmall(p)
  BY TooSmallWeaker
<1> QED BY <1>1, <1>2, <1>3 DEF Rejections

\* The snapshots are a sequence, and what was extracted is a profile.
ProfilesKnown ==
    /\ snapshots \in Seq(ToSet(snapshots))
    /\ \A i \in DOMAIN snapshots : snapshots[i].profile \in DOMAIN Profiles \cup {NoProfile}

LEMMA SnapshotKeepsProfiles ==
    ASSUME ProfilesKnown, NEW id, NEW profile \in DOMAIN Profiles \cup {NoProfile},
           snapshots' = Append(snapshots, [id |-> id, profile |-> profile])
    PROVE  ProfilesKnown'
<1> DEFINE e == [id |-> id, profile |-> profile]
           All == ToSet(snapshots) \cup {e}
<1>1. snapshots \in Seq(All)
  BY DEF ProfilesKnown
<1>2. /\ snapshots' \in Seq(All)
      /\ Len(snapshots') = Len(snapshots) + 1
      /\ \A i \in 1 .. Len(snapshots) : snapshots'[i] = snapshots[i]
      /\ snapshots'[Len(snapshots) + 1] = e
  BY <1>1, AppendProperties
<1>3. DOMAIN snapshots = 1 .. Len(snapshots) /\ Len(snapshots) \in Nat
      /\ DOMAIN snapshots' = 1 .. Len(snapshots) + 1
  BY <1>1, <1>2
<1>4. ASSUME NEW i \in DOMAIN snapshots'
      PROVE  snapshots'[i].profile \in DOMAIN Profiles \cup {NoProfile}
  <2>1. CASE i \in DOMAIN snapshots
    BY <2>1, <1>2, <1>3 DEF ProfilesKnown
  <2>2. CASE i = Len(snapshots) + 1
    BY <2>2, <1>2
  <2> QED BY <2>1, <2>2, <1>3
<1>5. snapshots' \in Seq(ToSet(snapshots'))
  BY <1>2, <1>3 DEF ToSet
<1> QED BY <1>4, <1>5 DEF ProfilesKnown

LEMMA ProfilesStayKnown == Spec => []ProfilesKnown
<1>1. Init => ProfilesKnown
  BY DEF Init, ProfilesKnown
<1>2. ProfilesKnown /\ [Next]_vars => ProfilesKnown'
  <2> SUFFICES ASSUME ProfilesKnown, [Next]_vars PROVE ProfilesKnown'
    OBVIOUS
  <2>1. CASE UNCHANGED snapshots
    BY <2>1 DEF ProfilesKnown
  <2>2. ASSUME NEW c, NEW profile \in DOMAIN Profiles, Research(c) \/ Extract(c, profile)
        PROVE  ProfilesKnown'
    BY <2>2, SnapshotKeepsProfiles DEF Research, Extract, Snapshot
  <2>3. ASSUME NEW c, Research(c)
        PROVE  ProfilesKnown'
    BY <2>3, SnapshotKeepsProfiles DEF Research, Snapshot
  <2>4. \/ UNCHANGED snapshots
        \/ \E c : Research(c) \/ \E profile \in DOMAIN Profiles : Extract(c, profile)
    BY DEF Next, vars, Discover, Deduplicate, CompleteBatch, Evaluate, Calibrate, Publish,
           Crash, Search
  <2> QED BY <2>1, <2>2, <2>3, <2>4
<1> QED BY <1>1, <1>2, PTL DEF Spec

\* No missing or doubtful fact can fire a rejection: leaving facts out of any
\* profile that was extracted, or lowering the confidence in them, never adds a
\* reason to reject (policy.py:541-572).
THEOREM MissingFactsNeverReject == Spec => []NoMissingFactRejects
<1>1. ProfilesKnown => NoMissingFactRejects
  <2>1. ASSUME NEW name \in DOMAIN Profiles PROVE RejectsOnEvidence[name]
    <3>1. Extracted(Profiles[name])
      BY InputsAssumption DEF InputsAssumption, Extracted
    <3>2. ASSUME NEW some \in SUBSET Telling,
                 NEW weaker \in {Without(Profiles[name], some)}
                       \cup {Doubted(Profiles[name], some, limit) : limit \in 0 .. 100}
          PROVE  Rejections(weaker, FALSE) \subseteq Rejections(Profiles[name], FALSE)
      <4>1. Weaker(weaker, Profiles[name])
        BY <3>1, WithoutIsWeaker, DoubtedIsWeaker
      <4> QED BY <4>1, RejectionsGrow
    <3> QED BY <3>2 DEF RejectsOnEvidence
  <2> QED BY <2>1 DEF ProfilesKnown, NoMissingFactRejects
<1> QED BY <1>1, ProfilesStayKnown, PTL

-----------------------------------------------------------------------------
(***************************************************************************)
(* The six files of an evaluation.                                         *)
(***************************************************************************)

DecisionFiles == ToSet(Evaluated)
ReportFiles == ToSet(Calibrated)

\* The files of the last complete evaluation agree unless a later one was torn.
Agreed ==
    "evaluate" \notin torn /\ files["evaluated"] # NoFile =>
        \A v \in DecisionFiles : files[v] = Views(files["evaluated"])[v]

\* The running command writes the views of these records: each file holds its
\* view already or is still to be written, and as long as the first one is to
\* be written, the files are those of the evaluation before.
Evaluating(records) ==
    /\ \A i \in DOMAIN job :
          /\ job[i][1] \in DecisionFiles /\ job[i][2] = Views(records)[job[i][1]]
          /\ job[i][1] = "evaluated" => i = 1 /\ Agreed
    /\ \A v \in DecisionFiles :
          files[v] = Views(records)[v] \/ \E i \in DOMAIN job : job[i][1] = v

\* Nothing but a report is being written.
Settled ==
    /\ \A i \in DOMAIN job : job[i][1] \in ReportFiles
    /\ Agreed

WritesInv ==
    /\ job \in Seq(ToSet(job)) /\ DOMAIN files = View
    /\ Settled \/ \E records : Evaluating(records)

LEMMA FileNames ==
    /\ DecisionFiles = {"evaluated", "ranked", "rejected", "uncertain", "template", "summary"}
    /\ ReportFiles = {"report", "joined"}
    /\ DecisionFiles \cap ReportFiles = {}
    /\ View = DecisionFiles \cup ReportFiles
  BY DEF DecisionFiles, ReportFiles, Evaluated, Calibrated, ToSet, View

LEMMA EvaluatedView == \A records : Views(records)["evaluated"] = records
  BY DEF Views

\* A job is the list of an order's names with their contents.
LEMMA ContentsAre ==
    ASSUME NEW order, order \in Seq(ToSet(order)), NEW views
    PROVE  /\ Contents(order, views) \in Seq(ToSet(Contents(order, views)))
           /\ DOMAIN Contents(order, views) = DOMAIN order
           /\ \A i \in DOMAIN order : Contents(order, views)[i] = <<order[i], views[order[i]]>>
  BY DEF Contents, ToSet

\* A command starts when nothing else is being written.
LEMMA NothingPending ==
    ASSUME WritesInv, job = <<>>
    PROVE  Settled
<1> SUFFICES ASSUME NEW records, Evaluating(records) PROVE Settled
  BY DEF WritesInv
<1>1. \A v \in DecisionFiles : files[v] = Views(records)[v]
  BY DEF Evaluating
<1>2. files["evaluated"] = records
  BY <1>1, EvaluatedView, FileNames
<1> QED BY <1>1, <1>2 DEF Settled, Agreed

LEMMA EvaluateStep ==
    ASSUME WritesInv, Evaluate
    PROVE  WritesInv'
<1>1. Evaluated \in Seq(ToSet(Evaluated)) /\ DOMAIN Evaluated = 1 .. 6
  BY DEF Evaluated, ToSet
<1>2. PICK records : job' = Contents(Evaluated, Views(records)) /\ files' = files
  BY DEF Evaluate
<1>3. /\ job' \in Seq(ToSet(job'))
      /\ DOMAIN job' = DOMAIN Evaluated
      /\ \A i \in DOMAIN Evaluated : job'[i] = <<Evaluated[i], Views(records)[Evaluated[i]]>>
  BY <1>1, <1>2, ContentsAre
<1>4. \A v \in DecisionFiles : \E i \in DOMAIN Evaluated : v = Evaluated[i]
  BY DEF DecisionFiles, ToSet
<1>5. \A i \in DOMAIN Evaluated : Evaluated[i] \in DecisionFiles
  BY DEF DecisionFiles, ToSet
<1>6. ASSUME NEW i \in DOMAIN job'
      PROVE  job'[i][1] = Evaluated[i] /\ job'[i][2] = Views(records)[job'[i][1]]
  <2>1. job'[i] = <<Evaluated[i], Views(records)[Evaluated[i]]>>
    BY <1>3
  <2> QED BY <2>1
<1>a. \A i \in DOMAIN Evaluated : Evaluated[i] = "evaluated" => i = 1
  BY DEF Evaluated
<1>b. Agreed'
  <2>1. Agreed /\ files' = files /\ torn' = torn
    BY NothingPending DEF Evaluate, Settled
  <2> QED BY <2>1 DEF Agreed
<1>7. \A i \in DOMAIN job' :
         /\ job'[i][1] \in DecisionFiles /\ job'[i][2] = Views(records)[job'[i][1]]
         /\ job'[i][1] = "evaluated" => i = 1 /\ Agreed'
  BY <1>3, <1>5, <1>6, <1>a, <1>b
<1>8. \A v \in DecisionFiles : \E i \in DOMAIN job' : job'[i][1] = v
  BY <1>3, <1>4, <1>6
<1>9. Evaluating(records)'
  BY <1>7, <1>8 DEF Evaluating
<1> QED BY <1>2, <1>3, <1>9 DEF WritesInv

LEMMA CalibrateStep ==
    ASSUME WritesInv, Calibrate
    PROVE  WritesInv'
<1>1. job = <<>> /\ UNCHANGED <<files, torn>>
  BY DEF Calibrate
<1>2. PICK views : job' = Contents(Calibrated, views)
  BY DEF Calibrate
<1>3. Calibrated \in Seq(ToSet(Calibrated))
  BY DEF Calibrated, ToSet
<1>4. /\ job' \in Seq(ToSet(job'))
      /\ DOMAIN job' = DOMAIN Calibrated
      /\ \A i \in DOMAIN Calibrated : job'[i] = <<Calibrated[i], views[Calibrated[i]]>>
  BY <1>2, <1>3, ContentsAre
<1>5. \A i \in DOMAIN Calibrated : Calibrated[i] \in ReportFiles
  BY DEF ReportFiles, ToSet
<1>6. Settled'
  BY <1>1, <1>4, <1>5, NothingPending DEF Settled, Agreed
<1> QED BY <1>1, <1>4, <1>6 DEF WritesInv

\* Which command is writing shows in the name of the last file it writes.
LEMMA LastName ==
    ASSUME WritesInv, job # <<>>
    PROVE  /\ Len(job) \in DOMAIN job /\ 1 \in DOMAIN job
           /\ job[Len(job)][1] \in DecisionFiles => Command = "evaluate"
           /\ job[Len(job)][1] \in ReportFiles => Command = "calibrate"
<1>1. Len(job) \in DOMAIN job /\ 1 \in DOMAIN job
  BY DEF WritesInv
<1> QED BY <1>1, FileNames DEF Command, DecisionFiles, ReportFiles

\* A command that dies before its first file marks nothing.
LEMMA CrashMarks ==
    ASSUME WritesInv, Crash
    PROVE  /\ job # <<>> /\ 1 \in DOMAIN job /\ job' = <<>> /\ files' = files
           /\ \/ job[1][1] \in {"evaluated", "report"} /\ torn' = torn
              \/ torn' = torn \cup {Command}
<1>1. /\ job # <<>> /\ job' = <<>> /\ files' = files
      /\ torn' = IF job[1][1] \in {Evaluated[1], Calibrated[1]}
                 THEN torn ELSE torn \cup {Command}
  BY DEF Crash
<1>2. Evaluated[1] = "evaluated" /\ Calibrated[1] = "report"
  BY DEF Evaluated, Calibrated
<1> QED BY <1>1, <1>2, LastName

LEMMA CrashStep ==
    ASSUME WritesInv, Crash
    PROVE  WritesInv'
<1>1. /\ job # <<>> /\ 1 \in DOMAIN job /\ job' = <<>> /\ files' = files
      /\ \/ job[1][1] \in {"evaluated", "report"} /\ torn' = torn
         \/ torn' = torn \cup {Command}
  BY CrashMarks
<1>2. CASE Settled
  BY <1>1, <1>2 DEF Settled, Agreed, WritesInv
<1>3. ASSUME NEW records, Evaluating(records) PROVE WritesInv'
  <2>1. Command = "evaluate"
    BY <1>1, <1>3, LastName DEF Evaluating
  <2>2. Agreed'
    <3>1. CASE torn' = torn \cup {Command}
      BY <2>1, <3>1 DEF Agreed
    <3>2. CASE job[1][1] \in {"evaluated", "report"} /\ torn' = torn
      <4>1. job[1][1] = "evaluated"
        BY <1>1, <1>3, <3>2, FileNames DEF Evaluating
      <4>2. Agreed
        BY <1>1, <1>3, <4>1 DEF Evaluating
      <4> QED BY <1>1, <3>2, <4>2 DEF Agreed
    <3> QED BY <1>1, <3>1, <3>2
  <2> QED BY <1>1, <2>2 DEF Settled, WritesInv
<1> QED BY <1>2, <1>3 DEF WritesInv

LEMMA PublishStep ==
    ASSUME WritesInv, Publish
    PROVE  WritesInv'
<1> DEFINE name == job[1][1]
<1>1. /\ job # <<>> /\ job' = Tail(job)
      /\ files' = [files EXCEPT ![name] = job[1][2]]
      /\ torn' = IF Len(job) = 1 THEN torn \ {Command} ELSE torn
  BY DEF Publish
<1>2. job \in Seq(ToSet(job)) /\ DOMAIN files' = View /\ DOMAIN files = View
  BY <1>1 DEF WritesInv
<1>3. /\ job' \in Seq(ToSet(job)) /\ Len(job') = Len(job) - 1
      /\ \A i \in 1 .. Len(job') : job'[i] = job[i + 1]
  BY <1>1, <1>2, HeadTailProperties
<1>4. DOMAIN job = 1 .. Len(job) /\ DOMAIN job' = 1 .. Len(job') /\ Len(job) \in Nat
  BY <1>2, <1>3
<1>5. job' \in Seq(ToSet(job'))
  <2>1. \A i \in 1 .. Len(job') : job'[i] \in ToSet(job')
    BY <1>4 DEF ToSet
  <2>2. Len(job') \in Nat /\ job' = [i \in 1 .. Len(job') |-> job'[i]]
    BY <1>3, <1>4
  <2> QED BY <2>1, <2>2, SeqDef
<1>6. \A i \in DOMAIN job' : i + 1 \in DOMAIN job /\ job'[i] = job[i + 1]
  BY <1>3, <1>4
<1>7. \A j \in DOMAIN job : j = 1 \/ (j - 1 \in DOMAIN job' /\ job'[j - 1] = job[j])
  BY <1>3, <1>4
<1>8. CASE Settled
  <2>1. name \in ReportFiles /\ name \notin DecisionFiles
    BY <1>1, <1>8, LastName, FileNames DEF Settled
  <2>2. Command = "calibrate"
    BY <1>1, <1>8, LastName DEF Settled
  <2>3. "evaluate" \notin torn' => "evaluate" \notin torn
    BY <1>1, <2>2
  <2>4. \A v \in DecisionFiles : files'[v] = files[v]
    BY <1>1, <1>2, <2>1, FileNames
  <2>5. Settled'
    BY <1>6, <1>8, <2>3, <2>4, FileNames DEF Settled, Agreed
  <2> QED BY <1>2, <1>5, <2>5 DEF WritesInv
<1>9. ASSUME NEW records, Evaluating(records) PROVE WritesInv'
  <2>1. 1 \in DOMAIN job
    BY <1>1, LastName
  <2>2. name \in View /\ files'[name] = Views(records)[name]
    BY <1>1, <1>2, <1>9, <2>1, FileNames DEF Evaluating
  <2>3. \A v \in DecisionFiles \ {name} : files'[v] = files[v]
    BY <1>1, <1>2, FileNames
  <2>4. ASSUME NEW v \in DecisionFiles
        PROVE  files'[v] = Views(records)[v] \/ \E i \in DOMAIN job' : job'[i][1] = v
    <3>1. CASE v = name
      BY <3>1, <2>2
    <3>2. CASE v # name /\ files[v] = Views(records)[v]
      BY <3>2, <2>3
    <3>3. CASE v # name /\ \E j \in DOMAIN job : job[j][1] = v
      BY <3>3, <1>7
    <3> QED BY <1>9, <3>1, <3>2, <3>3 DEF Evaluating
  <2>5. \A i \in DOMAIN job' :
            /\ job'[i][1] \in DecisionFiles /\ job'[i][2] = Views(records)[job'[i][1]]
            /\ job'[i][1] # "evaluated"
    <3>1. \A i \in DOMAIN job' : i + 1 # 1
      BY <1>3, <1>4
    <3> QED BY <1>6, <1>9, <3>1 DEF Evaluating
  <2>6. Evaluating(records)'
    BY <2>4, <2>5 DEF Evaluating
  <2> QED BY <1>2, <1>5, <2>6 DEF WritesInv
<1> QED BY <1>8, <1>9 DEF WritesInv

LEMMA WritesStay == Spec => []WritesInv
<1>1. Init => WritesInv
  BY FileNames DEF Init, WritesInv, Settled, Agreed
<1>2. WritesInv /\ [Next]_vars => WritesInv'
  <2> SUFFICES ASSUME WritesInv, [Next]_vars PROVE WritesInv'
    OBVIOUS
  <2>1. CASE UNCHANGED <<job, files, torn>>
    BY <2>1 DEF WritesInv, Settled, Agreed, Evaluating
  <2>2. UNCHANGED <<job, files, torn>> \/ Evaluate \/ Calibrate \/ Publish \/ Crash
    BY DEF Next, vars, Discover, Deduplicate, Research, Extract, Snapshot, CompleteBatch, Search
  <2> QED BY <2>1, <2>2, EvaluateStep, CalibrateStep, PublishStep, CrashStep
<1> QED BY <1>1, <1>2, PTL DEF Spec

\* Whenever no command is writing and no evaluation was torn since, all six
\* decision files are views of the same records (evaluation.py:486-511).
THEOREM DecisionFilesAgree == Spec => []ViewsAgree
<1>1. WritesInv => ViewsAgree
  BY NothingPending DEF ViewsAgree, Settled, Agreed, DecisionFiles
<1> QED BY <1>1, WritesStay, PTL

-----------------------------------------------------------------------------
(***************************************************************************)
(* What a profile weighs and earns.                                        *)
(***************************************************************************)

LEMMA Categories ==
    Category = {"workload", "economic_fit", "low_incumbent_exposure", "direct_pain"}
  BY DEF Category, Features

\* The features of a category weigh a hundred together.
LEMMA Total_workload ==
    LET F == Features["workload"]
    IN  /\ IsFiniteSet(DOMAIN F) /\ \A key \in DOMAIN F : F[key] \in 1 .. 100
        /\ SumFunctionOnSet(F, DOMAIN F) = 100
<1> DEFINE F == Features["workload"]
<1>0. /\ DOMAIN F = {"rfq_or_quote_workflow_evidence",
                      "inside_sales_or_estimating_presence",
                      "project_or_tender_business",
                      "bom_or_line_item_complexity",
                      "manufacturer_count_or_breadth",
                      "branch_count",
                      "relevant_hiring",
                      "industrial_or_process_customer_focus"}
      /\ F["rfq_or_quote_workflow_evidence"] = 25
      /\ F["inside_sales_or_estimating_presence"] = 15
      /\ F["project_or_tender_business"] = 15
      /\ F["bom_or_line_item_complexity"] = 15
      /\ F["manufacturer_count_or_breadth"] = 10
      /\ F["branch_count"] = 10
      /\ F["relevant_hiring"] = 5
      /\ F["industrial_or_process_customer_focus"] = 5
  BY DEF Features
<1> HIDE DEF F
<1>1. IsFiniteSet({}) /\ SumFunctionOnSet(F, {}) = 0
  BY FS_EmptySet, SumEmpty
<1>2. IsFiniteSet({"rfq_or_quote_workflow_evidence"})
      /\ SumFunctionOnSet(F, {"rfq_or_quote_workflow_evidence"}) = 25
  <2>1. {} \cup {"rfq_or_quote_workflow_evidence"} = {"rfq_or_quote_workflow_evidence"}
    OBVIOUS
  <2>2. "rfq_or_quote_workflow_evidence" \notin {} /\ \A y \in {} \cup {"rfq_or_quote_workflow_evidence"} : F[y] \in Int
    BY <1>0
  <2>3. /\ IsFiniteSet({} \cup {"rfq_or_quote_workflow_evidence"})
        /\ SumFunctionOnSet(F, {} \cup {"rfq_or_quote_workflow_evidence"}) = F["rfq_or_quote_workflow_evidence"] + SumFunctionOnSet(F, {})
    BY <2>2, <1>1, SumAdd
  <2> QED BY <2>1, <2>3, <1>0, <1>1
<1>3. IsFiniteSet({"rfq_or_quote_workflow_evidence", "inside_sales_or_estimating_presence"})
      /\ SumFunctionOnSet(F, {"rfq_or_quote_workflow_evidence", "inside_sales_or_estimating_presence"}) = 40
  <2>1. {"rfq_or_quote_workflow_evidence"} \cup {"inside_sales_or_estimating_presence"} = {"rfq_or_quote_workflow_evidence", "inside_sales_or_estimating_presence"}
    OBVIOUS
  <2>2. "inside_sales_or_estimating_presence" \notin {"rfq_or_quote_workflow_evidence"} /\ \A y \in {"rfq_or_quote_workflow_evidence"} \cup {"inside_sales_or_estimating_presence"} : F[y] \in Int
    BY <1>0
  <2>3. /\ IsFiniteSet({"rfq_or_quote_workflow_evidence"} \cup {"inside_sales_or_estimating_presence"})
        /\ SumFunctionOnSet(F, {"rfq_or_quote_workflow_evidence"} \cup {"inside_sales_or_estimating_presence"}) = F["inside_sales_or_estimating_presence"] + SumFunctionOnSet(F, {"rfq_or_quote_workflow_evidence"})
    BY <2>2, <1>2, SumAdd
  <2> QED BY <2>1, <2>3, <1>0, <1>2
<1>4. IsFiniteSet({"rfq_or_quote_workflow_evidence", "inside_sales_or_estimating_presence", "project_or_tender_business"})
      /\ SumFunctionOnSet(F, {"rfq_or_quote_workflow_evidence", "inside_sales_or_estimating_presence", "project_or_tender_business"}) = 55
  <2>1. {"rfq_or_quote_workflow_evidence", "inside_sales_or_estimating_presence"} \cup {"project_or_tender_business"} = {"rfq_or_quote_workflow_evidence", "inside_sales_or_estimating_presence", "project_or_tender_business"}
    OBVIOUS
  <2>2. "project_or_tender_business" \notin {"rfq_or_quote_workflow_evidence", "inside_sales_or_estimating_presence"} /\ \A y \in {"rfq_or_quote_workflow_evidence", "inside_sales_or_estimating_presence"} \cup {"project_or_tender_business"} : F[y] \in Int
    BY <1>0
  <2>3. /\ IsFiniteSet({"rfq_or_quote_workflow_evidence", "inside_sales_or_estimating_presence"} \cup {"project_or_tender_business"})
        /\ SumFunctionOnSet(F, {"rfq_or_quote_workflow_evidence", "inside_sales_or_estimating_presence"} \cup {"project_or_tender_business"}) = F["project_or_tender_business"] + SumFunctionOnSet(F, {"rfq_or_quote_workflow_evidence", "inside_sales_or_estimating_presence"})
    BY <2>2, <1>3, SumAdd
  <2> QED BY <2>1, <2>3, <1>0, <1>3
<1>5. IsFiniteSet({"rfq_or_quote_workflow_evidence", "inside_sales_or_estimating_presence", "project_or_tender_business", "bom_or_line_item_complexity"})
      /\ SumFunctionOnSet(F, {"rfq_or_quote_workflow_evidence", "inside_sales_or_estimating_presence", "project_or_tender_business", "bom_or_line_item_complexity"}) = 70
  <2>1. {"rfq_or_quote_workflow_evidence", "inside_sales_or_estimating_presence", "project_or_tender_business"} \cup {"bom_or_line_item_complexity"} = {"rfq_or_quote_workflow_evidence", "inside_sales_or_estimating_presence", "project_or_tender_business", "bom_or_line_item_complexity"}
    OBVIOUS
  <2>2. "bom_or_line_item_complexity" \notin {"rfq_or_quote_workflow_evidence", "inside_sales_or_estimating_presence", "project_or_tender_business"} /\ \A y \in {"rfq_or_quote_workflow_evidence", "inside_sales_or_estimating_presence", "project_or_tender_business"} \cup {"bom_or_line_item_complexity"} : F[y] \in Int
    BY <1>0
  <2>3. /\ IsFiniteSet({"rfq_or_quote_workflow_evidence", "inside_sales_or_estimating_presence", "project_or_tender_business"} \cup {"bom_or_line_item_complexity"})
        /\ SumFunctionOnSet(F, {"rfq_or_quote_workflow_evidence", "inside_sales_or_estimating_presence", "project_or_tender_business"} \cup {"bom_or_line_item_complexity"}) = F["bom_or_line_item_complexity"] + SumFunctionOnSet(F, {"rfq_or_quote_workflow_evidence", "inside_sales_or_estimating_presence", "project_or_tender_business"})
    BY <2>2, <1>4, SumAdd
  <2> QED BY <2>1, <2>3, <1>0, <1>4
<1>6. IsFiniteSet({"rfq_or_quote_workflow_evidence", "inside_sales_or_estimating_presence", "project_or_tender_business", "bom_or_line_item_complexity", "manufacturer_count_or_breadth"})
      /\ SumFunctionOnSet(F, {"rfq_or_quote_workflow_evidence", "inside_sales_or_estimating_presence", "project_or_tender_business", "bom_or_line_item_complexity", "manufacturer_count_or_breadth"}) = 80
  <2>1. {"rfq_or_quote_workflow_evidence", "inside_sales_or_estimating_presence", "project_or_tender_business", "bom_or_line_item_complexity"} \cup {"manufacturer_count_or_breadth"} = {"rfq_or_quote_workflow_evidence", "inside_sales_or_estimating_presence", "project_or_tender_business", "bom_or_line_item_complexity", "manufacturer_count_or_breadth"}
    OBVIOUS
  <2>2. "manufacturer_count_or_breadth" \notin {"rfq_or_quote_workflow_evidence", "inside_sales_or_estimating_presence", "project_or_tender_business", "bom_or_line_item_complexity"} /\ \A y \in {"rfq_or_quote_workflow_evidence", "inside_sales_or_estimating_presence", "project_or_tender_business", "bom_or_line_item_complexity"} \cup {"manufacturer_count_or_breadth"} : F[y] \in Int
    BY <1>0
  <2>3. /\ IsFiniteSet({"rfq_or_quote_workflow_evidence", "inside_sales_or_estimating_presence", "project_or_tender_business", "bom_or_line_item_complexity"} \cup {"manufacturer_count_or_breadth"})
        /\ SumFunctionOnSet(F, {"rfq_or_quote_workflow_evidence", "inside_sales_or_estimating_presence", "project_or_tender_business", "bom_or_line_item_complexity"} \cup {"manufacturer_count_or_breadth"}) = F["manufacturer_count_or_breadth"] + SumFunctionOnSet(F, {"rfq_or_quote_workflow_evidence", "inside_sales_or_estimating_presence", "project_or_tender_business", "bom_or_line_item_complexity"})
    BY <2>2, <1>5, SumAdd
  <2> QED BY <2>1, <2>3, <1>0, <1>5
<1>7. IsFiniteSet({"rfq_or_quote_workflow_evidence", "inside_sales_or_estimating_presence", "project_or_tender_business", "bom_or_line_item_complexity", "manufacturer_count_or_breadth", "branch_count"})
      /\ SumFunctionOnSet(F, {"rfq_or_quote_workflow_evidence", "inside_sales_or_estimating_presence", "project_or_tender_business", "bom_or_line_item_complexity", "manufacturer_count_or_breadth", "branch_count"}) = 90
  <2>1. {"rfq_or_quote_workflow_evidence", "inside_sales_or_estimating_presence", "project_or_tender_business", "bom_or_line_item_complexity", "manufacturer_count_or_breadth"} \cup {"branch_count"} = {"rfq_or_quote_workflow_evidence", "inside_sales_or_estimating_presence", "project_or_tender_business", "bom_or_line_item_complexity", "manufacturer_count_or_breadth", "branch_count"}
    OBVIOUS
  <2>2. "branch_count" \notin {"rfq_or_quote_workflow_evidence", "inside_sales_or_estimating_presence", "project_or_tender_business", "bom_or_line_item_complexity", "manufacturer_count_or_breadth"} /\ \A y \in {"rfq_or_quote_workflow_evidence", "inside_sales_or_estimating_presence", "project_or_tender_business", "bom_or_line_item_complexity", "manufacturer_count_or_breadth"} \cup {"branch_count"} : F[y] \in Int
    BY <1>0
  <2>3. /\ IsFiniteSet({"rfq_or_quote_workflow_evidence", "inside_sales_or_estimating_presence", "project_or_tender_business", "bom_or_line_item_complexity", "manufacturer_count_or_breadth"} \cup {"branch_count"})
        /\ SumFunctionOnSet(F, {"rfq_or_quote_workflow_evidence", "inside_sales_or_estimating_presence", "project_or_tender_business", "bom_or_line_item_complexity", "manufacturer_count_or_breadth"} \cup {"branch_count"}) = F["branch_count"] + SumFunctionOnSet(F, {"rfq_or_quote_workflow_evidence", "inside_sales_or_estimating_presence", "project_or_tender_business", "bom_or_line_item_complexity", "manufacturer_count_or_breadth"})
    BY <2>2, <1>6, SumAdd
  <2> QED BY <2>1, <2>3, <1>0, <1>6
<1>8. IsFiniteSet({"rfq_or_quote_workflow_evidence", "inside_sales_or_estimating_presence", "project_or_tender_business", "bom_or_line_item_complexity", "manufacturer_count_or_breadth", "branch_count", "relevant_hiring"})
      /\ SumFunctionOnSet(F, {"rfq_or_quote_workflow_evidence", "inside_sales_or_estimating_presence", "project_or_tender_business", "bom_or_line_item_complexity", "manufacturer_count_or_breadth", "branch_count", "relevant_hiring"}) = 95
  <2>1. {"rfq_or_quote_workflow_evidence", "inside_sales_or_estimating_presence", "project_or_tender_business", "bom_or_line_item_complexity", "manufacturer_count_or_breadth", "branch_count"} \cup {"relevant_hiring"} = {"rfq_or_quote_workflow_evidence", "inside_sales_or_estimating_presence", "project_or_tender_business", "bom_or_line_item_complexity", "manufacturer_count_or_breadth", "branch_count", "relevant_hiring"}
    OBVIOUS
  <2>2. "relevant_hiring" \notin {"rfq_or_quote_workflow_evidence", "inside_sales_or_estimating_presence", "project_or_tender_business", "bom_or_line_item_complexity", "manufacturer_count_or_breadth", "branch_count"} /\ \A y \in {"rfq_or_quote_workflow_evidence", "inside_sales_or_estimating_presence", "project_or_tender_business", "bom_or_line_item_complexity", "manufacturer_count_or_breadth", "branch_count"} \cup {"relevant_hiring"} : F[y] \in Int
    BY <1>0
  <2>3. /\ IsFiniteSet({"rfq_or_quote_workflow_evidence", "inside_sales_or_estimating_presence", "project_or_tender_business", "bom_or_line_item_complexity", "manufacturer_count_or_breadth", "branch_count"} \cup {"relevant_hiring"})
        /\ SumFunctionOnSet(F, {"rfq_or_quote_workflow_evidence", "inside_sales_or_estimating_presence", "project_or_tender_business", "bom_or_line_item_complexity", "manufacturer_count_or_breadth", "branch_count"} \cup {"relevant_hiring"}) = F["relevant_hiring"] + SumFunctionOnSet(F, {"rfq_or_quote_workflow_evidence", "inside_sales_or_estimating_presence", "project_or_tender_business", "bom_or_line_item_complexity", "manufacturer_count_or_breadth", "branch_count"})
    BY <2>2, <1>7, SumAdd
  <2> QED BY <2>1, <2>3, <1>0, <1>7
<1>9. IsFiniteSet({"rfq_or_quote_workflow_evidence", "inside_sales_or_estimating_presence", "project_or_tender_business", "bom_or_line_item_complexity", "manufacturer_count_or_breadth", "branch_count", "relevant_hiring", "industrial_or_process_customer_focus"})
      /\ SumFunctionOnSet(F, {"rfq_or_quote_workflow_evidence", "inside_sales_or_estimating_presence", "project_or_tender_business", "bom_or_line_item_complexity", "manufacturer_count_or_breadth", "branch_count", "relevant_hiring", "industrial_or_process_customer_focus"}) = 100
  <2>1. {"rfq_or_quote_workflow_evidence", "inside_sales_or_estimating_presence", "project_or_tender_business", "bom_or_line_item_complexity", "manufacturer_count_or_breadth", "branch_count", "relevant_hiring"} \cup {"industrial_or_process_customer_focus"} = {"rfq_or_quote_workflow_evidence", "inside_sales_or_estimating_presence", "project_or_tender_business", "bom_or_line_item_complexity", "manufacturer_count_or_breadth", "branch_count", "relevant_hiring", "industrial_or_process_customer_focus"}
    OBVIOUS
  <2>2. "industrial_or_process_customer_focus" \notin {"rfq_or_quote_workflow_evidence", "inside_sales_or_estimating_presence", "project_or_tender_business", "bom_or_line_item_complexity", "manufacturer_count_or_breadth", "branch_count", "relevant_hiring"} /\ \A y \in {"rfq_or_quote_workflow_evidence", "inside_sales_or_estimating_presence", "project_or_tender_business", "bom_or_line_item_complexity", "manufacturer_count_or_breadth", "branch_count", "relevant_hiring"} \cup {"industrial_or_process_customer_focus"} : F[y] \in Int
    BY <1>0
  <2>3. /\ IsFiniteSet({"rfq_or_quote_workflow_evidence", "inside_sales_or_estimating_presence", "project_or_tender_business", "bom_or_line_item_complexity", "manufacturer_count_or_breadth", "branch_count", "relevant_hiring"} \cup {"industrial_or_process_customer_focus"})
        /\ SumFunctionOnSet(F, {"rfq_or_quote_workflow_evidence", "inside_sales_or_estimating_presence", "project_or_tender_business", "bom_or_line_item_complexity", "manufacturer_count_or_breadth", "branch_count", "relevant_hiring"} \cup {"industrial_or_process_customer_focus"}) = F["industrial_or_process_customer_focus"] + SumFunctionOnSet(F, {"rfq_or_quote_workflow_evidence", "inside_sales_or_estimating_presence", "project_or_tender_business", "bom_or_line_item_complexity", "manufacturer_count_or_breadth", "branch_count", "relevant_hiring"})
    BY <2>2, <1>8, SumAdd
  <2> QED BY <2>1, <2>3, <1>0, <1>8
<1>10. \A key \in DOMAIN F : F[key] \in 1 .. 100
  BY <1>0
<1> QED BY <1>0, <1>9, <1>10 DEF F

LEMMA Total_economic_fit ==
    LET F == Features["economic_fit"]
    IN  /\ IsFiniteSet(DOMAIN F) /\ \A key \in DOMAIN F : F[key] \in 1 .. 100
        /\ SumFunctionOnSet(F, DOMAIN F) = 100
<1> DEFINE F == Features["economic_fit"]
<1>0. /\ DOMAIN F = {"employee_count",
                      "branch_count",
                      "multi_location_signal",
                      "regional_independent_signal",
                      "revenue_if_reliably_available"}
      /\ F["employee_count"] = 35
      /\ F["branch_count"] = 25
      /\ F["multi_location_signal"] = 20
      /\ F["regional_independent_signal"] = 15
      /\ F["revenue_if_reliably_available"] = 5
  BY DEF Features
<1> HIDE DEF F
<1>1. IsFiniteSet({}) /\ SumFunctionOnSet(F, {}) = 0
  BY FS_EmptySet, SumEmpty
<1>2. IsFiniteSet({"employee_count"})
      /\ SumFunctionOnSet(F, {"employee_count"}) = 35
  <2>1. {} \cup {"employee_count"} = {"employee_count"}
    OBVIOUS
  <2>2. "employee_count" \notin {} /\ \A y \in {} \cup {"employee_count"} : F[y] \in Int
    BY <1>0
  <2>3. /\ IsFiniteSet({} \cup {"employee_count"})
        /\ SumFunctionOnSet(F, {} \cup {"employee_count"}) = F["employee_count"] + SumFunctionOnSet(F, {})
    BY <2>2, <1>1, SumAdd
  <2> QED BY <2>1, <2>3, <1>0, <1>1
<1>3. IsFiniteSet({"employee_count", "branch_count"})
      /\ SumFunctionOnSet(F, {"employee_count", "branch_count"}) = 60
  <2>1. {"employee_count"} \cup {"branch_count"} = {"employee_count", "branch_count"}
    OBVIOUS
  <2>2. "branch_count" \notin {"employee_count"} /\ \A y \in {"employee_count"} \cup {"branch_count"} : F[y] \in Int
    BY <1>0
  <2>3. /\ IsFiniteSet({"employee_count"} \cup {"branch_count"})
        /\ SumFunctionOnSet(F, {"employee_count"} \cup {"branch_count"}) = F["branch_count"] + SumFunctionOnSet(F, {"employee_count"})
    BY <2>2, <1>2, SumAdd
  <2> QED BY <2>1, <2>3, <1>0, <1>2
<1>4. IsFiniteSet({"employee_count", "branch_count", "multi_location_signal"})
      /\ SumFunctionOnSet(F, {"employee_count", "branch_count", "multi_location_signal"}) = 80
  <2>1. {"employee_count", "branch_count"} \cup {"multi_location_signal"} = {"employee_count", "branch_count", "multi_location_signal"}
    OBVIOUS
  <2>2. "multi_location_signal" \notin {"employee_count", "branch_count"} /\ \A y \in {"employee_count", "branch_count"} \cup {"multi_location_signal"} : F[y] \in Int
    BY <1>0
  <2>3. /\ IsFiniteSet({"employee_count", "branch_count"} \cup {"multi_location_signal"})
        /\ SumFunctionOnSet(F, {"employee_count", "branch_count"} \cup {"multi_location_signal"}) = F["multi_location_signal"] + SumFunctionOnSet(F, {"employee_count", "branch_count"})
    BY <2>2, <1>3, SumAdd
  <2> QED BY <2>1, <2>3, <1>0, <1>3
<1>5. IsFiniteSet({"employee_count", "branch_count", "multi_location_signal", "regional_independent_signal"})
      /\ SumFunctionOnSet(F, {"employee_count", "branch_count", "multi_location_signal", "regional_independent_signal"}) = 95
  <2>1. {"employee_count", "branch_count", "multi_location_signal"} \cup {"regional_independent_signal"} = {"employee_count", "branch_count", "multi_location_signal", "regional_independent_signal"}
    OBVIOUS
  <2>2. "regional_independent_signal" \notin {"employee_count", "branch_count", "multi_location_signal"} /\ \A y \in {"employee_count", "branch_count", "multi_location_signal"} \cup {"regional_independent_signal"} : F[y] \in Int
    BY <1>0
  <2>3. /\ IsFiniteSet({"employee_count", "branch_count", "multi_location_signal"} \cup {"regional_independent_signal"})
        /\ SumFunctionOnSet(F, {"employee_count", "branch_count", "multi_location_signal"} \cup {"regional_independent_signal"}) = F["regional_independent_signal"] + SumFunctionOnSet(F, {"employee_count", "branch_count", "multi_location_signal"})
    BY <2>2, <1>4, SumAdd
  <2> QED BY <2>1, <2>3, <1>0, <1>4
<1>6. IsFiniteSet({"employee_count", "branch_count", "multi_location_signal", "regional_independent_signal", "revenue_if_reliably_available"})
      /\ SumFunctionOnSet(F, {"employee_count", "branch_count", "multi_location_signal", "regional_independent_signal", "revenue_if_reliably_available"}) = 100
  <2>1. {"employee_count", "branch_count", "multi_location_signal", "regional_independent_signal"} \cup {"revenue_if_reliably_available"} = {"employee_count", "branch_count", "multi_location_signal", "regional_independent_signal", "revenue_if_reliably_available"}
    OBVIOUS
  <2>2. "revenue_if_reliably_available" \notin {"employee_count", "branch_count", "multi_location_signal", "regional_independent_signal"} /\ \A y \in {"employee_count", "branch_count", "multi_location_signal", "regional_independent_signal"} \cup {"revenue_if_reliably_available"} : F[y] \in Int
    BY <1>0
  <2>3. /\ IsFiniteSet({"employee_count", "branch_count", "multi_location_signal", "regional_independent_signal"} \cup {"revenue_if_reliably_available"})
        /\ SumFunctionOnSet(F, {"employee_count", "branch_count", "multi_location_signal", "regional_independent_signal"} \cup {"revenue_if_reliably_available"}) = F["revenue_if_reliably_available"] + SumFunctionOnSet(F, {"employee_count", "branch_count", "multi_location_signal", "regional_independent_signal"})
    BY <2>2, <1>5, SumAdd
  <2> QED BY <2>1, <2>3, <1>0, <1>5
<1>7. \A key \in DOMAIN F : F[key] \in 1 .. 100
  BY <1>0
<1> QED BY <1>0, <1>6, <1>7 DEF F

LEMMA Total_low_incumbent_exposure ==
    LET F == Features["low_incumbent_exposure"]
    IN  /\ IsFiniteSet(DOMAIN F) /\ \A key \in DOMAIN F : F[key] \in 1 .. 100
        /\ SumFunctionOnSet(F, DOMAIN F) = 100
<1> DEFINE F == Features["low_incumbent_exposure"]
<1>0. /\ DOMAIN F = {"known_current_direct_competitor_customer",
                      "known_quote_automation_or_order_automation_relationship"}
      /\ F["known_current_direct_competitor_customer"] = 60
      /\ F["known_quote_automation_or_order_automation_relationship"] = 40
  BY DEF Features
<1> HIDE DEF F
<1>1. IsFiniteSet({}) /\ SumFunctionOnSet(F, {}) = 0
  BY FS_EmptySet, SumEmpty
<1>2. IsFiniteSet({"known_current_direct_competitor_customer"})
      /\ SumFunctionOnSet(F, {"known_current_direct_competitor_customer"}) = 60
  <2>1. {} \cup {"known_current_direct_competitor_customer"} = {"known_current_direct_competitor_customer"}
    OBVIOUS
  <2>2. "known_current_direct_competitor_customer" \notin {} /\ \A y \in {} \cup {"known_current_direct_competitor_customer"} : F[y] \in Int
    BY <1>0
  <2>3. /\ IsFiniteSet({} \cup {"known_current_direct_competitor_customer"})
        /\ SumFunctionOnSet(F, {} \cup {"known_current_direct_competitor_customer"}) = F["known_current_direct_competitor_customer"] + SumFunctionOnSet(F, {})
    BY <2>2, <1>1, SumAdd
  <2> QED BY <2>1, <2>3, <1>0, <1>1
<1>3. IsFiniteSet({"known_current_direct_competitor_customer", "known_quote_automation_or_order_automation_relationship"})
      /\ SumFunctionOnSet(F, {"known_current_direct_competitor_customer", "known_quote_automation_or_order_automation_relationship"}) = 100
  <2>1. {"known_current_direct_competitor_customer"} \cup {"known_quote_automation_or_order_automation_relationship"} = {"known_current_direct_competitor_customer", "known_quote_automation_or_order_automation_relationship"}
    OBVIOUS
  <2>2. "known_quote_automation_or_order_automation_relationship" \notin {"known_current_direct_competitor_customer"} /\ \A y \in {"known_current_direct_competitor_customer"} \cup {"known_quote_automation_or_order_automation_relationship"} : F[y] \in Int
    BY <1>0
  <2>3. /\ IsFiniteSet({"known_current_direct_competitor_customer"} \cup {"known_quote_automation_or_order_automation_relationship"})
        /\ SumFunctionOnSet(F, {"known_current_direct_competitor_customer"} \cup {"known_quote_automation_or_order_automation_relationship"}) = F["known_quote_automation_or_order_automation_relationship"] + SumFunctionOnSet(F, {"known_current_direct_competitor_customer"})
    BY <2>2, <1>2, SumAdd
  <2> QED BY <2>1, <2>3, <1>0, <1>2
<1>4. \A key \in DOMAIN F : F[key] \in 1 .. 100
  BY <1>0
<1> QED BY <1>0, <1>3, <1>4 DEF F

LEMMA Total_direct_pain ==
    LET F == Features["direct_pain"]
    IN  /\ IsFiniteSet(DOMAIN F) /\ \A key \in DOMAIN F : F[key] \in 1 .. 100
        /\ SumFunctionOnSet(F, DOMAIN F) = 100
<1> DEFINE F == Features["direct_pain"]
<1>0. /\ DOMAIN F = {"direct_quotation_pain_evidence",
                      "manual_workflow_evidence",
                      "explicit_process_bottleneck_evidence"}
      /\ F["direct_quotation_pain_evidence"] = 40
      /\ F["manual_workflow_evidence"] = 35
      /\ F["explicit_process_bottleneck_evidence"] = 25
  BY DEF Features
<1> HIDE DEF F
<1>1. IsFiniteSet({}) /\ SumFunctionOnSet(F, {}) = 0
  BY FS_EmptySet, SumEmpty
<1>2. IsFiniteSet({"direct_quotation_pain_evidence"})
      /\ SumFunctionOnSet(F, {"direct_quotation_pain_evidence"}) = 40
  <2>1. {} \cup {"direct_quotation_pain_evidence"} = {"direct_quotation_pain_evidence"}
    OBVIOUS
  <2>2. "direct_quotation_pain_evidence" \notin {} /\ \A y \in {} \cup {"direct_quotation_pain_evidence"} : F[y] \in Int
    BY <1>0
  <2>3. /\ IsFiniteSet({} \cup {"direct_quotation_pain_evidence"})
        /\ SumFunctionOnSet(F, {} \cup {"direct_quotation_pain_evidence"}) = F["direct_quotation_pain_evidence"] + SumFunctionOnSet(F, {})
    BY <2>2, <1>1, SumAdd
  <2> QED BY <2>1, <2>3, <1>0, <1>1
<1>3. IsFiniteSet({"direct_quotation_pain_evidence", "manual_workflow_evidence"})
      /\ SumFunctionOnSet(F, {"direct_quotation_pain_evidence", "manual_workflow_evidence"}) = 75
  <2>1. {"direct_quotation_pain_evidence"} \cup {"manual_workflow_evidence"} = {"direct_quotation_pain_evidence", "manual_workflow_evidence"}
    OBVIOUS
  <2>2. "manual_workflow_evidence" \notin {"direct_quotation_pain_evidence"} /\ \A y \in {"direct_quotation_pain_evidence"} \cup {"manual_workflow_evidence"} : F[y] \in Int
    BY <1>0
  <2>3. /\ IsFiniteSet({"direct_quotation_pain_evidence"} \cup {"manual_workflow_evidence"})
        /\ SumFunctionOnSet(F, {"direct_quotation_pain_evidence"} \cup {"manual_workflow_evidence"}) = F["manual_workflow_evidence"] + SumFunctionOnSet(F, {"direct_quotation_pain_evidence"})
    BY <2>2, <1>2, SumAdd
  <2> QED BY <2>1, <2>3, <1>0, <1>2
<1>4. IsFiniteSet({"direct_quotation_pain_evidence", "manual_workflow_evidence", "explicit_process_bottleneck_evidence"})
      /\ SumFunctionOnSet(F, {"direct_quotation_pain_evidence", "manual_workflow_evidence", "explicit_process_bottleneck_evidence"}) = 100
  <2>1. {"direct_quotation_pain_evidence", "manual_workflow_evidence"} \cup {"explicit_process_bottleneck_evidence"} = {"direct_quotation_pain_evidence", "manual_workflow_evidence", "explicit_process_bottleneck_evidence"}
    OBVIOUS
  <2>2. "explicit_process_bottleneck_evidence" \notin {"direct_quotation_pain_evidence", "manual_workflow_evidence"} /\ \A y \in {"direct_quotation_pain_evidence", "manual_workflow_evidence"} \cup {"explicit_process_bottleneck_evidence"} : F[y] \in Int
    BY <1>0
  <2>3. /\ IsFiniteSet({"direct_quotation_pain_evidence", "manual_workflow_evidence"} \cup {"explicit_process_bottleneck_evidence"})
        /\ SumFunctionOnSet(F, {"direct_quotation_pain_evidence", "manual_workflow_evidence"} \cup {"explicit_process_bottleneck_evidence"}) = F["explicit_process_bottleneck_evidence"] + SumFunctionOnSet(F, {"direct_quotation_pain_evidence", "manual_workflow_evidence"})
    BY <2>2, <1>3, SumAdd
  <2> QED BY <2>1, <2>3, <1>0, <1>3
<1>5. \A key \in DOMAIN F : F[key] \in 1 .. 100
  BY <1>0
<1> QED BY <1>0, <1>4, <1>5 DEF F

LEMMA FewAreFinite ==
    \A a, b, c, d : IsFiniteSet({a, b, c}) /\ IsFiniteSet({a, b, c, d})
<1> TAKE a, b, c, d
<1>1. IsFiniteSet({a})
  BY FS_EmptySet, FS_Singleton
<1>2. IsFiniteSet({a} \cup {b})
  BY <1>1, FS_AddElement
<1>3. IsFiniteSet(({a} \cup {b}) \cup {c})
  BY <1>2, FS_AddElement
<1>4. IsFiniteSet((({a} \cup {b}) \cup {c}) \cup {d})
  BY <1>3, FS_AddElement
<1>5. ({a} \cup {b}) \cup {c} = {a, b, c} /\ (({a} \cup {b}) \cup {c}) \cup {d} = {a, b, c, d}
  OBVIOUS
<1> QED BY <1>3, <1>4, <1>5

\* Among finitely many steps one has the least bound.
LEMMA LeastStep ==
    ASSUME NEW T, IsFiniteSet(T), T # {}, \A s \in T : s[1] \in Int
    PROVE  \E s \in T : \A t \in T : s[1] <= t[1]
<1> DEFINE A == {U \in SUBSET T : U = {} \/ \E s \in U : \A t \in U : s[1] <= t[1]}
<1>1. {} \in A
  OBVIOUS
<1>2. ASSUME NEW U \in SUBSET T, U \in A, NEW x \in T \ U PROVE U \cup {x} \in A
  <2>1. CASE U = {}
    BY <2>1
  <2>2. CASE U # {}
    <3>1. PICK s \in U : \A t \in U : s[1] <= t[1]
      BY <1>2, <2>2
    <3>2. s[1] \in Int /\ x[1] \in Int /\ \A t \in U : t[1] \in Int
      OBVIOUS
    <3>3. CASE s[1] <= x[1]
      BY <3>1, <3>3
    <3>4. CASE x[1] < s[1]
      <4>1. \A t \in U \cup {x} : x[1] <= t[1]
        BY <3>1, <3>2, <3>4
      <4> QED BY <4>1
    <3> QED BY <3>2, <3>3, <3>4
  <2> QED BY <2>1, <2>2
<1>3. T \in A
  <2> HIDE DEF A
  <2> QED BY <1>1, <1>2, SubsetInduction
<1> QED BY <1>3

\* A table of steps gives one of its values, and its first up to its bound.
LEMMA StepRange ==
    ASSUME NEW value \in Int, NEW table, IsFiniteSet(table), NEW R, NEW otherwise \in R,
           \A s \in table : s[1] \in Int /\ s[2] \in R
    PROVE  /\ Step(value, table, otherwise) \in R
           /\ \A f \in table :
                 value <= f[1] /\ (\A s \in table \ {f} : f[1] < s[1])
                    => Step(value, table, otherwise) = f[2]
<1> DEFINE fits == {s \in table : value <= s[1]}
           least == CHOOSE s \in fits : \A t \in fits : s[1] <= t[1]
<1>1. Step(value, table, otherwise) = IF fits = {} THEN otherwise ELSE least[2]
  BY DEF Step
<1>2. IsFiniteSet(fits)
  BY FS_Subset
<1>3. fits # {} => least \in fits /\ \A t \in fits : least[1] <= t[1]
  <2>1. \A s \in fits : s[1] \in Int
    OBVIOUS
  <2> HIDE DEF fits
  <2>2. fits # {} => \E s \in fits : \A t \in fits : s[1] <= t[1]
    BY <1>2, <2>1, LeastStep
  <2> QED BY <2>2
<1> HIDE DEF least
<1>4. fits # {} => least[2] \in R
  BY <1>3
<1>5. ASSUME NEW f \in table, value <= f[1], \A s \in table \ {f} : f[1] < s[1]
      PROVE  fits # {} /\ least = f
  <2>1. f \in fits
    BY <1>5
  <2>2. least \in table /\ least[1] <= f[1] /\ least[1] \in Int /\ f[1] \in Int
    BY <1>3, <2>1
  <2> QED BY <1>5, <2>1, <2>2
<1> QED BY <1>1, <1>4, <1>5

LEMMA SupportedRange ==
    ASSUME NEW key, NEW value \in Int, Supported(key, value)
    PROVE  /\ key \in Counts => value > 0
           /\ key = "manufacturer_count_or_breadth" => value >= 0
           /\ key \notin Counts /\ key # "manufacturer_count_or_breadth" => value \in {0, 1}
<1>1. "manufacturer_count_or_breadth" \notin Counts
  BY DEF Counts
<1> QED BY <1>1 DEF Supported

LEMMA UsableRange ==
    ASSUME NEW p, Extracted(p), NEW key \in Usable(p)
    PROVE  p[key].value \in Int /\ p[key].value # Null /\ Supported(key, p[key].value)
  BY DEF Extracted, Usable, Invalid

Percent == 0 .. 100

\* A signal is a percentage.
LEMMA SignalRange ==
    ASSUME NEW c \in Category, NEW key \in DOMAIN Features[c], NEW value \in Int,
           Supported(key, value)
    PROVE  Signal(c, key, value) \in Percent
<1>1. CASE c = "low_incumbent_exposure"
  <2>1. key \notin Counts /\ key # "manufacturer_count_or_breadth"
    BY <1>1 DEF Features, Counts
  <2>2. value \in {0, 1}
    BY <2>1, SupportedRange
  <2>3. Signal(c, key, value) = 100 * (1 - value)
    BY <1>1 DEF Signal
  <2> QED BY <2>2, <2>3 DEF Percent
<1>2. CASE c # "low_incumbent_exposure"
  <2>1. CASE key = "manufacturer_count_or_breadth"
    <3> DEFINE s1 == <<0, 0>>  s2 == <<4, 25>>  s3 == <<9, 50>>  s4 == <<19, 75>>
               table == {s1, s2, s3, s4}
    <3>1. \A s \in table : s[1] \in Int /\ s[2] \in Percent
      BY DEF Percent
    <3>2. Signal(c, key, value) = Step(value, table, 100)
      BY <1>2, <2>1 DEF Signal
    <3> HIDE DEF s1, s2, s3, s4
    <3>3. IsFiniteSet(table)
      BY FewAreFinite
    <3> HIDE DEF table
    <3>4. 100 \in Percent
      BY DEF Percent
    <3>5. Step(value, table, 100) \in Percent
      BY <3>1, <3>3, <3>4, StepRange
    <3> QED BY <3>2, <3>5
  <2>2. CASE key = "branch_count" /\ c = "workload"
    <3> DEFINE s1 == <<1, 25>>  s2 == <<5, 60>>  s3 == <<15, 85>>
               table == {s1, s2, s3}
    <3>1. \A s \in table : s[1] \in Int /\ s[2] \in Percent
      BY DEF Percent
    <3>2. Signal(c, key, value) = Step(value, table, 100)
      BY <1>2, <2>2 DEF Signal
    <3> HIDE DEF s1, s2, s3
    <3>3. IsFiniteSet(table)
      BY FewAreFinite
    <3> HIDE DEF table
    <3>4. 100 \in Percent
      BY DEF Percent
    <3>5. Step(value, table, 100) \in Percent
      BY <3>1, <3>3, <3>4, StepRange
    <3> QED BY <3>2, <3>5
  <2>3. CASE key = "branch_count" /\ c = "economic_fit"
    <3> DEFINE s1 == <<1, 40>>  s2 == <<15, 100>>  s3 == <<30, 70>>
               table == {s1, s2, s3}
    <3>1. \A s \in table : s[1] \in Int /\ s[2] \in Percent
      BY DEF Percent
    <3>2. Signal(c, key, value) = Step(value, table, 50)
      BY <1>2, <2>3 DEF Signal
    <3> HIDE DEF s1, s2, s3
    <3>3. IsFiniteSet(table)
      BY FewAreFinite
    <3> HIDE DEF table
    <3>4. 50 \in Percent
      BY DEF Percent
    <3>5. Step(value, table, 50) \in Percent
      BY <3>1, <3>3, <3>4, StepRange
    <3> QED BY <3>2, <3>5
  <2>4. CASE key = "employee_count"
    <3> DEFINE s1 == <<9, 20>>  s2 == <<19, 60>>  s3 == <<150, 100>>  s4 == <<500, 70>>
               table == {s1, s2, s3, s4}
    <3>1. \A s \in table : s[1] \in Int /\ s[2] \in Percent
      BY DEF Percent
    <3>2. Signal(c, key, value) = Step(value, table, 50)
      BY <1>2, <2>4 DEF Signal
    <3> HIDE DEF s1, s2, s3, s4
    <3>3. IsFiniteSet(table)
      BY FewAreFinite
    <3> HIDE DEF table
    <3>4. 50 \in Percent
      BY DEF Percent
    <3>5. Step(value, table, 50) \in Percent
      BY <3>1, <3>3, <3>4, StepRange
    <3> QED BY <3>2, <3>5
  <2>5. CASE key = "revenue_if_reliably_available"
    <3> DEFINE s1 == <<999999, 20>>  s2 == <<4999999, 50>>  s3 == <<100000000, 100>>  s4 == <<500000000, 70>>
               table == {s1, s2, s3, s4}
    <3>1. \A s \in table : s[1] \in Int /\ s[2] \in Percent
      BY SMT DEF Percent
    <3>2. Signal(c, key, value) = Step(value, table, 50)
      BY SMT, <1>2, <2>5 DEF Signal
    <3> HIDE DEF s1, s2, s3, s4
    <3>3. IsFiniteSet(table)
      BY FewAreFinite
    <3> HIDE DEF table
    <3>4. 50 \in Percent
      BY DEF Percent
    <3>5. Step(value, table, 50) \in Percent
      BY <3>1, <3>3, <3>4, StepRange
    <3> QED BY <3>2, <3>5
  <2>6. CASE key \notin Counts /\ key # "manufacturer_count_or_breadth"
    <3>1. value \in {0, 1}
      BY <2>6, SupportedRange
    <3>2. Signal(c, key, value) = 100 * value
      BY <1>2, <2>6 DEF Signal, Counts
    <3> QED BY <3>1, <3>2 DEF Percent
  <2>7. key = "branch_count" => c \in {"workload", "economic_fit"}
    BY <1>2, Categories DEF Features
  <2> QED BY <2>1, <2>2, <2>3, <2>4, <2>5, <2>6, <2>7 DEF Counts
<1> QED BY <1>1, <1>2

LEMMA CategoryTotals ==
    ASSUME NEW c \in Category
    PROVE  /\ IsFiniteSet(DOMAIN Features[c]) /\ \A key \in DOMAIN Features[c] : Features[c][key] \in 1 .. 100
           /\ SumFunctionOnSet(Features[c], DOMAIN Features[c]) = 100
  BY Categories, Total_workload, Total_economic_fit, Total_low_incumbent_exposure, Total_direct_pain

LEMMA SumOfCategories ==
    ASSUME NEW f, \A c \in Category : f[c] \in Int
    PROVE  SumFunctionOnSet(f, Category)
              = f["workload"] + f["economic_fit"] + f["low_incumbent_exposure"] + f["direct_pain"]
<1>1. IsFiniteSet({"workload", "economic_fit", "low_incumbent_exposure", "direct_pain"})
  BY FewAreFinite
<1> DEFINE S1 == {"economic_fit", "low_incumbent_exposure", "direct_pain"}
           S2 == {"low_incumbent_exposure", "direct_pain"}
           S3 == {"direct_pain"}
<1>2. /\ Category \ {"workload"} = S1 /\ S1 \ {"economic_fit"} = S2
      /\ S2 \ {"low_incumbent_exposure"} = S3 /\ S3 \ {"direct_pain"} = {}
      /\ "workload" \in Category /\ "economic_fit" \in S1
      /\ "low_incumbent_exposure" \in S2 /\ "direct_pain" \in S3
      /\ S1 \subseteq Category /\ S2 \subseteq Category /\ S3 \subseteq Category
  BY Categories
<1>3. IsFiniteSet(Category) /\ IsFiniteSet(S1) /\ IsFiniteSet(S2) /\ IsFiniteSet(S3)
  BY <1>1, <1>2, Categories, FS_Subset
<1>4. SumFunctionOnSet(f, {}) = 0
  BY SumEmpty
<1> HIDE DEF S1, S2, S3
<1>5. SumFunctionOnSet(f, Category) = f["workload"] + SumFunctionOnSet(f, Category \ {"workload"})
  BY <1>2, <1>3, SumRemove
<1>6. SumFunctionOnSet(f, S1) = f["economic_fit"] + SumFunctionOnSet(f, S1 \ {"economic_fit"})
  BY <1>2, <1>3, SumRemove
<1>7. SumFunctionOnSet(f, S2)
         = f["low_incumbent_exposure"] + SumFunctionOnSet(f, S2 \ {"low_incumbent_exposure"})
  BY <1>2, <1>3, SumRemove
<1>8. SumFunctionOnSet(f, S3) = f["direct_pain"] + SumFunctionOnSet(f, S3 \ {"direct_pain"})
  BY <1>2, <1>3, SumRemove
<1>9. /\ f["workload"] \in Int /\ f["economic_fit"] \in Int
      /\ f["low_incumbent_exposure"] \in Int /\ f["direct_pain"] \in Int
  BY Categories
<1>10. SumFunctionOnSet(f, S3) = f["direct_pain"]
  BY <1>2, <1>4, <1>8, <1>9
<1>11. SumFunctionOnSet(f, S2) = f["low_incumbent_exposure"] + f["direct_pain"]
  BY <1>2, <1>7, <1>10
<1>12. SumFunctionOnSet(f, S1) = f["economic_fit"] + (f["low_incumbent_exposure"] + f["direct_pain"])
  BY <1>2, <1>6, <1>11
<1>13. SumFunctionOnSet(f, Category)
          = f["workload"] + (f["economic_fit"] + (f["low_incumbent_exposure"] + f["direct_pain"]))
  BY <1>2, <1>5, <1>12
<1> QED BY <1>9, <1>13

LEMMA CategoryBounds ==
    ASSUME NEW p, Extracted(p), NEW c \in Category
    PROVE  /\ Coverage(p, c) \in 0 .. 100
           /\ Earned(p, c) \in Nat /\ Earned(p, c) <= 100 * Coverage(p, c)
<1> DEFINE F == Features[c]
           K == Known(p, c)
           e == [key \in K |-> F[key] * Signal(c, key, p[key].value)]
<1>1. /\ IsFiniteSet(DOMAIN F) /\ \A key \in DOMAIN F : F[key] \in Nat
      /\ SumFunctionOnSet(F, DOMAIN F) = 100
  BY CategoryTotals
<1>2. K \in SUBSET DOMAIN F /\ K \subseteq Usable(p)
  BY DEF Known
<1>3. \A key \in K : Signal(c, key, p[key].value) \in 0 .. 100
  BY <1>2, UsableRange, SignalRange DEF Percent
<1>4. Coverage(p, c) = SumFunctionOnSet(F, K)
  BY DEF Coverage
<1>5. Earned(p, c) = SumFunctionOnSet(e, K)
  BY DEF Earned, SumFunction
<1>6. ASSUME NEW key \in K PROVE e[key] \in Nat /\ F[key] \in Nat /\ e[key] <= 100 * F[key]
  <2>1. F[key] \in Nat /\ Signal(c, key, p[key].value) \in 0 .. 100
    BY <1>1, <1>2, <1>3
  <2>2. e[key] = F[key] * Signal(c, key, p[key].value)
    OBVIOUS
  <2> HIDE DEF e, F, K
  <2>3. ASSUME NEW a \in Nat, NEW b \in 0 .. 100 PROVE a * b \in Nat /\ a * b <= 100 * a
    <3>1. a * b \in Nat
      OBVIOUS
    <3>2. 100 * a - a * b = (100 - b) * a /\ 100 - b \in Nat
      OBVIOUS
    <3>3. (100 - b) * a \in Nat
      BY <3>2
    <3> QED BY <3>1, <3>2, <3>3
  <2> QED BY <2>1, <2>2, <2>3
<1>7. IsFiniteSet(K)
  BY <1>1, <1>2, FS_Subset
<1> HIDE DEF e, F, K
<1>8. /\ SumFunctionOnSet(e, K) \in Nat /\ SumFunctionOnSet(F, K) \in Nat
      /\ SumFunctionOnSet(e, K) <= 100 * SumFunctionOnSet(F, K)
  <2>1. 100 \in Nat
    OBVIOUS
  <2> QED BY <2>1, <1>6, <1>7, SumBetween
<1>9. SumFunctionOnSet(F, K) <= 100
  BY <1>1, <1>2, SumGrows
<1> QED BY <1>4, <1>5, <1>8, <1>9

LEMMA OverallSums ==
    ASSUME NEW p, Extracted(p)
    PROVE  /\ OverallWeight(p) = 40 * Coverage(p, "workload") + 25 * Coverage(p, "economic_fit")
                + 25 * Coverage(p, "low_incumbent_exposure") + 10 * Coverage(p, "direct_pain")
           /\ OverallEarned(p) = 40 * Earned(p, "workload") + 25 * Earned(p, "economic_fit")
                + 25 * Earned(p, "low_incumbent_exposure") + 10 * Earned(p, "direct_pain")
<1> DEFINE w == [c \in Category |-> ProductWeight[c] * Coverage(p, c)]
           e == [c \in Category |-> ProductWeight[c] * Earned(p, c)]
<1>1. OverallWeight(p) = SumFunctionOnSet(w, Category)
  BY DEF OverallWeight, SumFunction
<1>2. OverallEarned(p) = SumFunctionOnSet(e, Category)
  BY DEF OverallEarned, SumFunction
<1>3. /\ w["workload"] = 40 * Coverage(p, "workload")
      /\ w["economic_fit"] = 25 * Coverage(p, "economic_fit")
      /\ w["low_incumbent_exposure"] = 25 * Coverage(p, "low_incumbent_exposure")
      /\ w["direct_pain"] = 10 * Coverage(p, "direct_pain")
  BY Categories DEF ProductWeight
<1>4. /\ e["workload"] = 40 * Earned(p, "workload")
      /\ e["economic_fit"] = 25 * Earned(p, "economic_fit")
      /\ e["low_incumbent_exposure"] = 25 * Earned(p, "low_incumbent_exposure")
      /\ e["direct_pain"] = 10 * Earned(p, "direct_pain")
  BY Categories DEF ProductWeight
<1>5. \A c \in Category : Coverage(p, c) \in Int /\ Earned(p, c) \in Int
  BY CategoryBounds
<1> HIDE DEF w, e
<1>6. \A c \in Category : w[c] \in Int /\ e[c] \in Int
  BY <1>3, <1>4, <1>5, Categories
<1> QED BY <1>1, <1>2, <1>3, <1>4, <1>6, SumOfCategories

LEMMA OverallBounds ==
    ASSUME NEW p, Extracted(p)
    PROVE  /\ OverallWeight(p) \in Nat /\ OverallWeight(p) <= 10000
           /\ OverallEarned(p) \in Nat /\ OverallEarned(p) <= 100 * OverallWeight(p)
<1>1. \A c \in Category : /\ Coverage(p, c) \in 0 .. 100
                          /\ Earned(p, c) \in Nat /\ Earned(p, c) <= 100 * Coverage(p, c)
  BY CategoryBounds
<1>2. /\ "workload" \in Category /\ "economic_fit" \in Category
      /\ "low_incumbent_exposure" \in Category /\ "direct_pain" \in Category
  BY Categories
<1> DEFINE a == Coverage(p, "workload")                b == Coverage(p, "economic_fit")
           c == Coverage(p, "low_incumbent_exposure")  d == Coverage(p, "direct_pain")
           m == Earned(p, "workload")                  n == Earned(p, "economic_fit")
           o == Earned(p, "low_incumbent_exposure")    r == Earned(p, "direct_pain")
<1>3. /\ OverallWeight(p) = 40 * a + 25 * b + 25 * c + 10 * d
      /\ OverallEarned(p) = 40 * m + 25 * n + 25 * o + 10 * r
  BY OverallSums
<1>4. /\ a \in 0 .. 100 /\ b \in 0 .. 100 /\ c \in 0 .. 100 /\ d \in 0 .. 100
      /\ m \in Nat /\ n \in Nat /\ o \in Nat /\ r \in Nat
      /\ m <= 100 * a /\ n <= 100 * b /\ o <= 100 * c /\ r <= 100 * d
  BY <1>1, <1>2
<1> HIDE DEF a, b, c, d, m, n, o, r
<1> QED BY SMT, <1>3, <1>4

\* What div gives.
LEMMA Quotient ==
    ASSUME NEW a \in Nat, NEW b \in Nat, b > 0
    PROVE  /\ a \div b \in Nat
           /\ (a \div b) * b <= a /\ a < (a \div b) * b + b
  BY SMT

LEMMA QuotientOrder ==
    ASSUME NEW q \in Int, NEW r \in Int, NEW b \in Nat, b > 0, q * b < r * b + b
    PROVE  q <= r
<1> SUFFICES ASSUME r + 1 <= q PROVE FALSE
  OBVIOUS
<1>1. q - (r + 1) \in Nat
  OBVIOUS
<1>2. (q - (r + 1)) * b >= 0
  BY <1>1
<1>3. (q - (r + 1)) * b = q * b - r * b - b
  BY <1>1
<1>4. q * b \in Int /\ r * b \in Int
  OBVIOUS
<1> QED BY <1>2, <1>3, <1>4

LEMMA ScoreRange ==
    ASSUME NEW p, Extracted(p)
    PROVE  FinalScore(p) \in Int /\ -1 <= FinalScore(p) /\ FinalScore(p) <= 10000
<1> DEFINE w == OverallWeight(p)
           e == OverallEarned(p)
           q == (200 * e + w) \div (2 * w)
<1>1. w \in Nat /\ w <= 10000 /\ e \in Nat /\ e <= 100 * w
  BY OverallBounds
<1>2. FinalScore(p) = IF w = 0 THEN Null ELSE q
  BY DEF FinalScore
<1> HIDE DEF w, e
<1>3. ASSUME w # 0 PROVE q \in Nat /\ q <= 10000
  <2>1. 200 * e + w \in Nat /\ 2 * w \in Nat /\ 2 * w > 0
    BY <1>1, <1>3
  <2>2. q \in Nat /\ q * (2 * w) <= 200 * e + w
    BY <2>1, Quotient
  <2> HIDE DEF q
  <2>3. q * (2 * w) < 10000 * (2 * w) + 2 * w
    <3>1. ASSUME NEW z \in Int, z <= 200 * e + w PROVE z < 10000 * (2 * w) + 2 * w
      BY SMT, <1>1, <1>3, <3>1
    <3>2. q * (2 * w) \in Int
      BY SMT, <1>1, <2>2
    <3> QED BY <2>2, <3>1, <3>2
  <2>4. q <= 10000
    <3>1. q \in Int /\ 10000 \in Int
      BY SMT, <2>2
    <3> QED BY SMT, <3>1, <2>1, <2>3, QuotientOrder
  <2> QED BY <2>2, <2>4
<1> HIDE DEF q
<1> QED BY SMT, <1>2, <1>3 DEF Null

\* A product grows with either factor.
LEMMA ProductOrder ==
    ASSUME NEW a \in Int, NEW b \in Int, NEW x \in Nat, NEW y \in Nat, a <= b, x <= y, b >= 0
    PROVE  a * x <= b * y
<1>1. b - a \in Nat /\ y - x \in Nat /\ b \in Nat
  OBVIOUS
<1>2. (b - a) * x >= 0 /\ b * (y - x) >= 0
  BY <1>1
<1>3. (b - a) * x = b * x - a * x /\ b * (y - x) = b * y - b * x
  OBVIOUS
<1>4. a * x \in Int /\ b * x \in Int /\ b * y \in Int
  OBVIOUS
<1> QED BY <1>2, <1>3, <1>4

\* The same earnings of less weight are a score that is at least as high, and a
\* higher one when the difference in weight is worth a hundredth.
LEMMA ScoreOrder ==
    ASSUME NEW e \in Nat, NEW w \in Nat, NEW v \in Nat, 0 < v, v < w,
           NEW a \in Nat, NEW b \in Nat,
           b * (2 * w) <= 200 * e + w, 200 * e + v < a * (2 * v) + 2 * v
    PROVE  /\ b <= a
           /\ (2 * a - 1) * (w - v) >= 2 * w => b < a
<1>1. (2 * b - 1) * w <= 200 * e
  <2>1. (2 * b - 1) * w = b * (2 * w) - w /\ b * (2 * w) \in Int
    OBVIOUS
  <2> QED BY <2>1
<1>2. 200 * e < (2 * a + 1) * v
  <2>1. (2 * a + 1) * v = a * (2 * v) + v /\ a * (2 * v) \in Int
    OBVIOUS
  <2> QED BY <2>1
<1>3. (2 * b - 1) * w \in Int /\ (2 * a + 1) * v \in Int
  OBVIOUS
<1>4. b <= a
  <2> SUFFICES ASSUME a < b PROVE FALSE
    OBVIOUS
  <2>1. 2 * a + 1 <= 2 * b - 1 /\ 2 * b - 1 >= 0 /\ 2 * a + 1 \in Int /\ 2 * b - 1 \in Int
    OBVIOUS
  <2>2. (2 * a + 1) * v <= (2 * b - 1) * w
    BY <2>1, ProductOrder
  <2> QED BY <2>2, <1>1, <1>2, <1>3
<1>5. ASSUME (2 * a - 1) * (w - v) >= 2 * w PROVE b < a
  <2> SUFFICES ASSUME a <= b PROVE FALSE
    OBVIOUS
  <2>1. a >= 1
    <3> SUFFICES ASSUME a = 0 PROVE FALSE
      OBVIOUS
    <3>1. (2 * a - 1) * (w - v) = v - w
      OBVIOUS
    <3> QED BY <3>1, <1>5
  <2>2. 2 * a - 1 <= 2 * b - 1 /\ 2 * b - 1 >= 0 /\ 2 * a - 1 \in Int /\ 2 * b - 1 \in Int
    BY <2>1
  <2>3. (2 * a - 1) * w <= (2 * b - 1) * w
    BY <2>2, ProductOrder
  <2>4. (2 * a - 1) * (w - v) = (2 * a - 1) * w - (2 * a - 1) * v
    OBVIOUS
  <2>5. (2 * a + 1) * v = (2 * a - 1) * v + 2 * v
    OBVIOUS
  <2>6. (2 * a - 1) * w \in Int /\ (2 * a - 1) * v \in Int
    OBVIOUS
  <2> QED BY <1>1, <1>2, <1>3, <1>5, <2>3, <2>4, <2>5, <2>6
<1> QED BY <1>4, <1>5

\* What is missing from a profile is the only difference.
LEMMA UsableApart ==
    ASSUME NEW p, NEW key
    PROVE  Usable(Without(p, {key})) = Usable(p) \ {key}
<1> DEFINE q == Without(p, {key})
<1>1. DOMAIN q = DOMAIN p \ {key} /\ \A k \in DOMAIN p \ {key} : q[k] = p[k]
  BY WithoutKeeps
<1> HIDE DEF q
<1>2. ASSUME NEW k \in DOMAIN p \ {key} PROVE Invalid(q, k) <=> Invalid(p, k)
  BY <1>1 DEF Invalid
<1>3. Usable(q) = Usable(p) \ {key}
  BY <1>1, <1>2 DEF Usable
<1> QED BY <1>3 DEF q

\* A usable fact of the worst value is as usable and its signal is zero.
LEMMA WorstFact ==
    ASSUME NEW p, Extracted(p), NEW key \in (Usable(p) \cap Scored) \ Counts
    PROVE  LET r == Zeroed(p, key) IN
           /\ Extracted(r) /\ Usable(r) = Usable(p)
           /\ \A k \in DOMAIN p \ {key} : r[k] = p[k]
           /\ \A c \in Category : key \in DOMAIN Features[c] =>
                 Signal(c, key, r[key].value) = 0
<1> DEFINE r == Zeroed(p, key)
<1>0. r = [p EXCEPT ![key].value = Worst(key)]
  BY DEF Zeroed
<1> HIDE DEF r
<1>1. key \in DOMAIN p /\ p[key] \in [value : Int, confidence : Nat, cited : BOOLEAN]
      /\ ~ Invalid(p, key) /\ p[key].value # Null /\ p[key].confidence >= Policy.minimum_fact
  BY DEF Usable, Extracted
<1>2. p[key].cited /\ Supported(key, p[key].value)
  BY <1>1 DEF Invalid
<1>3. /\ DOMAIN r = DOMAIN p
      /\ \A k \in DOMAIN p \ {key} : r[k] = p[k]
      /\ r[key] = [p[key] EXCEPT !.value = Worst(key)]
  BY <1>0, <1>1
<1>4. /\ r[key].value = Worst(key) /\ r[key].confidence = p[key].confidence
      /\ r[key].cited = p[key].cited
      /\ r[key] \in [value : Int, confidence : Nat, cited : BOOLEAN]
  <2>1. Worst(key) \in Int
    BY DEF Worst
  <2> QED BY <1>1, <1>3, <2>1
<1>5. Worst(key) # Null /\ Supported(key, Worst(key))
  BY DEF Worst, Null, Supported
<1>6. ~ Invalid(r, key)
  BY <1>2, <1>4, <1>5 DEF Invalid
<1>7. \A k \in DOMAIN p \ {key} : Invalid(r, k) <=> Invalid(p, k)
  BY <1>3 DEF Invalid
<1>8. Extracted(r)
  BY <1>3, <1>4 DEF Extracted
<1>9. Usable(r) = Usable(p)
  BY <1>1, <1>3, <1>4, <1>5, <1>6, <1>7 DEF Usable
<1>10. ASSUME NEW c \in Category, key \in DOMAIN Features[c]
       PROVE  Signal(c, key, Worst(key)) = 0
  <2>1. CASE c = "low_incumbent_exposure"
    <3>1. Worst(key) = 1
      BY <1>10, <2>1 DEF Worst, Incumbents
    <3> QED BY <2>1, <3>1 DEF Signal
  <2>2. CASE c # "low_incumbent_exposure"
    <3>1. key \notin Incumbents
      BY <1>10, <2>2, Categories DEF Incumbents, Features
    <3>2. Worst(key) = 0
      BY <3>1 DEF Worst
    <3>3. CASE key = "manufacturer_count_or_breadth"
      <4> DEFINE s1 == <<0, 0>> s2 == <<4, 25>> s3 == <<9, 50>> s4 == <<19, 75>>
                 table == {s1, s2, s3, s4}
      <4>1. \A s \in table : s[1] \in Int /\ s[2] \in Percent
        BY DEF Percent
      <4>2. 0 <= s1[1] /\ s1[2] = 0 /\ s1 \in table /\ \A s \in table \ {s1} : s1[1] < s[1]
        OBVIOUS
      <4>3. Signal(c, key, 0) = Step(0, table, 100)
        BY <2>2, <3>3 DEF Signal
      <4> HIDE DEF s1, s2, s3, s4
      <4>4. IsFiniteSet(table)
        BY FewAreFinite
      <4> HIDE DEF table
      <4>5. 0 \in Int /\ 100 \in Percent
        BY DEF Percent
      <4>6. Step(0, table, 100) = s1[2]
        <5>1. \A f \in table : 0 <= f[1] /\ (\A s \in table \ {f} : f[1] < s[1])
                                 => Step(0, table, 100) = f[2]
          BY <4>1, <4>4, <4>5, StepRange
        <5> QED BY <4>2, <5>1
      <4> QED BY <3>2, <4>2, <4>3, <4>6
    <3>4. CASE key # "manufacturer_count_or_breadth"
      <4>1. Signal(c, key, 0) = 100 * 0
        BY <2>2, <3>4 DEF Signal, Counts
      <4> QED BY <3>2, <4>1
    <3> QED BY <3>3, <3>4
  <2> QED BY <2>1, <2>2
<1> QED BY <1>3, <1>4, <1>8, <1>9, <1>10 DEF r

LEMMA FairInCategory ==
    ASSUME NEW p, Extracted(p), NEW key \in (Usable(p) \cap Scored) \ Counts,
           NEW c \in Category
    PROVE  LET q == Without(p, {key})
               r == Zeroed(p, key)
           IN
           /\ Earned(q, c) = Earned(r, c)
           /\ key \in DOMAIN Features[c] =>
                 Coverage(r, c) = Coverage(q, c) + Features[c][key]
           /\ key \notin DOMAIN Features[c] => Coverage(r, c) = Coverage(q, c)
<1> DEFINE q == Without(p, {key})
           r == Zeroed(p, key)
           F == Features[c]
           K == Known(r, c)
           L == Known(q, c)
           er == [k \in K |-> F[k] * Signal(c, k, r[k].value)]
           eq == [k \in L |-> F[k] * Signal(c, k, q[k].value)]
<1>1. /\ Extracted(r) /\ Usable(r) = Usable(p)
      /\ \A k \in DOMAIN p \ {key} : r[k] = p[k]
      /\ key \in DOMAIN F => Signal(c, key, r[key].value) = 0
  BY WorstFact
<1>2. Usable(q) = Usable(p) \ {key} /\ \A k \in DOMAIN p \ {key} : q[k] = p[k]
  BY UsableApart, WithoutKeeps
<1>3. Usable(p) \subseteq DOMAIN p
  BY DEF Usable
<1> HIDE DEF q, r
<1>4. L = K \ {key} /\ (key \in DOMAIN F => key \in K) /\ (key \notin DOMAIN F => L = K)
      /\ K \subseteq DOMAIN F /\ K \subseteq Usable(r)
  BY <1>1, <1>2 DEF Known
<1>5. \A k \in L : q[k] = r[k]
  BY <1>1, <1>2, <1>3, <1>4
<1>6. /\ Coverage(r, c) = SumFunctionOnSet(F, K) /\ Coverage(q, c) = SumFunctionOnSet(F, L)
      /\ Earned(r, c) = SumFunctionOnSet(er, K) /\ Earned(q, c) = SumFunctionOnSet(eq, L)
  BY DEF Coverage, Earned, SumFunction
<1>7. IsFiniteSet(K) /\ IsFiniteSet(L) /\ \A k \in K : F[k] \in Int
  <2>1. IsFiniteSet(DOMAIN F) /\ \A k \in DOMAIN F : F[k] \in 1 .. 100
    BY CategoryTotals
  <2>2. K \subseteq DOMAIN F /\ L \subseteq K
    BY <1>4
  <2> HIDE DEF F, K, L
  <2>3. IsFiniteSet(K) /\ IsFiniteSet(L)
    BY <2>1, <2>2, FS_Subset
  <2>4. \A k \in K : F[k] \in Int
    BY <2>1, <2>2
  <2> QED BY <2>3, <2>4
<1>8. \A k \in K : er[k] \in Int
  <2>1. ASSUME NEW k \in K PROVE er[k] \in Int
    <3>1. k \in Usable(r) /\ k \in DOMAIN F
      BY <1>4
    <3>2. r[k].value \in Int /\ Supported(k, r[k].value)
      BY <1>1, <3>1, UsableRange
    <3>3. Signal(c, k, r[k].value) \in Percent
      BY <3>1, <3>2, SignalRange
    <3>4. Signal(c, k, r[k].value) \in Int /\ F[k] \in Int
      <4> HIDE DEF F, K
      <4> QED BY <1>7, <3>3 DEF Percent
    <3>5. er[k] = F[k] * Signal(c, k, r[k].value)
      OBVIOUS
    <3> QED BY <3>4, <3>5
  <2> QED BY <2>1
<1>9. \A k \in L : eq[k] = er[k]
  BY <1>4, <1>5
<1>10. key \in DOMAIN F => er[key] = 0
  <2> SUFFICES ASSUME key \in DOMAIN F PROVE er[key] = 0
    OBVIOUS
  <2>1. er[key] = F[key] * 0 /\ F[key] \in Int
    BY <1>1, <1>4, <1>7
  <2> QED BY <2>1
<1> HIDE DEF F, K, L, er, eq
<1>11. SumFunctionOnSet(eq, L) = SumFunctionOnSet(er, L)
  BY <1>4, <1>7, <1>8, <1>9, SumSame
<1>12. CASE key \in DOMAIN F
  <2>1. key \in K /\ L = K \ {key}
    BY <1>4, <1>12
  <2>2. SumFunctionOnSet(er, K) = er[key] + SumFunctionOnSet(er, L)
    BY <2>1, <1>7, <1>8, SumRemove
  <2>3. SumFunctionOnSet(F, K) = F[key] + SumFunctionOnSet(F, L)
    BY <2>1, <1>7, SumRemove
  <2>4. SumFunctionOnSet(er, L) \in Int /\ SumFunctionOnSet(F, L) \in Int /\ F[key] \in Int
    BY <1>4, <1>7, <1>8, <2>1, SumType
  <2>5. Earned(q, c) = Earned(r, c) /\ Coverage(r, c) = Coverage(q, c) + F[key]
    BY <1>6, <1>10, <1>11, <1>12, <2>2, <2>3, <2>4
  <2> QED BY <1>12, <2>5 DEF F, q, r
<1>13. CASE key \notin DOMAIN F
  <2>1. Earned(q, c) = Earned(r, c) /\ Coverage(r, c) = Coverage(q, c)
    BY <1>4, <1>6, <1>11, <1>13
  <2> QED BY <1>13, <2>1 DEF F, q, r
<1> QED BY <1>12, <1>13

LEMMA SomeCategory ==
    ASSUME NEW key \in Scored
    PROVE  \E c \in Category : key \in DOMAIN Features[c]
  BY DEF Scored

\* Leaving a fact out is scored fairly against having it with no signal.
LEMMA AlwaysFair ==
    ASSUME NEW p, Extracted(p), NEW key \in (Usable(p) \cap Scored) \ Counts
    PROVE  FairlyScored(p, key)
<1> DEFINE q == Without(p, {key})
           r == Zeroed(p, key)
           E(c) == Earned(q, c) = Earned(r, c)
           gain(c) == Coverage(r, c) - Coverage(q, c)
<1>1. Extracted(r)
  BY WorstFact
<1>2. Extracted(q)
  <2>1. DOMAIN q = DOMAIN p \ {key} /\ \A k \in DOMAIN p \ {key} : q[k] = p[k]
    BY WithoutKeeps
  <2> HIDE DEF q, r, E, gain
  <2>2. DOMAIN q \subseteq DOMAIN p /\ \A k \in DOMAIN q : q[k] = p[k]
    BY <2>1
  <2> QED BY <2>2 DEF Extracted
<1>3. \A c \in Category : /\ Coverage(q, c) \in 0 .. 100 /\ Coverage(r, c) \in 0 .. 100
                          /\ Earned(q, c) \in Nat /\ Earned(r, c) \in Nat
  BY <1>1, <1>2, CategoryBounds
<1>4. ASSUME NEW c \in Category
      PROVE  /\ E(c) /\ gain(c) >= 0
             /\ key \in DOMAIN Features[c] => gain(c) > 0
  <2>1. \A k \in DOMAIN Features[c] : Features[c][k] \in 1 .. 100
    BY CategoryTotals
  <2>2. /\ E(c)
        /\ key \in DOMAIN Features[c] => Coverage(r, c) = Coverage(q, c) + Features[c][key]
        /\ key \notin DOMAIN Features[c] => Coverage(r, c) = Coverage(q, c)
    BY FairInCategory
  <2>3. Coverage(q, c) \in Int /\ Coverage(r, c) \in Int
    BY <1>3
  <2>4. CASE key \in DOMAIN Features[c]
    <3>1. Features[c][key] \in Int /\ Features[c][key] > 0
      BY <2>1, <2>4
    <3>2. Coverage(r, c) = Coverage(q, c) + Features[c][key]
      BY <2>2, <2>4
    <3> HIDE DEF q, r
    <3>3. gain(c) > 0 /\ gain(c) >= 0
      BY <2>3, <3>1, <3>2
    <3> HIDE DEF gain, E
    <3> QED BY <2>2, <3>3
  <2>5. CASE key \notin DOMAIN Features[c]
    <3>1. gain(c) >= 0
      BY <2>2, <2>3, <2>5
    <3> HIDE DEF gain, E
    <3> QED BY <2>2, <2>5, <3>1
  <2> QED BY <2>4, <2>5
<1>5. PICK home \in Category : key \in DOMAIN Features[home]
  BY SomeCategory
<1>6. /\ OverallWeight(q) = 40 * Coverage(q, "workload") + 25 * Coverage(q, "economic_fit")
           + 25 * Coverage(q, "low_incumbent_exposure") + 10 * Coverage(q, "direct_pain")
      /\ OverallWeight(r) = 40 * Coverage(r, "workload") + 25 * Coverage(r, "economic_fit")
           + 25 * Coverage(r, "low_incumbent_exposure") + 10 * Coverage(r, "direct_pain")
      /\ OverallEarned(q) = 40 * Earned(q, "workload") + 25 * Earned(q, "economic_fit")
           + 25 * Earned(q, "low_incumbent_exposure") + 10 * Earned(q, "direct_pain")
      /\ OverallEarned(r) = 40 * Earned(r, "workload") + 25 * Earned(r, "economic_fit")
           + 25 * Earned(r, "low_incumbent_exposure") + 10 * Earned(r, "direct_pain")
  BY <1>1, <1>2, OverallSums
<1> DEFINE w == OverallWeight(r)   v == OverallWeight(q)   e == OverallEarned(q)
<1> HIDE DEF q, r
<1>7. OverallEarned(q) = OverallEarned(r)
  <2>1. E("workload") /\ E("economic_fit") /\ E("low_incumbent_exposure") /\ E("direct_pain")
    BY <1>4, Categories
  <2> QED BY <1>6, <2>1
<1>8. v < w
  <2>1. /\ gain("workload") >= 0 /\ gain("economic_fit") >= 0
        /\ gain("low_incumbent_exposure") >= 0 /\ gain("direct_pain") >= 0
        /\ \/ gain("workload") > 0 \/ gain("economic_fit") > 0
           \/ gain("low_incumbent_exposure") > 0 \/ gain("direct_pain") > 0
    BY <1>4, <1>5, Categories
  <2>2. \A c \in {"workload", "economic_fit", "low_incumbent_exposure", "direct_pain"} :
           Coverage(q, c) \in Int /\ Coverage(r, c) \in Int
    BY <1>3, Categories
  <2>3. w - v = 40 * gain("workload") + 25 * gain("economic_fit")
                  + 25 * gain("low_incumbent_exposure") + 10 * gain("direct_pain")
        /\ w \in Int /\ v \in Int
    BY <1>6, <2>2
  <2>4. /\ gain("workload") \in Int /\ gain("economic_fit") \in Int
        /\ gain("low_incumbent_exposure") \in Int /\ gain("direct_pain") \in Int
    BY <2>2
  <2> HIDE DEF gain, w, v
  <2> QED BY <2>1, <2>3, <2>4
<1>9. v \in Nat /\ w \in Nat /\ e \in Nat
  BY <1>1, <1>2, OverallBounds
<1>10. ASSUME v > 0
       PROVE  /\ FinalScore(r) <= FinalScore(q)
              /\ (2 * FinalScore(q) - 1) * (w - v) >= 2 * w => FinalScore(r) < FinalScore(q)
  <2> DEFINE a == (200 * e + v) \div (2 * v)
             b == (200 * e + w) \div (2 * w)
  <2>1. FinalScore(q) = a /\ FinalScore(r) = b
    BY <1>7, <1>8, <1>9, <1>10 DEF FinalScore
  <2> HIDE DEF e, v, w
  <2>2. 200 * e + v \in Nat /\ 2 * v \in Nat /\ 2 * v > 0
        /\ 200 * e + w \in Nat /\ 2 * w \in Nat /\ 2 * w > 0
    BY <1>8, <1>9, <1>10
  <2>3. a \in Nat /\ 200 * e + v < a * (2 * v) + 2 * v
    BY <2>2, Quotient
  <2>4. b \in Nat /\ b * (2 * w) <= 200 * e + w
    BY <2>2, Quotient
  <2> HIDE DEF a, b
  <2>5. /\ b <= a
        /\ (2 * a - 1) * (w - v) >= 2 * w => b < a
    BY <1>8, <1>9, <1>10, <2>3, <2>4, ScoreOrder
  <2> QED BY <2>1, <2>5
<1>11. w - v > 0
  BY <1>8, <1>9
<1> QED BY <1>7, <1>10, <1>11 DEF FairlyScored, q, r

(***************************************************************************)
(* An unknown fact is not a fact of value zero: for any profile, leaving a *)
(* usable fact out earns as much of less weight, never a lower published   *)
(* score, and a higher one from the weight of a hundredth on               *)
(* (policy.py:413-447, 664-666).                                           *)
(***************************************************************************)
THEOREM UnknownsScoreFairly == Spec => []UnknownIsNotZero
<1>1. Spec => []ProfilesKnown
  BY ProfilesStayKnown
<1>2. ProfilesKnown => UnknownIsNotZero
  <2>1. \A name \in DOMAIN Profiles : Extracted(Profiles[name])
    BY InputsAssumption DEF InputsAssumption, Extracted
  <2>2. \A name \in DOMAIN Profiles : ScoresUnknownFairly[name]
    BY <2>1, AlwaysFair DEF ScoresUnknownFairly
  <2> QED BY <2>2 DEF ProfilesKnown, UnknownIsNotZero
<1> QED BY <1>1, <1>2, PTL

-----------------------------------------------------------------------------
(***************************************************************************)
(* Deduplication.                                                          *)
(***************************************************************************)

Lists == {list \in Seq(DOMAIN Catalogue) : Len(list) <= MaxRows}
Prepared(list) == [i \in DOMAIN list |-> Prepare(list[i])]
GroupOf(p, S) == {<<i, p[i]>> : i \in S}
Countries(p, S) == {p[i].country : i \in S} \ {None}
Domains(p) == {p[i].domain : i \in DOMAIN p} \ {None}
Holding(p, d) == {i \in DOMAIN p : p[i].domain = d} \cup Joining(p, d)
Sharing(p, f) == {i \in Grouped(p) : p[i].fallback = f}
Single(p) == Ambiguous(p) \cup Insufficient(p)

ByDomain(p, d) == Build(GroupOf(p, Holding(p, d)), DomainId(d), d, {})
ByFallback(p, f) == Build(GroupOf(p, Sharing(p, f)), FallbackId(f), None, {})
Alone(list, p, i, reason) ==
    Build(GroupOf(p, {i}), SingletonId(p[i].id, Rank(list, p, i)), None, {reason})

LEMMA RowsPrepared ==
    ASSUME NEW r \in DOMAIN Catalogue
    PROVE  /\ Prepare(r).id \in Nat /\ Prepare(r).exa \in BOOLEAN /\ Prepare(r).domain \in Nat
           /\ Prepare(r).name \in Nat /\ Prepare(r).country \in Nat
           /\ Prepare(r).country = Catalogue[r].country
<1>1. Catalogue[r] \in Row
  BY CatalogueAssumption DEF CatalogueAssumption
<1> QED BY <1>1 DEF Prepare, Row, None

LEMMA ListPrepared ==
    ASSUME NEW list \in Lists
    PROVE  LET p == Prepared(list) IN
           /\ DOMAIN list = 1 .. Len(list) /\ Len(list) \in Nat /\ Len(list) <= MaxRows
           /\ DOMAIN p = DOMAIN list /\ IsFiniteSet(DOMAIN p) /\ Cardinality(DOMAIN p) = Len(list)
           /\ \A i \in DOMAIN p :
                 /\ list[i] \in DOMAIN Catalogue /\ list[i] \in Nat /\ p[i] = Prepare(list[i])
                 /\ p[i].id \in Nat /\ p[i].exa \in BOOLEAN /\ p[i].domain \in Nat
                 /\ p[i].name \in Nat /\ p[i].country \in Nat
                 /\ p[i].country = Catalogue[list[i]].country
<1> DEFINE p == Prepared(list)
<1>1. /\ list \in Seq(DOMAIN Catalogue) /\ DOMAIN list = 1 .. Len(list) /\ Len(list) \in Nat
      /\ Len(list) <= MaxRows /\ \A i \in DOMAIN list : list[i] \in DOMAIN Catalogue
  BY DEF Lists
<1>2. DOMAIN p = DOMAIN list /\ \A i \in DOMAIN p : p[i] = Prepare(list[i])
  BY DEF Prepared
<1>3. IsFiniteSet(1 .. Len(list)) /\ Cardinality(1 .. Len(list)) = Len(list)
  <2>1. 1 \in Int /\ Len(list) \in Int
    BY <1>1
  <2>2. /\ IsFiniteSet(1 .. Len(list))
        /\ Cardinality(1 .. Len(list)) = IF 1 > Len(list) THEN 0 ELSE Len(list) - 1 + 1
    BY <2>1, FS_Interval
  <2> QED BY <1>1, <2>2
<1>4. DOMAIN Catalogue \subseteq Nat
  BY CatalogueAssumption DEF CatalogueAssumption
<1> HIDE DEF p
<1>5. ASSUME NEW i \in DOMAIN p
      PROVE  /\ list[i] \in DOMAIN Catalogue /\ list[i] \in Nat /\ p[i] = Prepare(list[i])
             /\ p[i].id \in Nat /\ p[i].exa \in BOOLEAN /\ p[i].domain \in Nat
             /\ p[i].name \in Nat /\ p[i].country \in Nat
             /\ p[i].country = Catalogue[list[i]].country
  <2>1. list[i] \in DOMAIN Catalogue /\ p[i] = Prepare(list[i])
    BY <1>1, <1>2
  <2> QED BY <2>1, <1>4, RowsPrepared
<1> QED BY <1>1, <1>2, <1>3, <1>5 DEF p

\* A group's company.
LEMMA BuildIs ==
    ASSUME NEW p, NEW S, NEW id, NEW domain, NEW extra
    PROVE  /\ Build(GroupOf(p, S), id, domain, extra).id = id
           /\ Build(GroupOf(p, S), id, domain, extra).domain = domain
           /\ Build(GroupOf(p, S), id, domain, extra).rows = S
           /\ Build(GroupOf(p, S), id, domain, extra).name = CanonicalName(GroupOf(p, S))
           /\ Build(GroupOf(p, S), id, domain, extra).country =
                 IF Cardinality(Countries(p, S)) = 1
                 THEN CHOOSE x \in Countries(p, S) : TRUE ELSE None
<1> DEFINE group == GroupOf(p, S)
<1>0. /\ \A x \in group : x[1] \in S /\ x[2] = p[x[1]]
      /\ \A i \in S : <<i, p[i]>> \in group
  <2>1. ASSUME NEW x \in group PROVE x[1] \in S /\ x[2] = p[x[1]]
    <3>1. PICK i \in S : x = <<i, p[i]>>
      BY DEF GroupOf
    <3> QED BY <3>1
  <2> QED BY <2>1 DEF GroupOf
<1>a. \A i : <<i, p[i]>>[1] = i /\ <<i, p[i]>>[2] = p[i]
  OBVIOUS
<1> HIDE DEF group
<1>1. {x[1] : x \in group} = S
  BY <1>0, <1>a
<1>2. {x[2].country : x \in group} = {p[i].country : i \in S}
  <2>1. ASSUME NEW i \in S PROVE \E x \in group : p[i].country = x[2].country
    <3>1. <<i, p[i]>> \in group /\ <<i, p[i]>>[2] = p[i]
      BY <1>0, <1>a
    <3> QED BY <3>1
  <2>2. ASSUME NEW x \in group PROVE \E i \in S : x[2].country = p[i].country
    BY <1>0
  <2> QED BY <2>1, <2>2
<1> DEFINE b == Build(group, id, domain, extra)
           countries == Countries(p, S)
<1>3. /\ b.id = id /\ b.domain = domain /\ b.rows = {x[1] : x \in group}
      /\ b.name = CanonicalName(group)
      /\ b.country = LET found == {x[2].country : x \in group} \ {None}
                     IN  IF Cardinality(found) = 1 THEN CHOOSE x \in found : TRUE ELSE None
  BY DEF Build
<1>4. b.country = IF Cardinality(countries) = 1 THEN CHOOSE x \in countries : TRUE ELSE None
  BY <1>2, <1>3 DEF Countries
<1>5. b.rows = S
  BY <1>1, <1>3
<1>6. b.id = id /\ b.domain = domain /\ b.name = CanonicalName(group)
  BY <1>3
<1> HIDE DEF b, countries
<1> QED BY <1>4, <1>5, <1>6 DEF group, b, countries

LEMMA CompaniesAre ==
    ASSUME NEW list
    PROVE  LET p == Prepared(list) IN
           /\ Deduplicated(list).unresolved = Unresolved(p)
           /\ \A c : c \in Deduplicated(list).companies <=>
                 \/ \E d \in Domains(p) : c = ByDomain(p, d)
                 \/ \E i \in Grouped(p) : c = ByFallback(p, p[i].fallback)
                 \/ \E i \in Ambiguous(p) : c = Alone(list, p, i, "AMBIGUOUS_IDENTITY")
                 \/ \E i \in Insufficient(p) : c = Alone(list, p, i, "INSUFFICIENT_IDENTITY")
<1> DEFINE p == Prepared(list)
<1>1. Deduplicated(list).unresolved = Unresolved(p)
  BY DEF Deduplicated, Prepared
<1>2. Deduplicated(list).companies =
         {ByDomain(p, d) : d \in Domains(p)}
         \cup {ByFallback(p, f) : f \in {p[i].fallback : i \in Grouped(p)}}
         \cup {Alone(list, p, i, "AMBIGUOUS_IDENTITY") : i \in Ambiguous(p)}
         \cup {Alone(list, p, i, "INSUFFICIENT_IDENTITY") : i \in Insufficient(p)}
  BY DEF Deduplicated, Prepared, ByDomain, ByFallback, Alone, Domains, Holding, Sharing, GroupOf
<1> HIDE DEF p
<1> QED BY <1>1, <1>2 DEF p

\* Where the rows of a list go.
LEMMA MatchedFinite ==
    ASSUME NEW list \in Lists, NEW i
    PROVE  IsFiniteSet(Matched(Prepared(list), i))
<1> DEFINE p == Prepared(list)
           J == {j \in DOMAIN p : /\ p[j].domain # None
                                  /\ p[j].fallback # NoFallback
                                  /\ p[j].fallback = p[i].fallback}
           f == [j \in J |-> p[j].domain]
<1>1. IsFiniteSet(J)
  BY ListPrepared, FS_Subset
<1>2. f \in Surjection(J, Matched(p, i))
  <2>1. Matched(p, i) = {p[j].domain : j \in J}
    BY DEF Matched
  <2> QED BY <2>1 DEF Surjection
<1> HIDE DEF f, J, p
<1>3. IsFiniteSet(Matched(p, i))
  BY <1>1, <1>2, FS_Surjection
<1> QED BY <1>3 DEF p

LEMMA Places ==
    ASSUME NEW list \in Lists
    PROVE  LET p == Prepared(list) IN
           /\ \A i \in DOMAIN p \ Unresolved(p) :
                 \/ p[i].domain # None
                 \/ i \in Domainless(p) /\ \E d : i \in Joining(p, d)
                 \/ i \in Grouped(p) \/ i \in Ambiguous(p) \/ i \in Insufficient(p)
           /\ \A i, d : i \in Joining(p, d) =>
                 d \in Domains(p) /\ i \notin Grouped(p) \cup Single(p)
           /\ \A i, d, e : i \in Joining(p, d) /\ i \in Joining(p, e) => d = e
           /\ Grouped(p) \cap Single(p) = {}
           /\ Ambiguous(p) \cap Insufficient(p) = {}
           /\ Grouped(p) \cup Single(p) \subseteq Domainless(p)
           /\ \A i \in Grouped(p) : p[i].fallback # NoFallback
<1> DEFINE p == Prepared(list)
<1>1. \A i : /\ Cardinality(Matched(p, i)) \in Nat
             /\ Matched(p, i) = {} <=> Cardinality(Matched(p, i)) = 0
             /\ \A d : Matched(p, i) = {d} => Cardinality(Matched(p, i)) = 1
             /\ Cardinality(Matched(p, i)) = 1 => \E d : Matched(p, i) = {d}
  <2> TAKE i
  <2>1. IsFiniteSet(Matched(p, i))
    BY MatchedFinite
  <2> QED BY <2>1, FS_CardinalityType, FS_EmptySet, FS_Singleton
<1>2. \A i : p[i].fallback = NoFallback => Matched(p, i) = {}
  BY DEF Matched
<1>3. \A i, d : Matched(p, i) = {d} => d \in Domains(p)
  <2>1. \A i : Matched(p, i) \subseteq Domains(p)
    BY DEF Matched, Domains
  <2> QED BY <2>1
<1> HIDE DEF p
<1>4. \A i \in DOMAIN p \ Unresolved(p) : p[i].domain # None \/ i \in Domainless(p)
  BY DEF Unresolved, Domainless
<1>5. \A i \in Domainless(p) :
         \/ \E d : i \in Joining(p, d)
         \/ i \in Grouped(p) \/ i \in Ambiguous(p) \/ i \in Insufficient(p)
  <2> TAKE i \in Domainless(p)
  <2>1. CASE Cardinality(Matched(p, i)) = 0
    BY <1>1, <2>1 DEF Grouped, Insufficient
  <2>2. CASE Cardinality(Matched(p, i)) = 1
    BY <1>1, <2>2 DEF Joining
  <2>3. CASE Cardinality(Matched(p, i)) > 1
    BY <1>1, <2>3 DEF Ambiguous
  <2> QED BY <1>1, <2>1, <2>2, <2>3
<1>6. \A i, d : i \in Joining(p, d) => Matched(p, i) = {d}
  BY DEF Joining
<1>7. \A i, d : i \in Joining(p, d) =>
         d \in Domains(p) /\ i \notin Grouped(p) \cup Single(p)
  <2>1. ASSUME NEW i, NEW d, i \in Joining(p, d)
        PROVE  d \in Domains(p) /\ i \notin Grouped(p) \cup Single(p)
    <3>1. Matched(p, i) = {d} /\ Cardinality(Matched(p, i)) = 1 /\ Matched(p, i) # {}
      BY <1>1, <1>6, <2>1
    <3>2. d \in Domains(p)
      BY <1>3, <3>1
    <3>3. i \notin Grouped(p)
      BY <3>1 DEF Grouped
    <3>4. i \notin Ambiguous(p)
      BY <3>1 DEF Ambiguous
    <3>5. i \notin Insufficient(p)
      BY <1>2, <3>1 DEF Insufficient
    <3> QED BY <3>2, <3>3, <3>4, <3>5 DEF Single
  <2> QED BY <2>1
<1>8. \A i, d, e : i \in Joining(p, d) /\ i \in Joining(p, e) => d = e
  BY <1>6
<1>9. Grouped(p) \cap Single(p) = {} /\ Ambiguous(p) \cap Insufficient(p) = {}
  BY <1>1, <1>2 DEF Grouped, Single, Ambiguous, Insufficient
<1>10. /\ Grouped(p) \cup Single(p) \subseteq Domainless(p)
       /\ \A i \in Grouped(p) : p[i].fallback # NoFallback
  BY DEF Grouped, Single, Ambiguous, Insufficient
<1>11. \A i \in DOMAIN p \ Unresolved(p) :
          \/ p[i].domain # None
          \/ i \in Domainless(p) /\ \E d : i \in Joining(p, d)
          \/ i \in Grouped(p) \/ i \in Ambiguous(p) \/ i \in Insufficient(p)
  BY <1>4, <1>5
<1> QED BY <1>7, <1>8, <1>9, <1>10, <1>11 DEF p

SameRecord(p, id) == {j \in Single(p) : p[j].id = id}
Earlier(list, S) ==
    {x \in S \X S : list[x[1]] < list[x[2]] \/ (list[x[1]] = list[x[2]] /\ x[1] < x[2])}

RankRange == 0 .. MaxRows

LEMMA NumbersInOrder ==
    ASSUME NEW S \in SUBSET Int, NEW R, \A i, j \in S : <<i, j>> \in R <=> i < j
    PROVE  IsOrder(R, S)
  BY DEF IsOrder

LEMMA EarlierIsOrder ==
    ASSUME NEW list, NEW S \in SUBSET Nat, \A i \in S : list[i] \in Nat
    PROVE  IsOrder(Earlier(list, S), S)
<1>1. \A i, j \in S : <<i, j>> \in Earlier(list, S) <=>
         list[i] < list[j] \/ (list[i] = list[j] /\ i < j)
  BY DEF Earlier
<1> QED BY <1>1 DEF IsOrder

\* The rank of a singleton is its place among those of its record.
LEMMA RankIs ==
    ASSUME NEW list \in Lists, NEW i \in Single(Prepared(list))
    PROVE  LET p == Prepared(list)
               S == SameRecord(p, p[i].id)
               R == Earlier(list, S)
           IN  /\ i \in S /\ Rank(list, p, i) = Cardinality(Before(R, S, i))
               /\ IsFiniteSet(S) /\ IsOrder(R, S)
               /\ S \subseteq DOMAIN p /\ \A j \in S : list[j] \in Nat /\ j \in Nat
<1> DEFINE p == Prepared(list)
           S == SameRecord(p, p[i].id)
<1>1. S \subseteq DOMAIN p
  BY DEF SameRecord, Single, Ambiguous, Insufficient, Domainless
<1>2. /\ DOMAIN p \subseteq Nat /\ IsFiniteSet(DOMAIN p)
      /\ \A j \in DOMAIN p : list[j] \in Nat
  BY ListPrepared
<1>3. i \in S
  BY DEF SameRecord
<1>4. \A j : j \in S <=> j \in Ambiguous(p) \cup Insufficient(p) /\ p[j].id = p[i].id
  BY DEF SameRecord, Single
<1> DEFINE B == {j \in Ambiguous(p) \cup Insufficient(p) :
                    /\ p[j].id = p[i].id
                    /\ list[j] < list[i] \/ (list[j] = list[i] /\ j < i)}
<1>5. Rank(list, p, i) = Cardinality(B)
  BY DEF Rank
<1> HIDE DEF S
<1>6. \A j \in S : <<j, i>> \in Earlier(list, S) <=>
         list[j] < list[i] \/ (list[j] = list[i] /\ j < i)
  BY <1>3 DEF Earlier
<1>7. B = Before(Earlier(list, S), S, i)
  BY <1>4, <1>6 DEF Before
<1>8. IsFiniteSet(S)
  BY <1>1, <1>2, FS_Subset
<1>9. S \in SUBSET Nat /\ \A j \in S : list[j] \in Nat
  BY <1>1, <1>2
<1>10. IsOrder(Earlier(list, S), S)
  BY <1>9, EarlierIsOrder
<1> QED BY <1>1, <1>3, <1>5, <1>7, <1>8, <1>9, <1>10 DEF S

\* Singletons of one record have ranks of their own.
LEMMA RanksApart ==
    ASSUME NEW list \in Lists
    PROVE  LET p == Prepared(list) IN
           /\ \A i \in Single(p) : Rank(list, p, i) \in RankRange
           /\ \A i, j \in Single(p) :
                 p[i].id = p[j].id /\ Rank(list, p, i) = Rank(list, p, j) => i = j
<1> DEFINE p == Prepared(list)
<1>1. IsFiniteSet(DOMAIN p) /\ Cardinality(DOMAIN p) <= MaxRows /\ Cardinality(DOMAIN p) \in Nat
  BY ListPrepared
<1>2. MaxRows \in Nat
  BY InputsAssumption DEF InputsAssumption
<1>3. ASSUME NEW i \in Single(p)
      PROVE  Rank(list, p, i) \in RankRange
  <2> DEFINE S == SameRecord(p, p[i].id)
             R == Earlier(list, S)
  <2>1. /\ i \in S /\ Rank(list, p, i) = Cardinality(Before(R, S, i))
        /\ IsFiniteSet(S) /\ IsOrder(R, S) /\ S \subseteq DOMAIN p
    BY RankIs
  <2> HIDE DEF S, R, p
  <2>2. Cardinality(S) \in Nat /\ Cardinality(S) <= MaxRows
    BY <1>1, <1>2, <2>1, FS_Subset, FS_CardinalityType
  <2>3. Cardinality(Before(R, S, i)) \in 0 .. Cardinality(S) - 1
    BY <2>1, PlacesOrdered
  <2> QED BY <2>1, <2>2, <2>3, <1>2 DEF RankRange
<1>4. ASSUME NEW i \in Single(p), NEW j \in Single(p), p[i].id = p[j].id,
             Rank(list, p, i) = Rank(list, p, j)
      PROVE  i = j
  <2> DEFINE S == SameRecord(p, p[i].id)
             R == Earlier(list, S)
  <2>1. /\ i \in S /\ Rank(list, p, i) = Cardinality(Before(R, S, i))
        /\ IsFiniteSet(S) /\ IsOrder(R, S)
    BY RankIs
  <2>2. j \in S /\ Rank(list, p, j) = Cardinality(Before(R, S, j))
    BY <1>4, RankIs
  <2>3. Cardinality(Before(R, S, i)) = Cardinality(Before(R, S, j))
    BY <1>4, <2>1, <2>2
  <2> HIDE DEF S, R, p
  <2>4. \A x, y \in S : Cardinality(Before(R, S, x)) = Cardinality(Before(R, S, y)) => x = y
    BY <2>1, PlacesTaken
  <2> QED BY <2>1, <2>2, <2>3, <2>4
<1> QED BY <1>3, <1>4

-----------------------------------------------------------------------------
\* Every company stands on one authority.
LEMMA Authorities ==
    ASSUME NEW list \in Lists
    PROVE  LET p == Prepared(list) IN
           /\ \A d \in Domains(p) : <<"domain", d>> \in Authority
           /\ \A i \in Grouped(p) : <<"fallback", p[i].fallback>> \in Authority
           /\ \A i \in Single(p) : <<"singleton", p[i].id, Rank(list, p, i)>> \in Authority
<1> DEFINE p == Prepared(list)
           R == DOMAIN Catalogue
<1>1. \A i \in DOMAIN p : list[i] \in R /\ p[i] = Prepare(list[i])
  BY ListPrepared
<1>2. \A i \in Single(p) : Rank(list, p, i) \in RankRange
  BY RanksApart
<1> HIDE DEF p
<1>3. ASSUME NEW d \in Domains(p) PROVE <<"domain", d>> \in Authority
  <2>1. PICK i \in DOMAIN p : d = p[i].domain
    BY DEF Domains
  <2>2. d = Prepare(list[i]).domain /\ list[i] \in R
    BY <2>1, <1>1
  <2>3. <<"domain", d>> \in {<<"domain", Prepare(r).domain>> : r \in R}
    BY <2>2
  <2> QED BY <2>3 DEF Authority
<1>4. ASSUME NEW i \in Grouped(p) PROVE <<"fallback", p[i].fallback>> \in Authority
  <2>1. i \in DOMAIN p /\ p[i].fallback # NoFallback
    BY DEF Grouped, Domainless
  <2>2. p[i].fallback = Prepare(list[i]).fallback /\ list[i] \in R
    BY <2>1, <1>1
  <2> DEFINE F == {Prepare(r).fallback : r \in R} \ {NoFallback}
  <2>3. p[i].fallback \in F
    BY <2>1, <2>2
  <2>4. <<"fallback", p[i].fallback>> \in {<<"fallback", f>> : f \in F}
    BY <2>3
  <2> QED BY <2>4 DEF Authority
<1>5. ASSUME NEW i \in Single(p) PROVE <<"singleton", p[i].id, Rank(list, p, i)>> \in Authority
  <2>1. i \in DOMAIN p
    BY DEF Single, Ambiguous, Insufficient, Domainless
  <2>2. p[i].id = Prepare(list[i]).id /\ list[i] \in R
    BY <2>1, <1>1
  <2>3. <<"singleton", p[i].id, Rank(list, p, i)>>
           \in {<<"singleton", Prepare(r).id, rank>> : r \in R, rank \in 0 .. MaxRows}
    BY <2>2, <1>2 DEF RankRange
  <2> QED BY <2>3 DEF Authority
<1> QED BY <1>3, <1>4, <1>5 DEF p

OneToOne(b, A, B) ==
    /\ b \in [A -> B]
    /\ \A x, y \in A : b[x] = b[y] => x = y
    /\ \A y \in B : \E x \in A : b[x] = y

LEMMA SameSize ==
    ASSUME NEW A, NEW B, NEW b, OneToOne(b, A, B), IsFiniteSet(A)
    PROVE  Cardinality(A) = Cardinality(B)
<1>1. b \in Bijection(A, B)
  BY DEF OneToOne, Bijection, Injection, Surjection, IsInjective
<1>2. ExistsBijection(A, B)
  BY <1>1 DEF ExistsBijection
<1> QED BY <1>2, FS_Bijection

LEMMA SameCount ==
    ASSUME NEW A, NEW B, NEW b, OneToOne(b, A, B), IsFiniteSet(A),
           NEW U \in SUBSET A, NEW V \in SUBSET B, \A x \in A : x \in U <=> b[x] \in V
    PROVE  Cardinality(U) = Cardinality(V)
<1> DEFINE c == [x \in U |-> b[x]]
<1>1. OneToOne(c, U, V)
  BY DEF OneToOne
<1>2. IsFiniteSet(U)
  BY FS_Subset
<1> QED BY <1>1, <1>2, SameSize

\* The name of a company: its rows' names, how often each was reported and
\* whether by Exa.
NamesOf(p, S) == {p[i].name : i \in S} \ {None}
CountOf(p, S, n) == Cardinality({i \in S : p[i].name = n})
ExaOf(p, S, n) == \E i \in S : p[i].name = n /\ p[i].exa
NamePrecedes(p, S, m, n) ==
    \/ CountOf(p, S, m) > CountOf(p, S, n)
    \/ CountOf(p, S, m) = CountOf(p, S, n) /\ ExaOf(p, S, m) /\ ~ ExaOf(p, S, n)
    \/ CountOf(p, S, m) = CountOf(p, S, n) /\ ExaOf(p, S, m) = ExaOf(p, S, n) /\ m < n
NameFirst(p, S, n) ==
    n \in NamesOf(p, S) /\ \A m \in NamesOf(p, S) \ {n} : NamePrecedes(p, S, n, m)

LEMMA GroupNames ==
    ASSUME NEW p, NEW S, IsFiniteSet(S), NEW n, n # None
    PROVE  LET named == {q \in GroupOf(p, S) : q[2].name # None} IN
           /\ {q[2].name : q \in named} = NamesOf(p, S)
           /\ Cardinality({q \in named : q[2].name = n}) = CountOf(p, S, n)
           /\ (\E q \in named : q[2].name = n /\ q[2].exa) <=> ExaOf(p, S, n)
<1> DEFINE group == GroupOf(p, S)
           named == {q \in group : q[2].name # None}
           f == [i \in S |-> <<i, p[i]>>]
<1>1. /\ \A q \in group : q[1] \in S /\ q[2] = p[q[1]] /\ q = <<q[1], p[q[1]]>>
      /\ \A i \in S : <<i, p[i]>> \in group
  <2>1. ASSUME NEW q \in group PROVE q[1] \in S /\ q[2] = p[q[1]] /\ q = <<q[1], p[q[1]]>>
    <3>1. PICK i \in S : q = <<i, p[i]>>
      BY DEF GroupOf
    <3> QED BY <3>1
  <2> QED BY <2>1 DEF GroupOf
<1>2. \A i \in S : f[i] = <<i, p[i]>> /\ f[i][1] = i /\ f[i][2] = p[i] /\ f[i] \in group
  BY <1>1
<1> HIDE DEF group
<1>3. OneToOne(f, S, group)
  <2>1. f \in [S -> group]
    BY <1>1
  <2> HIDE DEF f
  <2>2. \A x, y \in S : f[x] = f[y] => x = y
    BY <1>2
  <2>3. \A q \in group : \E i \in S : f[i] = q
    BY <1>1, <1>2
  <2> QED BY <2>1, <2>2, <2>3 DEF OneToOne
<1> HIDE DEF f
<1>4. {q[2].name : q \in named} = NamesOf(p, S)
  <2>1. ASSUME NEW q \in named PROVE q[2].name \in NamesOf(p, S)
    BY <1>1 DEF NamesOf
  <2>2. ASSUME NEW x \in NamesOf(p, S) PROVE \E q \in named : x = q[2].name
    <3>1. PICK i \in S : x = p[i].name /\ x # None
      BY DEF NamesOf
    <3>2. f[i] \in named /\ f[i][2].name = x
      BY <3>1, <1>2
    <3> QED BY <3>2
  <2> QED BY <2>1, <2>2
<1>5. Cardinality({q \in named : q[2].name = n}) = CountOf(p, S, n)
  <2> DEFINE U == {i \in S : p[i].name = n}
             V == {q \in named : q[2].name = n}
  <2>1. U \in SUBSET S /\ V \in SUBSET group
    OBVIOUS
  <2>2. \A i \in S : i \in U <=> f[i] \in V
    BY <1>2
  <2> HIDE DEF U, V, named
  <2>3. Cardinality(U) = Cardinality(V)
    BY <2>1, <2>2, <1>3, SameCount
  <2> QED BY <2>3 DEF CountOf, U, V
<1>6. (\E q \in named : q[2].name = n /\ q[2].exa) <=> ExaOf(p, S, n)
  <2>1. ASSUME NEW q \in named, q[2].name = n, q[2].exa PROVE ExaOf(p, S, n)
    BY <1>1, <2>1 DEF ExaOf
  <2>2. ASSUME NEW i \in S, p[i].name = n, p[i].exa
        PROVE  \E q \in named : q[2].name = n /\ q[2].exa
    <3>1. f[i] \in named /\ f[i][2].name = n /\ f[i][2].exa
      BY <1>2, <2>2
    <3> QED BY <3>1
  <2> QED BY <2>1, <2>2 DEF ExaOf
<1> QED BY <1>4, <1>5, <1>6 DEF group

LEMMA Names ==
    ASSUME NEW list \in Lists, NEW S \in SUBSET DOMAIN list
    PROVE  /\ CanonicalName(GroupOf(Prepared(list), S)) \in Nat
           /\ NamesOf(Prepared(list), S) = {} => CanonicalName(GroupOf(Prepared(list), S)) = None
           /\ NamesOf(Prepared(list), S) # {} =>
                 NameFirst(Prepared(list), S, CanonicalName(GroupOf(Prepared(list), S)))
           /\ \A m, n : NameFirst(Prepared(list), S, m) /\ NameFirst(Prepared(list), S, n) => m = n
<1> DEFINE p == Prepared(list)
           group == GroupOf(p, S)
           named == {q \in group : q[2].name # None}
           Count(n) == Cardinality({q \in named : q[2].name = n})
           ByExa(n) == \E q \in named : q[2].name = n /\ q[2].exa
           Precedes(m, n) == \/ Count(m) > Count(n)
                             \/ Count(m) = Count(n) /\ ByExa(m) /\ ~ ByExa(n)
                             \/ Count(m) = Count(n) /\ ByExa(m) = ByExa(n) /\ m < n
           found == {q[2].name : q \in named}
           names == NamesOf(p, S)
<1>1. /\ IsFiniteSet(S)
      /\ \A i \in S : p[i].name \in Nat
  <2>1. DOMAIN p = DOMAIN list /\ IsFiniteSet(DOMAIN p) /\ \A i \in DOMAIN p : p[i].name \in Nat
    BY ListPrepared
  <2> QED BY <2>1, FS_Subset
<1>2. CanonicalName(group) = IF found = {} THEN None
                             ELSE CHOOSE n \in found : \A m \in found \ {n} : Precedes(n, m)
  BY DEF CanonicalName
<1> HIDE DEF p
<1>3. found = names
  <2>1. 1 # None
    BY DEF None
  <2> QED BY <2>1, <1>1, GroupNames
<1>4. IsFiniteSet(names) /\ names \subseteq Nat /\ None \notin names
  <2> DEFINE f == [i \in S |-> p[i].name]
             all == {p[i].name : i \in S}
  <2>1. f \in Surjection(S, all)
    BY DEF Surjection
  <2>2. names \subseteq all /\ all \subseteq Nat /\ None \notin names
    BY <1>1 DEF NamesOf
  <2> HIDE DEF f, all, names
  <2> QED BY <2>1, <2>2, <1>1, FS_Surjection, FS_Subset
<1>5. \A n \in names : Count(n) = CountOf(p, S, n) /\ (ByExa(n) <=> ExaOf(p, S, n))
  <2> SUFFICES ASSUME NEW n \in names
               PROVE  Count(n) = CountOf(p, S, n) /\ (ByExa(n) <=> ExaOf(p, S, n))
    OBVIOUS
  <2>1. n # None
    BY <1>4
  <2> HIDE DEF names
  <2>2. Count(n) = CountOf(p, S, n)
    BY <2>1, <1>1, GroupNames
  <2>3. ByExa(n) <=> ExaOf(p, S, n)
    BY <2>1, <1>1, GroupNames
  <2> HIDE DEF Count, ByExa
  <2> QED BY <2>2, <2>3
<1>6. \A n : CountOf(p, S, n) \in Nat /\ ExaOf(p, S, n) \in BOOLEAN
  <2> TAKE n
  <2>1. {i \in S : p[i].name = n} \subseteq S
    OBVIOUS
  <2>2. CountOf(p, S, n) \in Nat
    BY <2>1, <1>1, FS_Subset, FS_CardinalityType DEF CountOf
  <2> QED BY <2>2 DEF ExaOf
<1>7. \A m, n \in names : Precedes(m, n) <=> NamePrecedes(p, S, m, n)
  <2> HIDE DEF Count, ByExa, names
  <2>1. \A m, n \in names : (ByExa(m) = ByExa(n)) <=> (ExaOf(p, S, m) = ExaOf(p, S, n))
    BY <1>5, <1>6 DEF ByExa
  <2> QED BY <2>1, <1>5 DEF NamePrecedes
<1> HIDE DEF Precedes, names, found, group
<1> DEFINE R == {x \in names \X names : NamePrecedes(p, S, x[1], x[2])}
<1>8. \A m, n \in names : <<m, n>> \in R <=> NamePrecedes(p, S, m, n)
  BY DEF R
<1> HIDE DEF R
<1>9. IsOrder(R, names)
  <2>1. \A x \in names : ~ NamePrecedes(p, S, x, x)
    BY <1>4, <1>6 DEF NamePrecedes
  <2>2. ASSUME NEW x \in names, NEW y \in names, NEW z \in names,
               NamePrecedes(p, S, x, y), NamePrecedes(p, S, y, z)
        PROVE  NamePrecedes(p, S, x, z)
    <3> DEFINE a == CountOf(p, S, x)  b == CountOf(p, S, y)  c == CountOf(p, S, z)
    <3>1. x \in Nat /\ y \in Nat /\ z \in Nat
      BY <1>4
    <3>2. a \in Nat /\ b \in Nat /\ c \in Nat
      BY <1>6
    <3>3. a >= b /\ b >= c
      BY <2>2, <3>2 DEF NamePrecedes
    <3>4. CASE a > c
      BY <3>4 DEF NamePrecedes
    <3>5. CASE a = c
      <4>1. a = b /\ b = c
        BY <3>2, <3>3, <3>5
      <4> QED BY <4>1, <2>2, <3>1, <3>2, <1>6 DEF NamePrecedes
    <3> QED BY <3>2, <3>3, <3>4, <3>5
  <2>3. ASSUME NEW x \in names, NEW y \in names, x # y
        PROVE  NamePrecedes(p, S, x, y) \/ NamePrecedes(p, S, y, x)
    <3>1. x < y \/ y < x
      BY <1>4, <2>3
    <3>2. CountOf(p, S, x) \in Nat /\ CountOf(p, S, y) \in Nat
      BY <1>6
    <3> QED BY <3>1, <3>2, <1>6 DEF NamePrecedes
  <2> QED BY <2>1, <2>2, <2>3, <1>8 DEF IsOrder
<1>10. CASE names = {}
  <2>1. CanonicalName(group) = None
    BY <1>2, <1>3, <1>10
  <2>2. None \in Nat
    BY DEF None
  <2>3. \A n : ~ NameFirst(p, S, n)
    BY <1>10 DEF NameFirst, names
  <2> QED BY <2>1, <2>2, <2>3, <1>10 DEF group, p, names
<1>11. CASE names # {}
  <2>1. \E n \in names : \A m \in names \ {n} : Precedes(n, m)
    <3>1. IsFiniteSet(names) /\ names # {} /\ IsOrder(R, names)
      BY <1>4, <1>9, <1>11
    <3>2. \E n \in names : \A m \in names \ {n} : <<n, m>> \in R
      BY ONLY <3>1, FirstExists
    <3> QED BY <3>2, <1>7, <1>8
  <2> DEFINE x == CHOOSE n \in names : \A m \in names \ {n} : Precedes(n, m)
  <2>2. x \in names /\ \A m \in names \ {x} : Precedes(x, m)
    BY <2>1
  <2>3. CanonicalName(group) = x
    BY <1>2, <1>3, <1>11
  <2> HIDE DEF x
  <2>4. NameFirst(p, S, x) /\ x \in Nat
    BY <2>2, <1>4, <1>7 DEF NameFirst, names
  <2>5. ASSUME NEW m, NEW n, NameFirst(p, S, m), NameFirst(p, S, n), m # n PROVE FALSE
    <3>1. /\ m \in names /\ n \in names
          /\ NamePrecedes(p, S, m, n) /\ NamePrecedes(p, S, n, m)
      BY <2>5 DEF NameFirst, names
    <3>2. m \in Nat /\ n \in Nat
      BY <3>1, <1>4
    <3> QED BY <3>1, <3>2, <1>6 DEF NamePrecedes
  <2>6. \A m, n : NameFirst(p, S, m) /\ NameFirst(p, S, n) => m = n
    BY <2>5
  <2> QED BY <2>3, <2>4, <2>6, <1>11 DEF group, p, names
<1> QED BY <1>10, <1>11

-----------------------------------------------------------------------------
\* Where the rows of a company come from.
LEMMA Homes ==
    ASSUME NEW list \in Lists, NEW c \in Deduplicated(list).companies
    PROVE  LET p == Prepared(list) IN
           \/ \E d \in Domains(p) : c = ByDomain(p, d) /\ c.rows = Holding(p, d)
           \/ \E i \in Grouped(p) : /\ c = ByFallback(p, p[i].fallback)
                                    /\ c.rows = Sharing(p, p[i].fallback)
           \/ \E i \in Ambiguous(p) : c = Alone(list, p, i, "AMBIGUOUS_IDENTITY") /\ c.rows = {i}
           \/ \E i \in Insufficient(p) : c = Alone(list, p, i, "INSUFFICIENT_IDENTITY") /\ c.rows = {i}
<1> DEFINE p == Prepared(list)
<1>1. \/ \E d \in Domains(p) : c = ByDomain(p, d)
      \/ \E i \in Grouped(p) : c = ByFallback(p, p[i].fallback)
      \/ \E i \in Ambiguous(p) : c = Alone(list, p, i, "AMBIGUOUS_IDENTITY")
      \/ \E i \in Insufficient(p) : c = Alone(list, p, i, "INSUFFICIENT_IDENTITY")
  BY CompaniesAre
<1> HIDE DEF p
<1>2. \A d : ByDomain(p, d).rows = Holding(p, d)
  BY BuildIs DEF ByDomain
<1>3. \A f : ByFallback(p, f).rows = Sharing(p, f)
  BY BuildIs DEF ByFallback
<1>4. \A i, reason : Alone(list, p, i, reason).rows = {i}
  BY BuildIs DEF Alone
<1>5. \/ \E d \in Domains(p) : c = ByDomain(p, d) /\ c.rows = Holding(p, d)
      \/ \E i \in Grouped(p) : c = ByFallback(p, p[i].fallback) /\ c.rows = Sharing(p, p[i].fallback)
      \/ \E i \in Ambiguous(p) : c = Alone(list, p, i, "AMBIGUOUS_IDENTITY") /\ c.rows = {i}
      \/ \E i \in Insufficient(p) : c = Alone(list, p, i, "INSUFFICIENT_IDENTITY") /\ c.rows = {i}
  BY <1>1, <1>2, <1>3, <1>4
<1> QED BY <1>5 DEF p

\* The company of a row.
LEMMA HomeOf ==
    ASSUME NEW list \in Lists, NEW c \in Deduplicated(list).companies, NEW i \in c.rows
    PROVE  LET p == Prepared(list) IN
           /\ i \in DOMAIN list /\ i \notin Unresolved(p)
           /\ \/ \E d \in Domains(p) : c = ByDomain(p, d) /\ i \in Holding(p, d)
              \/ i \in Grouped(p) /\ c = ByFallback(p, p[i].fallback)
              \/ i \in Ambiguous(p) /\ c = Alone(list, p, i, "AMBIGUOUS_IDENTITY")
              \/ i \in Insufficient(p) /\ c = Alone(list, p, i, "INSUFFICIENT_IDENTITY")
<1> DEFINE p == Prepared(list)
<1>1. \/ \E d \in Domains(p) : c = ByDomain(p, d) /\ c.rows = Holding(p, d)
      \/ \E j \in Grouped(p) : c = ByFallback(p, p[j].fallback) /\ c.rows = Sharing(p, p[j].fallback)
      \/ \E j \in Ambiguous(p) : c = Alone(list, p, j, "AMBIGUOUS_IDENTITY") /\ c.rows = {j}
      \/ \E j \in Insufficient(p) : c = Alone(list, p, j, "INSUFFICIENT_IDENTITY") /\ c.rows = {j}
  BY Homes
<1>2. DOMAIN p = DOMAIN list
  BY ListPrepared
<1> HIDE DEF p
<1>3. \/ \E d \in Domains(p) : c = ByDomain(p, d) /\ i \in Holding(p, d)
      \/ i \in Grouped(p) /\ c = ByFallback(p, p[i].fallback)
      \/ i \in Ambiguous(p) /\ c = Alone(list, p, i, "AMBIGUOUS_IDENTITY")
      \/ i \in Insufficient(p) /\ c = Alone(list, p, i, "INSUFFICIENT_IDENTITY")
  BY <1>1 DEF Sharing
<1>4. i \in DOMAIN p /\ i \notin Unresolved(p)
  <2>1. CASE \E d \in Domains(p) : i \in Holding(p, d)
    <3>1. PICK d \in Domains(p) : i \in Holding(p, d)
      BY <2>1
    <3>2. d # None
      BY DEF Domains
    <3> QED BY <3>1, <3>2 DEF Holding, Joining, Domainless, Unresolved
  <2>2. CASE i \in Grouped(p) \cup Ambiguous(p) \cup Insufficient(p)
    BY <2>2 DEF Grouped, Ambiguous, Insufficient, Domainless, Unresolved
  <2> QED BY <1>3, <2>1, <2>2
<1> QED BY <1>2, <1>3, <1>4 DEF p

LEMMA OneHome ==
    ASSUME NEW list \in Lists, NEW c \in Deduplicated(list).companies,
           NEW e \in Deduplicated(list).companies, NEW i \in c.rows \cap e.rows
    PROVE  c = e
<1> DEFINE p == Prepared(list)
<1>1. /\ \/ \E d \in Domains(p) : c = ByDomain(p, d) /\ i \in Holding(p, d)
         \/ i \in Grouped(p) /\ c = ByFallback(p, p[i].fallback)
         \/ i \in Ambiguous(p) /\ c = Alone(list, p, i, "AMBIGUOUS_IDENTITY")
         \/ i \in Insufficient(p) /\ c = Alone(list, p, i, "INSUFFICIENT_IDENTITY")
      /\ \/ \E d \in Domains(p) : e = ByDomain(p, d) /\ i \in Holding(p, d)
         \/ i \in Grouped(p) /\ e = ByFallback(p, p[i].fallback)
         \/ i \in Ambiguous(p) /\ e = Alone(list, p, i, "AMBIGUOUS_IDENTITY")
         \/ i \in Insufficient(p) /\ e = Alone(list, p, i, "INSUFFICIENT_IDENTITY")
  BY HomeOf
<1>2. /\ \A j, d : j \in Joining(p, d) => d \in Domains(p) /\ j \notin Grouped(p) \cup Single(p)
      /\ \A j, d, f : j \in Joining(p, d) /\ j \in Joining(p, f) => d = f
      /\ Grouped(p) \cap Single(p) = {}
      /\ Ambiguous(p) \cap Insufficient(p) = {}
      /\ Grouped(p) \cup Single(p) \subseteq Domainless(p)
  BY Places
<1> HIDE DEF p
<1>3. \A d : Joining(p, d) \subseteq Domainless(p)
  BY DEF Joining
<1>4. \A j \in Domainless(p) : p[j].domain = None
  BY DEF Domainless
<1>5. \A d \in Domains(p) : d # None
  BY DEF Domains
<1>6. ASSUME NEW d \in Domains(p), i \in Holding(p, d)
      PROVE  /\ i \notin Grouped(p) /\ i \notin Ambiguous(p) /\ i \notin Insufficient(p)
             /\ \A f \in Domains(p) : i \in Holding(p, f) => f = d
  <2>1. CASE p[i].domain = d
    BY <2>1, <1>2, <1>3, <1>4, <1>5 DEF Holding, Single
  <2>2. CASE i \in Joining(p, d)
    BY <2>2, <1>2, <1>3, <1>4, <1>5 DEF Holding, Single
  <2> QED BY <1>6, <2>1, <2>2 DEF Holding
<1>7. CASE \E d \in Domains(p) : c = ByDomain(p, d) /\ i \in Holding(p, d)
  BY <1>1, <1>6, <1>7
<1>8. CASE \A d \in Domains(p) : i \notin Holding(p, d)
  BY <1>1, <1>2, <1>8 DEF Single
<1>9. CASE ~ (\E d \in Domains(p) : c = ByDomain(p, d) /\ i \in Holding(p, d))
  <2>1. \A d \in Domains(p) : i \notin Holding(p, d)
    BY <1>1, <1>6, <1>9
  <2> QED BY <2>1, <1>8
<1> QED BY <1>7, <1>9

LEMMA EveryRowHasAHome ==
    ASSUME NEW list \in Lists, NEW i \in DOMAIN list, i \notin Deduplicated(list).unresolved
    PROVE  \E c \in Deduplicated(list).companies : i \in c.rows
<1> DEFINE p == Prepared(list)
           found == Deduplicated(list).companies
<1>1. i \in DOMAIN p /\ i \notin Unresolved(p)
  BY CompaniesAre, ListPrepared
<1>2. /\ \A d \in Domains(p) : ByDomain(p, d) \in found
      /\ \A j \in Grouped(p) : ByFallback(p, p[j].fallback) \in found
      /\ \A j \in Ambiguous(p) : Alone(list, p, j, "AMBIGUOUS_IDENTITY") \in found
      /\ \A j \in Insufficient(p) : Alone(list, p, j, "INSUFFICIENT_IDENTITY") \in found
  BY CompaniesAre
<1>3. /\ \/ p[i].domain # None
         \/ \E d : i \in Joining(p, d)
         \/ i \in Grouped(p) \/ i \in Ambiguous(p) \/ i \in Insufficient(p)
      /\ \A d : i \in Joining(p, d) => d \in Domains(p)
  BY <1>1, Places
<1> HIDE DEF p, found
<1>4. CASE p[i].domain # None
  <2>1. p[i].domain \in Domains(p) /\ i \in Holding(p, p[i].domain)
    BY <1>1, <1>4 DEF Domains, Holding
  <2>2. ByDomain(p, p[i].domain).rows = Holding(p, p[i].domain)
    BY BuildIs DEF ByDomain
  <2> QED BY <2>1, <2>2, <1>2 DEF found
<1>5. CASE \E d : i \in Joining(p, d)
  <2>1. PICK d : i \in Joining(p, d)
    BY <1>5
  <2>2. ByDomain(p, d).rows = Holding(p, d)
    BY BuildIs DEF ByDomain
  <2> QED BY <2>1, <2>2, <1>2, <1>3 DEF found, Holding
<1>6. CASE i \in Grouped(p)
  <2>1. ByFallback(p, p[i].fallback).rows = Sharing(p, p[i].fallback)
    BY BuildIs DEF ByFallback
  <2>2. i \in Sharing(p, p[i].fallback)
    BY <1>6 DEF Sharing
  <2> QED BY <2>1, <2>2, <1>2, <1>6 DEF found
<1>7. CASE i \in Ambiguous(p)
  <2>1. Alone(list, p, i, "AMBIGUOUS_IDENTITY").rows = {i}
    BY BuildIs DEF Alone
  <2> QED BY <2>1, <1>2, <1>7 DEF found
<1>8. CASE i \in Insufficient(p)
  <2>1. Alone(list, p, i, "INSUFFICIENT_IDENTITY").rows = {i}
    BY BuildIs DEF Alone
  <2> QED BY <2>1, <1>2, <1>8 DEF found
<1> QED BY <1>3, <1>4, <1>5, <1>6, <1>7, <1>8

\* What every company looks like.
LEMMA CompanyFacts ==
    ASSUME NEW list \in Lists, NEW c \in Deduplicated(list).companies
    PROVE  LET p == Prepared(list) IN
           /\ c.rows # {} /\ c.rows \subseteq DOMAIN list /\ c.rows \cap Deduplicated(list).unresolved = {}
           /\ c.name \in Nat
           /\ \E d \in Nat : \A i \in c.rows : p[i].domain \in {d, None}
<1> DEFINE p == Prepared(list)
<1>1. \/ \E d \in Domains(p) : c = ByDomain(p, d) /\ c.rows = Holding(p, d)
      \/ \E j \in Grouped(p) : c = ByFallback(p, p[j].fallback) /\ c.rows = Sharing(p, p[j].fallback)
      \/ \E j \in Ambiguous(p) : c = Alone(list, p, j, "AMBIGUOUS_IDENTITY") /\ c.rows = {j}
      \/ \E j \in Insufficient(p) : c = Alone(list, p, j, "INSUFFICIENT_IDENTITY") /\ c.rows = {j}
  BY Homes
<1>2. /\ c.rows \subseteq DOMAIN list
      /\ c.rows \cap Unresolved(p) = {}
  BY HomeOf
<1>3. Deduplicated(list).unresolved = Unresolved(p)
  BY CompaniesAre
<1>4. \A S \in SUBSET DOMAIN list : CanonicalName(GroupOf(p, S)) \in Nat
  BY Names
<1>5. \A i \in DOMAIN p : p[i].domain \in Nat
  BY ListPrepared
<1> HIDE DEF p
<1>6. c.name = CanonicalName(GroupOf(p, c.rows))
  <2>1. \A d : ByDomain(p, d).name = CanonicalName(GroupOf(p, Holding(p, d)))
    BY BuildIs DEF ByDomain
  <2>2. \A f : ByFallback(p, f).name = CanonicalName(GroupOf(p, Sharing(p, f)))
    BY BuildIs DEF ByFallback
  <2>3. \A i, reason : Alone(list, p, i, reason).name = CanonicalName(GroupOf(p, {i}))
    BY BuildIs DEF Alone
  <2> QED BY <1>1, <2>1, <2>2, <2>3
<1>7. c.name \in Nat
  BY <1>2, <1>4, <1>6
<1>8. Grouped(p) \cup Single(p) \subseteq Domainless(p)
  BY Places DEF p
<1>9. \A i \in Domainless(p) : p[i].domain = None
  BY DEF Domainless
<1>10. c.rows # {} /\ \E d \in Nat : \A i \in c.rows : p[i].domain \in {d, None}
  <2>1. CASE \E d \in Domains(p) : c = ByDomain(p, d) /\ c.rows = Holding(p, d)
    <3>1. PICK d \in Domains(p) : c.rows = Holding(p, d)
      BY <2>1
    <3>2. PICK i \in DOMAIN p : p[i].domain = d
      BY DEF Domains
    <3>3. i \in Holding(p, d) /\ d \in Nat
      BY <3>2, <1>5 DEF Holding
    <3>4. \A j \in Holding(p, d) : p[j].domain \in {d, None}
      BY DEF Holding, Joining, Domainless
    <3> QED BY <3>1, <3>3, <3>4
  <2>2. CASE \E j \in Grouped(p) : c.rows = Sharing(p, p[j].fallback)
    <3>1. PICK j \in Grouped(p) : c.rows = Sharing(p, p[j].fallback)
      BY <2>2
    <3>2. j \in c.rows /\ c.rows \subseteq Grouped(p)
      BY <3>1 DEF Sharing
    <3>3. \A i \in c.rows : p[i].domain = None
      BY <3>2, <1>8, <1>9
    <3> QED BY <3>2, <3>3 DEF None
  <2>3. CASE \E j \in Single(p) : c.rows = {j}
    <3>1. PICK j \in Single(p) : c.rows = {j}
      BY <2>3
    <3>2. \A i \in c.rows : p[i].domain = None
      BY <3>1, <1>8, <1>9
    <3> QED BY <3>1, <3>2 DEF None
  <2> QED BY <1>1, <2>1, <2>2, <2>3 DEF Single
<1> QED BY <1>2, <1>3, <1>7, <1>10 DEF p

\* Companies with one identity are one company.
LEMMA IdsApart ==
    ASSUME NEW list \in Lists, NEW c \in Deduplicated(list).companies
    PROVE  /\ c.id \in Nat
           /\ \A e \in Deduplicated(list).companies : c.id = e.id => c = e
<1> DEFINE p == Prepared(list)
           found == Deduplicated(list).companies
           Stands(x, a) == \/ \E d \in Domains(p) : a = <<"domain", d>> /\ x = ByDomain(p, d)
                           \/ \E j \in Grouped(p) : /\ a = <<"fallback", p[j].fallback>>
                                                    /\ x = ByFallback(p, p[j].fallback)
                           \/ \E j \in Single(p) :
                                 /\ a = <<"singleton", p[j].id, Rank(list, p, j)>>
                                 /\ x = Alone(list, p, j, IF j \in Ambiguous(p)
                                           THEN "AMBIGUOUS_IDENTITY" ELSE "INSUFFICIENT_IDENTITY")
<1>1. /\ \A d \in Domains(p) : <<"domain", d>> \in Authority
      /\ \A i \in Grouped(p) : <<"fallback", p[i].fallback>> \in Authority
      /\ \A i \in Single(p) : <<"singleton", p[i].id, Rank(list, p, i)>> \in Authority
  BY Authorities
<1>2. \A i, j \in Single(p) : p[i].id = p[j].id /\ Rank(list, p, i) = Rank(list, p, j) => i = j
  BY RanksApart
<1>3. Ambiguous(p) \cap Insufficient(p) = {}
  BY Places
<1>4. \A x \in found :
         \/ \E d \in Domains(p) : x = ByDomain(p, d)
         \/ \E i \in Grouped(p) : x = ByFallback(p, p[i].fallback)
         \/ \E i \in Ambiguous(p) : x = Alone(list, p, i, "AMBIGUOUS_IDENTITY")
         \/ \E i \in Insufficient(p) : x = Alone(list, p, i, "INSUFFICIENT_IDENTITY")
  BY CompaniesAre
<1> HIDE DEF p, found
<1>5. ASSUME NEW x \in found PROVE \E a \in Authority : Stands(x, a)
  <2>1. CASE \E d \in Domains(p) : x = ByDomain(p, d)
    BY <1>1, <2>1
  <2>2. CASE \E i \in Grouped(p) : x = ByFallback(p, p[i].fallback)
    BY <1>1, <2>2
  <2>3. CASE \E i \in Ambiguous(p) : x = Alone(list, p, i, "AMBIGUOUS_IDENTITY")
    BY <1>1, <2>3 DEF Single
  <2>4. CASE \E i \in Insufficient(p) : x = Alone(list, p, i, "INSUFFICIENT_IDENTITY")
    BY <1>1, <1>3, <2>4 DEF Single
  <2> QED BY <1>4, <2>1, <2>2, <2>3, <2>4
<1>6. ASSUME NEW x, NEW a, Stands(x, a) PROVE x.id = Digest(a)
  <2>1. \A d : ByDomain(p, d).id = Digest(<<"domain", d>>)
    BY BuildIs DEF ByDomain, DomainId
  <2>2. \A f : ByFallback(p, f).id = Digest(<<"fallback", f>>)
    BY BuildIs DEF ByFallback, FallbackId
  <2>3. \A i, reason : Alone(list, p, i, reason).id
                          = Digest(<<"singleton", p[i].id, Rank(list, p, i)>>)
    BY BuildIs DEF Alone, SingletonId
  <2> QED BY <1>6, <2>1, <2>2, <2>3
<1>7. ASSUME NEW x, NEW y, NEW a, Stands(x, a), Stands(y, a) PROVE x = y
  <2>1. CASE \E d \in Domains(p) : a = <<"domain", d>> /\ x = ByDomain(p, d)
    <3>1. PICK d \in Domains(p) : a = <<"domain", d>> /\ x = ByDomain(p, d)
      BY <2>1
    <3>2. PICK e \in Domains(p) : a = <<"domain", e>> /\ y = ByDomain(p, e)
      BY <1>7, <3>1
    <3> QED BY <3>1, <3>2
  <2>2. CASE \E j \in Grouped(p) : /\ a = <<"fallback", p[j].fallback>>
                                   /\ x = ByFallback(p, p[j].fallback)
    <3>1. PICK f : a = <<"fallback", f>> /\ x = ByFallback(p, f)
      BY <2>2
    <3>2. PICK g : a = <<"fallback", g>> /\ y = ByFallback(p, g)
      BY <1>7, <3>1
    <3> QED BY <3>1, <3>2
  <2>3. CASE \E j \in Single(p) :
                /\ a = <<"singleton", p[j].id, Rank(list, p, j)>>
                /\ x = Alone(list, p, j, IF j \in Ambiguous(p)
                                 THEN "AMBIGUOUS_IDENTITY" ELSE "INSUFFICIENT_IDENTITY")
    <3>1. PICK i \in Single(p) :
                /\ a = <<"singleton", p[i].id, Rank(list, p, i)>>
                /\ x = Alone(list, p, i, IF i \in Ambiguous(p)
                                 THEN "AMBIGUOUS_IDENTITY" ELSE "INSUFFICIENT_IDENTITY")
      BY <2>3
    <3>2. PICK j \in Single(p) :
                /\ a = <<"singleton", p[j].id, Rank(list, p, j)>>
                /\ y = Alone(list, p, j, IF j \in Ambiguous(p)
                                 THEN "AMBIGUOUS_IDENTITY" ELSE "INSUFFICIENT_IDENTITY")
      BY <1>7, <3>1
    <3>3. p[i].id = p[j].id /\ Rank(list, p, i) = Rank(list, p, j)
      BY <3>1, <3>2
    <3>4. i = j
      BY <3>3, <1>2
    <3> QED BY <3>1, <3>2, <3>4
  <2> QED BY <1>7, <2>1, <2>2, <2>3
<1> HIDE DEF Stands
<1>8. \A a, b \in Authority : Digest(a) \in Nat /\ (Digest(a) = Digest(b) => a = b)
  BY DigestAssumption DEF DigestAssumption
<1>9. ASSUME NEW e \in found, c.id = e.id PROVE c = e
  <2>1. PICK a \in Authority : Stands(c, a)
    BY <1>5 DEF found
  <2>2. PICK b \in Authority : Stands(e, b)
    BY <1>5
  <2>3. a = b
    BY <2>1, <2>2, <1>6, <1>8, <1>9
  <2> QED BY <2>1, <2>2, <2>3, <1>7
<1>10. c.id \in Nat
  BY <1>5, <1>6, <1>8 DEF found
<1> QED BY <1>9, <1>10 DEF found

Deduped ==
    /\ rows \in Lists
    /\ companies # NoFile => companies = Deduplicated(rows)

LEMMA DedupedOnce == Spec => []Deduped
<1>1. Init => Deduped
  BY InputsAssumption DEF Init, Deduped, Lists, InputsAssumption
<1>2. Deduped /\ [Next]_vars => Deduped'
  <2> SUFFICES ASSUME Deduped, [Next]_vars PROVE Deduped'
    OBVIOUS
  <2>1. CASE UNCHANGED <<rows, companies>>
    BY <2>1 DEF Deduped
  <2>2. ASSUME NEW r \in DOMAIN Catalogue, Discover(r) PROVE Deduped'
    <3>1. /\ rows \in Seq(DOMAIN Catalogue) /\ companies = NoFile /\ companies' = companies
          /\ Len(rows) < MaxRows /\ rows' = Append(rows, r) /\ MaxRows \in Nat
      BY <2>2, InputsAssumption DEF Discover, Deduped, Lists, InputsAssumption
    <3>2. rows' \in Seq(DOMAIN Catalogue) /\ Len(rows') <= MaxRows
      BY <3>1
    <3> QED BY <3>1, <3>2 DEF Deduped, Lists
  <2>3. CASE Deduplicate
    BY <2>3 DEF Deduplicate, Deduped
  <2>4. ASSUME NEW id, NEW profile, Snapshot(id, profile) PROVE UNCHANGED <<rows, companies>>
    BY <2>4 DEF Snapshot
  <2>5. CASE CompleteBatch \/ Evaluate \/ Calibrate \/ Publish \/ Crash
    <3>1. UNCHANGED <<rows, companies>>
      BY <2>5 DEF CompleteBatch, Evaluate, Calibrate, Publish, Crash
    <3> QED BY <3>1, <2>1
  <2>6. ASSUME NEW results \in Searches, Search(results) PROVE UNCHANGED <<rows, companies>>
    BY <2>6 DEF Search
  <2>7. CASE UNCHANGED vars
    BY <2>1, <2>7 DEF vars
  <2> QED BY <2>1, <2>2, <2>3, <2>4, <2>5, <2>6, <2>7 DEF Next, Research, Extract
<1> QED BY <1>1, <1>2, PTL DEF Spec

LEMMA DedupedIsUnmixed == Deduped => NoIdentityMixed
<1> SUFFICES ASSUME Deduped, companies # NoFile PROVE NoIdentityMixed
  BY DEF NoIdentityMixed
<1> DEFINE found == Deduplicated(rows).companies
           none == Deduplicated(rows).unresolved
<1>1. rows \in Lists /\ companies.companies = found /\ companies.unresolved = none
  BY DEF Deduped
<1>2. ASSUME NEW i \in DOMAIN rows \ none
      PROVE  Cardinality({c \in found : i \in c.rows}) = 1
  <2> DEFINE homes == {c \in found : i \in c.rows}
  <2>1. PICK c \in found : i \in c.rows
    BY <1>1, <1>2, EveryRowHasAHome
  <2>2. \A e \in homes : e = c
    BY <2>1, <1>1, OneHome
  <2>3. homes = {c}
    BY <2>1, <2>2
  <2> HIDE DEF homes
  <2>4. Cardinality(homes) = 1
    BY <2>3, FS_Singleton
  <2> QED BY <2>4 DEF homes
<1>3. \A c \in found : c.rows # {} /\ c.rows \cap none = {}
  BY <1>1, CompanyFacts
<1>4. \A c, d \in found : c.id = d.id => c = d
  BY <1>1, IdsApart
<1>5. ASSUME NEW c \in found, NEW i \in c.rows, NEW j \in c.rows
      PROVE  \/ Prepare(rows[i]).domain = Prepare(rows[j]).domain
             \/ Prepare(rows[i]).domain = None \/ Prepare(rows[j]).domain = None
  <2> DEFINE p == Prepared(rows)
  <2>1. c.rows \subseteq DOMAIN rows /\ \E d \in Nat : \A n \in c.rows : p[n].domain \in {d, None}
    BY <1>1, CompanyFacts
  <2>2. \A n \in DOMAIN rows : p[n] = Prepare(rows[n])
    BY <1>1, ListPrepared
  <2> HIDE DEF p, found
  <2> QED BY <2>1, <2>2, <1>5
<1> HIDE DEF found, none
<1> QED BY <1>1, <1>2, <1>3, <1>4, <1>5 DEF NoIdentityMixed

(***************************************************************************)
(* Every raw row that carries any identity is in exactly one company, no   *)
(* two companies have one identity, and no company mixes two corporate     *)
(* domains, for every catalogue of rows and every digest without           *)
(* collisions (dedup.py:400-463).                                          *)
(***************************************************************************)
THEOREM NoIdentityIsMixed == Spec => []NoIdentityMixed
BY DedupedOnce, DedupedIsUnmixed, PTL

-----------------------------------------------------------------------------
(***************************************************************************)
(* What an evaluation computes.                                            *)
(***************************************************************************)

\* Every snapshot is of a company.
SnapshotsKnown ==
    \A i \in DOMAIN snapshots :
        /\ companies # NoFile
        /\ \E c \in companies.companies : c.id = snapshots[i].id

LEMMA SnapshotsStayKnown == Spec => []SnapshotsKnown
<1>1. Init => SnapshotsKnown
  BY DEF Init, SnapshotsKnown
<1>2. ProfilesKnown /\ SnapshotsKnown /\ [Next]_vars => SnapshotsKnown'
  <2> SUFFICES ASSUME ProfilesKnown, SnapshotsKnown, [Next]_vars PROVE SnapshotsKnown'
    OBVIOUS
  <2>1. CASE UNCHANGED <<companies, snapshots>>
    BY <2>1 DEF SnapshotsKnown
  <2>2. ASSUME companies # NoFile, NEW c \in companies.companies, NEW profile, Snapshot(c.id, profile)
        PROVE  SnapshotsKnown'
    <3> DEFINE e == [id |-> c.id, profile |-> profile]
               All == ToSet(snapshots) \cup {e}
    <3>1. snapshots' = Append(snapshots, e) /\ UNCHANGED companies
      BY <2>2 DEF Snapshot
    <3>2. snapshots \in Seq(All)
      BY DEF ProfilesKnown
    <3>3. /\ Len(snapshots') = Len(snapshots) + 1 /\ snapshots' \in Seq(All)
          /\ \A i \in 1 .. Len(snapshots) : snapshots'[i] = snapshots[i]
          /\ snapshots'[Len(snapshots) + 1] = e
      BY <3>1, <3>2, AppendProperties
    <3>4. DOMAIN snapshots = 1 .. Len(snapshots) /\ Len(snapshots) \in Nat
          /\ DOMAIN snapshots' = 1 .. Len(snapshots) + 1
      BY <3>2, <3>3
    <3>5. ASSUME NEW i \in DOMAIN snapshots'
          PROVE  \E d \in companies.companies : d.id = snapshots'[i].id
      <4>1. CASE i \in DOMAIN snapshots
        BY <4>1, <3>3, <3>4 DEF SnapshotsKnown
      <4>2. CASE i = Len(snapshots) + 1
        BY <4>2, <3>3
      <4> QED BY <4>1, <4>2, <3>4
    <3> QED BY <2>2, <3>1, <3>5 DEF SnapshotsKnown
  <2>3. CASE \E r \in DOMAIN Catalogue : Discover(r)
    BY <2>3, <2>1 DEF Discover
  <2>4. CASE Deduplicate
    BY <2>4 DEF Deduplicate, SnapshotsKnown
  <2>5. CASE CompleteBatch \/ Evaluate \/ Calibrate \/ Publish \/ Crash
    <3>1. UNCHANGED <<companies, snapshots>>
      BY <2>5 DEF CompleteBatch, Evaluate, Calibrate, Publish, Crash
    <3> QED BY <3>1, <2>1
  <2>6. CASE \E results \in Searches : Search(results)
    BY <2>6, <2>1 DEF Search
  <2>7. CASE UNCHANGED vars
    BY <2>7, <2>1 DEF vars
  <2> QED BY <2>2, <2>3, <2>4, <2>5, <2>6, <2>7 DEF Next, Research, Extract
<1> QED BY <1>1, <1>2, ProfilesStayKnown, PTL DEF Spec

\* The last snapshots are of companies of their own.
LEMMA LatestFacts ==
    ASSUME Deduped, ProfilesKnown, SnapshotsKnown
    PROVE  /\ IsFiniteSet(Latest)
           /\ \A s \in Latest : /\ s.id \in Nat /\ s.profile \in DOMAIN Profiles \cup {NoProfile}
                                /\ companies = Deduplicated(rows)
                                /\ \E c \in Deduplicated(rows).companies : c.id = s.id
           /\ \A s, t \in Latest : s.id = t.id => s = t
<1> DEFINE Lasting == {i \in DOMAIN snapshots :
                       \A j \in i + 1 .. Len(snapshots) : snapshots[j].id # snapshots[i].id}
           f == [i \in Lasting |-> snapshots[i]]
<1>1. DOMAIN snapshots = 1 .. Len(snapshots) /\ Len(snapshots) \in Nat
  BY DEF ProfilesKnown
<1>2. Latest = {snapshots[i] : i \in Lasting}
  BY DEF Latest
<1>3. IsFiniteSet(Lasting)
  <2>1. IsFiniteSet(1 .. Len(snapshots))
    BY <1>1, FS_Interval
  <2> QED BY <2>1, <1>1, FS_Subset
<1>4. f \in Surjection(Lasting, Latest)
  BY <1>2 DEF Surjection
<1>5. ASSUME NEW i \in Lasting, NEW j \in Lasting, snapshots[i].id = snapshots[j].id
      PROVE  i = j
  <2>1. i \in 1 .. Len(snapshots) /\ j \in 1 .. Len(snapshots)
    BY <1>1
  <2>2. ~ i < j
    <3>1. i < j => j \in i + 1 .. Len(snapshots)
      BY <2>1, <1>1
    <3> QED BY <3>1, <1>5
  <2>3. ~ j < i
    <3>1. j < i => i \in j + 1 .. Len(snapshots)
      BY <2>1, <1>1
    <3> QED BY <3>1, <1>5
  <2> QED BY <2>1, <2>2, <2>3, <1>1
<1>6. Lasting \subseteq DOMAIN snapshots
  OBVIOUS
<1> HIDE DEF Lasting, f
<1>7. IsFiniteSet(Latest)
  BY <1>3, <1>4, FS_Surjection
<1>8. ASSUME NEW s \in Latest
      PROVE  /\ s.id \in Nat /\ s.profile \in DOMAIN Profiles \cup {NoProfile}
             /\ companies = Deduplicated(rows)
             /\ \E c \in Deduplicated(rows).companies : c.id = s.id
  <2>1. PICK i \in DOMAIN snapshots : s = snapshots[i]
    BY <1>2, <1>6
  <2>2. companies # NoFile /\ companies = Deduplicated(rows) /\ rows \in Lists
    BY <2>1 DEF SnapshotsKnown, Deduped
  <2>3. PICK c \in Deduplicated(rows).companies : c.id = s.id
    BY <2>1, <2>2 DEF SnapshotsKnown
  <2>4. s.id \in Nat
    BY <2>2, <2>3, IdsApart
  <2>5. s.profile \in DOMAIN Profiles \cup {NoProfile}
    BY <2>1 DEF ProfilesKnown
  <2> QED BY <2>2, <2>3, <2>4, <2>5
<1>9. \A s, t \in Latest : s.id = t.id => s = t
  BY <1>2, <1>5
<1> QED BY <1>7, <1>8, <1>9

\* At most MaxEvaluated companies are evaluated.
LEMMA SelectionFacts ==
    ASSUME Deduped, ProfilesKnown, SnapshotsKnown
    PROVE  /\ IsFiniteSet(Selection) /\ Cardinality(Selection) <= MaxEvaluated
           /\ Selection \subseteq Latest
           /\ \A s \in Selection : s.profile \in DOMAIN Profiles
<1> DEFINE done == {s \in Latest : s.profile # NoProfile}
           R == {x \in done \X done : x[1].id < x[2].id}
<1>1. IsFiniteSet(done) /\ done \subseteq Latest /\ \A s \in done : s.id \in Nat /\ s.profile \in DOMAIN Profiles
  <2>1. /\ IsFiniteSet(Latest)
        /\ \A s \in Latest : s.id \in Nat /\ s.profile \in DOMAIN Profiles \cup {NoProfile}
    BY LatestFacts
  <2> QED BY <2>1, FS_Subset
<1>2. \A s, t \in done : s.id = t.id => s = t
  BY LatestFacts
<1>3. Selection = {s \in done : Cardinality({t \in done : t.id < s.id}) < MaxEvaluated}
  BY DEF Selection
<1> HIDE DEF done
<1>4. \A s, t \in done : <<s, t>> \in R <=> s.id < t.id
  OBVIOUS
<1> HIDE DEF R
<1>5. IsOrder(R, done)
  <2>1. \A s, t \in done : s # t => s.id < t.id \/ t.id < s.id
    BY <1>1, <1>2
  <2>2. \A s, t, u \in done : s.id < t.id /\ t.id < u.id => s.id < u.id
    BY <1>1
  <2>3. \A s \in done : ~ s.id < s.id
    BY <1>1
  <2> QED BY <2>1, <2>2, <2>3, <1>4 DEF IsOrder
<1>6. \A s \in done : {t \in done : t.id < s.id} = Before(R, done, s)
  BY <1>4 DEF Before
<1>7. Selection = {s \in done : Cardinality(Before(R, done, s)) < MaxEvaluated}
  BY <1>3, <1>6
<1>8. MaxEvaluated \in Nat
  BY InputsAssumption DEF InputsAssumption
<1>9. Cardinality(Selection) <= MaxEvaluated
  BY <1>1, <1>5, <1>7, <1>8, FewFirst
<1>10. Selection \subseteq done
  BY <1>7
<1>11. IsFiniteSet(Selection)
  BY <1>1, <1>10, FS_Subset
<1> QED BY <1>1, <1>9, <1>10, <1>11

LEMMA InRanges ==
    ASSUME NEW p, Extracted(p)
    PROVE  FinalScore(p) \in Scores /\ OverallWeight(p) \in Weights
<1>1. OverallWeight(p) \in Nat /\ OverallWeight(p) <= 10000
  BY OverallBounds
<1> DEFINE top == 10000
           w == OverallWeight(p)
           s == FinalScore(p)
<1>2. s \in Int /\ -1 <= s /\ s <= top
  BY ScoreRange
<1>3. w \in Int /\ 0 <= w /\ w <= top
  BY <1>1
<1>4. top \in Int
  OBVIOUS
<1>5. Scores = -1 .. top /\ Weights = 0 .. top
  BY DEF Scores, Weights, Null
<1> HIDE DEF top, w, s
<1>6. s \in -1 .. top /\ w \in 0 .. top
  BY <1>2, <1>3, <1>4
<1> QED BY <1>5, <1>6 DEF s, w

LEMMA JudgedIs ==
    ASSUME NEW name \in DOMAIN Profiles, NEW out \in BOOLEAN
    PROVE  /\ Judged[name][out].decision = Decision(Profiles[name], out)
           /\ Judged[name][out].score = FinalScore(Profiles[name])
           /\ Judged[name][out].coverage = OverallWeight(Profiles[name])
  BY DEF Judged

LEMMA DecisionIs == \A p, out : Decision(p, out) \in Verdict
  BY DEF Decision, Verdict

\* A record that evaluate_company made of a company and a profile.
Codes(list, c) ==
    {Catalogue[list[i]].country : i \in {i \in c.rows : Catalogue[list[i]].spelt = "code"}}

IsRecord(r, list) ==
    /\ r.id \in Nat /\ r.name \in Nat /\ r.profile \in DOMAIN Profiles
    /\ r.decision \in Verdict /\ r.score \in Scores /\ r.coverage \in Weights
    /\ \E c \in Deduplicated(list).companies :
          /\ c.id = r.id /\ c.name = r.name
          /\ r.decision = Decision(Profiles[r.profile], Outside(c.country, Codes(list, c), Home))

AreRecords(records, list) ==
    /\ IsFiniteSet(records) /\ Cardinality(records) <= MaxEvaluated
    /\ \A r \in records : IsRecord(r, list)
    /\ \A r, s \in records : r.id = s.id => r = s

\* Before the rows are deduplicated an evaluation finds nothing.
OfRows(records) ==
    /\ AreRecords(records, rows)
    /\ companies = NoFile => records = {}

RecordsInv ==
    /\ files["evaluated"] # NoFile => OfRows(files["evaluated"])
    /\ \A i \in DOMAIN job : job[i][1] = "evaluated" => OfRows(job[i][2])

LEMMA OfRowsStays ==
    ASSUME NEW records, OfRows(records),
           UNCHANGED <<rows, companies>> \/ companies = NoFile
    PROVE  OfRows(records)'
  BY DEF OfRows, AreRecords

LEMMA CompanyIs ==
    ASSUME Deduped, companies # NoFile, NEW c \in companies.companies
    PROVE  Company(c.id) = c
<1>1. rows \in Lists /\ companies = Deduplicated(rows)
  BY DEF Deduped
<1>2. \A e \in companies.companies : c.id = e.id => c = e
  BY <1>1, IdsApart
<1> QED BY <1>2 DEF Company

LEMMA EvaluationIs ==
    ASSUME Deduped, ProfilesKnown, SnapshotsKnown, NEW s \in Selection
    PROVE  IsRecord(Evaluation(s), rows) /\ Evaluation(s).id = s.id
<1>1. s \in Latest /\ s.profile \in DOMAIN Profiles
  BY SelectionFacts
<1>2. /\ s.id \in Nat /\ companies = Deduplicated(rows)
      /\ \E c \in Deduplicated(rows).companies : c.id = s.id
  BY <1>1, LatestFacts
<1>3. PICK c \in Deduplicated(rows).companies : c.id = s.id
  BY <1>2
<1>4. rows \in Lists
  BY DEF Deduped
<1>5. Company(s.id) = c
  <2>1. \A e \in Deduplicated(rows).companies : c.id = e.id => c = e
    BY <1>4, IdsApart
  <2> QED BY <2>1, <1>2, <1>3 DEF Company
<1>6. c.name \in Nat
  BY <1>4, CompanyFacts
<1> DEFINE p == Profiles[s.profile]
           out == Outside(c.country, Codes(rows, c), Home)
           e == Evaluation(s)
           judged == Judged[s.profile][out]
<1>7. out \in BOOLEAN
  BY DEF Outside
<1>8. e = [id |-> s.id, name |-> c.name, profile |-> s.profile,
           decision |-> judged.decision, score |-> judged.score, coverage |-> judged.coverage]
  BY <1>5 DEF Evaluation, Reported, Codes
<1> HIDE DEF out, e
<1>9. judged.decision = Decision(p, out) /\ judged.score = FinalScore(p)
      /\ judged.coverage = OverallWeight(p)
  BY <1>1, <1>7, JudgedIs
<1>10. FinalScore(p) \in Scores /\ OverallWeight(p) \in Weights
  <2>1. Extracted(p)
    BY <1>1, InputsAssumption DEF InputsAssumption, Extracted
  <2> QED BY <2>1, InRanges
<1> HIDE DEF judged, p
<1>11. /\ e.id = s.id /\ e.name = c.name /\ e.profile = s.profile
       /\ e.decision = Decision(p, out) /\ e.score = FinalScore(p) /\ e.coverage = OverallWeight(p)
  BY <1>8, <1>9
<1>12. IsRecord(e, rows)
  <2>1. e.id \in Nat /\ e.name \in Nat /\ e.profile \in DOMAIN Profiles
    BY <1>1, <1>2, <1>6, <1>11
  <2>2. e.decision \in Verdict
    BY <1>11, DecisionIs
  <2>3. e.score \in Scores /\ e.coverage \in Weights
    BY <1>10, <1>11
  <2>4. /\ c.id = e.id /\ c.name = e.name
        /\ e.decision = Decision(Profiles[e.profile], Outside(c.country, Codes(rows, c), Home))
    BY <1>3, <1>11 DEF p, out
  <2> QED BY <2>1, <2>2, <2>3, <2>4 DEF IsRecord
<1> QED BY <1>11, <1>12 DEF e

LEMMA EvaluatedAreRecords ==
    ASSUME Deduped, ProfilesKnown, SnapshotsKnown
    PROVE  OfRows({Evaluation(s) : s \in Selection})
<1> DEFINE records == {Evaluation(s) : s \in Selection}
           f == [s \in Selection |-> Evaluation(s)]
<1>1. IsFiniteSet(Selection) /\ Cardinality(Selection) <= MaxEvaluated /\ Selection \subseteq Latest
  BY SelectionFacts
<1>2. \A s \in Selection : IsRecord(Evaluation(s), rows) /\ Evaluation(s).id = s.id
  BY EvaluationIs
<1>3. f \in Surjection(Selection, records)
  BY DEF Surjection
<1>4. \A s, t \in Selection : s.id = t.id => s = t
  BY <1>1, LatestFacts
<1>5. \A r, s \in records : r.id = s.id => r = s
  BY <1>2, <1>4
<1>6. \A r \in records : IsRecord(r, rows)
  BY <1>2
<1> HIDE DEF records, f
<1>7. IsFiniteSet(records) /\ Cardinality(records) <= Cardinality(Selection)
  BY <1>1, <1>3, FS_Surjection
<1>8. Cardinality(records) \in Nat /\ Cardinality(Selection) \in Nat /\ MaxEvaluated \in Nat
  BY <1>1, <1>7, FS_CardinalityType, InputsAssumption DEF InputsAssumption
<1>9. Cardinality(records) <= MaxEvaluated
  BY <1>1, <1>7, <1>8
<1>10. companies = NoFile => records = {}
  <2>1. companies = NoFile => Latest = {}
    BY DEF SnapshotsKnown, Latest
  <2> QED BY <1>1, <2>1 DEF records
<1> QED BY <1>5, <1>6, <1>7, <1>9, <1>10 DEF AreRecords, OfRows, records

LEMMA RecordsStay == Spec => []RecordsInv
<1>1. Init => RecordsInv
  BY FileNames DEF Init, RecordsInv
<1>2. Deduped /\ ProfilesKnown /\ SnapshotsKnown /\ WritesInv /\ RecordsInv /\ [Next]_vars
         => RecordsInv'
  <2> SUFFICES ASSUME Deduped, ProfilesKnown, SnapshotsKnown, WritesInv, RecordsInv, [Next]_vars
               PROVE  RecordsInv'
    OBVIOUS
  <2>1. ASSUME UNCHANGED <<rows, companies>>, UNCHANGED <<job, files>>
        PROVE  RecordsInv'
    BY <2>1, OfRowsStays DEF RecordsInv
  <2>2. ASSUME companies = NoFile, UNCHANGED <<job, files>>
        PROVE  RecordsInv'
    BY <2>2, OfRowsStays DEF RecordsInv
  <2>3. CASE Evaluate
    <3> DEFINE records == {Evaluation(s) : s \in Selection}
    <3>1. /\ UNCHANGED <<rows, companies, files>>
          /\ job' = Contents(Evaluated, Views(records))
      BY <2>3 DEF Evaluate
    <3>2. OfRows(records)
      BY EvaluatedAreRecords
    <3>3. Evaluated \in Seq(ToSet(Evaluated))
      BY DEF Evaluated, ToSet
    <3>4. /\ DOMAIN job' = DOMAIN Evaluated
          /\ \A i \in DOMAIN Evaluated : job'[i] = <<Evaluated[i], Views(records)[Evaluated[i]]>>
      BY <3>1, <3>3, ContentsAre
    <3> HIDE DEF records
    <3>5. ASSUME NEW i \in DOMAIN job', job'[i][1] = "evaluated" PROVE job'[i][2] = records
      <4>1. job'[i] = <<Evaluated[i], Views(records)[Evaluated[i]]>>
        BY <3>4
      <4>2. Evaluated[i] = "evaluated" /\ job'[i][2] = Views(records)[Evaluated[i]]
        BY <4>1, <3>5
      <4> QED BY <4>2, EvaluatedView
    <3>6. \A i \in DOMAIN job' : job'[i][1] = "evaluated" => OfRows(job'[i][2])
      BY <3>2, <3>5
    <3> QED BY <3>1, <3>6, OfRowsStays DEF RecordsInv
  <2>4. CASE Calibrate
    <3>1. UNCHANGED <<rows, companies, files>>
      BY <2>4 DEF Calibrate
    <3>2. PICK views : job' = Contents(Calibrated, views)
      BY <2>4 DEF Calibrate
    <3>3. Calibrated \in Seq(ToSet(Calibrated))
      BY DEF Calibrated, ToSet
    <3>4. /\ DOMAIN job' = DOMAIN Calibrated
          /\ \A i \in DOMAIN Calibrated : job'[i] = <<Calibrated[i], views[Calibrated[i]]>>
      BY <3>2, <3>3, ContentsAre
    <3>5. ASSUME NEW i \in DOMAIN job' PROVE job'[i][1] # "evaluated"
      <4>1. job'[i] = <<Calibrated[i], views[Calibrated[i]]>>
        BY <3>4
      <4>2. job'[i][1] = Calibrated[i]
        BY <4>1
      <4>3. i \in DOMAIN Calibrated
        BY <3>4
      <4> QED BY <4>2, <4>3 DEF Calibrated
    <3> QED BY <3>1, <3>5, OfRowsStays DEF RecordsInv
  <2>5. CASE Publish
    <3> DEFINE name == job[1][1]
    <3>1. /\ job # <<>> /\ job' = Tail(job) /\ files' = [files EXCEPT ![name] = job[1][2]]
          /\ UNCHANGED <<rows, companies>>
      BY <2>5 DEF Publish
    <3>2. job \in Seq(ToSet(job)) /\ DOMAIN files = View /\ "evaluated" \in View
      BY FileNames DEF WritesInv
    <3>3. /\ job' \in Seq(ToSet(job)) /\ Len(job') = Len(job) - 1
          /\ \A i \in 1 .. Len(job') : job'[i] = job[i + 1]
      BY <3>1, <3>2, HeadTailProperties
    <3>4. 1 \in DOMAIN job /\ \A i \in DOMAIN job' : i + 1 \in DOMAIN job /\ job'[i] = job[i + 1]
      BY <3>1, <3>2, <3>3
    <3>5. \A i \in DOMAIN job' : job'[i][1] = "evaluated" => OfRows(job'[i][2])
      BY <3>1, <3>4 DEF RecordsInv
    <3>6. files'["evaluated"] = files["evaluated"] \/ (/\ name = "evaluated"
                                                      /\ files'["evaluated"] = job[1][2])
      BY <3>1, <3>2
    <3>7. files'["evaluated"] # NoFile => OfRows(files'["evaluated"])
      BY <3>1, <3>4, <3>6 DEF RecordsInv
    <3> QED BY <3>1, <3>5, <3>7, OfRowsStays DEF RecordsInv
  <2>6. CASE Crash
    <3>1. job' = <<>> /\ UNCHANGED <<rows, companies, files>>
      BY <2>6 DEF Crash
    <3> QED BY <3>1, OfRowsStays DEF RecordsInv
  <2>7. CASE \E r \in DOMAIN Catalogue : Discover(r)
    BY <2>7, <2>2 DEF Discover
  <2>8. CASE Deduplicate
    BY <2>8, <2>2 DEF Deduplicate
  <2>9. ASSUME NEW id, NEW profile, Snapshot(id, profile) PROVE RecordsInv'
    BY <2>9, <2>1 DEF Snapshot
  <2>10. CASE CompleteBatch
    BY <2>10, <2>1 DEF CompleteBatch
  <2>11. CASE \E results \in Searches : Search(results)
    BY <2>11, <2>1 DEF Search
  <2>12. CASE UNCHANGED vars
    BY <2>12, <2>1 DEF vars
  <2> QED BY <2>3, <2>4, <2>5, <2>6, <2>7, <2>8, <2>9, <2>10, <2>11, <2>12 DEF Next, Research, Extract
<1> QED BY <1>1, <1>2, DedupedOnce, ProfilesStayKnown, SnapshotsStayKnown, WritesStay, PTL DEF Spec

-----------------------------------------------------------------------------
LEMMA CountryOf ==
    ASSUME NEW list \in Lists, NEW c \in Deduplicated(list).companies
    PROVE  c.country = IF Cardinality(Countries(Prepared(list), c.rows)) = 1
                       THEN CHOOSE x \in Countries(Prepared(list), c.rows) : TRUE ELSE None
<1> DEFINE p == Prepared(list)
           Country(S) == IF Cardinality(Countries(p, S)) = 1
                         THEN CHOOSE x \in Countries(p, S) : TRUE ELSE None
<1>1. \/ \E d \in Domains(p) : c = ByDomain(p, d) /\ c.rows = Holding(p, d)
      \/ \E j \in Grouped(p) : c = ByFallback(p, p[j].fallback) /\ c.rows = Sharing(p, p[j].fallback)
      \/ \E j \in Ambiguous(p) : c = Alone(list, p, j, "AMBIGUOUS_IDENTITY") /\ c.rows = {j}
      \/ \E j \in Insufficient(p) : c = Alone(list, p, j, "INSUFFICIENT_IDENTITY") /\ c.rows = {j}
  BY Homes
<1> HIDE DEF p
<1>2. \A d : ByDomain(p, d).country = Country(Holding(p, d))
  BY BuildIs DEF ByDomain
<1>3. \A f : ByFallback(p, f).country = Country(Sharing(p, f))
  BY BuildIs DEF ByFallback
<1>4. \A i, reason : Alone(list, p, i, reason).country = Country({i})
  <2>1. \A S, id, extra : Build(GroupOf(p, S), id, None, extra).country = Country(S)
    BY BuildIs
  <2> HIDE DEF Country
  <2> QED BY <2>1 DEF Alone
<1> HIDE DEF Country
<1>5. c.country = Country(c.rows)
  BY <1>1, <1>2, <1>3, <1>4
<1> QED BY <1>5 DEF Country, p

LEMMA OutsideIsRejected ==
    ASSUME NEW list \in Lists, NEW c \in Deduplicated(list).companies, NEW p,
           LET raws == {Catalogue[list[i]] : i \in c.rows}
               said == {x.country : x \in raws} \ {None}
           IN  /\ Cardinality(said) = 1 /\ said \cap Home = {}
               /\ \E x \in raws : x.country \in said /\ x.spelt = "code"
    PROVE  Decision(p, Outside(c.country, Codes(list, c), Home)) = "rejected"
<1> DEFINE raws == {Catalogue[list[i]] : i \in c.rows}
           said == {x.country : x \in raws} \ {None}
<1>1. said = Countries(Prepared(list), c.rows)
  <2>1. \A i \in c.rows : Prepared(list)[i].country = Catalogue[list[i]].country
    <3>1. c.rows \subseteq DOMAIN list
      BY CompanyFacts
    <3>2. \A i \in DOMAIN list : Prepared(list)[i].country = Catalogue[list[i]].country
      BY ListPrepared
    <3> QED BY <3>1, <3>2
  <2>2. said = {Catalogue[list[i]].country : i \in c.rows} \ {None}
    OBVIOUS
  <2> QED BY <2>1, <2>2 DEF Countries
<1>2. PICK country : said = {country}
  <2>1. IsFiniteSet(c.rows)
    <3>1. c.rows \subseteq DOMAIN list
      BY CompanyFacts
    <3>2. IsFiniteSet(DOMAIN list)
      BY ListPrepared
    <3> QED BY <3>1, <3>2, FS_Subset
  <2>2. IsFiniteSet(said)
    <3> DEFINE all == {Catalogue[list[i]].country : i \in c.rows}
               f == [i \in c.rows |-> Catalogue[list[i]].country]
    <3>1. f \in Surjection(c.rows, all)
      BY DEF Surjection
    <3>2. said \subseteq all
      OBVIOUS
    <3> HIDE DEF f, all, said
    <3> QED BY <2>1, <3>1, <3>2, FS_Surjection, FS_Subset
  <2> HIDE DEF said
  <2> QED BY <2>2, FS_Singleton DEF said
<1>3. c.country = country
  <2>1. Cardinality(said) = 1 /\ (CHOOSE x \in said : TRUE) = country
    BY <1>2
  <2> HIDE DEF said
  <2> QED BY <2>1, <1>1, CountryOf
<1>4. country # None /\ country \notin Home
  BY <1>2
<1>5. country \in Codes(list, c)
  <2>1. PICK x \in raws : x.country \in said /\ x.spelt = "code"
    OBVIOUS
  <2>2. PICK i \in c.rows : x = Catalogue[list[i]]
    BY <2>1
  <2>3. x.country = country
    BY <2>1, <1>2
  <2> QED BY <2>1, <2>2, <2>3 DEF Codes
<1>6. Outside(c.country, Codes(list, c), Home)
  BY <1>3, <1>4, <1>5 DEF Outside, None
<1> QED BY <1>6 DEF Decision, Rejections

(***************************************************************************)
(* A company all of whose rows report one country code outside the US and  *)
(* Canada, or none, is never accepted, whatever was extracted about it and *)
(* whatever the policy (dedup.py:361-387 with policy.py:481-494).          *)
(***************************************************************************)
THEOREM OutsideIsNeverAccepted == Spec => []OutsideNeverAccepted
<1>1. Deduped /\ RecordsInv => OutsideNeverAccepted
  <2> SUFFICES ASSUME Deduped, RecordsInv, files["evaluated"] # NoFile,
                      NEW r \in files["evaluated"],
                      LET raws == {Catalogue[rows[i]] : i \in Company(r.id).rows}
                          said == {x.country : x \in raws} \ {None}
                      IN  /\ Cardinality(said) = 1 /\ said \cap Home = {}
                          /\ \E x \in raws : x.country \in said /\ x.spelt = "code"
               PROVE  r.decision = "rejected"
    BY DEF OutsideNeverAccepted
  <2>1. companies # NoFile /\ rows \in Lists /\ companies = Deduplicated(rows) /\ IsRecord(r, rows)
    BY DEF RecordsInv, OfRows, Deduped, AreRecords
  <2>2. PICK c \in Deduplicated(rows).companies :
              /\ c.id = r.id
              /\ r.decision = Decision(Profiles[r.profile], Outside(c.country, Codes(rows, c), Home))
    BY <2>1 DEF IsRecord
  <2>3. Company(r.id) = c
    BY <2>1, <2>2, CompanyIs
  <2>4. LET raws == {Catalogue[rows[i]] : i \in c.rows}
            said == {x.country : x \in raws} \ {None}
        IN  /\ Cardinality(said) = 1 /\ said \cap Home = {}
            /\ \E x \in raws : x.country \in said /\ x.spelt = "code"
    BY <2>3
  <2>5. Decision(Profiles[r.profile], Outside(c.country, Codes(rows, c), Home)) = "rejected"
    BY <2>1, <2>4, OutsideIsRejected
  <2> QED BY <2>2, <2>5
<1> QED BY <1>1, DedupedOnce, RecordsStay, PTL

-----------------------------------------------------------------------------
TornInv == torn \subseteq {"evaluate", "calibrate"}

LEMMA TornStays == Spec => []TornInv
<1>1. Init => TornInv
  BY DEF Init, TornInv
<1>2. TornInv /\ [Next]_vars => TornInv'
  <2> SUFFICES ASSUME TornInv, [Next]_vars PROVE TornInv'
    OBVIOUS
  <2>1. UNCHANGED torn \/ torn' = torn \ {Command} \/ torn' = torn \cup {Command}
    BY DEF Next, vars, Discover, Deduplicate, Research, Extract, Snapshot, CompleteBatch,
           Evaluate, Calibrate, Publish, Crash, Search
  <2>2. Command \in {"evaluate", "calibrate"}
    BY DEF Command
  <2> QED BY <2>1, <2>2 DEF TornInv
<1> QED BY <1>1, <1>2, PTL DEF Spec

(***************************************************************************)
(* The files stay well-formed: companies are made of the rows there are,   *)
(* snapshots are of companies, at most MaxEvaluated companies are          *)
(* evaluated, with a verdict, a score and a coverage in range, and the     *)
(* only files are the eight of the two commands (evaluation.py:415-511).   *)
(***************************************************************************)
THEOREM DecisionsTypeCorrect == Spec => []TypeOK
<1>1. Deduped /\ ProfilesKnown /\ SnapshotsKnown /\ WritesInv /\ RecordsInv /\ TornInv => TypeOK
  <2> SUFFICES ASSUME Deduped, ProfilesKnown, SnapshotsKnown, WritesInv, RecordsInv, TornInv
               PROVE  TypeOK
    OBVIOUS
  <2>1. Len(rows) <= MaxRows /\ ToSet(rows) \subseteq DOMAIN Catalogue
    BY DEF Deduped, Lists, ToSet
  <2>2. companies # NoFile => \A c \in companies.companies : c.rows \subseteq DOMAIN rows
    BY CompanyFacts DEF Deduped
  <2>3. \A i \in DOMAIN snapshots :
          /\ snapshots[i].profile \in DOMAIN Profiles \cup {NoProfile}
          /\ \E c \in companies.companies : c.id = snapshots[i].id
    BY DEF ProfilesKnown, SnapshotsKnown
  <2>4. DOMAIN files = View
    BY DEF WritesInv
  <2>5. files["evaluated"] # NoFile =>
          /\ Cardinality(files["evaluated"]) <= MaxEvaluated
          /\ \A r \in files["evaluated"] :
                /\ r.decision \in Verdict
                /\ r.score \in Scores /\ r.coverage \in Weights
    BY DEF RecordsInv, OfRows, AreRecords, IsRecord
  <2>6. torn \subseteq {"evaluate", "calibrate"}
    BY DEF TornInv
  <2> QED BY <2>1, <2>2, <2>3, <2>4, <2>5, <2>6 DEF TypeOK
<1> QED BY <1>1, DedupedOnce, ProfilesStayKnown, SnapshotsStayKnown, WritesStay, RecordsStay,
           TornStays, PTL

-----------------------------------------------------------------------------
(***************************************************************************)
(* Rankings.                                                               *)
(***************************************************************************)

Lower(a, b) == \E n \in 1 .. 6 : a[n] < b[n] /\ \A m \in 1 .. n - 1 : a[m] = b[m]

LEMMA LowerIsOrder ==
    ASSUME NEW S, NEW key, \A x \in S : \A n \in 1 .. 6 : key[x][n] \in Int,
           \A x, y \in S : x # y => \E n \in 1 .. 6 : key[x][n] # key[y][n]
    PROVE  IsOrder({x \in S \X S : Lower(key[x[1]], key[x[2]])}, S)
<1> DEFINE R == {x \in S \X S : Lower(key[x[1]], key[x[2]])}
<1>1. \A x, y \in S : <<x, y>> \in R <=> Lower(key[x], key[y])
  OBVIOUS
<1> HIDE DEF R
<1>2. \A x \in S : ~ Lower(key[x], key[x])
  BY DEF Lower
<1>3. ASSUME NEW x \in S, NEW y \in S, NEW z \in S, Lower(key[x], key[y]), Lower(key[y], key[z])
      PROVE  Lower(key[x], key[z])
  <2>1. PICK m \in 1 .. 6 : /\ key[x][m] < key[y][m]
                            /\ \A k \in 1 .. m - 1 : key[x][k] = key[y][k]
    BY <1>3 DEF Lower
  <2>2. PICK n \in 1 .. 6 : /\ key[y][n] < key[z][n]
                            /\ \A k \in 1 .. n - 1 : key[y][k] = key[z][k]
    BY <1>3 DEF Lower
  <2>3. \A k \in 1 .. 6 : key[x][k] \in Int /\ key[y][k] \in Int /\ key[z][k] \in Int
    OBVIOUS
  <2>4. CASE m < n
    <3>1. key[x][m] < key[z][m] /\ \A k \in 1 .. m - 1 : key[x][k] = key[z][k]
      BY <2>1, <2>2, <2>4
    <3> QED BY <3>1 DEF Lower
  <2>5. CASE m = n
    <3>1. key[x][m] < key[z][m] /\ \A k \in 1 .. m - 1 : key[x][k] = key[z][k]
      BY <2>1, <2>2, <2>3, <2>5
    <3> QED BY <3>1 DEF Lower
  <2>6. CASE n < m
    <3>1. key[x][n] < key[z][n] /\ \A k \in 1 .. n - 1 : key[x][k] = key[z][k]
      BY <2>1, <2>2, <2>6
    <3> QED BY <3>1 DEF Lower
  <2> QED BY <2>4, <2>5, <2>6
<1>4. ASSUME NEW x \in S, NEW y \in S, x # y
      PROVE  Lower(key[x], key[y]) \/ Lower(key[y], key[x])
  <2> DEFINE apart == {n \in 1 .. 6 : key[x][n] # key[y][n]}
             Less == {p \in apart \X apart : p[1] < p[2]}
  <2>1. apart # {} /\ apart \subseteq 1 .. 6
    BY <1>4
  <2>2. IsFiniteSet(apart)
    <3>1. 1 \in Int /\ 6 \in Int
      OBVIOUS
    <3>2. IsFiniteSet(1 .. 6)
      BY ONLY <3>1, FS_Interval
    <3> QED BY <3>2, <2>1, FS_Subset
  <2>3. \A n \in 1 .. 6 : n \notin apart => key[x][n] = key[y][n]
    OBVIOUS
  <2>4. \A n \in apart : key[x][n] # key[y][n]
    OBVIOUS
  <2> HIDE DEF apart
  <2>5. \A m, n \in apart : <<m, n>> \in Less <=> m < n
    OBVIOUS
  <2> HIDE DEF Less
  <2>6. IsOrder(Less, apart)
    <3>1. apart \in SUBSET Int
      BY <2>1
    <3> QED BY ONLY <2>5, <3>1, NumbersInOrder
  <2>7. PICK n \in apart : \A m \in apart \ {n} : <<n, m>> \in Less
    BY <2>1, <2>2, <2>6, FirstExists
  <2>8. n \in 1 .. 6 /\ \A m \in 1 .. n - 1 : m \notin apart
    <3>1. n \in 1 .. 6
      BY <2>1
    <3>2. ASSUME NEW m \in 1 .. n - 1, m \in apart PROVE FALSE
      <4>1. m \in Int /\ m < n /\ m # n
        BY <3>1
      <4>2. n < m
        BY <2>5, <2>7, <3>2, <4>1
      <4> QED BY <3>1, <4>1, <4>2
    <3> QED BY <3>1, <3>2
  <2>9. \A m \in 1 .. n - 1 : key[x][m] = key[y][m]
    BY <2>3, <2>8
  <2>10. key[x][n] < key[y][n] \/ key[y][n] < key[x][n]
    BY <2>4, <2>8
  <2> QED BY <2>8, <2>9, <2>10 DEF Lower
<1>5. IsOrder(R, S)
  BY <1>1, <1>2, <1>3, <1>4 DEF IsOrder
<1> QED BY <1>5 DEF R

\* A ranking lists every record once.
LEMMA RankedIs ==
    ASSUME NEW list, NEW records, AreRecords(records, list)
    PROVE  /\ DOMAIN Ranked(records) = 1 .. Cardinality(records)
           /\ \A i \in DOMAIN Ranked(records) : Ranked(records)[i] \in records
           /\ \A r \in records : \E i \in DOMAIN Ranked(records) : Ranked(records)[i] = r
<1> DEFINE key == [r \in records |-> RankKey(r)]
           R == {x \in records \X records : Lower(key[x[1]], key[x[2]])}
           L == Ranked(records)
<1>1. /\ IsFiniteSet(records)
      /\ \A r \in records : IsRecord(r, list)
      /\ \A r, s \in records : r.id = s.id => r = s
  BY DEF AreRecords
<1>2. ASSUME NEW r \in records
      PROVE  /\ \A n \in 1 .. 6 : key[r][n] \in Int
             /\ key[r][6] = r.id
  <2>1. r.score \in Int /\ r.coverage \in Int /\ r.name \in Int /\ r.id \in Int
    <3>1. IsRecord(r, list)
      BY <1>1
    <3>2. r.score \in Scores /\ r.coverage \in Weights /\ r.name \in Nat /\ r.id \in Nat
      BY <3>1 DEF IsRecord
    <3>3. ASSUME NEW n \in Scores PROVE n \in Int
      BY SMT DEF Scores, Null
    <3>4. ASSUME NEW n \in Weights PROVE n \in Int
      BY SMT DEF Weights
    <3>5. r.name \in Int /\ r.id \in Int
      BY SMT, <3>2
    <3>6. r.score \in Int /\ r.coverage \in Int
      BY <3>2, <3>3, <3>4
    <3> QED BY <3>5, <3>6
  <2> DEFINE a == CASE r.decision = "accepted" -> 0 [] r.decision = "uncertain" -> 1 [] OTHER -> 2
             b == IF r.score = Null THEN 1 ELSE 0
             c == -r.score
             d == -r.coverage
  <2>2. key[r] = <<a, b, c, d, r.name, r.id>>
    BY DEF RankKey
  <2>3. a \in Int /\ b \in Int /\ c \in Int /\ d \in Int
    BY <2>1
  <2> HIDE DEF a, b, c, d, key
  <2> QED BY <2>1, <2>2, <2>3
<1>3. \A r, s \in records : r # s => \E n \in 1 .. 6 : key[r][n] # key[s][n]
  <2>1. \A r, s \in records : r # s => key[r][6] # key[s][6]
    BY <1>1, <1>2
  <2>2. 6 \in 1 .. 6
    OBVIOUS
  <2> QED BY <2>1, <2>2
<1>4. \A r, s \in records : <<r, s>> \in R <=> Above(r, s)
  BY DEF Above, Lower
<1> HIDE DEF key
<1>5. IsOrder(R, records)
  BY <1>2, <1>3, LowerIsOrder
<1> HIDE DEF R
<1>6. \A r \in records : {s \in records : Above(s, r)} = Before(R, records, r)
  BY <1>4 DEF Before
<1>7. ASSUME NEW n \in 1 .. Cardinality(records), NEW x \in records,
             Cardinality(Before(R, records, x)) = n - 1
      PROVE  L[n] \in records /\ Cardinality(Before(R, records, L[n])) = n - 1
  <2>1. L[n] = CHOOSE r \in records : Cardinality({s \in records : Above(s, r)}) = n - 1
    BY DEF Ranked
  <2>2. \E r \in records : Cardinality({s \in records : Above(s, r)}) = n - 1
    BY <1>6, <1>7
  <2> HIDE DEF L
  <2>3. L[n] \in records /\ Cardinality({s \in records : Above(s, L[n])}) = n - 1
    BY <2>1, <2>2
  <2> QED BY <2>3, <1>6
<1>8. DOMAIN L = 1 .. Cardinality(records)
  BY DEF Ranked
<1> HIDE DEF L
<1>9. /\ \A i \in 1 .. Cardinality(records) : L[i] \in records
      /\ \A x \in records : \E i \in 1 .. Cardinality(records) : L[i] = x
      /\ \A i, j \in 1 .. Cardinality(records) : i < j => <<L[i], L[j]>> \in R /\ L[i] # L[j]
  BY <1>1, <1>5, <1>7, Sorted
<1> QED BY <1>8, <1>9 DEF L

-----------------------------------------------------------------------------
(***************************************************************************)
(* The two files of a calibration.                                         *)
(***************************************************************************)

\* What CalibrationTellsOneStory says of a report and a joined table.
OneStory(report, joined) ==
    LET table == ToSet(joined)
        labelled == {t \in table : t.label # "none"}
        apart == {t \in labelled : <<t.label, t.decision>> \notin Agreeing}
    IN  /\ report.critical \cup report.review = {t.id : t \in apart}
        /\ report.critical \cap report.review = {}
        /\ \A l \in Label, d \in Verdict :
              report.matrix[l][d] = Cardinality({t \in table : t.label = l /\ t.decision = d})

Report(records, labels) ==
    [matrix |-> Matrix(records, labels),
     critical |-> {r.id : r \in {r \in records : Critical(r, labels)}},
     review |-> {r.id : r \in {r \in records : ForReview(r, labels)}}]

\* The line of a record in the joined table.
Line(r, labels) ==
    [id |-> r.id, decision |-> r.decision,
     label |-> IF r.id \in DOMAIN labels THEN labels[r.id] ELSE "none"]

LEMMA TableIs ==
    ASSUME NEW list, NEW records, AreRecords(records, list), NEW labels
    PROVE  ToSet(Joined(records, labels)) = {Line(r, labels) : r \in records}
<1> DEFINE ranked == Ranked(records)
           joined == Joined(records, labels)
<1>1. /\ \A i \in DOMAIN ranked : ranked[i] \in records
      /\ \A r \in records : \E i \in DOMAIN ranked : ranked[i] = r
  BY RankedIs
<1>2. DOMAIN joined = DOMAIN ranked /\ \A i \in DOMAIN ranked : joined[i] = Line(ranked[i], labels)
  BY DEF Joined, Line
<1> HIDE DEF joined, ranked
<1>3. ToSet(joined) = {Line(ranked[i], labels) : i \in DOMAIN ranked}
  BY <1>2 DEF ToSet
<1>4. ToSet(joined) = {Line(r, labels) : r \in records}
  BY <1>1, <1>3
<1> QED BY <1>4 DEF joined

LEMMA Differences ==
    ASSUME NEW l \in Label, NEW d \in Verdict
    PROVE  LET critical == <<l, d>> \in {<<"A", "rejected">>, <<"C", "accepted">>}
               review == <<l, d>> \in {<<"A", "uncertain">>, <<"B", "accepted">>,
                                       <<"B", "rejected">>, <<"C", "uncertain">>}
           IN  /\ <<l, d>> \notin Agreeing <=> critical \/ review
               /\ ~ (critical /\ review)
<1>1. l \in {"A", "B", "C"} /\ d \in {"accepted", "uncertain", "rejected"}
  BY DEF Label, Verdict
<1>2. \A x, y : <<l, d>> = <<x, y>> <=> l = x /\ d = y
  OBVIOUS
<1> QED BY <1>1, <1>2 DEF Agreeing

LEMMA ReportIsTold ==
    ASSUME NEW list, NEW records, AreRecords(records, list),
           NEW labelled, NEW labels \in [labelled -> Label]
    PROVE  OneStory(Report(records, labels), Joined(records, labels))
<1> DEFINE table == {Line(r, labels) : r \in records}
           apart == {t \in {t \in table : t.label # "none"} : <<t.label, t.decision>> \notin Agreeing}
           critical == {r \in records : Critical(r, labels)}
           review == {r \in records : ForReview(r, labels)}
<1>1. ToSet(Joined(records, labels)) = table
  BY TableIs
<1>2. /\ IsFiniteSet(records) /\ \A r \in records : r.decision \in Verdict
      /\ \A r, s \in records : r.id = s.id => r = s
  BY DEF AreRecords, IsRecord
<1>3. DOMAIN labels = labelled /\ \A id \in labelled : labels[id] \in Label /\ labels[id] # "none"
  BY DEF Label
<1>4. \A r \in records :
         /\ Line(r, labels).id = r.id /\ Line(r, labels).decision = r.decision
         /\ r.id \in labelled => Line(r, labels).label = labels[r.id]
         /\ r.id \notin labelled => Line(r, labels).label = "none"
  BY <1>3 DEF Line
<1>5. ASSUME NEW r \in records
      PROVE  /\ r \in critical \cup review <=> Line(r, labels) \in apart
             /\ ~ (r \in critical /\ r \in review)
  <2>1. CASE r.id \in labelled
    <3>1. /\ <<labels[r.id], r.decision>> \notin Agreeing <=>
                \/ <<labels[r.id], r.decision>> \in {<<"A", "rejected">>, <<"C", "accepted">>}
                \/ <<labels[r.id], r.decision>> \in {<<"A", "uncertain">>, <<"B", "accepted">>,
                                                     <<"B", "rejected">>, <<"C", "uncertain">>}
          /\ ~ (/\ <<labels[r.id], r.decision>> \in {<<"A", "rejected">>, <<"C", "accepted">>}
                /\ <<labels[r.id], r.decision>> \in {<<"A", "uncertain">>, <<"B", "accepted">>,
                                                     <<"B", "rejected">>, <<"C", "uncertain">>})
      BY <1>2, <1>3, <2>1, Differences
    <3>2. Critical(r, labels) <=>
             <<labels[r.id], r.decision>> \in {<<"A", "rejected">>, <<"C", "accepted">>}
      BY <1>3, <2>1 DEF Critical
    <3>3. ForReview(r, labels) <=>
             <<labels[r.id], r.decision>> \in {<<"A", "uncertain">>, <<"B", "accepted">>,
                                               <<"B", "rejected">>, <<"C", "uncertain">>}
      BY <1>3, <2>1 DEF ForReview
    <3>4. Line(r, labels) \in apart <=> <<labels[r.id], r.decision>> \notin Agreeing
      BY <1>3, <1>4, <2>1
    <3>5. /\ <<labels[r.id], r.decision>> \notin Agreeing <=> Critical(r, labels) \/ ForReview(r, labels)
          /\ ~ (Critical(r, labels) /\ ForReview(r, labels))
      BY <3>1, <3>2, <3>3
    <3> HIDE DEF apart
    <3> QED BY <3>4, <3>5
  <2>2. CASE r.id \notin labelled
    <3>1. ~ Critical(r, labels) /\ ~ ForReview(r, labels)
      BY <1>3, <2>2 DEF Critical, ForReview
    <3>2. Line(r, labels).label = "none"
      BY <1>4, <2>2
    <3> QED BY <3>1, <3>2
  <2> QED BY <2>1, <2>2
<1>6. \A t \in apart : \E r \in records : t = Line(r, labels)
  OBVIOUS
<1>7. {r.id : r \in critical} \cup {r.id : r \in review} = {t.id : t \in apart}
  <2> HIDE DEF apart
  <2>1. ASSUME NEW r \in critical \cup review PROVE \E t \in apart : t.id = r.id
    <3>1. r \in records
      OBVIOUS
    <3> HIDE DEF critical, review
    <3>2. Line(r, labels) \in apart /\ Line(r, labels).id = r.id
      BY <1>4, <1>5, <2>1, <3>1
    <3> QED BY <3>2
  <2>2. ASSUME NEW t \in apart PROVE \E r \in critical \cup review : t.id = r.id
    <3>1. PICK r \in records : t = Line(r, labels)
      BY <1>6
    <3> HIDE DEF critical, review
    <3>2. r \in critical \cup review /\ t.id = r.id
      BY <1>4, <1>5, <3>1
    <3> QED BY <3>2
  <2> HIDE DEF critical, review
  <2> QED BY <2>1, <2>2
<1>8. {r.id : r \in critical} \cap {r.id : r \in review} = {}
  <2> SUFFICES ASSUME NEW r \in critical, NEW s \in review, r.id = s.id PROVE FALSE
    OBVIOUS
  <2>1. r \in records /\ s \in records
    OBVIOUS
  <2>2. r = s
    BY <1>2, <2>1
  <2> QED BY <1>5, <2>1, <2>2
<1>9. ASSUME NEW l \in Label, NEW d \in Verdict
      PROVE  Matrix(records, labels)[l][d] = Cardinality({t \in table : t.label = l /\ t.decision = d})
  <2> DEFINE A == {r \in records : /\ r.id \in DOMAIN labels
                                   /\ labels[r.id] = l /\ r.decision = d}
             B == {t \in table : t.label = l /\ t.decision = d}
             f == [r \in A |-> Line(r, labels)]
  <2>1. Matrix(records, labels)[l][d] = Cardinality(A)
    BY DEF Matrix
  <2>2. l # "none"
    BY DEF Label
  <2>3. \A r \in records : r \in A <=> Line(r, labels).label = l /\ Line(r, labels).decision = d
    BY <1>3, <1>4, <2>2
  <2>4. A \subseteq records
    OBVIOUS
  <2>5. \A t \in B : \E r \in records : t = Line(r, labels) /\ t.label = l /\ t.decision = d
    OBVIOUS
  <2>6. \A r \in records : Line(r, labels).label = l /\ Line(r, labels).decision = d
                              => Line(r, labels) \in B
    OBVIOUS
  <2> HIDE DEF A, B
  <2>7. f \in Surjection(A, B)
    <3>1. \A r \in A : Line(r, labels) \in B
      BY <2>3, <2>4, <2>6
    <3>2. \A t \in B : \E r \in A : t = Line(r, labels)
      BY <2>3, <2>5
    <3> QED BY <3>1, <3>2 DEF Surjection
  <2>8. \A r, s \in A : Line(r, labels) = Line(s, labels) => r = s
    BY <1>2, <1>4, <2>4
  <2>9. f \in Injection(A, B)
    <3>1. f \in [A -> B]
      BY <2>7 DEF Surjection
    <3>2. \A r, s \in A : f[r] = f[s] => r = s
      BY <2>8
    <3> HIDE DEF f
    <3>3. DOMAIN f = A
      BY <3>1
    <3> QED BY <3>1, <3>2, <3>3 DEF Injection, IsInjective
  <2>10. IsFiniteSet(A)
    BY <1>2, <2>4, FS_Subset
  <2> HIDE DEF f
  <2>11. Cardinality(B) = Cardinality(A)
    BY <2>7, <2>9, <2>10, FS_Surjection
  <2> QED BY <2>1, <2>11 DEF B
<1> DEFINE report == Report(records, labels)
<1>10. /\ report.critical = {r.id : r \in critical} /\ report.review = {r.id : r \in review}
       /\ report.matrix = Matrix(records, labels)
  BY DEF Report
<1>11. \A l \in Label, d \in Verdict :
          report.matrix[l][d] = Cardinality({t \in table : t.label = l /\ t.decision = d})
  BY <1>9, <1>10
<1>12. /\ report.critical \cup report.review = {t.id : t \in apart}
       /\ report.critical \cap report.review = {}
  BY <1>7, <1>8, <1>10
<1>13. LET T == ToSet(Joined(records, labels)) IN
         /\ apart = {t \in {t \in T : t.label # "none"} : <<t.label, t.decision>> \notin Agreeing}
         /\ \A l \in Label, d \in Verdict :
              report.matrix[l][d] = Cardinality({t \in T : t.label = l /\ t.decision = d})
  BY <1>1, <1>11
<1> HIDE DEF report, apart, table
<1> QED BY <1>12, <1>13 DEF OneStory, report

\* The last complete calibration tells one story unless a later one was torn.
StoryTrue ==
    "calibrate" \notin torn /\ files["report"] # NoFile =>
        OneStory(files["report"], files["joined"])

\* The running command writes a report and a table that tell one story; as long
\* as the report is to be written, the files are those of the command before.
Calibrating(views) ==
    /\ OneStory(views["report"], views["joined"])
    /\ \A i \in DOMAIN job :
          /\ job[i][1] \in ReportFiles /\ job[i][2] = views[job[i][1]]
          /\ job[i][1] = "report" => i = 1 /\ StoryTrue
    /\ \A v \in ReportFiles : files[v] = views[v] \/ \E i \in DOMAIN job : job[i][1] = v

\* Nothing but decision files is being written.
Recounted ==
    /\ \A i \in DOMAIN job : job[i][1] \in DecisionFiles
    /\ StoryTrue

StoryInv == Recounted \/ \E views : Calibrating(views)

LEMMA StoryTold ==
    ASSUME StoryInv, job = <<>>
    PROVE  Recounted
<1> SUFFICES ASSUME NEW views, Calibrating(views) PROVE Recounted
  BY DEF StoryInv
<1>1. files["report"] = views["report"] /\ files["joined"] = views["joined"]
  BY FileNames DEF Calibrating
<1> QED BY <1>1 DEF Calibrating, Recounted, StoryTrue

LEMMA StoryEvaluate ==
    ASSUME StoryInv, Evaluate
    PROVE  StoryInv'
<1>1. job = <<>> /\ UNCHANGED <<files, torn>>
  BY DEF Evaluate
<1>2. PICK records : job' = Contents(Evaluated, Views(records))
  BY DEF Evaluate
<1>3. Evaluated \in Seq(ToSet(Evaluated))
  BY DEF Evaluated, ToSet
<1>4. /\ DOMAIN job' = DOMAIN Evaluated
      /\ \A i \in DOMAIN Evaluated : job'[i] = <<Evaluated[i], Views(records)[Evaluated[i]]>>
  BY <1>2, <1>3, ContentsAre
<1>5. \A i \in DOMAIN Evaluated : Evaluated[i] \in DecisionFiles
  BY DEF DecisionFiles, ToSet
<1>6. \A i \in DOMAIN job' : job'[i][1] \in DecisionFiles
  BY <1>4, <1>5
<1>7. Recounted
  BY <1>1, StoryTold
<1>8. Recounted'
  BY <1>1, <1>6, <1>7 DEF Recounted, StoryTrue
<1> QED BY <1>8 DEF StoryInv

LEMMA StoryCalibrate ==
    ASSUME RecordsInv, StoryInv, Calibrate
    PROVE  StoryInv'
<1> DEFINE records == files["evaluated"]
<1>1. AreRecords(records, rows)
  <2>1. records # NoFile
    BY DEF Calibrate
  <2> QED BY <2>1 DEF RecordsInv, OfRows
<1>2. PICK labelled \in SUBSET Ids(records) : \E labels \in [labelled -> Label] :
         job' = Contents(Calibrated, [report |-> Report(records, labels),
                                      joined |-> Joined(records, labels)])
  BY DEF Calibrate, Report
<1>a. PICK labels \in [labelled -> Label] :
         job' = Contents(Calibrated, [report |-> Report(records, labels),
                                      joined |-> Joined(records, labels)])
  BY <1>2
<1> DEFINE told == [report |-> Report(records, labels), joined |-> Joined(records, labels)]
<1>b. OneStory(told["report"], told["joined"])
  BY <1>1, ReportIsTold
<1>c. job' = Contents(Calibrated, told)
  BY <1>a
<1> HIDE DEF told
<1>3. PICK views : OneStory(views["report"], views["joined"]) /\ job' = Contents(Calibrated, views)
  BY <1>b, <1>c
<1>5. Calibrated \in Seq(ToSet(Calibrated))
  BY DEF Calibrated, ToSet
<1>6. /\ DOMAIN job' = DOMAIN Calibrated
      /\ \A i \in DOMAIN Calibrated : job'[i] = <<Calibrated[i], views[Calibrated[i]]>>
  BY <1>3, <1>5, ContentsAre
<1>7. ASSUME NEW i \in DOMAIN job'
      PROVE  job'[i][1] = Calibrated[i] /\ job'[i][2] = views[job'[i][1]]
  <2>1. job'[i] = <<Calibrated[i], views[Calibrated[i]]>>
    BY <1>6
  <2> QED BY <2>1
<1>8. \A i \in DOMAIN job' :
         /\ job'[i][1] \in ReportFiles /\ job'[i][2] = views[job'[i][1]]
         /\ job'[i][1] = "report" => i = 1 /\ StoryTrue'
  <2>1. \A i \in DOMAIN Calibrated : Calibrated[i] \in ReportFiles
    BY DEF ReportFiles, ToSet
  <2>2. \A i \in DOMAIN Calibrated : Calibrated[i] = "report" => i = 1
    BY DEF Calibrated
  <2>3. StoryTrue /\ files' = files /\ torn' = torn
    BY StoryTold DEF Calibrate, Recounted
  <2>4. StoryTrue'
    BY <2>3 DEF StoryTrue
  <2> QED BY <2>1, <2>2, <2>4, <1>6, <1>7
<1>9. \A v \in ReportFiles : \E i \in DOMAIN job' : job'[i][1] = v
  <2>1. \A v \in ReportFiles : \E i \in DOMAIN Calibrated : v = Calibrated[i]
    BY DEF ReportFiles, ToSet
  <2> QED BY <2>1, <1>6, <1>7
<1>10. Calibrating(views)'
  BY <1>3, <1>8, <1>9 DEF Calibrating
<1> QED BY <1>10 DEF StoryInv

LEMMA StoryCrash ==
    ASSUME WritesInv, StoryInv, Crash
    PROVE  StoryInv'
<1>1. /\ job # <<>> /\ 1 \in DOMAIN job /\ job' = <<>> /\ files' = files
      /\ \/ job[1][1] \in {"evaluated", "report"} /\ torn' = torn
         \/ torn' = torn \cup {Command}
  BY CrashMarks
<1>2. CASE Recounted
  BY <1>1, <1>2 DEF Recounted, StoryTrue, StoryInv
<1>3. ASSUME NEW views, Calibrating(views) PROVE StoryInv'
  <2>1. Command = "calibrate"
    BY <1>1, <1>3, LastName DEF Calibrating
  <2>2. StoryTrue'
    <3>1. CASE torn' = torn \cup {Command}
      BY <2>1, <3>1 DEF StoryTrue
    <3>2. CASE job[1][1] \in {"evaluated", "report"} /\ torn' = torn
      <4>1. job[1][1] = "report"
        BY <1>1, <1>3, <3>2, FileNames DEF Calibrating
      <4>2. StoryTrue
        BY <1>1, <1>3, <4>1 DEF Calibrating
      <4> QED BY <1>1, <3>2, <4>2 DEF StoryTrue
    <3> QED BY <1>1, <3>1, <3>2
  <2> QED BY <1>1, <2>2 DEF Recounted, StoryInv
<1> QED BY <1>2, <1>3 DEF StoryInv

LEMMA StoryPublish ==
    ASSUME WritesInv, StoryInv, Publish
    PROVE  StoryInv'
<1> DEFINE name == job[1][1]
<1>1. /\ job # <<>> /\ job' = Tail(job)
      /\ files' = [files EXCEPT ![name] = job[1][2]]
      /\ torn' = IF Len(job) = 1 THEN torn \ {Command} ELSE torn
  BY DEF Publish
<1>2. job \in Seq(ToSet(job)) /\ DOMAIN files = View
  BY DEF WritesInv
<1>3. /\ job' \in Seq(ToSet(job)) /\ Len(job') = Len(job) - 1
      /\ \A i \in 1 .. Len(job') : job'[i] = job[i + 1]
  BY <1>1, <1>2, HeadTailProperties
<1>4. DOMAIN job = 1 .. Len(job) /\ DOMAIN job' = 1 .. Len(job') /\ Len(job) \in Nat
  BY <1>2, <1>3
<1>5. \A i \in DOMAIN job' : i + 1 \in DOMAIN job /\ job'[i] = job[i + 1]
  BY <1>3, <1>4
<1>6. \A j \in DOMAIN job : j = 1 \/ (j - 1 \in DOMAIN job' /\ job'[j - 1] = job[j])
  BY <1>3, <1>4
<1>7. CASE Recounted
  <2>1. name \in DecisionFiles /\ name \notin ReportFiles
    BY <1>1, <1>7, LastName, FileNames DEF Recounted
  <2>2. Command = "evaluate"
    BY <1>1, <1>7, LastName DEF Recounted
  <2>3. "calibrate" \notin torn' => "calibrate" \notin torn
    BY <1>1, <2>2
  <2>4. \A v \in ReportFiles : files'[v] = files[v]
    BY <1>1, <1>2, <2>1, FileNames
  <2>5. files'["report"] = files["report"] /\ files'["joined"] = files["joined"]
    BY <2>4, FileNames
  <2>6. Recounted'
    BY <1>5, <1>7, <2>3, <2>5 DEF Recounted, StoryTrue
  <2> QED BY <2>6 DEF StoryInv
<1>8. ASSUME NEW views, Calibrating(views) PROVE StoryInv'
  <2>1. 1 \in DOMAIN job
    BY <1>1, LastName
  <2>2. name \in View /\ files'[name] = views[name]
    BY <1>1, <1>2, <1>8, <2>1, FileNames DEF Calibrating
  <2>3. \A v \in ReportFiles \ {name} : files'[v] = files[v]
    BY <1>1, <1>2, FileNames
  <2>4. ASSUME NEW v \in ReportFiles
        PROVE  files'[v] = views[v] \/ \E i \in DOMAIN job' : job'[i][1] = v
    <3>1. CASE v = name
      BY <3>1, <2>2
    <3>2. CASE v # name /\ files[v] = views[v]
      BY <3>2, <2>3
    <3>3. CASE v # name /\ \E j \in DOMAIN job : job[j][1] = v
      BY <3>3, <1>6
    <3> QED BY <1>8, <3>1, <3>2, <3>3 DEF Calibrating
  <2>5. \A i \in DOMAIN job' :
            /\ job'[i][1] \in ReportFiles /\ job'[i][2] = views[job'[i][1]]
            /\ job'[i][1] # "report"
    <3>1. \A i \in DOMAIN job' : i + 1 # 1
      BY <1>3, <1>4
    <3> QED BY <1>5, <1>8, <3>1 DEF Calibrating
  <2>6. Calibrating(views)'
    BY <1>8, <2>4, <2>5 DEF Calibrating
  <2> QED BY <2>6 DEF StoryInv
<1> QED BY <1>7, <1>8 DEF StoryInv

(***************************************************************************)
(* The calibration report and the joined table tell the same story, for    *)
(* every number of companies, every labelling and every death of a         *)
(* command between two files (calibration.py:177-238, 267-268).            *)
(***************************************************************************)
THEOREM CalibrationStory == Spec => []CalibrationTellsOneStory
<1>1. Init => StoryInv
  BY FileNames DEF Init, StoryInv, Recounted, StoryTrue
<1>2. WritesInv /\ RecordsInv /\ StoryInv /\ [Next]_vars => StoryInv'
  <2> SUFFICES ASSUME WritesInv, RecordsInv, StoryInv, [Next]_vars PROVE StoryInv'
    OBVIOUS
  <2>1. CASE UNCHANGED <<job, files, torn>>
    BY <2>1 DEF StoryInv, Recounted, StoryTrue, Calibrating
  <2>2. UNCHANGED <<job, files, torn>> \/ Evaluate \/ Calibrate \/ Publish \/ Crash
    BY DEF Next, vars, Discover, Deduplicate, Research, Extract, Snapshot, CompleteBatch, Search
  <2> QED BY <2>1, <2>2, StoryEvaluate, StoryCalibrate, StoryPublish, StoryCrash
<1>3. StoryInv => CalibrationTellsOneStory
  BY StoryTold DEF CalibrationTellsOneStory, Recounted, StoryTrue, OneStory
<1> QED BY <1>1, <1>2, <1>3, WritesStay, RecordsStay, PTL DEF Spec

-----------------------------------------------------------------------------
(***************************************************************************)
(* Contacts.                                                               *)
(***************************************************************************)

Rankings == (0 .. 3) \X (0 .. 7)
Contact == [key : Nat, name : Nat, rank : Rankings]

LEMMA FirstFunctionIs ==
    ASSUME NEW title, NEW n \in Nat, NEW list, DOMAIN list = 1 .. n
    PROVE  FirstFunction(title, list) \in ToSet(list) \cup {"none"}
<1> DEFINE named == {i \in DOMAIN list : list[i] \in title}
           Less == {x \in named \X named : x[1] < x[2]}
<1>1. FirstFunction(title, list) = IF named = {} THEN "none"
                                   ELSE list[CHOOSE i \in named : \A j \in named : i <= j]
  BY DEF FirstFunction
<1>2. named \subseteq 1 .. n
  OBVIOUS
<1>3. IsFiniteSet(named)
  <2>1. 1 \in Int /\ n \in Int
    OBVIOUS
  <2>2. IsFiniteSet(1 .. n)
    BY <2>1, FS_Interval
  <2> HIDE DEF named
  <2> QED BY <2>2, <1>2, FS_Subset
<1>4. named \subseteq DOMAIN list
  OBVIOUS
<1> HIDE DEF named
<1>5. \A i, j \in named : <<i, j>> \in Less <=> i < j
  OBVIOUS
<1> HIDE DEF Less
<1>6. IsOrder(Less, named)
  BY <1>2, <1>5 DEF IsOrder
<1>7. CASE named = {}
  BY <1>1, <1>7
<1>8. CASE named # {}
  <2>1. PICK i \in named : \A j \in named \ {i} : <<i, j>> \in Less
    BY <1>3, <1>6, <1>8, FirstExists
  <2>2. \A j \in named : i <= j
    <3> SUFFICES ASSUME NEW j \in named PROVE i <= j
      OBVIOUS
    <3>1. i \in Int /\ j \in Int
      BY <1>2
    <3>2. i = j \/ i < j
      BY <1>5, <2>1
    <3> QED BY <3>1, <3>2
  <2>3. (CHOOSE m \in named : \A j \in named : m <= j) \in named
    BY <2>2
  <2> QED BY <1>1, <1>4, <1>8, <2>3 DEF ToSet
<1> QED BY <1>7, <1>8

LEMMA Relevances ==
    /\ DOMAIN CoreFunction = 1 .. 5 /\ DOMAIN DeputyFunction = 1 .. 7
    /\ ToSet(CoreFunction) \subseteq DOMAIN Relevance
    /\ ToSet(DeputyFunction) \subseteq DOMAIN Relevance
    /\ \A f \in DOMAIN Relevance : Relevance[f] \in 0 .. 7
<1> DEFINE more == <<"branch", "regional">>
           Words == {"inside sales", "estimating", "sales", "operations", "commercial",
                     "branch", "regional"}
<1>1. DOMAIN CoreFunction = 1 .. 5 /\ CoreFunction \in Seq(Words) /\ Len(CoreFunction) = 5
  <2>1. DOMAIN CoreFunction = 1 .. 5
    BY DEF CoreFunction
  <2>2. CoreFunction \in Seq(Words)
    BY DEF CoreFunction
  <2>3. Len(CoreFunction) = 5
    BY DEF CoreFunction
  <2> QED BY <2>1, <2>2, <2>3
<1>2. DeputyFunction = CoreFunction \o more
  BY DEF DeputyFunction
<1>3. more \in Seq(Words) /\ Len(more) = 2
  <2>1. more \in Seq(Words)
    OBVIOUS
  <2>2. Len(more) = 2
    OBVIOUS
  <2> QED BY <2>1, <2>2
<1> HIDE DEF more, Words
<1>4. /\ DeputyFunction \in Seq(Words) /\ Len(DeputyFunction) = 7
      /\ \A i \in 1 .. 5 : DeputyFunction[i] = CoreFunction[i]
  <2>1. /\ DeputyFunction \in Seq(Words)
        /\ Len(DeputyFunction) = Len(CoreFunction) + Len(more)
        /\ \A i \in 1 .. Len(CoreFunction) + Len(more) : DeputyFunction[i] =
              IF i <= Len(CoreFunction) THEN CoreFunction[i] ELSE more[i - Len(CoreFunction)]
    BY <1>1, <1>2, <1>3, ConcatProperties
  <2>2. \A i \in 1 .. 5 : DeputyFunction[i] = CoreFunction[i]
    BY <1>1, <1>3, <2>1
  <2> QED BY <1>1, <1>3, <2>1, <2>2
<1>5. DOMAIN DeputyFunction = 1 .. 7
  BY <1>4
<1>6. ToSet(CoreFunction) \subseteq ToSet(DeputyFunction)
  <2>1. \A i \in 1 .. 5 : i \in 1 .. 7
    OBVIOUS
  <2> QED BY <1>1, <1>4, <1>5, <2>1 DEF ToSet
<1>7. DOMAIN Relevance = ToSet(DeputyFunction)
  BY DEF Relevance
<1>8. ASSUME NEW f \in DOMAIN Relevance PROVE Relevance[f] \in 0 .. 7
  BY <1>7 DEF Relevance
<1> QED BY <1>1, <1>5, <1>6, <1>7, <1>8

LEMMA TitleRanks == \A title : RankTitle(title) \in Rankings
<1> SUFFICES ASSUME NEW title PROVE RankTitle(title) \in Rankings
  OBVIOUS
<1> DEFINE core == FirstFunction(title, CoreFunction)
           deputy == FirstFunction(title, DeputyFunction)
<1>1. core \in ToSet(CoreFunction) \cup {"none"}
  <2>1. 5 \in Nat /\ DOMAIN CoreFunction = 1 .. 5
    BY Relevances
  <2> QED BY <2>1, FirstFunctionIs
<1>2. deputy \in ToSet(DeputyFunction) \cup {"none"}
  <2>1. 7 \in Nat /\ DOMAIN DeputyFunction = 1 .. 7
    BY Relevances
  <2> QED BY <2>1, FirstFunctionIs
<1>3. core # "none" => Relevance[core] \in 0 .. 7
  BY <1>1, Relevances
<1>4. deputy # "none" => Relevance[deputy] \in 0 .. 7
  BY <1>2, Relevances
<1>5. \/ RankTitle(title) = <<1, 7>>
      \/ core # "none" /\ RankTitle(title) = <<2, Relevance[core]>>
      \/ deputy # "none" /\ RankTitle(title) = <<3, Relevance[deputy]>>
      \/ RankTitle(title) = <<0, 7>>
  BY DEF RankTitle, UnknownRelevance
<1> HIDE DEF core, deputy
<1>6. \A r \in 0 .. 3, v \in 0 .. 7 : <<r, v>> \in Rankings
  BY DEF Rankings
<1>7. {0, 1, 2, 3} \subseteq 0 .. 3 /\ 7 \in 0 .. 7
  OBVIOUS
<1> QED BY <1>3, <1>4, <1>5, <1>6, <1>7

LEMMA RankingsOrdered ==
    ASSUME NEW S \in SUBSET Rankings, S # {}
    PROVE  \E r \in S : \A s \in S \ {r} : Sooner(r, s)
<1> DEFINE R == {x \in S \X S : Sooner(x[1], x[2])}
<1>1. \A r, s \in S : <<r, s>> \in R <=> Sooner(r, s)
  OBVIOUS
<1>2. \A r \in S : r[1] \in Int /\ r[2] \in Int /\ r = <<r[1], r[2]>>
  BY DEF Rankings
<1> HIDE DEF R
<1>3. IsOrder(R, S)
  <2>1. \A r \in S : ~ Sooner(r, r)
    BY <1>2 DEF Sooner
  <2>2. \A r, s, t \in S : Sooner(r, s) /\ Sooner(s, t) => Sooner(r, t)
    BY <1>2 DEF Sooner
  <2>3. \A r, s \in S : r # s => Sooner(r, s) \/ Sooner(s, r)
    <3> SUFFICES ASSUME NEW r \in S, NEW s \in S, r # s PROVE Sooner(r, s) \/ Sooner(s, r)
      OBVIOUS
    <3>1. r[1] # s[1] \/ r[2] # s[2]
      BY <1>2
    <3> QED BY <1>2, <3>1 DEF Sooner
  <2> QED BY <1>1, <2>1, <2>2, <2>3 DEF IsOrder
<1>4. IsFiniteSet(S)
  <2>1. 0 \in Int /\ 3 \in Int /\ 7 \in Int
    OBVIOUS
  <2>2. IsFiniteSet(0 .. 3) /\ IsFiniteSet(0 .. 7)
    BY ONLY <2>1, FS_Interval
  <2>3. IsFiniteSet(Rankings)
    BY <2>2, FS_Product DEF Rankings
  <2> QED BY <2>3, FS_Subset
<1>5. \E r \in S : \A s \in S \ {r} : <<r, s>> \in R
  BY <1>3, <1>4, FirstExists
<1> QED BY <1>1, <1>5

LEMMA CandidateIs ==
    ASSUME NEW person \in Result, NEW company, NEW hasDomain \in BOOLEAN,
           IsCandidate(person, company, hasDomain)
    PROVE  Candidate(person, company, hasDomain) \in Contact
<1> DEFINE ranks == Ranks(person, company)
           rank == CHOOSE r \in ranks : \A s \in ranks \ {r} : Sooner(r, s)
<1>1. ranks # {} /\ ranks \subseteq Rankings
  BY TitleRanks DEF IsCandidate, Ranks
<1>2. \E r \in ranks : \A s \in ranks \ {r} : Sooner(r, s)
  BY <1>1, RankingsOrdered
<1>3. rank \in Rankings
  <2> HIDE DEF ranks
  <2>1. rank \in ranks
    BY <1>2
  <2> HIDE DEF rank
  <2> QED BY <1>1, <2>1
<1>4. person.name \in Nat /\ person.profile \in Nat
  BY DEF Result
<1>5. Identity(person, hasDomain) \in Nat
  BY <1>4 DEF Identity, Nothing
<1>6. Candidate(person, company, hasDomain) =
         [key |-> Identity(person, hasDomain), name |-> person.name, rank |-> rank]
  BY DEF Candidate
<1> HIDE DEF rank
<1> QED BY <1>3, <1>4, <1>5, <1>6 DEF Contact

LEMMA OrderFacts ==
    ASSUME NEW a \in Contact, NEW b \in Contact, NEW c \in Contact
    PROVE  /\ ~ (Order(a, b) /\ Order(b, a))
           /\ Order(a, b) /\ ~ Order(c, b) => Order(a, c)
           /\ ~ Order(b, a) /\ Order(b, c) => Order(a, c)
           /\ a.key # b.key => Order(a, b) \/ Order(b, a)
<1> DEFINE Types(x) == /\ x.rank[1] \in Int /\ x.rank[2] \in Int /\ x.rank = <<x.rank[1], x.rank[2]>>
                       /\ x.name \in Int /\ x.key \in Int
           Same(x, y) == x.rank[1] = y.rank[1] /\ x.rank[2] = y.rank[2]
           Earlier2(x, y) ==
              \/ x.rank[1] < y.rank[1]
              \/ x.rank[1] = y.rank[1] /\ x.rank[2] < y.rank[2]
              \/ Same(x, y) /\ x.name < y.name
              \/ Same(x, y) /\ x.name = y.name /\ x.key < y.key
<1>1. ASSUME NEW x \in Contact PROVE Types(x)
  <2>1. x.rank \in Rankings /\ x.name \in Nat /\ x.key \in Nat
    BY DEF Contact
  <2>2. x.rank[1] \in 0 .. 3 /\ x.rank[2] \in 0 .. 7 /\ x.rank = <<x.rank[1], x.rank[2]>>
    BY <2>1 DEF Rankings
  <2> QED BY <2>1, <2>2
<1>2. ASSUME NEW x \in Contact, NEW y \in Contact
      PROVE  Order(x, y) <=> Earlier2(x, y)
  <2>1. Types(x) /\ Types(y)
    BY <1>1
  <2>2. x.rank = y.rank <=> Same(x, y)
    BY <2>1
  <2>3. Sooner(x.rank, y.rank)
           <=> (x.rank[1] < y.rank[1] \/ (x.rank[1] = y.rank[1] /\ x.rank[2] < y.rank[2]))
    BY DEF Sooner
  <2> QED BY <2>2, <2>3 DEF Order
<1>3. Types(a) /\ Types(b) /\ Types(c)
  BY <1>1
<1>4. ~ (Order(a, b) /\ Order(b, a))
  <2>1. ~ (Earlier2(a, b) /\ Earlier2(b, a))
    BY <1>3
  <2> QED BY <2>1, <1>2
<1>5. Order(a, b) /\ ~ Order(c, b) => Order(a, c)
  <2>1. Earlier2(a, b) /\ ~ Earlier2(c, b) => Earlier2(a, c)
    BY <1>3
  <2> QED BY <2>1, <1>2
<1>6. ~ Order(b, a) /\ Order(b, c) => Order(a, c)
  <2>1. ~ Earlier2(b, a) /\ Earlier2(b, c) => Earlier2(a, c)
    BY <1>3
  <2> QED BY <2>1, <1>2
<1>7. a.key # b.key => Order(a, b) \/ Order(b, a)
  <2>1. a.key # b.key => Earlier2(a, b) \/ Earlier2(b, a)
    BY <1>3
  <2> QED BY <2>1, <1>2
<1> QED BY <1>4, <1>5, <1>6, <1>7

\* The candidates of a search.
LEMMA CandidatesAre ==
    ASSUME NEW results \in Searches, NEW company, NEW hasDomain \in BOOLEAN
    PROVE  LET found == Candidates(results, company, hasDomain) IN
           /\ DOMAIN found \subseteq Nat /\ IsFiniteSet(DOMAIN found)
           /\ \A i \in DOMAIN found : found[i] \in Contact
<1> DEFINE most == IF Len(results) < MaxResults THEN Len(results) ELSE MaxResults
           places == {i \in 1 .. most : IsCandidate(results[i], company, hasDomain)}
           found == Candidates(results, company, hasDomain)
<1>1. results \in Seq(Result) /\ MaxResults \in Nat /\ Len(results) \in Nat
  BY InputsAssumption DEF InputsAssumption
<1>2. most \in Nat /\ most <= Len(results)
  BY <1>1
<1>3. /\ DOMAIN found = places
      /\ \A i \in places : found[i] = Candidate(results[i], company, hasDomain)
  BY DEF Candidates
<1> HIDE DEF most, found
<1>4. IsFiniteSet(1 .. most)
  <2>1. 1 \in Int /\ most \in Int
    BY <1>2
  <2> QED BY <2>1, FS_Interval
<1>5. \A i \in 1 .. most : results[i] \in Result
  BY <1>1, <1>2
<1>6. \A i \in DOMAIN found : found[i] \in Contact
  BY <1>3, <1>5, CandidateIs
<1>7. DOMAIN found \subseteq 1 .. most /\ DOMAIN found \subseteq Nat
  BY <1>2, <1>3
<1>8. IsFiniteSet(DOMAIN found)
  BY <1>4, <1>7, FS_Subset
<1> QED BY <1>6, <1>7, <1>8 DEF found

Ahead(f, S) ==
    {x \in S \X S : Order(f[x[1]], f[x[2]]) \/ (~ Order(f[x[2]], f[x[1]]) /\ x[1] < x[2])}

\* What is sorted is there, and nothing comes after what it is ahead of.
LEMMA InOrderIs ==
    ASSUME NEW found, DOMAIN found \subseteq Nat, IsFiniteSet(DOMAIN found),
           \A i \in DOMAIN found : found[i] \in Contact
    PROVE  LET ordered == InOrder(found) IN
           /\ ordered \in Seq(ToSet(found))
           /\ \A i \in DOMAIN found : \E n \in DOMAIN ordered : ordered[n] = found[i]
           /\ \A m, n \in DOMAIN ordered : m < n => ~ Order(ordered[n], ordered[m])
<1> DEFINE S == DOMAIN found
           R == Ahead(found, S)
           N == Cardinality(S)
           ordered == InOrder(found)
           Place(i) == Cardinality({j \in S :
              Order(found[j], found[i]) \/ (~ Order(found[i], found[j]) /\ j < i)})
           L == [n \in 1 .. N |-> CHOOSE i \in S : Place(i) = n - 1]
<1>1. N \in Nat
  BY FS_CardinalityType
<1>2. \A i, j \in S : <<i, j>> \in R <=>
         (Order(found[i], found[j]) \/ (~ Order(found[j], found[i]) /\ i < j))
  BY DEF Ahead
<1>3. DOMAIN ordered = 1 .. N /\ \A n \in 1 .. N : ordered[n] = found[L[n]]
  BY DEF InOrder
<1> HIDE DEF S, ordered
<1>4. IsOrder(R, S)
  <2>1. ASSUME NEW i \in S PROVE <<i, i>> \notin R
    <3>1. i \in Nat /\ found[i] \in Contact
      BY DEF S
    <3> HIDE DEF R
    <3> QED BY <3>1, <1>2, OrderFacts
  <2>2. ASSUME NEW i \in S, NEW j \in S, NEW k \in S, <<i, j>> \in R, <<j, k>> \in R
        PROVE  <<i, k>> \in R
    <3> DEFINE a == found[i]  b == found[j]  c == found[k]
    <3>1. i \in Nat /\ j \in Nat /\ k \in Nat /\ a \in Contact /\ b \in Contact /\ c \in Contact
      BY DEF S
    <3> HIDE DEF a, b, c, R
    <3>2. /\ ~ (Order(a, c) /\ Order(c, a))
          /\ Order(a, b) /\ ~ Order(c, b) => Order(a, c)
          /\ ~ Order(b, a) /\ Order(b, c) => Order(a, c)
          /\ Order(c, a) /\ ~ Order(b, a) => Order(c, b)
          /\ ~ (Order(c, b) /\ Order(b, c))
      BY <3>1, OrderFacts
    <3>3. /\ Order(a, b) \/ (~ Order(b, a) /\ i < j)
          /\ Order(b, c) \/ (~ Order(c, b) /\ j < k)
      BY <1>2, <2>2 DEF a, b, c
    <3>4. Order(a, c) \/ (~ Order(c, a) /\ i < k)
      <4>1. CASE Order(a, b)
        BY <3>2, <3>3, <4>1
      <4>2. CASE ~ Order(a, b) /\ Order(b, c)
        BY <3>2, <3>3, <4>2
      <4>3. CASE ~ Order(a, b) /\ ~ Order(b, c)
        BY <3>1, <3>2, <3>3, <4>3
      <4> QED BY <4>1, <4>2, <4>3
    <3> QED BY <3>4, <1>2 DEF a, b, c
  <2>3. ASSUME NEW i \in S, NEW j \in S, i # j PROVE <<i, j>> \in R \/ <<j, i>> \in R
    <3>1. i < j \/ j < i
      BY <2>3 DEF S
    <3> HIDE DEF R
    <3> QED BY <3>1, <1>2
  <2> HIDE DEF R
  <2> QED BY <2>1, <2>2, <2>3 DEF IsOrder
<1>5. \A i \in S : Place(i) = Cardinality(Before(R, S, i))
  <2> HIDE DEF R
  <2>1. \A i \in S : {j \in S :
              Order(found[j], found[i]) \/ (~ Order(found[i], found[j]) /\ j < i)} = Before(R, S, i)
    BY <1>2 DEF Before
  <2> QED BY <2>1
<1> HIDE DEF R, Place, N
<1>6. ASSUME NEW n \in 1 .. N, NEW x \in S, Cardinality(Before(R, S, x)) = n - 1
      PROVE  L[n] \in S /\ Cardinality(Before(R, S, L[n])) = n - 1
  <2>1. \E i \in S : Place(i) = n - 1
    BY <1>5, <1>6
  <2>2. L[n] = CHOOSE i \in S : Place(i) = n - 1
    OBVIOUS
  <2> HIDE DEF L
  <2>3. L[n] \in S /\ Place(L[n]) = n - 1
    BY <2>1, <2>2
  <2> QED BY <2>3, <1>5
<1> HIDE DEF L
<1>7. IsFiniteSet(S)
  BY DEF S
<1>8. /\ \A n \in 1 .. N : L[n] \in S
      /\ \A i \in S : \E n \in 1 .. N : L[n] = i
      /\ \A m, n \in 1 .. N : m < n => <<L[m], L[n]>> \in R /\ L[m] # L[n]
  BY <1>4, <1>6, <1>7, Sorted DEF N
<1>9. ordered \in Seq(ToSet(found))
  <2>1. \A n \in 1 .. N : ordered[n] \in ToSet(found)
    BY <1>3, <1>8 DEF ToSet, S
  <2>2. ordered = [n \in 1 .. N |-> ordered[n]]
    BY <1>3 DEF ordered, InOrder
  <2> QED BY <1>1, <2>1, <2>2, SeqDef
<1>10. \A i \in S : \E n \in DOMAIN ordered : ordered[n] = found[i]
  BY <1>3, <1>8
<1>11. ASSUME NEW m \in DOMAIN ordered, NEW n \in DOMAIN ordered, m < n
       PROVE  ~ Order(ordered[n], ordered[m])
  <2>1. <<L[m], L[n]>> \in R /\ L[m] \in S /\ L[n] \in S
    BY <1>3, <1>8, <1>11
  <2>2. found[L[m]] \in Contact /\ found[L[n]] \in Contact
    BY <2>1 DEF S
  <2>3. ~ Order(found[L[n]], found[L[m]])
    BY <1>2, <2>1, <2>2, OrderFacts
  <2> QED BY <2>3, <1>3
<1> QED BY <1>9, <1>10, <1>11 DEF ordered, S

Kept(kept, c) ==
    IF \E i \in DOMAIN kept : kept[i].key = c.key THEN kept ELSE Append(kept, c)

FirstsOf(o) ==
    CHOOSE g : g = [s \in SUBSET DOMAIN o |->
                       IF s = {} THEN <<>> ELSE Kept(g[s \ {Max(s)}], o[Max(s)])]

LEMMA FirstsAreFold == \A o : FirstOfEach(o) = FirstsOf(o)[DOMAIN o]
  BY DEF FirstOfEach, FoldLeft, MapThenFoldSet, FirstsOf, Kept

LEMMA MaxIs ==
    ASSUME NEW s, IsFiniteSet(s), s # {}, s \subseteq Nat
    PROVE  Max(s) \in s /\ \A i \in s : Max(s) >= i
<1> DEFINE R == {x \in s \X s : x[2] < x[1]}
<1>1. \A i, j \in s : <<i, j>> \in R <=> j < i
  OBVIOUS
<1> HIDE DEF R
<1>2. IsOrder(R, s)
  BY <1>1 DEF IsOrder
<1>3. PICK i \in s : \A j \in s \ {i} : <<i, j>> \in R
  BY <1>2, FirstExists
<1>4. \A j \in s : i >= j
  <2> SUFFICES ASSUME NEW j \in s PROVE i >= j
    OBVIOUS
  <2>1. i = j \/ j < i
    BY <1>1, <1>3
  <2>2. i \in Nat /\ j \in Nat
    OBVIOUS
  <2> QED BY <2>1, <2>2
<1> QED BY <1>3, <1>4 DEF Max

LEMMA KeptIs ==
    ASSUME NEW V, NEW kept \in Seq(V), NEW c \in V
    PROVE  Kept(kept, c) \in Seq(V)
  BY DEF Kept

\* The list that is kept of the first n of an order.
LEMMA FirstsExist ==
    ASSUME NEW V, NEW o \in Seq(V)
    PROVE  LET K == [n \in 0 .. Len(o) |-> FirstsOf(o)[1 .. n]] IN
           /\ FirstOfEach(o) = K[Len(o)]
           /\ K[0] = <<>>
           /\ \A n \in 0 .. Len(o) - 1 : K[n + 1] = Kept(K[n], o[n + 1])
           /\ \A n \in 0 .. Len(o) : K[n] \in Seq(V)
<1> DEFINE S == DOMAIN o
           pick == [s \in SUBSET S |-> Max(s)]
           step == [x \in S \X Seq(V) |-> Kept(x[2], o[x[1]])]
           F == FirstsOf(o)
<1>1. Len(o) \in Nat /\ S = 1 .. Len(o) /\ \A i \in S : o[i] \in V
  OBVIOUS
<1>2. IsFiniteSet(S)
  <2>1. 1 \in Int /\ Len(o) \in Int
    BY <1>1
  <2> HIDE DEF S
  <2> QED BY <2>1, <1>1, FS_Interval
<1> HIDE DEF S
<1>3. ASSUME NEW s \in SUBSET S, s # {} PROVE Max(s) \in s /\ \A i \in s : Max(s) >= i
  <2>1. IsFiniteSet(s)
    BY <1>2, FS_Subset
  <2>2. S \subseteq Nat
    BY <1>1
  <2>3. s \subseteq Nat
    BY <2>2
  <2> QED BY <2>1, <2>3, <1>3, MaxIs
<1>4. step \in [S \X Seq(V) -> Seq(V)]
  <2>1. \A x \in S \X Seq(V) : Kept(x[2], o[x[1]]) \in Seq(V)
    <3> SUFFICES ASSUME NEW x \in S \X Seq(V) PROVE Kept(x[2], o[x[1]]) \in Seq(V)
      OBVIOUS
    <3>1. x[2] \in Seq(V) /\ o[x[1]] \in V
      BY <1>1
    <3> QED BY <3>1, KeptIs
  <2> QED BY <2>1
<1>5. \A i \in S, k \in Seq(V) : step[<<i, k>>] = Kept(k, o[i])
  OBVIOUS
<1>6. \A s \in SUBSET S : s # {} => pick[s] \in s /\ pick[s] = Max(s)
  BY <1>3
<1>7. <<>> \in Seq(V)
  OBVIOUS
<1> HIDE DEF pick, step
<1>8. PICK g \in [SUBSET S -> Seq(V)] : IsFold(g, S, pick, step, <<>>)
  BY <1>2, <1>4, <1>6, <1>7, FoldExists
<1>9. \A s \in SUBSET S : g[s] = IF s = {} THEN <<>> ELSE Kept(g[s \ {Max(s)}], o[Max(s)])
  <2> SUFFICES ASSUME NEW s \in SUBSET S, s # {}
               PROVE  g[s] = Kept(g[s \ {Max(s)}], o[Max(s)])
    BY <1>8 DEF IsFold
  <2>1. pick[s] = Max(s) /\ Max(s) \in S /\ s \ {Max(s)} \in SUBSET S
    BY <1>6
  <2>2. g[s \ {Max(s)}] \in Seq(V)
    BY <2>1, <1>8
  <2>3. g[s] = step[<<Max(s), g[s \ {Max(s)}]>>]
    BY <1>8, <2>1 DEF IsFold
  <2> QED BY <2>1, <2>2, <2>3, <1>5
<1>10. g = [s \in SUBSET S |-> IF s = {} THEN <<>> ELSE Kept(g[s \ {Max(s)}], o[Max(s)])]
  BY <1>8, <1>9
<1>11. F = [s \in SUBSET S |-> IF s = {} THEN <<>> ELSE Kept(F[s \ {Max(s)}], o[Max(s)])]
  BY <1>10 DEF FirstsOf, S
<1> HIDE DEF F
<1>12. F[{}] = <<>>
       /\ \A s \in SUBSET S : s # {} => F[s] = Kept(F[s \ {Max(s)}], o[Max(s)])
  BY <1>11
<1> DEFINE K == [n \in 0 .. Len(o) |-> F[1 .. n]]
<1>13. K[Len(o)] = F[S] /\ K[0] = <<>>
  <2>1. 1 .. 0 = {} /\ 0 \in 0 .. Len(o) /\ Len(o) \in 0 .. Len(o)
    BY <1>1
  <2> QED BY <2>1, <1>1, <1>12
<1>14. ASSUME NEW n \in 0 .. Len(o) - 1 PROVE K[n + 1] = Kept(K[n], o[n + 1])
  <2> DEFINE s == 1 .. n + 1
  <2>0. n \in Int /\ 0 <= n /\ n + 1 <= Len(o) /\ Len(o) \in Int
    BY <1>1
  <2>1. s \in SUBSET S /\ s # {} /\ n + 1 \in s /\ \A i \in s : i \in Int /\ i <= n + 1
    <3>1. n + 1 \in s
      BY <2>0
    <3>2. \A i \in s : i \in Int /\ i <= n + 1
      BY <2>0
    <3>3. \A i \in s : i \in 1 .. Len(o)
      BY <2>0
    <3> HIDE DEF s
    <3> QED BY <3>1, <3>2, <3>3, <1>1
  <2>2. Max(s) = n + 1
    <3>1. Max(s) \in s /\ \A i \in s : Max(s) >= i
      BY <2>1, <1>3
    <3> HIDE DEF s
    <3>2. Max(s) \in Int /\ n + 1 \in Int
      BY <2>0, <2>1, <3>1
    <3> QED BY <2>1, <3>1, <3>2
  <2>3. s \ {n + 1} = 1 .. n
    BY <1>1
  <2>4. F[s] = Kept(F[1 .. n], o[n + 1])
    <3> HIDE DEF s
    <3> QED BY <2>1, <2>2, <2>3, <1>12
  <2>5. K[n + 1] = F[s] /\ K[n] = F[1 .. n]
    BY <1>1
  <2> QED BY <2>4, <2>5
<1>15. \A n \in 0 .. Len(o) : K[n] \in Seq(V)
  <2> DEFINE A == {n \in Nat : n <= Len(o) => K[n] \in Seq(V)}
  <2>1. 0 \in A
    BY <1>7, <1>13
  <2>2. ASSUME NEW n \in Nat, n \in A PROVE n + 1 \in A
    <3> SUFFICES ASSUME n + 1 <= Len(o) PROVE K[n + 1] \in Seq(V)
      BY <2>2
    <3>0. Len(o) \in Nat /\ n <= Len(o)
      BY <1>1
    <3>1. n \in 0 .. Len(o) - 1 /\ n + 1 \in 1 .. Len(o)
      BY <3>0
    <3> HIDE DEF K
    <3>2. K[n] \in Seq(V)
      BY <2>2, <3>0
    <3>3. K[n + 1] = Kept(K[n], o[n + 1])
      BY <1>14, <3>1
    <3>4. o[n + 1] \in V
      BY <1>1, <3>1
    <3> QED BY <3>2, <3>3, <3>4, KeptIs
  <2> HIDE DEF A
  <2>3. \A n \in Nat : n \in A
    BY <2>1, <2>2, NaturalsUpward
  <2>4. \A n \in 0 .. Len(o) : n \in Nat /\ n <= Len(o)
    BY <1>1
  <2>5. \A n \in Nat : n <= Len(o) => K[n] \in Seq(V)
    BY <2>3 DEF A
  <2> HIDE DEF K
  <2> QED BY <2>4, <2>5
<1>16. FirstOfEach(o) = F[S]
  BY FirstsAreFold DEF F, S
<1> HIDE DEF K
<1> QED BY <1>13, <1>14, <1>15, <1>16 DEF K, F

\* What is kept of the first n of an order: each key once, in order, and of
\* every key the first.
KeptOf(o, n, k) ==
    /\ \A i, j \in DOMAIN k : k[i].key = k[j].key => i = j
    /\ \A i, j \in DOMAIN k : i < j => ~ Order(k[j], k[i])
    /\ \A i \in DOMAIN k, m \in DOMAIN o : m > n => ~ Order(o[m], k[i])
    /\ \A m \in DOMAIN o : m <= n =>
          \E i \in DOMAIN k : k[i].key = o[m].key /\ ~ Order(o[m], k[i])

LEMMA KeepOneMore ==
    ASSUME NEW V \in SUBSET Contact, NEW o \in Seq(V),
           \A m, n \in DOMAIN o : m < n => ~ Order(o[n], o[m]),
           NEW n \in Nat, n + 1 \in DOMAIN o,
           NEW k \in Seq(V), KeptOf(o, n, k)
    PROVE  KeptOf(o, n + 1, Kept(k, o[n + 1]))
<1> DEFINE c == o[n + 1]
<1>1. c \in Contact /\ \A m \in DOMAIN o : m \in Int
  OBVIOUS
<1>2. ~ Order(c, c)
  BY <1>1, OrderFacts
<1>3. ASSUME NEW m \in DOMAIN o PROVE (m > n + 1 => m > n) /\ (m <= n + 1 => m <= n \/ m = n + 1)
  BY <1>1
<1>4. CASE \E i \in DOMAIN k : k[i].key = c.key
  <2>1. Kept(k, c) = k
    BY <1>4 DEF Kept
  <2>2. PICK i \in DOMAIN k : k[i].key = c.key
    BY <1>4
  <2>3. n + 1 > n
    OBVIOUS
  <2>4. ~ Order(c, k[i])
    BY <2>3 DEF KeptOf
  <2>5. ASSUME NEW m \in DOMAIN o, m <= n + 1
        PROVE  \E j \in DOMAIN k : k[j].key = o[m].key /\ ~ Order(o[m], k[j])
    <3>1. CASE m <= n
      BY <3>1 DEF KeptOf
    <3>2. CASE m = n + 1
      BY <3>2, <2>2, <2>4
    <3> QED BY <3>1, <3>2, <1>3, <2>5
  <2>6. KeptOf(o, n + 1, k)
    BY <1>3, <2>5 DEF KeptOf
  <2> QED BY <2>1, <2>6
<1>5. CASE ~ \E i \in DOMAIN k : k[i].key = c.key
  <2> DEFINE l == Append(k, c)
  <2>1. Kept(k, c) = l
    BY <1>5 DEF Kept
  <2>2. /\ DOMAIN k = 1 .. Len(k) /\ Len(k) \in Nat
        /\ DOMAIN l = 1 .. Len(k) + 1
        /\ l[Len(k) + 1] = c
        /\ \A i \in DOMAIN k : l[i] = k[i]
    <3>1. l \in Seq(V) /\ Len(l) = Len(k) + 1
      OBVIOUS
    <3>2. l[Len(k) + 1] = c
      OBVIOUS
    <3>3. \A i \in 1 .. Len(k) : l[i] = k[i]
      OBVIOUS
    <3> QED BY <3>1, <3>2, <3>3
  <2> HIDE DEF l, c
  <2>3. \A i \in DOMAIN l : (i \in DOMAIN k /\ l[i] = k[i] /\ i <= Len(k)) \/ (i = Len(k) + 1 /\ l[i] = c)
    BY <2>2
  <2>4. ASSUME NEW i \in DOMAIN l, NEW j \in DOMAIN l, l[i].key = l[j].key PROVE i = j
    BY <1>5, <2>3, <2>4 DEF KeptOf
  <2>5. \A i \in DOMAIN k : ~ Order(c, k[i])
    <3>1. n + 1 > n
      OBVIOUS
    <3> QED BY <3>1 DEF KeptOf, c
  <2>6. ASSUME NEW i \in DOMAIN l, NEW j \in DOMAIN l, i < j PROVE ~ Order(l[j], l[i])
    <3>1. i \in DOMAIN k /\ l[i] = k[i]
      BY <2>2, <2>6
    <3> QED BY <2>3, <2>5, <2>6, <3>1 DEF KeptOf
  <2>7. ASSUME NEW i \in DOMAIN l, NEW m \in DOMAIN o, m > n + 1 PROVE ~ Order(o[m], l[i])
    <3>1. m > n
      BY <1>3, <2>7
    <3>2. ~ Order(o[m], c)
      BY <2>7 DEF c
    <3> QED BY <2>3, <3>1, <3>2 DEF KeptOf
  <2>8. ASSUME NEW m \in DOMAIN o, m <= n + 1
        PROVE  \E j \in DOMAIN l : l[j].key = o[m].key /\ ~ Order(o[m], l[j])
    <3>1. CASE m <= n
      <4>1. PICK i \in DOMAIN k : k[i].key = o[m].key /\ ~ Order(o[m], k[i])
        BY <3>1 DEF KeptOf
      <4>2. i \in DOMAIN l /\ l[i] = k[i]
        BY <2>2
      <4> QED BY <4>1, <4>2
    <3>2. CASE m = n + 1
      <4>1. Len(k) + 1 \in DOMAIN l /\ l[Len(k) + 1] = c /\ o[m] = c
        BY <2>2, <3>2 DEF c
      <4> QED BY <1>2, <4>1
    <3> QED BY <3>1, <3>2, <1>3, <2>8
  <2>9. KeptOf(o, n + 1, l)
    BY <2>4, <2>6, <2>7, <2>8 DEF KeptOf
  <2> QED BY <2>1, <2>9 DEF c
<1> QED BY <1>4, <1>5

LEMMA FirstsAreBest ==
    ASSUME NEW V \in SUBSET Contact, NEW o \in Seq(V),
           \A m, n \in DOMAIN o : m < n => ~ Order(o[n], o[m])
    PROVE  FirstOfEach(o) \in Seq(V) /\ KeptOf(o, Len(o), FirstOfEach(o))
<1> DEFINE K == [n \in 0 .. Len(o) |-> FirstsOf(o)[1 .. n]]
           A == {n \in Nat : n <= Len(o) => KeptOf(o, n, K[n])}
<1>1. Len(o) \in Nat /\ DOMAIN o = 1 .. Len(o)
  OBVIOUS
<1>2. /\ FirstOfEach(o) = K[Len(o)]
      /\ K[0] = <<>>
      /\ \A n \in 0 .. Len(o) - 1 : K[n + 1] = Kept(K[n], o[n + 1])
      /\ \A n \in 0 .. Len(o) : K[n] \in Seq(V)
  BY FirstsExist
<1> HIDE DEF K
<1>3. 0 \in A
  <2>1. \A m \in DOMAIN o : ~ (m <= 0)
    BY <1>1
  <2>2. DOMAIN K[0] = {}
    BY <1>2
  <2> QED BY <2>1, <2>2 DEF KeptOf
<1>4. ASSUME NEW n \in Nat, n \in A PROVE n + 1 \in A
  <2> SUFFICES ASSUME n + 1 <= Len(o) PROVE KeptOf(o, n + 1, K[n + 1])
    OBVIOUS
  <2>1. n <= Len(o) /\ n \in 0 .. Len(o) - 1 /\ n \in 0 .. Len(o) /\ n + 1 \in DOMAIN o
    BY <1>1
  <2>2. KeptOf(o, n, K[n])
    BY <1>4, <2>1
  <2>3. K[n] \in Seq(V) /\ K[n + 1] = Kept(K[n], o[n + 1])
    BY <1>2, <2>1
  <2> QED BY <2>1, <2>2, <2>3, KeepOneMore
<1> HIDE DEF A
<1>5. \A n \in Nat : n \in A
  BY <1>3, <1>4, NaturalsUpward
<1>6. KeptOf(o, Len(o), K[Len(o)])
  BY <1>1, <1>5 DEF A
<1>7. K[Len(o)] \in Seq(V)
  BY <1>1, <1>2
<1> QED BY <1>2, <1>6, <1>7

\* What select_contacts keeps.
BestOf(found, kept) ==
    /\ \A i, j \in DOMAIN kept : kept[i].key = kept[j].key => i = j
    /\ \A c \in found :
          \/ \E i \in DOMAIN kept : kept[i].key = c.key /\ ~ Order(c, kept[i])
          \/ /\ Len(kept) = ContactLimit
             /\ \A i \in DOMAIN kept : Order(kept[i], c)

LEMMA PrefixIs ==
    ASSUME NEW V, NEW k \in Seq(V), NEW most \in Nat, most <= Len(k)
    PROVE  /\ SubSeq(k, 1, most) \in Seq(V) /\ Len(SubSeq(k, 1, most)) = most
           /\ \A i \in DOMAIN k : i <= most => i \in DOMAIN SubSeq(k, 1, most)
           /\ \A i \in DOMAIN SubSeq(k, 1, most) :
                 /\ i \in DOMAIN k /\ SubSeq(k, 1, most)[i] = k[i]
                 /\ \A j \in DOMAIN k : ~ (j <= most) => i < j
<1> DEFINE kept == SubSeq(k, 1, most)
<1>1. DOMAIN k = 1 .. Len(k) /\ Len(k) \in Nat /\ \A i \in 1 .. Len(k) : k[i] \in V
  OBVIOUS
<1>2. \A i \in 1 .. most : i \in 1 .. Len(k)
  BY <1>1
<1>3. kept \in Seq(V) /\ Len(kept) = most
  OBVIOUS
<1>4. \A i \in 1 .. most : kept[i] = k[i]
  OBVIOUS
<1> HIDE DEF kept
<1>5. DOMAIN kept = 1 .. most
  BY <1>3
<1>6. \A i \in DOMAIN k : i <= most => i \in DOMAIN kept
  BY <1>1, <1>5
<1>7. \A i \in DOMAIN kept, j \in DOMAIN k : ~ (j <= most) => i < j
  BY <1>1, <1>5
<1> QED BY <1>1, <1>2, <1>3, <1>4, <1>5, <1>6, <1>7 DEF kept

LEMMA SelectedAreBest ==
    ASSUME NEW results \in Searches, NEW company, NEW hasDomain \in BOOLEAN
    PROVE  BestOf(ToSet(Candidates(results, company, hasDomain)),
                  Selected(results, company, hasDomain, ContactLimit))
<1> DEFINE found == Candidates(results, company, hasDomain)
           V == ToSet(found)
           o == InOrder(found)
           k == FirstOfEach(o)
           most == IF Len(k) < ContactLimit THEN Len(k) ELSE ContactLimit
           kept == SubSeq(k, 1, most)
<1>1. /\ DOMAIN found \subseteq Nat /\ IsFiniteSet(DOMAIN found)
      /\ \A i \in DOMAIN found : found[i] \in Contact
  BY CandidatesAre
<1>2. Selected(results, company, hasDomain, ContactLimit) = kept
  BY DEF Selected
<1> HIDE DEF found
<1>3. V \in SUBSET Contact
  BY <1>1 DEF ToSet
<1>4. /\ o \in Seq(V)
      /\ \A i \in DOMAIN found : \E n \in DOMAIN o : o[n] = found[i]
      /\ \A m, n \in DOMAIN o : m < n => ~ Order(o[n], o[m])
  BY <1>1, InOrderIs
<1>5. \A c \in V : \E n \in DOMAIN o : o[n] = c
  BY <1>4 DEF ToSet
<1> HIDE DEF V, o
<1>6. k \in Seq(V) /\ KeptOf(o, Len(o), k)
  BY <1>3, <1>4, FirstsAreBest
<1> HIDE DEF k
<1>7. Len(k) \in Nat /\ DOMAIN k = 1 .. Len(k) /\ ContactLimit \in Nat
  BY <1>6, InputsAssumption DEF InputsAssumption
<1>8. most \in Nat /\ most <= Len(k) /\ (most = Len(k) \/ most = ContactLimit)
  BY <1>7
<1> HIDE DEF most
<1>9. kept \in Seq(V) /\ Len(kept) = most
  BY <1>6, <1>8, PrefixIs
<1>10. /\ \A i \in DOMAIN k : i <= most => i \in DOMAIN kept
       /\ \A i \in DOMAIN kept :
             /\ i \in DOMAIN k /\ kept[i] = k[i]
             /\ \A j \in DOMAIN k : ~ (j <= most) => i < j
  BY <1>6, <1>8, PrefixIs
<1> HIDE DEF kept
<1>11. \A i, j \in DOMAIN kept : kept[i].key = kept[j].key => i = j
  BY <1>6, <1>10 DEF KeptOf
<1>12. ASSUME NEW c \in V
       PROVE  \/ \E i \in DOMAIN kept : kept[i].key = c.key /\ ~ Order(c, kept[i])
              \/ /\ Len(kept) = ContactLimit
                 /\ \A i \in DOMAIN kept : Order(kept[i], c)
  <2>1. PICK n \in DOMAIN o : o[n] = c
    BY <1>5
  <2>2. n <= Len(o)
    BY <1>4
  <2>3. PICK i \in DOMAIN k : k[i].key = c.key /\ ~ Order(c, k[i])
    BY <1>6, <2>1, <2>2 DEF KeptOf
  <2>4. CASE i <= most
    <3>1. i \in DOMAIN kept
      BY <1>10, <2>4
    <3> QED BY <1>10, <2>3, <3>1
  <2>5. CASE ~ (i <= most)
    <3>1. most = ContactLimit
      <4>1. i \in Int /\ i <= Len(k)
        BY <1>7
      <4> QED BY <4>1, <1>8, <2>5
    <3>2. ASSUME NEW j \in DOMAIN kept PROVE Order(kept[j], c)
      <4>1. j \in DOMAIN k /\ kept[j] = k[j] /\ j < i
        BY <1>10, <2>5
      <4>2. ~ Order(k[i], k[j]) /\ k[i].key # k[j].key
        BY <1>6, <4>1 DEF KeptOf
      <4>3. k[i] \in Contact /\ k[j] \in Contact /\ c \in Contact
        BY <1>3, <1>6, <4>1
      <4>4. Order(k[j], k[i])
        BY <4>2, <4>3, OrderFacts
      <4>5. Order(k[j], c)
        BY <2>3, <4>3, <4>4, OrderFacts
      <4> QED BY <4>1, <4>5
    <3> QED BY <1>9, <3>1, <3>2
  <2> QED BY <2>4, <2>5
<1>13. BestOf(V, kept)
  BY <1>11, <1>12 DEF BestOf
<1> QED BY <1>2, <1>13 DEF V, found, kept, most, k, o

\* The contacts are what one search gave for a company of these rows.
Chosen(kept, list) ==
    /\ kept.results \in Searches
    /\ \E c \in Deduplicated(list).companies :
          /\ c.id = kept.id
          /\ kept.kept = Selected(kept.results, c.name, c.domain # None, ContactLimit)

ContactsInv == contacts # NoFile => companies # NoFile /\ Chosen(contacts, rows)

LEMMA ContactsStay == Spec => []ContactsInv
<1>1. Init => ContactsInv
  BY DEF Init, ContactsInv
<1>2. Deduped /\ RecordsInv /\ ContactsInv /\ [Next]_vars => ContactsInv'
  <2> SUFFICES ASSUME Deduped, RecordsInv, ContactsInv, [Next]_vars PROVE ContactsInv'
    OBVIOUS
  <2>1. ASSUME UNCHANGED <<rows, companies, contacts>> PROVE ContactsInv'
    BY <2>1 DEF ContactsInv
  <2>2. ASSUME companies = NoFile, contacts' = contacts PROVE ContactsInv'
    BY <2>2 DEF ContactsInv
  <2>3. ASSUME NEW results \in Searches, Search(results) PROVE ContactsInv'
    <3>1. UNCHANGED <<rows, companies>> /\ files["evaluated"] # NoFile
      BY <2>3 DEF Search
    <3>2. PICK r \in files["evaluated"] :
             contacts' = [id |-> r.id, results |-> results,
                          kept |-> Selected(results, r.name, Company(r.id).domain # None,
                                            ContactLimit)]
      BY <2>3 DEF Search
    <3>3. companies # NoFile /\ companies = Deduplicated(rows) /\ IsRecord(r, rows)
      BY <3>1, <3>2 DEF RecordsInv, OfRows, Deduped, AreRecords
    <3>4. PICK c \in Deduplicated(rows).companies : c.id = r.id /\ c.name = r.name
      BY <3>3 DEF IsRecord
    <3>5. Company(r.id) = c
      BY <3>3, <3>4, CompanyIs
    <3>6. /\ contacts'.id = c.id /\ contacts'.results = results
          /\ contacts'.kept = Selected(results, c.name, c.domain # None, ContactLimit)
      BY <3>2, <3>4, <3>5
    <3>7. Chosen(contacts', rows)
      BY <3>4, <3>6 DEF Chosen
    <3> QED BY <3>1, <3>3, <3>7 DEF ContactsInv
  <2>4. CASE \E r \in DOMAIN Catalogue : Discover(r)
    BY <2>4, <2>2 DEF Discover
  <2>5. CASE Deduplicate
    BY <2>5, <2>2 DEF Deduplicate
  <2>6. ASSUME NEW id, NEW profile, Snapshot(id, profile) PROVE ContactsInv'
    BY <2>6, <2>1 DEF Snapshot
  <2>7. CASE CompleteBatch \/ Evaluate \/ Calibrate \/ Publish \/ Crash
    <3>1. UNCHANGED <<rows, companies, contacts>>
      BY <2>7 DEF CompleteBatch, Evaluate, Calibrate, Publish, Crash
    <3> QED BY <3>1, <2>1
  <2>8. CASE UNCHANGED vars
    BY <2>1, <2>8 DEF vars
  <2> QED BY <2>3, <2>4, <2>5, <2>6, <2>7, <2>8 DEF Next, Research, Extract
<1> QED BY <1>1, <1>2, DedupedOnce, RecordsStay, PTL DEF Spec

(***************************************************************************)
(* The people kept for a company are its best ones, each once, whatever    *)
(* the order of the results and however many there are: whoever is left    *)
(* out is kept already under a role that is as good, or comes after        *)
(* everyone kept when the limit is reached (selection.py:279-302).         *)
(***************************************************************************)
THEOREM TheBestAreKept == Spec => []BestContactsKept
<1>1. Deduped /\ ContactsInv => BestContactsKept
  <2> SUFFICES ASSUME Deduped, ContactsInv, contacts # NoFile PROVE BestContactsKept
    BY DEF BestContactsKept
  <2>1. /\ companies # NoFile /\ companies = Deduplicated(rows)
        /\ contacts.results \in Searches /\ Chosen(contacts, rows)
    BY DEF ContactsInv, Deduped, Chosen
  <2>2. PICK c \in Deduplicated(rows).companies :
           /\ c.id = contacts.id
           /\ contacts.kept = Selected(contacts.results, c.name, c.domain # None, ContactLimit)
    BY <2>1 DEF Chosen
  <2>3. Company(contacts.id) = c
    BY <2>1, <2>2, CompanyIs
  <2> DEFINE hasDomain == c.domain # None
             found == ToSet(Candidates(contacts.results, c.name, hasDomain))
  <2>4. hasDomain \in BOOLEAN
    OBVIOUS
  <2> HIDE DEF hasDomain
  <2>5. BestOf(found, Selected(contacts.results, c.name, hasDomain, ContactLimit))
    BY <2>1, <2>4, SelectedAreBest
  <2> HIDE DEF found
  <2>6. BestOf(found, contacts.kept)
    BY <2>2, <2>5 DEF hasDomain
  <2>7. \/ contacts = NoFile
        \/ /\ \A i, j \in DOMAIN contacts.kept : contacts.kept[i].key = contacts.kept[j].key => i = j
           /\ \A d \in found :
                 \/ \E i \in DOMAIN contacts.kept :
                       contacts.kept[i].key = d.key /\ ~ Order(d, contacts.kept[i])
                 \/ /\ Len(contacts.kept) = ContactLimit
                    /\ \A i \in DOMAIN contacts.kept : Order(contacts.kept[i], d)
    BY <2>6 DEF BestOf
  <2> QED BY <2>3, <2>7 DEF BestContactsKept, found, hasDomain
<1> QED BY <1>1, DedupedOnce, ContactsStay, PTL

-----------------------------------------------------------------------------
(***************************************************************************)
(* The order of the rows.                                                  *)
(***************************************************************************)

\* A company as its rows tell it, whatever their places.
Tally(list, S) == [r \in {list[i] : i \in S} |-> Cardinality({i \in S : list[i] = r})]
Told(c, list) == [c EXCEPT !.rows = Tally(list, c.rows)]

Written(id, domain, S, name, countries, extra) ==
    [id |-> id, domain |-> domain, rows |-> S, name |-> name,
     country |-> IF Cardinality(countries) = 1 THEN CHOOSE c \in countries : TRUE ELSE None,
     review |-> extra
         \cup (IF name = None THEN {"INSUFFICIENT_IDENTITY"} ELSE {})
         \cup (IF Cardinality(countries) > 1 THEN {"CONFLICTING_COUNTRY"} ELSE {})
         \cup (IF countries \subseteq Home THEN {} ELSE {"OUTSIDE_GEOGRAPHY"})]

LEMMA BuildWhole ==
    ASSUME NEW p, NEW S, NEW id, NEW domain, NEW extra
    PROVE  Build(GroupOf(p, S), id, domain, extra) =
              Written(id, domain, S, CanonicalName(GroupOf(p, S)), Countries(p, S), extra)
<1> DEFINE group == GroupOf(p, S)
           name == CanonicalName(group)
<1>1. /\ \A x \in group : x[1] \in S /\ x[2] = p[x[1]]
      /\ \A i \in S : <<i, p[i]>> \in group
  <2>1. ASSUME NEW x \in group PROVE x[1] \in S /\ x[2] = p[x[1]]
    <3>1. PICK i \in S : x = <<i, p[i]>>
      BY DEF GroupOf
    <3> QED BY <3>1
  <2> QED BY <2>1 DEF GroupOf
<1>2. \A i : <<i, p[i]>>[1] = i /\ <<i, p[i]>>[2] = p[i]
  OBVIOUS
<1> HIDE DEF group
<1>3. {x[1] : x \in group} = S
  BY <1>1, <1>2
<1>4. {x[2].country : x \in group} = {p[i].country : i \in S}
  <2>1. ASSUME NEW i \in S PROVE \E x \in group : p[i].country = x[2].country
    <3>1. <<i, p[i]>> \in group /\ <<i, p[i]>>[2] = p[i]
      BY <1>1, <1>2
    <3> QED BY <3>1
  <2>2. ASSUME NEW x \in group PROVE \E i \in S : x[2].country = p[i].country
    BY <1>1
  <2> QED BY <2>1, <2>2
<1>5. Build(group, id, domain, extra) =
         Written(id, domain, {x[1] : x \in group}, CanonicalName(group),
                 {x[2].country : x \in group} \ {None}, extra)
  BY DEF Build, Written
<1>6. Build(group, id, domain, extra) = Written(id, domain, S, name, Countries(p, S), extra)
  BY <1>3, <1>4, <1>5 DEF Countries
<1> QED BY <1>6 DEF group

LEMMA ToldBuild ==
    ASSUME NEW p, NEW S, NEW id, NEW domain, NEW extra, NEW list
    PROVE  Told(Build(GroupOf(p, S), id, domain, extra), list) =
              Written(id, domain, Tally(list, S), CanonicalName(GroupOf(p, S)),
                      Countries(p, S), extra)
<1> DEFINE name == CanonicalName(GroupOf(p, S))
           countries == Countries(p, S)
<1>1. Build(GroupOf(p, S), id, domain, extra) = Written(id, domain, S, name, countries, extra)
  BY BuildWhole
<1> HIDE DEF name, countries
<1>2. ASSUME NEW t
      PROVE  [Written(id, domain, S, name, countries, extra) EXCEPT !.rows = t] =
                Written(id, domain, t, name, countries, extra)
  <2> DEFINE whole(rows_, country, review) ==
                [id |-> id, domain |-> domain, rows |-> rows_, name |-> name,
                 country |-> country, review |-> review]
  <2>1. \A s, country, review : [whole(s, country, review) EXCEPT !.rows = t] = whole(t, country, review)
    OBVIOUS
  <2>2. \E country, review :
           /\ Written(id, domain, S, name, countries, extra) = whole(S, country, review)
           /\ Written(id, domain, t, name, countries, extra) = whole(t, country, review)
    <3> DEFINE country == IF Cardinality(countries) = 1 THEN CHOOSE c \in countries : TRUE ELSE None
               review == extra
                  \cup (IF name = None THEN {"INSUFFICIENT_IDENTITY"} ELSE {})
                  \cup (IF Cardinality(countries) > 1 THEN {"CONFLICTING_COUNTRY"} ELSE {})
                  \cup (IF countries \subseteq Home THEN {} ELSE {"OUTSIDE_GEOGRAPHY"})
    <3>1. \A s : Written(id, domain, s, name, countries, extra) = whole(s, country, review)
      BY DEF Written
    <3> HIDE DEF country, review, whole
    <3> QED BY <3>1
  <2> HIDE DEF whole
  <2> QED BY <2>1, <2>2
<1>3. Written(id, domain, S, name, countries, extra).rows = S
  BY DEF Written
<1>4. Told(Written(id, domain, S, name, countries, extra), list) =
         Written(id, domain, Tally(list, S), name, countries, extra)
  BY <1>2, <1>3 DEF Told
<1> QED BY <1>1, <1>4 DEF name, countries

LEMMA SameCompany ==
    ASSUME NEW l \in Lists, NEW m \in Lists, NEW S \in SUBSET DOMAIN l, NEW T \in SUBSET DOMAIN m,
           NEW b, OneToOne(b, T, S), \A i \in T : m[i] = l[b[i]],
           NEW id, NEW domain, NEW extra
    PROVE  Told(Build(GroupOf(Prepared(m), T), id, domain, extra), m) =
              Told(Build(GroupOf(Prepared(l), S), id, domain, extra), l)
<1> DEFINE p == Prepared(l)
           o == Prepared(m)
<1>1. /\ IsFiniteSet(T) /\ \A i \in T : b[i] \in S
      /\ \A j \in S : \E i \in T : b[i] = j
  <2>1. IsFiniteSet(DOMAIN m)
    BY ListPrepared
  <2> QED BY <2>1, FS_Subset DEF OneToOne
<1>2. \A i \in T : o[i] = p[b[i]]
  <2>1. \A i \in T : o[i] = Prepare(m[i])
    BY ListPrepared
  <2>2. \A j \in S : p[j] = Prepare(l[j])
    BY ListPrepared
  <2> QED BY <1>1, <2>1, <2>2
<1>3. Tally(m, T) = Tally(l, S)
  <2>1. {m[i] : i \in T} = {l[j] : j \in S}
    BY <1>1
  <2>2. ASSUME NEW r
        PROVE  Cardinality({i \in T : m[i] = r}) = Cardinality({j \in S : l[j] = r})
    <3> DEFINE U == {i \in T : m[i] = r}
               V == {j \in S : l[j] = r}
    <3>1. U \in SUBSET T /\ V \in SUBSET S
      OBVIOUS
    <3>2. \A i \in T : i \in U <=> b[i] \in V
      BY <1>1
    <3> HIDE DEF U, V
    <3>3. Cardinality(U) = Cardinality(V)
      BY <3>1, <3>2, <1>1, SameCount
    <3> QED BY <3>3 DEF U, V
  <2> QED BY <2>1, <2>2 DEF Tally
<1> HIDE DEF p, o
<1>4. Countries(o, T) = Countries(p, S)
  <2>1. {o[i].country : i \in T} = {p[j].country : j \in S}
    BY <1>1, <1>2
  <2> QED BY <2>1 DEF Countries
<1>5. NamesOf(o, T) = NamesOf(p, S)
  <2>1. {o[i].name : i \in T} = {p[j].name : j \in S}
    BY <1>1, <1>2
  <2> QED BY <2>1 DEF NamesOf
<1>6. \A n : CountOf(o, T, n) = CountOf(p, S, n)
  <2> TAKE n
  <2> DEFINE U == {i \in T : o[i].name = n}
             V == {j \in S : p[j].name = n}
  <2>1. U \in SUBSET T /\ V \in SUBSET S
    OBVIOUS
  <2>2. \A i \in T : i \in U <=> b[i] \in V
    BY <1>1, <1>2
  <2> HIDE DEF U, V
  <2>3. Cardinality(U) = Cardinality(V)
    BY <2>1, <2>2, <1>1, SameCount
  <2> QED BY <2>3 DEF CountOf, U, V
<1>7. \A n : ExaOf(o, T, n) = ExaOf(p, S, n)
  <2> TAKE n
  <2>1. ExaOf(o, T, n) <=> ExaOf(p, S, n)
    BY <1>1, <1>2 DEF ExaOf
  <2> QED BY <2>1 DEF ExaOf
<1>8. \A n : NameFirst(o, T, n) <=> NameFirst(p, S, n)
  <2>1. \A x, y : NamePrecedes(o, T, x, y) <=> NamePrecedes(p, S, x, y)
    BY <1>6, <1>7 DEF NamePrecedes
  <2> QED BY <2>1, <1>5 DEF NameFirst
<1>9. CanonicalName(GroupOf(o, T)) = CanonicalName(GroupOf(p, S))
  <2>1. /\ NamesOf(o, T) = {} => CanonicalName(GroupOf(o, T)) = None
        /\ NamesOf(o, T) # {} => NameFirst(o, T, CanonicalName(GroupOf(o, T)))
    BY Names DEF o
  <2>2. /\ NamesOf(p, S) = {} => CanonicalName(GroupOf(p, S)) = None
        /\ NamesOf(p, S) # {} => NameFirst(p, S, CanonicalName(GroupOf(p, S)))
        /\ \A x, y : NameFirst(p, S, x) /\ NameFirst(p, S, y) => x = y
    BY Names DEF p
  <2> QED BY <2>1, <2>2, <1>5, <1>8
<1>10. Told(Build(GroupOf(o, T), id, domain, extra), m) =
          Written(id, domain, Tally(m, T), CanonicalName(GroupOf(o, T)), Countries(o, T), extra)
  BY ToldBuild
<1>11. Told(Build(GroupOf(p, S), id, domain, extra), l) =
          Written(id, domain, Tally(l, S), CanonicalName(GroupOf(p, S)), Countries(p, S), extra)
  BY ToldBuild
<1> QED BY <1>3, <1>4, <1>9, <1>10, <1>11 DEF p, o

\* m has the rows of l, that of place i at place q[i].
Shuffled(l, m, q) ==
    /\ l \in Lists /\ m \in Lists
    /\ OneToOne(q, DOMAIN m, DOMAIN l)
    /\ \A i \in DOMAIN m : m[i] = l[q[i]]

LEMMA ShuffledBack ==
    ASSUME NEW l, NEW m, NEW q, Shuffled(l, m, q)
    PROVE  \E r : Shuffled(m, l, r)
<1> DEFINE r == [j \in DOMAIN l |-> CHOOSE i \in DOMAIN m : q[i] = j]
<1>1. OneToOne(q, DOMAIN m, DOMAIN l)
  BY DEF Shuffled
<1>2. \A j \in DOMAIN l : r[j] \in DOMAIN m /\ q[r[j]] = j
  <2> SUFFICES ASSUME NEW j \in DOMAIN l PROVE r[j] \in DOMAIN m /\ q[r[j]] = j
    OBVIOUS
  <2>1. \E i \in DOMAIN m : q[i] = j
    BY <1>1 DEF OneToOne
  <2> QED BY <2>1
<1>3. r \in [DOMAIN l -> DOMAIN m]
  BY <1>2
<1> HIDE DEF r
<1>4. \A i \in DOMAIN m : q[i] \in DOMAIN l /\ r[q[i]] = i
  BY <1>1, <1>2 DEF OneToOne
<1>5. OneToOne(r, DOMAIN l, DOMAIN m)
  <2>1. \A x, y \in DOMAIN l : r[x] = r[y] => x = y
    BY <1>2
  <2>2. \A i \in DOMAIN m : \E j \in DOMAIN l : r[j] = i
    BY <1>4
  <2> QED BY <1>3, <2>1, <2>2 DEF OneToOne
<1>6. \A j \in DOMAIN l : l[j] = m[r[j]]
  BY <1>2 DEF Shuffled
<1> QED BY <1>5, <1>6 DEF Shuffled

LEMMA ShuffledPlaces ==
    ASSUME NEW l, NEW m, NEW q, Shuffled(l, m, q)
    PROVE  LET p == Prepared(l) o == Prepared(m) IN
           /\ DOMAIN p = DOMAIN l /\ DOMAIN o = DOMAIN m
           /\ \A i \in DOMAIN o : q[i] \in DOMAIN p /\ o[i] = p[q[i]]
           /\ \A j \in DOMAIN p : \E i \in DOMAIN o : q[i] = j
           /\ Domains(o) = Domains(p)
           /\ \A i \in DOMAIN o :
                 /\ \A d : i \in Holding(o, d) <=> q[i] \in Holding(p, d)
                 /\ \A f : i \in Sharing(o, f) <=> q[i] \in Sharing(p, f)
                 /\ i \in Grouped(o) <=> q[i] \in Grouped(p)
                 /\ i \in Ambiguous(o) <=> q[i] \in Ambiguous(p)
                 /\ i \in Insufficient(o) <=> q[i] \in Insufficient(p)
<1> DEFINE p == Prepared(l)
           o == Prepared(m)
<1>1. l \in Lists /\ m \in Lists /\ OneToOne(q, DOMAIN m, DOMAIN l)
      /\ \A i \in DOMAIN m : m[i] = l[q[i]]
  BY DEF Shuffled
<1>2. DOMAIN p = DOMAIN l /\ DOMAIN o = DOMAIN m
  BY DEF Prepared
<1>3. /\ \A i \in DOMAIN o : q[i] \in DOMAIN p /\ o[i] = p[q[i]]
      /\ \A j \in DOMAIN p : \E i \in DOMAIN o : q[i] = j
  BY <1>1, <1>2 DEF OneToOne, Prepared
<1> HIDE DEF p, o
<1>4. Domains(o) = Domains(p)
  <2>1. {o[i].domain : i \in DOMAIN o} = {p[j].domain : j \in DOMAIN p}
    BY <1>3
  <2> QED BY <2>1 DEF Domains
<1>5. \A i \in DOMAIN o : i \in Domainless(o) <=> q[i] \in Domainless(p)
  BY <1>3 DEF Domainless
<1>6. \A i \in DOMAIN o : Matched(o, i) = Matched(p, q[i])
  <2> SUFFICES ASSUME NEW i \in DOMAIN o PROVE Matched(o, i) = Matched(p, q[i])
    OBVIOUS
  <2> DEFINE J == {j \in DOMAIN o : /\ o[j].domain # None /\ o[j].fallback # NoFallback
                                    /\ o[j].fallback = o[i].fallback}
             K == {j \in DOMAIN p : /\ p[j].domain # None /\ p[j].fallback # NoFallback
                                    /\ p[j].fallback = p[q[i]].fallback}
  <2>1. \A j \in DOMAIN o : j \in J <=> q[j] \in K
    BY <1>3
  <2>2. J \subseteq DOMAIN o /\ K \subseteq DOMAIN p
    OBVIOUS
  <2>3. Matched(o, i) = {o[j].domain : j \in J} /\ Matched(p, q[i]) = {p[j].domain : j \in K}
    BY DEF Matched
  <2> HIDE DEF J, K
  <2>4. \A x : x \in {o[j].domain : j \in J} <=> x \in {p[j].domain : j \in K}
    BY <1>3, <2>1, <2>2
  <2> QED BY <2>3, <2>4
<1>7. \A d : \A i \in DOMAIN o : i \in Joining(o, d) <=> q[i] \in Joining(p, d)
  BY <1>5, <1>6 DEF Joining
<1>8. \A i \in DOMAIN o : i \in Grouped(o) <=> q[i] \in Grouped(p)
  BY <1>3, <1>5, <1>6 DEF Grouped
<1>9. \A i \in DOMAIN o : i \in Ambiguous(o) <=> q[i] \in Ambiguous(p)
  BY <1>5, <1>6 DEF Ambiguous
<1>10. \A i \in DOMAIN o : i \in Insufficient(o) <=> q[i] \in Insufficient(p)
  BY <1>3, <1>5 DEF Insufficient
<1>11. \A d : \A i \in DOMAIN o : i \in Holding(o, d) <=> q[i] \in Holding(p, d)
  BY <1>3, <1>7 DEF Holding
<1>12. \A f : \A i \in DOMAIN o : i \in Sharing(o, f) <=> q[i] \in Sharing(p, f)
  BY <1>3, <1>8 DEF Sharing
<1> QED BY <1>2, <1>3, <1>4, <1>8, <1>9, <1>10, <1>11, <1>12 DEF p, o

LEMMA RankNotLower ==
    ASSUME NEW l, NEW m, NEW q, Shuffled(l, m, q),
           NEW i \in Single(Prepared(m)), NEW j \in Single(Prepared(l)),
           Prepared(l)[j].id = Prepared(m)[i].id,
           Rank(l, Prepared(l), j) = Rank(m, Prepared(m), i)
    PROVE  ~ (l[j] < m[i])
<1> SUFFICES ASSUME l[j] < m[i] PROVE FALSE
  OBVIOUS
<1> DEFINE p == Prepared(l)
           o == Prepared(m)
           id == p[j].id
           S == SameRecord(p, id)
           T == SameRecord(o, id)
           Q == Earlier(l, S)
           R == Earlier(m, T)
           U == {k \in T : m[k] <= l[j]}
           V == {k \in S : l[k] <= l[j]}
<1>1. /\ l \in Lists /\ m \in Lists /\ OneToOne(q, DOMAIN m, DOMAIN l)
      /\ \A k \in DOMAIN m : m[k] = l[q[k]]
      /\ IsFiniteSet(DOMAIN m)
  BY ListPrepared DEF Shuffled
<1>2. /\ j \in S /\ Rank(l, p, j) = Cardinality(Before(Q, S, j))
      /\ IsFiniteSet(S) /\ IsOrder(Q, S)
      /\ S \subseteq DOMAIN p /\ \A k \in S : l[k] \in Nat /\ k \in Nat
  BY <1>1, RankIs
<1>3. /\ i \in T /\ Rank(m, o, i) = Cardinality(Before(R, T, i))
      /\ IsFiniteSet(T) /\ IsOrder(R, T)
      /\ T \subseteq DOMAIN o /\ \A k \in T : m[k] \in Nat /\ k \in Nat
  <2>1. id = o[i].id
    OBVIOUS
  <2> QED BY <1>1, <2>1, RankIs
<1>4. /\ DOMAIN p = DOMAIN l /\ DOMAIN o = DOMAIN m
      /\ \A k \in DOMAIN o : q[k] \in DOMAIN p /\ o[k] = p[q[k]]
      /\ \A k \in DOMAIN o : (k \in Ambiguous(o) <=> q[k] \in Ambiguous(p))
                          /\ (k \in Insufficient(o) <=> q[k] \in Insufficient(p))
  BY ShuffledPlaces
<1> HIDE DEF p, o, id
<1>5. \A k \in DOMAIN m : k \in T <=> q[k] \in S
  BY <1>4 DEF SameRecord, Single
<1>6. \A k \in S : <<k, j>> \in Q <=> l[k] < l[j] \/ (l[k] = l[j] /\ k < j)
  BY <1>2 DEF Earlier
<1>7. \A k \in T : <<k, i>> \in R <=> m[k] < m[i] \/ (m[k] = m[i] /\ k < i)
  BY <1>3 DEF Earlier
<1> HIDE DEF S, T, Q, R
<1>8. Cardinality(U) = Cardinality(V)
  <2>1. U \in SUBSET DOMAIN m /\ V \in SUBSET DOMAIN l
    BY <1>2, <1>3, <1>4
  <2>2. \A k \in DOMAIN m : k \in U <=> q[k] \in V
    BY <1>1, <1>5
  <2> HIDE DEF U, V
  <2> QED BY <1>1, <2>1, <2>2, SameCount
<1>9. IsFiniteSet(V) /\ IsFiniteSet(V \ {j}) /\ j \in V /\ Cardinality(V \ {j}) = Cardinality(V) - 1
  <2>1. j \in V /\ V \subseteq S
    BY <1>2
  <2> HIDE DEF V
  <2> QED BY <1>2, <2>1, FS_Subset, FS_RemoveElement
<1>10. Before(Q, S, j) \subseteq V \ {j}
  <2> SUFFICES ASSUME NEW k \in Before(Q, S, j) PROVE k \in V \ {j}
    OBVIOUS
  <2>1. k \in S /\ <<k, j>> \in Q
    BY DEF Before
  <2>2. l[k] < l[j] \/ (l[k] = l[j] /\ k < j)
    BY <1>6, <2>1
  <2>3. l[k] \in Nat /\ l[j] \in Nat /\ k \in Nat /\ j \in Nat
    BY <1>2, <2>1
  <2>4. l[k] <= l[j] /\ k # j
    BY <2>2, <2>3
  <2> QED BY <2>1, <2>4
<1>11. U \subseteq Before(R, T, i)
  <2> SUFFICES ASSUME NEW k \in U PROVE k \in Before(R, T, i)
    OBVIOUS
  <2>1. k \in T /\ m[k] <= l[j]
    OBVIOUS
  <2>2. m[k] \in Nat /\ m[i] \in Nat /\ l[j] \in Nat
    BY <1>2, <1>3, <2>1
  <2>3. m[k] < m[i]
    BY <2>1, <2>2
  <2> QED BY <2>1, <2>3, <1>7 DEF Before
<1> HIDE DEF U, V
<1>12. Cardinality(Before(Q, S, j)) <= Cardinality(V) - 1
  BY <1>9, <1>10, FS_Subset
<1>13. IsFiniteSet(Before(R, T, i))
  BY <1>3, FS_Subset DEF Before
<1>14. Cardinality(U) <= Cardinality(Before(R, T, i))
  BY <1>11, <1>13, FS_Subset
<1>15. Cardinality(V) \in Nat /\ Cardinality(Before(R, T, i)) \in Nat
  BY <1>9, <1>13, FS_CardinalityType
<1>16. Cardinality(Before(Q, S, j)) = Cardinality(Before(R, T, i))
  BY <1>2, <1>3 DEF p, o
<1> QED BY <1>8, <1>12, <1>14, <1>15, <1>16

LEMMA SameRanks ==
    ASSUME NEW l, NEW m, NEW q, Shuffled(l, m, q), NEW i \in Single(Prepared(m))
    PROVE  \E j \in Single(Prepared(l)) :
              /\ l[j] = m[i] /\ Prepared(l)[j] = Prepared(m)[i]
              /\ Rank(l, Prepared(l), j) = Rank(m, Prepared(m), i)
<1> DEFINE p == Prepared(l)
           o == Prepared(m)
           id == o[i].id
           S == SameRecord(p, id)
           T == SameRecord(o, id)
           Q == Earlier(l, S)
           R == Earlier(m, T)
<1>1. /\ l \in Lists /\ m \in Lists /\ OneToOne(q, DOMAIN m, DOMAIN l)
      /\ \A k \in DOMAIN m : m[k] = l[q[k]]
      /\ IsFiniteSet(DOMAIN m)
  BY ListPrepared DEF Shuffled
<1>2. /\ i \in T /\ Rank(m, o, i) = Cardinality(Before(R, T, i))
      /\ IsFiniteSet(T) /\ IsOrder(R, T) /\ T \subseteq DOMAIN o
  BY <1>1, RankIs
<1>3. /\ DOMAIN p = DOMAIN l /\ DOMAIN o = DOMAIN m
      /\ \A k \in DOMAIN o : q[k] \in DOMAIN p /\ o[k] = p[q[k]]
      /\ \A k \in DOMAIN o : (k \in Ambiguous(o) <=> q[k] \in Ambiguous(p))
                          /\ (k \in Insufficient(o) <=> q[k] \in Insufficient(p))
  BY ShuffledPlaces
<1>4. S \subseteq DOMAIN p /\ S = {k \in Single(p) : p[k].id = id}
  BY DEF SameRecord, Single, Ambiguous, Insufficient, Domainless
<1>5. \A k \in DOMAIN m : k \in T <=> q[k] \in S
  BY <1>3 DEF SameRecord, Single
<1>6. Cardinality(T) = Cardinality(S)
  <2> HIDE DEF S, T, p, o
  <2>1. T \in SUBSET DOMAIN m /\ S \in SUBSET DOMAIN l
    BY <1>2, <1>3, <1>4
  <2> QED BY <1>1, <1>5, <2>1, SameCount
<1>7. q[i] \in S
  BY <1>2, <1>3, <1>5
<1>8. IsFiniteSet(S) /\ IsOrder(Q, S) /\ \A k \in S : l[k] \in Nat
  <2>1. q[i] \in Single(p) /\ p[q[i]].id = id
    BY <1>4, <1>7
  <2> HIDE DEF id
  <2> QED BY <1>1, <2>1, RankIs
<1>9. Cardinality(Before(R, T, i)) \in 0 .. Cardinality(S) - 1
  <2> HIDE DEF S, T, R
  <2> QED BY <1>2, <1>6, PlacesOrdered
<1>10. PICK j \in S : Cardinality(Before(Q, S, j)) = Cardinality(Before(R, T, i))
  <2> HIDE DEF S, T, Q, R
  <2> QED BY <1>8, <1>9, PlacesTaken
<1>11. j \in Single(p) /\ p[j].id = id /\ j \in DOMAIN p
  BY <1>4
<1>12. Rank(l, p, j) = Rank(m, o, i)
  <2>1. Rank(l, p, j) = Cardinality(Before(Q, S, j))
    <3> HIDE DEF id
    <3> QED BY <1>1, <1>11, RankIs
  <2> QED BY <2>1, <1>2, <1>10
<1>13. ~ (l[j] < m[i])
  BY <1>11, <1>12, RankNotLower
<1>14. ~ (m[i] < l[j])
  <2>1. PICK r : Shuffled(m, l, r)
    BY ShuffledBack
  <2> QED BY <2>1, <1>11, <1>12, RankNotLower
<1>15. m[i] \in Nat /\ l[j] \in Nat
  <2>1. \A k \in DOMAIN o : m[k] \in Nat
    BY <1>1, ListPrepared
  <2>2. i \in DOMAIN o
    BY <1>2
  <2> QED BY <2>1, <2>2, <1>8
<1>16. l[j] = m[i]
  BY <1>13, <1>14, <1>15
<1>17. p[j] = o[i]
  <2>1. p[j] = Prepare(l[j]) /\ o[i] = Prepare(m[i])
    BY <1>1, <1>2, <1>11, ListPrepared
  <2> QED BY <2>1, <1>16
<1> QED BY <1>11, <1>12, <1>16, <1>17

LEMMA Narrowed ==
    ASSUME NEW l, NEW m, NEW q, Shuffled(l, m, q),
           NEW T \in SUBSET DOMAIN m, NEW S \in SUBSET DOMAIN l,
           \A i \in DOMAIN m : i \in T <=> q[i] \in S
    PROVE  LET b == [i \in T |-> q[i]] IN
           OneToOne(b, T, S) /\ \A i \in T : m[i] = l[b[i]]
  BY DEF Shuffled, OneToOne

LEMMA LikeRows ==
    ASSUME NEW p, NEW j \in DOMAIN p, NEW k \in DOMAIN p, p[j] = p[k]
    PROVE  /\ j \in Ambiguous(p) <=> k \in Ambiguous(p)
           /\ j \in Insufficient(p) <=> k \in Insufficient(p)
<1>1. j \in Domainless(p) <=> k \in Domainless(p)
  BY DEF Domainless
<1>2. Matched(p, j) = Matched(p, k)
  BY DEF Matched
<1> QED BY <1>1, <1>2 DEF Ambiguous, Insufficient

LEMMA ToldAlone ==
    ASSUME NEW l, NEW m, NEW q, Shuffled(l, m, q), NEW i \in Single(Prepared(m)), NEW reason
    PROVE  \E j \in Single(Prepared(l)) :
              /\ i \in Ambiguous(Prepared(m)) <=> j \in Ambiguous(Prepared(l))
              /\ i \in Insufficient(Prepared(m)) <=> j \in Insufficient(Prepared(l))
              /\ Told(Alone(m, Prepared(m), i, reason), m) =
                    Told(Alone(l, Prepared(l), j, reason), l)
<1> DEFINE p == Prepared(l)
           o == Prepared(m)
<1>1. PICK j \in Single(p) : /\ l[j] = m[i] /\ p[j] = o[i]
                             /\ Rank(l, p, j) = Rank(m, o, i)
  BY SameRanks
<1>2. /\ DOMAIN p = DOMAIN l /\ DOMAIN o = DOMAIN m
      /\ \A k \in DOMAIN o : q[k] \in DOMAIN p /\ o[k] = p[q[k]]
      /\ \A k \in DOMAIN o : (k \in Ambiguous(o) <=> q[k] \in Ambiguous(p))
                          /\ (k \in Insufficient(o) <=> q[k] \in Insufficient(p))
  BY ShuffledPlaces
<1>3. l \in Lists /\ m \in Lists
  BY DEF Shuffled
<1> HIDE DEF p, o
<1>4. i \in DOMAIN o /\ j \in DOMAIN p
  BY <1>1 DEF Single, Ambiguous, Insufficient, Domainless, o
<1>5. /\ i \in Ambiguous(o) <=> j \in Ambiguous(p)
      /\ i \in Insufficient(o) <=> j \in Insufficient(p)
  <2>1. q[i] \in DOMAIN p /\ p[q[i]] = p[j]
    BY <1>1, <1>2, <1>4
  <2>2. /\ q[i] \in Ambiguous(p) <=> j \in Ambiguous(p)
        /\ q[i] \in Insufficient(p) <=> j \in Insufficient(p)
    BY <2>1, <1>4, LikeRows
  <2> QED BY <2>2, <1>2, <1>4
<1> DEFINE id == SingletonId(o[i].id, Rank(m, o, i))
           b == [x \in {i} |-> j]
<1>6. OneToOne(b, {i}, {j}) /\ \A x \in {i} : m[x] = l[b[x]]
  BY <1>1 DEF OneToOne
<1>7. {i} \in SUBSET DOMAIN m /\ {j} \in SUBSET DOMAIN l
  BY <1>2, <1>4
<1>8. Alone(m, o, i, reason) = Build(GroupOf(o, {i}), id, None, {reason})
  BY DEF Alone
<1>9. Alone(l, p, j, reason) = Build(GroupOf(p, {j}), id, None, {reason})
  BY <1>1 DEF Alone
<1> HIDE DEF id, b
<1>10. Told(Build(GroupOf(o, {i}), id, None, {reason}), m) =
          Told(Build(GroupOf(p, {j}), id, None, {reason}), l)
  BY <1>3, <1>6, <1>7, SameCompany DEF p, o
<1>11. Told(Alone(m, o, i, reason), m) = Told(Alone(l, p, j, reason), l)
  BY <1>8, <1>9, <1>10
<1> QED BY <1>1, <1>5, <1>11 DEF p, o

LEMMA ToldAgain ==
    ASSUME NEW l, NEW m, NEW q, Shuffled(l, m, q), NEW c \in Deduplicated(m).companies
    PROVE  \E e \in Deduplicated(l).companies : Told(c, m) = Told(e, l)
<1> DEFINE p == Prepared(l)
           o == Prepared(m)
<1>1. l \in Lists /\ m \in Lists
  BY DEF Shuffled
<1>2. /\ DOMAIN p = DOMAIN l /\ DOMAIN o = DOMAIN m
      /\ \A i \in DOMAIN o : q[i] \in DOMAIN p /\ o[i] = p[q[i]]
      /\ Domains(o) = Domains(p)
      /\ \A i \in DOMAIN o :
            /\ \A d : i \in Holding(o, d) <=> q[i] \in Holding(p, d)
            /\ \A f : i \in Sharing(o, f) <=> q[i] \in Sharing(p, f)
            /\ i \in Grouped(o) <=> q[i] \in Grouped(p)
  BY ShuffledPlaces
<1>3. \/ \E d \in Domains(o) : c = ByDomain(o, d)
      \/ \E i \in Grouped(o) : c = ByFallback(o, o[i].fallback)
      \/ \E i \in Ambiguous(o) : c = Alone(m, o, i, "AMBIGUOUS_IDENTITY")
      \/ \E i \in Insufficient(o) : c = Alone(m, o, i, "INSUFFICIENT_IDENTITY")
  BY CompaniesAre
<1>4. /\ \A d \in Domains(p) : ByDomain(p, d) \in Deduplicated(l).companies
      /\ \A j \in Grouped(p) : ByFallback(p, p[j].fallback) \in Deduplicated(l).companies
      /\ \A j \in Ambiguous(p) : Alone(l, p, j, "AMBIGUOUS_IDENTITY") \in Deduplicated(l).companies
      /\ \A j \in Insufficient(p) : Alone(l, p, j, "INSUFFICIENT_IDENTITY") \in Deduplicated(l).companies
  BY CompaniesAre
<1>5. ASSUME NEW S, NEW T, T \subseteq DOMAIN o, S \subseteq DOMAIN p,
             \A i \in DOMAIN o : i \in T <=> q[i] \in S, NEW id, NEW domain
      PROVE  Told(Build(GroupOf(o, T), id, domain, {}), m) =
                Told(Build(GroupOf(p, S), id, domain, {}), l)
  <2> DEFINE b == [i \in T |-> q[i]]
  <2>1. T \in SUBSET DOMAIN m /\ S \in SUBSET DOMAIN l
        /\ \A i \in DOMAIN m : i \in T <=> q[i] \in S
    BY <1>2, <1>5
  <2>2. OneToOne(b, T, S) /\ \A i \in T : m[i] = l[b[i]]
    BY <2>1, Narrowed
  <2> HIDE DEF b
  <2> QED BY <2>1, <2>2, <1>1, SameCompany
<1> HIDE DEF p, o
<1>6. ASSUME NEW d \in Domains(o), c = ByDomain(o, d)
      PROVE  \E e \in Deduplicated(l).companies : Told(c, m) = Told(e, l)
  <2>1. Holding(o, d) \subseteq DOMAIN o /\ Holding(p, d) \subseteq DOMAIN p
    BY DEF Holding, Joining, Domainless
  <2>2. Told(ByDomain(o, d), m) = Told(ByDomain(p, d), l)
    BY <2>1, <1>2, <1>5 DEF ByDomain
  <2> QED BY <2>2, <1>2, <1>4, <1>6
<1>7. ASSUME NEW i \in Grouped(o), c = ByFallback(o, o[i].fallback)
      PROVE  \E e \in Deduplicated(l).companies : Told(c, m) = Told(e, l)
  <2> DEFINE f == o[i].fallback
  <2>1. i \in DOMAIN o /\ q[i] \in Grouped(p) /\ p[q[i]].fallback = f
    <3>1. i \in DOMAIN o
      BY DEF Grouped, Domainless
    <3> QED BY <3>1, <1>2
  <2>2. Sharing(o, f) \subseteq DOMAIN o /\ Sharing(p, f) \subseteq DOMAIN p
    BY DEF Sharing, Grouped, Domainless
  <2> HIDE DEF f
  <2>3. Told(ByFallback(o, f), m) = Told(ByFallback(p, f), l)
    BY <2>2, <1>2, <1>5 DEF ByFallback
  <2>4. ByFallback(p, f) \in Deduplicated(l).companies
    BY <2>1, <1>4
  <2> QED BY <2>3, <2>4, <1>7 DEF f
<1>8. ASSUME NEW i \in Ambiguous(o), c = Alone(m, o, i, "AMBIGUOUS_IDENTITY")
      PROVE  \E e \in Deduplicated(l).companies : Told(c, m) = Told(e, l)
  <2>1. i \in Single(o)
    BY DEF Single
  <2>2. PICK j \in Single(p) :
           /\ j \in Ambiguous(p)
           /\ Told(Alone(m, o, i, "AMBIGUOUS_IDENTITY"), m) =
                 Told(Alone(l, p, j, "AMBIGUOUS_IDENTITY"), l)
    BY <2>1, ToldAlone DEF p, o
  <2> QED BY <2>2, <1>4, <1>8
<1>9. ASSUME NEW i \in Insufficient(o), c = Alone(m, o, i, "INSUFFICIENT_IDENTITY")
      PROVE  \E e \in Deduplicated(l).companies : Told(c, m) = Told(e, l)
  <2>1. i \in Single(o)
    BY DEF Single
  <2>2. PICK j \in Single(p) :
           /\ j \in Insufficient(p)
           /\ Told(Alone(m, o, i, "INSUFFICIENT_IDENTITY"), m) =
                 Told(Alone(l, p, j, "INSUFFICIENT_IDENTITY"), l)
    BY <2>1, ToldAlone DEF p, o
  <2> QED BY <2>2, <1>4, <1>9
<1> QED BY <1>3, <1>6, <1>7, <1>8, <1>9

LEMMA DescribedIs ==
    ASSUME NEW list
    PROVE  Described(Deduplicated(list), list) = {Told(c, list) : c \in Deduplicated(list).companies}
  BY DEF Described, Told, Tally

LEMMA DescribedAlike ==
    ASSUME NEW l, NEW m, NEW q, Shuffled(l, m, q)
    PROVE  Described(Deduplicated(m), m) = Described(Deduplicated(l), l)
<1>1. PICK r : Shuffled(m, l, r)
  BY ShuffledBack
<1>2. \A c \in Deduplicated(m).companies :
         \E e \in Deduplicated(l).companies : Told(c, m) = Told(e, l)
  BY ToldAgain
<1>3. \A e \in Deduplicated(l).companies :
         \E c \in Deduplicated(m).companies : Told(e, l) = Told(c, m)
  BY <1>1, ToldAgain
<1>4. {Told(c, m) : c \in Deduplicated(m).companies} = {Told(e, l) : e \in Deduplicated(l).companies}
  BY <1>2, <1>3
<1> QED BY <1>4, DescribedIs

LEMMA ShuffledByPermutation ==
    ASSUME NEW list \in Lists, NEW q \in [DOMAIN list -> DOMAIN list], IsInjective(q)
    PROVE  Shuffled(list, [i \in DOMAIN list |-> list[q[i]]], q)
<1> DEFINE D == DOMAIN list
           m == [i \in D |-> list[q[i]]]
<1>1. /\ D = 1 .. Len(list) /\ Len(list) \in Nat /\ Len(list) <= MaxRows /\ IsFiniteSet(D)
      /\ \A i \in D : list[i] \in DOMAIN Catalogue
  BY ListPrepared
<1>2. m \in Lists
  <2>1. \A i \in D : m[i] \in DOMAIN Catalogue
    BY <1>1
  <2>2. m \in [1 .. Len(list) -> DOMAIN Catalogue]
    BY <1>1, <2>1
  <2> HIDE DEF m
  <2>3. m \in Seq(DOMAIN Catalogue) /\ Len(m) = Len(list)
    BY <1>1, <2>2
  <2> QED BY <2>3, <1>1 DEF Lists
<1>3. q \in Injection(D, D)
  BY DEF Injection
<1>4. q \in Surjection(D, D)
  <2> HIDE DEF D
  <2> QED BY <1>1, <1>3, FS_Injection
<1>5. OneToOne(q, D, D)
  BY <1>4 DEF OneToOne, Surjection, IsInjective
<1>6. DOMAIN m = D /\ \A i \in D : m[i] = list[q[i]]
  OBVIOUS
<1> HIDE DEF m
<1> QED BY <1>2, <1>5, <1>6 DEF Shuffled, m

(***************************************************************************)
(* The companies do not depend on the order in which providers answered:   *)
(* for any catalogue, any digest and any permutation of the rows, the same *)
(* companies with the same identities, names, countries and reviews hold   *)
(* the same rows, those without an identity of their own included          *)
(* (dedup.py:400-463).                                                     *)
(***************************************************************************)
THEOREM AnyOrderWillDo == Spec => OrderDoesNotMatter
<1>1. Deduped /\ [Next]_vars =>
         (companies' # companies =>
             \A p \in {p \in [DOMAIN rows -> DOMAIN rows] : IsInjective(p)} :
                LET shuffled == [i \in DOMAIN rows |-> rows[p[i]]]
                IN  Described(Deduplicated(shuffled), shuffled) = Described(companies', rows))
  <2> SUFFICES ASSUME Deduped, [Next]_vars, companies' # companies,
                      NEW p \in [DOMAIN rows -> DOMAIN rows], IsInjective(p)
               PROVE  LET shuffled == [i \in DOMAIN rows |-> rows[p[i]]]
                      IN  Described(Deduplicated(shuffled), shuffled) = Described(companies', rows)
    OBVIOUS
  <2>1. companies' = Deduplicated(rows)
    <3>1. ASSUME NEW id, NEW profile, Snapshot(id, profile) PROVE FALSE
      BY <3>1 DEF Snapshot
    <3>2. CASE UNCHANGED vars
      BY <3>2 DEF vars
    <3>3. CASE Next
      BY <3>1, <3>3 DEF Next, Discover, Deduplicate, Research, Extract, CompleteBatch, Evaluate,
                        Calibrate, Publish, Crash, Search
    <3> QED BY <3>2, <3>3
  <2>2. Shuffled(rows, [i \in DOMAIN rows |-> rows[p[i]]], p)
    BY ShuffledByPermutation DEF Deduped
  <2> QED BY <2>1, <2>2, DescribedAlike
<1>2. Deduped /\ [Next]_vars =>
         [companies' # companies =>
             \A p \in {p \in [DOMAIN rows -> DOMAIN rows] : IsInjective(p)} :
                LET shuffled == [i \in DOMAIN rows |-> rows[p[i]]]
                IN  Described(Deduplicated(shuffled), shuffled) = Described(companies', rows)]_vars
  BY <1>1
<1> QED BY <1>2, DedupedOnce, PTL DEF Spec, OrderDoesNotMatter

=============================================================================
