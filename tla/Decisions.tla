------------------------------ MODULE Decisions ------------------------------
(***************************************************************************)
(* How one run directory turns discovery rows into decisions and contacts: *)
(* raw rows are deduplicated once, companies are extracted one by one, and *)
(* while the batch goes on the commands evaluate (pipeline/evaluation.py), *)
(* calibrate (calibration.py) and the people search read what is there and *)
(* replace their files one after another.  A command may die between two   *)
(* of its files.                                                           *)
(***************************************************************************)
EXTENDS Deduplication, Scoring, ContactSelection

CONSTANTS NoFile,         \* a file that was not written yet
          Profiles,       \* what may be extracted: name -> facts
          MaxEvaluated,   \* EvaluationConfig.max_evaluated
          ContactLimit,   \* contacts kept per company
          Searches,       \* what a people search may return
          MaxRows,        \* bound: raw rows
          MaxSnapshots,   \* bound: extraction snapshots
          MaxWork         \* bound: rows, snapshots, and twice the commands,
                          \* the end of the batch and the search

\* What a digest identifies: no two of them have one.
Authority ==
    {<<"domain", Prepare(r).domain>> : r \in DOMAIN Catalogue}
    \cup {<<"fallback", f>> : f \in {Prepare(r).fallback : r \in DOMAIN Catalogue} \ {NoFallback}}
    \cup {<<"singleton", Prepare(r).id, rank>> : r \in DOMAIN Catalogue, rank \in 0 .. MaxRows}

DigestAssumption ==
    \A a, b \in Authority : Digest(a) \in Nat /\ (Digest(a) = Digest(b) => a = b)
ASSUME DigestAssumption

InputsAssumption ==
    /\ {MaxRows, MaxEvaluated, ContactLimit, MaxResults} \subseteq Nat
    /\ {Policy.minimum_fact, Policy.hard_rejection} \subseteq Nat
    /\ \A name \in DOMAIN Profiles : \A key \in DOMAIN Profiles[name] :
          Profiles[name][key] \in [value : Int, confidence : Nat, cited : BOOLEAN]
    /\ \A s \in Searches : s \in Seq(Result)
ASSUME InputsAssumption

VARIABLES rows,        \* companies_raw.jsonl
          companies,   \* companies_deduped.jsonl
          snapshots,   \* companies_extracted.jsonl
          finished,    \* the status of the M2 checkpoint is completed
          job,         \* the files the running command has still to write
          files,       \* its published views
          torn,        \* the commands that died between two files
          commands,    \* how many were started
          contacts     \* the contacts selected for one company, and from what

vars == <<rows, companies, snapshots, finished, job, files, torn, commands, contacts>>

NoProfile == "none"
Evaluated == <<"evaluated", "ranked", "rejected", "uncertain", "template", "summary">>
Calibrated == <<"report", "joined">>
View == ToSet(Evaluated) \cup ToSet(Calibrated)
Label == {"A", "B", "C"}
Verdict == {"accepted", "uncertain", "rejected"}
Scores == Null .. 10000     \* in hundredths
Weights == 0 .. 10000       \* of 10000

TypeOK ==
    /\ Len(rows) <= MaxRows /\ ToSet(rows) \subseteq DOMAIN Catalogue
    /\ companies # NoFile => \A c \in companies.companies : c.rows \subseteq DOMAIN rows
    /\ \A i \in DOMAIN snapshots :
          /\ snapshots[i].profile \in DOMAIN Profiles \cup {NoProfile}
          /\ \E c \in companies.companies : c.id = snapshots[i].id
    /\ DOMAIN files = View
    /\ files["evaluated"] # NoFile =>
          /\ Cardinality(files["evaluated"]) <= MaxEvaluated
          /\ \A r \in files["evaluated"] :
                /\ r.decision \in Verdict
                /\ r.score \in Scores /\ r.coverage \in Weights
    /\ torn \subseteq {"evaluate", "calibrate"}

-----------------------------------------------------------------------------
\* The batch: rows, deduplication once, snapshots.

Work ==
    Len(rows) + Len(snapshots)
        + 2 * (commands + (IF finished THEN 1 ELSE 0) + IF contacts = NoFile THEN 0 ELSE 1)

Discover(r) ==
    /\ companies = NoFile
    /\ Len(rows) < MaxRows /\ Work < MaxWork
    /\ rows' = Append(rows, r)
    /\ UNCHANGED <<companies, snapshots, finished, job, files, torn, commands, contacts>>

Deduplicate ==
    /\ companies = NoFile /\ rows # <<>>
    /\ companies' = Deduplicated(rows)
    /\ UNCHANGED <<rows, snapshots, finished, job, files, torn, commands, contacts>>

\* Snapshots of a company: evidence without facts, then its facts, once.
Snapshot(id, profile) ==
    /\ ~ finished /\ companies # NoFile
    /\ \A i \in DOMAIN snapshots : snapshots[i].id = id => snapshots[i].profile = NoProfile
    /\ Len(snapshots) < MaxSnapshots /\ Work < MaxWork
    /\ snapshots' = Append(snapshots, [id |-> id, profile |-> profile])
    /\ UNCHANGED <<rows, companies, finished, job, files, torn, commands, contacts>>

Research(id) == Snapshot(id, NoProfile)
Extract(id, profile) == Snapshot(id, profile)

CompleteBatch ==
    /\ ~ finished /\ companies # NoFile
    /\ Work + 2 <= MaxWork
    /\ finished' = TRUE
    /\ UNCHANGED <<rows, companies, snapshots, job, files, torn, commands, contacts>>

-----------------------------------------------------------------------------
\* evaluate_run.

Company(id) == CHOOSE c \in companies.companies : c.id = id

\* The country codes a company's retained rows spell out.
Reported(c) == {Catalogue[rows[i]].country : i \in {i \in c.rows : Catalogue[rows[i]].spelt = "code"}}

\* _load_latest_extracted: the last snapshot of each company.
Latest ==
    {snapshots[i] : i \in {i \in DOMAIN snapshots :
                              \A j \in i + 1 .. Len(snapshots) : snapshots[j].id # snapshots[i].id}}

\* evaluate_companies: the first ones by identity whose extraction is completed.
Selection ==
    LET done == {s \in Latest : s.profile # NoProfile}
    IN  {s \in done : Cardinality({t \in done : t.id < s.id}) < MaxEvaluated}

\* evaluate_company, for every profile.
Judged ==
    [name \in DOMAIN Profiles |->
        [outside \in BOOLEAN |->
            [decision |-> Decision(Profiles[name], outside),
             score    |-> FinalScore(Profiles[name]),
             coverage |-> OverallWeight(Profiles[name])]]]

Evaluation(s) ==
    LET c == Company(s.id)
        judged == Judged[s.profile][Outside(c.country, Reported(c), Home)]
    IN  [id |-> s.id, name |-> c.name, profile |-> s.profile,
         decision |-> judged.decision, score |-> judged.score, coverage |-> judged.coverage]

\* _rank_records.
RankKey(r) ==
    <<CASE r.decision = "accepted" -> 0 [] r.decision = "uncertain" -> 1 [] OTHER -> 2,
      IF r.score = Null THEN 1 ELSE 0, -r.score, -r.coverage, r.name, r.id>>

Above(r, s) ==
    \E n \in 1 .. 6 :
        /\ RankKey(r)[n] < RankKey(s)[n]
        /\ \A m \in 1 .. n - 1 : RankKey(r)[m] = RankKey(s)[m]

Ranked(records) ==
    [n \in 1 .. Cardinality(records) |->
        CHOOSE r \in records : Cardinality({s \in records : Above(s, r)}) = n - 1]

Decided(ranked, decision) == SelectSeq(ranked, LAMBDA r : r.decision = decision)

\* The six contents, rendered before the first of them is written.
Views(records) ==
    LET ranked == Ranked(records) IN
    [evaluated |-> records, ranked |-> ranked,
     rejected |-> Decided(ranked, "rejected"), uncertain |-> Decided(ranked, "uncertain"),
     template |-> ranked,
     summary |-> [d \in Verdict |-> Cardinality({r \in records : r.decision = d})]]

ContentsIfAny(order, views) ==
    SelectSeq([i \in DOMAIN order |-> <<order[i], views[order[i]]>>],
              LAMBDA c : c[1] \in {"rejected", "uncertain"} => c[2] # <<>>)

Contents(order, views) == [i \in DOMAIN order |-> <<order[i], views[order[i]]>>]

Evaluate ==
    LET records == {Evaluation(s) : s \in Selection} IN
    /\ job = <<>>
    /\ records = {} => ~ finished
    /\ Work + 2 <= MaxWork /\ commands' = commands + 1
    /\ job' = Contents(Evaluated, Views(records))
    /\ UNCHANGED <<rows, companies, snapshots, finished, files, torn, contacts>>

-----------------------------------------------------------------------------
\* calibrate_run: labels for some of the evaluated companies.

Ids(records) == {r.id : r \in records}

\* _disagreements.
Critical(r, labels) ==
    /\ r.id \in DOMAIN labels
    /\ <<labels[r.id], r.decision>> \in {<<"A", "rejected">>, <<"C", "accepted">>}

ForReviewNotC(r, labels) ==
    /\ r.id \in DOMAIN labels
    /\ <<labels[r.id], r.decision>> \in {<<"A", "uncertain">>, <<"B", "accepted">>,
                                         <<"B", "rejected">>}

ForReview(r, labels) ==
    /\ r.id \in DOMAIN labels
    /\ <<labels[r.id], r.decision>> \in {<<"A", "uncertain">>, <<"B", "accepted">>,
                                         <<"B", "rejected">>, <<"C", "uncertain">>}

\* _matrix.
Matrix(records, labels) ==
    [l \in Label |->
        [d \in Verdict |->
            Cardinality({r \in records : /\ r.id \in DOMAIN labels
                                         /\ labels[r.id] = l /\ r.decision = d})]]

\* _render_joined_csv.
Joined(records, labels) ==
    LET ranked == Ranked(records) IN
    [i \in DOMAIN ranked |->
        [id |-> ranked[i].id, decision |-> ranked[i].decision,
         label |-> IF ranked[i].id \in DOMAIN labels THEN labels[ranked[i].id] ELSE "none"]]

\* _policy_version needs a record or a summary that names one.  The table of
\* labels is read before anything is written: a command that refuses it, for a
\* company nobody evaluated or an unknown label, changes nothing.
Calibrate ==
    LET records == files["evaluated"] IN
    /\ job = <<>> /\ records # NoFile
    /\ records # {} \/ files["summary"] # NoFile
    /\ \E labelled \in SUBSET Ids(records) : \E labels \in [labelled -> Label] :
          job' = Contents(Calibrated,
                     [report |-> [matrix |-> Matrix(records, labels),
                                  critical |-> {r.id : r \in {r \in records : Critical(r, labels)}},
                                  review |-> {r.id : r \in {r \in records : ForReview(r, labels)}}],
                      joined |-> Joined(records, labels)])
    /\ Work + 2 <= MaxWork /\ commands' = commands + 1
    /\ UNCHANGED <<rows, companies, snapshots, finished, files, torn, contacts>>

-----------------------------------------------------------------------------
\* The writes of a command, and its death.

Command == IF job[Len(job)][1] \in ToSet(Evaluated) THEN "evaluate" ELSE "calibrate"

Publish ==
    /\ job # <<>>
    /\ files' = [files EXCEPT ![job[1][1]] = job[1][2]]
    /\ job' = Tail(job)
    /\ torn' = IF Len(job) = 1 THEN torn \ {Command} ELSE torn
    /\ UNCHANGED <<rows, companies, snapshots, finished, commands, contacts>>

\* A command that dies before its first file leaves the files as they were.
Crash ==
    /\ job # <<>>
    /\ job' = <<>>
    /\ torn' = IF job[1][1] \in {Evaluated[1], Calibrated[1]} THEN torn ELSE torn \cup {Command}
    /\ UNCHANGED <<rows, companies, snapshots, finished, files, commands, contacts>>

\* The contact stage reads the evaluated companies and keeps the people that
\* select_contacts chooses from one search.
Search(results) ==
    /\ Work + 2 <= MaxWork /\ contacts = NoFile
    /\ files["evaluated"] # NoFile
    /\ \E r \in files["evaluated"] :
          /\ r.decision = "accepted"
          /\ contacts' = [id |-> r.id, results |-> results,
                          kept |-> Selected(results, r.name, Company(r.id).domain # None,
                                            ContactLimit)]
    /\ UNCHANGED <<rows, companies, snapshots, finished, job, files, torn, commands>>

-----------------------------------------------------------------------------

Init ==
    /\ rows = <<>>
    /\ companies = NoFile
    /\ snapshots = <<>>
    /\ finished = FALSE
    /\ job = <<>>
    /\ files = [v \in View |-> NoFile]
    /\ torn = {}
    /\ commands = 0
    /\ contacts = NoFile

Next ==
    \/ \E r \in DOMAIN Catalogue : Discover(r)
    \/ Deduplicate
    \/ /\ companies # NoFile
       /\ \E c \in companies.companies :
             Research(c.id) \/ \E profile \in DOMAIN Profiles : Extract(c.id, profile)
    \/ CompleteBatch
    \/ Evaluate
    \/ Calibrate
    \/ Publish
    \/ Crash
    \/ \E results \in Searches : Search(results)

Spec == Init /\ [][Next]_vars

-----------------------------------------------------------------------------

(***************************************************************************)
(* Every raw row that carries any identity is in exactly one company, no   *)
(* two companies have one identity, and no company mixes two corporate     *)
(* domains (dedup.py:400-463, INV-06 and INV-07 of the M2 design).         *)
(***************************************************************************)
NoIdentityMixed ==
    companies # NoFile =>
        LET found == companies.companies IN
        /\ \A i \in DOMAIN rows \ companies.unresolved :
              Cardinality({c \in found : i \in c.rows}) = 1
        /\ \A c \in found : c.rows # {} /\ c.rows \cap companies.unresolved = {}
        /\ \A c, d \in found : c.id = d.id => c = d
        /\ \A c \in found : \A i, j \in c.rows :
              LET p == Prepare(rows[i]) q == Prepare(rows[j]) IN
              \/ p.domain = q.domain
              \/ p.domain = None \/ q.domain = None

(***************************************************************************)
(* The companies do not depend on the order in which providers answered    *)
(* (dedup.py:400-463, INV-09 of the M2 design).                            *)
(***************************************************************************)
Described(result, list) ==
    {[c EXCEPT !.rows = [r \in {list[i] : i \in c.rows} |->
                            Cardinality({i \in c.rows : list[i] = r})]]
        : c \in result.companies}

OrderDoesNotMatter ==
    [][companies' # companies =>
          \A p \in {p \in [DOMAIN rows -> DOMAIN rows] : IsInjective(p)} :
              LET shuffled == [i \in DOMAIN rows |-> rows[p[i]]]
              IN  Described(Deduplicated(shuffled), shuffled) = Described(companies', rows)]_vars

(***************************************************************************)
(* No missing and no doubtful fact can fire a rejection: a company that is *)
(* rejected without some of the facts rejections look at, or with less     *)
(* confidence in them, is rejected with them (policy.py:481-572, the hard  *)
(* rejection policy of the M3 design).                                     *)
(***************************************************************************)
Telling == {"pvf_relevant", "employee_count", "branch_count",
            "inside_sales_or_estimating_presence", "rfq_or_quote_workflow_evidence",
            "known_current_direct_competitor_customer"}

Without(profile, gone) == [key \in DOMAIN profile \ gone |-> profile[key]]

Doubted(profile, some, limit) ==
    [key \in DOMAIN profile |->
        IF key \in some /\ profile[key].confidence > limit
        THEN [profile[key] EXCEPT !.confidence = limit] ELSE profile[key]]

RejectsOnEvidence ==
    [name \in DOMAIN Profiles |->
        \A some \in SUBSET Telling :
            \A weaker \in {Without(Profiles[name], some)}
                            \cup {Doubted(Profiles[name], some, limit) : limit \in 0 .. 100} :
                Rejections(weaker, FALSE) \subseteq Rejections(Profiles[name], FALSE)]

NoMissingFactRejects ==
    \A i \in DOMAIN snapshots :
        snapshots[i].profile # NoProfile => RejectsOnEvidence[snapshots[i].profile]

(***************************************************************************)
(* An unknown fact is not a fact of value zero: a profile that leaves a    *)
(* usable fact out earns as much, of less weight, as one that has it with  *)
(* the signal zero.  Its published score is never lower, and it is higher  *)
(* as soon as the weight of the fact is worth a hundredth                  *)
(* (policy.py:413-447, 664-666).                                           *)
(***************************************************************************)
Worst(key) == IF key \in Incumbents THEN 1 ELSE 0
Zeroed(profile, key) == [profile EXCEPT ![key].value = Worst(key)]

FairlyScored(facts, key) ==
    LET without == Without(facts, {key})
        worst == Zeroed(facts, key)
        lost == OverallWeight(worst) - OverallWeight(without)
    IN  /\ OverallEarned(without) = OverallEarned(worst)
        /\ lost > 0
        /\ OverallWeight(without) > 0 =>
              /\ FinalScore(worst) <= FinalScore(without)
              /\ (2 * FinalScore(without) - 1) * lost >= 2 * OverallWeight(worst)
                    => FinalScore(worst) < FinalScore(without)

ScoresUnknownFairly ==
    [name \in DOMAIN Profiles |->
        \A key \in (Usable(Profiles[name]) \cap Scored) \ Counts :
            FairlyScored(Profiles[name], key)]

UnknownIsNotZero ==
    \A i \in DOMAIN snapshots :
        snapshots[i].profile # NoProfile => ScoresUnknownFairly[snapshots[i].profile]

(***************************************************************************)
(* Every decision file describes the same companies unless a command died  *)
(* between two of them, and the next complete command repairs that         *)
(* (evaluation.py:506-511).                                                *)
(***************************************************************************)
ViewsAgree ==
    job = <<>> /\ "evaluate" \notin torn /\ files["evaluated"] # NoFile =>
        \A v \in ToSet(Evaluated) : files[v] = Views(files["evaluated"])[v]

(***************************************************************************)
(* The calibration report and the joined table tell the same story: what   *)
(* the table shows as a lead a person wanted and the policy rejected, or   *)
(* the reverse, is critical, every other difference is for review, and the *)
(* matrix counts the labelled companies (calibration.py:177-238, 267-268). *)
(***************************************************************************)
Agreeing == {<<"A", "accepted">>, <<"B", "uncertain">>, <<"C", "rejected">>}

CalibrationTellsOneStory ==
    job = <<>> /\ "calibrate" \notin torn /\ files["report"] # NoFile =>
        LET table == ToSet(files["joined"])
            labelled == {t \in table : t.label # "none"}
            apart == {t \in labelled : <<t.label, t.decision>> \notin Agreeing}
            report == files["report"]
        IN  /\ report.critical \cup report.review = {t.id : t \in apart}
            /\ report.critical \cap report.review = {}
            /\ \A l \in Label, d \in Verdict :
                  report.matrix[l][d] = Cardinality({t \in table : t.label = l /\ t.decision = d})

(***************************************************************************)
(* A company all of whose rows report one country code outside the US and  *)
(* Canada, or none, is never accepted, whatever was extracted about it     *)
(* (dedup.py:361-387 with policy.py:481-494).                              *)
(***************************************************************************)
OutsideNeverAccepted ==
    files["evaluated"] # NoFile =>
        \A r \in files["evaluated"] :
            LET raws == {Catalogue[rows[i]] : i \in Company(r.id).rows}
                said == {x.country : x \in raws} \ {None}
            IN  /\ Cardinality(said) = 1 /\ said \cap Home = {}
                /\ \E x \in raws : x.country \in said /\ x.spelt = "code"
                => r.decision = "rejected"

(***************************************************************************)
(* The people kept for a company are its best ones, each once, whatever    *)
(* the order of the results: whoever is left out is kept already under a   *)
(* role that is as good, or comes after everyone kept when the limit is    *)
(* reached (selection.py:279-302).                                         *)
(***************************************************************************)
BestContactsKept ==
    contacts # NoFile =>
        LET r == Company(contacts.id)
            found == ToSet(Candidates(contacts.results, r.name, r.domain # None))
            kept == contacts.kept
        IN  /\ \A i, j \in DOMAIN kept : kept[i].key = kept[j].key => i = j
            /\ \A c \in found :
                  \/ \E i \in DOMAIN kept : kept[i].key = c.key /\ ~ Order(c, kept[i])
                  \/ /\ Len(kept) = ContactLimit
                     /\ \A i \in DOMAIN kept : Order(kept[i], c)

=============================================================================
