------------------------------ MODULE Scoring ------------------------------
(***************************************************************************)
(* scoring/policy.py: what the facts extracted about one company are worth *)
(* and the decision they lead to.  A profile maps the facts that were      *)
(* extracted to [value, confidence, cited].  Confidences, coverages and    *)
(* thresholds are percentages.  A Boolean fact is 0 or 1, Null is an       *)
(* explicit unknown and Malformed a value of the wrong type; the word      *)
(* forms of manufacturer breadth are left out.  Scores are exact           *)
(* fractions, where the code has floating point.                           *)
(***************************************************************************)
EXTENDS Integers, FiniteSets, Functions

CONSTANT Policy       \* ScoringPolicy

Null == -1
Malformed == -2

\* _CATEGORY_RULES.
Features ==
    [workload |->
        [rfq_or_quote_workflow_evidence |-> 25, inside_sales_or_estimating_presence |-> 15,
         project_or_tender_business |-> 15, bom_or_line_item_complexity |-> 15,
         manufacturer_count_or_breadth |-> 10, branch_count |-> 10,
         relevant_hiring |-> 5, industrial_or_process_customer_focus |-> 5],
     economic_fit |->
        [employee_count |-> 35, branch_count |-> 25, multi_location_signal |-> 20,
         regional_independent_signal |-> 15, revenue_if_reliably_available |-> 5],
     low_incumbent_exposure |->
        [known_current_direct_competitor_customer |-> 60,
         known_quote_automation_or_order_automation_relationship |-> 40],
     direct_pain |->
        [direct_quotation_pain_evidence |-> 40, manual_workflow_evidence |-> 35,
         explicit_process_bottleneck_evidence |-> 25]]

Category == DOMAIN Features
ProductWeight == [workload |-> 40, economic_fit |-> 25, low_incumbent_exposure |-> 25,
                  direct_pain |-> 10]

Counts == {"branch_count", "employee_count", "revenue_if_reliably_available"}
Scored == UNION {DOMAIN Features[c] : c \in Category}
FactKey == Scored \cup {"pvf_relevant", "known_competitor_evaluation_history"}

\* _value_supported.
Supported(key, value) ==
    CASE key \in Counts                          -> value > 0
      [] key = "manufacturer_count_or_breadth"   -> value >= 0
      [] OTHER                                   -> value \in {0, 1}

\* _resolve_fact: a fact is usable, unknown or invalid.
Invalid(profile, key) ==
    /\ key \in DOMAIN profile
    /\ LET f == profile[key] IN
         IF f.value = Null THEN f.confidence # 0 \/ f.cited
                           ELSE ~ f.cited \/ ~ Supported(key, f.value)

Usable(profile) ==
    {key \in DOMAIN profile :
        /\ ~ Invalid(profile, key)
        /\ profile[key].value # Null
        /\ profile[key].confidence >= Policy.minimum_fact}

\* The first step of a table whose bound the value does not exceed.
Step(value, table, otherwise) ==
    LET fits == {s \in table : value <= s[1]}
    IN  IF fits = {} THEN otherwise
        ELSE (CHOOSE s \in fits : \A t \in fits : s[1] <= t[1])[2]

\* _signal.
Signal(category, key, value) ==
    IF category = "low_incumbent_exposure" THEN 100 * (1 - value)
    ELSE CASE key = "manufacturer_count_or_breadth" ->
                Step(value, {<<0, 0>>, <<4, 25>>, <<9, 50>>, <<19, 75>>}, 100)
           [] key = "branch_count" /\ category = "workload" ->
                Step(value, {<<1, 25>>, <<5, 60>>, <<15, 85>>}, 100)
           [] key = "branch_count" /\ category = "economic_fit" ->
                Step(value, {<<1, 40>>, <<15, 100>>, <<30, 70>>}, 50)
           [] key = "employee_count" ->
                Step(value, {<<9, 20>>, <<19, 60>>, <<150, 100>>, <<500, 70>>}, 50)
           [] key = "revenue_if_reliably_available" ->
                Step(value, {<<999999, 20>>, <<4999999, 50>>, <<100000000, 100>>,
                             <<500000000, 70>>}, 50)
           [] OTHER -> 100 * value

\* _score_categories: the weight of the usable facts and what they earn of it.
Known(profile, category) == Usable(profile) \cap DOMAIN Features[category]

Coverage(profile, category) ==
    SumFunctionOnSet(Features[category], Known(profile, category))

Earned(profile, category) ==
    SumFunction([key \in Known(profile, category) |->
                    Features[category][key] * Signal(category, key, profile[key].value)])

OverallWeightFlat(profile) == SumFunction([c \in Category |-> Coverage(profile, c)])

OverallWeight(profile) ==
    SumFunction([c \in Category |-> ProductWeight[c] * Coverage(profile, c)])

OverallEarned(profile) ==
    SumFunction([c \in Category |-> ProductWeight[c] * Earned(profile, c)])

Holds(profile, key, value, confidence) ==
    /\ key \in Usable(profile)
    /\ profile[key].value = value
    /\ profile[key].confidence >= confidence

TooSmallUnlessKnown(profile) ==
    /\ "employee_count" \in Usable(profile)
    /\ profile["employee_count"].value < 10
    /\ profile["employee_count"].confidence >= Policy.hard_rejection
    /\ "branch_count" \in Usable(profile) => profile["branch_count"].value = 1
    /\ Holds(profile, "inside_sales_or_estimating_presence", 0, Policy.hard_rejection)
    /\ Holds(profile, "rfq_or_quote_workflow_evidence", 0, Policy.hard_rejection)

\* _small_company_rejection.
TooSmall(profile) ==
    /\ {"employee_count", "branch_count"} \subseteq Usable(profile)
    /\ profile["employee_count"].value < 10
    /\ profile["employee_count"].confidence >= Policy.hard_rejection
    /\ Holds(profile, "branch_count", 1, Policy.hard_rejection)
    /\ Holds(profile, "inside_sales_or_estimating_presence", 0, Policy.hard_rejection)
    /\ Holds(profile, "rfq_or_quote_workflow_evidence", 0, Policy.hard_rejection)

\* _confirmed_outside_us_canada: the canonical country against the country
\* codes as the retained rows spell them.
Outside(country, reported, home) ==
    country # 0 /\ country \notin home /\ country \in reported

\* _hard_rejections.  The status of a company is always active here.
Rejections(profile, outside) ==
    (IF Holds(profile, "pvf_relevant", 0, Policy.hard_rejection)
     THEN {"confirmed_not_pvf_relevant"} ELSE {})
    \cup (IF outside THEN {"confirmed_outside_us_canada"} ELSE {})
    \cup (IF Holds(profile, "known_current_direct_competitor_customer", 1, Policy.hard_rejection)
          THEN {"confirmed_current_direct_competitor_customer"} ELSE {})
    \cup (IF TooSmall(profile) THEN {"confirmed_too_small"} ELSE {})

\* _incumbent_review.
Incumbents == DOMAIN Features["low_incumbent_exposure"]

IncumbentReview(profile) ==
    IF Usable(profile) \cap Incumbents = {} THEN "incumbent_unresolved"
    ELSE IF \E key \in Incumbents : Holds(profile, key, 1, 0) THEN "incumbent_ambiguous"
    ELSE "none"

\* _acceptance_reviews.
GateReviews(profile) ==
    LET weight == OverallWeight(profile) IN
    (IF Holds(profile, "pvf_relevant", 1, Policy.relevance) THEN {} ELSE {"pvf_relevance"})
    \cup (IF weight = 0 THEN {"score_unavailable"}
          ELSE IF OverallEarned(profile) < Policy.score * weight THEN {"score_below"} ELSE {})
    \cup (IF weight < 100 * Policy.overall THEN {"low_overall"} ELSE {})
    \cup (IF Coverage(profile, "workload") < Policy.workload THEN {"low_workload"} ELSE {})
    \cup (IF Coverage(profile, "economic_fit") < Policy.economic THEN {"low_economic"} ELSE {})
    \cup ({IncumbentReview(profile)} \ {"none"})

DecisionGatesFirst(profile, outside) ==
    IF GateReviews(profile) = {} THEN "accepted"
    ELSE IF Rejections(profile, outside) # {} THEN "rejected"
    ELSE "uncertain"

\* evaluate_company's decision.
Decision(profile, outside) ==
    IF Rejections(profile, outside) # {} THEN "rejected"
    ELSE IF GateReviews(profile) = {} THEN "accepted"
    ELSE "uncertain"

FinalScoreOfAll(profile) ==
    IF OverallWeight(profile) = 0 THEN Null
    ELSE (200 * OverallEarned(profile) + 10000) \div 20000

\* The persisted score, in hundredths; Null when nothing is known.
FinalScore(profile) ==
    LET weight == OverallWeight(profile)
    IN  IF weight = 0 THEN Null
        ELSE (200 * OverallEarned(profile) + weight) \div (2 * weight)

=============================================================================
