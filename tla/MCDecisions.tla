----------------------------- MODULE MCDecisions -----------------------------
EXTENDS Decisions

Raw(id, exa, site, host, name, place, country, spelt) ==
    [id |-> id, exa |-> exa, site |-> site, host |-> host, name |-> name,
     place |-> place, country |-> country, spelt |-> spelt]

\* One company under two domains and without one, a domain whose rows name
\* two companies and two countries, a foreign one known by a directory page
\* only, a row without identity, and two without a place under one record id.
MCCatalogue ==
    <<Raw(1, TRUE,  "corporate", 1, 1, 1, 1, "code"),
      Raw(2, FALSE, "none",      0, 1, 1, 1, "code"),
      Raw(3, FALSE, "corporate", 2, 1, 1, 1, "alias"),
      Raw(4, FALSE, "corporate", 1, 2, 1, 3, "code"),
      Raw(6, TRUE,  "directory", 9, 3, 2, 3, "code"),
      Raw(7, FALSE, "directory", 9, 0, 2, 1, "code"),
      Raw(8, FALSE, "none",      0, 4, 0, 3, "code"),
      Raw(8, FALSE, "none",      0, 5, 0, 0, "none")>>

MCDigest(authority) ==
    CASE authority[1] = "domain"   -> authority[2]
      [] authority[1] = "fallback" -> 1000 + 100 * authority[2][1] + 10 * authority[2][2]
                                           + authority[2][3]
      [] OTHER                     -> 10000 + 10 * authority[2] + authority[3]

MCPolicy == [minimum_fact |-> 60, relevance |-> 75, hard_rejection |-> 85, score |-> 70,
             overall |-> 70, workload |-> 60, economic |-> 50]

Fact(value, confidence) == [value |-> value, confidence |-> confidence, cited |-> TRUE]

Strong ==
    [key \in FactKey |->
        Fact(CASE key = "branch_count" -> 5
               [] key = "employee_count" -> 100
               [] key = "revenue_if_reliably_available" -> 10000000
               [] key = "manufacturer_count_or_breadth" -> 12
               [] key \in Incumbents -> 0
               [] OTHER -> 1, 90)]

Small ==
    [Strong EXCEPT !.employee_count.value = 5, !.branch_count.value = 1,
                   !.inside_sales_or_estimating_presence.value = 0,
                   !.rfq_or_quote_workflow_evidence.value = 0]

MCProfiles ==
    [strong       |-> Strong,
     small        |-> Small,
     branches     |-> [Small EXCEPT !.branch_count.value = 2],
     competitor   |-> [Strong EXCEPT !.known_current_direct_competitor_customer = Fact(1, 70)],
     sparse       |-> [key \in {"pvf_relevant", "rfq_or_quote_workflow_evidence"} |-> Fact(1, 80)],
     broken       |-> [Strong EXCEPT !.employee_count.cited = FALSE,
                                     !.branch_count.value = Malformed,
                                     !.relevant_hiring = [value |-> Null, confidence |-> 0,
                                                          cited |-> FALSE]]]

Role(title, employer, current) == [title |-> title, employer |-> employer, current |-> current]
Person(name, profile, roles) == [name |-> name, profile |-> profile, roles |-> roles]

\* The second and the third are one profile under two titles; the last is a
\* profile without a name.
People ==
    {Person(1, 1, {Role({"owner"}, 1, TRUE)}),
     Person(2, 2, {Role({"sales", "manager"}, 1, TRUE), Role({"ceo"}, 1, FALSE)}),
     Person(2, 2, {Role({"sales", "vp"}, 1, TRUE)}),
     Person(3, Nothing, {Role({"estimating", "director"}, 1, TRUE)}),
     Person(4, 4, {Role({"president"}, 2, TRUE), Role({"branch", "manager"}, 1, TRUE)}),
     Person(5, 5, {Role({"operations"}, 1, TRUE)}),
     Person(Nothing, 6, {Role({"ceo"}, 1, TRUE)})}

\* Three results, and four of which the first is nobody's contact.
MCSearches ==
    {s \in [1 .. 3 -> {p \in People : p.name # Nothing}] : IsInjective(s)}
        \cup {s \in [1 .. 4 -> {p \in People : p.profile # 5}] :
                 IsInjective(s) /\ s[1].name = Nothing}

=============================================================================
