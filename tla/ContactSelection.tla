-------------------------- MODULE ContactSelection --------------------------
(***************************************************************************)
(* contacts/selection.py: which of the people a search returned are kept   *)
(* as a company's contacts, and in which order.  A title is the set of the *)
(* words the code looks for; a person is what one search result says:      *)
(* [name, profile, roles], each role with its employer and whether its end *)
(* date is an explicit null.                                               *)
(***************************************************************************)
EXTENDS Integers, Sequences, FiniteSets, SequencesExt

CONSTANT MaxResults   \* how many results are looked at, 10 in the code

Nothing == 0

Result == [name : Nat, profile : Nat,
           roles : SUBSET [title : SUBSET STRING, employer : Nat, current : BOOLEAN]]

Direct == {"owner", "ceo", "coo", "managing partner", "general manager"}
Senior == {"chief", "vp", "vice president", "head", "director"}
Managing == {"manager", "management", "director"}
CoreFunction == <<"inside sales", "estimating", "sales", "operations", "commercial">>
DeputyFunction == CoreFunction \o <<"branch", "regional">>

\* _FUNCTION_RELEVANCE; what has none comes last.
Relevance ==
    [function \in ToSet(DeputyFunction) |->
        CASE function = "estimating" -> 0 [] function = "inside sales" -> 1
          [] function = "operations" -> 2 [] function = "sales" -> 3
          [] function = "commercial" -> 4 [] function = "branch" -> 5 [] OTHER -> 6]
UnknownRelevance == 7

\* _function_match: the first function of the list the title names.
FirstFunction(title, list) ==
    LET named == {i \in DOMAIN list : list[i] \in title}
    IN  IF named = {} THEN "none" ELSE list[CHOOSE i \in named : \A j \in named : i <= j]

\* rank_title, with the relevance of the reason it gives: <<rank, relevance>>,
\* or rank 0 for a title that is not asked for.
RankTitle(title) ==
    LET core == FirstFunction(title, CoreFunction)
        deputy == FirstFunction(title, DeputyFunction)
    IN  IF \/ title \cap Direct # {}
           \/ "president" \in title /\ "vice president" \notin title
        THEN <<1, UnknownRelevance>>
        ELSE IF core # "none" /\ title \cap Senior # {} THEN <<2, Relevance[core]>>
        ELSE IF deputy # "none" /\ title \cap Managing # {} THEN <<3, Relevance[deputy]>>
        ELSE <<0, UnknownRelevance>>

Sooner(a, b) == a[1] < b[1] \/ (a[1] = b[1] /\ a[2] < b[2])

\* _current_roles: an employment that has explicitly not ended.
CurrentRoles(person, company) ==
    {role \in person.roles : role.current /\ role.employer = company}

Ranks(person, company) ==
    {RankTitle(role.title) : role \in CurrentRoles(person, company)}
        \ {<<0, UnknownRelevance>>}

\* _contact_identity: the profile, or the name at a company that has a domain;
\* the digest of it is a number, odd for the name.
Identity(person, hasDomain) ==
    IF person.profile # Nothing THEN 2 * person.profile
    ELSE IF hasDomain THEN 2 * person.name + 1
    ELSE Nothing

\* _candidate_from_result.
IsCandidate(person, company, hasDomain) ==
    /\ person.name # Nothing
    /\ Ranks(person, company) # {}
    /\ Identity(person, hasDomain) # Nothing

Candidate(person, company, hasDomain) ==
    LET ranks == Ranks(person, company)
    IN  [key |-> Identity(person, hasDomain), name |-> person.name,
         rank |-> CHOOSE r \in ranks : \A s \in ranks \ {r} : Sooner(r, s)]

\* contact_decision_order_key.
Order(a, b) ==
    \/ Sooner(a.rank, b.rank)
    \/ a.rank = b.rank /\ a.name < b.name
    \/ a.rank = b.rank /\ a.name = b.name /\ a.key < b.key

\* select_contacts: the candidates of the first results, each at the place of
\* its result, in decision order, a repeated identity dropped, as many as the
\* limit.  The sort is stable.
Candidates(results, company, hasDomain) ==
    LET first == 1 .. (IF Len(results) < MaxResults THEN Len(results) ELSE MaxResults)
    IN  [i \in {i \in first : IsCandidate(results[i], company, hasDomain)} |->
            Candidate(results[i], company, hasDomain)]

InOrder(candidates) ==
    LET Place(i) == Cardinality({j \in DOMAIN candidates :
                        \/ Order(candidates[j], candidates[i])
                        \/ ~ Order(candidates[i], candidates[j]) /\ j < i})
    IN  [n \in 1 .. Cardinality(DOMAIN candidates) |->
            candidates[CHOOSE i \in DOMAIN candidates : Place(i) = n - 1]]

FirstOfEach(ordered) ==
    FoldLeft(LAMBDA kept, c : IF \E i \in DOMAIN kept : kept[i].key = c.key
                              THEN kept ELSE Append(kept, c),
             <<>>, ordered)

SelectedAsFound(results, company, hasDomain, limit) ==
    LET kept == InOrder(FirstOfEach(Candidates(results, company, hasDomain)))
    IN  SubSeq(kept, 1, IF Len(kept) < limit THEN Len(kept) ELSE limit)

Selected(results, company, hasDomain, limit) ==
    LET kept == FirstOfEach(InOrder(Candidates(results, company, hasDomain)))
    IN  SubSeq(kept, 1, IF Len(kept) < limit THEN Len(kept) ELSE limit)

=============================================================================
