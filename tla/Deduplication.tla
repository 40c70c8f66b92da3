--------------------------- MODULE Deduplication ---------------------------
(***************************************************************************)
(* dedup.py: raw discovery rows become canonical companies by an exact,    *)
(* domain-first identity policy.  A row is a number, its place in          *)
(* Catalogue, which is also the order of its serialization (_raw_key).     *)
(* What the normalizers of the code read from a raw field is a field here: *)
(* a website is a registrable domain or unusable, a name is what remains   *)
(* without its legal suffixes, 0 when nothing does, and a country is a     *)
(* code with the way the provider spelt it.                                *)
(***************************************************************************)
EXTENDS Integers, Sequences, FiniteSets

CONSTANTS Catalogue,    \* the raw rows that exist
          Digest(_)     \* the truncated SHA-256 of an authority

None == 0
NoFallback == <<>>
Home == {1, 2}        \* US and CA, the countries in scope

Row == [id : Nat, exa : BOOLEAN, site : {"corporate", "directory", "none"}, host : Nat,
        name : Nat, place : Nat, country : Nat, spelt : {"code", "alias", "none"}]

CatalogueAssumption ==
    DOMAIN Catalogue \subseteq Nat /\ \A r \in DOMAIN Catalogue : Catalogue[r] \in Row
ASSUME CatalogueAssumption

\* _prepare with normalize_website_domain, normalize_company_name and
\* _normalize_country.  The identity without a domain needs every part.
Prepare(r) ==
    LET raw == Catalogue[r]
        domain == IF raw.site = "corporate" THEN raw.host ELSE None
        fallback == IF raw.name # None /\ raw.place # None /\ raw.country # None
                    THEN <<raw.name, raw.place, raw.country>> ELSE NoFallback
    IN  [id |-> raw.id, exa |-> raw.exa, domain |-> domain, name |-> raw.name,
         country |-> raw.country, fallback |-> fallback]

\* _company_id: the digest of an authority.
DomainId(d) == Digest(<<"domain", d>>)
FallbackId(f) == Digest(<<"fallback", f>>)
SingletonId(id, rank) == Digest(<<"singleton", id, rank>>)

\* _canonical_name: the most frequent name, one that Exa reports before
\* others, the first in order; the domain stands in when no row has a name.
CanonicalName(group) ==
    LET named == {p \in group : p[2].name # None}
        Count(n) == Cardinality({p \in named : p[2].name = n})
        ByExa(n) == \E p \in named : p[2].name = n /\ p[2].exa
        Precedes(m, n) == \/ Count(m) > Count(n)
                          \/ Count(m) = Count(n) /\ ByExa(m) /\ ~ ByExa(n)
                          \/ Count(m) = Count(n) /\ ByExa(m) = ByExa(n) /\ m < n
        names == {p[2].name : p \in named}
    IN  IF names = {} THEN None
        ELSE CHOOSE n \in names : \A m \in names \ {n} : Precedes(n, m)

\* _build_company over a group of <<occurrence, prepared row>>.
Build(group, id, domain, extra) ==
    LET countries == {p[2].country : p \in group} \ {None}
    IN  [id |-> id, domain |-> domain, rows |-> {p[1] : p \in group},
         name |-> CanonicalName(group),
         country |-> IF Cardinality(countries) = 1 THEN CHOOSE c \in countries : TRUE ELSE None,
         review |-> extra
             \cup (IF CanonicalName(group) = None THEN {"INSUFFICIENT_IDENTITY"} ELSE {})
             \cup (IF Cardinality(countries) > 1 THEN {"CONFLICTING_COUNTRY"} ELSE {})
             \cup (IF countries \subseteq Home THEN {} ELSE {"OUTSIDE_GEOGRAPHY"})]

\* How deduplicate splits the occurrences of the prepared rows p.
Domainless(p) == {i \in DOMAIN p : p[i].domain = None /\ p[i].name # None}
Unresolved(p) == {i \in DOMAIN p : p[i].domain = None /\ p[i].name = None}

Matched(p, i) ==
    {p[j].domain : j \in {j \in DOMAIN p : /\ p[j].domain # None
                                           /\ p[j].fallback # NoFallback
                                           /\ p[j].fallback = p[i].fallback}}

JoiningAny(p, d) == {i \in Domainless(p) : d \in Matched(p, i)}

Joining(p, d) == {i \in Domainless(p) : Matched(p, i) = {d}}
Grouped(p) == {i \in Domainless(p) : p[i].fallback # NoFallback /\ Matched(p, i) = {}}
Ambiguous(p) == {i \in Domainless(p) : Cardinality(Matched(p, i)) > 1}
Insufficient(p) == {i \in Domainless(p) : p[i].fallback = NoFallback}

\* Singletons with one record identity are told apart by their order.
RankByArrival(rows, p, i) ==
    Cardinality({j \in Ambiguous(p) \cup Insufficient(p) : p[j].id = p[i].id /\ j < i})

Rank(rows, p, i) ==
    Cardinality({j \in Ambiguous(p) \cup Insufficient(p) :
                    /\ p[j].id = p[i].id
                    /\ rows[j] < rows[i] \/ (rows[j] = rows[i] /\ j < i)})

Deduplicated(rows) ==
    LET p == [i \in DOMAIN rows |-> Prepare(rows[i])]
        Group(S) == {<<i, p[i]>> : i \in S}
        domains == {p[i].domain : i \in DOMAIN p} \ {None}
        fallbacks == {p[i].fallback : i \in Grouped(p)}
        Alone(S, reason) ==
            {Build(Group({i}), SingletonId(p[i].id, Rank(rows, p, i)), None, {reason}) : i \in S}
    IN  [companies |->
            {Build(Group({i \in DOMAIN p : p[i].domain = d} \cup Joining(p, d)),
                   DomainId(d), d, {}) : d \in domains}
            \cup {Build(Group({i \in Grouped(p) : p[i].fallback = f}),
                        FallbackId(f), None, {}) : f \in fallbacks}
            \cup Alone(Ambiguous(p), "AMBIGUOUS_IDENTITY")
            \cup Alone(Insufficient(p), "INSUFFICIENT_IDENTITY"),
         unresolved |-> Unresolved(p)]

=============================================================================
