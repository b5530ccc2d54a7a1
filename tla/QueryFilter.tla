----------------------------- MODULE QueryFilter -----------------------------
(***************************************************************************)
(* The query filters: the options --accept and --reject are parsed at the  *)
(* start (main.go, parseFilters), and then every query is tested against   *)
(* them before the resolver sees it (filter.go).                           *)
(*                                                                         *)
(* Domains and names are text, sequences of characters, because a filter   *)
(* compares text and not labels.                                           *)
(***************************************************************************)
EXTENDS Integers, Sequences, SequencesExt

CONSTANTS
    Chars, DOT,     \* the characters of names, and the one between labels
    Lower,          \* the lower case of a character
    Types,          \* the names of record types
    EMPTY,          \* the empty text, which is also the name of unknown types
    OptionLists,    \* the values considered for --accept and --reject
    Queries         \* the queries considered

ASSUME CharsAssumption ==
    /\ DOT \in Chars
    /\ Lower \in [Chars -> Chars]

(* An option: its domain, and the types split at the commas. It is well    *)
(* formed if it has exactly one colon.                                     *)
Options == [wellFormed : BOOLEAN, domain : Seq(Chars), types : Seq(Types \union {EMPTY})]

ASSUME OptionListsAssumption ==
    /\ OptionLists.accept \subseteq Seq(Options)
    /\ OptionLists.reject \subseteq Seq(Options)

(* The DNS library hands over names that end in a dot, "." for the root.   *)
(* The name of a question at which the message ends is empty, though       *)
(* (msg.go:1243-1247), and its type is none.                               *)
ASSUME QueriesAssumption ==
    /\ Queries \subseteq [name : Seq(Chars), type : Types \union {EMPTY}]
    /\ \A q \in Queries : q.name # <<>> => q.name[Len(q.name)] = DOT

VARIABLES
    options,        \* Options.Accept and Options.Reject
    pc,             \* "parseAccept", "parseReject", "idle", "reject", "accept", "decided"
    i,              \* the index of the loop
    acceptFilters,  \* f.acceptFilters
    rejectFilters,  \* f.rejectFilters
    query,          \* the query tested
    accepted        \* whether it is accepted

vars == <<options, pc, i, acceptFilters, rejectFilters, query, accepted>>

-----------------------------------------------------------------------------
NoQuery == [name |-> <<>>, type |-> EMPTY]

(* parseFilters. An option without types has one, the empty text.          *)
Fqdn(s) == IF s # <<>> /\ s[Len(s)] = DOT THEN s ELSE Append(s, DOT)

FilterOf(o) == [domain |-> Fqdn(o.domain),
                types  |-> IF o.types = <<EMPTY>> THEN <<>> ELSE o.types]

(* Mutant: the domain is not completed.                                    *)
Parsed_NotFqdn(o) ==
    IF o.wellFormed THEN <<[FilterOf(o) EXCEPT !.domain = o.domain]>> ELSE <<>>

Parsed(o) == IF o.wellFormed THEN <<FilterOf(o)>> ELSE <<>>

(* Matches: the domain is a suffix of the text of the name. An empty name  *)
(* is not compared.                                                        *)
Matches(f, q) ==
    /\ q.name # <<>> => IsSuffix(f.domain, q.name)
    /\ f.types # <<>> => q.type \in ToSet(f.types)

-----------------------------------------------------------------------------
Init ==
    /\ options \in [accept : OptionLists.accept, reject : OptionLists.reject]
    /\ pc = "parseAccept"
    /\ i = 1
    /\ acceptFilters = <<>>
    /\ rejectFilters = <<>>
    /\ query = NoQuery
    /\ accepted = FALSE

(* Goes from loop l to place m once its list is exhausted.                 *)
Exhausted(l, list, m) ==
    /\ pc = l
    /\ i > Len(list)
    /\ pc' = m
    /\ i' = 1

(* main parses the accept options first.                                   *)
ParseAccept ==
    /\ pc = "parseAccept"
    /\ i <= Len(options.accept)
    /\ acceptFilters' = acceptFilters \o Parsed(options.accept[i])
    /\ i' = i + 1
    /\ UNCHANGED <<options, pc, rejectFilters, query, accepted>>

ParseReject ==
    /\ pc = "parseReject"
    /\ i <= Len(options.reject)
    /\ rejectFilters' = rejectFilters \o Parsed(options.reject[i])
    /\ i' = i + 1
    /\ UNCHANGED <<options, pc, acceptFilters, query, accepted>>

Parsing ==
    /\ \/ Exhausted("parseAccept", options.accept, "parseReject")
       \/ Exhausted("parseReject", options.reject, "idle")
    /\ UNCHANGED <<options, acceptFilters, rejectFilters, query, accepted>>

(* Mutant: the loops go on at the index of the query before.               *)
Arrive_KeepsIndex ==
    /\ pc \in {"idle", "decided"}
    /\ query' \in Queries
    /\ accepted' = TRUE
    /\ pc' = "reject"
    /\ UNCHANGED <<options, i, acceptFilters, rejectFilters>>

(* A query arrives: ShouldAcceptQuery starts with the reject filters.      *)
Arrive ==
    /\ pc \in {"idle", "decided"}
    /\ query' \in Queries
    /\ accepted' = TRUE
    /\ pc' = "reject"
    /\ i' = 1
    /\ UNCHANGED <<options, acceptFilters, rejectFilters>>

-----------------------------------------------------------------------------
Decide(verdict) ==
    /\ accepted' = verdict
    /\ pc' = "decided"
    /\ UNCHANGED <<options, i, acceptFilters, rejectFilters, query>>

(* The first filter that matches ends its loop.                            *)
RejectMatches ==
    /\ pc = "reject"
    /\ i <= Len(rejectFilters)
    /\ Matches(rejectFilters[i], query)
    /\ Decide(FALSE)

AcceptMatches ==
    /\ pc = "accept"
    /\ i <= Len(acceptFilters)
    /\ Matches(acceptFilters[i], query)
    /\ Decide(TRUE)

(* Mutant: the loops are left without looking at the last filter.          *)
NoMatch_SkipsLast ==
    /\ \/ pc = "reject" /\ i < Len(rejectFilters) /\ ~Matches(rejectFilters[i], query)
       \/ pc = "accept" /\ i < Len(acceptFilters) /\ ~Matches(acceptFilters[i], query)
    /\ i' = IF i = Len(IF pc = "reject" THEN rejectFilters ELSE acceptFilters) - 1
            THEN i + 2 ELSE i + 1
    /\ UNCHANGED <<options, pc, acceptFilters, rejectFilters, query, accepted>>

NoMatch ==
    /\ \/ pc = "reject" /\ i <= Len(rejectFilters) /\ ~Matches(rejectFilters[i], query)
       \/ pc = "accept" /\ i <= Len(acceptFilters) /\ ~Matches(acceptFilters[i], query)
    /\ i' = i + 1
    /\ UNCHANGED <<options, pc, acceptFilters, rejectFilters, query, accepted>>

(* A query that no reject filter matches is accepted if there are no       *)
(* accept filters, and otherwise only if one of them matches.              *)
StartAccept ==
    /\ acceptFilters # <<>>
    /\ Exhausted("reject", rejectFilters, "accept")
    /\ accepted' = FALSE
    /\ UNCHANGED <<options, acceptFilters, rejectFilters, query>>

NothingToAccept ==
    /\ pc = "reject"
    /\ i > Len(rejectFilters)
    /\ acceptFilters = <<>>
    /\ Decide(accepted)

AcceptEnds ==
    /\ pc = "accept"
    /\ i > Len(acceptFilters)
    /\ Decide(accepted)

Next ==
    \/ ParseAccept
    \/ ParseReject
    \/ Parsing
    \/ Arrive
    \/ RejectMatches
    \/ AcceptMatches
    \/ NoMatch
    \/ StartAccept
    \/ NothingToAccept
    \/ AcceptEnds

Spec == Init /\ [][Next]_vars

-----------------------------------------------------------------------------
Filters == [domain : Seq(Chars), types : Seq(Types \union {EMPTY})]

TypeOK ==
    /\ options \in [accept : OptionLists.accept, reject : OptionLists.reject]
    /\ pc \in {"parseAccept", "parseReject", "idle", "reject", "accept", "decided"}
    /\ i \in Nat \ {0}
    /\ pc = "reject" => i <= Len(rejectFilters) + 1
    /\ pc = "accept" => i <= Len(acceptFilters) + 1
    /\ acceptFilters \in Seq(Filters)
    /\ rejectFilters \in Seq(Filters)
    /\ query \in Queries \union {NoQuery}
    /\ pc \in {"reject", "accept", "decided"} => query \in Queries
    /\ accepted \in BOOLEAN

(* The filters a list of options asks for.                                 *)
FiltersOf(list) == {FilterOf(list[k]) : k \in {k \in DOMAIN list : list[k].wellFormed}}

Rejects == FiltersOf(options.reject)
Accepts == FiltersOf(options.accept)

(* The two loops with their early ends, over the lists the parser made,    *)
(* come to this: no reject option matches, and an accept option does if    *)
(* there is a well-formed one. A reject option outweighs every accept one. *)
DecisionIsRule ==
    pc = "decided" =>
        (accepted <=>
            /\ \A f \in Rejects : ~Matches(f, query)
            /\ Accepts = {} \/ \E f \in Accepts : Matches(f, query))

-----------------------------------------------------------------------------
(* The reference: a name is within a domain by its labels, in any case.    *)
Folded(s) == [k \in DOMAIN s |-> Lower[s[k]]]

Within(name, domain) ==
    \/ domain = <<DOT>>
    \/ Folded(name) = Folded(domain)
    \/ IsSuffix(<<DOT>> \o Folded(domain), Folded(name))

(* No name at all is a name of every domain.                               *)
Covers(f, q) ==
    /\ q.name = <<>> \/ Within(q.name, f.domain)
    /\ f.types = <<>> \/ q.type \in ToSet(f.types)

(* A query the filters treat as text without harm: everything is in lower  *)
(* case, and no domain ends in the middle of a label of the name.          *)
Plain(q) ==
    /\ Folded(q.name) = q.name
    /\ \A f \in Rejects \union Accepts :
        /\ Folded(f.domain) = f.domain
        /\ IsSuffix(f.domain, q.name) => Within(q.name, f.domain)

(* A plain query is decided by labels: no name within a domain is missed,  *)
(* whether its option ends in a dot, is empty, or is the name itself. A    *)
(* query without a name, which a cut message makes, is decided by its type.*)
AgreesWithLabels ==
    pc = "decided" /\ Plain(query) =>
        (accepted <=>
            /\ \A f \in Rejects : ~Covers(f, query)
            /\ Accepts = {} \/ \E f \in Accepts : Covers(f, query))

(* "Accept any queries within the discodns.net domain" (README.md:271).    *)
(* Not so: the domain may end in the middle of a label of the name.        *)
AcceptsWithinOnly ==
    pc = "decided" /\ accepted =>
        Accepts = {} \/ \E f \in Accepts : Within(query.name, f.domain)

(* "Reject any queries within the discodns.net domain that are for IPv6    *)
(* lookups" (README.md:273). Not so for a name in another case, which the  *)
(* resolver looks up in lower case (resolver.go:315).                      *)
RejectsAllWithin ==
    pc = "decided" /\ accepted => \A f \in Rejects : ~Covers(f, query)

(* The description of --accept: "Limit DNS queries to a set of             *)
(* domain:[type,...] pairs" (main.go:32). Not so if no option is well      *)
(* formed: then every query is accepted.                                   *)
AcceptLimits ==
    pc = "decided" /\ accepted /\ options.accept # <<>> =>
        \E f \in Accepts : Matches(f, query)
=============================================================================
