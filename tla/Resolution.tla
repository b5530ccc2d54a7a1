----------------------------- MODULE Resolution -----------------------------
(***************************************************************************)
(* What a reply means. The store changes while a query is answered and a   *)
(* read may fail, so that the reply is not the resolution of the store at  *)
(* one moment: it is the resolution of a view, in which every read of the  *)
(* query shows a content its key held between the arrival of the query     *)
(* and the reply, or one of the failures of etcd.                          *)
(***************************************************************************)
EXTENDS Zone

VARIABLES
    query,      \* the question
    held,       \* for every key, its contents since the query arrived
    failed,     \* the reads that failed
    response    \* the reply

rvars == <<query, held, failed, response>>

NoResponse == [none |-> TRUE]

-----------------------------------------------------------------------------
(* The reads a query may make, and the key each of them reads.             *)
RecordReads(q) == {<<"record", i, t>> : i \in Levels(q), t \in Asked(q.type)}
AliasReads(q)  == IF q.type \in Types THEN {<<"alias", i, CNAME>> : i \in Levels(q)} ELSE {}
SoaReads(q)    == {<<"soa", i, SOA>> : i \in 1..LastStep(q)}
Reads(q)       == RecordReads(q) \union AliasReads(q) \union SoaReads(q)

KeyOf(q, r) ==
    IF r[1] = "soa" THEN Key(Suffix(q.name, r[2]), SOA)
                    ELSE Key(Domain(q, r[2]), r[3])

Held(k) == IF k \in DOMAIN held THEN held[k] ELSE {{}}

(* The views of query q: a failed read shows the failure, another read one *)
(* of the contents of its key. Most keys have had one content only.        *)
Views(q, fails) ==
    LET Seen(r) == Held(KeyOf(q, r))
        changed == {r \in Reads(q) \ fails : Cardinality(Seen(r)) > 1}
        choices == {g \in [changed -> UNION {Seen(r) : r \in changed}] :
                        \A r \in changed : g[r] \in Seen(r)}
    IN  {[r \in Reads(q) |-> CASE r \in fails   -> {ETCDERROR}
                                [] r \in changed -> g[r]
                                [] OTHER         -> CHOOSE c \in Seen(r) : TRUE]
            : g \in choices}

-----------------------------------------------------------------------------
(* The resolution of query q in view v.                                    *)

(* A question for one type falls back to the CNAME of its name.            *)
FallsBack(q, v, i) == q.type \in Types /\ v[<<"record", i, q.type>>] = {}

Found(q, content, t) ==
    IF Bad(content) THEN {} ELSE [owner : {q.name}, type : {t}, val : content]

LevelAnswers(q, v, i) ==
    IF FallsBack(q, v, i)
    THEN LET aliases == v[<<"alias", i, CNAME>>]
         IN  IF Cardinality(aliases) > 1 THEN {} ELSE Found(q, aliases, CNAME)
    ELSE UNION {Found(q, v[<<"record", i, t>>], t) : t \in Asked(q.type)}

LevelFails(q, v, i) ==
    \/ \E t \in Asked(q.type) : Bad(v[<<"record", i, t>>])
    \/ /\ FallsBack(q, v, i)
       /\ \/ Bad(v[<<"alias", i, CNAME>>])
          \/ Cardinality(v[<<"alias", i, CNAME>>]) > 1

(* The levels that count: down to the most specific one with answers.      *)
Consulted(q, v) ==
    {i \in Levels(q) : \A j \in Levels(q) : j < i => LevelAnswers(q, v, j) = {}}

(* The closest SOA: a name with none or with several is passed over, and   *)
(* a failed read ends the search without one.                              *)
Closest(q, v) ==
    LET decisive == {i \in 1..LastStep(q) :
                        LET c == v[<<"soa", i, SOA>>] IN Bad(c) \/ Cardinality(c) = 1}
    IN  UNION {LET c == v[<<"soa", i, SOA>>]
               IN  IF Bad(c) THEN {}
                   ELSE [owner : {Lowered(Suffix(q.name, i))}, type : {SOA}, val : c]
               : i \in {i \in decisive : \A j \in decisive : i <= j}}

Resolve(q, v) ==
    LET answers == UNION {LevelAnswers(q, v, i) : i \in Consulted(q, v)}
        ns      == Closest(q, v)
    IN  IF \E i \in Consulted(q, v) : LevelFails(q, v, i)
        THEN [rcode |-> "SERVFAIL", aa |-> TRUE, answers |-> {}, ns |-> {}]
        ELSE IF answers # {}
        THEN [rcode |-> "NOERROR", aa |-> TRUE, answers |-> answers, ns |-> {}]
        ELSE [rcode |-> "NXDOMAIN", aa |-> ns # {}, answers |-> {}, ns |-> ns]

-----------------------------------------------------------------------------
RInit ==
    /\ \A k \in DOMAIN held : Cardinality(held[k]) = 1
    /\ failed = {}
    /\ response = NoResponse

(* A key gets a new content, or a read fails.                              *)
Change ==
    /\ response = NoResponse
    /\ \E k \in DOMAIN held, c \in SUBSET Values :
        held' = [held EXCEPT ![k] = held[k] \union {c}]
    /\ UNCHANGED <<query, failed, response>>

Fails == \E r \in Reads(query) : failed' = failed \union {r}

Fail == response = NoResponse /\ Fails /\ UNCHANGED <<query, held, response>>

(* The reply may come with the failure of the last read.                   *)
Reply ==
    /\ response = NoResponse
    /\ UNCHANGED failed \/ Fails
    /\ \E v \in Views(query, failed') : response' = Resolve(query, v)
    /\ UNCHANGED <<query, held>>

RNext == Change \/ Fail \/ Reply

RSpec == RInit /\ [][RNext]_rvars
=============================================================================
