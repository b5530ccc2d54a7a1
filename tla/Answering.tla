------------------------------ MODULE Answering ------------------------------
(***************************************************************************)
(* What one question promises its caller (resolver.go, AnswerQuestion      *)
(* followed by gatherFromChannels), with no goroutine and no channel: the  *)
(* lookup of each asked record type is decided exactly once, and then the  *)
(* caller gets, in one step, all the records of the lookups that found     *)
(* some and one error for each lookup that failed.                         *)
(***************************************************************************)
EXTENDS Integers

CONSTANTS
    Types,          \* the record types with a converter
    CNAME,          \* the one a question for a single type falls back to
    ANY, UNKNOWN,     \* the ANY query type, and a type without a converter
    MaxRecords      \* bound: the records one lookup returns

VARIABLES
    qtype,      \* the type of the question
    outcome,    \* what the lookup started for each type came to
    reply       \* what the caller got

avars == <<qtype, outcome, reply>>

-----------------------------------------------------------------------------
QTypes == Types \union {ANY, UNKNOWN}

(* The result of a lookup: n records of type "of", or an error. *)
Outcomes == [of : Types, n : 0..MaxRecords, err : BOOLEAN]

Undecided == [undecided |-> TRUE]
NoReply   == [none |-> TRUE]

(* The types a question for t has looked up. *)
AskedBy(t) == IF t = ANY THEN Types ELSE {t} \intersect Types

(* The outcomes the lookup for type w may have in a question for t. Only a *)
(* question for a single type falls back to the CNAME of the name, and     *)
(* then returns at most one record.                                        *)
Legal(t, w) ==
    {o \in Outcomes :
        /\ o.err => o.n = 0
        /\ o.of # w => t # ANY /\ o.of = CNAME /\ o.n <= 1}

RecordsOf(o) == {<<o.of, i>> : i \in 1..o.n}

AInit ==
    /\ qtype \in QTypes
    /\ outcome = [w \in Types |-> Undecided]
    /\ reply = NoReply

Decide(w) ==
    /\ w \in AskedBy(qtype)
    /\ outcome[w] = Undecided
    /\ \E o \in Legal(qtype, w) : outcome' = [outcome EXCEPT ![w] = o]
    /\ UNCHANGED <<qtype, reply>>

Reply ==
    /\ reply = NoReply
    /\ \A w \in AskedBy(qtype) : outcome[w] # Undecided
    /\ reply' = [answers |-> UNION {RecordsOf(outcome[w]) : w \in AskedBy(qtype)},
                 errors  |-> {w \in AskedBy(qtype) : outcome[w].err}]
    /\ UNCHANGED <<qtype, outcome>>

ANext == Reply \/ \E w \in Types : Decide(w)

ASpec == AInit /\ [][ANext]_avars
=============================================================================
