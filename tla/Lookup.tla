------------------------------- MODULE Lookup -------------------------------
(***************************************************************************)
(* One query in the resolver (resolver.go: Lookup, Authority and           *)
(* LookupAnswersForType) while others write to etcd and reads fail.        *)
(*                                                                         *)
(* Every etcd request is an action of its own, so that the store may       *)
(* change between any two of them. The goroutines of one question are      *)
(* those of AnswerQuestion, which implements Answering: the lookups of an  *)
(* ANY question are made in any order, and the answers and errors of a     *)
(* question are complete when it returns.                                  *)
(***************************************************************************)
EXTENDS Zone

CONSTANTS
    Queries,        \* the queries considered
    Contents,       \* for every key that may be written, its contents
    MaxWrites,      \* bound: writes while the query is answered
    MaxFailures     \* bound: reads that fail

ASSUME QueriesAssumption == \A q \in Queries : QueryOK(q)
ASSUME ContentsAssumption ==
    \A k \in DOMAIN Contents : Contents[k] \subseteq SUBSET Values
ASSUME BoundsAssumption == MaxWrites \in Nat /\ MaxFailures \in Nat

Keys == DOMAIN Contents

VARIABLES
    store,      \* the content of every key in etcd
    writes,     \* how often it was written
    query,      \* req.Question[0]
    pc,         \* "question", "authority" or "replied"
    level,      \* which question of the query is asked: 0 or a wildcard
    pending,    \* the types of this question still to be looked up
    fallback,   \* whether this question fell back to the CNAME
    answers,    \* the answers to this question
    errs,       \* whether a lookup of this question failed
    errored,    \* whether one of an earlier question did
    step,       \* Authority: the subdomain tried
    response,   \* msg
    held,       \* history: the contents of every key since the query arrived
    failed,     \* history: the reads that failed
    seen        \* history: the reads made, with what they showed

etcd    == <<store, writes, held>>
qvars   == <<level, pending, fallback, answers, errs, errored>>
vars    == <<etcd, qvars, query, pc, step, response, failed, seen>>

-----------------------------------------------------------------------------
NoResponse == [none |-> TRUE]
Content(k) == IF k \in Keys THEN store[k] ELSE {}

Records(name, t, content) == [owner : {Lowered(name)}, type : {t}, val : content]

(* The rest of the machine when a question for level l starts.             *)
Pending(q, l) == IF l \in Levels(q) THEN Asked(q.type) ELSE {}

Init ==
    /\ query \in Queries
    /\ store \in {s \in [Keys -> UNION {Contents[k] : k \in Keys}] :
                    \A k \in Keys : s[k] \in Contents[k]}
    /\ writes = 0
    /\ pc = "question"
    /\ level = FirstLevel(query)
    /\ pending = Pending(query, level)
    /\ fallback = FALSE
    /\ answers = {}
    /\ errs = FALSE
    /\ errored = FALSE
    /\ step = 0
    /\ response = NoResponse
    /\ held = [k \in Keys |-> {store[k]}]
    /\ failed = {}
    /\ seen = {}

-----------------------------------------------------------------------------
(* Another client of etcd writes or deletes a key.                         *)
Write ==
    /\ pc # "replied"
    /\ writes < MaxWrites
    /\ \E k \in Keys : \E c \in Contents[k] \ {store[k]} :
        /\ store' = [store EXCEPT ![k] = c]
        /\ held' = [held EXCEPT ![k] = held[k] \union {c}]
    /\ writes' = writes + 1
    /\ UNCHANGED <<qvars, query, pc, step, response, failed, seen>>

-----------------------------------------------------------------------------
(* Read r shows the content of key k, or the failure of etcd.              *)
Read(r, k, content) ==
    /\ \/ content = Content(k) /\ failed' = failed
       \/ /\ content = {ETCDERROR}
          /\ Cardinality(failed) < MaxFailures
          /\ failed' = failed \union {r}
    /\ seen' = seen \union {<<r, content>>}

(* LookupAnswersForType for type t of the current question. A question for *)
(* a single type that finds nothing goes on with the CNAME of its name.    *)
LookupType(t) ==
    /\ pc = "question"
    /\ t \in pending
    /\ ~fallback
    /\ LET name == Domain(query, level)
       IN  \E content \in {Content(Key(name, t)), {ETCDERROR}} :
            /\ Read(<<"record", level, t>>, Key(name, t), content)
            /\ errs' = (errs \/ Bad(content))
            /\ answers' = IF Bad(content) THEN answers
                          ELSE answers \union Records(name, t, content)
            /\ fallback' = (query.type # ANY /\ content = {})
            /\ pending' = IF fallback' THEN {CNAME} ELSE pending \ {t}
    /\ UNCHANGED <<etcd, query, pc, level, errored, step, response>>

(* Mutant: several CNAMEs are answers.                                     *)
LookupCNAME_Several ==
    /\ pc = "question"
    /\ fallback
    /\ pending # {}
    /\ LET name == Domain(query, level)
       IN  \E content \in {Content(Key(name, CNAME)), {ETCDERROR}} :
            /\ Read(<<"alias", level, CNAME>>, Key(name, CNAME), content)
            /\ errs' = Bad(content)
            /\ answers' = IF errs' THEN {} ELSE Records(name, CNAME, content)
    /\ pending' = {}
    /\ UNCHANGED <<etcd, query, pc, level, fallback, errored, step, response>>

(* The CNAME of a name without records of the type: more than one is an    *)
(* error.                                                                  *)
LookupCNAME ==
    /\ pc = "question"
    /\ fallback
    /\ pending # {}
    /\ LET name == Domain(query, level)
       IN  \E content \in {Content(Key(name, CNAME)), {ETCDERROR}} :
            /\ Read(<<"alias", level, CNAME>>, Key(name, CNAME), content)
            /\ errs' = (Bad(content) \/ Cardinality(content) > 1)
            /\ answers' = IF errs' THEN {} ELSE Records(name, CNAME, content)
    /\ pending' = {}
    /\ UNCHANGED <<etcd, query, pc, level, fallback, errored, step, response>>

-----------------------------------------------------------------------------
(* Mutant: the channels of a type without a converter are never closed.    *)
Gathered_NotUnknown == pc = "question" /\ pending = {} /\ query.type # UNKNOWN

(* The answers and the errors of the current question are gathered.        *)
Gathered == pc = "question" /\ pending = {}
Errored  == errored \/ errs

(* Whether the search goes on: without answers there is the next wildcard. *)
Asking == answers = {} /\ level < LastLevel(query)

(* Mutant: a wildcard is skipped.                                          *)
NextQuestion_Skips ==
    /\ Gathered
    /\ Asking
    /\ level' = LastLevel(query)
    /\ pending' = Pending(query, level')
    /\ fallback' = FALSE
    /\ errs' = FALSE
    /\ errored' = Errored
    /\ UNCHANGED <<etcd, answers, query, pc, step, response, failed, seen>>

(* The next wildcard; an error is not forgotten.                           *)
NextQuestion ==
    /\ Gathered
    /\ Asking
    /\ level' = level + 1
    /\ pending' = Pending(query, level')
    /\ fallback' = FALSE
    /\ errs' = FALSE
    /\ errored' = Errored
    /\ UNCHANGED <<etcd, answers, query, pc, step, response, failed, seen>>

Respond(msg) ==
    /\ pc' = "replied"
    /\ response' = msg
    /\ UNCHANGED <<etcd, qvars, query, step, failed, seen>>

ReplyError ==
    /\ Gathered
    /\ ~Asking
    /\ Errored
    /\ Respond([rcode |-> "SERVFAIL", aa |-> TRUE, answers |-> {}, ns |-> {}])

(* The answers carry the name that was asked, whichever name had them.     *)
ReplyAnswers ==
    /\ Gathered
    /\ ~Errored
    /\ answers # {}
    /\ Respond([rcode |-> "NOERROR", aa |-> TRUE,
                answers |-> {[rr EXCEPT !.owner = query.name] : rr \in answers}, ns |-> {}])

(* Mutant: the search starts at the parent of the name.                    *)
SeekAuthority_AtParent ==
    /\ Gathered
    /\ ~Asking
    /\ ~Errored
    /\ answers = {}
    /\ pc' = "authority"
    /\ step' = 2
    /\ UNCHANGED <<etcd, qvars, query, response, failed, seen>>

(* No answers and no error: look for the authority.                        *)
SeekAuthority ==
    /\ Gathered
    /\ ~Asking
    /\ ~Errored
    /\ answers = {}
    /\ pc' = "authority"
    /\ step' = 1
    /\ UNCHANGED <<etcd, qvars, query, response, failed, seen>>

-----------------------------------------------------------------------------
(* A denial names the authority found, if any.                             *)
Deny(ns) ==
    /\ pc' = "replied"
    /\ response' = [rcode |-> "NXDOMAIN", aa |-> ns # {}, answers |-> {}, ns |-> ns]
    /\ step' = step

(* Mutant: the loop takes one step more than there are subdomains.         *)
LookupSOA_OneMore ==
    /\ pc = "authority"
    /\ LET name == Suffix(query.name, step)
       IN  \E content \in {Content(Key(name, SOA)), {ETCDERROR}} :
            /\ Read(<<"soa", step, SOA>>, Key(name, SOA), content)
            /\ \/ Bad(content) /\ Deny({})
               \/ ~Bad(content) /\ Cardinality(content) = 1 /\ Deny(Records(name, SOA, content))
               \/ /\ ~Bad(content)
                  /\ Cardinality(content) # 1
                  /\ IF step <= LastStep(query)
                     THEN step' = step + 1 /\ UNCHANGED <<pc, response>>
                     ELSE Deny({})
    /\ UNCHANGED <<etcd, qvars, query>>

(* Authority: one SOA lookup. An error ends the search without one, and a  *)
(* name with none or several SOAs is passed over.                          *)
LookupSOA ==
    /\ pc = "authority"
    /\ LET name == Suffix(query.name, step)
       IN  \E content \in {Content(Key(name, SOA)), {ETCDERROR}} :
            /\ Read(<<"soa", step, SOA>>, Key(name, SOA), content)
            /\ \/ Bad(content) /\ Deny({})
               \/ ~Bad(content) /\ Cardinality(content) = 1 /\ Deny(Records(name, SOA, content))
               \/ /\ ~Bad(content)
                  /\ Cardinality(content) # 1
                  /\ IF step < LastStep(query)
                     THEN step' = step + 1 /\ UNCHANGED <<pc, response>>
                     ELSE Deny({})
    /\ UNCHANGED <<etcd, qvars, query>>

-----------------------------------------------------------------------------
Terminated == pc = "replied" /\ UNCHANGED vars

Resolver ==
    \/ \E t \in Types : LookupType(t)
    \/ LookupCNAME
    \/ NextQuestion
    \/ ReplyError
    \/ ReplyAnswers
    \/ SeekAuthority
    \/ LookupSOA

Next == Write \/ Resolver \/ Terminated

(* The resolver goes on; nobody has to write.                              *)
Spec == Init /\ [][Next]_vars /\ WF_vars(Resolver)

-----------------------------------------------------------------------------
(* The state keeps its types, and the loops stay within the name: the      *)
(* level within its wildcards, the step within its subdomains.             *)
TypeOK ==
    /\ store \in [Keys -> SUBSET Values]
    /\ writes \in 0..MaxWrites
    /\ query \in Queries
    /\ pc \in {"question", "authority", "replied"}
    /\ level = FirstLevel(query) \/ level \in Levels(query)
    /\ pending \subseteq Types
    /\ fallback \in BOOLEAN
    /\ answers \subseteq [owner : Seq(Labels), type : Types, val : Values]
    /\ errs \in BOOLEAN
    /\ errored \in BOOLEAN
    /\ step \in 0..LastStep(query)
    /\ held \in [Keys -> SUBSET SUBSET Values]
    /\ Cardinality(failed) <= MaxFailures

Replied(rcode) == pc = "replied" /\ response.rcode = rcode

(* A reply is SERVFAIL exactly when a lookup of one of its questions went  *)
(* wrong: a wildcard further up never hides the failure of a more specific *)
(* lookup, and a failed SOA lookup never turns a denial into a SERVFAIL.   *)
Wrong(r, content) ==
    \/ r[1] # "soa" /\ Bad(content)
    \/ r[1] = "alias" /\ Cardinality(content) > 1

ServfailIffWrong ==
    pc = "replied" =>
        (Replied("SERVFAIL") <=> \E s \in seen : Wrong(s[1], s[2]))

(* Records nobody touches while the query is answered are not overlooked:  *)
(* the reply comes from their level or from a more specific one, and from  *)
(* their level it contains them. No write elsewhere can deny them.         *)
Stable(k) == k \in Keys /\ held[k] = {store[k]} /\ store[k] # {}

StableRecordsPrevail ==
    \A i \in Levels(query) : \A t \in Asked(query.type) :
        LET k == Key(Domain(query, i), t)
        IN  Stable(k) /\ pc = "replied" /\ ~Replied("SERVFAIL") =>
                /\ Replied("NOERROR")
                /\ level <= i
                /\ level = i => [owner : {query.name}, type : {t}, val : store[k]]
                                    \subseteq response.answers

(* A denial names the closest SOA: one that nobody touches is passed over  *)
(* only for one closer to the name, or because an SOA lookup failed.       *)
ClosestAuthority ==
    \A i \in 1..LastStep(query) :
        LET k == Key(Suffix(query.name, i), SOA)
        IN  Replied("NXDOMAIN") /\ Stable(k) /\ Cardinality(store[k]) = 1 =>
                \/ response.aa /\ response.ns # {} /\ step <= i
                \/ \E s \in seen : s[1][1] = "soa" /\ Bad(s[2])

(* Every query is answered, whatever is written meanwhile and fails.       *)
EveryQueryIsAnswered == <>(pc = "replied")

(* The reply is the resolution of what the reads of the query could see.   *)
Abstract == INSTANCE Resolution

ImplementsResolution == Abstract!RSpec
=============================================================================
