--------------------------- MODULE ResolutionProofs ---------------------------
(* Lookup implements Resolution: every reply is the resolution of a view.  *)
EXTENDS LookupProofs

-----------------------------------------------------------------------------
(* The reads sn, of which fails failed, can be those of one view: each was *)
(* made once and shows what its key has held, or the failure.              *)
Consistent(sn, fails) ==
    /\ \A s \in sn :
        /\ s[1] \in Abstract!Reads(query)
        /\ s[1] \in fails => s[2] = {ETCDERROR}
        /\ s[1] \notin fails => s[2] \in Abstract!Held(Abstract!KeyOf(query, s[1]))
    /\ \A s, u \in sn : s[1] = u[1] => s[2] = u[2]
    /\ \A r \in fails : \E s \in sn : s[1] = r

(* No read is made again: the levels, the types of this level and the      *)
(* subdomains are taken in turn.                                           *)
OnceInv ==
    \A s \in seen : \A i \in Nat, t \in Types :
        /\ s[1] = <<"record", i, t>> => i < level \/ (i = level /\ (t \notin pending \/ fallback))
        /\ s[1] = <<"alias", i, t>> => i < level \/ (i = level /\ fallback /\ pending = {})
        /\ s[1] = <<"soa", i, t>> => (pc = "authority" /\ i < step) \/ pc = "replied"

-----------------------------------------------------------------------------
(* What a view shows of a type and of the CNAME at a level, and of an SOA. *)
Record(v, i, t) == v[<<"record", i, t>>]
Alias(v, i)     == v[<<"alias", i, CNAME>>]
Soa(v, i)       == v[<<"soa", i, SOA>>]

(* The answers of some types at a level.                                   *)
AnswersOf(v, i, S) == UNION {Abstract!Found(query, Record(v, i, t), t) : t \in S}

(* A view that has what the reads so far have shown.                       *)
Agrees(v, sn) == \A s \in sn : v[s[1]] = s[2]

(* What such a view says of the levels before this one,                    *)
PastOf(v) ==
    /\ \A i \in Levels(query) : i < level => Abstract!LevelAnswers(query, v, i) = {}
    /\ errored <=> \E i \in Levels(query) : i < level /\ Abstract!LevelFails(query, v, i)

(* of this level, before and after it falls back to the CNAME,             *)
DirectOf(v) ==
    /\ query.type \in Types /\ pending = {} => Record(v, level, query.type) # {}
    /\ errs <=> \E t \in Asked(query.type) \ pending : Bad(Record(v, level, t))
    /\ Renamed(answers, query.name) = AnswersOf(v, level, Asked(query.type) \ pending)

AliasOf(v) ==
    /\ query.type \in Types
    /\ Record(v, level, query.type) = {}
    /\ pending = {} =>
        /\ errs <=> Bad(Alias(v, level)) \/ Cardinality(Alias(v, level)) > 1
        /\ Renamed(answers, query.name) =
                IF errs THEN {} ELSE Abstract!Found(query, Alias(v, level), CNAME)

HereOf(v) == IF fallback THEN AliasOf(v) ELSE DirectOf(v)

(* and of the denial once no level has answers.                            *)
DeniedBy(v) ==
    /\ \A i \in Levels(query) :
        Abstract!LevelAnswers(query, v, i) = {} /\ ~Abstract!LevelFails(query, v, i)
    /\ \A i \in 1..step - 1 : ~Bad(Soa(v, i)) /\ Cardinality(Soa(v, i)) # 1

ViewInv ==
    \A v : Agrees(v, seen) =>
        /\ pc = "question" => PastOf(v) /\ (level \in Levels(query) => HereOf(v))
        /\ pc = "authority" => DeniedBy(v)

RInv ==
    /\ IInv
    /\ Consistent(seen, failed)
    /\ OnceInv
    /\ ViewInv

-----------------------------------------------------------------------------
(* The vocabulary of Resolution is that of Lookup.                         *)
LEMMA SameZone ==
    ASSUME NEW q, NEW i, NEW t, NEW name, NEW content
    PROVE  /\ Abstract!Levels(q) = Levels(q)
           /\ Abstract!LastStep(q) = LastStep(q)
           /\ Abstract!Asked(t) = Asked(t)
           /\ Abstract!Key(name, t) = Key(name, t)
           /\ Abstract!Lowered(name) = Lowered(name)
           /\ Abstract!Suffix(name, i) = Suffix(name, i)
           /\ Abstract!Domain(q, i) = Domain(q, i)
           /\ Abstract!Bad(content) = Bad(content)
<1>1. Abstract!Levels(q) = Levels(q)
  BY DEF Levels, FirstLevel, LastLevel, Abstract!Levels, Abstract!FirstLevel, Abstract!LastLevel
<1>2. Abstract!LastStep(q) = LastStep(q)
  BY DEF LastStep, Abstract!LastStep
<1>3. Abstract!Asked(t) = Asked(t)
  BY DEF Asked, Abstract!Asked
<1>4. Abstract!Key(name, t) = Key(name, t) /\ Abstract!Lowered(name) = Lowered(name)
  BY DEF Key, Lowered, Abstract!Key, Abstract!Lowered
<1>5. Abstract!Suffix(name, i) = Suffix(name, i) /\ Abstract!Domain(q, i) = Domain(q, i)
  BY DEF Suffix, Domain, Abstract!Suffix, Abstract!Domain
<1>6. Abstract!Bad(content) = Bad(content)
  BY DEF Bad, Abstract!Bad
<1> QED
  BY <1>1, <1>2, <1>3, <1>4, <1>5, <1>6

(* Resolution counts as Lookup does.                                       *)
LEMMA SameCardinality == \A S : Abstract!Cardinality(S) = Cardinality(S)
  BY DEF Cardinality, Abstract!Cardinality

(* What a view says of a level that does not fall back,                    *)
LEMMA DirectLevel ==
    ASSUME NEW v, NEW i, ~(query.type \in Types /\ Record(v, i, query.type) = {})
    PROVE  /\ Abstract!LevelAnswers(query, v, i) = AnswersOf(v, i, Asked(query.type))
           /\ Abstract!LevelFails(query, v, i) <=> \E t \in Asked(query.type) : Bad(Record(v, i, t))
<1>1. ~Abstract!FallsBack(query, v, i)
  BY DEF Abstract!FallsBack, Record
<1>2. Abstract!LevelAnswers(query, v, i) = AnswersOf(v, i, Abstract!Asked(query.type))
  BY <1>1 DEF Abstract!LevelAnswers, AnswersOf, Record
<1>3. Abstract!Asked(query.type) = Asked(query.type) /\ \A c : Abstract!Bad(c) <=> Bad(c)
  BY DEF Asked, Abstract!Asked, Bad, Abstract!Bad
<1>4. Abstract!LevelFails(query, v, i) <=> \E t \in Abstract!Asked(query.type) : Abstract!Bad(Record(v, i, t))
  BY <1>1 DEF Abstract!LevelFails, Record
<1> QED
  BY <1>2, <1>3, <1>4

(* and of one that does.                                                   *)
LEMMA AliasLevel ==
    ASSUME NEW v, NEW i, query.type \in Types, Record(v, i, query.type) = {}
    PROVE  /\ Abstract!LevelFails(query, v, i) <=> Bad(Alias(v, i)) \/ Cardinality(Alias(v, i)) > 1
           /\ Abstract!LevelAnswers(query, v, i) =
                IF Abstract!LevelFails(query, v, i) THEN {} ELSE Abstract!Found(query, Alias(v, i), CNAME)
<1>1. Abstract!FallsBack(query, v, i)
  BY DEF Abstract!FallsBack, Record
<1>2. Abstract!Asked(query.type) = {query.type} /\ ~Bad({}) /\ \A c : Abstract!Bad(c) <=> Bad(c)
  BY ZoneTypesAssumption DEF Abstract!Asked, Bad, Abstract!Bad
<1>3. Abstract!LevelFails(query, v, i) <=> Abstract!Bad(Alias(v, i)) \/ Cardinality(Alias(v, i)) > 1
  <2>1. \A t \in Abstract!Asked(query.type) : ~Abstract!Bad(Record(v, i, t))
    BY <1>2
  <2> QED
    BY <1>1, <2>1, SameCardinality DEF Abstract!LevelFails, Record, Alias
<1>4. Abstract!LevelAnswers(query, v, i) =
            IF Cardinality(Alias(v, i)) > 1 THEN {} ELSE Abstract!Found(query, Alias(v, i), CNAME)
  BY <1>1, SameCardinality DEF Abstract!LevelAnswers, Alias
<1>5. Abstract!Bad(Alias(v, i)) => Abstract!Found(query, Alias(v, i), CNAME) = {}
  BY DEF Abstract!Found
<1> QED
  BY <1>2, <1>3, <1>4, <1>5

(* A level whose lookups are all made is what every view says of it.       *)
LEMMA LevelDone ==
    ASSUME NEW v, HereOf(v), pending = {}
    PROVE  /\ Renamed(answers, query.name) = Abstract!LevelAnswers(query, v, level)
           /\ errs <=> Abstract!LevelFails(query, v, level)
<1>1. CASE fallback
  BY <1>1, AliasLevel DEF HereOf, AliasOf
<1>2. CASE ~fallback
  <2>1. DirectOf(v) /\ Asked(query.type) \ pending = Asked(query.type)
    BY <1>2 DEF HereOf
  <2>2. ~(query.type \in Types /\ Record(v, level, query.type) = {})
    BY <2>1 DEF DirectOf
  <2> QED
    BY <2>1, <2>2, DirectLevel DEF DirectOf
<1> QED
  BY <1>1, <1>2

-----------------------------------------------------------------------------
(* The records of a content under one name.                                *)
Own(x, t, content) == [owner : {x}, type : {t}, val : content]

(* What is found under a name is found under the name that was asked.      *)
LEMMA RenamedRecords ==
    ASSUME NEW name, NEW t, NEW content, NEW x
    PROVE  Renamed(Records(name, t, content), x) = Own(x, t, content)
<1>1. [owner : {x}, type : {t}, val : content] \subseteq Renamed(Records(name, t, content), x)
  BY RenamedFacts
<1>2. ASSUME NEW rec \in Renamed(Records(name, t, content), x)
      PROVE  rec \in [owner : {x}, type : {t}, val : content]
  <2>1. PICK rr \in Records(name, t, content) : rec = [rr EXCEPT !.owner = x]
    BY <1>2 DEF Renamed
  <2> QED
    BY <2>1 DEF Records
<1> QED
  BY <1>1, <1>2 DEF Own

(* Renaming works on each answer by itself, and there is one for each.     *)
LEMMA RenamedUnion ==
    ASSUME NEW A, NEW B, NEW x
    PROVE  /\ Renamed(A \union B, x) = Renamed(A, x) \union Renamed(B, x)
           /\ Renamed({}, x) = {}
           /\ A # {} => Renamed(A, x) # {}
  BY DEF Renamed

(* The answers of the types already looked up grow by those of the next.   *)
LEMMA AnswersGrow ==
    ASSUME NEW v, NEW i, NEW S, NEW t
    PROVE  /\ AnswersOf(v, i, {}) = {}
           /\ AnswersOf(v, i, S \union {t}) =
                AnswersOf(v, i, S) \union Abstract!Found(query, Record(v, i, t), t)
  BY DEF AnswersOf

(* The answers found by one lookup are those of the view.                  *)
LEMMA FoundFacts ==
    ASSUME NEW name, NEW t, NEW content
    PROVE  Abstract!Found(query, content, t) =
                IF Bad(content) THEN {} ELSE Renamed(Records(name, t, content), query.name)
<1>1. Renamed(Records(name, t, content), query.name) = Own(query.name, t, content)
  BY RenamedRecords
<1>2. Abstract!Bad(content) <=> Bad(content)
  BY DEF Bad, Abstract!Bad
<1> QED
  BY <1>1, <1>2 DEF Abstract!Found, Own

-----------------------------------------------------------------------------
(* A read made for the first time leaves the reads those of one view.      *)
LEMMA ReadKeepsConsistent ==
    ASSUME Shape, Consistent(seen, failed),
           NEW r \in Abstract!Reads(query), NEW k, k = Abstract!KeyOf(query, r),
           \A s \in seen : s[1] # r,
           NEW content, Read(r, k, content)
    PROVE  Consistent(seen', failed')
<1> DEFINE e == <<r, content>>
<1>1. seen' = seen \union {e} /\ e[1] = r /\ e[2] = content
  BY DEF Read
<1>2. r \notin failed
  BY DEF Consistent
<1>3. \/ content = Content(k) /\ failed' = failed
      \/ content = {ETCDERROR} /\ failed' = failed \union {r}
  BY DEF Read
<1>4. Content(k) \in Abstract!Held(k)
  BY DEF Content, Shape, Abstract!Held
<1> HIDE DEF e
<1>5. ASSUME NEW s \in seen'
      PROVE  /\ s[1] \in Abstract!Reads(query)
             /\ s[1] \in failed' => s[2] = {ETCDERROR}
             /\ s[1] \notin failed' => s[2] \in Abstract!Held(Abstract!KeyOf(query, s[1]))
  <2>1. CASE s \in seen
    BY <2>1, <1>3 DEF Consistent
  <2>2. CASE s = e
    BY <2>2, <1>1, <1>2, <1>3, <1>4
  <2> QED
    BY <1>1, <2>1, <2>2
<1>6. \A s, u \in seen' : s[1] = u[1] => s[2] = u[2]
  BY <1>1 DEF Consistent
<1>7. \A x \in failed' : \E s \in seen' : s[1] = x
  BY <1>1, <1>3 DEF Consistent
<1> QED
  BY <1>5, <1>6, <1>7 DEF Consistent

(* A finite set that has not more than one element has no two.             *)
LEMMA AtMostOne ==
    ASSUME NEW S, IsFiniteSet(S), ~(Cardinality(S) > 1), NEW x \in S, NEW y \in S
    PROVE  x = y
<1>1. /\ IsFiniteSet(S \ {x})
      /\ Cardinality(S \ {x}) = Cardinality(S) - 1
      /\ Cardinality(S) \in Nat /\ Cardinality(S \ {x}) \in Nat
  BY FS_RemoveElement, FS_CardinalityType
<1>2. Cardinality(S \ {x}) = 0
  BY <1>1
<1>3. S \ {x} = {}
  BY <1>1, <1>2, FS_EmptySet
<1> QED
  BY <1>3

(* The contents a key has had are some, and finitely many.                 *)
LEMMA HeldFacts ==
    ASSUME Shape, NEW k
    PROVE  Abstract!Held(k) # {} /\ IsFiniteSet(Abstract!Held(k))
<1>1. IsFiniteSet(SUBSET Values)
  BY ValuesAssumption, FS_SUBSET
<1>2. Abstract!Held(k) \subseteq SUBSET Values /\ Abstract!Held(k) # {}
  BY DEF Abstract!Held, Shape
<1> QED
  BY <1>1, <1>2, FS_Subset

(* Consistent reads are those of a view.                                   *)
LEMMA ViewExists ==
    ASSUME Shape, NEW sn, NEW fails, Consistent(sn, fails)
    PROVE  \E v \in Abstract!Views(query, fails) : Agrees(v, sn)
<1> DEFINE R        == Abstract!Reads(query)
           Seen(r)  == Abstract!Held(Abstract!KeyOf(query, r))
           changed  == {r \in R \ fails : Abstract!Cardinality(Seen(r)) > 1}
           shown(r) == IF \E s \in sn : s[1] = r THEN (CHOOSE s \in sn : s[1] = r)[2]
                                                 ELSE CHOOSE c \in Seen(r) : TRUE
           g        == [r \in changed |-> shown(r)]
           choices  == {h \in [changed -> UNION {Seen(r) : r \in changed}] :
                            \A r \in changed : h[r] \in Seen(r)}
           view(h)  == [r \in R |-> CASE r \in fails   -> {ETCDERROR}
                                      [] r \in changed -> h[r]
                                      [] OTHER         -> CHOOSE c \in Seen(r) : TRUE]
<1>1. \A r : Seen(r) # {} /\ IsFiniteSet(Seen(r))
  BY HeldFacts
<1>2. \A s \in sn : shown(s[1]) = s[2]
  BY DEF Consistent
<1>3. \A r \in changed : shown(r) \in Seen(r)
  <2> SUFFICES ASSUME NEW r \in changed PROVE shown(r) \in Seen(r)
    OBVIOUS
  <2>1. CASE \E s \in sn : s[1] = r
    <3>1. PICK s \in sn : s[1] = r
      BY <2>1
    <3> QED
      BY <1>2, <3>1 DEF Consistent
  <2>2. CASE ~\E s \in sn : s[1] = r
    BY <1>1, <2>2
  <2> QED
    BY <2>1, <2>2
<1>4. g \in choices
  BY <1>3
<1>5. view(g) \in Abstract!Views(query, fails)
  <2> HIDE DEF view, choices, g
  <2>1. view(g) \in {view(h) : h \in choices}
    BY <1>4
  <2> QED
    BY <2>1, Zenon DEF view, choices, changed, Seen, R, Abstract!Views
<1>6. ASSUME NEW s \in sn PROVE view(g)[s[1]] = s[2]
  <2> DEFINE r == s[1]
  <2>1. /\ r \in R
        /\ r \in fails => s[2] = {ETCDERROR}
        /\ r \notin fails => s[2] \in Seen(r)
    BY DEF Consistent
  <2>2. CASE r \in fails
    BY <2>1, <2>2
  <2>3. CASE r \in changed
    BY <1>2, <2>1, <2>3
  <2>4. CASE r \notin fails /\ r \notin changed
    <3>1. ~(Cardinality(Seen(r)) > 1)
      BY <2>1, <2>4, SameCardinality
    <3>2. (CHOOSE c \in Seen(r) : TRUE) \in Seen(r)
      BY <1>1
    <3>3. (CHOOSE c \in Seen(r) : TRUE) = s[2]
      BY <1>1, <2>1, <2>4, <3>1, <3>2, AtMostOne
    <3> QED
      BY <2>1, <2>4, <3>3
  <2> QED
    BY <2>1, <2>2, <2>3, <2>4
<1> QED
  BY <1>5, <1>6 DEF Agrees

-----------------------------------------------------------------------------
(* The reads of Lookup are reads of Resolution, of the same keys.          *)
LEMMA RecordRead ==
    ASSUME NEW i \in Levels(query), NEW t \in Asked(query.type)
    PROVE  /\ <<"record", i, t>> \in Abstract!Reads(query)
           /\ Abstract!KeyOf(query, <<"record", i, t>>) = Key(Domain(query, i), t)
<1>1. <<"record", i, t>> \in Abstract!RecordReads(query)
  BY SameZone DEF Abstract!RecordReads
<1> QED
  BY <1>1, SameZone DEF Abstract!Reads, Abstract!KeyOf

(* The read of the CNAME belongs to questions for a single type.           *)
LEMMA AliasRead ==
    ASSUME NEW i \in Levels(query), query.type \in Types
    PROVE  /\ <<"alias", i, CNAME>> \in Abstract!Reads(query)
           /\ Abstract!KeyOf(query, <<"alias", i, CNAME>>) = Key(Domain(query, i), CNAME)
<1>1. <<"alias", i, CNAME>> \in Abstract!AliasReads(query)
  BY SameZone DEF Abstract!AliasReads
<1> QED
  BY <1>1, SameZone DEF Abstract!Reads, Abstract!KeyOf

(* Authority reads the SOA of each subdomain.                              *)
LEMMA SoaRead ==
    ASSUME NEW i \in 1..LastStep(query)
    PROVE  /\ <<"soa", i, SOA>> \in Abstract!Reads(query)
           /\ Abstract!KeyOf(query, <<"soa", i, SOA>>) = Key(Suffix(query.name, i), SOA)
<1>1. <<"soa", i, SOA>> \in Abstract!SoaReads(query)
  BY SameZone DEF Abstract!SoaReads
<1> QED
  BY <1>1, SameZone DEF Abstract!Reads, Abstract!KeyOf

(* What reads are consistent with depends on the query and the keys only.  *)
LEMMA ConsistentFrame ==
    ASSUME UNCHANGED <<query, held>>
    PROVE  Consistent(seen, failed)' <=> Consistent(seen', failed')
  BY DEF Consistent, Abstract!Held

(* A view that agrees with one more read agrees with those before it.      *)
LEMMA AgreesBefore ==
    ASSUME NEW r, NEW content, seen' = seen \union {<<r, content>>},
           NEW v, Agrees(v, seen')
    PROVE  Agrees(v, seen) /\ v[r] = content
<1> DEFINE e == <<r, content>>
<1>1. e[1] = r /\ e[2] = content /\ e \in seen' /\ seen \subseteq seen'
  OBVIOUS
<1> HIDE DEF e
<1> QED
  BY <1>1 DEF Agrees

-----------------------------------------------------------------------------
(* Before the first read every view agrees, and no level has been passed.  *)
LEMMA InitRInv == Init => RInv
<1> SUFFICES ASSUME Init PROVE RInv
  OBVIOUS
<1>1. IInv
  BY InitIInv
<1>2. /\ seen = {} /\ failed = {} /\ pc = "question" /\ level = FirstLevel(query) /\ query \in Queries
      /\ pending = Pending(query, level) /\ fallback = FALSE /\ errs = FALSE /\ errored = FALSE /\ answers = {}
  BY DEF Init
<1>3. Consistent(seen, failed) /\ OnceInv
  BY <1>2 DEF Consistent, OnceInv
<1>4. ASSUME NEW v PROVE PastOf(v) /\ (level \in Levels(query) => HereOf(v))
  <2>1. \A i \in Levels(query) : ~(i < level)
    BY <1>2, QueryFacts DEF Levels
  <2>2. level \in Levels(query) => Asked(query.type) \ pending = {} /\ (query.type \in Types => pending # {})
    BY <1>2, ZoneTypesAssumption DEF Pending, Asked
  <2>3. AnswersOf(v, level, {}) = {} /\ Renamed({}, query.name) = {}
    BY DEF AnswersOf, Renamed
  <2> QED
    BY <1>2, <2>1, <2>2, <2>3 DEF PastOf, HereOf, DirectOf
<1> QED
  BY <1>1, <1>2, <1>3, <1>4 DEF RInv, ViewInv

(* A write only adds to what the keys have held.                           *)
LEMMA WriteKeepsRInv == RInv /\ Write => RInv'
<1> SUFFICES ASSUME RInv, Write PROVE RInv'
  OBVIOUS
<1>1. IInv' /\ Shape /\ UNCHANGED <<qvars, query, pc, step, response, failed, seen>>
  BY WriteKeepsIInv DEF RInv, IInv, Write
<1>2. \A k : Abstract!Held(k) \subseteq Abstract!Held(k)'
  <2>1. PICK j \in Keys : \E c \in Contents[j] \ {store[j]} : held' = [held EXCEPT ![j] = held[j] \union {c}]
    BY DEF Write
  <2>2. PICK c : held' = [held EXCEPT ![j] = held[j] \union {c}]
    BY <2>1
  <2> QED
    BY <1>1, <2>2 DEF Shape, Abstract!Held
<1>3. Consistent(seen, failed)'
  <2>1. ASSUME NEW s \in seen
        PROVE  /\ s[1] \in Abstract!Reads(query)
               /\ s[1] \in failed => s[2] = {ETCDERROR}
               /\ s[1] \notin failed => s[2] \in Abstract!Held(Abstract!KeyOf(query, s[1]))'
    BY <1>1, <1>2 DEF RInv, Consistent
  <2> QED
    BY <1>1, <2>1 DEF RInv, Consistent
<1>4. OnceInv' /\ ViewInv'
  BY <1>1 DEF RInv, OnceInv, ViewInv, PastOf, HereOf, AliasOf, DirectOf, DeniedBy, AnswersOf, qvars
<1> QED
  BY <1>1, <1>3, <1>4 DEF RInv

(* A lookup adds what every view with this read says of the type, or       *)
(* leaves this level to the CNAME.                                         *)
LEMMA LookupTypeKeepsRInv == ASSUME NEW t \in Types PROVE RInv /\ LookupType(t) => RInv'
<1> SUFFICES ASSUME RInv, LookupType(t) PROVE RInv'
  OBVIOUS
<1> DEFINE k == RecordKey(level, t)
           r == <<"record", level, t>>
<1>1. /\ IInv /\ IInv' /\ Shape /\ pc = "question" /\ t \in pending /\ ~fallback
      /\ UNCHANGED <<etcd, query, pc, level, errored, step, response>>
  BY LookupTypeKeepsIInv DEF RInv, IInv, LookupType
<1>2. PICK content :
        /\ Read(r, k, content)
        /\ errs' = (errs \/ Bad(content))
        /\ answers' = IF Bad(content) THEN answers
                      ELSE answers \union Records(Domain(query, level), t, content)
        /\ fallback' = (query.type # ANY /\ content = {})
        /\ pending' = IF fallback' THEN {CNAME} ELSE pending \ {t}
  BY DEF LookupType, RecordKey
<1>3. seen' = seen \union {<<r, content>>}
  BY <1>2 DEF Read
<1>4. level \in Levels(query) /\ level \in Nat /\ pending \subseteq Asked(query.type)
  BY <1>1 DEF IInv, PendingInv
<1>5. query.type # ANY => query.type \in Types /\ t = query.type /\ pending = {t}
  BY <1>1, <1>4 DEF IInv, PendingInv, Asked
<1>6. \A s \in seen : s[1] # r
  BY <1>1, <1>4 DEF RInv, OnceInv
<1>7. Consistent(seen, failed)'
  <2>1. r \in Abstract!Reads(query) /\ k = Abstract!KeyOf(query, r)
    BY <1>1, <1>4, RecordRead DEF RecordKey
  <2>2. Consistent(seen', failed')
    BY <1>1, <1>2, <1>6, <2>1, ReadKeepsConsistent DEF RInv
  <2> QED
    BY <1>1, <2>2, ConsistentFrame DEF etcd
<1>8. OnceInv'
  <2> SUFFICES ASSUME NEW s \in seen', NEW i \in Nat, NEW u \in Types
               PROVE  /\ s[1] = <<"record", i, u>> => i < level' \/ (i = level' /\ (u \notin pending' \/ fallback'))
                      /\ s[1] = <<"alias", i, u>> => i < level' \/ (i = level' /\ fallback' /\ pending' = {})
                      /\ s[1] = <<"soa", i, u>> => (pc' = "authority" /\ i < step') \/ pc' = "replied"
    BY DEF OnceInv
  <2>1. CASE s \in seen
    BY <1>1, <1>2, <2>1 DEF RInv, OnceInv
  <2>2. CASE s = <<r, content>>
    <3>1. s[1] = r
      BY <2>2
    <3> QED
      BY <1>1, <1>2, <3>1
  <2> QED
    BY <1>3, <2>1, <2>2
<1>9. ViewInv'
  <2> SUFFICES ASSUME NEW v, Agrees(v, seen') PROVE PastOf(v)' /\ HereOf(v)'
    BY <1>1 DEF ViewInv
  <2>1. Agrees(v, seen) /\ Record(v, level, t) = content
    BY <1>3, AgreesBefore DEF Record
  <2>2. PastOf(v) /\ DirectOf(v)
    BY <1>1, <1>4, <2>1 DEF RInv, ViewInv, HereOf
  <2>3. PastOf(v)'
    BY <1>1, <2>2 DEF PastOf
  <2>4. CASE fallback'
    <3>1. AliasOf(v)'
      BY <1>1, <1>2, <1>5, <2>1, <2>4 DEF AliasOf
    <3> QED
      BY <2>3, <2>4, <3>1 DEF HereOf
  <2>5. CASE ~fallback'
    <3> DEFINE done == Asked(query.type) \ pending
    <3>1. pending' = pending \ {t} /\ Asked(query.type) \ pending' = done \union {t}
      BY <1>1, <1>2, <1>4, <2>5
    <3>2. query.type \in Types /\ pending' = {} => Record(v, level, query.type) # {}
      BY <1>2, <1>5, <2>1, <2>5, ZoneTypesAssumption
    <3>3. errs' <=> \E u \in done \union {t} : Bad(Record(v, level, u))
      BY <1>1, <1>2, <2>1, <2>2 DEF DirectOf
    <3>4. Renamed(answers', query.name) = AnswersOf(v, level, done \union {t})
      <4>1. /\ Renamed(answers, query.name) = AnswersOf(v, level, done)
            /\ AnswersOf(v, level, done \union {t}) =
                    AnswersOf(v, level, done) \union Abstract!Found(query, content, t)
        BY <2>1, <2>2, AnswersGrow DEF DirectOf
      <4>2. Abstract!Found(query, content, t) =
                IF Bad(content) THEN {} ELSE Renamed(Records(Domain(query, level), t, content), query.name)
        BY FoundFacts
      <4>3. Renamed(answers \union Records(Domain(query, level), t, content), query.name) =
                Renamed(answers, query.name)
                    \union Renamed(Records(Domain(query, level), t, content), query.name)
        BY RenamedUnion
      <4> QED
        BY <1>2, <4>1, <4>2, <4>3
    <3>5. DirectOf(v)'
      BY <1>1, <3>1, <3>2, <3>3, <3>4 DEF DirectOf, AnswersOf
    <3> QED
      BY <2>3, <2>5, <3>5 DEF HereOf
  <2> QED
    BY <2>3, <2>4, <2>5
<1> QED
  BY <1>1, <1>7, <1>8, <1>9 DEF RInv

(* The CNAME decides what every view says of a level that fell back.       *)
LEMMA LookupCNAMEKeepsRInv == RInv /\ LookupCNAME => RInv'
<1> SUFFICES ASSUME RInv, LookupCNAME PROVE RInv'
  OBVIOUS
<1> DEFINE k == RecordKey(level, CNAME)
           r == <<"alias", level, CNAME>>
<1>1. /\ IInv /\ IInv' /\ Shape /\ pc = "question" /\ fallback /\ pending # {} /\ pending' = {}
      /\ UNCHANGED <<etcd, query, pc, level, fallback, errored, step, response>>
  BY LookupCNAMEKeepsIInv DEF RInv, IInv, LookupCNAME
<1>2. PICK content :
        /\ Read(r, k, content)
        /\ errs' = (Bad(content) \/ Cardinality(content) > 1)
        /\ answers' = IF errs' THEN {} ELSE Records(Domain(query, level), CNAME, content)
  BY DEF LookupCNAME, RecordKey
<1>3. seen' = seen \union {<<r, content>>}
  BY <1>2 DEF Read
<1>4. level \in Levels(query) /\ level \in Nat /\ CNAME \in Types /\ query.type # ANY
  BY <1>1, ZoneTypesAssumption DEF IInv, PendingInv
<1>5. \A s \in seen : s[1] # r
  BY <1>1, <1>4 DEF RInv, OnceInv
<1>6. PICK w : Agrees(w, seen)
  BY <1>1, ViewExists DEF RInv
<1>7. query.type \in Types
  BY <1>1, <1>4, <1>6 DEF RInv, ViewInv, HereOf, AliasOf
<1>8. Consistent(seen, failed)'
  <2>1. r \in Abstract!Reads(query) /\ k = Abstract!KeyOf(query, r)
    BY <1>1, <1>4, <1>7, AliasRead DEF RecordKey
  <2>2. Consistent(seen', failed')
    BY <1>1, <1>2, <1>5, <2>1, ReadKeepsConsistent DEF RInv
  <2> QED
    BY <1>1, <2>2, ConsistentFrame DEF etcd
<1>9. OnceInv'
  <2> SUFFICES ASSUME NEW s \in seen', NEW i \in Nat, NEW u \in Types
               PROVE  /\ s[1] = <<"record", i, u>> => i < level' \/ (i = level' /\ (u \notin pending' \/ fallback'))
                      /\ s[1] = <<"alias", i, u>> => i < level' \/ (i = level' /\ fallback' /\ pending' = {})
                      /\ s[1] = <<"soa", i, u>> => (pc' = "authority" /\ i < step') \/ pc' = "replied"
    BY DEF OnceInv
  <2>1. CASE s \in seen
    BY <1>1, <1>2, <2>1 DEF RInv, OnceInv
  <2>2. CASE s = <<r, content>>
    <3>1. s[1] = r
      BY <2>2
    <3> QED
      BY <1>1, <1>2, <3>1
  <2> QED
    BY <1>3, <2>1, <2>2
<1>10. ViewInv'
  <2> SUFFICES ASSUME NEW v, Agrees(v, seen') PROVE PastOf(v)' /\ HereOf(v)'
    BY <1>1 DEF ViewInv
  <2>1. Agrees(v, seen) /\ Alias(v, level) = content
    BY <1>3, AgreesBefore DEF Alias
  <2>2. PastOf(v) /\ AliasOf(v)
    BY <1>1, <1>4, <2>1 DEF RInv, ViewInv, HereOf
  <2>3. PastOf(v)'
    BY <1>1, <2>2 DEF PastOf
  <2>4. Renamed(answers', query.name) = IF errs' THEN {} ELSE Abstract!Found(query, content, CNAME)
    <3>1. CASE errs'
      <4>1. answers' = {} /\ Renamed({}, query.name) = {}
        BY <1>2, <3>1, RenamedUnion
      <4> QED
        BY <3>1, <4>1
    <3>2. CASE ~errs'
      <4>1. Abstract!Found(query, content, CNAME) =
                IF Bad(content) THEN {} ELSE Renamed(Records(Domain(query, level), CNAME, content), query.name)
        BY FoundFacts
      <4> QED
        BY <1>2, <3>2, <4>1
    <3> QED
      BY <3>1, <3>2
  <2>5. AliasOf(v)'
    BY <1>1, <1>2, <2>1, <2>2, <2>4 DEF AliasOf
  <2> QED
    BY <1>1, <2>3, <2>5 DEF HereOf
<1> QED
  BY <1>1, <1>8, <1>9, <1>10 DEF RInv

(* A level without answers is passed with what every view says of it.      *)
LEMMA NextQuestionKeepsRInv == RInv /\ NextQuestion => RInv'
<1> SUFFICES ASSUME RInv, NextQuestion PROVE RInv'
  OBVIOUS
<1>1. /\ IInv /\ IInv' /\ query \in Queries /\ pc = "question" /\ pending = {} /\ answers = {}
      /\ level < LastLevel(query) /\ level' = level + 1 /\ pending' = Pending(query, level')
      /\ fallback' = FALSE /\ errs' = FALSE /\ errored' = (errored \/ errs)
      /\ UNCHANGED <<etcd, answers, query, pc, step, response, failed, seen>>
  BY NextQuestionKeepsIInv DEF RInv, IInv, Shape, NextQuestion, Gathered, Asking, Errored
<1>2. level \in Nat /\ level \in Levels(query) /\ level' \in Levels(query)
  BY <1>1, QueryFacts DEF IInv, PendingInv, Levels
<1>3. Consistent(seen, failed)'
  BY <1>1, ConsistentFrame DEF RInv, etcd
<1>4. OnceInv'
  BY <1>1, <1>2 DEF RInv, OnceInv
<1>5. ViewInv'
  <2> SUFFICES ASSUME NEW v, Agrees(v, seen) PROVE PastOf(v)' /\ HereOf(v)'
    BY <1>1 DEF ViewInv
  <2>1. PastOf(v) /\ HereOf(v)
    BY <1>1, <1>2 DEF RInv, ViewInv
  <2>2. Abstract!LevelAnswers(query, v, level) = {} /\ (errs <=> Abstract!LevelFails(query, v, level))
    BY <1>1, <2>1, LevelDone, RenamedUnion
  <2>3. \A i \in Levels(query) : i < level' <=> i < level \/ i = level
    BY <1>1, <1>2, QueryFacts DEF Levels
  <2>4. PastOf(v)'
    BY <1>1, <1>2, <2>1, <2>2, <2>3 DEF PastOf
  <2>5. Asked(query.type) \ pending' = {} /\ (query.type \in Types => pending' # {})
    BY <1>1, <1>2, ZoneTypesAssumption DEF Pending, Asked
  <2>6. AnswersOf(v, level', {}) = {} /\ Renamed({}, query.name) = {}
    BY DEF AnswersOf, Renamed
  <2>7. DirectOf(v)'
    BY <1>1, <2>5, <2>6 DEF DirectOf, AnswersOf
  <2> QED
    BY <1>1, <2>4, <2>7 DEF HereOf
<1> QED
  BY <1>1, <1>3, <1>4, <1>5 DEF RInv

(* After the last level no level has answers, in any view.                 *)
LEMMA NoneAnswers ==
    ASSUME RInv, pc = "question", pending = {}, answers = {}, ~Asking, ~Errored,
           NEW v, Agrees(v, seen), NEW i \in Levels(query)
    PROVE  Abstract!LevelAnswers(query, v, i) = {} /\ ~Abstract!LevelFails(query, v, i)
<1>1. /\ query \in Queries /\ level \in Nat /\ level >= FirstLevel(query)
      /\ ~(level < LastLevel(query)) /\ ~errs /\ ~errored
  BY DEF RInv, IInv, Shape, PendingInv, Asking, Errored
<1>2. PastOf(v) /\ (level \in Levels(query) => HereOf(v))
  BY DEF RInv, ViewInv
<1>3. i < level \/ i = level
  BY <1>1, QueryFacts DEF Levels
<1>4. CASE i = level
  BY <1>1, <1>2, <1>4, LevelDone, RenamedUnion
<1> QED
  BY <1>1, <1>2, <1>3, <1>4 DEF PastOf

(* The search for the authority starts with no level answering.            *)
LEMMA SeekAuthorityKeepsRInv == RInv /\ SeekAuthority => RInv'
<1> SUFFICES ASSUME RInv, SeekAuthority PROVE RInv'
  OBVIOUS
<1>1. /\ IInv' /\ pc = "question" /\ pending = {} /\ ~Asking /\ ~Errored /\ answers = {}
      /\ pc' = "authority" /\ step' = 1
      /\ UNCHANGED <<etcd, qvars, query, response, failed, seen>>
  BY SeekAuthorityKeepsIInv DEF RInv, SeekAuthority, Gathered
<1>2. Consistent(seen, failed)'
  BY <1>1, ConsistentFrame DEF RInv, etcd
<1>3. OnceInv'
  BY <1>1 DEF RInv, OnceInv, qvars
<1>4. ViewInv'
  <2>1. ASSUME NEW v, Agrees(v, seen) PROVE DeniedBy(v)'
    <3>1. \A i \in Levels(query) :
            Abstract!LevelAnswers(query, v, i) = {} /\ ~Abstract!LevelFails(query, v, i)
      BY <1>1, <2>1, NoneAnswers
    <3> QED
      BY <1>1, <3>1 DEF DeniedBy
  <2> QED
    BY <1>1, <2>1 DEF ViewInv
<1> QED
  BY <1>1, <1>2, <1>3, <1>4 DEF RInv

(* What was replied says nothing more about views.                         *)
LEMMA RespondKeepsRInv ==
    ASSUME RInv, IInv', pc' = "replied", UNCHANGED <<etcd, qvars, query, step, failed, seen>>
    PROVE  RInv'
<1>1. Consistent(seen, failed)'
  BY ConsistentFrame DEF RInv, etcd
<1>2. OnceInv'
  BY DEF RInv, OnceInv, qvars
<1> QED
  BY <1>1, <1>2 DEF RInv, ViewInv

(* The reads of an SOA lookup.                                             *)
LEMMA SoaReadFacts ==
    ASSUME RInv, pc = "authority", NEW content, Read(<<"soa", step, SOA>>, SoaKey(step), content)
    PROVE  /\ Consistent(seen', failed')
           /\ seen' = seen \union {<<<<"soa", step, SOA>>, content>>}
           /\ step \in 1..LastStep(query)
<1>1. Shape /\ step \in 1..LastStep(query) /\ query \in Queries /\ SOA \in Types
  BY ZoneTypesAssumption DEF RInv, IInv, Shape, AuthorityInv
<1>2. step \in Nat
  BY <1>1, QueryFacts
<1>3. \A s \in seen : s[1] # <<"soa", step, SOA>>
  BY <1>1, <1>2 DEF RInv, OnceInv
<1>4. <<"soa", step, SOA>> \in Abstract!Reads(query) /\ SoaKey(step) = Abstract!KeyOf(query, <<"soa", step, SOA>>)
  BY <1>1, SoaRead DEF SoaKey
<1>5. Consistent(seen', failed')
  BY <1>1, <1>3, <1>4, ReadKeepsConsistent DEF RInv
<1> QED
  BY <1>1, <1>5 DEF Read

(* An SOA that is passed over is passed over in every view with its read.  *)
LEMMA LookupSOAKeepsRInv == RInv /\ LookupSOA => RInv'
<1> SUFFICES ASSUME RInv, LookupSOA PROVE RInv'
  OBVIOUS
<1> DEFINE r == <<"soa", step, SOA>>
<1>1. /\ IInv' /\ IInv /\ query \in Queries /\ pc = "authority" /\ UNCHANGED <<etcd, qvars, query>>
  BY LookupSOAKeepsIInv DEF RInv, IInv, Shape, LookupSOA
<1>2. PICK content :
        /\ Read(r, SoaKey(step), content)
        /\ \/ pc' = "replied" /\ step' = step
           \/ /\ ~Bad(content) /\ Cardinality(content) # 1
              /\ step' = step + 1 /\ pc' = pc
  BY DEF LookupSOA, SoaKey, Deny
<1>3. /\ Consistent(seen', failed') /\ seen' = seen \union {<<r, content>>}
      /\ step \in 1..LastStep(query) /\ step \in Nat
  BY <1>1, <1>2, SoaReadFacts, QueryFacts
<1>4. Consistent(seen, failed)'
  BY <1>1, <1>3, ConsistentFrame DEF etcd
<1>5. OnceInv'
  <2> SUFFICES ASSUME NEW s \in seen', NEW i \in Nat, NEW u \in Types
               PROVE  /\ s[1] = <<"record", i, u>> => i < level \/ (i = level /\ (u \notin pending \/ fallback))
                      /\ s[1] = <<"alias", i, u>> => i < level \/ (i = level /\ fallback /\ pending = {})
                      /\ s[1] = <<"soa", i, u>> => (pc' = "authority" /\ i < step') \/ pc' = "replied"
    BY <1>1 DEF OnceInv, qvars
  <2>1. CASE s \in seen
    BY <1>1, <1>2, <1>3, <2>1 DEF RInv, OnceInv
  <2>2. CASE s = <<r, content>>
    <3>1. s[1] = r
      BY <2>2
    <3> QED
      BY <1>1, <1>2, <1>3, <3>1
  <2> QED
    BY <1>3, <2>1, <2>2
<1>6. ViewInv'
  <2> SUFFICES ASSUME NEW v, Agrees(v, seen'), pc' = "authority" PROVE DeniedBy(v)'
    BY <1>1, <1>2 DEF ViewInv
  <2>1. Agrees(v, seen) /\ Soa(v, step) = content
    BY <1>3, AgreesBefore DEF Soa
  <2>2. DeniedBy(v)
    BY <1>1, <2>1 DEF RInv, ViewInv
  <2>3. ~Bad(content) /\ Cardinality(content) # 1 /\ step' = step + 1
    BY <1>2
  <2>4. \A i \in 1..step' - 1 : i \in 1..step - 1 \/ i = step
    BY <1>3, <2>3
  <2> QED
    BY <1>1, <2>1, <2>2, <2>3, <2>4 DEF DeniedBy
<1> QED
  BY <1>1, <1>4, <1>5, <1>6 DEF RInv

-----------------------------------------------------------------------------
(* Every step keeps the invariant.                                         *)
LEMMA NextRInv == RInv /\ [Next]_vars => RInv'
<1> SUFFICES ASSUME RInv, [Next]_vars PROVE RInv'
  OBVIOUS
<1>1. IInv /\ IInv'
  BY NextIInv DEF RInv
<1>2. CASE ReplyError \/ ReplyAnswers
  BY <1>1, <1>2, RespondKeepsRInv DEF ReplyError, ReplyAnswers, Respond
<1>3. CASE UNCHANGED vars
  <2>1. UNCHANGED <<etcd, qvars, query, pc, step, failed, seen>>
    BY <1>3 DEF vars
  <2>2. Consistent(seen, failed)'
    BY <2>1, ConsistentFrame DEF RInv, etcd
  <2> QED
    BY <1>1, <2>1, <2>2 DEF RInv, OnceInv, ViewInv, PastOf, HereOf, AliasOf, DirectOf, DeniedBy, AnswersOf, qvars
<1> QED
  BY <1>2, <1>3, WriteKeepsRInv, LookupTypeKeepsRInv, LookupCNAMEKeepsRInv, NextQuestionKeepsRInv,
     SeekAuthorityKeepsRInv, LookupSOAKeepsRInv DEF Next, Resolver, Terminated

-----------------------------------------------------------------------------
(* The levels that count in a view that agrees with the reads are those    *)
(* down to this one.                                                       *)
LEMMA ConsultedFacts ==
    ASSUME RInv, pc = "question", NEW v, Agrees(v, seen)
    PROVE  /\ \A i \in Abstract!Consulted(query, v) : i \in Levels(query)
           /\ \A i \in Levels(query) : i < level \/ i = level => i \in Abstract!Consulted(query, v)
           /\ level \in Levels(query) /\ Abstract!LevelAnswers(query, v, level) # {} =>
                \A i \in Abstract!Consulted(query, v) : i < level \/ i = level
<1>1. query \in Queries /\ level \in Nat /\ Levels(query) \subseteq Nat
  BY QueryFacts DEF RInv, IInv, Shape, PendingInv, Levels
<1>2. \A i \in Levels(query) : i < level => Abstract!LevelAnswers(query, v, i) = {}
  BY DEF RInv, ViewInv, PastOf
<1>3. Abstract!Consulted(query, v) =
        {i \in Levels(query) : \A j \in Levels(query) : j < i => Abstract!LevelAnswers(query, v, j) = {}}
  BY SameZone DEF Abstract!Consulted
<1>4. ASSUME NEW i \in Levels(query), i < level \/ i = level PROVE i \in Abstract!Consulted(query, v)
  <2>1. \A j \in Levels(query) : j < i => j < level
    BY <1>1, <1>4
  <2> QED
    BY <1>2, <1>3, <2>1
<1>5. ASSUME level \in Levels(query), Abstract!LevelAnswers(query, v, level) # {},
             NEW i \in Abstract!Consulted(query, v)
      PROVE  i < level \/ i = level
  <2>1. ~(level < i) /\ i \in Nat
    BY <1>1, <1>3, <1>5
  <2> QED
    BY <1>1, <2>1
<1> QED
  BY <1>3, <1>4, <1>5

(* An error of this or an earlier level is one of a consulted level.       *)
LEMMA ErrorIsResolved ==
    ASSUME RInv, Gathered, Errored, NEW v, Agrees(v, seen)
    PROVE  Abstract!Resolve(query, v) =
                [rcode |-> "SERVFAIL", aa |-> TRUE, answers |-> {}, ns |-> {}]
<1>1. PastOf(v) /\ (level \in Levels(query) => HereOf(v)) /\ pc = "question" /\ pending = {}
  BY DEF RInv, ViewInv, Gathered
<1>2. level \notin Levels(query) => ~errs
  BY DEF RInv, IInv, PendingInv
<1>3. \E i \in Abstract!Consulted(query, v) : Abstract!LevelFails(query, v, i)
  <2>1. CASE errored
    BY <1>1, <2>1, ConsultedFacts DEF PastOf
  <2>2. CASE errs
    BY <1>1, <1>2, <2>2, LevelDone, ConsultedFacts
  <2> QED
    BY <2>1, <2>2 DEF Errored
<1> QED
  BY <1>3 DEF Abstract!Resolve

(* The answers of this level are those of all the levels consulted.        *)
LEMMA AnswersAreResolved ==
    ASSUME RInv, Gathered, ~Errored, answers # {}, NEW v, Agrees(v, seen)
    PROVE  Abstract!Resolve(query, v) =
                [rcode |-> "NOERROR", aa |-> TRUE, answers |-> Renamed(answers, query.name), ns |-> {}]
<1>1. /\ level \in Levels(query) /\ ~errs /\ ~errored
      /\ PastOf(v) /\ HereOf(v) /\ pc = "question" /\ pending = {}
  BY DEF RInv, IInv, PendingInv, ViewInv, Gathered, Errored
<1>2. /\ Renamed(answers, query.name) = Abstract!LevelAnswers(query, v, level)
      /\ ~Abstract!LevelFails(query, v, level)
      /\ Renamed(answers, query.name) # {}
  BY <1>1, LevelDone, RenamedUnion
<1> DEFINE consulted == Abstract!Consulted(query, v)
           found     == UNION {Abstract!LevelAnswers(query, v, i) : i \in consulted}
<1>3. /\ level \in consulted
      /\ \A i \in consulted : i \in Levels(query) /\ (i < level \/ i = level)
  BY <1>1, <1>2, ConsultedFacts
<1>4. \A i \in consulted : ~Abstract!LevelFails(query, v, i)
  BY <1>1, <1>2, <1>3 DEF PastOf
<1>5. found = Abstract!LevelAnswers(query, v, level)
  <2>1. \A i \in consulted : i # level => Abstract!LevelAnswers(query, v, i) = {}
    BY <1>1, <1>3 DEF PastOf
  <2> HIDE DEF consulted
  <2> QED
    BY <1>3, <2>1
<1> QED
  BY <1>2, <1>4, <1>5 DEF Abstract!Resolve

(* Without answers and failures the closest SOA is denied with.            *)
LEMMA DenialIsResolved ==
    ASSUME NEW v, DeniedBy(v)
    PROVE  LET ns == Abstract!Closest(query, v)
           IN  Abstract!Resolve(query, v) =
                    [rcode |-> "NXDOMAIN", aa |-> ns # {}, answers |-> {}, ns |-> ns]
<1> DEFINE consulted == Abstract!Consulted(query, v)
           found     == UNION {Abstract!LevelAnswers(query, v, i) : i \in consulted}
<1>1. consulted \subseteq Levels(query)
  BY SameZone DEF Abstract!Consulted
<1>2. /\ \A i \in consulted : ~Abstract!LevelFails(query, v, i)
      /\ \A i \in consulted : Abstract!LevelAnswers(query, v, i) = {}
  BY <1>1 DEF DeniedBy
<1>3. found = {}
  <2> HIDE DEF consulted
  <2> QED
    BY <1>2
<1> QED
  BY <1>2, <1>3 DEF Abstract!Resolve

(* The SOA at which the search ends is the first that decides,             *)
LEMMA ClosestIs ==
    ASSUME NEW v, query \in Queries,
           NEW n \in 1..LastStep(query), Bad(Soa(v, n)) \/ Cardinality(Soa(v, n)) = 1,
           \A i \in 1..n - 1 : ~Bad(Soa(v, i)) /\ Cardinality(Soa(v, i)) # 1
    PROVE  Abstract!Closest(query, v) =
                IF Bad(Soa(v, n)) THEN {} ELSE Records(Suffix(query.name, n), SOA, Soa(v, n))
<1> DEFINE decisive == {i \in 1..LastStep(query) : Bad(Soa(v, i)) \/ Cardinality(Soa(v, i)) = 1}
           first    == {i \in decisive : \A j \in decisive : i <= j}
           ns(i)    == IF Bad(Soa(v, i)) THEN {} ELSE Records(Suffix(query.name, i), SOA, Soa(v, i))
<1>1. first = {n}
  <2>1. LastStep(query) \in Nat
    BY QueryFacts
  <2>2. n \in decisive /\ \A i \in decisive : ~(i < n)
    BY <2>1
  <2>3. n \in Nat /\ \A i \in decisive : i \in Nat
    BY <2>1
  <2> HIDE DEF decisive
  <2>4. n \in first
    BY <2>2, <2>3
  <2>5. ASSUME NEW i \in first PROVE i = n
    <3>1. i <= n /\ ~(i < n) /\ i \in Nat
      BY <2>2, <2>3
    <3> QED
      BY <2>3, <3>1
  <2> HIDE DEF first
  <2> QED
    BY <2>4, <2>5
<1>2. Abstract!Closest(query, v) = UNION {ns(i) : i \in first}
  BY SameZone, SameCardinality DEF Abstract!Closest, Soa, Records
<1>3. UNION {ns(i) : i \in {n}} = ns(n)
  <2> HIDE DEF ns
  <2> QED
    OBVIOUS
<1> QED
  BY <1>1, <1>2, <1>3

(* and if none decides there is none to deny with.                         *)
LEMMA NoneIsClosest ==
    ASSUME NEW v, \A i \in 1..LastStep(query) : ~Bad(Soa(v, i)) /\ Cardinality(Soa(v, i)) # 1
    PROVE  Abstract!Closest(query, v) = {}
<1>1. \A i \in 1..LastStep(query) :
        ~(Abstract!Bad(v[<<"soa", i, SOA>>]) \/ Abstract!Cardinality(v[<<"soa", i, SOA>>]) = 1)
  BY SameZone, SameCardinality DEF Soa
<1>2. Abstract!LastStep(query) = LastStep(query)
  BY SameZone
<1> QED
  BY <1>1, <1>2 DEF Abstract!Closest

-----------------------------------------------------------------------------
(* The query arrives: every key has had one content.                       *)
LEMMA InitIsInit == Init => Abstract!RInit
<1> SUFFICES ASSUME Init PROVE Abstract!RInit
  OBVIOUS
<1>1. \A k \in DOMAIN held : Abstract!Cardinality(held[k]) = 1
  BY SameCardinality, FS_Singleton DEF Init
<1> QED
  BY <1>1 DEF Init, Abstract!RInit, NoResponse, Abstract!NoResponse

(* A read that fails is Fail, and one that does not is a stutter.          *)
LEMMA ReadIsFail ==
    ASSUME NEW r \in Abstract!Reads(query), NEW k, NEW content, Read(r, k, content)
    PROVE  UNCHANGED failed \/ Abstract!Fails
  BY DEF Read, Abstract!Fails

(* A write gives its key a new content.                                    *)
LEMMA WriteIsChange == RInv /\ Write => Abstract!Change
<1> SUFFICES ASSUME RInv, Write PROVE Abstract!Change
  OBVIOUS
<1>1. PICK k \in Keys : \E c \in Contents[k] \ {store[k]} : held' = [held EXCEPT ![k] = held[k] \union {c}]
  BY DEF Write
<1>2. PICK c \in Contents[k] : held' = [held EXCEPT ![k] = held[k] \union {c}]
  BY <1>1
<1>3. k \in DOMAIN held /\ c \in SUBSET Values
  BY ContentsAssumption DEF RInv, IInv, Shape, Keys
<1> QED
  BY <1>2, <1>3 DEF RInv, IInv, Shape, Write, Abstract!Change, NoResponse, Abstract!NoResponse

(* The lookups of records and CNAMEs leave the reply open.                 *)
LEMMA LookupIsFail ==
    RInv /\ (LookupCNAME \/ \E t \in Types : LookupType(t)) => [Abstract!Fail]_Abstract!rvars
<1> SUFFICES ASSUME RInv, LookupCNAME \/ \E t \in Types : LookupType(t)
             PROVE  [Abstract!Fail]_Abstract!rvars
  OBVIOUS
<1>1. /\ pc = "question" /\ response = NoResponse /\ pending # {} /\ level \in Levels(query)
      /\ UNCHANGED <<query, held, response>>
  BY DEF LookupType, LookupCNAME, RInv, IInv, Shape, PendingInv, etcd
<1>2. UNCHANGED failed \/ Abstract!Fails
  <2>1. CASE LookupCNAME
    <3>1. PICK w : Agrees(w, seen)
      BY ViewExists DEF RInv, IInv
    <3>2. query.type \in Types
      BY <1>1, <2>1, <3>1 DEF LookupCNAME, RInv, ViewInv, HereOf, AliasOf
    <3>3. <<"alias", level, CNAME>> \in Abstract!Reads(query)
      BY <1>1, <3>2, AliasRead
    <3> QED
      BY <2>1, <3>3, ReadIsFail DEF LookupCNAME
  <2>2. ASSUME NEW t \in Types, LookupType(t) PROVE UNCHANGED failed \/ Abstract!Fails
    <3>1. t \in Asked(query.type)
      BY <2>2 DEF LookupType, RInv, IInv, PendingInv
    <3>2. <<"record", level, t>> \in Abstract!Reads(query)
      BY <1>1, <3>1, RecordRead
    <3> QED
      BY <2>2, <3>2, ReadIsFail DEF LookupType
  <2> QED
    BY <2>1, <2>2
<1> QED
  BY <1>1, <1>2 DEF Abstract!Fail, Abstract!rvars, NoResponse, Abstract!NoResponse

(* A reply without a read is the resolution of a view that the reads had.  *)
LEMMA ReplyIsReply == RInv /\ (ReplyError \/ ReplyAnswers) => Abstract!Reply
<1> SUFFICES ASSUME RInv, ReplyError \/ ReplyAnswers PROVE Abstract!Reply
  OBVIOUS
<1>1. response = NoResponse /\ UNCHANGED <<query, held, failed>>
  BY DEF ReplyError, ReplyAnswers, Gathered, Respond, RInv, IInv, Shape, etcd
<1>2. PICK v \in Abstract!Views(query, failed) : Agrees(v, seen)
  BY ViewExists DEF RInv, IInv
<1>3. response' = Abstract!Resolve(query, v)
  <2>1. CASE ReplyError
    BY <1>2, <2>1, ErrorIsResolved DEF ReplyError, Respond
  <2>2. CASE ReplyAnswers
    BY <1>2, <2>2, AnswersAreResolved DEF ReplyAnswers, Respond, Renamed
  <2> QED
    BY <2>1, <2>2
<1> QED
  BY <1>1, <1>2, <1>3 DEF Abstract!Reply, NoResponse, Abstract!NoResponse

(* An SOA lookup that ends the search replies with the closest SOA of such *)
(* a view; another one is Fail or a stutter.                               *)
LEMMA LookupSOAIsReply == RInv /\ LookupSOA => Abstract!Reply \/ [Abstract!Fail]_Abstract!rvars
<1> SUFFICES ASSUME RInv, LookupSOA PROVE Abstract!Reply \/ [Abstract!Fail]_Abstract!rvars
  OBVIOUS
<1> DEFINE r == <<"soa", step, SOA>>
<1>1. /\ pc = "authority" /\ response = NoResponse /\ Shape /\ query \in Queries
      /\ UNCHANGED <<query, held>>
  BY DEF LookupSOA, RInv, IInv, Shape, etcd
<1>2. PICK content :
        /\ Read(r, SoaKey(step), content)
        /\ \/ Bad(content) /\ Deny({})
           \/ ~Bad(content) /\ Cardinality(content) = 1 /\ Deny(Records(Suffix(query.name, step), SOA, content))
           \/ /\ ~Bad(content)
              /\ Cardinality(content) # 1
              /\ IF step < LastStep(query)
                 THEN step' = step + 1 /\ UNCHANGED <<pc, response>>
                 ELSE Deny({})
  BY DEF LookupSOA, SoaKey
<1>3. /\ Consistent(seen', failed') /\ seen' = seen \union {<<r, content>>}
      /\ step \in 1..LastStep(query) /\ LastStep(query) \in Nat
  BY <1>1, <1>2, SoaReadFacts, QueryFacts
<1>4. UNCHANGED failed \/ Abstract!Fails
  BY <1>2, <1>3, SoaRead, ReadIsFail
<1>5. CASE UNCHANGED response
  BY <1>1, <1>4, <1>5 DEF Abstract!Fail, Abstract!rvars, NoResponse, Abstract!NoResponse
<1>6. CASE ~UNCHANGED response
  <2>1. PICK v \in Abstract!Views(query, failed') : Agrees(v, seen')
    BY <1>1, <1>3, ViewExists
  <2>2. Agrees(v, seen) /\ Soa(v, step) = content
    BY <1>3, <2>1, AgreesBefore DEF Soa
  <2>3. DeniedBy(v)
    BY <1>1, <2>2 DEF RInv, ViewInv
  <2>4. \A i \in 1..step - 1 : ~Bad(Soa(v, i)) /\ Cardinality(Soa(v, i)) # 1
    BY <2>3 DEF DeniedBy
  <2>5. Deny(Abstract!Closest(query, v))
    <3>1. CASE Bad(content)
      <4>1. Abstract!Closest(query, v) = {}
        BY <1>1, <1>3, <2>2, <2>4, <3>1, ClosestIs
      <4> QED
        BY <1>2, <3>1, <4>1
    <3>2. CASE ~Bad(content) /\ Cardinality(content) = 1
      <4>1. Abstract!Closest(query, v) = Records(Suffix(query.name, step), SOA, content)
        BY <1>1, <1>3, <2>2, <2>4, <3>2, ClosestIs
      <4> QED
        BY <1>2, <3>2, <4>1
    <3>3. CASE ~Bad(content) /\ Cardinality(content) # 1
      <4>1. Deny({}) /\ ~(step < LastStep(query))
        BY <1>2, <1>6, <3>3
      <4>2. \A i \in 1..LastStep(query) : i \in 1..step - 1 \/ i = step
        BY <1>3, <4>1
      <4>3. Abstract!Closest(query, v) = {}
        BY <2>2, <2>4, <3>3, <4>2, NoneIsClosest
      <4> QED
        BY <4>1, <4>3
    <3> QED
      BY <3>1, <3>2, <3>3
  <2>6. response' = Abstract!Resolve(query, v)
    BY <2>3, <2>5, DenialIsResolved DEF Deny
  <2> QED
    BY <1>1, <1>4, <2>1, <2>6 DEF Abstract!Reply, NoResponse, Abstract!NoResponse
<1> QED
  BY <1>5, <1>6

(* Every step of the resolver and of others is one of Resolution.          *)
LEMMA StepIsStep == RInv /\ [Next]_vars => [Abstract!RNext]_Abstract!rvars
<1> SUFFICES ASSUME RInv, [Next]_vars PROVE [Abstract!RNext]_Abstract!rvars
  OBVIOUS
<1>1. CASE UNCHANGED vars
  BY <1>1 DEF vars, etcd, Abstract!rvars
<1>2. CASE NextQuestion \/ SeekAuthority
  BY <1>2 DEF NextQuestion, SeekAuthority, etcd, Abstract!rvars
<1> QED
  BY <1>1, <1>2, WriteIsChange, LookupIsFail, ReplyIsReply, LookupSOAIsReply
  DEF Next, Resolver, Terminated, Abstract!RNext

(* Every reply is the resolution of a view: of contents that the keys held *)
(* between the arrival of the query and the reply, and of the failures of  *)
(* etcd, whatever is written meanwhile.                                    *)
THEOREM Refinement == Spec => ImplementsResolution
<1>1. Spec => []RInv
  BY InitRInv, NextRInv, PTL DEF Spec
<1> QED
  BY <1>1, InitIsInit, StepIsStep, PTL DEF Spec, ImplementsResolution, Abstract!RSpec
-----------------------------------------------------------------------------
(* How far the resolver is with a query.                                   *)
Rank(p) == CASE p = "question" -> 0 [] p = "authority" -> 1 [] p = "replied" -> 2

(* One more read is made: one that the query may make, for the first time. *)
FreshRead ==
    \E s \in seen' :
        /\ s[1] \in Abstract!Reads(query)
        /\ \A u \in seen : u[1] # s[1]
        /\ seen' = seen \union {s}

(* A request to etcd is never repeated, and a step without one goes on to  *)
(* the next wildcard or to the end. Neither ever goes back.                *)
Progress ==
    /\ level <= level' /\ Rank(pc) <= Rank(pc')
    /\ seen' # seen => FreshRead
    /\ \/ Write /\ UNCHANGED <<level, pc, seen>>
       \/ FreshRead
       \/ level < level'
       \/ Rank(pc) < Rank(pc')

(* What a query may do is bounded: each of its reads shows one content,    *)
(* and the last wildcard is never passed.                                  *)
WithinTheQuery ==
    /\ \A s \in seen : s[1] \in Abstract!Reads(query)
    /\ \A s, u \in seen : s[1] = u[1] => s[2] = u[2]
    /\ level <= LastLevel(query) \/ level = FirstLevel(query)

(* The last wildcard is not passed by the resolver.                        *)
LEMMA InitWithin == Init => WithinTheQuery
  BY DEF Init, WithinTheQuery

(* The reads are those of a view, and the next wildcard is one of those up *)
(* to the last.                                                            *)
LEMMA StepWithin == RInv /\ RInv' /\ WithinTheQuery /\ [Next]_vars => WithinTheQuery'
<1> SUFFICES ASSUME RInv, RInv', WithinTheQuery, [Next]_vars PROVE WithinTheQuery'
  OBVIOUS
<1>1. query' = query
  BY DEF Next, Resolver, Terminated, Write, LookupType, LookupCNAME, NextQuestion, ReplyError,
         ReplyAnswers, Respond, SeekAuthority, LookupSOA, vars
<1>2. /\ \A s \in seen' : s[1] \in Abstract!Reads(query')
      /\ \A s, u \in seen' : s[1] = u[1] => s[2] = u[2]
  BY DEF RInv, Consistent
<1>3. CASE NextQuestion
  <2>1. level < LastLevel(query) /\ level' = level + 1 /\ level \in Nat /\ LastLevel(query) \in Nat
    BY <1>3, QueryFacts DEF NextQuestion, Asking, RInv, IInv, Shape, PendingInv
  <2>2. level' <= LastLevel(query')
    BY <1>1, <2>1
  <2> QED
    BY <1>2, <2>2 DEF WithinTheQuery
<1>4. CASE level' = level
  BY <1>1, <1>2, <1>4 DEF WithinTheQuery
<1>5. NextQuestion \/ level' = level
  BY DEF Next, Resolver, Terminated, Write, LookupType, LookupCNAME, ReplyError,
         ReplyAnswers, Respond, SeekAuthority, LookupSOA, vars, qvars
<1> QED
  BY <1>3, <1>4, <1>5

(* A read adds what it shows.                                              *)
LEMMA ReadIsFresh ==
    ASSUME NEW r \in Abstract!Reads(query), \A s \in seen : s[1] # r,
           NEW k, NEW content, Read(r, k, content)
    PROVE  FreshRead
<1> DEFINE e == <<r, content>>
<1>1. e[1] = r /\ seen' = seen \union {e}
  BY DEF Read
<1> HIDE DEF e
<1> QED
  BY <1>1 DEF FreshRead

(* Every read of the resolver is one that it has not made yet.             *)
LEMMA ReadsAreFresh ==
    RInv /\ (LookupCNAME \/ LookupSOA \/ \E t \in Types : LookupType(t)) => FreshRead
<1> SUFFICES ASSUME RInv, LookupCNAME \/ LookupSOA \/ \E t \in Types : LookupType(t)
             PROVE  FreshRead
  OBVIOUS
<1>1. ASSUME NEW t \in Types, LookupType(t) PROVE FreshRead
  <2> DEFINE r == <<"record", level, t>>
  <2>1. /\ pc = "question" /\ t \in pending /\ ~fallback /\ level \in Nat
        /\ level \in Levels(query) /\ t \in Asked(query.type)
    BY <1>1 DEF LookupType, RInv, IInv, PendingInv
  <2>2. \A s \in seen : s[1] # r
    BY <2>1 DEF RInv, OnceInv
  <2>3. r \in Abstract!Reads(query)
    BY <2>1, RecordRead
  <2>4. PICK content : Read(r, Key(Domain(query, level), t), content)
    BY <1>1 DEF LookupType
  <2> QED
    BY <2>2, <2>3, <2>4, ReadIsFresh
<1>2. CASE LookupCNAME
  <2> DEFINE r == <<"alias", level, CNAME>>
  <2>1. /\ pc = "question" /\ pending # {} /\ fallback /\ level \in Nat
        /\ level \in Levels(query) /\ CNAME \in Types
    BY <1>2, ZoneTypesAssumption DEF LookupCNAME, RInv, IInv, PendingInv
  <2>2. \A s \in seen : s[1] # r
    BY <2>1 DEF RInv, OnceInv
  <2>3. PICK w : Agrees(w, seen)
    BY ViewExists DEF RInv, IInv
  <2>4. query.type \in Types
    BY <2>1, <2>3 DEF RInv, ViewInv, HereOf, AliasOf
  <2>5. r \in Abstract!Reads(query)
    BY <2>1, <2>4, AliasRead
  <2>6. PICK content : Read(r, Key(Domain(query, level), CNAME), content)
    BY <1>2 DEF LookupCNAME
  <2> QED
    BY <2>2, <2>5, <2>6, ReadIsFresh
<1>3. CASE LookupSOA
  <2> DEFINE r == <<"soa", step, SOA>>
  <2>1. /\ pc = "authority" /\ step \in 1..LastStep(query) /\ step \in Nat /\ SOA \in Types
    BY <1>3, QueryFacts, ZoneTypesAssumption DEF LookupSOA, RInv, IInv, Shape, AuthorityInv
  <2>2. \A s \in seen : s[1] # r
    BY <2>1 DEF RInv, OnceInv
  <2>3. r \in Abstract!Reads(query)
    BY <2>1, SoaRead
  <2>4. PICK content : Read(r, Key(Suffix(query.name, step), SOA), content)
    BY <1>3 DEF LookupSOA
  <2> QED
    BY <2>2, <2>3, <2>4, ReadIsFresh
<1> QED
  BY <1>1, <1>2, <1>3

(* Every step makes a read, or goes on to the next wildcard or to the end. *)
LEMMA StepIsProgress == RInv /\ [Next]_vars => [Progress]_vars
<1> SUFFICES ASSUME RInv, Next, vars' # vars PROVE Progress
  OBVIOUS
<1>1. level \in Nat
  BY DEF RInv, IInv, PendingInv
<1>2. CASE Write
  <2>1. UNCHANGED <<level, pc, seen>> /\ pc # "replied"
    BY <1>2 DEF Write, qvars
  <2>2. pc \in {"question", "authority"} /\ Rank(pc) <= Rank(pc')
    BY <2>1 DEF RInv, IInv, Shape, Rank
  <2> QED
    BY <1>1, <1>2, <2>1, <2>2 DEF Progress
<1>3. CASE LookupCNAME \/ LookupSOA \/ \E t \in Types : LookupType(t)
  <2>1. FreshRead
    BY <1>3, ReadsAreFresh
  <2>2. level' = level /\ (pc' = pc \/ (pc = "authority" /\ pc' = "replied"))
    <3>1. CASE LookupSOA
      BY <3>1 DEF LookupSOA, Deny, qvars
    <3> QED
      BY <1>3, <3>1 DEF LookupCNAME, LookupType
  <2>3. pc \in {"question", "authority"}
    BY <1>3 DEF LookupCNAME, LookupSOA, LookupType
  <2>4. Rank(pc) <= Rank(pc')
    BY <2>2, <2>3 DEF Rank
  <2> QED
    BY <1>1, <2>1, <2>2, <2>4 DEF Progress
<1>4. CASE NextQuestion
  BY <1>1, <1>4 DEF NextQuestion, Gathered, Progress, Rank
<1>5. CASE ReplyError \/ ReplyAnswers \/ SeekAuthority
  BY <1>1, <1>5 DEF ReplyError, ReplyAnswers, SeekAuthority, Respond, Gathered, qvars, Progress, Rank
<1> QED
  BY <1>2, <1>3, <1>4, <1>5 DEF Next, Resolver, Terminated

(* A query makes finitely many requests: those that it may make, none of   *)
(* them twice, whatever is written meanwhile and fails.                    *)
THEOREM QueryIsFinite == Spec => [][Progress]_vars /\ []WithinTheQuery
<1>1. Spec => []RInv
  BY InitRInv, NextRInv, PTL DEF Spec
<1>2. Spec => []WithinTheQuery
  BY <1>1, InitWithin, StepWithin, PTL DEF Spec
<1> QED
  BY <1>1, <1>2, StepIsProgress, PTL DEF Spec
=============================================================================
