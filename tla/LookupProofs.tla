----------------------------- MODULE LookupProofs -----------------------------
(* What Lookup guarantees for every zone and query, whatever is written to *)
(* etcd meanwhile and whichever requests fail.                             *)
EXTENDS Lookup, FiniteSetTheorems, TLAPS

-----------------------------------------------------------------------------
(* The key of type t that level i of the query reads, and the one of the   *)
(* SOA of its i-th subdomain.                                              *)
RecordKey(i, t) == Key(Domain(query, i), t)
SoaKey(i)       == Key(Suffix(query.name, i), SOA)

(* Only what other parts need of the types.                                *)
Shape ==
    /\ query \in Queries
    /\ store \in [Keys -> SUBSET Values]
    /\ held \in [Keys -> SUBSET SUBSET Values]
    /\ \A k \in Keys : store[k] \in held[k]
    /\ pc \in {"question", "authority", "replied"}
    /\ errs \in BOOLEAN /\ errored \in BOOLEAN /\ fallback \in BOOLEAN
    /\ response = NoResponse \/ pc = "replied"

(* A question for a single type makes one lookup, or two if the first one  *)
(* found nothing: no error precedes a lookup that sets errs anew.          *)
PendingInv ==
    /\ level \in Nat /\ level >= FirstLevel(query)
    /\ pending # {} => level \in Levels(query)
    /\ ~fallback => pending \subseteq Asked(query.type)
    /\ fallback => query.type # ANY
    /\ query.type # ANY => \A t, u \in pending : t = u
    /\ query.type # ANY /\ pending # {} => ~errs /\ answers = {}
    /\ level \notin Levels(query) => answers = {} /\ ~errs

(* An error is remembered exactly if a read went wrong.                    *)
ErrorInv ==
    /\ Errored <=> \E s \in seen : Wrong(s[1], s[2])
    /\ pc = "authority" => ~Errored
    /\ pc = "replied" => (response.rcode = "SERVFAIL" <=> Errored)

(* The levels before this one had nothing that is untouched, or failed.    *)
Passed(i) == \A t \in Asked(query.type) : ~Stable(RecordKey(i, t))

(* What this level has that is untouched is among the answers, or failed.  *)
Gathers(t) ==
    LET k == RecordKey(level, t)
    IN  /\ fallback => ~Stable(k)
        /\ t \notin pending /\ Stable(k) =>
                errs \/ Records(Domain(query, level), t, store[k]) \subseteq answers

LevelInv ==
    /\ pc = "question" => \A i \in Levels(query) : i < level => errored \/ Passed(i)
    /\ pc = "question" /\ level \in Levels(query) => \A t \in Asked(query.type) : Gathers(t)
    /\ pc = "authority" => \A i \in Levels(query) : Passed(i)

(* Authority passes over an untouched name only if it has not one SOA.     *)
AuthorityInv ==
    pc = "authority" =>
        /\ step \in 1..LastStep(query)
        /\ \A i \in 1..step - 1 : Stable(SoaKey(i)) => Cardinality(store[SoaKey(i)]) # 1

IInv ==
    /\ Shape
    /\ PendingInv
    /\ ErrorInv
    /\ LevelInv
    /\ AuthorityInv
    /\ StableRecordsPrevail
    /\ ClosestAuthority

-----------------------------------------------------------------------------
(* The numbers of levels and steps of a query.                             *)
LEMMA QueryFacts ==
    ASSUME query \in Queries
    PROVE  /\ query.name \in Seq(Labels) /\ query.type \in QTypes /\ query.inet \in BOOLEAN
           /\ Len(query.name) \in Nat
           /\ FirstLevel(query) \in {0, 1}
           /\ LastLevel(query) \in Nat
           /\ LastStep(query) \in Nat \ {0}
<1>1. query \in [name : Names, type : QTypes, inet : BOOLEAN]
  BY QueriesAssumption DEF QueryOK
<1>2. query.name \in Seq(Labels) /\ query.type \in QTypes /\ query.inet \in BOOLEAN
  BY <1>1 DEF Names
<1>3. Len(query.name) \in Nat \ {0}
  BY <1>1 DEF Names
<1> QED
  <2>1. PICK n : n = Len(query.name)
    OBVIOUS
  <2>2. n \in Nat /\ n # 0
    BY <1>3, <2>1
  <2>3. n = 1 \/ n - 2 \in Nat
    BY <2>2
  <2>4. n > 2 => n - 3 \in Nat
    BY <2>2
  <2>5. LastLevel(query) = CASE n = 1                              -> 0
                             [] n > 2 /\ query.name[n - 1] = EMPTY -> n - 3
                             [] OTHER                              -> n - 2
    BY <2>1 DEF LastLevel
  <2>6. ASSUME n > 2, query.name[n - 1] = EMPTY  PROVE LastLevel(query) \in Nat
    <3>1. n # 1
      BY <2>2, <2>6
    <3>2. LastLevel(query) = n - 3
      BY <2>5, <2>6, <3>1
    <3> QED
      BY <2>4, <2>6, <3>2
  <2>7. ASSUME ~(n > 2 /\ query.name[n - 1] = EMPTY)  PROVE LastLevel(query) \in Nat
    BY <2>3, <2>5, <2>7
  <2> QED
    BY <1>2, <1>3, <2>6, <2>7 DEF FirstLevel, LastStep

(* A key that has been untouched since the query arrived was so before.    *)
LEMMA StableBefore ==
    ASSUME Shape, [Next]_vars, NEW k, Stable(k)'
    PROVE  Stable(k) /\ store'[k] = store[k]
<1>1. CASE UNCHANGED etcd
  BY <1>1 DEF Stable, etcd
<1>2. CASE Write
  <2>1. PICK j \in Keys : \E c \in Contents[j] \ {store[j]} :
            /\ store' = [store EXCEPT ![j] = c]
            /\ held' = [held EXCEPT ![j] = held[j] \union {c}]
    BY <1>2 DEF Write
  <2>2. PICK c \in Contents[j] \ {store[j]} :
            /\ store' = [store EXCEPT ![j] = c]
            /\ held' = [held EXCEPT ![j] = held[j] \union {c}]
    BY <2>1
  <2>3. k \in Keys /\ held'[k] = {store'[k]} /\ store'[k] # {}
    BY DEF Stable
  <2>4. CASE k = j
    <3>1. store[k] \in held'[k] /\ store'[k] = c
      BY <2>2, <2>3, <2>4 DEF Shape
    <3> QED
      BY <2>2, <2>3, <2>4, <3>1
  <2>5. CASE k # j
    <3>1. held'[k] = held[k] /\ store'[k] = store[k]
      BY <2>2, <2>3, <2>5 DEF Shape
    <3> QED
      BY <2>3, <3>1 DEF Stable
  <2> QED
    BY <2>4, <2>5
<1>3. [Next]_vars /\ ~Write => UNCHANGED etcd
  BY DEF Next, Resolver, LookupType, LookupCNAME, NextQuestion, ReplyError, ReplyAnswers, SeekAuthority,
         LookupSOA, Respond, Terminated, vars, etcd
<1> QED
  BY <1>1, <1>2, <1>3

(* A read that does not fail shows what the key has.                       *)
LEMMA ReadFacts ==
    ASSUME Shape, NEW r, NEW k, NEW content, Read(r, k, content)
    PROVE  /\ seen' = seen \union {<<r, content>>}
           /\ content = Content(k) \/ content = {ETCDERROR}
           /\ Stable(k) => content = store[k] \/ Bad(content)
  BY DEF Read, Stable, Content, Bad

(* The SOA reads never count as wrong; the others do if they fail, and     *)
(* that of the CNAME if it shows several.                                  *)
LEMMA WrongAfter ==
    ASSUME NEW r, NEW content, seen' = seen \union {<<r, content>>}
    PROVE  (\E s \in seen' : Wrong(s[1], s[2])) <=> Wrong(r, content) \/ \E s \in seen : Wrong(s[1], s[2])
<1> DEFINE e == <<r, content>>
<1>1. e[1] = r /\ e[2] = content
  OBVIOUS
<1>2. seen' = seen \union {e}
  OBVIOUS
<1> HIDE DEF e
<1> QED
  BY <1>1, <1>2 DEF Wrong
(* There are records of a content unless it is empty.                      *)
LEMMA RecordFacts ==
    ASSUME NEW name, NEW t, NEW content
    PROVE  /\ content = {} => Records(name, t, content) = {}
           /\ content # {} => Records(name, t, content) # {}
<1>1. ASSUME NEW v \in content
      PROVE  [owner |-> Lowered(name), type |-> t, val |-> v] \in Records(name, t, content)
  BY DEF Records
<1> QED
  BY <1>1 DEF Records

(* The records of a content are still its own under the name asked for.    *)
Renamed(answered, x) == {[rr EXCEPT !.owner = x] : rr \in answered}

(* Answers under the name that was asked are the records they were found as. *)
LEMMA RenamedFacts ==
    ASSUME NEW name, NEW t, NEW content, NEW x, NEW answered, Records(name, t, content) \subseteq answered
    PROVE  [owner : {x}, type : {t}, val : content] \subseteq Renamed(answered, x)
<1> SUFFICES ASSUME NEW rec \in [owner : {x}, type : {t}, val : content]
             PROVE  rec \in Renamed(answered, x)
  OBVIOUS
<1> DEFINE rr == [owner |-> Lowered(name), type |-> t, val |-> rec.val]
<1>1. rr \in answered
  BY DEF Records
<1>2. rec = [rr EXCEPT !.owner = x]
  OBVIOUS
<1> HIDE DEF rr
<1> QED
  BY <1>1, <1>2 DEF Renamed

(* The keys of a query are fixed, and those untouched were so before.      *)
LEMMA StillStable ==
    ASSUME Shape, [Next]_vars
    PROVE  /\ query' = query
           /\ \A i, t : /\ RecordKey(i, t)' = RecordKey(i, t)
                        /\ Stable(RecordKey(i, t))' =>
                                Stable(RecordKey(i, t)) /\ store'[RecordKey(i, t)] = store[RecordKey(i, t)]
           /\ \A i : /\ SoaKey(i)' = SoaKey(i)
                     /\ Stable(SoaKey(i))' => Stable(SoaKey(i)) /\ store'[SoaKey(i)] = store[SoaKey(i)]
<1>1. query' = query
  BY DEF Next, Resolver, Write, LookupType, LookupCNAME, NextQuestion, ReplyError, ReplyAnswers,
         SeekAuthority, LookupSOA, Respond, Terminated, vars
<1>2. ASSUME NEW i, NEW t
      PROVE  /\ RecordKey(i, t)' = RecordKey(i, t)
             /\ Stable(RecordKey(i, t))' =>
                    Stable(RecordKey(i, t)) /\ store'[RecordKey(i, t)] = store[RecordKey(i, t)]
  <2>1. PICK k : k = RecordKey(i, t)
    OBVIOUS
  <2>2. RecordKey(i, t)' = k
    BY <1>1, <2>1 DEF RecordKey
  <2>3. Stable(RecordKey(i, t))' => Stable(k)'
    BY <2>2 DEF Stable
  <2> QED
    BY <2>1, <2>2, <2>3, StableBefore
<1>3. ASSUME NEW i
      PROVE  /\ SoaKey(i)' = SoaKey(i)
             /\ Stable(SoaKey(i))' => Stable(SoaKey(i)) /\ store'[SoaKey(i)] = store[SoaKey(i)]
  <2>1. PICK k : k = SoaKey(i)
    OBVIOUS
  <2>2. SoaKey(i)' = k
    BY <1>1, <2>1 DEF SoaKey
  <2>3. Stable(SoaKey(i))' => Stable(k)'
    BY <2>2 DEF Stable
  <2> QED
    BY <2>1, <2>2, <2>3, StableBefore
<1> QED
  BY <1>1, <1>2, <1>3

(* What a level or an authority has been passed over for stays so.         *)
LEMMA PassedStays ==
    ASSUME Shape, [Next]_vars, NEW i
    PROVE  /\ Passed(i) => Passed(i)'
           /\ (Stable(SoaKey(i)) => Cardinality(store[SoaKey(i)]) # 1)
                => (Stable(SoaKey(i)) => Cardinality(store[SoaKey(i)]) # 1)'
  BY StillStable DEF Passed

-----------------------------------------------------------------------------
(* A query starts with nothing read, found or passed over.                 *)
LEMMA InitIInv == Init => IInv
<1> SUFFICES ASSUME Init PROVE IInv
  OBVIOUS
<1>1. query \in Queries /\ pc = "question" /\ ~errs /\ ~errored /\ ~fallback /\ answers = {} /\ seen = {}
  BY DEF Init
<1>2. Shape
  <2>1. store \in [Keys -> UNION {Contents[k] : k \in Keys}] /\ \A k \in Keys : store[k] \in Contents[k]
    BY DEF Init
  <2>2. \A k \in Keys : Contents[k] \subseteq SUBSET Values
    BY ContentsAssumption DEF Keys
  <2>3. store \in [Keys -> SUBSET Values]
    BY <2>1, <2>2
  <2> QED
    BY <1>1, <2>3 DEF Init, Shape
<1>3. PendingInv
  <2>1. level = FirstLevel(query) /\ level \in {0, 1} /\ pending = Pending(query, level)
    BY <1>1, QueryFacts DEF Init
  <2> QED
    BY <1>1, <2>1 DEF PendingInv, Pending, Asked
<1>4. ErrorInv
  BY <1>1 DEF ErrorInv, Errored
<1>5. LevelInv
  <2>1. level = FirstLevel(query) /\ pending = Pending(query, level)
    BY DEF Init
  <2>2. \A i \in Levels(query) : ~(i < level)
    BY <1>1, <2>1, QueryFacts DEF Levels
  <2>3. level \in Levels(query) => pending = Asked(query.type)
    BY <2>1 DEF Pending
  <2> QED
    BY <1>1, <2>2, <2>3 DEF LevelInv, Gathers
<1> QED
  BY <1>1, <1>2, <1>3, <1>4, <1>5 DEF IInv, AuthorityInv, StableRecordsPrevail, ClosestAuthority, Replied

(* Another client of etcd spoils what was untouched, and nothing else.     *)
LEMMA WriteKeepsIInv == IInv /\ Write => IInv'
<1> SUFFICES ASSUME IInv, Write PROVE IInv'
  OBVIOUS
<1>1. /\ Shape /\ [Next]_vars /\ pc # "replied" /\ query \in Queries
      /\ UNCHANGED <<qvars, query, pc, step, response, seen>>
  BY DEF IInv, Shape, Next, Write
<1>2. Shape'
  <2>0. PICK k \in Keys : \E c \in Contents[k] \ {store[k]} :
            /\ store' = [store EXCEPT ![k] = c]
            /\ held' = [held EXCEPT ![k] = held[k] \union {c}]
    BY DEF Write
  <2>1. PICK c \in Contents[k] \ {store[k]} :
            /\ store' = [store EXCEPT ![k] = c]
            /\ held' = [held EXCEPT ![k] = held[k] \union {c}]
    BY <2>0
  <2>2. c \in SUBSET Values
    BY ContentsAssumption DEF Keys
  <2> QED
    BY <1>1, <2>1, <2>2 DEF Shape, qvars
<1>3. PendingInv' /\ ErrorInv'
  BY <1>1 DEF IInv, PendingInv, ErrorInv, Errored, qvars
<1>4. \A i, t : Gathers(t) => Gathers(t)'
  BY <1>1, StillStable DEF Gathers, qvars
<1>5. LevelInv'
  BY <1>1, <1>4, PassedStays DEF IInv, LevelInv, qvars
<1>6. AuthorityInv'
  BY <1>1, PassedStays DEF IInv, AuthorityInv
<1> QED
  BY <1>1, <1>2, <1>3, <1>5, <1>6 DEF IInv, StableRecordsPrevail, ClosestAuthority, Replied
(* A lookup adds what it finds, remembers its error, and of a single type  *)
(* leaves nothing to do or the CNAME.                                      *)
LEMMA LookupTypeKeepsIInv == ASSUME NEW t \in Types PROVE IInv /\ LookupType(t) => IInv'
<1> SUFFICES ASSUME IInv, LookupType(t) PROVE IInv'
  OBVIOUS
<1> DEFINE k == RecordKey(level, t)
           r == <<"record", level, t>>
<1>1. /\ Shape /\ [Next]_vars /\ query \in Queries /\ pc = "question" /\ t \in pending /\ ~fallback
      /\ UNCHANGED <<etcd, query, pc, level, errored, step, response>>
  BY DEF IInv, Shape, Next, Resolver, LookupType
<1>2. PICK content :
        /\ Read(r, k, content)
        /\ errs' = (errs \/ Bad(content))
        /\ answers' = IF Bad(content) THEN answers
                      ELSE answers \union Records(Domain(query, level), t, content)
        /\ fallback' = (query.type # ANY /\ content = {})
        /\ pending' = IF fallback' THEN {CNAME} ELSE pending \ {t}
  BY DEF LookupType, RecordKey
<1>3. /\ seen' = seen \union {<<r, content>>}
      /\ Stable(k) => content = store[k] \/ Bad(content)
  BY <1>1, <1>2, ReadFacts
<1> HIDE DEF r
<1>4. level \in Levels(query) /\ pending \subseteq Asked(query.type)
  BY <1>1 DEF IInv, PendingInv
<1>5. /\ query.type # ANY => pending = {t} /\ Asked(query.type) = {t} /\ ~errs /\ answers = {}
      /\ content = {} => ~Bad(content)
  BY <1>1, <1>4 DEF IInv, PendingInv, Asked, Bad
<1>6. Shape'
  BY <1>1, <1>2, <1>5 DEF Shape, etcd
<1>7. PendingInv'
  <2>1. fallback' => errs' = errs /\ answers' = answers
    BY <1>2, <1>5, RecordFacts
  <2>2. query.type # ANY /\ pending' # {} => fallback'
    BY <1>2, <1>5
  <2> QED
    BY <1>1, <1>2, <1>4, <1>5, <2>1, <2>2 DEF IInv, PendingInv
<1>8. ErrorInv'
  <2>1. Wrong(r, content) <=> Bad(content)
    BY DEF Wrong, r
  <2> QED
    BY <1>1, <1>2, <1>3, <2>1, WrongAfter DEF IInv, ErrorInv, Errored
<1>9. LevelInv'
  <2>1. ASSUME NEW u \in Asked(query.type) PROVE Gathers(u)'
    <3>1. /\ RecordKey(level, u)' = RecordKey(level, u)
          /\ Stable(RecordKey(level, u))' =>
                Stable(RecordKey(level, u)) /\ store'[RecordKey(level, u)] = store[RecordKey(level, u)]
      <4>1. RecordKey(level, u)' = RecordKey(level, u)
        BY <1>1 DEF RecordKey
      <4> QED
        BY <1>1, <4>1 DEF Stable, etcd
    <3>2. ~fallback' \/ ~Stable(RecordKey(level, u))
      BY <1>2, <1>3, <1>5 DEF Stable
    <3>3. CASE u = t
      <4>1. Stable(k) => Bad(content) \/ content = store[k]
        BY <1>3
      <4> QED
        BY <1>1, <1>2, <3>1, <3>2, <3>3, <4>1 DEF Gathers
    <3>4. CASE u # t
      <4>1. u \notin pending' => u \notin pending
        BY <1>2, <1>5, <3>4
      <4>2. Gathers(u)
        BY <1>1, <1>4 DEF IInv, LevelInv
      <4> QED
        BY <1>1, <1>2, <3>1, <3>2, <4>1, <4>2 DEF Gathers
    <3> QED
      BY <3>3, <3>4
  <2> QED
    BY <1>1, <2>1, PassedStays DEF IInv, LevelInv
<1> QED
  BY <1>1, <1>6, <1>7, <1>8, <1>9 DEF IInv, AuthorityInv, StableRecordsPrevail, ClosestAuthority, Replied

(* The CNAME is looked up where nothing untouched was found.               *)
LEMMA LookupCNAMEKeepsIInv == IInv /\ LookupCNAME => IInv'
<1> SUFFICES ASSUME IInv, LookupCNAME PROVE IInv'
  OBVIOUS
<1> DEFINE k == RecordKey(level, CNAME)
           r == <<"alias", level, CNAME>>
<1>1. /\ Shape /\ [Next]_vars /\ query \in Queries /\ pc = "question" /\ pending # {} /\ fallback /\ pending' = {}
      /\ UNCHANGED <<etcd, query, pc, level, fallback, errored, step, response>>
  BY DEF IInv, Shape, Next, Resolver, LookupCNAME
<1>2. PICK content :
        /\ Read(r, k, content)
        /\ errs' = (Bad(content) \/ Cardinality(content) > 1)
        /\ answers' = IF errs' THEN {} ELSE Records(Domain(query, level), CNAME, content)
  BY DEF LookupCNAME, RecordKey
<1>3. seen' = seen \union {<<r, content>>}
  BY <1>1, <1>2, ReadFacts
<1> HIDE DEF r
<1>4. level \in Levels(query) /\ query.type # ANY /\ ~errs
  BY <1>1 DEF IInv, PendingInv
<1>5. Shape' /\ PendingInv'
  BY <1>1, <1>2, <1>4 DEF IInv, Shape, PendingInv, etcd
<1>6. ErrorInv'
  <2>1. Wrong(r, content) <=> errs'
    BY <1>2 DEF Wrong, r
  <2> QED
    BY <1>1, <1>3, <1>4, <2>1, WrongAfter DEF IInv, ErrorInv, Errored
<1>7. LevelInv'
  <2>1. ASSUME NEW u \in Asked(query.type) PROVE Gathers(u)'
    <3>1. Gathers(u)
      BY <1>1, <1>4 DEF IInv, LevelInv
    <3>2. RecordKey(level, u)' = RecordKey(level, u)
      BY <1>1 DEF RecordKey
    <3> QED
      BY <1>1, <3>1, <3>2 DEF Gathers, Stable, etcd
  <2> QED
    BY <1>1, <2>1, PassedStays DEF IInv, LevelInv
<1> QED
  BY <1>1, <1>5, <1>6, <1>7 DEF IInv, AuthorityInv, StableRecordsPrevail, ClosestAuthority, Replied

(* A level without answers and errors has nothing that is untouched.       *)
LEMMA NothingHere ==
    ASSUME IInv, Gathered, answers = {}, ~Errored, NEW i \in Levels(query), i <= level
    PROVE  Passed(i)
<1>1. level \in Nat /\ i \in Int
  BY QueryFacts DEF IInv, Shape, PendingInv, Levels
<1>2. CASE i < level
  BY <1>2 DEF IInv, LevelInv, Gathered, Errored
<1>3. CASE i = level
  <2> SUFFICES ASSUME NEW t \in Asked(query.type), Stable(RecordKey(level, t)) PROVE FALSE
    BY <1>3 DEF Passed
  <2>1. Gathers(t) /\ t \notin pending
    BY <1>3 DEF IInv, LevelInv, Gathered
  <2>2. store[RecordKey(level, t)] # {}
    BY DEF Stable
  <2> QED
    BY <2>1, <2>2, RecordFacts DEF Gathers, Errored
<1> QED
  BY <1>1, <1>2, <1>3

(* The next level starts anew, with the errors of the ones before.         *)
LEMMA NextQuestionKeepsIInv == IInv /\ NextQuestion => IInv'
<1> SUFFICES ASSUME IInv, NextQuestion PROVE IInv'
  OBVIOUS
<1>1. /\ Shape /\ [Next]_vars /\ query \in Queries /\ Gathered /\ pc = "question" /\ pending = {}
      /\ answers = {} /\ level < LastLevel(query)
      /\ level' = level + 1 /\ pending' = Pending(query, level') /\ fallback' = FALSE /\ errs' = FALSE
      /\ errored' = Errored
      /\ UNCHANGED <<etcd, answers, query, pc, step, response, failed, seen>>
  BY DEF IInv, Shape, Next, Resolver, NextQuestion, Gathered, Asking
<1>2. level \in Nat /\ level >= FirstLevel(query) /\ FirstLevel(query) \in {0, 1} /\ LastLevel(query) \in Nat
  BY <1>1, QueryFacts DEF IInv, PendingInv
<1>3. level + 1 \in Levels(query) /\ pending' = Asked(query.type)
  BY <1>1, <1>2 DEF Levels, Pending
<1>4. Shape'
  BY <1>1 DEF Shape, etcd, Errored
<1>5. PendingInv'
  BY <1>1, <1>2, <1>3 DEF PendingInv, Asked
<1>6. ErrorInv'
  BY <1>1 DEF IInv, ErrorInv, Errored
<1>7. LevelInv'
  <2>1. ASSUME NEW i \in Levels(query), i < level + 1 PROVE errored' \/ Passed(i)'
    <3>1. i <= level
      BY <1>2, <2>1 DEF Levels
    <3>2. Errored \/ Passed(i)
      BY <1>1, <3>1, NothingHere
    <3> QED
      BY <1>1, <3>2, PassedStays
  <2>2. ASSUME NEW t \in Asked(query.type) PROVE Gathers(t)'
    BY <1>1, <1>3 DEF Gathers
  <2> QED
    BY <1>1, <2>1, <2>2 DEF LevelInv
<1> QED
  BY <1>1, <1>4, <1>5, <1>6, <1>7 DEF IInv, AuthorityInv, StableRecordsPrevail, ClosestAuthority, Replied

(* A reply changes nothing else.                                           *)
LEMMA RespondFrame ==
    ASSUME IInv, NEW msg, Respond(msg)
    PROVE  /\ Shape' /\ PendingInv' /\ LevelInv' /\ AuthorityInv'
           /\ pc' = "replied" /\ response' = msg /\ UNCHANGED <<etcd, qvars, query, step, failed, seen>>
  BY DEF IInv, Shape, PendingInv, LevelInv, AuthorityInv, Respond, etcd, qvars

(* A reply with an error is SERVFAIL and denies nothing.                    *)
LEMMA ReplyErrorKeepsIInv == IInv /\ ReplyError => IInv'
<1> SUFFICES ASSUME IInv, ReplyError PROVE IInv'
  OBVIOUS
<1>1. Errored /\ Respond([rcode |-> "SERVFAIL", aa |-> TRUE, answers |-> {}, ns |-> {}])
  BY DEF ReplyError
<1>2. /\ Shape' /\ PendingInv' /\ LevelInv' /\ AuthorityInv'
      /\ pc' = "replied" /\ response'.rcode = "SERVFAIL" /\ UNCHANGED <<etcd, qvars, query, step, failed, seen>>
  BY <1>1, RespondFrame
<1>3. ErrorInv'
  BY <1>1, <1>2 DEF IInv, ErrorInv, Errored, qvars
<1> QED
  BY <1>2, <1>3 DEF IInv, StableRecordsPrevail, ClosestAuthority, Replied

(* The answers are those of this level, and the ones before had none that  *)
(* are untouched.                                                          *)
LEMMA ReplyAnswersKeepsIInv == IInv /\ ReplyAnswers => IInv'
<1> SUFFICES ASSUME IInv, ReplyAnswers PROVE IInv'
  OBVIOUS
<1>1. /\ Gathered /\ ~Errored /\ pc = "question" /\ pending = {} /\ Shape /\ [Next]_vars /\ query \in Queries
      /\ Respond([rcode |-> "NOERROR", aa |-> TRUE, answers |-> Renamed(answers, query.name), ns |-> {}])
  BY DEF IInv, Shape, ReplyAnswers, Renamed, Gathered, Next, Resolver
<1>2. /\ Shape' /\ PendingInv' /\ LevelInv' /\ AuthorityInv'
      /\ pc' = "replied" /\ response'.rcode = "NOERROR" /\ response'.answers = Renamed(answers, query.name)
      /\ UNCHANGED <<etcd, qvars, query, step, failed, seen>>
  BY <1>1, RespondFrame
<1>3. ErrorInv'
  BY <1>1, <1>2 DEF IInv, ErrorInv, Errored, qvars
<1>4. StableRecordsPrevail'
  <2>1. ASSUME NEW i \in Levels(query), NEW t \in Asked(query.type), Stable(RecordKey(i, t))'
        PROVE  /\ level <= i
               /\ level = i => [owner : {query.name}, type : {t}, val : store[RecordKey(i, t)]] \subseteq Renamed(answers, query.name)
    <3>1. Stable(RecordKey(i, t))
      BY <1>1, <2>1, StillStable
    <3>2. level <= i
      <4>1. ~Passed(i)
        BY <3>1 DEF Passed
      <4>2. ~(i < level)
        BY <1>1, <4>1 DEF IInv, LevelInv, Errored
      <4> QED
        BY <1>1, <4>2, QueryFacts DEF IInv, PendingInv, Levels
    <3>3. ASSUME level = i
          PROVE  [owner : {query.name}, type : {t}, val : store[RecordKey(i, t)]] \subseteq Renamed(answers, query.name)
      <4>1. Gathers(t)
        BY <1>1, <3>3 DEF IInv, LevelInv
      <4>2. Records(Domain(query, level), t, store[RecordKey(level, t)]) \subseteq answers
        BY <1>1, <3>1, <3>3, <4>1 DEF Gathers, Errored
      <4>3. [owner : {query.name}, type : {t}, val : store[RecordKey(level, t)]] \subseteq Renamed(answers, query.name)
        BY <4>2, RenamedFacts
      <4> QED
        BY <3>3, <4>3
    <3> QED
      BY <3>2, <3>3
  <2> QED
    BY <1>2, <2>1 DEF StableRecordsPrevail, Replied, RecordKey, etcd, qvars
<1> QED
  BY <1>2, <1>3, <1>4 DEF IInv, ClosestAuthority, Replied

(* Without answers and errors, no level has anything that is untouched.    *)
LEMMA SeekAuthorityKeepsIInv == IInv /\ SeekAuthority => IInv'
<1> SUFFICES ASSUME IInv, SeekAuthority PROVE IInv'
  OBVIOUS
<1>1. /\ Shape /\ [Next]_vars /\ query \in Queries /\ Gathered /\ ~Errored /\ answers = {}
      /\ ~(level < LastLevel(query)) /\ pc' = "authority" /\ step' = 1
      /\ UNCHANGED <<etcd, qvars, query, response, failed, seen>>
  BY DEF IInv, Shape, Next, Resolver, SeekAuthority, Asking
<1>2. Shape' /\ PendingInv' /\ ErrorInv'
  BY <1>1 DEF IInv, Shape, PendingInv, ErrorInv, Errored, Gathered, etcd, qvars
<1>3. LevelInv'
  <2>1. ASSUME NEW i \in Levels(query) PROVE Passed(i)'
    <3>1. i <= level
      BY <1>1, QueryFacts DEF IInv, PendingInv, Levels
    <3> QED
      BY <1>1, <3>1, NothingHere, PassedStays
  <2> QED
    BY <1>1, <2>1 DEF LevelInv
<1>4. AuthorityInv'
  BY <1>1, QueryFacts DEF AuthorityInv
<1> QED
  BY <1>1, <1>2, <1>3, <1>4 DEF IInv, StableRecordsPrevail, ClosestAuthority, Replied

(* An SOA lookup fails, finds one SOA, or does not; what was not touched   *)
(* shows what it has.                                                      *)
LEMMA LookupSOAKeepsIInv == IInv /\ LookupSOA => IInv'
<1> SUFFICES ASSUME IInv, LookupSOA PROVE IInv'
  OBVIOUS
<1> DEFINE k == SoaKey(step)
           r == <<"soa", step, SOA>>
<1>1. /\ Shape /\ [Next]_vars /\ query \in Queries /\ pc = "authority" /\ ~Errored
      /\ UNCHANGED <<etcd, qvars, query>>
  BY DEF IInv, Shape, ErrorInv, Next, Resolver, LookupSOA
<1>2. PICK content :
        /\ Read(r, k, content)
        /\ \/ Bad(content) /\ Deny({})
           \/ /\ ~Bad(content)
              /\ Cardinality(content) = 1
              /\ Deny(Records(Suffix(query.name, step), SOA, content))
           \/ /\ ~Bad(content)
              /\ Cardinality(content) # 1
              /\ IF step < LastStep(query)
                 THEN step' = step + 1 /\ UNCHANGED <<pc, response>>
                 ELSE Deny({})
  BY DEF LookupSOA, SoaKey
<1>3. /\ seen' = seen \union {<<r, content>>}
      /\ Stable(k) => content = store[k] \/ Bad(content)
  BY <1>1, <1>2, ReadFacts
<1> DEFINE e == <<r, content>>
<1>4. e \in seen' /\ e[1] = r /\ e[2] = content /\ r[1] = "soa"
  BY <1>3
<1>5. ~Wrong(r, content)
  BY DEF Wrong
<1> HIDE DEF r, e
<1>6. \/ pc' = "replied" /\ response'.rcode = "NXDOMAIN"
      \/ pc' = "authority" /\ UNCHANGED response
  BY <1>1, <1>2 DEF Deny
<1>7. Shape' /\ PendingInv'
  BY <1>1, <1>6 DEF IInv, Shape, PendingInv, etcd, qvars
<1>8. ErrorInv'
  BY <1>1, <1>3, <1>5, <1>6, WrongAfter DEF IInv, ErrorInv, Errored, qvars
<1>9. \A i \in Levels(query) : Passed(i) /\ Passed(i)'
  BY <1>1, PassedStays DEF IInv, LevelInv
<1>10. LevelInv'
  BY <1>1, <1>6, <1>9 DEF LevelInv
<1>11. StableRecordsPrevail'
  BY <1>1, <1>9 DEF StableRecordsPrevail, Passed, RecordKey
<1>12. step \in 1..LastStep(query) /\ LastStep(query) \in Nat
  BY <1>1, QueryFacts DEF IInv, AuthorityInv
<1>13. ASSUME NEW i \in 1..LastStep(query), i < step, Stable(SoaKey(i)) PROVE Cardinality(store[SoaKey(i)]) # 1
  BY <1>1, <1>12, <1>13 DEF IInv, AuthorityInv
<1>14. CASE Bad(content) /\ Deny({})
  <2>1. pc' = "replied" /\ \E s \in seen' : s[1][1] = "soa" /\ Bad(s[2])
    BY <1>4, <1>14 DEF Deny
  <2> QED
    BY <1>7, <1>8, <1>10, <1>11, <2>1 DEF IInv, AuthorityInv, ClosestAuthority
<1>15. CASE /\ ~Bad(content)
            /\ Cardinality(content) = 1
            /\ Deny(Records(Suffix(query.name, step), SOA, content))
  <2>1. content # {}
    BY <1>15, FS_EmptySet
  <2>2. pc' = "replied" /\ response'.aa /\ response'.ns # {} /\ step' = step
    BY <1>15, <2>1, RecordFacts DEF Deny
  <2>3. ASSUME NEW i \in 1..LastStep(query), Stable(SoaKey(i))', Cardinality(store[SoaKey(i)])' = 1
        PROVE  step' <= i
    <3>1. Stable(SoaKey(i)) /\ Cardinality(store[SoaKey(i)]) = 1
      BY <1>1, <2>3, StillStable
    <3> QED
      BY <1>12, <1>13, <2>2, <3>1
  <2>4. ClosestAuthority'
    BY <1>1, <2>2, <2>3 DEF ClosestAuthority, SoaKey
  <2> QED
    BY <1>7, <1>8, <1>10, <1>11, <2>2, <2>4 DEF IInv, AuthorityInv
<1>16. CASE /\ ~Bad(content)
            /\ Cardinality(content) # 1
            /\ IF step < LastStep(query)
               THEN step' = step + 1 /\ UNCHANGED <<pc, response>>
               ELSE Deny({})
  <2>1. ASSUME NEW i \in 1..step, Stable(SoaKey(i))' PROVE Cardinality(store[SoaKey(i)])' # 1
    <3>1. Stable(SoaKey(i)) /\ SoaKey(i)' = SoaKey(i) /\ store'[SoaKey(i)] = store[SoaKey(i)]
      BY <1>1, <2>1, StillStable
    <3>2. Cardinality(store[SoaKey(i)]) # 1
      <4>1. CASE i = step
        BY <1>3, <1>16, <3>1, <4>1
      <4>2. CASE i < step
        BY <1>12, <1>13, <3>1, <4>2
      <4> QED
        BY <1>12, <4>1, <4>2
    <3> QED
      BY <3>1, <3>2
  <2>2. CASE step < LastStep(query)
    <3>1. step' = step + 1 /\ pc' = "authority"
      BY <1>1, <1>16, <2>2
    <3>2. AuthorityInv'
      BY <1>1, <1>12, <2>1, <2>2, <3>1 DEF AuthorityInv
    <3> QED
      BY <1>7, <1>8, <1>10, <1>11, <3>1, <3>2 DEF IInv, ClosestAuthority, Replied
  <2>3. CASE ~(step < LastStep(query))
    <3>1. pc' = "replied" /\ step = LastStep(query)
      BY <1>12, <1>16, <2>3 DEF Deny
    <3>2. ClosestAuthority'
      BY <1>1, <2>1, <3>1 DEF ClosestAuthority, SoaKey
    <3> QED
      BY <1>7, <1>8, <1>10, <1>11, <3>1, <3>2 DEF IInv, AuthorityInv
  <2> QED
    BY <2>2, <2>3
<1> QED
  BY <1>2, <1>14, <1>15, <1>16

-----------------------------------------------------------------------------
(* Every step keeps the invariant.                                         *)
LEMMA NextIInv == IInv /\ [Next]_vars => IInv'
<1> SUFFICES ASSUME IInv, [Next]_vars PROVE IInv'
  OBVIOUS
<1>1. CASE UNCHANGED vars
  BY <1>1 DEF IInv, Shape, PendingInv, ErrorInv, LevelInv, AuthorityInv, StableRecordsPrevail, ClosestAuthority,
              Errored, Passed, Gathers, RecordKey, SoaKey, Stable, Replied, vars, etcd, qvars
<1>2. CASE \E t \in Types : LookupType(t)
  BY <1>2, LookupTypeKeepsIInv
<1> QED
  BY <1>1, <1>2, WriteKeepsIInv, LookupCNAMEKeepsIInv, NextQuestionKeepsIInv, ReplyErrorKeepsIInv,
     ReplyAnswersKeepsIInv, SeekAuthorityKeepsIInv, LookupSOAKeepsIInv DEF Next, Resolver, Terminated

(* The invariant holds at every moment.                                    *)
THEOREM Invariant == Spec => []IInv
  BY InitIInv, NextIInv, PTL DEF Spec

(* The error of no level is forgotten, and none is made up: SERVFAIL is    *)
(* what is replied exactly if a lookup of records went wrong.              *)
THEOREM ErrorsShow == Spec => []ServfailIffWrong
<1>1. IInv => ServfailIffWrong
  BY DEF IInv, ErrorInv, ServfailIffWrong, Replied
<1> QED
  BY <1>1, Invariant, PTL

(* No writes elsewhere and no failure hide records that nobody touches.    *)
THEOREM RecordsPrevail == Spec => []StableRecordsPrevail
<1>1. IInv => StableRecordsPrevail
  BY DEF IInv
<1> QED
  BY <1>1, Invariant, PTL

(* A denial names the closest SOA that nobody touches, or a closer one, or *)
(* none because an SOA lookup failed.                                      *)
THEOREM AuthorityIsClosest == Spec => []ClosestAuthority
<1>1. IInv => ClosestAuthority
  BY DEF IInv
<1> QED
  BY <1>1, Invariant, PTL

-----------------------------------------------------------------------------
(* What TypeOK says beside Shape: the loops over the labels stay within    *)
(* the name, what is pending and answered has a type, the bounds are kept. *)
Typed ==
    /\ writes \in 0..MaxWrites
    /\ level = FirstLevel(query) \/ level \in Levels(query)
    /\ pending \subseteq Types
    /\ answers \subseteq [owner : Seq(Labels), type : Types, val : Values]
    /\ step \in 0..LastStep(query)
    /\ IsFiniteSet(failed) /\ Cardinality(failed) <= MaxFailures

(* What a read shows, unless it fails, are values, and so the records made *)
(* of them; and a failure is counted.                                      *)
LEMMA ReadIsTyped ==
    ASSUME Shape, Typed, NEW r, NEW name \in Seq(Labels), NEW t \in Types, NEW k, NEW content,
           Read(r, k, content)
    PROVE  /\ ~Bad(content) => Records(name, t, content) \subseteq [owner : Seq(Labels), type : Types, val : Values]
           /\ IsFiniteSet(failed') /\ Cardinality(failed') <= MaxFailures
<1>1. content = Content(k) \/ content = {ETCDERROR}
  BY DEF Read
<1>2. ~Bad(content) => content \subseteq Values
  BY <1>1 DEF Bad, Content, Shape
<1>3. Lowered(name) \in Seq(Labels)
  BY LabelsAssumption DEF Lowered
<1>4. ~Bad(content) => Records(name, t, content) \subseteq [owner : Seq(Labels), type : Types, val : Values]
  BY <1>2, <1>3 DEF Records
<1>5. CASE failed' = failed
  BY <1>4, <1>5 DEF Typed
<1>6. CASE Cardinality(failed) < MaxFailures /\ failed' = failed \union {r}
  <2>1. Cardinality(failed) \in Nat
    BY FS_CardinalityType DEF Typed
  <2>2. IsFiniteSet(failed') /\ (Cardinality(failed') = Cardinality(failed) + 1 \/ Cardinality(failed') = Cardinality(failed))
    BY <1>6, FS_AddElement DEF Typed
  <2> QED
    BY <1>4, <1>6, <2>1, <2>2, BoundsAssumption
<1> QED
  BY <1>5, <1>6 DEF Read

(* The names that are asked for.                                           *)
LEMMA DomainFacts ==
    ASSUME query \in Queries, level \in Levels(query)
    PROVE  Domain(query, level) \in Seq(Labels)
<1>1. query.name \in Seq(Labels) /\ Len(query.name) \in Nat /\ FirstLevel(query) \in {0, 1} /\ LastLevel(query) \in Nat
  BY QueryFacts
<1>2. level \in Nat
  BY <1>1 DEF Levels
<1>3. SubSeq(query.name, level + 1, Len(query.name)) \in Seq(Labels)
  <2>1. \A j \in (level + 1)..Len(query.name) : query.name[j] \in Labels
    BY <1>1, <1>2
  <2> QED
    BY <1>1, <1>2, <2>1
<1>4. <<STAR>> \in Seq(Labels)
  BY LabelsAssumption
<1> QED
  BY <1>1, <1>3, <1>4 DEF Domain, Suffix

LEMMA LookupIsTyped ==
    ASSUME IInv, Typed, (\E t \in Types : LookupType(t)) \/ LookupCNAME
    PROVE  Typed'
<1>1. /\ UNCHANGED <<writes, query, level, step>> /\ pending # {}
  BY DEF LookupType, LookupCNAME, etcd
<1>2. Shape /\ query \in Queries /\ level \in Levels(query)
  BY <1>1 DEF IInv, PendingInv, Shape
<1>3. Domain(query, level) \in Seq(Labels) /\ CNAME \in Types
  BY <1>2, DomainFacts, ZoneTypesAssumption
<1>4. ASSUME NEW t \in Types, LookupType(t)
      PROVE  Typed'
  <2>1. PICK content :
            /\ Read(<<"record", level, t>>, Key(Domain(query, level), t), content)
            /\ answers' = IF Bad(content) THEN answers ELSE answers \union Records(Domain(query, level), t, content)
            /\ pending' = IF fallback' THEN {CNAME} ELSE pending \ {t}
    BY <1>4 DEF LookupType
  <2> QED
    BY <1>1, <1>2, <1>3, <2>1, ReadIsTyped DEF Typed
<1>5. ASSUME LookupCNAME
      PROVE  Typed'
  <2>1. PICK content :
            /\ Read(<<"alias", level, CNAME>>, Key(Domain(query, level), CNAME), content)
            /\ errs' = (Bad(content) \/ Cardinality(content) > 1)
            /\ answers' = IF errs' THEN {} ELSE Records(Domain(query, level), CNAME, content)
    BY <1>5 DEF LookupCNAME
  <2>2. pending' = {}
    BY <1>5 DEF LookupCNAME
  <2> QED
    BY <1>1, <1>2, <1>3, <2>1, <2>2, ReadIsTyped DEF Typed
<1> QED
  BY <1>4, <1>5

LEMMA LookupSOAIsTyped ==
    ASSUME IInv, Typed, LookupSOA
    PROVE  Typed'
<1>1. Shape /\ query \in Queries /\ step \in 1..LastStep(query) /\ LastStep(query) \in Nat
  BY QueryFacts DEF IInv, AuthorityInv, Shape, LookupSOA
<1>2. PICK content :
          /\ Read(<<"soa", step, SOA>>, Key(Suffix(query.name, step), SOA), content)
          /\ \/ step' = step
             \/ step < LastStep(query) /\ step' = step + 1
  BY DEF LookupSOA, Deny
<1>3. IsFiniteSet(failed') /\ Cardinality(failed') <= MaxFailures
  <2>1. <<>> \in Seq(Labels) /\ SOA \in Types
    BY ZoneTypesAssumption
  <2> QED
    BY <1>1, <1>2, <2>1, ReadIsTyped
<1>4. step' \in 0..LastStep(query)
  BY <1>1, <1>2
<1> QED
  BY <1>3, <1>4 DEF Typed, LookupSOA, etcd, qvars

LEMMA StepIsTyped ==
    ASSUME IInv, Typed, [Next]_vars
    PROVE  Typed'
<1>1. /\ query \in Queries /\ FirstLevel(query) \in {0, 1} /\ LastLevel(query) \in Nat
      /\ LastStep(query) \in Nat \ {0}
  BY QueryFacts DEF IInv, Shape
<1>2. CASE Write
  <2>1. writes < MaxWrites /\ writes' = writes + 1
    BY <1>2 DEF Write
  <2>2. writes' \in 0..MaxWrites
    BY <2>1, BoundsAssumption DEF Typed
  <2> QED
    BY <1>2, <2>2 DEF Write, Typed, qvars
<1>3. CASE NextQuestion
  <2>1. level \in Nat /\ level >= FirstLevel(query) /\ level < LastLevel(query) /\ level' = level + 1
    BY <1>3 DEF NextQuestion, Asking, IInv, PendingInv
  <2>2. level' \in Levels(query)
    BY <1>1, <2>1 DEF Levels
  <2>3. pending' \subseteq Types
    BY <1>3 DEF NextQuestion, Pending, Asked
  <2> QED
    BY <1>3, <2>2, <2>3 DEF NextQuestion, Typed, etcd
<1>4. CASE SeekAuthority
  BY <1>1, <1>4 DEF SeekAuthority, Typed, etcd, qvars
<1>5. CASE ReplyError \/ ReplyAnswers
  BY <1>5 DEF ReplyError, ReplyAnswers, Respond, Typed, etcd, qvars
<1>6. CASE UNCHANGED vars
  BY <1>6 DEF vars, etcd, qvars, Typed
<1> QED
  BY <1>2, <1>3, <1>4, <1>5, <1>6, LookupIsTyped, LookupSOAIsTyped DEF Next, Resolver, Terminated

(* The state of a query keeps its types: no level and no subdomain that is *)
(* asked for is beyond the labels of the name, whatever the name: the      *)
(* root, none, or one with empty labels.                                   *)
THEOREM TypeCorrect == Spec => []TypeOK
<1>1. Init => Typed
  <2> SUFFICES ASSUME Init PROVE Typed
    OBVIOUS
  <2>1. query \in Queries /\ LastStep(query) \in Nat
    BY QueryFacts DEF Init
  <2>2. IsFiniteSet({}) /\ Cardinality({}) = 0
    BY FS_EmptySet
  <2>3. pending \subseteq Types
    BY DEF Init, Pending, Asked
  <2> QED
    BY <2>1, <2>2, <2>3, BoundsAssumption DEF Init, Typed
<1>2. IInv /\ Typed /\ [Next]_vars => Typed'
  BY StepIsTyped
<1>3. IInv /\ Typed => TypeOK
  BY DEF IInv, Shape, Typed, TypeOK
<1> QED
  BY <1>1, <1>2, <1>3, Invariant, PTL DEF Spec
=============================================================================
