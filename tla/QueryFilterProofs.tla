-------------------------- MODULE QueryFilterProofs --------------------------
(***************************************************************************)
(* Proofs about QueryFilter, for every list of options and every query:    *)
(* the decision of the loops is the rule the options state, and for plain  *)
(* names it is the decision by labels.                                     *)
(***************************************************************************)
EXTENDS QueryFilter, SequenceTheorems, TLAPS

(* The filters of the first n options of a list.                           *)
Wanted(list, n) == {FilterOf(list[k]) : k \in {k \in 1..n : list[k].wellFormed}}

(* The parser has made the filters of the options it has passed.           *)
ParseInv ==
    /\ pc = "parseAccept" =>
        /\ i <= Len(options.accept) + 1
        /\ ToSet(acceptFilters) = Wanted(options.accept, i - 1)
        /\ rejectFilters = <<>>
    /\ pc # "parseAccept" => ToSet(acceptFilters) = Accepts
    /\ pc = "parseReject" =>
        /\ i <= Len(options.reject) + 1
        /\ ToSet(rejectFilters) = Wanted(options.reject, i - 1)
    /\ pc \notin {"parseAccept", "parseReject"} => ToSet(rejectFilters) = Rejects

(* A loop goes on only past filters that do not match.                     *)
LoopInv ==
    /\ pc = "reject" =>
        /\ accepted
        /\ \A k \in 1..(i - 1) : ~Matches(rejectFilters[k], query)
    /\ pc = "accept" =>
        /\ ~accepted
        /\ acceptFilters # <<>>
        /\ \A f \in Rejects : ~Matches(f, query)
        /\ \A k \in 1..(i - 1) : ~Matches(acceptFilters[k], query)

IInv == TypeOK /\ ParseInv /\ LoopInv /\ DecisionIsRule

-----------------------------------------------------------------------------
(* A completed domain is text again.                                       *)
LEMMA FqdnType == ASSUME NEW s \in Seq(Chars) PROVE Fqdn(s) \in Seq(Chars)
BY CharsAssumption DEF Fqdn

(* A well-formed option makes a filter.                                    *)
LEMMA FilterType == ASSUME NEW o \in Options PROVE FilterOf(o) \in Filters
<1>1. o.domain \in Seq(Chars) /\ o.types \in Seq(Types \union {EMPTY})
  BY DEF Options
<1>2. Fqdn(o.domain) \in Seq(Chars)
  BY <1>1, FqdnType
<1>. QED
  BY <1>1, <1>2 DEF FilterOf, Filters

(* Parsing one more option adds its filter, if it has one.                 *)
LEMMA ParseStep ==
    ASSUME NEW list \in Seq(Options), NEW n \in Nat \ {0}, n <= Len(list),
           NEW filters \in Seq(Filters), ToSet(filters) = Wanted(list, n - 1)
    PROVE  /\ filters \o Parsed(list[n]) \in Seq(Filters)
           /\ ToSet(filters \o Parsed(list[n])) = Wanted(list, n)
<1>. DEFINE o == list[n]
<1>1. o \in Options
  OBVIOUS
<1>2. FilterOf(o) \in Filters
  BY <1>1, FilterType
<1>3. \A k : k \in 1..n <=> k \in 1..(n - 1) \/ k = n
  OBVIOUS
<1>4. CASE o.wellFormed
  <2>1. Parsed(o) = <<FilterOf(o)>>
    BY <1>4 DEF Parsed
  <2>2. /\ filters \o <<FilterOf(o)>> \in Seq(Filters)
        /\ Len(filters \o <<FilterOf(o)>>) = Len(filters) + 1
        /\ \A k \in 1..Len(filters) : (filters \o <<FilterOf(o)>>)[k] = filters[k]
        /\ (filters \o <<FilterOf(o)>>)[Len(filters) + 1] = FilterOf(o)
    BY <1>2
  <2>3. ToSet(filters \o <<FilterOf(o)>>) = ToSet(filters) \union {FilterOf(o)}
    BY <2>2 DEF ToSet
  <2>4. Wanted(list, n) = Wanted(list, n - 1) \union {FilterOf(o)}
    BY <1>3, <1>4 DEF Wanted
  <2>. QED
    BY <2>1, <2>2, <2>3, <2>4
<1>5. CASE ~o.wellFormed
  <2>1. Parsed(o) = <<>> /\ filters \o <<>> = filters
    BY <1>5 DEF Parsed
  <2>2. Wanted(list, n) = Wanted(list, n - 1)
    BY <1>3, <1>5 DEF Wanted
  <2>. QED
    BY <2>1, <2>2
<1>. QED
  BY <1>4, <1>5

(* Once every option is passed, all the filters are there.                 *)
LEMMA ParseEnd ==
    ASSUME NEW list \in Seq(Options), NEW n \in Nat, n > Len(list), n <= Len(list) + 1
    PROVE  Wanted(list, n - 1) = FiltersOf(list)
<1>1. n - 1 = Len(list) /\ DOMAIN list = 1..Len(list)
  OBVIOUS
<1>. QED
  BY <1>1 DEF Wanted, FiltersOf

(* The options are lists of options.                                       *)
LEMMA OptionsType ==
    ASSUME TypeOK
    PROVE  options.accept \in Seq(Options) /\ options.reject \in Seq(Options)
BY OptionListsAssumption DEF TypeOK

-----------------------------------------------------------------------------
(* The invariant holds at the start.                                       *)
LEMMA InitIInv == Init => IInv
<1>. SUFFICES ASSUME Init PROVE IInv
  OBVIOUS
<1>1. /\ options \in [accept : OptionLists.accept, reject : OptionLists.reject]
      /\ pc = "parseAccept" /\ i = 1 /\ query = NoQuery
      /\ acceptFilters = <<>> /\ rejectFilters = <<>>
  BY DEF Init
<1>2. accepted \in BOOLEAN
  BY ZenonT(10) DEF Init
<1>3. TypeOK
  BY <1>1, <1>2 DEF TypeOK
<1>4. options.accept \in Seq(Options)
  BY <1>3, OptionsType
<1>5. ToSet(acceptFilters) = Wanted(options.accept, i - 1)
  <2>1. ToSet(acceptFilters) = {}
    BY <1>1 DEF ToSet
  <2>2. 1..(i - 1) = {}
    BY <1>1
  <2>. QED
    BY <2>1, <2>2 DEF Wanted
<1>6. ParseInv
  BY <1>1, <1>4, <1>5 DEF ParseInv
<1>. QED
  BY <1>1, <1>3, <1>6 DEF IInv, LoopInv, DecisionIsRule

(* Parsing an accept option preserves the invariant.                       *)
LEMMA ParseAcceptStep == IInv /\ ParseAccept => IInv'
<1>. SUFFICES ASSUME IInv, ParseAccept PROVE IInv'
  OBVIOUS
<1>1. options.accept \in Seq(Options)
  BY OptionsType DEF IInv
<1>2. /\ pc = "parseAccept" /\ i \in Nat \ {0} /\ i <= Len(options.accept)
      /\ acceptFilters \in Seq(Filters)
      /\ ToSet(acceptFilters) = Wanted(options.accept, i - 1)
  BY DEF IInv, TypeOK, ParseInv, ParseAccept
<1>3. /\ acceptFilters' \in Seq(Filters)
      /\ ToSet(acceptFilters') = Wanted(options.accept, i)
  BY <1>1, <1>2, ParseStep DEF ParseAccept
<1>4. i' = i + 1 /\ i' - 1 = i /\ i' <= Len(options.accept) + 1
  BY <1>1, <1>2 DEF ParseAccept
<1>5. TypeOK'
  BY <1>2, <1>3, <1>4 DEF IInv, TypeOK, ParseAccept
<1>6. ParseInv'
  BY <1>2, <1>3, <1>4 DEF IInv, ParseInv, ParseAccept
<1>. QED
  BY <1>2, <1>5, <1>6 DEF IInv, LoopInv, DecisionIsRule, ParseAccept

(* So does parsing a reject option.                                        *)
LEMMA ParseRejectStep == IInv /\ ParseReject => IInv'
<1>. SUFFICES ASSUME IInv, ParseReject PROVE IInv'
  OBVIOUS
<1>1. options.reject \in Seq(Options)
  BY OptionsType DEF IInv
<1>2. /\ pc = "parseReject" /\ i \in Nat \ {0} /\ i <= Len(options.reject)
      /\ rejectFilters \in Seq(Filters)
      /\ ToSet(rejectFilters) = Wanted(options.reject, i - 1)
      /\ ToSet(acceptFilters) = Accepts
  BY DEF IInv, TypeOK, ParseInv, ParseReject
<1>3. /\ rejectFilters' \in Seq(Filters)
      /\ ToSet(rejectFilters') = Wanted(options.reject, i)
  BY <1>1, <1>2, ParseStep DEF ParseReject
<1>4. i' = i + 1 /\ i' - 1 = i /\ i' <= Len(options.reject) + 1
  BY <1>1, <1>2 DEF ParseReject
<1>5. TypeOK'
  BY <1>2, <1>3, <1>4 DEF IInv, TypeOK, ParseReject
<1>6. ParseInv'
  BY <1>2, <1>3, <1>4 DEF ParseInv, ParseReject, Accepts
<1>. QED
  BY <1>2, <1>5, <1>6 DEF IInv, LoopInv, DecisionIsRule, ParseReject

(* And the end of either loop over the options.                            *)
LEMMA ParsingStep == IInv /\ Parsing => IInv'
<1>. SUFFICES ASSUME IInv, Parsing PROVE IInv'
  OBVIOUS
<1>1. options.accept \in Seq(Options) /\ options.reject \in Seq(Options) /\ i \in Nat
  BY OptionsType DEF IInv, TypeOK
<1>2. i' = 1 /\ UNCHANGED <<options, acceptFilters, rejectFilters, query, accepted>>
  BY DEF Parsing, Exhausted
<1>3. CASE Exhausted("parseAccept", options.accept, "parseReject")
  <2>1. pc = "parseAccept" /\ pc' = "parseReject" /\ i > Len(options.accept)
    BY <1>3 DEF Exhausted
  <2>2. ToSet(acceptFilters) = Accepts
    BY <1>1, <2>1, ParseEnd DEF IInv, ParseInv, Accepts
  <2>3. ToSet(rejectFilters) = {} /\ Wanted(options.reject, 0) = {}
    BY <2>1 DEF IInv, ParseInv, ToSet, Wanted
  <2>4. TypeOK'
    BY <1>2, <2>1 DEF IInv, TypeOK
  <2>5. ParseInv'
    BY <1>1, <1>2, <2>1, <2>2, <2>3 DEF ParseInv, Accepts
  <2>. QED
    BY <2>1, <2>4, <2>5 DEF IInv, LoopInv, DecisionIsRule
<1>4. CASE Exhausted("parseReject", options.reject, "idle")
  <2>1. pc = "parseReject" /\ pc' = "idle" /\ i > Len(options.reject)
    BY <1>4 DEF Exhausted
  <2>2. ToSet(rejectFilters) = Rejects
    BY <1>1, <2>1, ParseEnd DEF IInv, ParseInv, Rejects
  <2>3. TypeOK'
    BY <1>2, <2>1 DEF IInv, TypeOK
  <2>4. ParseInv'
    BY <1>2, <2>1, <2>2 DEF IInv, ParseInv, Accepts, Rejects
  <2>. QED
    BY <2>1, <2>3, <2>4 DEF IInv, LoopInv, DecisionIsRule
<1>. QED
  BY <1>3, <1>4 DEF Parsing

-----------------------------------------------------------------------------
(* Where both lists are made, each filter has an index.                    *)
LEMMA Made ==
    ASSUME IInv, pc \notin {"parseAccept", "parseReject"}
    PROVE  /\ Rejects = {rejectFilters[k] : k \in 1..Len(rejectFilters)}
           /\ Accepts = {acceptFilters[k] : k \in 1..Len(acceptFilters)}
<1>1. acceptFilters \in Seq(Filters) /\ rejectFilters \in Seq(Filters)
  BY DEF IInv, TypeOK
<1>. QED
  BY <1>1 DEF IInv, ParseInv, ToSet

(* The steps that only change the index, the place and the verdict keep    *)
(* the lists.                                                              *)
LEMMA SameLists ==
    ASSUME IInv, UNCHANGED <<options, acceptFilters, rejectFilters>>,
           pc \notin {"parseAccept", "parseReject"},
           pc' \notin {"parseAccept", "parseReject"}
    PROVE  ParseInv'
BY DEF IInv, ParseInv, Accepts, Rejects

(* The arrival of a query preserves the invariant.                         *)
LEMMA ArriveStep == IInv /\ Arrive => IInv'
<1>. SUFFICES ASSUME IInv, Arrive PROVE IInv'
  OBVIOUS
<1>1. ParseInv'
  BY SameLists DEF Arrive
<1>2. TypeOK'
  BY DEF IInv, TypeOK, Arrive
<1>. QED
  BY <1>1, <1>2 DEF IInv, LoopInv, DecisionIsRule, Arrive

(* A filter that matches ends the test as the rule says.                   *)
LEMMA MatchStep == IInv /\ (RejectMatches \/ AcceptMatches) => IInv'
<1>. SUFFICES ASSUME IInv, RejectMatches \/ AcceptMatches PROVE IInv'
  OBVIOUS
<1>1. /\ pc \in {"reject", "accept"} /\ pc' = "decided" /\ i \in Nat \ {0}
      /\ UNCHANGED <<options, i, acceptFilters, rejectFilters, query>>
  BY DEF IInv, TypeOK, RejectMatches, AcceptMatches, Decide
<1>2. ParseInv'
  BY <1>1, SameLists
<1>3. TypeOK'
  BY <1>1 DEF IInv, TypeOK, RejectMatches, AcceptMatches, Decide
<1>4. Rejects' = Rejects /\ Accepts' = Accepts
  BY <1>1 DEF Rejects, Accepts
<1>5. \A f : Matches(f, query)' = Matches(f, query')
  BY DEF Matches
<1>6. DecisionIsRule'
  <2>1. CASE RejectMatches
    <3>1. rejectFilters[i] \in Rejects /\ Matches(rejectFilters[i], query)
      BY <1>1, <2>1, Made DEF RejectMatches
    <3>. QED
      BY <1>1, <1>4, <2>1, <3>1 DEF DecisionIsRule, RejectMatches, Decide
  <2>2. CASE AcceptMatches
    <3>1. acceptFilters[i] \in Accepts /\ Matches(acceptFilters[i], query)
      BY <1>1, <2>2, Made DEF AcceptMatches
    <3>2. \A f \in Rejects : ~Matches(f, query)
      BY <2>2 DEF IInv, LoopInv, AcceptMatches
    <3>. QED
      BY <1>1, <1>4, <2>2, <3>1, <3>2 DEF DecisionIsRule, AcceptMatches, Decide
  <2>. QED
    BY <2>1, <2>2
<1>. QED
  BY <1>1, <1>2, <1>3, <1>6 DEF IInv, LoopInv

(* A filter that does not match is passed.                                 *)
LEMMA NoMatchStep == IInv /\ NoMatch => IInv'
<1>. SUFFICES ASSUME IInv, NoMatch PROVE IInv'
  OBVIOUS
<1>1. /\ pc \in {"reject", "accept"} /\ i \in Nat \ {0} /\ i' = i + 1
      /\ UNCHANGED <<options, pc, acceptFilters, rejectFilters, query, accepted>>
  BY DEF IInv, TypeOK, NoMatch
<1>2. ParseInv'
  BY <1>1, SameLists
<1>3. /\ rejectFilters \in Seq(Filters) /\ acceptFilters \in Seq(Filters)
      /\ Len(rejectFilters) \in Nat /\ Len(acceptFilters) \in Nat
  BY DEF IInv, TypeOK
<1>4. TypeOK'
  BY <1>1, <1>3 DEF IInv, TypeOK, NoMatch
<1>5. \A k \in 1..(i' - 1) : k \in 1..(i - 1) \/ k = i
  BY <1>1
<1>6. Rejects' = Rejects
  BY <1>1 DEF Rejects
<1>7. LoopInv'
  BY <1>1, <1>5, <1>6 DEF IInv, LoopInv, NoMatch
<1>. QED
  BY <1>1, <1>2, <1>4, <1>7 DEF IInv, DecisionIsRule

(* At the end of a loop no filter of its list matches.                     *)
LEMMA EndStep == IInv /\ (StartAccept \/ NothingToAccept \/ AcceptEnds) => IInv'
<1>. SUFFICES ASSUME IInv, StartAccept \/ NothingToAccept \/ AcceptEnds PROVE IInv'
  OBVIOUS
<1>1. /\ pc \in {"reject", "accept"} /\ pc' \in {"accept", "decided"}
      /\ i \in Nat \ {0} /\ i' \in Nat \ {0}
      /\ UNCHANGED <<options, acceptFilters, rejectFilters, query>>
  BY DEF IInv, TypeOK, StartAccept, NothingToAccept, AcceptEnds, Exhausted, Decide
<1>2. ParseInv'
  BY <1>1, SameLists
<1>3. /\ rejectFilters \in Seq(Filters) /\ acceptFilters \in Seq(Filters)
      /\ Len(rejectFilters) \in Nat /\ Len(acceptFilters) \in Nat
  BY DEF IInv, TypeOK
<1>4. TypeOK'
  <2>1. accepted' \in BOOLEAN
    BY DEF IInv, TypeOK, StartAccept, NothingToAccept, AcceptEnds, Decide
  <2>2. pc' = "accept" => i' = 1
    BY DEF StartAccept, NothingToAccept, AcceptEnds, Exhausted, Decide
  <2>. QED
    BY <1>1, <1>3, <2>1, <2>2 DEF IInv, TypeOK
<1>5. Rejects' = Rejects /\ Accepts' = Accepts
  BY <1>1 DEF Rejects, Accepts
<1>6. \A f \in Rejects : ~Matches(f, query)
  <2>1. CASE pc = "reject"
    <3>1. \A k \in 1..Len(rejectFilters) : k \in 1..(i - 1)
      BY <1>1, <1>3, <2>1 DEF StartAccept, NothingToAccept, AcceptEnds, Exhausted
    <3>. QED
      BY <1>1, <2>1, <3>1, Made DEF IInv, LoopInv
  <2>2. CASE pc = "accept"
    BY <2>2 DEF IInv, LoopInv
  <2>. QED
    BY <1>1, <2>1, <2>2
<1>7. CASE StartAccept
  <2>1. pc' = "accept" /\ ~accepted' /\ acceptFilters # <<>> /\ i' = 1
    BY <1>7 DEF StartAccept, Exhausted
  <2>2. LoopInv'
    BY <1>1, <1>5, <1>6, <2>1 DEF LoopInv
  <2>. QED
    BY <1>2, <1>4, <2>1, <2>2 DEF IInv, DecisionIsRule
<1>8. CASE NothingToAccept
  <2>1. pc = "reject" /\ pc' = "decided" /\ accepted' = accepted /\ accepted
    BY <1>8 DEF IInv, LoopInv, NothingToAccept, Decide
  <2>2. Accepts = {}
    BY <1>1, <1>8, Made DEF NothingToAccept
  <2>3. DecisionIsRule'
    BY <1>1, <1>5, <1>6, <2>1, <2>2 DEF DecisionIsRule
  <2>. QED
    BY <1>2, <1>4, <2>1, <2>3 DEF IInv, LoopInv
<1>9. CASE AcceptEnds
  <2>1. /\ pc = "accept" /\ pc' = "decided" /\ accepted' = accepted /\ ~accepted
        /\ acceptFilters # <<>>
    BY <1>9 DEF IInv, LoopInv, AcceptEnds, Decide
  <2>2. \A k \in 1..Len(acceptFilters) : k \in 1..(i - 1)
    BY <1>1, <1>3, <1>9 DEF AcceptEnds
  <2>3. \A f \in Accepts : ~Matches(f, query)
    BY <1>1, <2>1, <2>2, Made DEF IInv, LoopInv
  <2>4. Accepts # {}
    <3>1. 1 \in 1..Len(acceptFilters)
      BY <1>3, <2>1
    <3>2. Accepts = {acceptFilters[k] : k \in 1..Len(acceptFilters)}
      BY <1>1, Made
    <3>. QED
      BY <3>1, <3>2
  <2>5. DecisionIsRule'
    BY <1>1, <1>5, <2>1, <2>3, <2>4 DEF DecisionIsRule
  <2>. QED
    BY <1>2, <1>4, <2>1, <2>5 DEF IInv, LoopInv
<1>. QED
  BY <1>7, <1>8, <1>9

-----------------------------------------------------------------------------
(* Every step preserves the invariant.                                     *)
LEMMA NextIInv == IInv /\ [Next]_vars => IInv'
<1>1. IInv /\ UNCHANGED vars => IInv'
  BY DEF vars, IInv, TypeOK, ParseInv, LoopInv, DecisionIsRule, Accepts, Rejects
<1>. QED
  BY <1>1, ParseAcceptStep, ParseRejectStep, ParsingStep, ArriveStep, MatchStep,
     NoMatchStep, EndStep DEF Next

(* The invariant of the filters holds for ever.                            *)
THEOREM FilterInvariance == Spec => []IInv
BY InitIInv, NextIInv, PTL DEF Spec

(* The variables keep their types, and the loops stay within their lists.  *)
THEOREM FilterTypes == Spec => []TypeOK
<1>1. IInv => TypeOK
  BY DEF IInv
<1>. QED
  BY <1>1, FilterInvariance, PTL

(* A query is accepted exactly as the options say, for any options.        *)
THEOREM OptionsDecide == Spec => []DecisionIsRule
<1>1. IInv => DecisionIsRule
  BY DEF IInv
<1>. QED
  BY <1>1, FilterInvariance, PTL

-----------------------------------------------------------------------------
(* A suffix, by its elements.                                              *)
LEMMA SuffixByIndex ==
    ASSUME NEW S, NEW s \in Seq(S), NEW t \in Seq(S)
    PROVE  IsSuffix(s, t) <=>
             /\ Len(s) <= Len(t)
             /\ \A k \in 1..Len(s) : s[k] = t[Len(t) - Len(s) + k]
<1>. DEFINE rs == Reverse(s)
            rt == Reverse(t)
<1>1. /\ rs \in Seq(S) /\ Len(rs) = Len(s)
      /\ \A k \in 1..Len(s) : rs[k] = s[Len(s) - k + 1]
  BY DEF Reverse
<1>2. /\ rt \in Seq(S) /\ Len(rt) = Len(t)
      /\ \A k \in 1..Len(t) : rt[k] = t[Len(t) - k + 1]
  BY DEF Reverse
<1>3. IsSuffix(s, t) <=>
        Len(s) <= Len(t) /\ SubSeq(rs, 1, Len(s)) = SubSeq(rt, 1, Len(s))
  BY <1>1, <1>2 DEF IsSuffix, IsPrefix
<1>. SUFFICES ASSUME Len(s) <= Len(t)
              PROVE  SubSeq(rs, 1, Len(s)) = SubSeq(rt, 1, Len(s))
                        <=> \A k \in 1..Len(s) : s[k] = t[Len(t) - Len(s) + k]
  BY <1>3
<1>. HIDE DEF rs, rt
<1>4. /\ Len(SubSeq(rs, 1, Len(s))) = Len(s) /\ Len(SubSeq(rt, 1, Len(s))) = Len(s)
      /\ SubSeq(rs, 1, Len(s)) \in Seq(S) /\ SubSeq(rt, 1, Len(s)) \in Seq(S)
      /\ \A k \in 1..Len(s) : SubSeq(rs, 1, Len(s))[k] = rs[k]
      /\ \A k \in 1..Len(s) : SubSeq(rt, 1, Len(s))[k] = rt[k]
  BY <1>1, <1>2
<1>5. SubSeq(rs, 1, Len(s)) = SubSeq(rt, 1, Len(s))
        <=> \A k \in 1..Len(s) : rs[k] = rt[k]
  BY <1>4, SeqEqual
<1>6. ASSUME \A k \in 1..Len(s) : rs[k] = rt[k]
      PROVE  \A k \in 1..Len(s) : s[k] = t[Len(t) - Len(s) + k]
  <2>. TAKE k \in 1..Len(s)
  <2>1. Len(s) - k + 1 \in 1..Len(s) /\ Len(s) - k + 1 \in 1..Len(t)
    OBVIOUS
  <2>2. rs[Len(s) - k + 1] = rt[Len(s) - k + 1]
    BY <1>6, <2>1
  <2>3. Len(s) - (Len(s) - k + 1) + 1 = k
        /\ Len(t) - (Len(s) - k + 1) + 1 = Len(t) - Len(s) + k
    OBVIOUS
  <2>. QED
    BY <1>1, <1>2, <2>1, <2>2, <2>3
<1>7. ASSUME \A k \in 1..Len(s) : s[k] = t[Len(t) - Len(s) + k]
      PROVE  \A k \in 1..Len(s) : rs[k] = rt[k]
  <2>. TAKE k \in 1..Len(s)
  <2>1. Len(s) - k + 1 \in 1..Len(s) /\ k \in 1..Len(t)
    OBVIOUS
  <2>2. s[Len(s) - k + 1] = t[Len(t) - Len(s) + (Len(s) - k + 1)]
    BY <1>7, <2>1
  <2>3. Len(t) - Len(s) + (Len(s) - k + 1) = Len(t) - k + 1
    OBVIOUS
  <2>. QED
    BY <1>1, <1>2, <2>1, <2>2, <2>3
<1>. QED
  BY <1>5, <1>6, <1>7

(* A name is within a domain only if the domain is a suffix of its text,   *)
(* as far as case does not matter.                                         *)
LEMMA WithinIsSuffix ==
    ASSUME NEW name \in Seq(Chars), NEW domain \in Seq(Chars),
           name # <<>>, name[Len(name)] = DOT,
           Folded(name) = name, Folded(domain) = domain, Within(name, domain)
    PROVE  IsSuffix(domain, name)
<1>1. CASE domain = <<DOT>>
  <2>1. Len(domain) = 1 /\ domain[1] = DOT /\ Len(name) >= 1
    BY <1>1
  <2>2. \A k \in 1..Len(domain) : domain[k] = name[Len(name) - Len(domain) + k]
    BY <2>1
  <2>. QED
    BY <2>1, <2>2, SuffixByIndex
<1>2. CASE name = domain
  BY <1>2, SuffixByIndex
<1>3. CASE IsSuffix(<<DOT>> \o domain, name)
  <2>. DEFINE longer == <<DOT>> \o domain
  <2>1. /\ longer \in Seq(Chars) /\ Len(longer) = Len(domain) + 1
        /\ \A k \in 1..Len(domain) : longer[k + 1] = domain[k]
    BY CharsAssumption
  <2>. HIDE DEF longer
  <2>2. /\ Len(longer) <= Len(name)
        /\ \A k \in 1..Len(longer) : longer[k] = name[Len(name) - Len(longer) + k]
    BY <1>3, <2>1, SuffixByIndex DEF longer
  <2>3. ASSUME NEW k \in 1..Len(domain)
        PROVE  domain[k] = name[Len(name) - Len(domain) + k]
    <3>1. k + 1 \in 1..Len(longer)
      BY <2>1
    <3>2. Len(name) - Len(longer) + (k + 1) = Len(name) - Len(domain) + k
      BY <2>1
    <3>. QED
      BY <2>1, <2>2, <3>1, <3>2
  <2>4. Len(domain) <= Len(name)
    BY <2>1, <2>2
  <2>. QED
    BY <2>3, <2>4, SuffixByIndex
<1>. QED
  BY <1>1, <1>2, <1>3 DEF Within

(* A plain query is matched by the filters whose labels cover it, and one  *)
(* without a name by those for its type.                                   *)
LEMMA PlainMatches ==
    ASSUME TypeOK, query \in Queries, Plain(query), NEW f \in Rejects \union Accepts
    PROVE  Matches(f, query) <=> Covers(f, query)
<1>1. /\ query.name \in Seq(Chars)
      /\ query.name # <<>> => query.name[Len(query.name)] = DOT
  BY QueriesAssumption
<1>2. f.domain \in Seq(Chars)
  <2>1. options.accept \in Seq(Options) /\ options.reject \in Seq(Options)
    BY OptionsType
  <2>2. PICK list \in {options.accept, options.reject} :
            \E k \in DOMAIN list : f = FilterOf(list[k])
    BY DEF Rejects, Accepts, FiltersOf
  <2>3. PICK k \in DOMAIN list : f = FilterOf(list[k])
    BY <2>2
  <2>4. list[k] \in Options
    BY <2>1, <2>2, <2>3
  <2>5. f \in Filters
    BY <2>3, <2>4, FilterType
  <2>. QED
    BY <2>5 DEF Filters
<1>3. Folded(query.name) = query.name /\ Folded(f.domain) = f.domain
  BY DEF Plain
<1>4. query.name # <<>> => (IsSuffix(f.domain, query.name) <=> Within(query.name, f.domain))
  BY <1>1, <1>2, <1>3, WithinIsSuffix DEF Plain
<1>5. (f.types # <<>> => query.type \in ToSet(f.types))
        <=> (f.types = <<>> \/ query.type \in ToSet(f.types))
  OBVIOUS
<1>. QED
  BY <1>1, <1>4, <1>5 DEF Matches, Covers

(* A plain query is decided by labels, for any options.                    *)
THEOREM LabelsDecide == Spec => []AgreesWithLabels
<1>1. IInv => AgreesWithLabels
  <2>. SUFFICES ASSUME IInv, pc = "decided", Plain(query)
                PROVE  accepted <=>
                         /\ \A f \in Rejects : ~Covers(f, query)
                         /\ Accepts = {} \/ \E f \in Accepts : Covers(f, query)
    BY DEF AgreesWithLabels
  <2>1. TypeOK /\ query \in Queries
    BY DEF IInv, TypeOK
  <2>2. \A f \in Rejects \union Accepts : Matches(f, query) <=> Covers(f, query)
    BY <2>1, PlainMatches
  <2>. QED
    BY <2>2 DEF IInv, DecisionIsRule
<1>. QED
  BY <1>1, FilterInvariance, PTL
=============================================================================
