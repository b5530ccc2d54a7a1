-------------------------- MODULE ZoneParserProofs ---------------------------
(* What the reader of a zone may rely on, for every text, lexicon and size *)
(* of the channels.                                                        *)
EXTENDS ZoneParser, SequenceTheorems, TLAPS

-----------------------------------------------------------------------------
(* The results that were made so far, in their order. What they hold is of *)
(* no interest, only that they are sequences.                              *)
IsAList(s)  == s \in Seq({s[i] : i \in DOMAIN s})
Results    == got \o t \o due
Harmless(r) == r.ok \/ r.at = "dirOrigin"

SeqsOK == IsAList(got) /\ IsAList(t) /\ IsAList(due)

(* Until the parser ends no result is an error that ends the zone, and the *)
(* parser has ended when it sends one, which then is the last.             *)
ErrorsOK ==
    /\ \A i \in 1..Len(Results) - 1 : Harmless(Results[i])
    /\ p.st # "end" => \A i \in 1..Len(Results) : Harmless(Results[i])

ParserOK == DOMAIN p = DOMAIN Begins

EndInv == SeqsOK /\ ErrorsOK /\ ParserOK

(* What a step of the parser may be about to send: nothing, one result, or *)
(* the complaint about an origin and an error. After an error it has ended.*)
Sends ==
    \/ due' = <<>>
    \/ \E r : due' = <<r>> /\ (Harmless(r) \/ p'.st = "end")
    \/ \E r, e : due' = <<r, e>> /\ Harmless(r) /\ p'.st = "end"

ParserStep ==
    /\ due = <<>> /\ p.st # "end" /\ UNCHANGED <<t, got>>
    /\ DOMAIN p' = DOMAIN p
    /\ Sends \/ UNCHANGED <<p, due>>

-----------------------------------------------------------------------------
(* Sequences.                                                              *)
LEMMA ListOf ==
    ASSUME NEW S, NEW s \in Seq(S)
    PROVE  IsAList(s)
BY DEF IsAList

(* Three lists are sequences over one set, as the lemmas on them ask.      *)
LEMMA SomeSet ==
    ASSUME NEW s, NEW u, NEW w, IsAList(s), IsAList(u), IsAList(w)
    PROVE  \E S : s \in Seq(S) /\ u \in Seq(S) /\ w \in Seq(S)
<1> DEFINE S == {s[i] : i \in DOMAIN s} \union {u[i] : i \in DOMAIN u} \union {w[i] : i \in DOMAIN w}
<1>1. /\ s \in Seq({s[i] : i \in DOMAIN s}) /\ u \in Seq({u[i] : i \in DOMAIN u})
      /\ w \in Seq({w[i] : i \in DOMAIN w})
  BY DEF IsAList
<1>2. \A A, B : A \subseteq B => Seq(A) \subseteq Seq(B)
  OBVIOUS
<1>3. s \in Seq(S) /\ u \in Seq(S) /\ w \in Seq(S)
  BY <1>1, <1>2
<1>4. QED
  BY <1>3

(* What is sent or read moves from the end of one sequence to the next one;*)
(* all three are the same.                                                 *)
LEMMA Moved ==
    ASSUME NEW u, NEW w, IsAList(u), IsAList(w), w # <<>>
    PROVE  /\ IsAList(Append(u, Head(w))) /\ IsAList(Tail(w))
           /\ Append(u, Head(w)) \o Tail(w) = u \o w
<1>1. PICK S : u \in Seq(S) /\ w \in Seq(S)
  BY SomeSet
<1> DEFINE h == Head(w)
           r == Tail(w)
<1>2. h \in S /\ r \in Seq(S) /\ w = <<h>> \o r /\ <<h>> \in Seq(S)
  BY <1>1
<1> HIDE DEF h, r
<1>3. Append(u, h) \in Seq(S) /\ Append(u, h) = u \o <<h>>
  BY <1>1, <1>2, AppendProperties, AppendIsConcat
<1>4. (u \o <<h>>) \o r = u \o (<<h>> \o r)
  BY <1>1, <1>2, ConcatAssociative
<1>5. QED
  BY <1>2, <1>3, <1>4, ListOf DEF h, r

(* The lists of results may be joined in either order.                     *)
LEMMA Joined ==
    ASSUME NEW s, NEW u, NEW w, IsAList(s), IsAList(u), IsAList(w)
    PROVE  s \o u \o w = s \o (u \o w)
<1>1. PICK S : s \in Seq(S) /\ u \in Seq(S) /\ w \in Seq(S)
  BY SomeSet
<1>2. QED
  BY <1>1, ConcatAssociative

(* One result more.                                                        *)
LEMMA Extended ==
    ASSUME NEW s, IsAList(s), NEW ext, IsAList(ext)
    PROVE  /\ Len(s) \in Nat /\ Len(ext) \in Nat /\ Len(s \o ext) = Len(s) + Len(ext)
           /\ \A i \in 1..Len(s) : (s \o ext)[i] = s[i]
           /\ \A i \in 1..Len(ext) : (s \o ext)[Len(s) + i] = ext[i]
           /\ s \o <<>> = s
           /\ IsAList(s \o ext)
<1>1. PICK S : s \in Seq(S) /\ ext \in Seq(S)
  BY SomeSet
<1>2. Len(s) \in Nat /\ Len(ext) \in Nat
  BY <1>1
<1>3. /\ s \o ext \in Seq(S) /\ Len(s \o ext) = Len(s) + Len(ext)
      /\ \A i \in 1..Len(s) + Len(ext) : (s \o ext)[i] = IF i <= Len(s) THEN s[i] ELSE ext[i - Len(s)]
  BY <1>1, ConcatProperties
<1>4. s \o <<>> = s
  BY <1>1, ConcatEmptySeq
<1>5. ASSUME NEW i \in 1..Len(s)  PROVE (s \o ext)[i] = s[i]
  <2>1. i \in 1..Len(s) + Len(ext) /\ i <= Len(s)
    BY <1>2
  <2>2. QED
    BY <1>3, <2>1
<1>6. ASSUME NEW i \in 1..Len(ext)  PROVE (s \o ext)[Len(s) + i] = ext[i]
  <2>1. Len(s) + i \in 1..Len(s) + Len(ext) /\ ~(Len(s) + i <= Len(s)) /\ Len(s) + i - Len(s) = i
    BY <1>2
  <2>2. QED
    BY <1>3, <2>1
<1>7. IsAList(s \o ext)
  BY <1>3, ListOf
<1>8. QED
  BY <1>2, <1>3, <1>4, <1>5, <1>6, <1>7

-----------------------------------------------------------------------------
(* The results as one sequence: they are the same when one is sent or read,*)
(* and what the parser is about to send comes after all others.            *)
LEMMA SentOrRead ==
    ASSUME EndInv, UNCHANGED p,
           \/ due # <<>> /\ t' = Append(t, Head(due)) /\ due' = Tail(due) /\ UNCHANGED got
           \/ t # <<>> /\ got' = Append(got, Head(t)) /\ t' = Tail(t) /\ UNCHANGED due
    PROVE  EndInv'
<1>1. IsAList(got) /\ IsAList(t) /\ IsAList(due)
  BY DEF EndInv, SeqsOK
<1>2. CASE due # <<>> /\ t' = Append(t, Head(due)) /\ due' = Tail(due) /\ UNCHANGED got
  <2>1. IsAList(t') /\ IsAList(due') /\ t' \o due' = t \o due
    BY <1>1, <1>2, Moved
  <2>2. SeqsOK'
    BY <1>1, <1>2, <2>1 DEF SeqsOK, IsAList
  <2>3. got \o t' \o due' = got \o t \o due
    <3>1. IsAList(got) /\ IsAList(t') /\ IsAList(due')
      BY <1>1, <2>1
    <3>2. got \o t' \o due' = got \o (t' \o due')
      BY <3>1, Joined
    <3>3. got \o t \o due = got \o (t \o due)
      BY <1>1, Joined
    <3>4. QED
      BY <2>1, <3>2, <3>3
  <2>4. Results' = Results
    BY <1>2, <2>3 DEF Results
  <2>5. QED
    BY <2>2, <2>4 DEF EndInv, ErrorsOK, ParserOK
<1>3. CASE t # <<>> /\ got' = Append(got, Head(t)) /\ t' = Tail(t) /\ UNCHANGED due
  <2>1. IsAList(got') /\ IsAList(t') /\ got' \o t' = got \o t
    BY <1>1, <1>3, Moved
  <2>2. SeqsOK'
    BY <1>1, <1>3, <2>1 DEF SeqsOK, IsAList
  <2>3. Results' = Results
    BY <1>3, <2>1 DEF Results
  <2>4. QED
    BY <2>2, <2>3 DEF EndInv, ErrorsOK, ParserOK
<1>4. QED
  BY <1>2, <1>3

(* What a step of the parser adds keeps the results in order.              *)
LEMMA ParserSteps ==
    ASSUME EndInv, ParserStep
    PROVE  EndInv'
<1>1. /\ IsAList(got) /\ IsAList(t) /\ due = <<>> /\ p.st # "end" /\ got' = got /\ t' = t
      /\ DOMAIN p' = DOMAIN p
  BY DEF EndInv, SeqsOK, ParserStep
<1>2. ParserOK'
  BY <1>1 DEF EndInv, ParserOK
<1> DEFINE before == got \o t
<1>3. IsAList(before) /\ Len(before) \in Nat
  BY <1>1, Extended
<1>4. Results = before /\ Results' = before \o due'
  <2>1. before \o <<>> = before
    BY <1>3, Extended
  <2>2. QED
    BY <1>1, <2>1 DEF Results
<1>5. \A i \in 1..Len(before) : Harmless(before[i])
  BY <1>1, <1>4 DEF EndInv, ErrorsOK
<1> HIDE DEF before
<1>6. CASE UNCHANGED <<p, due>>
  <2>1. SeqsOK' /\ Results' = Results
    BY <1>1, <1>6 DEF EndInv, SeqsOK, Results
  <2>2. QED
    BY <1>2, <1>6, <2>1 DEF EndInv, ErrorsOK
<1>7. ASSUME IsAList(due'), \A i \in 1..Len(due') - 1 : Harmless(due'[i]),
             p'.st # "end" => \A i \in 1..Len(due') : Harmless(due'[i])
      PROVE  EndInv'
  <2>1. SeqsOK'
    BY <1>1, <1>7 DEF SeqsOK
  <2> DEFINE n == Len(before)
             m == Len(due')
             all == before \o due'
  <2>2. /\ n \in Nat /\ m \in Nat /\ Len(all) = n + m
        /\ \A i \in 1..n : all[i] = before[i]
        /\ \A i \in 1..m : all[n + i] = due'[i]
    BY <1>3, <1>7, Extended
  <2>3. Results' = all
    BY <1>4
  <2> HIDE DEF all
  <2>4. ASSUME NEW i \in 1..n + m, i > n => Harmless(due'[i - n])
        PROVE  Harmless(all[i])
    <3>1. CASE i <= n
      <4>1. i \in 1..n
        BY <2>2, <3>1
      <4>2. QED
        BY <1>5, <2>2, <4>1
    <3>2. CASE i > n
      <4>1. i - n \in 1..m /\ n + (i - n) = i
        BY <2>2, <3>2
      <4>2. all[i] = due'[i - n]
        BY <2>2, <4>1
      <4>3. QED
        BY <2>4, <3>2, <4>2
    <3>3. QED
      BY <2>2, <3>1, <3>2
  <2>5. ASSUME NEW i \in 1..Len(all) - 1  PROVE Harmless(all[i])
    <3>1. i \in 1..n + m /\ (i > n => i - n \in 1..m - 1)
      BY <2>2
    <3>2. QED
      BY <1>7, <2>4, <3>1
  <2>6. ASSUME p'.st # "end", NEW i \in 1..Len(all)  PROVE Harmless(all[i])
    <3>1. i \in 1..n + m /\ (i > n => i - n \in 1..m)
      BY <2>2
    <3>2. QED
      BY <1>7, <2>4, <2>6, <3>1
  <2>7. ErrorsOK'
    BY <2>3, <2>5, <2>6 DEF ErrorsOK
  <2>8. QED
    BY <1>2, <2>1, <2>7 DEF EndInv
<1>8. CASE due' = <<>>
  <2>1. IsAList(due') /\ Len(due') = 0
    BY <1>8 DEF IsAList
  <2>2. QED
    BY <1>7, <2>1
<1>9. CASE \E r : due' = <<r>> /\ (Harmless(r) \/ p'.st = "end")
  <2>1. PICK r : due' = <<r>> /\ (Harmless(r) \/ p'.st = "end")
    BY <1>9
  <2>2. due' \in Seq({r}) /\ Len(due') = 1 /\ due'[1] = r
    BY <2>1
  <2>3. IsAList(due')
    BY <2>2, ListOf, Zenon
  <2>4. /\ \A i \in 1..Len(due') - 1 : FALSE
        /\ \A i \in 1..Len(due') : due'[i] = r
    BY <2>2
  <2>5. QED
    BY <1>7, <2>1, <2>3, <2>4
<1>10. CASE \E r, e : due' = <<r, e>> /\ Harmless(r) /\ p'.st = "end"
  <2>1. PICK r, e : due' = <<r, e>> /\ Harmless(r) /\ p'.st = "end"
    BY <1>10
  <2>2. due' \in Seq({r, e}) /\ Len(due') = 2 /\ due'[1] = r
    BY <2>1
  <2>3. IsAList(due')
    BY <2>2, ListOf, Zenon
  <2>4. \A i \in 1..Len(due') - 1 : due'[i] = r
    BY <2>2
  <2>5. QED
    BY <1>7, <2>1, <2>3, <2>4
<1>11. QED
  BY <1>6, <1>8, <1>9, <1>10 DEF ParserStep, Sends

-----------------------------------------------------------------------------
(* The lines up to the type, directives and data: every step of the parser *)
(* needs that it has not ended and sent what was due, and sends at most one*)
(* error, as the last thing it does.                                       *)
LEMMA SomeStep ==
    ASSUME NEW next, DOMAIN next = DOMAIN p, Goes(next)
    PROVE  DOMAIN p' = DOMAIN p /\ Sends
BY DEF Goes, Sends

(* A parser that fails sends the error and ends.                           *)
LEMMA FailStep ==
    ASSUME ParserOK, Fails
    PROVE  DOMAIN p' = DOMAIN p /\ Sends
<1>1. "st" \in DOMAIN p
  BY DEF ParserOK, Begins
<1>2. p' = [p EXCEPT !.st = "end", !.want = <<>>] /\ due' = <<Error>>
  BY DEF Fails
<1>3. p'.st = "end" /\ DOMAIN p' = DOMAIN p
  BY <1>1, <1>2
<1>4. QED
  BY <1>2, <1>3 DEF Sends

(* A parser that reads the end of a record sends the record.               *)
LEMMA FinishStep ==
    ASSUME NEW data, NEW comment, Finishes(data, comment)
    PROVE  DOMAIN p' = DOMAIN p /\ Sends
<1>1. Harmless(RR(data, comment))
  BY DEF RR, Harmless
<1>2. due' = <<RR(data, comment)>> /\ DOMAIN p' = DOMAIN p
  BY DEF Finishes
<1>3. QED
  BY <1>1, <1>2 DEF Sends

(* Every line starts with the same variables.                              *)
LEMMA FreshOK == DOMAIN Fresh = DOMAIN p
BY DEF Fresh

(* After a directive the parser goes on, complains or ends.                *)
LEMMA DirectedStep ==
    ASSUME ParserOK, NEW inOrder \in BOOLEAN, Directed(inOrder)
    PROVE  DOMAIN p' = DOMAIN p /\ Sends
<1> DEFINE back == [p EXCEPT !.st = "owner", !.want = <<>>]
           complaint == [Error EXCEPT !.at = "dirOrigin"]
<1>1. DOMAIN back = DOMAIN p /\ "st" \in DOMAIN p
  BY DEF ParserOK, Begins
<1>2. Harmless(complaint)
  BY DEF Error, Harmless
<1>3. ASSUME NEW ttl, Goes([back EXCEPT !.defttl = ttl])
      PROVE  DOMAIN p' = DOMAIN p /\ Sends
  BY <1>1, <1>3, SomeStep
<1>4. ASSUME p' = [back EXCEPT !.origin = NewOrigin],
             due' = IF inOrder THEN <<>> ELSE <<complaint>>
      PROVE  DOMAIN p' = DOMAIN p /\ Sends
  BY <1>1, <1>2, <1>4 DEF Sends
<1>5. ASSUME p' = [back EXCEPT !.st = "end"],
             due' = IF inOrder THEN <<Error>> ELSE <<complaint, Error>>
      PROVE  DOMAIN p' = DOMAIN p /\ Sends
  <2>1. p'.st = "end" /\ DOMAIN p' = DOMAIN p
    BY <1>1, <1>5
  <2>2. QED
    BY <1>2, <1>5, <2>1 DEF Sends
<1>6. QED
  BY <1>3, <1>4, <1>5, FailStep DEF Directed

-----------------------------------------------------------------------------
(* The states before the data of a record send at most one result each.    *)
LEMMA LineSteps ==
    ASSUME ParserOK, Beginning \/ ExpectBlank \/ ExpectAny \/ ExpectRdata \/ ZoneEnds
    PROVE  ParserStep
<1>1. CASE Beginning
  <2>1. due = <<>> /\ p.st = "owner" /\ UNCHANGED <<t, got>>
    BY <1>1 DEF Beginning, Runs, Ranges, Receives
  <2>2. DOMAIN p' = DOMAIN p /\ Sends
    BY <1>1, SomeStep, FailStep, FreshOK DEF Beginning
  <2>3. QED
    BY <2>1, <2>2 DEF ParserStep
<1>2. CASE ExpectBlank
  <2>1. due = <<>> /\ p.st \in DOMAIN AfterBlank /\ UNCHANGED <<t, got>>
    BY <1>2 DEF ExpectBlank, Runs, Ranges, Receives
  <2>2. p.st # "end"
    BY <2>1 DEF AfterBlank
  <2>3. DOMAIN p' = DOMAIN p /\ Sends
    BY <1>2, SomeStep, FailStep DEF ExpectBlank
  <2>4. QED
    BY <2>1, <2>2, <2>3 DEF ParserStep
<1>3. CASE ExpectAny
  <2>1. due = <<>> /\ p.st \in DOMAIN Expects /\ UNCHANGED <<t, got>>
    BY <1>3 DEF ExpectAny, Runs, Ranges, Receives
  <2>2. p.st # "end"
    BY <2>1 DEF Expects
  <2>3. DOMAIN p' = DOMAIN p /\ Sends
    BY <1>3, SomeStep, FailStep DEF ExpectAny
  <2>4. QED
    BY <2>1, <2>2, <2>3 DEF ParserStep
<1>4. CASE ExpectRdata
  <2>1. due = <<>> /\ p.st = "rdata" /\ UNCHANGED <<t, got>>
    BY <1>4 DEF ExpectRdata, Runs, Ranges, Receives
  <2>2. DOMAIN p' = DOMAIN p /\ Sends
    BY <1>4, SomeStep, FailStep DEF ExpectRdata
  <2>3. QED
    BY <2>1, <2>2 DEF ParserStep
<1>5. CASE ZoneEnds
  <2>1. due = <<>> /\ p.st # "end" /\ UNCHANGED <<t, got>>
    BY <1>5 DEF ZoneEnds, Runs
  <2>2. DOMAIN p' = DOMAIN p /\ Sends
    BY <1>5, SomeStep DEF ZoneEnds
  <2>3. QED
    BY <2>1, <2>2 DEF ParserStep
<1>6. QED
  BY <1>1, <1>2, <1>3, <1>4, <1>5

-----------------------------------------------------------------------------
(* So do those of a directive, but for the complaint and the error behind. *)
LEMMA DirectiveSteps ==
    ASSUME ParserOK, ExpectDirective \/ Include \/ Slurp
    PROVE  ParserStep
<1>1. CASE ExpectDirective
  <2>1. due = <<>> /\ p.st \in {"dirTtl", "dirOrigin"} /\ UNCHANGED <<t, got>>
    BY <1>1 DEF ExpectDirective, Runs, Ranges, Receives
  <2>2. DOMAIN p' = DOMAIN p /\ Sends
    BY <1>1, SomeStep, FailStep DEF ExpectDirective
  <2>3. QED
    BY <2>1, <2>2 DEF ParserStep
<1>2. CASE Include
  <2>1. due = <<>> /\ p.st \in {"dirInclude", "include", "includeOrigin"} /\ UNCHANGED <<t, got>>
    BY <1>2 DEF Include, Runs, Ranges, Receives
  <2>2. DOMAIN p' = DOMAIN p /\ Sends
    BY <1>2, SomeStep, FailStep DEF Include
  <2>3. QED
    BY <2>1, <2>2 DEF ParserStep
<1>3. CASE Slurp
  <2>1. due = <<>> /\ p.st = "data" /\ UNCHANGED <<t, got>>
    BY <1>3 DEF Slurp, Reading, Runs, Receives
  <2>2. LineIsOver(Next_l) \in BOOLEAN
    BY DEF LineIsOver
  <2>3. DOMAIN p' = DOMAIN p /\ Sends
    BY <1>3, <2>2, SomeStep, FailStep, FinishStep, DirectedStep DEF Slurp
  <2>4. QED
    BY <2>1, <2>3 DEF ParserStep
<1>4. QED
  BY <1>1, <1>2, <1>3

(* And those of the data.                                                  *)
LEMMA DataSteps ==
    ASSUME ParserOK, ReadField \/ ReadLoop \/ Spin \/ ReadTexts
    PROVE  ParserStep
<1>1. CASE ReadField
  <2>1. due = <<>> /\ p.st = "data" /\ UNCHANGED <<t, got>>
    BY <1>1 DEF ReadField, Runs, Receives
  <2>2. (DOMAIN p' = DOMAIN p /\ Sends) \/ UNCHANGED <<p, due>>
    BY <1>1, SomeStep, FailStep, FinishStep DEF ReadField, Crashes
  <2>3. QED
    BY <2>1, <2>2 DEF ParserStep
<1>2. CASE ReadLoop
  <2>1. due = <<>> /\ p.st = "data" /\ UNCHANGED <<t, got>>
    BY <1>2 DEF ReadLoop, Reading, Runs, Receives
  <2>2. (DOMAIN p' = DOMAIN p /\ Sends) \/ UNCHANGED <<p, due>>
    BY <1>2, SomeStep, FailStep, FinishStep DEF ReadLoop, Crashes
  <2>3. QED
    BY <2>1, <2>2 DEF ParserStep
<1>3. CASE Spin
  <2>1. due = <<>> /\ p.st = "spinning" /\ UNCHANGED <<t, got>>
    BY <1>3 DEF Spin, Runs
  <2>2. DOMAIN p' = DOMAIN p /\ Sends
    BY <1>3, SomeStep DEF Spin
  <2>3. QED
    BY <2>1, <2>2 DEF ParserStep
<1>4. CASE ReadTexts
  <2>1. due = <<>> /\ p.st = "data" /\ UNCHANGED <<t, got>>
    BY <1>4 DEF ReadTexts, Reading, Runs, Receives
  <2>2. DOMAIN p' = DOMAIN p /\ Sends
    BY <1>4, SomeStep, FailStep, FinishStep DEF ReadTexts
  <2>3. QED
    BY <2>1, <2>2 DEF ParserStep
<1>5. QED
  BY <1>1, <1>2, <1>3, <1>4

-----------------------------------------------------------------------------
(* At the start there are no results.                                      *)
LEMMA InitiallyNone == Init => EndInv
<1>1. SUFFICES ASSUME Init PROVE EndInv
  OBVIOUS
<1>2. p = Begins /\ got = <<>> /\ t = <<>> /\ due = <<>>
  BY <1>1 DEF Init
<1>3. IsAList(<<>>)
  BY DEF IsAList
<1>4. Results = <<>> /\ Len(Results) = 0
  BY <1>2 DEF Results
<1>5. QED
  BY <1>2, <1>3, <1>4 DEF EndInv, SeqsOK, ErrorsOK, ParserOK

(* Lexer, parser and reader keep the order in which results are sent.      *)
LEMMA EndInductive == EndInv /\ [Next]_vars => EndInv'
<1>1. SUFFICES ASSUME EndInv, [Next]_vars PROVE EndInv'
  OBVIOUS
<1>2. ASSUME UNCHANGED <<p, due, t, got>>  PROVE EndInv'
  BY <1>1, <1>2 DEF EndInv, SeqsOK, ErrorsOK, ParserOK, IsAList, Results
<1>3. CASE Lexes
  BY <1>2, <1>3 DEF Lexes
<1>4. CASE ReadResult
  BY <1>1, <1>4, SentOrRead DEF ReadResult
<1>5. CASE SendResult
  BY <1>1, <1>5, SentOrRead DEF SendResult
<1>6. CASE Parses /\ ~SendResult
  <2>1. ParserStep
    BY <1>1, <1>6, LineSteps, DirectiveSteps, DataSteps DEF Parses, EndInv
  <2>2. QED
    BY <1>1, <2>1, ParserSteps
<1>7. CASE Terminated \/ UNCHANGED vars
  BY <1>2, <1>7 DEF Terminated, vars
<1>8. QED
  BY <1>1, <1>3, <1>4, <1>5, <1>6, <1>7 DEF Next

(* An error is the last result of a zone, but for what follows the value   *)
(* of $ORIGIN: the parser has then sent what came before, and it sends     *)
(* nothing more, however the three goroutines are interleaved and however  *)
(* small the channels are.                                                 *)
THEOREM ErrorEndsTheZoneHolds == Spec => []ErrorEndsTheZone
<1>1. EndInv => ErrorEndsTheZone
  BY DEF EndInv, ErrorsOK, ErrorEndsTheZone, Results, Harmless
<1>2. QED
  BY <1>1, InitiallyNone, EndInductive, PTL DEF Spec

-----------------------------------------------------------------------------
(* Progress. What the lexer and the parser keep: their own variables, and  *)
(* the channels, which hold no more than they can.                         *)
Stages == {"reading", "done", "crashed"}
Room   == IF reader = "ReadRR" THEN 1 ELSE ZoneCapacity

IsLexer(l) == DOMAIN l = DOMAIN Starts /\ l.pc \in Stages
LexOK      == IsLexer(lx) /\ text \in Seq(STRING) /\ IsAList(out) /\ IsAList(c)
ReaderOK   == reader \in {"ReadRR", "ParseZone"}
BoundsOK ==
    /\ Len(c) <= Capacity /\ Len(out) <= 2
    /\ Len(t) <= Room /\ Len(due) <= 2
    /\ reader = "ReadRR" => Len(got) <= 1

(* What a symbol is worth to the lexer: at most two tokens.                *)
AtMost(n, s) == IsAList(s) /\ Len(s) \in 0..n
LexerStep ==
    /\ lx.pc = "reading" /\ out = <<>> /\ UNCHANGED c
    /\ IsLexer(lx') /\ AtMost(2, out')
    /\ \/ text # <<>> /\ text' = Tail(text)
       \/ UNCHANGED text /\ lx'.pc = "done"

(* Lists of at most two.                                                   *)
LEMMA NoneOrOne ==
    ASSUME NEW a
    PROVE  AtMost(1, <<>>) /\ AtMost(1, <<a>>) /\ Len(<<a>>) = 1 /\ <<a>>[1] = a
<1>1. IsAList(<<>>) /\ Len(<<>>) = 0
  BY DEF IsAList
<1>2. <<a>> \in Seq({a}) /\ Len(<<a>>) = 1 /\ <<a>>[1] = a
  OBVIOUS
<1>3. IsAList(<<a>>)
  BY <1>2, ListOf, Zenon
<1>4. QED
  BY <1>1, <1>2, <1>3 DEF AtMost

(* A token more after at most one.                                         *)
LEMMA OneMore ==
    ASSUME NEW a, NEW s, AtMost(1, s)
    PROVE  AtMost(2, s \o <<a>>) /\ AtMost(2, Append(s, a)) /\ AtMost(2, s \o <<>>) /\ AtMost(2, s)
<1>1. IsAList(s) /\ Len(s) \in 0..1 /\ IsAList(<<a>>) /\ Len(<<a>>) = 1
  BY NoneOrOne DEF AtMost
<1> DEFINE one == <<a>>
           n   == Len(s)
           m   == Len(s \o one)
<1>2. IsAList(s \o one) /\ m = n + 1 /\ s \o <<>> = s
  BY <1>1, Extended
<1>3. PICK S : s \in Seq(S) /\ <<a>> \in Seq(S)
  BY <1>1, SomeSet
<1>4. a \in S
  BY <1>3
<1>5. Append(s, a) = s \o <<a>>
  BY <1>3, <1>4, AppendIsConcat
<1>6. n \in 0..1
  BY <1>1
<1> HIDE DEF n, m
<1>7. m \in 0..2 /\ n \in 0..2
  BY <1>2, <1>6
<1>8. QED
  BY <1>1, <1>2, <1>5, <1>7, Zenon DEF AtMost, n, m

(* Storing a symbol leaves the lexer a lexer, or ends the program.         *)
LEMMA PutOK ==
    ASSUME NEW l, IsLexer(l), NEW x
    PROVE  IsLexer(Put(l, x)) /\ IsLexer(PutComment(l, x))
BY DEF IsLexer, Put, PutComment, Stages, Starts

(* A symbol is done.                                                       *)
LEMMA TookStep ==
    ASSUME LexOK, lx.pc = "reading", out = <<>>, text # <<>>,
           NEW next, IsLexer(next), NEW tokens, AtMost(2, tokens), Took(next, tokens)
    PROVE  LexerStep
<1>1. UNCHANGED c /\ text' = Tail(text) /\ out' = tokens
  BY DEF Took
<1>2. \A v, u : IsLexer([next EXCEPT !.value = v, !.upper = u])
  BY DEF IsLexer, Starts
<1>3. IsLexer(lx')
  BY <1>2 DEF Took
<1>4. QED
  BY <1>1, <1>3 DEF LexerStep

(* What was gathered is one token, if anything was.                        *)
LEMMA GatheredOne == AtMost(1, Rest) /\ AtMost(1, LastWord)
BY NoneOrOne DEF Rest, LastWord

(* Each symbol is taken with at most two tokens to send.                   *)
LEMMA SymbolSteps ==
    ASSUME LexOK,
           \/ Blank \/ Semicolon \/ CarriageReturn \/ Newline \/ Backslash \/ Quote
           \/ Brace("(") \/ Brace(")") \/ Other
    PROVE  LexerStep
<1> DEFINE take(next, tokens) == IsLexer(next) /\ AtMost(2, tokens) /\ Took(next, tokens)
<1>1. IsLexer(lx) /\ AtMost(2, <<>>)
  <2>1. AtMost(1, <<>>)
    BY NoneOrOne
  <2>2. QED
    BY <2>1, OneMore DEF LexOK
<1>2. ASSUME NEW x, Reads(x), NEW next, NEW tokens, take(next, tokens)  PROVE LexerStep
  BY <1>2, TookStep DEF Reads
<1>3. \A a : AtMost(2, <<a>>)
  BY NoneOrOne, OneMore
<1>4. CASE Blank
  <2> DEFINE word  == IF lx.owner THEN Owner ELSE Word(lx.str)
             words == IF lx.str = <<>> THEN <<>> ELSE <<word>>
             blank == IF lx.space THEN <<>>
                      ELSE <<Lex("Blank", <<" ">>, IF words = <<>> THEN lx.upper ELSE word.upper)>>
             next  == [lx EXCEPT !.str = <<>>, !.owner = FALSE, !.space = TRUE,
                                 !.rrtype = @ \/ (words # <<>> /\ ~lx.owner /\ Spells(lx.str, "type"))]
  <2>1. AtMost(1, words)
    BY NoneOrOne
  <2>2. AtMost(2, words \o blank) /\ AtMost(2, words)
    BY <2>1, OneMore
  <2>3. IsLexer(next) /\ IsLexer([next EXCEPT !.pc = "done"]) /\ IsLexer([lx EXCEPT !.escape = FALSE])
    BY <1>1 DEF IsLexer, Starts, Stages
  <2>4. \/ Took(Put([lx EXCEPT !.escape = FALSE], " "), <<>>)
        \/ Took(PutComment(lx, " "), <<>>)
        \/ Took([next EXCEPT !.pc = "done"], words)
        \/ Took(next, words \o blank)
    BY <1>4 DEF Blank
  <2> HIDE DEF words, blank, next
  <2>5. Reads(" ")
    BY <1>4 DEF Blank
  <2>6. QED
    BY <1>1, <1>2, <2>2, <2>3, <2>4, <2>5, PutOK
<1>5. CASE Semicolon
  <2>1. IsLexer([lx EXCEPT !.escape = FALSE]) /\ IsLexer([lx EXCEPT !.str = <<>>, !.commt = TRUE])
    BY <1>1 DEF IsLexer, Starts
  <2>2. AtMost(2, Rest)
    BY GatheredOne, OneMore
  <2>3. QED
    BY <1>1, <1>2, <1>5, <2>1, <2>2, PutOK DEF Semicolon
<1>6. CASE CarriageReturn
  <2>1. IsLexer([lx EXCEPT !.escape = FALSE])
    BY <1>1 DEF IsLexer, Starts
  <2>2. QED
    BY <1>1, <1>2, <1>6, <2>1, PutOK DEF CarriageReturn
<1>7. CASE Newline
  <2> DEFINE plain == [lx EXCEPT !.escape = FALSE]
  <2>1. IsLexer(plain) /\ IsLexer(LineEnds) /\ IsLexer([plain EXCEPT !.commt = FALSE, !.rrtype = FALSE, !.str = <<>>])
    BY <1>1 DEF IsLexer, Starts, LineEnds
  <2>2. \A a : AtMost(2, LastWord \o <<a>>)
    BY GatheredOne, OneMore
  <2>3. Reads("\n")
    BY <1>7 DEF Newline
  <2>4. \/ Took(Put(plain, "\n"), <<>>)
        \/ \E a : Took(LineEnds, <<a>>)
        \/ Took(PutComment([plain EXCEPT !.commt = FALSE, !.rrtype = FALSE, !.str = <<>>], " "), <<>>)
        \/ \E a : Took(LineEnds, LastWord \o <<a>>)
        \/ Took(plain, <<>>)
    BY <1>7 DEF Newline
  <2> HIDE DEF plain
  <2>5. QED
    BY <1>1, <1>2, <1>3, <2>1, <2>2, <2>3, <2>4, PutOK
<1>8. CASE Backslash
  <2>1. IsLexer([lx EXCEPT !.escape = ~@])
    BY <1>1 DEF IsLexer, Starts
  <2>2. QED
    BY <1>1, <1>2, <1>8, <2>1, PutOK DEF Backslash
<1>9. CASE Quote
  <2>1. IsLexer([lx EXCEPT !.escape = FALSE]) /\ IsLexer([lx EXCEPT !.space = FALSE, !.str = <<>>, !.quote = ~@])
    BY <1>1 DEF IsLexer, Starts
  <2>2. \A a : AtMost(2, Append(Rest, a))
    BY GatheredOne, OneMore
  <2>3. QED
    BY <1>1, <1>2, <1>9, <2>1, <2>2, PutOK DEF Quote
<1>10. ASSUME NEW x, Brace(x)  PROVE LexerStep
  <2>1. /\ IsLexer([lx EXCEPT !.escape = FALSE]) /\ IsLexer([lx EXCEPT !.pc = "done"])
        /\ IsLexer([lx EXCEPT !.brace = @ + 1]) /\ IsLexer([lx EXCEPT !.brace = @ - 1])
    BY <1>1 DEF IsLexer, Starts, Stages
  <2>2. QED
    BY <1>1, <1>2, <1>3, <1>10, <2>1, PutOK DEF Brace
<1>11. CASE Other
  <2> DEFINE x    == Head(text)
             next == [lx EXCEPT !.escape = FALSE]
  <2>1. IsLexer(next)
    BY <1>1 DEF IsLexer, Starts
  <2>2. IsLexer(Put(next, x)) /\ IsLexer(PutComment(next, x))
    BY <2>1, PutOK
  <2>3. IsLexer([Put(next, x) EXCEPT !.space = FALSE])
    BY <2>2 DEF IsLexer, Starts
  <2>4. Reads(x) /\ (Took(PutComment(next, x), <<>>) \/ Took([Put(next, x) EXCEPT !.space = FALSE], <<>>))
    BY <1>11 DEF Other
  <2> HIDE DEF x, next
  <2>5. QED
    BY <1>1, <1>2, <2>2, <2>3, <2>4
<1>12. QED
  BY <1>4, <1>5, <1>6, <1>7, <1>8, <1>9, <1>10, <1>11

(* At the end of the text the last word is sent.                           *)
LEMMA EndOfTextStep ==
    ASSUME LexOK, EndOfText
    PROVE  LexerStep
<1>1. AtMost(2, Rest)
  BY GatheredOne, OneMore
<1>2. IsLexer(lx') /\ lx'.pc = "done"
  BY DEF LexOK, EndOfText, IsLexer, Starts, Stages
<1>3. QED
  BY <1>1, <1>2 DEF EndOfText, LexerStep

-----------------------------------------------------------------------------
(* What is left to do before all tokens are taken: a symbol counts for more*)
(* than the tokens it may become, one to send for more than one sent.      *)
TokensLeft == 5 * Len(text) + 2 * Len(out) + Len(c) + (IF lx.pc = "reading" THEN 5 ELSE 0)

(* The types of what is counted.                                           *)
LEMMA LengthsOK ==
    ASSUME LexOK
    PROVE  /\ Len(text) \in Nat /\ Len(out) \in Nat /\ Len(c) \in Nat
           /\ TokensLeft \in Nat
<1>1. Len(text) \in Nat /\ Len(out) \in Nat /\ Len(c) \in Nat
  <2>1. PICK S : out \in Seq(S) /\ c \in Seq(S)
    BY SomeSet DEF LexOK
  <2>2. QED
    BY <2>1 DEF LexOK
<1>2. QED
  BY <1>1 DEF TokensLeft

(* The first of a list is taken.                                           *)
LEMMA TailIsShorter ==
    ASSUME NEW s, IsAList(s), s # <<>>
    PROVE  IsAList(Tail(s)) /\ Len(s) \in Nat /\ Len(s) > 0 /\ Len(Tail(s)) = Len(s) - 1
<1>1. PICK S : s \in Seq(S)
  BY SomeSet
<1>2. Tail(s) \in Seq(S) /\ Len(s) \in Nat /\ Len(s) > 0 /\ Len(Tail(s)) = Len(s) - 1
  BY <1>1
<1>3. QED
  BY <1>2, ListOf

(* The lexer takes one of what is left with every symbol.                  *)
LEMMA LexerStepGoesOn ==
    ASSUME LexOK, LexerStep
    PROVE  LexOK' /\ TokensLeft' < TokensLeft /\ Len(out') <= 2
<1> DEFINE n  == Len(text)
           n1 == Len(text')
           m1 == Len(out')
           k  == Len(c)
           f1 == IF lx'.pc = "reading" THEN 5 ELSE 0
<1>1. /\ n \in Nat /\ k \in Nat /\ m1 \in 0..2 /\ f1 \in {0, 5}
      /\ TokensLeft = 5 * n + k + 5 /\ TokensLeft' = 5 * n1 + 2 * m1 + k + f1
  <2>1. Len(out) = 0 /\ m1 \in 0..2 /\ c' = c /\ lx.pc = "reading"
    BY DEF LexerStep, AtMost
  <2>2. QED
    BY <2>1, LengthsOK DEF TokensLeft
<1>2. \/ n1 = n - 1
      \/ n1 = n /\ f1 = 0
  BY DEF LexOK, LexerStep
<1>3. n1 \in Nat /\ text' \in Seq(STRING)
  BY DEF LexOK, LexerStep
<1> HIDE DEF n, n1, m1, k, f1
<1>4. TokensLeft' < TokensLeft /\ m1 <= 2
  BY <1>1, <1>2, <1>3
<1>5. LexOK'
  BY <1>3 DEF LexOK, LexerStep, AtMost, IsAList
<1>6. QED
  BY <1>4, <1>5 DEF m1

(* So it does when it sends a token, for which there is room.              *)
LEMMA SendGoesOn ==
    ASSUME LexOK, BoundsOK, Send
    PROVE  LexOK' /\ TokensLeft' < TokensLeft /\ Len(out') <= 2 /\ Len(c') <= Capacity
<1>1. /\ IsAList(out) /\ IsAList(c) /\ out # <<>> /\ Len(c) < Capacity
      /\ c' = Append(c, Head(out)) /\ out' = Tail(out) /\ UNCHANGED <<text, lx>>
  BY DEF LexOK, Send
<1> DEFINE m  == Len(out)
           m1 == Len(out')
           k  == Len(c)
           k1 == Len(c')
           rest == 5 * Len(text) + (IF lx.pc = "reading" THEN 5 ELSE 0)
<1>2. IsAList(out') /\ IsAList(c') /\ m \in Nat /\ m1 = m - 1 /\ m <= 2
  BY <1>1, Moved, TailIsShorter DEF BoundsOK
<1>3. k \in Nat /\ k1 = k + 1 /\ k < Capacity
  <2>1. PICK S : out \in Seq(S) /\ c \in Seq(S)
    BY <1>1, SomeSet
  <2>2. QED
    BY <1>1, <2>1
<1>4. TokensLeft = rest + 2 * m + k /\ TokensLeft' = rest + 2 * m1 + k1 /\ rest \in Nat
  <2>1. Len(text) \in Nat /\ m \in Nat /\ m1 \in Int /\ k \in Nat /\ k1 \in Nat
    BY <1>2, <1>3, LengthsOK
  <2>2. text' = text /\ lx' = lx
    BY <1>1
  <2>3. QED
    BY <2>1, <2>2 DEF TokensLeft
<1> HIDE DEF m, m1, k, k1, rest
<1>5. TokensLeft' < TokensLeft /\ m1 <= 2 /\ k1 <= Capacity
  BY <1>2, <1>3, <1>4, CapacityAssumption
<1>6. LexOK'
  BY <1>1, <1>2 DEF LexOK, IsAList
<1>7. QED
  BY <1>5, <1>6 DEF m1, k1

-----------------------------------------------------------------------------
(* What is left of the part of the line the parser is in, when there are no*)
(* tokens any more: the steps of the data, then the end of the line.       *)
PartLeft ==
    CASE p.st = "end" -> 0
      [] p.st = "data" -> 2 + Len(p.want)
      [] p.st \in {"include", "includeOrigin"} -> 2
      [] OTHER -> 1

(* The steps of the data that are left are the end of a row, or two: the   *)
(* texts after the first, or the rest of a line and the directive it is of.*)
Named(steps) == \E i \in 1..Len(steps) : steps[i] = "names"
IsPair(steps) ==
    /\ IsAList(steps) /\ Len(steps) = 2
    /\ steps[1] \in {"txtq", "txtu"} \union Slurps
    /\ steps[2] \in {"txt", "txt1", "dirTtl", "dirOrigin"}
WantOK ==
    /\ p.st = "data" => \/ IsRow(p.want) /\ (Named(p.want) => p.h.type = "HIP")
                        \/ IsPair(p.want)
    /\ p.st = "spinning" => p.h.type = "HIP"

(* A row is a list.                                                        *)
LEMMA RowIsList ==
    ASSUME NEW w, IsRow(w)
    PROVE  /\ IsAList(w) /\ Len(w) \in Nat /\ Len(w) > 0 /\ w # <<>>
<1>1. w \in Seq({w[i] : i \in DOMAIN w}) /\ w # <<>>
  BY DEF IsRow, Range
<1>2. Len(w) \in Nat /\ Len(w) > 0
  BY <1>1
<1>3. QED
  BY <1>1, <1>2 DEF IsAList

(* The end of a row is a row.                                              *)
LEMMA RowSuffix ==
    ASSUME NEW w, IsRow(w), NEW k \in 1..Len(w) - 1
    PROVE  LET u == SubSeq(w, k + 1, Len(w))
           IN  IsRow(u) /\ Len(u) = Len(w) - k /\ (Named(u) => Named(w))
<1> DEFINE u == SubSeq(w, k + 1, Len(w))
           n == Len(w)
           Ends == Loops \union Texts1 \union Slurps
<1> DEFINE S == {w[i] : i \in DOMAIN w}
<1>1. /\ w \in Seq(S) /\ n \in Nat /\ k \in 1..n - 1
      /\ \A i \in 1..n :
            /\ w[i] \in Ends <=> i = n
            /\ w[i] = "?" => i + 1 < n
            /\ w[i] \in {"north?", "east?"} => i + 5 <= n
  BY RowIsList DEF IsRow, IsAList
<1> HIDE DEF S
<1>2. u \in Seq(S) /\ Len(u) = n - k /\ \A i \in 1..n - k : u[i] = w[k + i]
  <2>1. u \in Seq(S) /\ Len(u) = n - k
    BY <1>1
  <2>2. ASSUME NEW i \in 1..n - k  PROVE u[i] = w[k + i]
    BY <1>1
  <2>3. QED
    BY <2>1, <2>2
<1> HIDE DEF u, n, Ends
<1>3. \A i \in 1..n - k : k + i \in 1..n /\ (k + i = n <=> i = n - k)
  BY <1>1
<1>4. ASSUME NEW i \in 1..Len(u)
      PROVE  /\ u[i] \in Ends <=> i = Len(u)
             /\ u[i] = "?" => i + 1 < Len(u)
             /\ u[i] \in {"north?", "east?"} => i + 5 <= Len(u)
  <2>1. i \in 1..n - k /\ Len(u) = n - k
    BY <1>2
  <2>2. k + i \in 1..n /\ (k + i = n <=> i = n - k) /\ u[i] = w[k + i]
    BY <1>2, <1>3, <2>1
  <2>3. /\ u[i] \in Ends <=> k + i = n
        /\ u[i] = "?" => (k + i) + 1 < n
        /\ u[i] \in {"north?", "east?"} => (k + i) + 5 <= n
    BY <1>1, <2>2
  <2>4. QED
    BY <1>1, <2>1, <2>2, <2>3
<1>5. IsRow(u)
  <2>1. u # <<>>
    <3>1. Len(u) # 0
      BY <1>1, <1>2
    <3>2. QED
      BY <3>1
  <2>2. u \in Seq(Range(u))
    BY <1>2, ListOf DEF IsAList, Range
  <2>3. QED
    BY <1>4, <2>1, <2>2 DEF IsRow, Ends
<1>6. Named(u) => Named(w)
  BY <1>2, <1>3 DEF Named, n
<1>7. QED
  BY <1>2, <1>5, <1>6 DEF u, n

(* What comes before the end of a row does not change that it is one.      *)
LEMMA RowMore ==
    ASSUME NEW w, IsRow(w)
    PROVE  LET u == <<"unquote">> \o w
           IN  IsRow(u) /\ Len(u) = Len(w) + 1 /\ (Named(u) => Named(w))
<1> DEFINE u == <<"unquote">> \o w
           n == Len(w)
           Ends == Loops \union Texts1 \union Slurps
<1>1. /\ IsAList(w) /\ n \in Nat
      /\ \A i \in 1..n :
            /\ w[i] \in Ends <=> i = n
            /\ w[i] = "?" => i + 1 < n
            /\ w[i] \in {"north?", "east?"} => i + 5 <= n
      /\ n # 0
  BY RowIsList DEF IsRow
<1>2. "unquote" \notin Ends /\ "unquote" \notin {"?", "north?", "east?", "names"}
  BY DEF Loops, Texts1, Slurps
<1>3. /\ IsAList(u) /\ Len(u) = n + 1 /\ u[1] = "unquote"
      /\ \A i \in 2..n + 1 : u[i] = w[i - 1]
  <2> DEFINE one == <<"unquote">>
  <2>2. IsAList(one) /\ Len(one) = 1 /\ one[1] = "unquote"
    BY NoneOrOne DEF AtMost
  <2> HIDE DEF one
  <2>3. IsAList(one) /\ IsAList(w)
    BY <1>1, <2>2
  <2>4. /\ IsAList(one \o w)
        /\ Len(one \o w) = Len(one) + Len(w)
        /\ \A i \in 1..Len(one) : (one \o w)[i] = one[i]
        /\ \A i \in 1..Len(w) : (one \o w)[Len(one) + i] = w[i]
    BY <2>3, Extended
  <2>5. ASSUME NEW i \in 2..n + 1  PROVE (one \o w)[i] = w[i - 1]
    <3>1. i - 1 \in 1..n /\ 1 + (i - 1) = i
      BY <1>1
    <3>2. QED
      BY <2>2, <2>4, <3>1
  <2>6. (one \o w)[1] = "unquote" /\ Len(one \o w) = n + 1
    BY <1>1, <2>2, <2>4
  <2>7. QED
    BY <2>4, <2>5, <2>6 DEF one
<1> HIDE DEF u, n, Ends
<1>4. ASSUME NEW i \in 1..Len(u)
      PROVE  /\ u[i] \in Ends <=> i = Len(u)
             /\ u[i] = "?" => i + 1 < Len(u)
             /\ u[i] \in {"north?", "east?"} => i + 5 <= Len(u)
             /\ u[i] = "names" => Named(w)
  <2>1. CASE i = 1
    BY <1>1, <1>2, <1>3, <2>1
  <2>2. CASE i # 1
    <3>1. i - 1 \in 1..n /\ i \in 2..n + 1
      BY <1>1, <1>3, <2>2
    <3>2. u[i] = w[i - 1] /\ (u[i] = "names" => Named(w))
      BY <1>3, <3>1 DEF Named, n
    <3>3. /\ u[i] \in Ends <=> i - 1 = n
          /\ u[i] = "?" => (i - 1) + 1 < n
          /\ u[i] \in {"north?", "east?"} => (i - 1) + 5 <= n
      BY <1>1, <3>1, <3>2
    <3>4. QED
      BY <1>1, <1>3, <3>1, <3>2, <3>3
  <2>3. QED
    BY <2>1, <2>2
<1>5. u # <<>>
  <2>1. Len(u) # 0
    BY <1>1, <1>3
  <2>2. QED
    BY <2>1
<1>6. IsRow(u)
  BY <1>3, <1>4, <1>5 DEF IsRow, Ends, IsAList, Range
<1>7. QED
  BY <1>3, <1>4, <1>6 DEF u, n, Named

(* What every step of the parser does: it takes a token, or there is none  *)
(* and it goes on to the next part. Otherwise it spins, or the program ends*)
KeepsGoing ==
    /\ WantOK' /\ IsLexer(lx')
    /\ c' = c \/ (c # <<>> /\ c' = Tail(c))
    /\ \/ lx' = lx /\ c # <<>> /\ c' = Tail(c)
       \/ lx' = lx /\ c' = c /\ PartLeft' < PartLeft
       \/ lx' = lx /\ c' = c /\ Spin /\ p.h.type = "HIP"
       \/ lx.pc # "crashed" /\ lx'.pc = "crashed"

ParserReady == EndInv /\ IsLexer(lx) /\ WantOK

(* Whether there is a token.                                               *)
LEMMA TokenOrNone ==
    ASSUME Receives
    PROVE  \/ c # <<>> /\ c' = Tail(c) /\ Next_l = Head(c)
           \/ c = <<>> /\ c' = c /\ Next_l = Zero
BY DEF Receives, Next_l

(* Something is left until the parser ends, and most of it in the data.    *)
LEMMA PartOK ==
    ASSUME WantOK
    PROVE  /\ PartLeft \in Nat
           /\ p.st # "end" => PartLeft > 0
           /\ p.st = "data" => Len(p.want) \in Nat /\ Len(p.want) > 0 /\ PartLeft = 2 + Len(p.want)
<1>1. p.st = "data" => Len(p.want) \in Nat /\ Len(p.want) > 0
  BY RowIsList DEF WantOK, IsPair
<1>2. QED
  BY <1>1 DEF PartLeft

(* A part of a line is over when the parser is at an owner again, or ends. *)
LEMMA PartOver ==
    ASSUME WantOK, p.st \in {"data", "include", "includeOrigin"}, p'.st \in {"owner", "end"}
    PROVE  WantOK' /\ PartLeft' < PartLeft
<1>1. PartLeft > 1 /\ PartLeft \in Nat
  BY PartOK DEF PartLeft
<1>2. PartLeft' \in {0, 1} /\ WantOK'
  BY DEF PartLeft, WantOK
<1>3. QED
  BY <1>1, <1>2

(* Where the parser is after an error, after a record and after a step.    *)
LEMMA WhereNext ==
    ASSUME ParserOK
    PROVE  /\ Fails => p'.st = "end" /\ lx' = lx
           /\ \A data, comment : Finishes(data, comment) => p'.st = "owner" /\ lx' = lx
           /\ \A next : Goes(next) => p' = next /\ lx' = lx
BY DEF ParserOK, Begins, Fails, Finishes, Goes

(* The parser is not in the data after a step to another state.            *)
Landed == p'.st \notin {"data", "spinning"} /\ lx' = lx

(* It is there after a step that says so, and after an error.              *)
LEMMA Lands ==
    ASSUME NEW next, next.st \notin {"data", "spinning"}, Goes(next)
    PROVE  Landed
BY DEF Goes, Landed

(* After an error it has ended.                                            *)
LEMMA FailLands ==
    ASSUME ParserOK, Fails
    PROVE  Landed
BY WhereNext DEF Landed

(* The lines up to the type take a token with each step. After the type    *)
(* the data are a row of the grammar, whatever the type is.                *)
LEMMA LineGoesOn ==
    ASSUME ParserReady, Beginning \/ ExpectBlank \/ ExpectAny
    PROVE  KeepsGoing
<1>1. ParserOK /\ "st" \in DOMAIN p /\ "h" \in DOMAIN p /\ IsLexer(lx)
  BY DEF ParserReady, EndInv, ParserOK, Begins
<1>2. ASSUME Ranges, p'.st \notin {"data", "spinning"}, lx' = lx  PROVE KeepsGoing
  BY <1>1, <1>2, TokenOrNone DEF Ranges, KeepsGoing, WantOK
<1>3. CASE Beginning
  <2>1. Ranges /\ p.st = "owner"
    BY <1>3 DEF Beginning, Runs
  <2>2. "st" \in DOMAIN Fresh /\ Fresh.st = "owner"
    BY <1>1, <2>1 DEF Fresh
  <2> DEFINE inherits == [Fresh EXCEPT !.h.name = p.prevName]
  <2>3. \/ Fails
        \/ Goes(Fresh)
        \/ \E n : Goes([Fresh EXCEPT !.h.name = n, !.prevName = n, !.st = "ownerBl"])
        \/ \E s \in {"dirTtlBl", "dirOriginBl", "dirIncludeBl"} : Goes([Fresh EXCEPT !.st = s])
        \/ \E x : Goes([inherits EXCEPT !.h.type = x, !.st = "rdata"])
        \/ \E x : Goes([inherits EXCEPT !.h.class = x, !.st = "anyNoClassBl"])
        \/ \E x : Goes([Fresh EXCEPT !.h.ttl = x, !.st = "anyNoTtlBl"])
    BY <1>3 DEF Beginning
  <2>4. DOMAIN inherits = DOMAIN Fresh
    OBVIOUS
  <2> HIDE DEF inherits
  <2>5. SUFFICES Landed
    BY <1>2, <2>1 DEF Landed
  <2>6. "st" \in DOMAIN inherits /\ "st" \in DOMAIN Fresh /\ Fresh.st \notin {"data", "spinning"}
    BY <2>2, <2>4
  <2>7. CASE Fails \/ Goes(Fresh)
    BY <1>1, <2>6, <2>7, Lands, FailLands
  <2>8. CASE \E n : Goes([Fresh EXCEPT !.h.name = n, !.prevName = n, !.st = "ownerBl"])
    <3>1. \A x : [Fresh EXCEPT !.h.name = x, !.prevName = x, !.st = "ownerBl"].st \notin {"data", "spinning"}
      BY <2>6
    <3>2. QED
      BY <2>8, <3>1, Lands
  <2>9. CASE \E s \in {"dirTtlBl", "dirOriginBl", "dirIncludeBl"} : Goes([Fresh EXCEPT !.st = s])
    <3>1. \A s \in {"dirTtlBl", "dirOriginBl", "dirIncludeBl"} : [Fresh EXCEPT !.st = s].st \notin {"data", "spinning"}
      BY <2>6
    <3>2. QED
      BY <2>9, <3>1, Lands
  <2>10. CASE \E x : Goes([inherits EXCEPT !.h.type = x, !.st = "rdata"])
    <3>1. \A x : [inherits EXCEPT !.h.type = x, !.st = "rdata"].st \notin {"data", "spinning"}
      BY <2>6
    <3>2. QED
      BY <2>10, <3>1, Lands
  <2>11. CASE \E x : Goes([inherits EXCEPT !.h.class = x, !.st = "anyNoClassBl"])
    <3>1. \A x : [inherits EXCEPT !.h.class = x, !.st = "anyNoClassBl"].st \notin {"data", "spinning"}
      BY <2>6
    <3>2. QED
      BY <2>11, <3>1, Lands
  <2>12. CASE \E x : Goes([Fresh EXCEPT !.h.ttl = x, !.st = "anyNoTtlBl"])
    <3>1. \A x : [Fresh EXCEPT !.h.ttl = x, !.st = "anyNoTtlBl"].st \notin {"data", "spinning"}
      BY <2>6
    <3>2. QED
      BY <2>12, <3>1, Lands
  <2>13. QED
    BY <2>3, <2>7, <2>8, <2>9, <2>10, <2>11, <2>12
<1>4. CASE ExpectBlank
  <2>1. Ranges /\ p.st \in DOMAIN AfterBlank
    BY <1>4 DEF ExpectBlank
  <2>2. AfterBlank[p.st] \notin {"data", "spinning"}
    BY <2>1 DEF AfterBlank
  <2>3. p'.st \notin {"data", "spinning"} /\ lx' = lx
    BY <1>1, <1>4, <2>2, WhereNext DEF ExpectBlank
  <2>4. QED
    BY <1>2, <2>1, <2>3
<1>5. CASE ExpectAny
  <2>1. Ranges
    BY <1>5 DEF ExpectAny
  <2>2. \/ Fails
        \/ \E x : Goes([p EXCEPT !.h.type = x, !.st = "rdata"])
        \/ \E x : Goes([p EXCEPT !.h.class = x, !.st = IF @ = "any" THEN "anyNoClassBl" ELSE "rrtypeBl"])
        \/ \E x : Goes([p EXCEPT !.h.ttl = x, !.st = IF @ = "any" THEN "anyNoTtlBl" ELSE "rrtypeBl"])
    BY <1>5 DEF ExpectAny
  <2>3. /\ \A x : [p EXCEPT !.h.type = x, !.st = "rdata"].st \notin {"data", "spinning"}
        /\ \A x : [p EXCEPT !.h.class = x, !.st = IF @ = "any" THEN "anyNoClassBl" ELSE "rrtypeBl"].st
                   \notin {"data", "spinning"}
        /\ \A x : [p EXCEPT !.h.ttl = x, !.st = IF @ = "any" THEN "anyNoTtlBl" ELSE "rrtypeBl"].st
                   \notin {"data", "spinning"}
    BY <1>1
  <2>4. Landed
    BY <1>1, <2>2, <2>3, Lands, FailLands
  <2>5. QED
    BY <1>2, <2>1, <2>4 DEF Landed
<1>6. QED
  BY <1>3, <1>4, <1>5

(* After the type the data are a row of the grammar, whatever the type is. *)
LEMMA RowOfType ==
    ASSUME NEW type
    PROVE  IsRow(setRR(type)) /\ (Named(setRR(type)) => type = "HIP")
<1>1. CASE type \in DOMAIN typeToparserFunc
  BY <1>1, GrammarAssumption DEF Named
<1>2. CASE type \notin DOMAIN typeToparserFunc
  <2>1. setRR(type) = setRR("RFC3597")
    BY <1>2 DEF setRR
  <2>2. IsRow(setRR("RFC3597")) /\ ~Named(setRR("RFC3597"))
    BY GrammarAssumption DEF Named
  <2>3. QED
    BY <2>1, <2>2
<1>3. QED
  BY <1>1, <1>2

(* The data and the rest of a directive are begun with a token.            *)
LEMMA DataBegin ==
    ASSUME ParserReady, ExpectRdata \/ ExpectDirective
    PROVE  KeepsGoing
<1>1. ParserOK /\ "st" \in DOMAIN p /\ "want" \in DOMAIN p /\ "l" \in DOMAIN p /\ IsLexer(lx)
  BY DEF ParserReady, EndInv, ParserOK, Begins
<1>2. Ranges /\ c # <<>> /\ c' = Tail(c)
  BY TokenOrNone DEF ExpectRdata, ExpectDirective, Ranges
<1>3. SUFFICES WantOK' /\ lx' = lx
  BY <1>1, <1>2 DEF KeepsGoing
<1>4. CASE Fails
  BY <1>1, <1>4, WhereNext DEF WantOK
<1>5. CASE ExpectRdata /\ ~Fails
  <2>1. Goes([p EXCEPT !.st = "data", !.want = setRR(p.h.type)])
    BY <1>5 DEF ExpectRdata
  <2>2. p' = [p EXCEPT !.st = "data", !.want = setRR(p.h.type)] /\ lx' = lx
    BY <2>1 DEF Goes
  <2>3. p'.st = "data" /\ p'.want = setRR(p.h.type) /\ p'.h = p.h
    BY <1>1, <2>2
  <2>4. QED
    BY <2>2, <2>3, RowOfType DEF WantOK
<1>6. CASE ExpectDirective /\ ~Fails
  <2>1. /\ p.st \in {"dirTtl", "dirOrigin"}
        /\ Goes([p EXCEPT !.l = Head(c), !.st = "data", !.want = <<"slurp", p.st>>])
    BY <1>6 DEF ExpectDirective
  <2>2. p'.st = "data" /\ p'.want = <<"slurp", p.st>> /\ lx' = lx
    BY <1>1, <2>1 DEF Goes
  <2>3. IsPair(<<"slurp", p.st>>)
    <3>1. <<"slurp", p.st>> \in Seq({"slurp", p.st})
      OBVIOUS
    <3>2. IsAList(<<"slurp", p.st>>)
      BY <3>1, ListOf, Zenon
    <3>3. QED
      BY <2>1, <3>2 DEF IsPair, Slurps
  <2>4. QED
    BY <2>2, <2>3 DEF WantOK
<1>7. QED
  BY <1>4, <1>5, <1>6

(* A file that is included is an error, and the end of the text is the end.*)
LEMMA IncludeGoesOn ==
    ASSUME ParserReady, Include \/ ZoneEnds
    PROVE  KeepsGoing
<1>1. ParserOK /\ "st" \in DOMAIN p /\ WantOK /\ IsLexer(lx)
  BY DEF ParserReady, EndInv, ParserOK, Begins
<1>2. ASSUME Receives, p'.st \notin {"data", "spinning"}, lx' = lx,
             c = <<>> => PartLeft' < PartLeft
      PROVE  KeepsGoing
  BY <1>1, <1>2, TokenOrNone DEF KeepsGoing, WantOK
<1>3. CASE Include /\ p.st = "dirInclude"
  <2>1. Ranges /\ (Fails \/ Goes([p EXCEPT !.st = "include"]))
    BY <1>3 DEF Include
  <2>2. p'.st \in {"end", "include"} /\ lx' = lx
    BY <1>1, <2>1, WhereNext
  <2>3. QED
    BY <1>2, <2>1, <2>2 DEF Ranges
<1>4. CASE Include /\ p.st \in {"include", "includeOrigin"}
  <2>1. /\ Receives
        /\ \/ Fails
           \/ Next_l.value = "Blank" /\ Goes([p EXCEPT !.st = "includeOrigin"])
    BY <1>4 DEF Include
  <2>2. p'.st \in {"end", "includeOrigin"} /\ lx' = lx
    BY <1>1, <2>1, WhereNext
  <2>3. c = <<>> => Fails
    BY <2>1, TokenOrNone DEF Zero, Lex
  <2>4. c = <<>> => PartLeft' < PartLeft
    BY <1>1, <1>4, <2>3, WhereNext, PartOver
  <2>5. QED
    BY <1>2, <2>1, <2>2, <2>4
<1>5. CASE ZoneEnds
  <2>1. c' = c /\ p'.st = "end" /\ lx' = lx /\ p.st # "end"
    BY <1>1, <1>5 DEF ZoneEnds, Goes, Runs
  <2>2. PartLeft' < PartLeft /\ WantOK'
    BY <1>1, <2>1, PartOK DEF PartLeft, WantOK
  <2>3. QED
    BY <1>1, <2>1, <2>2 DEF KeepsGoing
<1>6. QED
  BY <1>3, <1>4, <1>5 DEF Include

(* A parser that spins goes on spinning.                                   *)
LEMMA SpinGoesOn ==
    ASSUME ParserReady, Spin
    PROVE  KeepsGoing
<1>1. ParserOK /\ "acc" \in DOMAIN p /\ WantOK /\ IsLexer(lx)
  BY DEF ParserReady, EndInv, ParserOK, Begins
<1>2. p.st = "spinning" /\ c' = c /\ lx' = lx
  BY DEF Spin, Runs, Goes
<1>3. p'.st = p.st /\ p'.h = p.h
  BY <1>1 DEF Spin, Goes
<1>4. QED
  BY <1>1, <1>2, <1>3 DEF KeepsGoing, WantOK

-----------------------------------------------------------------------------
(* One word is a row, since what reads to the end of the line is one.      *)
LEMMA OneStepRow ==
    ASSUME NEW x \in {"slurp", "slurp2"}
    PROVE  IsRow(<<x>>) /\ Len(<<x>>) = 1 /\ ~Named(<<x>>)
<1> DEFINE w == <<x>>
<1>1. IsAList(w) /\ Len(w) = 1 /\ w[1] = x
  BY NoneOrOne DEF AtMost
<1> HIDE DEF w
<1>2. x \in Slurps /\ x \notin {"?", "north?", "east?", "names"}
  BY DEF Slurps
<1>3. \A i \in 1..Len(w) : i = 1 /\ i = Len(w)
  BY <1>1
<1>4. w # <<>>
  BY <1>1
<1>5. w \in Seq(Range(w))
  BY <1>1 DEF IsAList, Range
<1>6. IsRow(w) /\ ~Named(w)
  BY <1>1, <1>2, <1>3, <1>4, <1>5 DEF IsRow, Named
<1>7. QED
  BY <1>1, <1>6 DEF w

(* Where the next step of a row is, and that more follow unless it is one  *)
(* that reads to the end of the line.                                      *)
LEMMA NextStep ==
    ASSUME p.st = "data", IsRow(p.want)
    PROVE  LET k == IF Head(p.want) = "?" THEN 2 ELSE 1
           IN  /\ Len(p.want) \in Nat /\ k \in 1..Len(p.want) /\ Step = p.want[k]
               /\ Step \in Loops \union Texts1 \union Slurps <=> k = Len(p.want)
               /\ Step \in {"north?", "east?"} => k + 5 <= Len(p.want)
               /\ k = 2 => k < Len(p.want)
               /\ Step = "names" => Named(p.want)
<1> DEFINE w == p.want
           n == Len(w)
<1>1. IsAList(w) /\ n \in Nat /\ n > 0 /\ w # <<>>
  BY RowIsList
<1>2. Head(w) = w[1]
  BY <1>1 DEF IsAList
<1>3. 1 \in 1..n /\ (w[1] = "?" => 2 \in 1..n /\ 2 < n)
  BY <1>1 DEF IsRow
<1>4. QED
  BY <1>1, <1>2, <1>3 DEF IsRow, Step, Named

(* A pair begins with what reads to the end of the line.                   *)
LEMMA PairStep ==
    ASSUME IsPair(p.want)
    PROVE  Step = p.want[1] /\ Head(p.want) = p.want[1]
<1>1. IsAList(p.want) /\ Len(p.want) = 2 /\ p.want[1] # "?"
  BY DEF IsPair, Slurps
<1>2. Head(p.want) = p.want[1]
  BY <1>1 DEF IsAList
<1>3. QED
  BY <1>1, <1>2 DEF Step

(* What is left of a row after a field is a row, and without a token it is *)
(* a shorter one.                                                          *)
LEMMA LeftIsRow ==
    ASSUME p.st = "data", IsRow(p.want), Step \notin Loops \union Texts1 \union Slurps, NEW l
    PROVE  LET rest == IF Head(p.want) = "?" THEN SubSeq(p.want, 3, Len(p.want)) ELSE Tail(p.want)
               left == Left(Step, l, rest)
           IN  /\ IsRow(left) /\ (Named(left) => Named(p.want))
               /\ l.value = "EOF" /\ l.token = <<>> => Len(left) < Len(p.want)
<1> DEFINE w == p.want
           n == Len(w)
           k == IF Head(w) = "?" THEN 2 ELSE 1
           rest == IF Head(w) = "?" THEN SubSeq(w, 3, n) ELSE Tail(w)
           left == Left(Step, l, rest)
<1>1. n \in Nat /\ k \in 1..n - 1 /\ (Step \in {"north?", "east?"} => k + 5 <= n)
  BY NextStep
<1>2. rest = SubSeq(w, k + 1, n)
  <2>1. CASE Head(w) = "?"
    BY <2>1
  <2>2. CASE Head(w) # "?"
    <3>1. PICK S : w \in Seq(S) /\ w # <<>>
      BY RowIsList, SomeSet
    <3>2. Tail(w) = SubSeq(w, 2, n)
      BY <3>1, TailIsSubSeq
    <3>3. QED
      BY <2>2, <3>2
  <2>3. QED
    BY <2>1, <2>2
<1>3. IsRow(rest) /\ Len(rest) = n - k /\ (Named(rest) => Named(w))
  <2> HIDE DEF k, rest
  <2>1. k \in 1..Len(w) - 1 /\ IsRow(w)
    BY <1>1
  <2>2. LET u == SubSeq(w, k + 1, Len(w))
        IN  IsRow(u) /\ Len(u) = Len(w) - k /\ (Named(u) => Named(w))
    BY <2>1, RowSuffix
  <2>3. QED
    BY <1>2, <2>2
<1> HIDE DEF w, n, k, rest
<1>4. CASE Step \in {"north?", "east?"} /\ left = SubSeq(rest, 5, Len(rest))
  <2>1. 4 \in 1..Len(rest) - 1
    BY <1>1, <1>3, <1>4
  <2>2. IsRow(left) /\ Len(left) = Len(rest) - 4 /\ (Named(left) => Named(rest))
    BY <1>3, <1>4, <2>1, RowSuffix
  <2> HIDE DEF left
  <2>3. Len(left) < n
    BY <1>1, <1>3, <2>2
  <2>4. QED
    BY <1>3, <2>2, <2>3 DEF w, n, left, rest
<1>5. CASE l.value = "String" /\ left = <<"unquote">> \o rest
  <2>1. IsRow(left) /\ (Named(left) => Named(rest))
    BY <1>3, <1>5, RowMore
  <2>2. QED
    BY <1>3, <1>5, <2>1 DEF w, n, left, rest
<1>6. CASE l.token = <<"@">> /\ left = <<"slurp">>
  <2>1. IsRow(left) /\ ~Named(left)
    BY <1>6, OneStepRow
  <2>2. l.token # <<>>
    BY <1>6
  <2>3. QED
    BY <2>1, <2>2 DEF w, n, left, rest
<1>7. CASE left = rest
  <2>1. Len(rest) < n
    BY <1>1, <1>3
  <2>2. QED
    BY <1>3, <1>7, <2>1 DEF w, n, left, rest
<1>8. QED
  BY <1>4, <1>5, <1>6, <1>7 DEF Left

(* A step of the data takes a token, or there is none and fewer steps are  *)
(* left; or the record is complete, or it is an error, or a crash.         *)
LEMMA DataMoves ==
    ASSUME ParserReady, p.st = "data", Receives, WantOK', IsLexer(lx'),
           \/ lx' = lx /\ (c = <<>> => PartLeft' < PartLeft)
           \/ lx.pc # "crashed" /\ lx'.pc = "crashed"
    PROVE  KeepsGoing
BY TokenOrNone DEF KeepsGoing

(* A record that is complete is sent, and so is an error.                  *)
LEMMA DataOver ==
    ASSUME ParserReady, p.st = "data", Receives, Fails \/ \E data, comment : Finishes(data, comment)
    PROVE  KeepsGoing
<1>1. ParserOK /\ WantOK /\ IsLexer(lx)
  BY DEF ParserReady, EndInv
<1>2. p'.st \in {"owner", "end"} /\ lx' = lx
  BY <1>1, WhereNext
<1>3. WantOK' /\ PartLeft' < PartLeft
  BY <1>1, <1>2, PartOver
<1>4. QED
  BY <1>1, <1>2, <1>3, DataMoves

(* The fields of a record.                                                 *)
LEMMA FieldGoesOn ==
    ASSUME ParserReady, ReadField
    PROVE  KeepsGoing
<1> DEFINE l == Next_l
           rest == IF Head(p.want) = "?" THEN SubSeq(p.want, 3, Len(p.want)) ELSE Tail(p.want)
           left == Left(Step, l, rest)
           next == [p EXCEPT !.data = @ \o Field(Step, l), !.want = left]
<1>1. ParserOK /\ {"st", "want", "data", "h"} \subseteq DOMAIN p /\ WantOK /\ IsLexer(lx)
  BY DEF ParserReady, EndInv, ParserOK, Begins
<1>2. p.st = "data" /\ lx.pc # "crashed" /\ Step \notin Loops \union Texts1 \union Slurps /\ Receives
  BY DEF ReadField, Runs
<1>3. Fails \/ Finishes(p.data, <<>>) \/ Crashes \/ Goes(next)
  BY DEF ReadField
<1>4. CASE Fails \/ Finishes(p.data, <<>>)
  BY <1>2, <1>4, DataOver
<1>5. CASE Crashes
  <2>1. IsLexer(lx') /\ lx'.pc = "crashed" /\ p' = p
    BY <1>1, <1>5 DEF Crashes, IsLexer, Starts, Stages
  <2>2. WantOK'
    BY <1>1, <2>1 DEF WantOK
  <2>3. QED
    BY <1>2, <2>1, <2>2, DataMoves
<1>6. CASE Goes(next)
  <2>1. IsRow(p.want) /\ (Named(p.want) => p.h.type = "HIP")
    <3>1. ~IsPair(p.want)
      <4>1. IsPair(p.want) => Step \in {"txtq", "txtu"} \union Slurps
        BY PairStep DEF IsPair
      <4>2. QED
        BY <1>2, <4>1 DEF Texts1
    <3>2. QED
      BY <1>1, <1>2, <3>1 DEF WantOK
  <2>2. IsRow(left) /\ (Named(left) => Named(p.want))
    BY <1>2, <2>1, LeftIsRow
  <2>3. c = <<>> => Len(left) < Len(p.want)
    <3>1. c = <<>> => l.value = "EOF" /\ l.token = <<>>
      BY <1>2, TokenOrNone DEF Zero, Lex
    <3>2. QED
      BY <1>2, <2>1, <3>1, LeftIsRow
  <2> HIDE DEF left
  <2>4. p'.st = "data" /\ p'.want = left /\ p'.h = p.h /\ lx' = lx
    BY <1>1, <1>2, <1>6 DEF Goes
  <2>5. WantOK'
    BY <2>1, <2>2, <2>4 DEF WantOK
  <2>6. c = <<>> => PartLeft' < PartLeft
    <3>1. Len(left) \in Nat /\ Len(p.want) \in Nat
      BY <2>1, <2>2, RowIsList
    <3>2. PartLeft' = 2 + Len(left) /\ PartLeft = 2 + Len(p.want)
      BY <1>2, <2>4 DEF PartLeft
    <3>3. QED
      BY <2>3, <3>1, <3>2
  <2>7. QED
    BY <1>1, <1>2, <2>4, <2>5, <2>6, DataMoves
<1>7. QED
  BY <1>3, <1>4, <1>5, <1>6

(* The lists at the end of a line. The one of names may spin.              *)
LEMMA LoopGoesOn ==
    ASSUME ParserReady, ReadLoop
    PROVE  KeepsGoing
<1>1. ParserOK /\ {"st", "acc", "h", "want"} \subseteq DOMAIN p /\ WantOK /\ IsLexer(lx)
  BY DEF ParserReady, EndInv, ParserOK, Begins
<1>2. p.st = "data" /\ lx.pc # "crashed" /\ Step \in Loops /\ Receives
  BY DEF ReadLoop, Reading, Runs
<1>3. \/ Fails
      \/ \E data, comment : Finishes(data, comment)
      \/ Crashes
      \/ ~LineIsOver(Next_l) /\ Goes(p)
      \/ ~LineIsOver(Next_l) /\ Step = "names" /\ Goes([p EXCEPT !.st = "spinning"])
      \/ ~LineIsOver(Next_l) /\ \E x : Goes([p EXCEPT !.acc = x])
  BY DEF ReadLoop
<1>4. ~LineIsOver(Next_l) => c # <<>>
  BY <1>2, TokenOrNone DEF LineIsOver, Zero, Lex
<1>5. CASE Fails \/ \E data, comment : Finishes(data, comment)
  BY <1>2, <1>5, DataOver
<1>6. CASE Crashes
  <2>1. IsLexer(lx') /\ lx'.pc = "crashed" /\ p' = p
    BY <1>1, <1>6 DEF Crashes, IsLexer, Starts, Stages
  <2>2. WantOK'
    BY <1>1, <2>1 DEF WantOK
  <2>3. QED
    BY <1>2, <2>1, <2>2, DataMoves
<1>7. ASSUME ~LineIsOver(Next_l), p'.st = "data", p'.want = p.want, p'.h = p.h, lx' = lx
      PROVE  KeepsGoing
  <2>1. WantOK'
    BY <1>1, <1>2, <1>7 DEF WantOK
  <2>2. QED
    BY <1>1, <1>2, <1>4, <1>7, <2>1, DataMoves
<1>8. CASE ~LineIsOver(Next_l) /\ Goes(p)
  BY <1>2, <1>7, <1>8 DEF Goes
<1>9. CASE ~LineIsOver(Next_l) /\ \E x : Goes([p EXCEPT !.acc = x])
  BY <1>1, <1>2, <1>7, <1>9 DEF Goes
<1>10. CASE ~LineIsOver(Next_l) /\ Step = "names" /\ Goes([p EXCEPT !.st = "spinning"])
  <2>1. p'.st = "spinning" /\ p'.h = p.h /\ lx' = lx
    BY <1>1, <1>10 DEF Goes
  <2>2. ~IsPair(p.want)
    <3>1. IsPair(p.want) => Step \in {"txtq", "txtu"} \union Slurps
      BY PairStep DEF IsPair
    <3>2. QED
      BY <1>10, <3>1 DEF Slurps
  <2>3. Named(p.want)
    BY <1>1, <1>2, <1>10, <2>2, NextStep DEF WantOK
  <2>4. WantOK'
    BY <1>1, <1>2, <2>1, <2>2, <2>3 DEF WantOK
  <2>5. QED
    BY <1>1, <1>2, <1>4, <1>10, <2>1, <2>4, DataMoves
<1>11. QED
  BY <1>3, <1>5, <1>6, <1>8, <1>9, <1>10

(* The texts. The first token says how the others are read.                *)
LEMMA TextsGoOn ==
    ASSUME ParserReady, ReadTexts
    PROVE  KeepsGoing
<1> DEFINE l == Next_l
           first == Step \in {"txt", "txt1"}
           quoted == IF first THEN l.value = "Quote" ELSE Step = "txtq"
           next == IF first
                   THEN [p EXCEPT !.want = <<IF quoted THEN "txtq" ELSE "txtu", Step>>, !.quote = FALSE,
                                  !.empty = TRUE, !.acc = IF quoted THEN <<>> ELSE <<<<>>>>]
                   ELSE p
<1>1. /\ ParserOK /\ {"st", "acc", "h", "want", "quote", "empty"} \subseteq DOMAIN p
      /\ WantOK /\ IsLexer(lx)
  BY DEF ParserReady, EndInv, ParserOK, Begins
<1>2. p.st = "data" /\ Step \in Texts1 /\ Receives
  BY DEF ReadTexts, Reading, Runs
<1>3. \/ Fails
      \/ \E data, comment : Finishes(data, comment)
      \/ ~LineIsOver(l) /\ \E x : Goes([next EXCEPT !.acc = x])
      \/ ~LineIsOver(l) /\ \E x, y : Goes([next EXCEPT !.acc = x, !.empty = y])
      \/ ~LineIsOver(l) /\ \E x, y, z : Goes([next EXCEPT !.acc = x, !.quote = y, !.empty = z])
      \/ ~LineIsOver(l) /\ Goes(next)
  BY DEF ReadTexts
<1>4. ~LineIsOver(l) => c # <<>>
  BY <1>2, TokenOrNone DEF LineIsOver, Zero, Lex
<1>5. /\ DOMAIN next = DOMAIN p /\ next.st = "data" /\ next.h = p.h
      /\ next.want = p.want \/ (first /\ next.want = <<IF quoted THEN "txtq" ELSE "txtu", Step>>)
  BY <1>1, <1>2
<1>6. ASSUME first, NEW x \in {"txtq", "txtu"}  PROVE IsPair(<<x, Step>>)
  <2>1. <<x, Step>> \in Seq({x, Step})
    OBVIOUS
  <2>2. IsAList(<<x, Step>>)
    BY <2>1, ListOf, Zenon
  <2>3. QED
    BY <1>6, <2>2 DEF IsPair
<1> HIDE DEF next, quoted, first
<1>7. next.want = p.want \/ IsPair(next.want)
  BY <1>5, <1>6
<1>8. ASSUME ~LineIsOver(l), p'.st = "data", p'.want = next.want, p'.h = p.h, lx' = lx
      PROVE  KeepsGoing
  <2>1. WantOK'
    BY <1>1, <1>2, <1>7, <1>8 DEF WantOK
  <2>2. QED
    BY <1>1, <1>2, <1>4, <1>8, <2>1, DataMoves
<1>9. CASE Fails \/ \E data, comment : Finishes(data, comment)
  BY <1>2, <1>9, DataOver
<1>10. CASE \/ ~LineIsOver(l) /\ \E x : Goes([next EXCEPT !.acc = x])
            \/ ~LineIsOver(l) /\ \E x, y : Goes([next EXCEPT !.acc = x, !.empty = y])
            \/ ~LineIsOver(l) /\ \E x, y, z : Goes([next EXCEPT !.acc = x, !.quote = y, !.empty = z])
            \/ ~LineIsOver(l) /\ Goes(next)
  BY <1>1, <1>5, <1>8, <1>10 DEF Goes
<1>11. QED
  BY <1>3, <1>9, <1>10

(* The rest of a line: a blank and its end, after a record or a directive. *)
LEMMA SlurpGoesOn ==
    ASSUME ParserReady, Slurp
    PROVE  KeepsGoing
<1> DEFINE rest == Tail(p.want)
           next == [p EXCEPT !.want = <<"slurp2">> \o rest]
<1>1. ParserOK /\ {"st", "want", "h"} \subseteq DOMAIN p /\ WantOK /\ IsLexer(lx)
  BY DEF ParserReady, EndInv, ParserOK, Begins
<1>2. p.st = "data" /\ Step \in Slurps /\ Receives
  BY DEF Slurp, Reading, Runs
<1>3. \/ Next_l.value = "Blank" /\ Goes(next)
      \/ rest # <<>> /\ Directed(LineIsOver(Next_l))
      \/ \E data, comment : Finishes(data, comment)
      \/ Fails
  BY DEF Slurp
<1>4. CASE Fails \/ \E data, comment : Finishes(data, comment)
  BY <1>2, <1>4, DataOver
<1>5. CASE Directed(LineIsOver(Next_l))
  <2>1. p'.st \in {"owner", "end"} /\ lx' = lx
    <3>1. \A x : [p EXCEPT !.st = "owner", !.want = <<>>, !.defttl = x].st = "owner"
      BY <1>1
    <3>2. \A x : [p EXCEPT !.st = "owner", !.want = <<>>, !.origin = x].st = "owner"
      BY <1>1
    <3>3. [[p EXCEPT !.st = "owner", !.want = <<>>] EXCEPT !.st = "end"].st = "end"
      BY <1>1
    <3>4. QED
      BY <1>1, <1>5, <3>1, <3>2, <3>3, WhereNext DEF Directed, Goes
  <2>2. WantOK' /\ PartLeft' < PartLeft
    BY <1>1, <1>2, <2>1, PartOver
  <2>3. QED
    BY <1>1, <1>2, <2>1, <2>2, DataMoves
<1>6. CASE Next_l.value = "Blank" /\ Goes(next)
  <2> DEFINE w == <<"slurp2">> \o rest
  <2>1. p'.st = "data" /\ p'.want = w /\ p'.h = p.h /\ lx' = lx
    BY <1>1, <1>2, <1>6 DEF Goes
  <2>2. c # <<>>
    BY <1>2, <1>6, TokenOrNone DEF Zero, Lex
  <2>3. (IsRow(w) /\ ~Named(w)) \/ IsPair(w)
    <3>1. CASE IsPair(p.want)
      <4>1. IsAList(p.want) /\ Len(p.want) = 2 /\ p.want # <<>>
        BY <3>1 DEF IsPair
      <4>2. IsAList(rest) /\ Len(rest) = 1 /\ rest[1] = p.want[2]
        BY <4>1, TailIsShorter DEF IsAList
      <4> DEFINE one == <<"slurp2">>
      <4>3. IsAList(one) /\ Len(one) = 1 /\ one[1] = "slurp2"
        BY NoneOrOne DEF AtMost
      <4> HIDE DEF one, rest
      <4>4. /\ IsAList(one \o rest) /\ Len(one \o rest) = Len(one) + Len(rest)
            /\ \A i \in 1..Len(one) : (one \o rest)[i] = one[i]
            /\ \A i \in 1..Len(rest) : (one \o rest)[Len(one) + i] = rest[i]
        <5>1. IsAList(one) /\ IsAList(rest)
          BY <4>2, <4>3
        <5>2. QED
          BY <5>1, Extended
      <4>5. Len(one \o rest) = 2 /\ (one \o rest)[1] = "slurp2" /\ (one \o rest)[2] = p.want[2]
        BY <4>2, <4>3, <4>4
      <4>6. IsPair(one \o rest)
        BY <3>1, <4>4, <4>5 DEF IsPair, Slurps
      <4>7. QED
        BY <4>6 DEF one
    <3>2. CASE IsRow(p.want)
      <4>1. Len(p.want) = 1
        <5>1. Step \in Loops \union Texts1 \union Slurps
          BY <1>2
        <5>2. PICK k : k \in {1, 2} /\ k = Len(p.want) /\ (k = 2 => k < Len(p.want))
          <6> DEFINE j == IF Head(p.want) = "?" THEN 2 ELSE 1
          <6>1. /\ Step \in Loops \union Texts1 \union Slurps <=> j = Len(p.want)
                /\ j = 2 => j < Len(p.want)
            BY <1>2, <3>2, NextStep
          <6>2. QED
            BY <5>1, <6>1
        <5>3. QED
          BY <5>2
      <4>2. Len(rest) = 0 /\ IsAList(rest)
        <5>1. IsAList(p.want) /\ p.want # <<>>
          BY <3>2, RowIsList
        <5>2. QED
          BY <4>1, <5>1, TailIsShorter
      <4>3. rest = <<>>
        <5> HIDE DEF rest
        <5>1. PICK S : rest \in Seq(S)
          BY <4>2 DEF IsAList
        <5>2. QED
          BY <4>2, <5>1
      <4>4. w = <<"slurp2">>
        <5>1. IsAList(<<"slurp2">>)
          BY NoneOrOne DEF AtMost
        <5>2. <<"slurp2">> \o <<>> = <<"slurp2">>
          <6>1. IsAList(<<>>)
            BY DEF IsAList
          <6>2. QED
            BY <5>1, <6>1, Extended
        <5>3. QED
          BY <4>3, <5>2
      <4>5. QED
        BY <4>4, OneStepRow
    <3>3. QED
      BY <1>1, <1>2, <3>1, <3>2 DEF WantOK
  <2> HIDE DEF w
  <2>4. WantOK'
    BY <2>1, <2>3 DEF WantOK
  <2>5. QED
    BY <1>1, <1>2, <2>1, <2>2, <2>4, DataMoves
<1>7. QED
  BY <1>3, <1>4, <1>5, <1>6

(* Every step of the parser but the sending of results.                    *)
LEMMA ParserGoesOn ==
    ASSUME ParserReady, Parses, ~SendResult
    PROVE  KeepsGoing /\ ParserStep /\ UNCHANGED <<text, out, reader>>
<1>1. KeepsGoing
  BY LineGoesOn, DataBegin, IncludeGoesOn, SpinGoesOn, FieldGoesOn, LoopGoesOn, TextsGoOn, SlurpGoesOn
  DEF Parses
<1>2. ParserStep
  BY LineSteps, DirectiveSteps, DataSteps DEF Parses, ParserReady, EndInv
<1>3. UNCHANGED <<text, out, reader>>
  BY DEF Parses, Beginning, ExpectBlank, ExpectAny, ExpectRdata, ExpectDirective, Include, ZoneEnds,
         ReadField, ReadLoop, Spin, ReadTexts, Slurp, Reading, Ranges, Receives
<1>4. QED
  BY <1>1, <1>2, <1>3

-----------------------------------------------------------------------------
(* What is left to send and to read of the results.                        *)
ResultsLeft == 2 * Len(due) + Len(t)

(* What a step does: there is less left of the tokens; or as much, and less*)
(* of the part of the line; or as much of both, and less of the results.   *)
(* Or the parser spins over a HIP, or the program ends, and then no step   *)
(* follows.                                                                *)
Progress ==
    /\ lx.pc # "crashed"
    /\ \/ TokensLeft' < TokensLeft
       \/ TokensLeft' = TokensLeft /\ PartLeft' < PartLeft
       \/ TokensLeft' = TokensLeft /\ PartLeft' = PartLeft /\ ResultsLeft' < ResultsLeft
       \/ Spin /\ p.h.type = "HIP"
       \/ lx'.pc = "crashed"

MeasureOK == TokensLeft \in Nat /\ PartLeft \in Nat /\ ResultsLeft \in Nat

(* The inductive invariant of the three goroutines.                        *)
ZoneInv == EndInv /\ LexOK /\ ReaderOK /\ BoundsOK /\ WantOK

(* The types of what is counted.                                           *)
LEMMA ResultsOK ==
    ASSUME SeqsOK
    PROVE  /\ Len(due) \in Nat /\ Len(t) \in Nat /\ Len(got) \in Nat
           /\ ResultsLeft \in Nat
<1>1. PICK S : got \in Seq(S) /\ t \in Seq(S) /\ due \in Seq(S)
  BY SomeSet DEF SeqsOK
<1>2. Len(due) \in Nat /\ Len(t) \in Nat /\ Len(got) \in Nat
  BY <1>1
<1>3. QED
  BY <1>2 DEF ResultsLeft

(* The last of a list is one more.                                         *)
LEMMA OneLonger ==
    ASSUME NEW u, NEW w, IsAList(u), IsAList(w), w # <<>>
    PROVE  /\ Len(u) \in Nat /\ Len(w) \in Nat /\ Len(w) > 0
           /\ Len(Append(u, Head(w))) = Len(u) + 1 /\ Len(Tail(w)) = Len(w) - 1
<1>1. PICK S : u \in Seq(S) /\ w \in Seq(S)
  BY SomeSet
<1>2. Head(w) \in S
  BY <1>1
<1>3. Len(Append(u, Head(w))) = Len(u) + 1 /\ Len(u) \in Nat
  BY <1>1, <1>2
<1>4. QED
  BY <1>3, TailIsShorter

(* A result that is sent or read is nearer to the reader. One that asked   *)
(* for one result reads one.                                               *)
LEMMA ResultMoves ==
    ASSUME SeqsOK, BoundsOK, ReaderOK, SendResult \/ ReadResult
    PROVE  BoundsOK' /\ ResultsLeft' < ResultsLeft
<1> DEFINE d  == Len(due)
           n  == Len(t)
           g  == Len(got)
           d1 == Len(due')
           n1 == Len(t')
           g1 == Len(got')
<1>1. IsAList(due) /\ IsAList(t) /\ IsAList(got) /\ d \in Nat /\ n \in Nat /\ g \in Nat
  BY ResultsOK DEF SeqsOK
<1>2. n <= Room /\ d <= 2 /\ Len(c) <= Capacity /\ Len(out) <= 2
  BY DEF BoundsOK
<1>3. Room \in Nat \ {0}
  BY CapacityAssumption DEF Room
<1>4. CASE SendResult
  <2>1. /\ due # <<>> /\ n < Room /\ t' = Append(t, Head(due)) /\ due' = Tail(due)
        /\ UNCHANGED <<out, c, got, reader>>
    BY <1>4 DEF SendResult, Room, lexVars
  <2>2. n1 = n + 1 /\ d1 = d - 1 /\ g1 = g
    BY <1>1, <2>1, OneLonger
  <2>3. Room' = Room
    BY <2>1 DEF Room
  <2> HIDE DEF d, n, d1, n1, g, g1
  <2>4. n1 <= Room' /\ d1 <= 2 /\ 2 * d1 + n1 < 2 * d + n
    BY <1>1, <1>2, <1>3, <2>1, <2>2, <2>3
  <2>5. reader = "ReadRR" => g <= 1
    BY DEF BoundsOK, g
  <2>6. BoundsOK'
    BY <1>2, <2>1, <2>2, <2>4, <2>5 DEF BoundsOK, d1, n1, g1
  <2>7. QED
    BY <2>4, <2>6 DEF ResultsLeft, d, n, d1, n1
<1>5. CASE ReadResult
  <2>1. /\ t # <<>> /\ MayRead /\ got' = Append(got, Head(t)) /\ t' = Tail(t)
        /\ UNCHANGED <<out, c, due, reader>>
    BY <1>5 DEF ReadResult, lexVars
  <2>2. g1 = g + 1 /\ n1 = n - 1 /\ d1 = d
    BY <1>1, <2>1, OneLonger
  <2>3. Room' = Room
    BY <2>1 DEF Room
  <2>4. reader = "ReadRR" => g = 0
    BY <2>1 DEF MayRead
  <2> HIDE DEF d, n, d1, n1, g, g1
  <2>5. n1 <= Room' /\ 2 * d1 + n1 < 2 * d + n /\ (reader = "ReadRR" => g1 <= 1)
    BY <1>1, <1>2, <1>3, <2>2, <2>3, <2>4
  <2>6. BoundsOK'
    BY <1>2, <2>1, <2>2, <2>5 DEF BoundsOK, d, d1, n1, g1
  <2>7. QED
    BY <2>5, <2>6 DEF ResultsLeft, d, n, d1, n1
<1>6. QED
  BY <1>4, <1>5

(* At most two results are due.                                            *)
LEMMA FewAreDue ==
    ASSUME BoundsOK, Sends \/ UNCHANGED due
    PROVE  Len(due') <= 2
<1>1. CASE due' = <<>>
  BY <1>1
<1>2. CASE \E r : due' = <<r>>
  BY <1>2
<1>3. CASE \E r, e : due' = <<r, e>>
  BY <1>3
<1>4. CASE UNCHANGED due
  BY <1>4 DEF BoundsOK
<1>5. QED
  BY <1>1, <1>2, <1>3, <1>4, Zenon DEF Sends

(* A step of the parser keeps what is said of the channels, and goes on.   *)
LEMMA ParserProgress ==
    ASSUME ZoneInv, Parses, ~SendResult
    PROVE  LexOK' /\ BoundsOK' /\ WantOK' /\ ReaderOK' /\ Progress
<1>1. KeepsGoing /\ ParserStep /\ UNCHANGED <<text, out, reader>>
  BY ParserGoesOn DEF ZoneInv, ParserReady, LexOK
<1>2. LexOK /\ BoundsOK /\ ReaderOK
  BY DEF ZoneInv
<1>3. IsLexer(lx') /\ WantOK' /\ (c' = c \/ (c # <<>> /\ c' = Tail(c)))
  BY <1>1 DEF KeepsGoing
<1>4. IsAList(c') /\ Len(c') <= Len(c) /\ Len(c) \in Nat /\ (c # <<>> /\ c' = Tail(c) => Len(c') = Len(c) - 1)
  <2>1. IsAList(c) /\ Len(c) \in Nat
    BY <1>2, LengthsOK DEF LexOK
  <2>2. CASE c' = c
    BY <2>1, <2>2, TailIsShorter
  <2>3. CASE c # <<>> /\ c' = Tail(c)
    <3>1. IsAList(c') /\ Len(c') = Len(c) - 1
      BY <2>1, <2>3, TailIsShorter
    <3>2. QED
      BY <2>1, <3>1
  <2>4. QED
    BY <1>3, <2>2, <2>3
<1>5. LexOK' /\ ReaderOK'
  BY <1>1, <1>2, <1>3, <1>4 DEF LexOK, ReaderOK, IsAList
<1>6. BoundsOK'
  <2>1. Len(due') <= 2
    BY <1>1, <1>2, FewAreDue DEF ParserStep
  <2>2. UNCHANGED <<out, t, got, reader>>
    BY <1>1 DEF ParserStep
  <2>3. Len(c') <= Capacity
    <3>1. Len(c) <= Capacity /\ Len(c') \in Nat
      BY <1>2, <1>5, LengthsOK DEF BoundsOK
    <3>2. QED
      BY <1>4, <3>1, CapacityAssumption
  <2>4. QED
    BY <1>2, <2>1, <2>2, <2>3 DEF BoundsOK, Room
<1>7. Progress
  <2>0. lx.pc # "crashed"
    BY DEF Parses, Beginning, ExpectBlank, ExpectAny, ExpectRdata, ExpectDirective, Include, ZoneEnds,
           ReadField, ReadLoop, Spin, ReadTexts, Slurp, Reading, Runs
  <2>1. Len(text) \in Nat /\ Len(out) \in Nat /\ Len(c) \in Nat
    BY <1>2, LengthsOK
  <2>2. CASE lx' = lx /\ c # <<>> /\ c' = Tail(c)
    <3>1. Len(c') = Len(c) - 1 /\ text' = text /\ out' = out
      BY <1>1, <1>4, <2>2
    <3>2. TokensLeft' < TokensLeft
      BY <2>1, <2>2, <3>1 DEF TokensLeft
    <3>3. QED
      BY <2>0, <3>2 DEF Progress
  <2>3. CASE lx' = lx /\ c' = c /\ PartLeft' < PartLeft
    <3>1. TokensLeft' = TokensLeft
      BY <1>1, <2>3 DEF TokensLeft
    <3>2. QED
      BY <2>0, <2>3, <3>1 DEF Progress
  <2>4. CASE (Spin /\ p.h.type = "HIP") \/ (lx.pc # "crashed" /\ lx'.pc = "crashed")
    BY <2>0, <2>4 DEF Progress
  <2>5. QED
    BY <1>1, <2>2, <2>3, <2>4 DEF KeepsGoing
<1>8. QED
  BY <1>3, <1>5, <1>6, <1>7

(* A step of the lexer does so too.                                        *)
LEMMA LexerProgress ==
    ASSUME ZoneInv, Lexes
    PROVE  LexOK' /\ BoundsOK' /\ WantOK' /\ ReaderOK' /\ Progress
<1>1. LexOK /\ BoundsOK /\ WantOK /\ ReaderOK
  BY DEF ZoneInv
<1>2. LexNext /\ UNCHANGED <<reader, p, due, t, got>>
  BY DEF Lexes
<1>3. CASE LexNext /\ ~Send
  <2>1. LexerStep
    BY <1>1, <1>3, SymbolSteps, EndOfTextStep DEF LexNext
  <2>2. LexOK' /\ TokensLeft' < TokensLeft /\ Len(out') <= 2
    BY <1>1, <2>1, LexerStepGoesOn
  <2>3. c' = c /\ lx.pc # "crashed"
    BY <2>1 DEF LexerStep
  <2>4. BoundsOK' /\ WantOK' /\ ReaderOK'
    BY <1>1, <1>2, <2>2, <2>3 DEF BoundsOK, WantOK, ReaderOK, Room
  <2>5. QED
    BY <2>2, <2>3, <2>4 DEF Progress
<1>4. CASE Send
  <2>1. LexOK' /\ TokensLeft' < TokensLeft /\ Len(out') <= 2 /\ Len(c') <= Capacity
    BY <1>1, <1>4, SendGoesOn
  <2>2. BoundsOK' /\ WantOK' /\ ReaderOK'
    BY <1>1, <1>2, <2>1 DEF BoundsOK, WantOK, ReaderOK, Room
  <2>3. lx.pc # "crashed"
    BY <1>4 DEF Send
  <2>4. QED
    BY <2>1, <2>2, <2>3 DEF Progress
<1>5. QED
  BY <1>2, <1>3, <1>4

(* And so does one that sends or reads a result.                           *)
LEMMA ResultProgress ==
    ASSUME ZoneInv, SendResult \/ ReadResult
    PROVE  LexOK' /\ BoundsOK' /\ WantOK' /\ ReaderOK' /\ Progress
<1>1. LexOK /\ BoundsOK /\ WantOK /\ ReaderOK /\ SeqsOK
  BY DEF ZoneInv, EndInv
<1>2. UNCHANGED <<text, lx, out, c, reader, p>> /\ lx.pc # "crashed"
  BY DEF SendResult, ReadResult, lexVars
<1>3. BoundsOK' /\ ResultsLeft' < ResultsLeft
  BY <1>1, ResultMoves
<1>4. LexOK' /\ WantOK' /\ ReaderOK' /\ TokensLeft' = TokensLeft /\ PartLeft' = PartLeft
  BY <1>1, <1>2 DEF LexOK, IsAList, WantOK, ReaderOK, TokensLeft, PartLeft
<1>5. QED
  BY <1>2, <1>3, <1>4 DEF Progress

(* At the start the channels are empty and the parser is at an owner.      *)
LEMMA ZoneInit == Init => ZoneInv
<1>1. SUFFICES ASSUME Init PROVE ZoneInv
  OBVIOUS
<1>2. /\ zone \in Zones /\ text = zone.text /\ lx = Starts /\ out = <<>> /\ c = <<>>
      /\ reader \in zone.readers /\ p = Begins /\ due = <<>> /\ t = <<>> /\ got = <<>>
  BY <1>1 DEF Init, LexInit
<1>3. IsAList(<<>>) /\ Len(<<>>) = 0
  BY DEF IsAList
<1>4. text \in Seq(STRING) /\ reader \in {"ReadRR", "ParseZone"}
  BY <1>2, ZonesAssumption
<1>5. LexOK
  BY <1>2, <1>3, <1>4 DEF LexOK, IsLexer, Starts, Stages
<1>6. BoundsOK
  BY <1>2, <1>3, CapacityAssumption DEF BoundsOK, Room
<1>7. WantOK
  BY <1>2 DEF WantOK, Begins
<1>8. QED
  BY <1>1, <1>4, <1>5, <1>6, <1>7, InitiallyNone DEF ZoneInv, ReaderOK

(* Every step of the three keeps the invariant, and goes on.               *)
LEMMA ZoneInductive == ZoneInv /\ [Next]_vars => ZoneInv' /\ [Progress]_vars
<1>1. SUFFICES ASSUME ZoneInv, [Next]_vars PROVE ZoneInv' /\ [Progress]_vars
  OBVIOUS
<1>2. EndInv'
  BY <1>1, EndInductive DEF ZoneInv
<1>3. CASE UNCHANGED vars
  <2>1. UNCHANGED <<text, lx, out, c, reader, p, due, t, got>>
    BY <1>3 DEF vars, lexVars
  <2>2. LexOK' /\ ReaderOK' /\ BoundsOK' /\ WantOK'
    BY <1>1, <2>1 DEF ZoneInv, LexOK, IsAList, ReaderOK, BoundsOK, Room, WantOK
  <2>3. QED
    BY <1>2, <1>3, <2>2 DEF ZoneInv
<1>4. CASE Next /\ ~UNCHANGED vars
  <2>1. Lexes \/ SendResult \/ ReadResult \/ (Parses /\ ~SendResult)
    BY <1>4 DEF Next, Terminated
  <2>2. LexOK' /\ BoundsOK' /\ WantOK' /\ ReaderOK' /\ Progress
    BY <1>1, <2>1, LexerProgress, ResultProgress, ParserProgress
  <2>3. QED
    BY <1>2, <2>2 DEF ZoneInv
<1>5. QED
  BY <1>1, <1>3, <1>4

(* A zone of finite length is read in finitely many steps, whoever takes   *)
(* them, or the program ends: every step makes the three numbers smaller,  *)
(* in their order, and they are natural. Only setHIP may spin without end. *)
THEOREM ZoneIsFinite == Spec => []MeasureOK /\ [][Progress]_vars
<1>1. ZoneInv => MeasureOK
  BY LengthsOK, PartOK, ResultsOK DEF ZoneInv, EndInv, MeasureOK
<1>2. QED
  BY <1>1, ZoneInit, ZoneInductive, PTL DEF Spec

-----------------------------------------------------------------------------
(* Who can take a step.                                                    *)
CanLex        == lx.pc = "reading" /\ out = <<>>
CanSendToken  == out # <<>> /\ Len(c) < Capacity
CanParse      == due = <<>> /\ p.st # "end" /\ (c # <<>> \/ Closed \/ p.st = "spinning")
CanSendResult == due # <<>> /\ Len(t) < Room
CanRead       == t # <<>> /\ MayRead

(* The two ways a goroutine is left over: the lexer when the parser stopped*)
(* at an error, the parser when one result was asked for.                  *)
LexerLeft  == p.st = "end" /\ out # <<>> /\ Len(c) = Capacity
ParserLeft == ~MayRead /\ due # <<>> /\ Len(t) = 1

SomebodyCan ==
    \/ CanLex \/ CanSendToken \/ CanParse \/ CanSendResult \/ CanRead
    \/ Closed /\ ZoneClosed
    \/ LexerLeft \/ ParserLeft
    \/ lx.pc = "crashed"

(* Lexer, parser and reader never wait for each other in a ring, however   *)
(* small the channels are: somebody can take a step until lexer and parser *)
(* are at their end or one of them is left over as GoroutinesEnd says, or  *)
(* the program crashed.                                                    *)
THEOREM NoDeadlock == Spec => []SomebodyCan
<1>1. ZoneInv => SomebodyCan
  <2>1. SUFFICES ASSUME ZoneInv, lx.pc # "crashed", ~CanLex, ~CanSendToken, ~CanSendResult, ~CanRead
        PROVE  CanParse \/ (Closed /\ ZoneClosed) \/ LexerLeft \/ ParserLeft
    BY DEF SomebodyCan
  <2>2. /\ lx.pc \in Stages /\ Len(c) \in Nat /\ Len(c) <= Capacity /\ Len(t) \in Nat /\ Len(t) <= Room
        /\ reader \in {"ReadRR", "ParseZone"}
    BY <2>1, LengthsOK, ResultsOK DEF ZoneInv, EndInv, LexOK, IsLexer, BoundsOK, ReaderOK
  <2>3. Closed \/ (out # <<>> /\ Len(c) = Capacity /\ c # <<>>)
    <3>1. CASE out = <<>>
      BY <2>1, <2>2, <3>1 DEF CanLex, Closed, Stages
    <3>2. CASE out # <<>>
      <4>1. Len(c) = Capacity /\ Len(c) # 0
        BY <2>1, <2>2, <3>2, CapacityAssumption DEF CanSendToken
      <4>2. c # <<>>
        BY <4>1
      <4>3. QED
        BY <3>2, <4>1, <4>2
    <3>3. QED
      BY <3>1, <3>2
  <2>4. CASE due # <<>>
    <3>1. Len(t) = Room /\ Room \in Nat \ {0}
      <4>1. Room \in Nat \ {0}
        BY CapacityAssumption DEF Room
      <4>2. ~(Len(t) < Room)
        BY <2>1, <2>4 DEF CanSendResult
      <4>3. QED
        BY <2>2, <4>1, <4>2
    <3>2. t # <<>>
      BY <3>1
    <3>3. ~MayRead
      BY <2>1, <3>2 DEF CanRead
    <3>4. reader = "ReadRR"
      BY <2>2, <3>3 DEF MayRead
    <3>5. QED
      BY <2>4, <3>1, <3>3, <3>4 DEF ParserLeft, Room
  <2>5. CASE due = <<>>
    BY <2>3, <2>5 DEF CanParse, ZoneClosed, LexerLeft
  <2>6. QED
    BY <2>4, <2>5
<1>2. QED
  BY <1>1, ZoneInit, ZoneInductive, PTL DEF Spec
=============================================================================
