------------------------ MODULE AnswerQuestionProofs ------------------------
(* What AnswerQuestion guarantees for every set of types and every bound.  *)
EXTENDS AnswerQuestion, FiniteSetTheorems, TLAPS

Unfinished == {w \in Types : pc[w] \notin {"recover", "exit", "exited"}}
Finished   == {"return", "recover", "exit", "exited"}

(* Exactly the asked types have a worker; only a single one tries CNAME,   *)
(* and only one of several has a WaitGroup to count down and a recover().  *)
StageInv ==
    \A w \in Types :
        /\ pc[w] = "off" <=> w \notin Asked
        /\ pc[w] = "cname" => Single
        /\ pc[w] \in {"recover", "exit"} => ~Single

(* The WaitGroup counts the workers that have not called wg.Done().        *)
WgInv == wg = IF qtype = ANY THEN Cardinality(Unfinished) ELSE 0

(* The channels are closed, answers first, after the last send; and the    *)
(* collecting loop counts only closed channels.                            *)
ClosedInv ==
    /\ closed # {} => \A w \in Asked : pc[w] \in Finished
    /\ "errors" \in closed => "answers" \in closed
    /\ done > 0 => closed # {}

(* How far a worker has come determines how much it has sent.              *)
OutInv ==
    \A w \in Types :
        /\ pc[w] \in {"off", "lookup", "cname"} => out[w] = Found(w, 0)
        /\ pc[w] \in {"off", "lookup", "cname", "error"} => sent[w] = 0
        /\ pc[w] = "answers" => sent[w] < out[w].n /\ ~out[w].err
        /\ pc[w] = "error" => out[w].err
        /\ pc[w] \in Finished => sent[w] = out[w].n
        /\ out[w].err => out[w].n = 0
        /\ out[w].of # w => Single

(* The records gathered are exactly those sent, each once and in order.    *)
RrsInv ==
    /\ \A k \in 1..Len(rrs) : \E w \in Asked :
        rrs[k][1] = out[w].of /\ rrs[k][2] \in 1..sent[w]
    /\ \A w \in Asked : \A i \in 1..sent[w] :
        \E k \in 1..Len(rrs) : rrs[k] = <<out[w].of, i>>
    /\ \A k, l \in 1..Len(rrs) :
        k < l /\ rrs[k][1] = rrs[l][1] => rrs[k][2] < rrs[l][2]

(* The errors gathered are exactly those of the workers past their send.   *)
ErrsInv ==
    /\ \A k \in 1..Len(errs) :
        errs[k] \in Asked /\ out[errs[k]].err /\ pc[errs[k]] \in Finished
    /\ \A w \in Asked : out[w].err /\ pc[w] \in Finished =>
        \E k \in 1..Len(errs) : errs[k] = w
    /\ \A k, l \in 1..Len(errs) : errs[k] = errs[l] => k = l

IInv == TypeOK /\ StageInv /\ WgInv /\ ClosedInv /\ OutInv /\ RrsInv /\ ErrsInv

-----------------------------------------------------------------------------
(* The number of unfinished workers is a natural number, zero only when    *)
(* there are none, and one less when a worker finishes.                    *)
LEMMA UnfinishedCount ==
    /\ Cardinality(Unfinished) \in Nat
    /\ Cardinality(Unfinished) <= Cardinality(Types)
    /\ Cardinality(Types) \in Nat
    /\ Cardinality(Unfinished) = 0 <=> Unfinished = {}
    /\ \A w \in Unfinished : Cardinality(Unfinished \ {w}) = Cardinality(Unfinished) - 1
<1>1. IsFiniteSet(Unfinished) /\ Cardinality(Unfinished) <= Cardinality(Types)
  <2>1. Unfinished \subseteq Types
    BY DEF Unfinished
  <2> QED
    BY <2>1, FS_Subset, TypesAssumption
<1>2. \A w \in Unfinished : Cardinality(Unfinished \ {w}) = Cardinality(Unfinished) - 1
  BY <1>1, FS_RemoveElement
<1>3. Cardinality(Unfinished) \in Nat /\ Cardinality(Types) \in Nat
  BY <1>1, FS_CardinalityType, TypesAssumption
<1>4. Cardinality(Unfinished) = 0 <=> Unfinished = {}
  BY <1>1, FS_EmptySet
<1> QED
  BY <1>1, <1>2, <1>3, <1>4

(* A question starts with nothing closed (but for an unknown type), nothing*)
(* sent and nothing gathered.                                              *)
LEMMA InitIInv == Init => IInv
<1> SUFFICES ASSUME Init PROVE IInv
  OBVIOUS
<1>1. Cardinality(Types) \in Nat
  BY FS_CardinalityType, TypesAssumption
<1>2. \A w \in Types : pc[w] \in {"off", "lookup"}
  BY DEF Init
<1>3. TypeOK
  BY <1>1, TypesAssumption, MaxRecordsAssumption
     DEF Init, TypeOK, QTypes, Channels, Outcomes, Records, Found, Asked, Stages
<1>4. StageInv
  BY DEF Init, StageInv, Asked
<1>5. WgInv
  <2>1. Unfinished = Types
    BY <1>2 DEF Unfinished
  <2> QED
    BY <2>1 DEF Init, WgInv
<1>6. ClosedInv
  BY TypesAssumption DEF Init, ClosedInv, Channels, Asked
<1>7. OutInv
  BY <1>2 DEF Init, OutInv, Found, Finished
<1>8. RrsInv
  <2>1. Asked \subseteq Types /\ 1..Len(rrs) = {}
    BY DEF Init, Asked
  <2>2. \A w \in Types : 1..sent[w] = {}
    BY DEF Init
  <2>3. \A w \in Asked : 1..sent[w] = {}
    BY <2>1, <2>2
  <2> QED
    BY <2>1, <2>3 DEF RrsInv
<1>9. ErrsInv
  <2>1. 1..Len(errs) = {} /\ \A w \in Asked : pc[w] \notin Finished
    BY <1>2 DEF Init, Asked, Finished
  <2> QED
    BY <2>1 DEF ErrsInv
<1> QED
  BY <1>3, <1>4, <1>5, <1>6, <1>7, <1>8, <1>9 DEF IInv

-----------------------------------------------------------------------------
(* The steps that leave the channels and the loop alone. The lookup of     *)
(* worker w ends with outcome o and the worker goes to l.                  *)
LookupEnds(w, o, l) ==
    /\ pc[w] \in {"lookup", "cname"}
    /\ pc' = [pc EXCEPT ![w] = l]
    /\ out' = [out EXCEPT ![w] = o]
    /\ l = "cname" => Single /\ o = Found(w, 0)
    /\ l = "answers" => o.n > 0 /\ ~o.err
    /\ l = "error" => o.err
    /\ l = "return" => o.n = 0 /\ ~o.err
    /\ o.err => o.n = 0
    /\ o.of # w => Single /\ o.of = CNAME /\ o.n <= 1
    /\ UNCHANGED <<qtype, sent, wg, closed, done, rrs, errs, alive>>
    /\ panicked' \in SUBSET Types

(* The five ways a lookup can end all have that form.                      *)
LEMMA LookupOutcome ==
    ASSUME IInv, NEW w \in Types, Lookup(w)
    PROVE  \E o \in Outcomes : \E l \in {"cname", "answers", "error", "return"} :
               LookupEnds(w, o, l)
<1>0. panicked' \in SUBSET Types
  BY DEF Lookup, LookupOK, LookupFails, CnameOK, CnameFails, Panic, Goto, IInv, TypeOK
<1>1. CASE LookupOK(w)
  <2>1. PICK n \in 0..MaxRecords :
          Goto(w, IF n > 0 THEN "answers" ELSE IF Single THEN "cname" ELSE "return",
               Found(w, n))
    BY <1>1 DEF LookupOK
  <2>2. Found(w, n) \in Outcomes
    BY DEF Found, Outcomes
  <2>3. Found(w, n).n = n /\ ~Found(w, n).err /\ Found(w, n).of = w /\ n \in Nat
    BY MaxRecordsAssumption DEF Found
  <2>4. CASE n > 0
    BY <1>0, <1>1, <2>1, <2>2, <2>3, <2>4 DEF LookupOK, Goto, LookupEnds
  <2>5. CASE n = 0 /\ Single
    BY <1>0, <1>1, <2>1, <2>2, <2>3, <2>5 DEF LookupOK, Goto, LookupEnds
  <2>6. CASE n = 0 /\ ~Single
    BY <1>0, <1>1, <2>1, <2>2, <2>3, <2>6 DEF LookupOK, Goto, LookupEnds
  <2> QED
    BY <2>3, <2>4, <2>5, <2>6
<1>2. CASE LookupFails(w)
  <2>1. Failed(w) \in Outcomes
    BY MaxRecordsAssumption DEF Failed, Outcomes
  <2> QED
    BY <1>0, <1>2, <2>1 DEF LookupFails, Goto, LookupEnds, Failed
<1>3. CASE CnameOK(w)
  <2>1. PICK n \in 0..MaxRecords :
          \/ n = 0 /\ Goto(w, "return", Found(CNAME, 0))
          \/ n = 1 /\ Goto(w, "answers", Found(CNAME, 1))
          \/ n > 1 /\ Goto(w, "error", Failed(CNAME))
    BY <1>3 DEF CnameOK
  <2>2. /\ Failed(CNAME) \in Outcomes
        /\ Found(CNAME, 0) \in Outcomes
        /\ n = 1 => Found(CNAME, 1) \in Outcomes
    BY MaxRecordsAssumption, TypesAssumption DEF Failed, Found, Outcomes
  <2>3. Single
    BY <1>3 DEF CnameOK, IInv, StageInv
  <2>4. CASE n = 0 /\ Goto(w, "return", Found(CNAME, 0))
    <3>1. LookupEnds(w, Found(CNAME, 0), "return")
      BY <1>0, <1>3, <2>3, <2>4 DEF CnameOK, Goto, LookupEnds, Found
    <3> QED
      BY <3>1, <2>2
  <2>5. CASE n = 1 /\ Goto(w, "answers", Found(CNAME, 1))
    <3>1. LookupEnds(w, Found(CNAME, 1), "answers")
      BY <1>0, <1>3, <2>3, <2>5 DEF CnameOK, Goto, LookupEnds, Found
    <3> QED
      BY <3>1, <2>2, <2>5
  <2>6. CASE n > 1 /\ Goto(w, "error", Failed(CNAME))
    <3>1. LookupEnds(w, Failed(CNAME), "error")
      BY <1>0, <1>3, <2>3, <2>6 DEF CnameOK, Goto, LookupEnds, Failed
    <3> QED
      BY <3>1, <2>2
  <2> QED
    BY <2>1, <2>4, <2>5, <2>6
<1>4. CASE CnameFails(w)
  <2>1. Failed(CNAME) \in Outcomes
    BY MaxRecordsAssumption, TypesAssumption DEF Failed, Outcomes
  <2>2. Single
    BY <1>4 DEF CnameFails, IInv, StageInv
  <2> QED
    <3>1. LookupEnds(w, Failed(CNAME), "error")
      BY <1>0, <1>4, <2>2 DEF CnameFails, Goto, LookupEnds, Failed
    <3> QED
      BY <3>1, <2>1
<1>5. CASE Panic(w)
  <2>1. out[w] = Found(w, 0) /\ Found(w, 0) \in Outcomes
    BY <1>5 DEF Panic, IInv, OutInv, TypeOK
  <2>2. out' = [out EXCEPT ![w] = Found(w, 0)]
    BY <1>5, <2>1 DEF Panic, IInv, TypeOK
  <2> QED
    BY <1>0, <1>5, <2>1, <2>2 DEF Panic, LookupEnds, Found
<1> QED
  BY <1>1, <1>2, <1>3, <1>4, <1>5 DEF Lookup

(* Whatever a lookup comes to, the invariant holds after it.               *)
LEMMA LookupStep ==
    ASSUME IInv, NEW w \in Types, Lookup(w)
    PROVE  IInv'
<1>1. PICK o \in Outcomes, l \in {"cname", "answers", "error", "return"} : LookupEnds(w, o, l)
  BY LookupOutcome
<1>2. /\ UNCHANGED <<qtype, sent, wg, closed, done, rrs, errs, alive>>
      /\ panicked' \in SUBSET Types
  BY <1>1 DEF LookupEnds
<1>3. Asked' = Asked /\ (Single <=> Single') /\ Asked \subseteq Types
  BY <1>2 DEF Asked, Single
<1>4. TypeOK'
  BY <1>1, <1>2 DEF LookupEnds, IInv, TypeOK, Stages
<1>5. StageInv'
  BY <1>1, <1>2, <1>3 DEF LookupEnds, IInv, StageInv, TypeOK
<1>6. WgInv'
  <2>1. Unfinished' = Unfinished
    BY <1>1 DEF LookupEnds, Unfinished, IInv, TypeOK
  <2> QED
    BY <2>1, <1>2 DEF IInv, WgInv
<1>7. ClosedInv'
  BY <1>1, <1>2, <1>3 DEF LookupEnds, IInv, ClosedInv, StageInv, TypeOK, Finished
<1>8. OutInv'
  <2>1. /\ sent[w] = 0 /\ o.n \in Nat /\ pc'[w] = l /\ out'[w] = o
        /\ \A v \in Types \ {w} : pc'[v] = pc[v] /\ out'[v] = out[v]
    BY <1>1, MaxRecordsAssumption DEF LookupEnds, IInv, OutInv, TypeOK, Outcomes
  <2> QED
    BY <2>1, <1>1, <1>2, <1>3 DEF LookupEnds, IInv, OutInv, Finished
<1>9. sent[w] = 0
  BY <1>1 DEF LookupEnds, IInv, OutInv
<1>10. RrsInv'
  <2>1. \A v \in Asked : sent[v] # 0 => out'[v] = out[v]
    BY <1>1, <1>3, <1>9 DEF LookupEnds, IInv, TypeOK
  <2>2. \A v \in Asked : \A i \in 1..sent[v] : out'[v] = out[v]
    BY <2>1, <1>3 DEF LookupEnds, IInv, TypeOK
  <2>3. \A k \in 1..Len(rrs) : \E v \in Asked :
            rrs[k][1] = out'[v].of /\ rrs[k][2] \in 1..sent[v]
    BY <2>2 DEF IInv, RrsInv
  <2>4. \A v \in Asked : \A i \in 1..sent[v] :
            \E k \in 1..Len(rrs) : rrs[k] = <<out'[v].of, i>>
    BY <2>2 DEF IInv, RrsInv
  <2> QED
    BY <2>3, <2>4, <1>2, <1>3 DEF IInv, RrsInv
<1>11. ErrsInv'
  BY <1>1, <1>2, <1>3 DEF LookupEnds, IInv, ErrsInv, TypeOK, Finished
<1> QED
  BY <1>4, <1>5, <1>6, <1>7, <1>8, <1>10, <1>11 DEF IInv

(* A deferred call, or the end of the goroutine: it changes where worker w *)
(* stands and nothing a worker found, sent or gathered.                    *)
Deferred(w, from, to) ==
    /\ pc[w] = from
    /\ pc' = [pc EXCEPT ![w] = to]
    /\ UNCHANGED <<qtype, out, sent, closed, done, rrs, errs>>
    /\ panicked' \in SUBSET Types
    /\ alive' \in BOOLEAN

LEMMA DeferredStep ==
    ASSUME IInv, NEW w \in Types, NEW from \in Finished, NEW to \in Finished,
           Deferred(w, from, to), to \in {"recover", "exit"} => ~Single,
           WgInv', wg' \in 0..Cardinality(Types)
    PROVE  IInv'
<1>1. /\ pc[w] = from
      /\ pc' = [pc EXCEPT ![w] = to]
      /\ UNCHANGED <<qtype, out, sent, closed, done, rrs, errs>>
      /\ panicked' \in SUBSET Types
      /\ alive' \in BOOLEAN
  BY DEF Deferred
<1>2. /\ Asked' = Asked /\ (Single <=> Single') /\ Asked \subseteq Types
      /\ w \in Asked
  BY <1>1 DEF Asked, Single, IInv, StageInv, Finished
<1>3. pc' \in [Types -> Stages] /\ \A v \in Types : pc'[v] = IF v = w THEN to ELSE pc[v]
  BY <1>1 DEF IInv, TypeOK, Finished, Stages
<1>4. TypeOK'
  BY <1>1, <1>3 DEF IInv, TypeOK
<1>5. StageInv'
  BY <1>1, <1>2, <1>3 DEF IInv, StageInv, Finished
<1>6. ClosedInv'
  BY <1>1, <1>2, <1>3 DEF IInv, ClosedInv
<1>7. OutInv'
  BY <1>1, <1>2, <1>3 DEF IInv, OutInv, Finished, Found
<1>8. RrsInv'
  BY <1>1, <1>2 DEF IInv, RrsInv
<1>9. ErrsInv'
  BY <1>1, <1>2, <1>3 DEF IInv, ErrsInv
<1> QED
  BY <1>4, <1>5, <1>6, <1>7, <1>8, <1>9 DEF IInv

(* wg.Done(): the WaitGroup counts one worker less.                        *)
LEMMA DoneStep ==
    ASSUME IInv, NEW w \in Types, Done(w)
    PROVE  IInv'
<1>1. /\ pc[w] = "return" /\ ~Single
      /\ pc' = [pc EXCEPT ![w] = "recover"]
      /\ wg' = wg - 1
      /\ UNCHANGED <<qtype, out, sent, closed, done, rrs, errs, panicked, alive>>
  BY DEF Done
<1>2. Deferred(w, "return", "recover")
  BY <1>1 DEF Deferred, IInv, TypeOK
<1>3. qtype = ANY
  BY <1>1 DEF Asked, Single, IInv, StageInv
<1>4. w \in Unfinished /\ Unfinished' = Unfinished \ {w}
  BY <1>1 DEF Unfinished, IInv, TypeOK
<1>5. Cardinality(Unfinished') = Cardinality(Unfinished) - 1 /\ Cardinality(Unfinished) # 0
  BY <1>4, UnfinishedCount
<1>6. WgInv' /\ wg' \in 0..Cardinality(Types)
  BY <1>1, <1>3, <1>5, UnfinishedCount DEF IInv, WgInv
<1> QED
  BY <1>1, <1>2, <1>6, DeferredStep DEF Finished

(* recover() and the end of the goroutine leave the WaitGroup as it is.    *)
LEMMA RecoverExitStep ==
    ASSUME IInv, NEW w \in Types, Recover(w) \/ Exit(w)
    PROVE  IInv'
<1>1. UNCHANGED <<qtype, wg>>
  BY DEF Recover, Exit
<1>2. CASE Recover(w)
  <2>1. Deferred(w, "recover", "exit") /\ ~Single
    BY <1>2 DEF Recover, Deferred, IInv, TypeOK, StageInv
  <2>2. Unfinished' = Unfinished
    BY <2>1 DEF Deferred, Unfinished, IInv, TypeOK
  <2>3. WgInv' /\ wg' \in 0..Cardinality(Types)
    BY <1>1, <2>2 DEF IInv, WgInv, TypeOK
  <2> QED
    BY <2>1, <2>3, DeferredStep DEF Finished
<1>3. CASE Exit(w) /\ ~Single
  <2>1. Deferred(w, "exit", "exited")
    BY <1>3 DEF Exit, Deferred, IInv, TypeOK
  <2>2. Unfinished' = Unfinished
    BY <2>1 DEF Deferred, Unfinished, IInv, TypeOK
  <2>3. WgInv' /\ wg' \in 0..Cardinality(Types)
    BY <1>1, <2>2 DEF IInv, WgInv, TypeOK
  <2> QED
    BY <2>1, <2>3, DeferredStep DEF Finished
<1>4. CASE Exit(w) /\ Single
  <2>1. Deferred(w, "return", "exited")
    BY <1>4 DEF Exit, Deferred, IInv, TypeOK
  <2>2. qtype # ANY
    BY <1>4, TypesAssumption DEF Single
  <2>3. WgInv' /\ wg' \in 0..Cardinality(Types)
    BY <1>1, <2>2 DEF IInv, WgInv, TypeOK
  <2> QED
    BY <2>1, <2>3, DeferredStep DEF Finished
<1> QED
  BY <1>2, <1>3, <1>4

(* The conjuncts that do not look at the channels survive every step that  *)
(* leaves the workers and what was gathered alone.                         *)
LEMMA SameWorkers ==
    ASSUME UNCHANGED <<qtype, pc, out, sent, wg, rrs, errs>>
    PROVE  /\ StageInv => StageInv'
           /\ WgInv => WgInv'
           /\ OutInv => OutInv'
           /\ RrsInv => RrsInv'
           /\ ErrsInv => ErrsInv'
<1>1. Asked' = Asked /\ (Single <=> Single') /\ Unfinished' = Unfinished
  BY DEF Asked, Single, Unfinished
<1>2. StageInv => StageInv'
  BY <1>1 DEF StageInv
<1>3. WgInv => WgInv'
  BY <1>1 DEF WgInv
<1>4. OutInv => OutInv'
  BY <1>1 DEF OutInv
<1>5. RrsInv => RrsInv'
  BY <1>1 DEF RrsInv
<1>6. ErrsInv => ErrsInv'
  BY <1>1 DEF ErrsInv
<1> QED
  BY <1>2, <1>3, <1>4, <1>5, <1>6

(* A channel is closed only when no worker has anything left to send.      *)
LEMMA CloseStep ==
    ASSUME IInv, Closer
    PROVE  IInv'
<1>1. /\ UNCHANGED <<qtype, pc, out, sent, wg, done, rrs, errs, panicked, alive>>
      /\ closed' \in SUBSET Channels
      /\ "answers" \in closed'
      /\ closed # {} \/ MayClose
  <2>1. CASE CloseAnswers
    BY <2>1 DEF CloseAnswers, Channels
  <2>2. CASE CloseErrors
    BY <2>2 DEF CloseErrors, Channels
  <2> QED
    BY <2>1, <2>2 DEF Closer
<1>2. Asked' = Asked /\ Asked \subseteq Types
  BY <1>1 DEF Asked
<1>3. \A w \in Asked : pc[w] \in Finished
  <2>1. CASE closed # {}
    BY <2>1 DEF IInv, ClosedInv
  <2>2. CASE MayClose /\ Single
    BY <2>2, TypesAssumption DEF MayClose, Single, Asked, Finished
  <2>3. CASE MayClose /\ qtype = ANY
    <3>1. Unfinished = {}
      BY <2>3, UnfinishedCount, TypesAssumption DEF MayClose, Single, IInv, WgInv
    <3> QED
      BY <3>1, <1>2 DEF Unfinished, Finished
  <2>4. CASE ~Single /\ qtype # ANY
    BY <2>4 DEF Single, Asked
  <2> QED
    BY <1>1, <2>1, <2>2, <2>3, <2>4
<1>4. TypeOK'
  BY <1>1 DEF IInv, TypeOK
<1>5. StageInv' /\ WgInv' /\ OutInv' /\ RrsInv' /\ ErrsInv'
  BY <1>1, SameWorkers DEF IInv
<1>6. ClosedInv'
  BY <1>1, <1>2, <1>3 DEF IInv, ClosedInv
<1> QED
  BY <1>4, <1>5, <1>6 DEF IInv

(* The loop counts a closed channel.                                       *)
LEMMA ReceiveClosedStep ==
    ASSUME IInv, NEW c \in Channels, ReceiveClosed(c)
    PROVE  IInv'
<1>1. /\ UNCHANGED <<qtype, pc, out, sent, wg, closed, rrs, errs, panicked, alive>>
      /\ done' \in 0..2
      /\ closed # {}
  BY DEF ReceiveClosed, Gathering, IInv, TypeOK
<1>2. Asked' = Asked
  BY <1>1 DEF Asked
<1>3. TypeOK' /\ ClosedInv'
  BY <1>1, <1>2 DEF IInv, TypeOK, ClosedInv
<1>4. StageInv' /\ WgInv' /\ OutInv' /\ RrsInv' /\ ErrsInv'
  BY <1>1, SameWorkers DEF IInv
<1> QED
  BY <1>3, <1>4 DEF IInv

(* A worker hands a record to the loop: the next one of its own.           *)
LEMMA ReceiveAnswerStep ==
    ASSUME IInv, NEW w \in Types, ReceiveAnswer(w)
    PROVE  IInv'
<1> DEFINE r == <<out[w].of, sent[w] + 1>>
<1>1. /\ pc[w] = "answers" /\ done < 2
      /\ sent' = [sent EXCEPT ![w] = sent[w] + 1]
      /\ rrs' = Append(rrs, r)
      /\ pc' = [pc EXCEPT ![w] = IF sent[w] + 1 = out[w].n THEN "return" ELSE "answers"]
      /\ UNCHANGED <<qtype, out, wg, closed, done, errs, panicked, alive>>
  BY DEF ReceiveAnswer, Gathering
<1>2. /\ Asked' = Asked /\ (Single <=> Single') /\ Asked \subseteq Types
      /\ w \in Asked
  BY <1>1 DEF Asked, Single, IInv, StageInv
<1>3. /\ sent[w] \in Nat /\ out[w].n \in Nat /\ out[w].n <= MaxRecords
      /\ sent[w] < out[w].n /\ ~out[w].err /\ out[w].of \in Types
  BY <1>1, MaxRecordsAssumption DEF IInv, OutInv, TypeOK, Outcomes
<1>4. \A v \in Types : sent[v] \in Nat
  BY MaxRecordsAssumption DEF IInv, TypeOK
<1>5. r \in Records
  BY <1>3, MaxRecordsAssumption DEF Records
<1>6. /\ rrs \in Seq(Records) /\ Len(rrs) \in Nat
      /\ Len(rrs') = Len(rrs) + 1
      /\ \A k \in 1..Len(rrs) : rrs'[k] = rrs[k]
      /\ rrs'[Len(rrs) + 1] = r
      /\ rrs' \in Seq(Records)
  BY <1>1, <1>5 DEF IInv, TypeOK
<1> HIDE DEF r
<1>7. TypeOK'
  <2>1. sent' \in [Types -> 0..MaxRecords]
    BY <1>1, <1>3, MaxRecordsAssumption DEF IInv, TypeOK
  <2>2. pc' \in [Types -> Stages]
    BY <1>1 DEF IInv, TypeOK, Stages
  <2> QED
    BY <2>1, <2>2, <1>1, <1>6 DEF IInv, TypeOK
<1>8. StageInv'
  BY <1>1, <1>2 DEF IInv, StageInv, TypeOK
<1>9. WgInv'
  <2>1. Unfinished' = Unfinished
    BY <1>1 DEF Unfinished, IInv, TypeOK
  <2> QED
    BY <2>1, <1>1 DEF IInv, WgInv
<1>10. ClosedInv'
  BY <1>1, <1>2 DEF IInv, ClosedInv, TypeOK, Finished
<1>11. OutInv'
  BY <1>1, <1>2, <1>3 DEF IInv, OutInv, TypeOK, Finished, Found
<1>12. \A v \in Types : sent'[v] = IF v = w THEN sent[w] + 1 ELSE sent[v]
  BY <1>1 DEF IInv, TypeOK
<1>13. \A v \in Asked : out[v].of = out[w].of => v = w
  BY <1>2, TypesAssumption DEF IInv, OutInv, Single, Asked
<1>14. r[1] = out[w].of /\ r[2] = sent[w] + 1
  BY DEF r
<1>15. RrsInv'
  <2>1. \A k \in 1..Len(rrs') : \E v \in Asked :
            rrs'[k][1] = out[v].of /\ rrs'[k][2] \in 1..sent'[v]
    <3> SUFFICES ASSUME NEW k \in 1..Len(rrs')
                 PROVE  \E v \in Asked : rrs'[k][1] = out[v].of /\ rrs'[k][2] \in 1..sent'[v]
      OBVIOUS
    <3>1. CASE k = Len(rrs) + 1
      BY <3>1, <1>2, <1>3, <1>6, <1>12, <1>14
    <3>2. CASE k \in 1..Len(rrs)
      <4>1. PICK v \in Asked : rrs[k][1] = out[v].of /\ rrs[k][2] \in 1..sent[v]
        BY <3>2 DEF IInv, RrsInv
      <4>2. rrs[k][2] \in 1..sent'[v]
        BY <4>1, <1>2, <1>4, <1>12
      <4> QED
        BY <3>2, <4>1, <4>2, <1>6
    <3> QED
      BY <3>1, <3>2, <1>6
  <2>2. \A v \in Asked : \A i \in 1..sent'[v] :
            \E k \in 1..Len(rrs') : rrs'[k] = <<out[v].of, i>>
    <3> SUFFICES ASSUME NEW v \in Asked, NEW i \in 1..sent'[v]
                 PROVE  \E k \in 1..Len(rrs') : rrs'[k] = <<out[v].of, i>>
      OBVIOUS
    <3>1. CASE v = w /\ i = sent[w] + 1
      BY <3>1, <1>6 DEF r
    <3>2. CASE i \in 1..sent[v]
      <4>1. PICK k \in 1..Len(rrs) : rrs[k] = <<out[v].of, i>>
        BY <3>2 DEF IInv, RrsInv
      <4> QED
        BY <4>1, <1>6
    <3> QED
      BY <3>1, <3>2, <1>2, <1>4, <1>12
  <2>3. \A k, l \in 1..Len(rrs') :
            k < l /\ rrs'[k][1] = rrs'[l][1] => rrs'[k][2] < rrs'[l][2]
    <3> SUFFICES ASSUME NEW k \in 1..Len(rrs'), NEW l \in 1..Len(rrs'),
                        k < l, rrs'[k][1] = rrs'[l][1]
                 PROVE  rrs'[k][2] < rrs'[l][2]
      OBVIOUS
    <3>1. CASE l \in 1..Len(rrs)
      <4>1. k \in 1..Len(rrs) /\ rrs'[k] = rrs[k] /\ rrs'[l] = rrs[l]
        BY <3>1, <1>6
      <4>2. rrs[k][1] = rrs[l][1]
        BY <4>1
      <4> QED
        BY <3>1, <4>1, <4>2 DEF IInv, RrsInv
    <3>2. CASE l = Len(rrs) + 1
      <4>1. k \in 1..Len(rrs) /\ rrs[k][1] = out[w].of /\ rrs'[k] = rrs[k]
        BY <3>2, <1>6, <1>14
      <4>2. PICK v \in Asked : rrs[k][1] = out[v].of /\ rrs[k][2] \in 1..sent[v]
        BY <4>1 DEF IInv, RrsInv
      <4>3. v = w
        BY <4>1, <4>2, <1>13
      <4> QED
        BY <3>2, <4>1, <4>2, <4>3, <1>3, <1>6, <1>14
    <3> QED
      BY <3>1, <3>2, <1>6
  <2> QED
    BY <2>1, <2>2, <2>3, <1>1, <1>2 DEF RrsInv
<1>16. ErrsInv'
  BY <1>1, <1>2, <1>3 DEF IInv, ErrsInv, TypeOK, Finished
<1> QED
  BY <1>7, <1>8, <1>9, <1>10, <1>11, <1>15, <1>16 DEF IInv

(* A worker hands its error to the loop.                                   *)
LEMMA ReceiveErrorStep ==
    ASSUME IInv, NEW w \in Types, ReceiveError(w)
    PROVE  IInv'
<1>1. /\ pc[w] = "error"
      /\ errs' = Append(errs, w)
      /\ pc' = [pc EXCEPT ![w] = "return"]
      /\ UNCHANGED <<qtype, out, sent, wg, closed, done, rrs, panicked, alive>>
  BY DEF ReceiveError
<1>2. /\ Asked' = Asked /\ (Single <=> Single') /\ Asked \subseteq Types
      /\ w \in Asked
  BY <1>1 DEF Asked, Single, IInv, StageInv
<1>3. out[w].err /\ sent[w] = 0 /\ out[w].n = 0
  BY <1>1 DEF IInv, OutInv
<1>4. /\ errs \in Seq(Types) /\ Len(errs) \in Nat
      /\ Len(errs') = Len(errs) + 1
      /\ \A k \in 1..Len(errs) : errs'[k] = errs[k]
      /\ errs'[Len(errs) + 1] = w
      /\ errs' \in Seq(Types)
  BY <1>1 DEF IInv, TypeOK
<1>5. TypeOK'
  <2>1. pc' \in [Types -> Stages]
    BY <1>1 DEF IInv, TypeOK, Stages
  <2> QED
    BY <2>1, <1>1, <1>4 DEF IInv, TypeOK
<1>6. StageInv'
  BY <1>1, <1>2 DEF IInv, StageInv, TypeOK
<1>7. WgInv'
  <2>1. Unfinished' = Unfinished
    BY <1>1 DEF Unfinished, IInv, TypeOK
  <2> QED
    BY <2>1, <1>1 DEF IInv, WgInv
<1>8. ClosedInv'
  BY <1>1, <1>2 DEF IInv, ClosedInv, TypeOK, Finished
<1>9. OutInv'
  BY <1>1, <1>2, <1>3 DEF IInv, OutInv, TypeOK, Finished, Found
<1>10. RrsInv'
  BY <1>1, <1>2 DEF IInv, RrsInv
<1>11. ErrsInv'
  <2>1. \A v \in Types : pc'[v] = IF v = w THEN "return" ELSE pc[v]
    BY <1>1 DEF IInv, TypeOK
  <2>2. \A k \in 1..Len(errs) : errs[k] # w
    BY <1>1 DEF IInv, ErrsInv, Finished
  <2>3. \A k \in 1..Len(errs') :
            errs'[k] \in Asked /\ out[errs'[k]].err /\ pc'[errs'[k]] \in Finished
    <3> SUFFICES ASSUME NEW k \in 1..Len(errs')
                 PROVE  errs'[k] \in Asked /\ out[errs'[k]].err /\ pc'[errs'[k]] \in Finished
      OBVIOUS
    <3>1. CASE k = Len(errs) + 1
      BY <3>1, <2>1, <1>2, <1>3, <1>4 DEF Finished
    <3>2. CASE k \in 1..Len(errs)
      BY <3>2, <2>1, <1>2, <1>4 DEF IInv, ErrsInv, Finished
    <3> QED
      BY <3>1, <3>2, <1>4
  <2>4. \A v \in Asked : out[v].err /\ pc'[v] \in Finished =>
            \E k \in 1..Len(errs') : errs'[k] = v
    <3> SUFFICES ASSUME NEW v \in Asked, out[v].err, pc'[v] \in Finished
                 PROVE  \E k \in 1..Len(errs') : errs'[k] = v
      OBVIOUS
    <3>1. CASE v = w
      BY <3>1, <1>4
    <3>2. CASE v # w
      <4>1. PICK k \in 1..Len(errs) : errs[k] = v
        BY <3>2, <2>1, <1>2 DEF IInv, ErrsInv
      <4> QED
        BY <4>1, <1>4
    <3> QED
      BY <3>1, <3>2
  <2>5. \A k, l \in 1..Len(errs') : errs'[k] = errs'[l] => k = l
    BY <2>2, <1>4 DEF IInv, ErrsInv
  <2> QED
    BY <2>3, <2>4, <2>5, <1>1, <1>2 DEF ErrsInv
<1> QED
  BY <1>5, <1>6, <1>7, <1>8, <1>9, <1>10, <1>11 DEF IInv

-----------------------------------------------------------------------------
(* Every step preserves the invariant.                                     *)
LEMMA NextIInv ==
    ASSUME IInv, [Next]_vars
    PROVE  IInv'
<1>1. CASE alive /\ Closer
  BY <1>1, CloseStep
<1>2. CASE alive /\ Gather
  BY <1>2, ReceiveClosedStep DEF Gather
<1>3. ASSUME NEW w \in Types, alive, Worker(w)
      PROVE  IInv'
  BY <1>3, LookupStep, DoneStep, RecoverExitStep, ReceiveAnswerStep, ReceiveErrorStep
     DEF Worker, Return
<1>4. CASE UNCHANGED vars
  <2>1. UNCHANGED <<qtype, pc, out, sent, wg, rrs, errs>> /\ UNCHANGED <<closed, done, panicked, alive>>
    BY <1>4 DEF vars
  <2>2. TypeOK'
    BY <2>1 DEF IInv, TypeOK
  <2>3. ClosedInv'
    BY <2>1 DEF IInv, ClosedInv, Asked
  <2> QED
    BY <2>1, <2>2, <2>3, SameWorkers DEF IInv
<1> QED
  BY <1>1, <1>2, <1>3, <1>4 DEF Next, Step, Terminated

THEOREM Invariance == Spec => []IInv
<1>1. Init => IInv
  BY InitIInv
<1>2. IInv /\ [Next]_vars => IInv'
  BY NextIInv
<1> QED
  BY <1>1, <1>2, PTL DEF Spec

(* Type correctness, for every set of types and every bound.               *)
THEOREM TypeCorrect == Spec => []TypeOK
<1>1. IInv => TypeOK
  BY DEF IInv
<1> QED
  BY <1>1, Invariance, PTL

(* Once a channel is closed, everything has been gathered: every worker is *)
(* past its last send.                                                     *)
LEMMA CompleteOnceClosed ==
    ASSUME IInv, closed # {}
    PROVE  /\ \A w \in Asked : \A r \in AnswersOf(w) : \E k \in 1..Len(rrs) : rrs[k] = r
           /\ \A w \in Errors : \E k \in 1..Len(errs) : errs[k] = w
<1>1. \A w \in Asked : pc[w] \in Finished
  BY DEF IInv, ClosedInv
<1>2. ASSUME NEW w \in Asked, NEW r \in AnswersOf(w)
      PROVE  \E k \in 1..Len(rrs) : rrs[k] = r
  <2>1. sent[w] = out[w].n
    BY <1>1 DEF IInv, OutInv, Asked
  <2>2. PICK i \in 1..sent[w] : r = <<out[w].of, i>>
    BY <2>1, <1>2 DEF AnswersOf
  <2> QED
    BY <2>2 DEF IInv, RrsInv
<1>3. ASSUME NEW w \in Errors
      PROVE  \E k \in 1..Len(errs) : errs[k] = w
  BY <1>1 DEF IInv, ErrsInv, Errors
<1> QED
  BY <1>2, <1>3

(* What was sent is a part of what was found.                              *)
LEMMA ExactAlways ==
    ASSUME IInv
    PROVE  NothingInvented
<1>1. ASSUME NEW k \in 1..Len(rrs)
      PROVE  \E w \in Asked : rrs[k] \in AnswersOf(w)
  <2>1. PICK w \in Asked : rrs[k][1] = out[w].of /\ rrs[k][2] \in 1..sent[w]
    BY DEF IInv, RrsInv
  <2>2. w \in Types /\ sent[w] \in 0..MaxRecords /\ out[w].n \in 0..MaxRecords
    BY DEF IInv, TypeOK, Asked, Outcomes
  <2>3. sent[w] <= out[w].n
    <3>1. pc[w] \in Stages
      BY <2>2 DEF IInv, TypeOK
    <3>2. CASE pc[w] \in Finished
      BY <2>2, <3>2 DEF IInv, OutInv
    <3>3. CASE pc[w] = "answers"
      BY <2>2, <3>3, MaxRecordsAssumption DEF IInv, OutInv
    <3>4. CASE pc[w] \in {"off", "lookup", "cname", "error"}
      BY <2>2, <3>4, MaxRecordsAssumption DEF IInv, OutInv
    <3> QED
      BY <3>1, <3>2, <3>3, <3>4 DEF Stages, Finished
  <2>4. rrs[k] = <<out[w].of, rrs[k][2]>>
    <3>1. rrs[k] \in Records
      BY DEF IInv, TypeOK
    <3> QED
      BY <2>1, <3>1 DEF Records
  <2>5. rrs[k][2] \in 1..out[w].n
    BY <2>1, <2>2, <2>3, MaxRecordsAssumption
  <2> QED
    BY <2>4, <2>5 DEF AnswersOf
<1> QED
  BY <1>1 DEF IInv, RrsInv, ErrsInv, NothingInvented, Errors

(* When gatherFromChannels returns it has all the records and errors, even *)
(* if it counted the same closed channel twice: a channel is only closed   *)
(* once every worker is past its last send.                                *)
THEOREM DeliveryIsComplete == Spec => []NothingLost
<1>1. IInv => NothingLost
  BY CompleteOnceClosed DEF IInv, ClosedInv, NothingLost
<1> QED
  BY <1>1, Invariance, PTL

(* Nothing is gathered twice, out of its order or without being found.     *)
THEOREM DeliveryIsExact == Spec => []NothingInvented
<1>1. IInv => NothingInvented
  BY ExactAlways
<1> QED
  BY <1>1, Invariance, PTL

(* No goroutine ever sends on a closed channel.                            *)
THEOREM SendsAreSafe == Spec => []NoSendOnClosed
<1>1. ASSUME IInv, NEW w \in Types, pc[w] \in {"answers", "error"}
      PROVE  closed = {}
  BY <1>1 DEF IInv, StageInv, ClosedInv, Finished
<1>2. IInv => NoSendOnClosed
  BY <1>1 DEF NoSendOnClosed
<1> QED
  BY <1>2, Invariance, PTL

-----------------------------------------------------------------------------
(* The refinement of Answering. Until the loop ends the caller has nothing,*)
(* so that only a lookup's end and the loop's last step are visible.       *)
LEMMA RefinesInit == Init => Abstract!AInit
<1> SUFFICES ASSUME Init PROVE Abstract!AInit
  OBVIOUS
<1>1. \A w \in Types : pc[w] \in {"off", "lookup"} /\ (w \in Asked => pc[w] = "lookup")
  BY DEF Init
<1>2. decided = [w \in Types |-> [undecided |-> TRUE]]
  BY <1>1 DEF decided
<1>3. gathered = [none |-> TRUE]
  BY DEF Init, gathered
<1> QED
  BY <1>2, <1>3
  DEF Init, QTypes, Abstract!AInit, Abstract!QTypes, Abstract!Undecided, Abstract!NoReply

(* The end of a lookup decides an outcome, unless the CNAME comes next.    *)
LEMMA RefinesLookup ==
    ASSUME IInv, NEW w \in Types, Lookup(w)
    PROVE  Abstract!Decide(w) \/ UNCHANGED <<qtype, decided, gathered>>
<1>1. PICK o \in Outcomes, l \in {"cname", "answers", "error", "return"} : LookupEnds(w, o, l)
  BY LookupOutcome
<1>2. UNCHANGED <<qtype, done, rrs, errs>> /\ Asked' = Asked
  BY <1>1 DEF LookupEnds, Asked
<1>3. gathered' = gathered
  BY <1>2 DEF gathered, Values
<1>4. /\ pc'[w] = l /\ out'[w] = o /\ pc[w] \in {"lookup", "cname"}
      /\ \A v \in Types \ {w} : pc'[v] = pc[v] /\ out'[v] = out[v]
  BY <1>1 DEF LookupEnds, IInv, TypeOK
<1>5. w \in Asked
  BY <1>4 DEF IInv, StageInv
<1>6. decided[w] = [undecided |-> TRUE]
  BY <1>4 DEF decided
<1>7. CASE l = "cname"
  <2>1. decided' = decided
    BY <1>2, <1>4, <1>7 DEF decided
  <2> QED
    BY <2>1, <1>2, <1>3
<1>8. CASE l # "cname"
  <2>1. decided' = [decided EXCEPT ![w] = o]
    BY <1>2, <1>4, <1>5, <1>8 DEF decided
  <2>2. o \in Abstract!Legal(qtype, w)
    BY <1>1, TypesAssumption
    DEF LookupEnds, Single, Outcomes, Abstract!Legal, Abstract!Outcomes
  <2> QED
    BY <2>1, <2>2, <1>2, <1>3, <1>5, <1>6
    DEF Asked, Abstract!Decide, Abstract!AskedBy, Abstract!Undecided
<1> QED
  BY <1>7, <1>8

(* The step that counts the second closed channel is the reply.            *)
LEMMA RefinesReply ==
    ASSUME IInv, NEW c \in Channels, ReceiveClosed(c)
    PROVE  Abstract!Reply \/ UNCHANGED <<qtype, decided, gathered>>
<1>1. /\ done \in {0, 1} /\ done' = done + 1
      /\ UNCHANGED <<qtype, pc, out, sent, wg, closed, rrs, errs, panicked, alive>>
      /\ closed # {}
  BY DEF ReceiveClosed, Gathering, IInv, TypeOK
<1>2. Asked' = Asked
  BY <1>1 DEF Asked
<1>3. decided' = decided
  BY <1>1, <1>2 DEF decided
<1>4. CASE done = 0
  <2>1. gathered' = gathered
    BY <1>1, <1>4 DEF gathered
  <2> QED
    BY <2>1, <1>1, <1>3
<1>5. CASE done = 1
  <2>1. \A w \in Asked : decided[w] = out[w] /\ out[w] \in Outcomes
    BY <1>1 DEF IInv, TypeOK, ClosedInv, Asked, Finished, decided
  <2>2. Values(rrs) = UNION {AnswersOf(w) : w \in Asked}
    BY <1>1, CompleteOnceClosed, ExactAlways DEF NothingInvented, Values
  <2>3. Values(errs) = Errors
    BY <1>1, CompleteOnceClosed, ExactAlways DEF NothingInvented, Values
  <2>4. gathered = Abstract!NoReply
    BY <1>5 DEF gathered, Abstract!NoReply
  <2>5. gathered' = [answers |-> Values(rrs), errors |-> Values(errs)]
    BY <1>1, <1>5 DEF gathered, Values
  <2>6. Abstract!AskedBy(qtype) = Asked
    BY DEF Asked, Abstract!AskedBy
  <2>7. \A w \in Asked : decided[w] # Abstract!Undecided
    BY <2>1 DEF Outcomes, Abstract!Undecided
  <2>8. UNION {AnswersOf(w) : w \in Asked}
          = UNION {Abstract!RecordsOf(decided[w]) : w \in Asked}
    BY <2>1 DEF AnswersOf, Abstract!RecordsOf
  <2>9. Errors = {w \in Asked : decided[w].err}
    BY <2>1 DEF Errors
  <2> QED
    BY <2>2, <2>3, <2>4, <2>5, <2>6, <2>7, <2>8, <2>9, <1>1, <1>3 DEF Abstract!Reply
<1> QED
  BY <1>1, <1>4, <1>5

(* The other steps move records and close channels: the caller sees none.  *)
LEMMA RefinesOther ==
    ASSUME IInv, NEW w \in Types,
           Closer \/ ReceiveAnswer(w) \/ ReceiveError(w) \/ Return(w)
    PROVE  UNCHANGED <<qtype, decided, gathered>>
<1>1. CASE Closer
  <2>1. UNCHANGED <<qtype, pc, out, done, rrs, errs>>
    BY <1>1 DEF Closer, CloseAnswers, CloseErrors
  <2>2. decided' = decided /\ gathered' = gathered
    BY <2>1 DEF decided, gathered, Values, Asked
  <2> QED
    BY <2>1, <2>2
<1>2. CASE ReceiveAnswer(w) \/ ReceiveError(w) \/ Return(w)
  <2>1. /\ UNCHANGED <<qtype, out, done>>
        /\ pc[w] \notin {"lookup", "cname"} /\ pc'[w] \notin {"lookup", "cname"}
        /\ \A v \in Types \ {w} : pc'[v] = pc[v]
    BY <1>2 DEF ReceiveAnswer, ReceiveError, Return, Done, Recover, Exit, IInv, TypeOK
  <2>2. decided' = decided
    BY <2>1 DEF decided, Asked
  <2>3. gathered' = gathered
    <3>1. done = 2 => UNCHANGED <<rrs, errs>>
      BY <1>2 DEF ReceiveAnswer, ReceiveError, Return, Done, Recover, Exit, Gathering
    <3> QED
      BY <3>1, <2>1 DEF gathered, Values
  <2> QED
    BY <2>1, <2>2, <2>3
<1> QED
  BY <1>1, <1>2

(* The goroutines, the WaitGroup and the two channels implement the one    *)
(* reply that Answering promises, for every set of types and every bound.  *)
THEOREM Refinement == Spec => ImplementsAnswering
<1>1. Init => Abstract!AInit
  BY RefinesInit
<1>2. IInv /\ [Next]_vars => [Abstract!ANext]_<<qtype, decided, gathered>>
  <2> SUFFICES ASSUME IInv, [Next]_vars
               PROVE  Abstract!ANext \/ UNCHANGED <<qtype, decided, gathered>>
    OBVIOUS
  <2>1. CASE UNCHANGED vars
    BY <2>1 DEF vars, decided, gathered, Asked, Values
  <2>2. CASE Closer
    BY <2>2, RefinesOther, TypesAssumption
  <2>3. CASE Gather
    BY <2>3, RefinesReply DEF Gather, Abstract!ANext
  <2>4. ASSUME NEW w \in Types, Worker(w)
        PROVE  Abstract!ANext \/ UNCHANGED <<qtype, decided, gathered>>
    BY <2>4, RefinesLookup, RefinesOther DEF Worker, Abstract!ANext
  <2> QED
    BY <2>1, <2>2, <2>3, <2>4 DEF Next, Step, Terminated
<1> QED
  BY <1>1, <1>2, Invariance, PTL DEF Spec, ImplementsAnswering, Abstract!ASpec, Abstract!avars

-----------------------------------------------------------------------------
(* That a question ends takes fairness, which is not proved about here;    *)
(* what fairness rests on is: whatever state is reached, some goroutine can*)
(* go on or all are done, and there are only so many steps to take.        *)

(* A single worker exits through its deferred closes, and the channels of  *)
(* an unknown type are closed from the start.                              *)
DeferInv ==
    /\ Single /\ pc[qtype] = "exited" => closed = Channels
    /\ qtype = UNKNOWN => closed = Channels

(* The deferred calls run in their order, and no channel is opened again.  *)
LEMMA DeferStep ==
    ASSUME IInv, DeferInv, [Next]_vars
    PROVE  DeferInv'
<1>1. qtype' = qtype /\ (closed = Channels => closed' = Channels)
  <2>1. CASE alive /\ Closer
    BY <2>1 DEF Closer, CloseAnswers, CloseErrors, Channels
  <2>2. CASE alive /\ Gather
    BY <2>2 DEF Gather, ReceiveClosed
  <2>3. ASSUME NEW w \in Types, Worker(w)  PROVE UNCHANGED <<qtype, closed>>
    BY <2>3 DEF Worker, Lookup, LookupOK, LookupFails, CnameOK, CnameFails, Panic, Goto,
                ReceiveAnswer, ReceiveError, Return, Done, Recover, Exit
  <2>4. CASE UNCHANGED vars
    BY <2>4 DEF vars
  <2> QED
    BY <2>1, <2>2, <2>3, <2>4 DEF Next, Step, Terminated
<1>2. ASSUME Single, pc'[qtype] = "exited", pc[qtype] # "exited"  PROVE closed = Channels
  <2>1. /\ qtype \in Types
        /\ pc \in [Types -> Stages]
    BY <1>2 DEF Single, IInv, TypeOK
  <2>2. PICK w \in Types : Worker(w)
    BY <1>2 DEF Next, Step, Closer, CloseAnswers, CloseErrors, Gather, ReceiveClosed, Terminated, vars
  <2>3. CASE Lookup(w)
    <3>1. PICK o \in Outcomes, l \in {"cname", "answers", "error", "return"} : LookupEnds(w, o, l)
      BY <2>3, LookupOutcome
    <3> QED
      BY <3>1, <1>2, <2>1 DEF LookupEnds
  <2>4. CASE ReceiveAnswer(w)
    BY <2>4, <1>2, <2>1 DEF ReceiveAnswer
  <2>5. CASE ReceiveError(w)
    BY <2>5, <1>2, <2>1 DEF ReceiveError
  <2>6. CASE Return(w)
    BY <2>6, <1>2, <2>1 DEF Return, Done, Recover, Exit
  <2> QED
    BY <2>2, <2>3, <2>4, <2>5, <2>6 DEF Worker
<1> QED
  BY <1>1, <1>2 DEF DeferInv, Single

-----------------------------------------------------------------------------
(* The guards: of a worker, of the closes and of the gathering loop. A     *)
(* worker that sends needs the loop as its receiver.                       *)
CanLookup(w) == pc[w] \in {"lookup", "cname"}
CanSend(w)   == pc[w] \in {"answers", "error"} /\ Gathering
CanReturn(w) ==
    \/ pc[w] = "return" /\ (Single => closed = Channels)
    \/ pc[w] \in {"recover", "exit"}
CanClose     == closed = {"answers"} \/ (closed = {} /\ MayClose)
CanCount     == Gathering /\ closed # {}

NobodyIsStuck ==
    alive => \/ Exited /\ done = 2
             \/ CanClose
             \/ CanCount
             \/ \E w \in Asked : CanLookup(w) \/ CanSend(w) \/ CanReturn(w)

(* Senders, closer and loop never wait for each other in a circle, though  *)
(* the loop may stop before the second channel is closed: whatever the     *)
(* types and the order of events, someone can go on until all are done.    *)
THEOREM NoDeadlock == Spec => []NobodyIsStuck
<1>1. Init => DeferInv
  BY TypesAssumption DEF Init, DeferInv, Single, Asked
<1>2. ASSUME IInv, DeferInv, ~CanClose, ~CanCount,
             \A w \in Asked : ~CanLookup(w) /\ ~CanSend(w) /\ ~CanReturn(w)
      PROVE  Exited /\ done = 2
  <2>1. Asked \subseteq Types /\ closed \subseteq Channels /\ done \in 0..2
        /\ \A w \in Asked : pc[w] \in Stages \ {"off"}
    BY <1>2 DEF Asked, IInv, TypeOK, StageInv
  <2>2. CASE closed # {}
    <3>1. done = 2 /\ closed = Channels
      <4>1. done = 2
        BY <2>1, <2>2, <1>2 DEF CanCount, Gathering
      <4>2. "errors" \in closed => "answers" \in closed
        BY <1>2 DEF IInv, ClosedInv
      <4>3. closed # {"answers"}
        BY <1>2 DEF CanClose
      <4>4. \A c \in closed : c \in {"answers", "errors"}
        BY <2>1 DEF Channels
      <4>5. "answers" \in closed /\ "errors" \in closed
        BY <2>2, <4>2, <4>3, <4>4
      <4> QED
        BY <4>1, <4>4, <4>5 DEF Channels
    <3>2. \A w \in Asked : pc[w] = "exited"
      BY <2>2, <3>1, <1>2 DEF CanReturn, IInv, ClosedInv, Finished
    <3> QED
      BY <3>1, <3>2 DEF Exited
  <2>3. CASE closed = {}
    <3>1. Gathering
      BY <2>1, <2>3, <1>2 DEF Gathering, IInv, ClosedInv
    <3>2. \A w \in Asked : pc[w] \in {"return", "exited"}
      BY <2>1, <3>1, <1>2 DEF CanLookup, CanSend, CanReturn, Stages
    <3>3. ~MayClose
      BY <2>3, <1>2 DEF CanClose
    <3>4. CASE Single
      BY <3>2, <3>3, <3>4, <2>3, <1>2 DEF MayClose, DeferInv, Single, Asked, Channels
    <3>5. CASE qtype = ANY
      <4>1. ~Single /\ Unfinished # {}
        BY <3>3, <3>5, <1>2, UnfinishedCount, TypesAssumption DEF MayClose, Single, IInv, WgInv
      <4>2. PICK w \in Asked : pc[w] = "return"
        BY <4>1, <3>2, <3>5 DEF Unfinished, Asked
      <4> QED
        BY <4>1, <4>2, <1>2 DEF CanReturn
    <3> QED
      BY <3>4, <3>5, <2>3, <1>2 DEF IInv, TypeOK, QTypes, Single, DeferInv, Channels
  <2> QED
    BY <2>2, <2>3
<1>3. IInv /\ DeferInv => NobodyIsStuck
  BY <1>2 DEF NobodyIsStuck
<1> QED
  BY <1>1, <1>3, DeferStep, Invariance, PTL DEF Spec

-----------------------------------------------------------------------------
(* How many steps a worker can take at most.                               *)
StepsLeft(w) ==
    CASE pc[w] = "lookup"  -> MaxRecords + 6
      [] pc[w] = "cname"   -> MaxRecords + 5
      [] pc[w] = "answers" -> out[w].n - sent[w] + 3
      [] pc[w] = "error"   -> 4
      [] pc[w] = "return"  -> 3
      [] pc[w] = "recover" -> 2
      [] pc[w] = "exit"    -> 1
      [] OTHER             -> 0

(* Every step that changes anything takes one of the steps that are left,  *)
(* of a worker, of the two closes or of the two receives the loop counts,  *)
(* and gives none back.                                                    *)
Progress ==
    /\ closed \subseteq closed' /\ done <= done'
    /\ \A w \in Types : StepsLeft(w)' <= StepsLeft(w)
    /\ \/ closed # closed'
       \/ done < done'
       \/ \E w \in Types : StepsLeft(w)' < StepsLeft(w)

(* A worker has a number of steps left.                                    *)
LEMMA StepsAreNumbers == IInv => \A w \in Types : StepsLeft(w) \in Int
BY MaxRecordsAssumption DEF StepsLeft, IInv, TypeOK, Outcomes

(* The step of a worker takes one of its own steps and touches no other.   *)
LEMMA WorkerProgress ==
    ASSUME IInv, IInv', NEW w \in Types, Worker(w)
    PROVE  Progress
<1>1. /\ MaxRecords \in Nat /\ sent[w] \in Nat /\ out[w].n \in 0..MaxRecords
  BY MaxRecordsAssumption DEF IInv, TypeOK, Outcomes
<1>2. SUFFICES /\ UNCHANGED <<closed, done>>
               /\ \A v \in Types \ {w} : StepsLeft(v)' = StepsLeft(v)
               /\ StepsLeft(w)' < StepsLeft(w)
  <2>1. done \in Int
    BY DEF IInv, TypeOK
  <2>2. \A v \in Types : StepsLeft(v) \in Int
    BY StepsAreNumbers
  <2>3. \A v \in Types : StepsLeft(v)' \in Int
    BY MaxRecordsAssumption DEF StepsLeft, IInv, TypeOK, Outcomes
  <2>4. \A v \in Types : StepsLeft(v)' <= StepsLeft(v)
    BY <1>2, <2>2, <2>3
  <2> QED
    BY <1>2, <2>1, <2>4 DEF Progress
<1>3. CASE Lookup(w)
  <2>1. PICK o \in Outcomes, l \in {"cname", "answers", "error", "return"} : LookupEnds(w, o, l)
    BY <1>3, LookupOutcome
  <2>2. o.n \in 0..MaxRecords /\ sent[w] = 0
    BY <2>1 DEF Outcomes, LookupEnds, IInv, OutInv
  <2>3. /\ UNCHANGED <<closed, done, sent>> /\ pc'[w] = l /\ out'[w] = o
        /\ \A v \in Types \ {w} : pc'[v] = pc[v] /\ out'[v] = out[v]
    BY <2>1 DEF LookupEnds, IInv, TypeOK
  <2>4. \A v \in Types \ {w} : StepsLeft(v)' = StepsLeft(v)
    BY <2>3 DEF StepsLeft
  <2>5. l = "cname" => pc[w] = "lookup"
    BY <1>3, <2>3 DEF Lookup, LookupOK, LookupFails, CnameOK, CnameFails, Panic, Goto, IInv, TypeOK
  <2>6. StepsLeft(w)' < StepsLeft(w)
    <3>1. pc[w] \in {"lookup", "cname"}
      BY <2>1 DEF LookupEnds
    <3>2. StepsLeft(w) >= MaxRecords + 5 /\ (pc[w] = "lookup" => StepsLeft(w) = MaxRecords + 6)
      BY <1>1, <3>1 DEF StepsLeft
    <3>3. CASE l = "cname"
      BY <1>1, <2>3, <2>5, <3>2, <3>3 DEF StepsLeft
    <3>4. CASE l = "answers"
      BY <1>1, <2>2, <2>3, <3>2, <3>4 DEF StepsLeft
    <3>5. CASE l \in {"error", "return"}
      BY <1>1, <2>3, <3>2, <3>5 DEF StepsLeft
    <3> QED
      BY <3>3, <3>4, <3>5
  <2> QED
    BY <2>3, <2>4, <2>6
<1>4. CASE ReceiveAnswer(w)
  <2>1. /\ pc[w] = "answers" /\ sent'[w] = sent[w] + 1 /\ UNCHANGED <<closed, done, out>>
        /\ pc'[w] = IF sent[w] + 1 = out[w].n THEN "return" ELSE "answers"
        /\ \A v \in Types \ {w} : pc'[v] = pc[v] /\ sent'[v] = sent[v]
    BY <1>4 DEF ReceiveAnswer, IInv, TypeOK
  <2>2. sent[w] < out[w].n
    BY <2>1 DEF IInv, OutInv
  <2>3. \A v \in Types \ {w} : StepsLeft(v)' = StepsLeft(v)
    BY <2>1 DEF StepsLeft
  <2>4. StepsLeft(w)' < StepsLeft(w)
    BY <1>1, <2>1, <2>2 DEF StepsLeft
  <2> QED
    BY <2>1, <2>3, <2>4
<1>5. CASE ReceiveError(w) \/ Return(w)
  <2>1. /\ UNCHANGED <<closed, done, out, sent>>
        /\ \/ pc[w] = "error" /\ pc'[w] = "return"
           \/ pc[w] = "return" /\ pc'[w] \in {"recover", "exited"}
           \/ pc[w] = "recover" /\ pc'[w] = "exit"
           \/ pc[w] = "exit" /\ pc'[w] = "exited"
        /\ \A v \in Types \ {w} : pc'[v] = pc[v]
    BY <1>5 DEF ReceiveError, Return, Done, Recover, Exit, IInv, TypeOK
  <2>2. \A v \in Types \ {w} : StepsLeft(v)' = StepsLeft(v)
    BY <2>1 DEF StepsLeft
  <2>3. StepsLeft(w)' < StepsLeft(w)
    BY <2>1 DEF StepsLeft
  <2> QED
    BY <2>1, <2>2, <2>3
<1> QED
  BY <1>3, <1>4, <1>5 DEF Worker

(* A question takes at most as many steps as its workers have at the       *)
(* start, and four more: no panic, no error and no order of events makes   *)
(* the loop count, the closer close or a worker send without end.          *)
THEOREM QuestionIsFinite == Spec => [][Progress]_vars
<1>1. ASSUME IInv, [Next]_vars  PROVE [Progress]_vars
  <2>1. ASSUME UNCHANGED <<pc, out, sent>>,
               \/ done' = done /\ closed \subseteq closed' /\ closed # closed'
               \/ closed' = closed /\ done' = done + 1
        PROVE  Progress
    <3>1. \A v \in Types : StepsLeft(v)' = StepsLeft(v)
      BY <2>1 DEF StepsLeft
    <3>2. \A v \in Types : StepsLeft(v)' <= StepsLeft(v)
      BY <1>1, <3>1, StepsAreNumbers
    <3>3. done \in Int /\ done <= done' /\ (done < done' \/ closed # closed')
      BY <1>1, <2>1 DEF IInv, TypeOK
    <3> QED
      BY <2>1, <3>2, <3>3 DEF Progress
  <2>2. CASE Closer
    BY <2>1, <2>2 DEF Closer, CloseAnswers, CloseErrors, Channels
  <2>3. CASE Gather
    BY <2>1, <2>3 DEF Gather, ReceiveClosed
  <2>4. IInv'
    BY <1>1, NextIInv
  <2> QED
    BY <1>1, <2>2, <2>3, <2>4, WorkerProgress DEF Next, Step, Terminated
<1> QED
  BY <1>1, Invariance, PTL DEF Spec
=============================================================================
