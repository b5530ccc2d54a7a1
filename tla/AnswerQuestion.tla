--------------------------- MODULE AnswerQuestion ---------------------------
(***************************************************************************)
(* The goroutines behind one question (resolver.go, AnswerQuestion) and    *)
(* the loop that collects what they send (gatherFromChannels).             *)
(*                                                                         *)
(* A question for ANY starts one worker per record type, and a closer that *)
(* waits for all of them on a WaitGroup and closes the two channels. A     *)
(* question for one type starts one worker, which closes the channels in   *)
(* its deferred call; a type without a converter has them closed at once.  *)
(* The channels are unbuffered: a send and the receive that takes it are   *)
(* one step.                                                               *)
(***************************************************************************)
EXTENDS Integers, Sequences, FiniteSets

CONSTANTS
    Types,          \* the record types with a converter
    CNAME,          \* the one a question for a single type falls back to
    ANY, UNKNOWN,     \* the ANY query type, and a type without a converter
    MaxRecords,     \* bound: the records one lookup returns
    LookupMayPanic  \* whether a lookup may panic (an etcd reply without a node)

ASSUME TypesAssumption ==
    /\ IsFiniteSet(Types)
    /\ CNAME \in Types
    /\ ANY \notin Types
    /\ UNKNOWN \notin Types
    /\ ANY # UNKNOWN

ASSUME MaxRecordsAssumption == MaxRecords \in Nat
ASSUME PanicAssumption == LookupMayPanic \in BOOLEAN

VARIABLES
    qtype,      \* q.Qtype
    pc,         \* where the worker of each type stands
    out,        \* the result of the worker's lookup
    sent,       \* how many of its records a worker has sent
    wg,         \* the counter of the WaitGroup
    closed,     \* which of the channels "answers" and "errors" are closed
    done,       \* gatherFromChannels: closed channels seen
    rrs,        \* gatherFromChannels: the records received
    errs,       \* gatherFromChannels: the errors received
    panicked,   \* the workers in which a panic is on its way up
    alive       \* FALSE once a panic nobody recovered has ended the process

vars == <<qtype, pc, out, sent, wg, closed, done, rrs, errs, panicked, alive>>

-----------------------------------------------------------------------------
QTypes   == Types \union {ANY, UNKNOWN}
Channels == {"answers", "errors"}
Outcomes == [of : Types, n : 0..MaxRecords, err : BOOLEAN]
Records  == Types \X (1..MaxRecords)
Stages   == {"off", "lookup", "cname", "answers", "error", "return", "recover", "exit", "exited"}

(* The workers the question starts. *)
Asked  == IF qtype = ANY THEN Types ELSE {qtype} \intersect Types
Single == qtype \in Types

Found(t, n) == [of |-> t, n |-> n, err |-> FALSE]
Failed(t)   == [of |-> t, n |-> 0, err |-> TRUE]

(* The state when AnswerQuestion returns: every goroutine is started. *)
Init ==
    /\ qtype \in QTypes
    /\ pc = [w \in Types |-> IF w \in Asked THEN "lookup" ELSE "off"]
    /\ out = [w \in Types |-> Found(w, 0)]
    /\ sent = [w \in Types |-> 0]
    /\ wg = IF qtype = ANY THEN Cardinality(Types) ELSE 0
    /\ closed = IF qtype = UNKNOWN THEN Channels ELSE {}
    /\ done = 0
    /\ rrs = <<>>
    /\ errs = <<>>
    /\ panicked = {}
    /\ alive = TRUE

-----------------------------------------------------------------------------
(* The worker of type w. *)

(* A worker goes from its lookup to l with outcome o. *)
Goto(w, l, o) ==
    /\ pc' = [pc EXCEPT ![w] = l]
    /\ out' = [out EXCEPT ![w] = o]
    /\ UNCHANGED <<qtype, sent, wg, closed, done, rrs, errs, panicked, alive>>

(* Mutant: the goroutines share the loop variable rrType. *)
LookupOK_SharedLoopVariable(w) ==
    /\ pc[w] = "lookup"
    /\ \E n \in 0..MaxRecords, t \in Asked :
        LET next == IF n > 0 THEN "answers" ELSE IF Single THEN "cname" ELSE "return"
        IN  Goto(w, next, Found(t, n))

(* Without records, a question for one type tries the CNAME of the name. *)
LookupOK(w) ==
    /\ pc[w] = "lookup"
    /\ \E n \in 0..MaxRecords :
        LET next == IF n > 0 THEN "answers" ELSE IF Single THEN "cname" ELSE "return"
        IN  Goto(w, next, Found(w, n))

LookupFails(w) == pc[w] = "lookup" /\ Goto(w, "error", Failed(w))

(* Mutant: every CNAME found is sent. *)
CnameOK_SendsAll(w) ==
    /\ pc[w] = "cname"
    /\ \E n \in 0..MaxRecords :
        \/ n = 0 /\ Goto(w, "return", Found(CNAME, 0))
        \/ n > 0 /\ Goto(w, "answers", Found(CNAME, n))

(* Two CNAME records for one name are an error, and none of them is sent. *)
CnameOK(w) ==
    /\ pc[w] = "cname"
    /\ \E n \in 0..MaxRecords :
        \/ n = 0 /\ Goto(w, "return", Found(CNAME, 0))
        \/ n = 1 /\ Goto(w, "answers", Found(CNAME, 1))
        \/ n > 1 /\ Goto(w, "error", Failed(CNAME))

CnameFails(w) == pc[w] = "cname" /\ Goto(w, "error", Failed(CNAME))

(* A panic of the lookup goes straight to the deferred calls. *)
Panic(w) ==
    /\ LookupMayPanic
    /\ pc[w] \in {"lookup", "cname"}
    /\ pc' = [pc EXCEPT ![w] = "return"]
    /\ panicked' = panicked \union {w}
    /\ UNCHANGED <<qtype, out, sent, wg, closed, done, rrs, errs, alive>>

(* The deferred calls of a worker of an ANY question, the last one first:  *)
(* wg.Done(), then recover(), which stops a panic.                         *)

(* Mutants: a single worker calls wg.Done() too; wg.Done() is not deferred,*)
(* so that a panic skips it.                                               *)
Done_SingleToo(w) ==
    /\ pc[w] = "return"
    /\ pc' = [pc EXCEPT ![w] = "recover"]
    /\ wg' = wg - 1
    /\ UNCHANGED <<qtype, out, sent, closed, done, rrs, errs, panicked, alive>>

Done_NotDeferred(w) ==
    /\ pc[w] = "return"
    /\ ~Single
    /\ pc' = [pc EXCEPT ![w] = "recover"]
    /\ wg' = IF w \in panicked THEN wg ELSE wg - 1
    /\ UNCHANGED <<qtype, out, sent, closed, done, rrs, errs, panicked, alive>>

Done(w) ==
    /\ pc[w] = "return"
    /\ ~Single
    /\ pc' = [pc EXCEPT ![w] = "recover"]
    /\ wg' = wg - 1
    /\ UNCHANGED <<qtype, out, sent, closed, done, rrs, errs, panicked, alive>>

Recover(w) ==
    /\ pc[w] = "recover"
    /\ pc' = [pc EXCEPT ![w] = "exit"]
    /\ panicked' = panicked \ {w}
    /\ UNCHANGED <<qtype, out, sent, wg, closed, done, rrs, errs, alive>>

(* The goroutine of a worker ends, that of a single type after the closes  *)
(* below; a panic that is not stopped by then ends the process.            *)
Exit(w) ==
    /\ pc[w] = IF Single THEN "return" ELSE "exit"
    /\ Single => closed = Channels
    /\ pc' = [pc EXCEPT ![w] = "exited"]
    /\ alive' = (w \notin panicked)
    /\ UNCHANGED <<qtype, out, sent, wg, closed, done, rrs, errs, panicked>>

Return(w) == Done(w) \/ Recover(w) \/ Exit(w)

Lookup(w) == LookupOK(w) \/ LookupFails(w) \/ CnameOK(w) \/ CnameFails(w) \/ Panic(w)

-----------------------------------------------------------------------------
(* Mutant: wg.Done() is called after the lookup, before the sends. *)
MayClose_DoneBeforeSends ==
    IF Single THEN pc[qtype] = "return" ELSE \A w \in Asked : pc[w] # "lookup"

(* Closing the channels: by the closer of an ANY question once wg.Wait()   *)
(* returns, by the deferred call of a single worker.                       *)
MayClose == IF Single THEN pc[qtype] = "return" ELSE wg = 0

CloseAnswers ==
    /\ MayClose
    /\ closed = {}
    /\ closed' = {"answers"}
    /\ UNCHANGED <<qtype, pc, out, sent, wg, done, rrs, errs, panicked, alive>>

CloseErrors ==
    /\ closed = {"answers"}
    /\ closed' = Channels
    /\ UNCHANGED <<qtype, pc, out, sent, wg, done, rrs, errs, panicked, alive>>

-----------------------------------------------------------------------------
(* gatherFromChannels. A closed channel stays ready, so that the loop may  *)
(* see the same one closed twice.                                          *)
Gathering == done < 2

ReceiveAnswer(w) ==
    /\ pc[w] = "answers"
    /\ Gathering
    /\ sent' = [sent EXCEPT ![w] = sent[w] + 1]
    /\ rrs' = Append(rrs, <<out[w].of, sent[w] + 1>>)
    /\ pc' = [pc EXCEPT ![w] = IF sent[w] + 1 = out[w].n THEN "return" ELSE "answers"]
    /\ UNCHANGED <<qtype, out, wg, closed, done, errs, panicked, alive>>

(* Mutant: the first error ends the loop. *)
ReceiveError_Stops(w) ==
    /\ pc[w] = "error"
    /\ Gathering
    /\ errs' = Append(errs, w)
    /\ pc' = [pc EXCEPT ![w] = "return"]
    /\ done' = 2
    /\ UNCHANGED <<qtype, out, sent, wg, closed, rrs, panicked, alive>>

ReceiveError(w) ==
    /\ pc[w] = "error"
    /\ Gathering
    /\ errs' = Append(errs, w)
    /\ pc' = [pc EXCEPT ![w] = "return"]
    /\ UNCHANGED <<qtype, out, sent, wg, closed, done, rrs, panicked, alive>>

ReceiveClosed(c) ==
    /\ c \in closed
    /\ Gathering
    /\ done' = done + 1
    /\ UNCHANGED <<qtype, pc, out, sent, wg, closed, rrs, errs, panicked, alive>>

-----------------------------------------------------------------------------
Worker(w) == Lookup(w) \/ ReceiveAnswer(w) \/ ReceiveError(w) \/ Return(w)
Closer    == CloseAnswers \/ CloseErrors
Gather    == \E c \in Channels : ReceiveClosed(c)

Exited     == closed = Channels /\ \A w \in Asked : pc[w] = "exited"
Terminated == ((Exited /\ done = 2) \/ ~alive) /\ UNCHANGED vars

Step == Closer \/ Gather \/ \E w \in Types : Worker(w)
Next == (alive /\ Step) \/ Terminated

(* The scheduler runs every goroutine that can go on, and etcd answers or  *)
(* refuses every request.                                                  *)
Fairness ==
    /\ \A w \in Types : WF_vars(alive /\ Worker(w))
    /\ WF_vars(alive /\ Closer)
    /\ WF_vars(alive /\ Gather)

Spec == Init /\ [][Next]_vars /\ Fairness

-----------------------------------------------------------------------------
TypeOK ==
    /\ qtype \in QTypes
    /\ pc \in [Types -> Stages]
    /\ out \in [Types -> Outcomes]
    /\ sent \in [Types -> 0..MaxRecords]
    /\ wg \in 0..Cardinality(Types)
    /\ closed \in SUBSET Channels
    /\ done \in 0..2
    /\ rrs \in Seq(Records)
    /\ errs \in Seq(Types)
    /\ panicked \in SUBSET Types
    /\ alive \in BOOLEAN

(* What worker w contributes to the answers and the errors. *)
AnswersOf(w) == {<<out[w].of, i>> : i \in 1..out[w].n}
Errors       == {w \in Asked : out[w].err}

(* When gatherFromChannels returns, although it may have counted one       *)
(* channel twice, it has every record of every lookup that found some and  *)
(* an error for every lookup that failed, each of them once.               *)
NothingLost ==
    done = 2 =>
        /\ \A w \in Asked : \A r \in AnswersOf(w) : \E k \in 1..Len(rrs) : rrs[k] = r
        /\ \A w \in Errors : \E k \in 1..Len(errs) : errs[k] = w

(* At any moment what was gathered is what the lookups found, no record    *)
(* twice, the records of one type in the order of the storage; and an      *)
(* error is received once, from a worker whose lookup failed.              *)
NothingInvented ==
    /\ \A k \in 1..Len(rrs) : \E w \in Asked : rrs[k] \in AnswersOf(w)
    /\ \A k, l \in 1..Len(rrs) :
        k < l /\ rrs[k][1] = rrs[l][1] => rrs[k][2] < rrs[l][2]
    /\ \A k \in 1..Len(errs) : errs[k] \in Errors
    /\ \A k, l \in 1..Len(errs) : errs[k] = errs[l] => k = l

(* No worker is about to send on a channel that is closed already: Go      *)
(* panics there, and for ANY recover() would drop the record silently.     *)
NoSendOnClosed ==
    \A w \in Types :
        /\ pc[w] = "answers" => "answers" \notin closed
        /\ pc[w] = "error" => "errors" \notin closed

(* The comment on gatherFromChannels: "Waits for the channels to be closed *)
(* before returning" (resolver.go:211). Not so: see the README.            *)
WaitsForClose == done = 2 => closed = Channels

(* The process may end only for a question of a single type, whose worker  *)
(* has no recover(): a panic of one worker of an ANY question must neither *)
(* end the process nor keep the others, the closer or the caller waiting.  *)
Crashed == Single /\ ~alive

(* The caller is answered: nobody waits on the channels for ever.          *)
QuestionReturns == <>(done = 2 \/ Crashed)

(* No goroutine of the question is left behind, blocked on a send nobody   *)
(* receives or on the WaitGroup.                                           *)
NoGoroutineLeaks == <>[](Exited \/ Crashed)

-----------------------------------------------------------------------------
(* The goroutines and channels implement the one-step reply of Answering.  *)
Values(s) == {s[k] : k \in 1..Len(s)}

decided == [w \in Types |->
    IF w \in Asked /\ pc[w] \notin {"lookup", "cname"} THEN out[w] ELSE [undecided |-> TRUE]]
gathered == IF done = 2 THEN [answers |-> Values(rrs), errors |-> Values(errs)]
                        ELSE [none |-> TRUE]

Abstract == INSTANCE Answering WITH outcome <- decided, reply <- gathered

ImplementsAnswering == Abstract!ASpec
=============================================================================
