-------------------------- MODULE EtcdClientProofs --------------------------
(* What EtcdClient guarantees for every cluster, list and set of requests. *)
EXTENDS EtcdClient, TLAPS

(* Until the list is known no request has been sent.                       *)
SyncInv == syncing > 0 => \A r \in Requests : at[r] = "idle"

(* A request that has not ended may have one more failure; attempt lags    *)
(* behind the exchanges, by two while the leader is about to be changed.   *)
RetryInv ==
    \A r \in Requests :
        /\ at[r] = "idle" => numReqs[r] = 1 /\ failures[r] = 0 /\ ~redirected[r] /\ attempt[r] = 0
        /\ at[r] # "done" => failures[r] < numReqs[r] /\ failures[r] <= Limit - 2
        /\ failures[r] <= Limit - 1
        /\ numReqs[r] <= Limit
        /\ attempt[r] < numReqs[r]
        /\ at[r] = "switch" => attempt[r] + 1 < numReqs[r]

IInv == TypeOK /\ SyncInv /\ RetryInv

-----------------------------------------------------------------------------
(* A nonempty list has a first element, and a length that is not zero.     *)
LEMMA ListFacts ==
    ASSUME NEW S, NEW list \in Seq(S) \ {<<>>}
    PROVE  /\ Len(list) \in Nat \ {0}
           /\ 1 \in 1..Len(list)
           /\ \A i \in 1..Len(list) : list[i] \in S
  OBVIOUS

(* The index switchLeader takes is one of the list, however many attempts  *)
(* there were.                                                             *)
LEMMA IndexInList ==
    ASSUME NEW a \in Nat, NEW n \in Nat \ {0}
    PROVE  1 + (a % n) \in 1..n
  OBVIOUS

(* At the start every address is one of the configured list, and no        *)
(* request has had an exchange.                                            *)
LEMMA InitIInv == Init => IInv
<1> SUFFICES ASSUME Init PROVE IInv
  OBVIOUS
<1>1. Len(Configured) \in Nat \ {0} /\ Configured[1] \in Addresses
  BY ListFacts, ListsAssumption
<1>2. TypeOK
  <2>1. /\ machines \in Seq(Addresses) \ {<<>>}
        /\ leader \in Addresses
        /\ syncing \in 0..Len(Configured)
    BY <1>1, ListsAssumption DEF Init
  <2>2. /\ at \in [Requests -> Stages]
        /\ attempt \in [Requests -> Nat]
        /\ numReqs \in [Requests -> Nat]
        /\ failures \in [Requests -> Nat]
        /\ redirected \in [Requests -> BOOLEAN]
        /\ result \in [Requests -> Results]
    BY DEF Init, Stages, Results
  <2>3. warned \in BOOLEAN
    BY DEF Init
  <2>4. target \in [Requests -> Addresses \union {TORN}]
    BY DEF Init, Addresses
  <2>5. tried \in [Requests -> SUBSET (Addresses \union {TORN})]
    BY DEF Init
  <2> QED
    BY <2>1, <2>2, <2>3, <2>4, <2>5 DEF TypeOK
<1>3. SyncInv
  BY DEF Init, SyncInv
<1>4. RetryInv
  BY <1>1 DEF Init, RetryInv, Limit
<1> QED
  BY <1>2, <1>3, <1>4 DEF IInv

-----------------------------------------------------------------------------
(* The synchronisation touches no request, and leaves a nonempty list.     *)
LEMMA SyncKeepsIInv == IInv /\ Sync => IInv'
<1> SUFFICES ASSUME IInv, Sync PROVE IInv'
  OBVIOUS
<1> USE DEF IInv, local
<1>1. ASSUME SyncFails PROVE IInv'
  <2>1. TypeOK'
    BY <1>1 DEF SyncFails, TypeOK, shared, history
  <2>2. SyncInv'
    BY <1>1 DEF SyncFails, SyncInv
  <2>3. RetryInv'
    BY <1>1 DEF SyncFails, RetryInv, Limit, shared, history
  <2> QED
    BY <2>1, <2>2, <2>3
<1>2. ASSUME SyncAnswers PROVE IInv'
  <2>1. PICK body \in Bodies : machines' = body /\ leader' = body[1]
    BY <1>2 DEF SyncAnswers
  <2>2. body \in Seq(Addresses) \ {<<>>}
    BY ListsAssumption
  <2>3. Len(body) \in Nat \ {0} /\ body[1] \in Addresses
    BY <2>2, ListFacts
  <2>4. TypeOK'
    BY <1>2, <2>1, <2>2, <2>3 DEF SyncAnswers, TypeOK, history
  <2>5. SyncInv'
    BY <1>2 DEF SyncAnswers, SyncInv
  <2>6. RetryInv'
    BY <1>2, <2>1, <2>3 DEF SyncAnswers, SyncInv, RetryInv, Limit, history
  <2> QED
    BY <2>4, <2>5, <2>6
<1> QED
  BY <1>1, <1>2 DEF Sync

(* A request starts only after the synchronisation.                        *)
LEMMA StartKeepsIInv == ASSUME NEW r \in Requests PROVE IInv /\ Start(r) => IInv'
<1> SUFFICES ASSUME IInv, Start(r) PROVE IInv'
  OBVIOUS
<1>1. TypeOK'
  BY DEF IInv, TypeOK, Start, Goto, shared, history, Stages
<1>2. SyncInv'
  BY DEF IInv, SyncInv, Start
<1>3. RetryInv'
  BY DEF IInv, TypeOK, RetryInv, Limit, Start, Goto, shared, history
<1> QED
  BY <1>1, <1>2, <1>3 DEF IInv

(* A request aims at an address, or at a torn one.                         *)
LEMMA AimKeepsIInv == ASSUME NEW r \in Requests PROVE IInv /\ Aim(r) => IInv'
<1> SUFFICES ASSUME IInv, Aim(r) PROVE IInv'
  OBVIOUS
<1>1. PICK m \in Addresses \union {TORN} : target' = [target EXCEPT ![r] = m]
  BY DEF Aim, IInv, TypeOK
<1>2. TypeOK'
  BY <1>1 DEF IInv, TypeOK, Aim, Goto, shared, history, Stages
<1>3. SyncInv'
  BY DEF IInv, SyncInv, Aim, Goto, TypeOK
<1>4. RetryInv'
  BY DEF IInv, TypeOK, RetryInv, Limit, Aim, Goto, shared, history
<1> QED
  BY <1>2, <1>3, <1>4 DEF IInv

(* The next leader is one of the list.                                     *)
LEMMA SwitchKeepsIInv == ASSUME NEW r \in Requests PROVE IInv /\ SwitchLeader(r) => IInv'
<1> SUFFICES ASSUME IInv, SwitchLeader(r) PROVE IInv'
  OBVIOUS
<1>1. 1 + (attempt[r] % Len(machines)) \in 1..Len(machines)
  BY IndexInList, ListFacts DEF IInv, TypeOK
<1>2. leader' \in Addresses
  BY <1>1, ListFacts DEF IInv, TypeOK, SwitchLeader
<1>3. TypeOK'
  BY <1>2 DEF IInv, TypeOK, SwitchLeader, Goto, history, Stages
<1>4. SyncInv'
  BY DEF IInv, SyncInv, SwitchLeader, Goto, TypeOK
<1>5. RetryInv'
  BY DEF IInv, TypeOK, RetryInv, Limit, SwitchLeader, Goto, history
<1> QED
  BY <1>3, <1>4, <1>5 DEF IInv

-----------------------------------------------------------------------------
(* The end of a request asks for nothing but the types, and what its last  *)
(* exchange has left.                                                      *)
LEMMA EndKeepsIInv ==
    ASSUME IInv, NEW r \in Requests, NEW res \in Results, at[r] = "exchange", End(r, res),
           TypeOK',
           numReqs'[r] <= Limit, attempt[r] < numReqs'[r], failures'[r] <= Limit - 1,
           \A q \in Requests \ {r} :
               /\ numReqs'[q] = numReqs[q] /\ failures'[q] = failures[q]
               /\ redirected'[q] = redirected[q]
    PROVE  IInv'
<1>1. SyncInv'
  BY DEF IInv, TypeOK, SyncInv, End, Goto
<1>2. RetryInv'
  BY DEF IInv, TypeOK, RetryInv, Limit, End, Goto, shared
<1> QED
  BY <1>1, <1>2 DEF IInv

(* The counter of the exchanges stops at the limit.                        *)
LEMMA ExchangeCounts ==
    ASSUME IInv, NEW r \in Requests, Exchange(r)
    PROVE  /\ tried' \in [Requests -> SUBSET (Addresses \union {TORN})]
           /\ target' \in [Requests -> Addresses \union {TORN}]
           /\ numReqs' \in [Requests -> Nat]
           /\ numReqs'[r] = IF numReqs[r] < Limit THEN numReqs[r] + 1 ELSE numReqs[r]
           /\ \A q \in Requests \ {r} : numReqs'[q] = numReqs[q]
           /\ numReqs[r] \in Nat /\ Limit \in Nat /\ numReqs[r] <= Limit
<1>1. Limit \in Nat
  BY ListFacts DEF IInv, TypeOK, Limit
<1> QED
  BY <1>1 DEF Exchange, IInv, TypeOK, RetryInv, Addresses

(* Every exchange that is no redirect is counted, and a request that goes  *)
(* on after one has been asked whether it may.                             *)
LEMMA ReactionKeepsIInv == ASSUME NEW r \in Requests PROVE IInv /\ Reaction(r) => IInv'
<1> SUFFICES ASSUME IInv, Reaction(r) PROVE IInv'
  OBVIOUS
<1>1. ASSUME BadAddress(r) PROVE IInv'
  <2>1. TypeOK'
    BY <1>1 DEF IInv, TypeOK, BadAddress, End, Goto, shared, history, Stages, Results
  <2>2. /\ at[r] = "exchange" /\ End(r, "error")
        /\ numReqs' = numReqs /\ failures' = failures /\ redirected' = redirected
    BY <1>1 DEF BadAddress, history
  <2>3. numReqs[r] <= Limit /\ attempt[r] < numReqs[r] /\ failures[r] <= Limit - 1
    BY DEF IInv, RetryInv
  <2> QED
    BY <2>1, <2>2, <2>3, EndKeepsIInv DEF Results
<1>2. ASSUME Charged(r)
      PROVE  /\ at[r] = "exchange" /\ redirected' = redirected
             /\ failures' \in [Requests -> Nat]
             /\ failures'[r] = failures[r] + 1 /\ failures[r] \in Nat
             /\ failures'[r] <= Limit - 1
             /\ numReqs'[r] < Limit => failures'[r] < numReqs'[r] /\ failures'[r] <= Limit - 2
             /\ attempt[r] < numReqs'[r] /\ attempt[r] \in Nat
             /\ numReqs'[r] < Limit => attempt[r] + 1 < numReqs'[r]
             /\ numReqs'[r] <= Limit
             /\ \A q \in Requests \ {r} : failures'[q] = failures[q]
  <2>1. at[r] = "exchange" /\ redirected' = redirected
    BY <1>2 DEF Charged, Exchange
  <2>2. /\ failures' \in [Requests -> Nat]
        /\ failures'[r] = failures[r] + 1 /\ failures[r] \in Nat
        /\ \A q \in Requests \ {r} : failures'[q] = failures[q]
    BY <1>2 DEF Charged, IInv, TypeOK
  <2>3. /\ failures[r] < numReqs[r] /\ failures[r] <= Limit - 2
        /\ attempt[r] < numReqs[r] /\ attempt[r] \in Nat
    BY <2>1 DEF IInv, TypeOK, RetryInv
  <2> QED
    BY <1>2, <2>1, <2>2, <2>3, ExchangeCounts DEF Charged
<1>3. ASSUME NEW res \in Results, Charged(r), End(r, res) PROVE IInv'
  <2>1. TypeOK'
    BY <1>2, <1>3, ExchangeCounts DEF Charged, IInv, TypeOK, End, Goto, shared, Stages
  <2> QED
    BY <1>2, <1>3, <2>1, ExchangeCounts, EndKeepsIInv DEF Charged
<1>4. ASSUME Charged(r), CheckRetry(r), Goto(r, "switch"),
             UNCHANGED <<shared, syncing, warned, attempt, result>>
      PROVE  IInv'
  <2>1. TypeOK'
    BY <1>2, <1>4, ExchangeCounts DEF Charged, IInv, TypeOK, Goto, shared, Stages
  <2>2. SyncInv'
    BY <1>2, <1>4 DEF IInv, TypeOK, SyncInv, Goto
  <2>3. RetryInv'
    <3>1. /\ \A q \in Requests \ {r} : at'[q] = at[q] /\ numReqs'[q] = numReqs[q]
          /\ at'[r] = "switch" /\ Limit' = Limit /\ attempt' = attempt
      BY <1>4, ExchangeCounts DEF Charged, Goto, IInv, TypeOK, shared, Limit
    <3> QED
      BY <1>2, <1>4, <3>1 DEF IInv, RetryInv, CheckRetry
  <2> QED
    BY <2>1, <2>2, <2>3 DEF IInv
<1>5. ASSUME Charged(r), CheckRetry(r), Goto(r, "aim"), attempt' = [attempt EXCEPT ![r] = @ + 1],
             UNCHANGED <<shared, syncing, warned, result>>
      PROVE  IInv'
  <2>1. TypeOK'
    BY <1>2, <1>5, ExchangeCounts DEF Charged, IInv, TypeOK, Goto, shared, Stages
  <2>2. SyncInv'
    BY <1>2, <1>5 DEF IInv, TypeOK, SyncInv, Goto
  <2>3. RetryInv'
    <3>1. /\ \A q \in Requests \ {r} :
                at'[q] = at[q] /\ numReqs'[q] = numReqs[q] /\ attempt'[q] = attempt[q]
          /\ at'[r] = "aim" /\ Limit' = Limit /\ attempt'[r] = attempt[r] + 1
      BY <1>5, ExchangeCounts DEF Charged, Goto, IInv, TypeOK, shared, Limit
    <3> QED
      BY <1>2, <1>5, <3>1 DEF IInv, RetryInv, CheckRetry
  <2> QED
    BY <2>1, <2>2, <2>3 DEF IInv
<1>6. ASSUME Redirected(r) PROVE IInv'
  <2>1. leader' \in Addresses
    BY <1>6, MachinesAssumption DEF Redirected, IInv, TypeOK
  <2>2. /\ redirected' \in [Requests -> BOOLEAN] /\ attempt' \in [Requests -> Nat]
        /\ \A q \in Requests \ {r} : redirected'[q] = redirected[q] /\ attempt'[q] = attempt[q]
        /\ attempt'[r] = (IF numReqs[r] < Limit THEN attempt[r] + 1 ELSE attempt[r])
        /\ attempt[r] \in Nat
    BY <1>6 DEF Redirected, IInv, TypeOK
  <2>3. TypeOK'
    BY <1>6, <2>1, <2>2, ExchangeCounts DEF IInv, TypeOK, Redirected, Goto, Stages
  <2>4. SyncInv'
    BY <1>6 DEF IInv, TypeOK, SyncInv, Redirected, Exchange, Goto
  <2>5. RetryInv'
    <3>1. /\ \A q \in Requests \ {r} : at'[q] = at[q] /\ numReqs'[q] = numReqs[q]
          /\ at[r] = "exchange" /\ at'[r] = "aim" /\ Limit' = Limit /\ failures' = failures
      BY <1>6, ExchangeCounts DEF Redirected, Exchange, Goto, IInv, TypeOK, Limit
    <3> QED
      BY <1>6, <2>2, <3>1, ExchangeCounts DEF Redirected, IInv, TypeOK, RetryInv
  <2> QED
    BY <2>3, <2>4, <2>5 DEF IInv
<1> QED
  BY <1>1, <1>3, <1>4, <1>5, <1>6
     DEF Reaction, Answered, Truncated, NetworkError, BadStatus, Results

(* Every step keeps the invariant.                                         *)
LEMMA NextIInv == IInv /\ [Next]_vars => IInv'
<1> SUFFICES ASSUME IInv, [Next]_vars PROVE IInv'
  OBVIOUS
<1>1. ASSUME UNCHANGED vars PROVE IInv'
  BY <1>1 DEF IInv, TypeOK, SyncInv, RetryInv, Limit, vars, shared, local, history
<1>2. ASSUME NEW r \in Requests, Request(r) PROVE IInv'
  BY <1>2, StartKeepsIInv, AimKeepsIInv, SwitchKeepsIInv, ReactionKeepsIInv DEF Request
<1> QED
  BY <1>1, <1>2, SyncKeepsIInv DEF Next, Terminated

-----------------------------------------------------------------------------
(* The invariant holds at every moment.                                    *)
THEOREM Invariant == Spec => []IInv
  BY InitIInv, NextIInv, PTL DEF Spec

(* The variables keep their types: the leader is an address, never a torn  *)
(* one, and the index of the machine to synchronise with is within the     *)
(* list.                                                                   *)
THEOREM TypeCorrect == Spec => []TypeOK
<1>1. IInv => TypeOK
  BY DEF IInv
<1> QED
  BY <1>1, Invariant, PTL

(* However many machines fail, and whatever other requests do to the       *)
(* leader, a request ends after at most two failures for each machine of   *)
(* the list but one, however many redirects come between them.             *)
THEOREM RetriesBounded == Spec => []RetriesAreBounded
<1>1. IInv => RetriesAreBounded
  BY DEF RetriesAreBounded, IInv, RetryInv, Limit
<1> QED
  BY <1>1, Invariant, PTL

-----------------------------------------------------------------------------
(* A request that was redirected stays so, and a leader that was chosen    *)
(* otherwise is one of the list: this is what a step preserves.            *)
LEMMA LeaderStep == IInv /\ LeaderIsListed /\ [Next]_vars => LeaderIsListed'
<1> SUFFICES ASSUME IInv, LeaderIsListed, [Next]_vars,
                    \A r \in Requests : ~redirected'[r]
             PROVE  \E i \in 1..Len(machines') : machines'[i] = leader'
  BY DEF LeaderIsListed
<1>1. CASE SyncAnswers
  <2>1. PICK body \in Bodies : machines' = body /\ leader' = body[1]
    BY <1>1 DEF SyncAnswers
  <2>2. body \in Seq(Addresses) \ {<<>>}
    BY ListsAssumption
  <2> QED
    BY <2>1, <2>2, ListFacts
<1>2. ASSUME NEW r \in Requests, SwitchLeader(r)
      PROVE  \E i \in 1..Len(machines') : machines'[i] = leader'
  <2>1. 1 + (attempt[r] % Len(machines)) \in 1..Len(machines)
    BY IndexInList, ListFacts DEF IInv, TypeOK
  <2> QED
    BY <1>2, <2>1 DEF SwitchLeader
<1>3. ASSUME NEW r \in Requests PROVE ~Redirected(r)
  BY DEF Redirected, IInv, TypeOK
<1>4. CASE machines' = machines /\ leader' = leader /\ redirected' = redirected
  BY <1>4 DEF LeaderIsListed
<1> QED
  BY <1>1, <1>2, <1>3, <1>4
     DEF Next, Sync, SyncFails, Request, Start, Aim, Reaction, Answered, Truncated, NetworkError,
         BadStatus, BadAddress, Charged, End, Terminated, vars, shared, local, history

(* Whichever of the requests changes the leader that they share without a  *)
(* lock, it is a machine of the list, unless a machine redirects.          *)
THEOREM LeaderListed == Spec => []LeaderIsListed
<1>1. Init => LeaderIsListed
  BY ListFacts, ListsAssumption DEF Init, LeaderIsListed
<1> QED
  BY <1>1, LeaderStep, Invariant, PTL DEF Spec

-----------------------------------------------------------------------------
(* The machine switchLeader takes when attempt is j.                       *)
Turn(j) == machines[1 + (j % Len(machines))]

(* How many of these a request has had an exchange with.                   *)
Passed(r) == IF at[r] \in {"aim", "exchange"} THEN attempt[r] - 1 ELSE attempt[r]

(* What is true of a request that is alone, was not redirected and met no  *)
(* bad status: it takes the machines in turn, leaving out none, unless an  *)
(* address is none of which a request can be made.                         *)
Undisturbed(r) == Alone(r) /\ ~redirected[r] /\ tried[r] \intersect Failing = {}

InTurn(r) ==
    /\ at[r] \in {"aim", "exchange"} => attempt[r] = numReqs[r] - 1
    /\ at[r] = "switch" => attempt[r] = numReqs[r] - 2
    /\ at[r] = "aim" /\ attempt[r] > 0 => leader = Turn(attempt[r] - 1)
    /\ at[r] = "exchange" /\ attempt[r] > 0 => target[r] = Turn(attempt[r] - 1)
    /\ at[r] = "exchange" => \E i \in 1..Len(machines) : machines[i] = target[r]
    /\ result[r] # "error" => \A j \in 0..Passed(r) - 1 : Turn(j) \in tried[r]
    /\ result[r] = "unreachable" =>
        /\ attempt[r] >= 2 * Len(machines) - 2
        /\ \E i \in 1..Len(machines) : machines[i] \in tried[r]

TriedInv ==
    \A r \in Requests :
        /\ result[r] # "none" => at[r] = "done"
        /\ Undisturbed(r) => InTurn(r)

(* A step of another request is the end of being alone.                    *)
LEMMA OthersDisturb ==
    ASSUME TypeOK, NEW q \in Requests, NEW r \in Requests \ {q}, Request(q)
    PROVE  ~Alone(r)'
<1>1. at'[q] # "idle"
  BY DEF TypeOK, Request, Start, Aim, SwitchLeader, Reaction, BadAddress, Answered, Truncated, NetworkError,
         BadStatus, Redirected, End, Goto
<1> QED
  BY <1>1 DEF Alone

(* Nor does it change the result of the request.                           *)
LEMMA OthersResults ==
    ASSUME TypeOK, NEW q \in Requests, NEW r \in Requests \ {q}, Request(q)
    PROVE  result'[r] = result[r] /\ at'[r] = at[r]
  BY DEF TypeOK, Request, Start, Aim, SwitchLeader, Reaction, BadAddress, Answered, Truncated, NetworkError,
         BadStatus, Redirected, End, Goto

(* A request that starts has tried none yet.                               *)
LEMMA StartInTurn ==
    ASSUME IInv, NEW r \in Requests, Start(r)
    PROVE  InTurn(r)' \/ result[r] # "none"
<1>1. at'[r] = "aim" /\ attempt'[r] = 0 /\ numReqs'[r] = 1 /\ result'[r] = result[r]
  BY DEF IInv, TypeOK, RetryInv, Start, Goto
<1> QED
  BY <1>1 DEF InTurn, Passed

(* A request that is alone aims at the leader.                             *)
LEMMA AimInTurn ==
    ASSUME IInv, LeaderIsListed, NEW r \in Requests, InTurn(r), Undisturbed(r), Aim(r),
           result[r] = "none"
    PROVE  InTurn(r)'
<1>1. \A q \in Requests : at[q] # "switch"
  BY DEF Undisturbed, Alone, Aim
<1>2. target'[r] = leader
  BY <1>1 DEF Aim, IInv, TypeOK
<1>3. \E i \in 1..Len(machines) : machines[i] = leader
  BY DEF LeaderIsListed, Undisturbed, Alone, IInv, RetryInv
<1>4. /\ at[r] = "aim" /\ at'[r] = "exchange"
      /\ UNCHANGED <<shared, attempt, numReqs, tried, result>>
  BY DEF Aim, Goto, IInv, TypeOK, history
<1> QED
  BY <1>2, <1>3, <1>4 DEF InTurn, Passed, Turn, shared

(* The leader is changed to the machine whose turn it is.                  *)
LEMMA SwitchInTurn ==
    ASSUME IInv, NEW r \in Requests, InTurn(r), SwitchLeader(r), result[r] = "none"
    PROVE  InTurn(r)'
<1>1. /\ at[r] = "switch" /\ at'[r] = "aim"
      /\ attempt'[r] = attempt[r] + 1 /\ attempt[r] \in Nat /\ numReqs[r] \in Nat
      /\ leader' = Turn(attempt[r])
      /\ UNCHANGED <<machines, numReqs, target, tried, result>>
  BY DEF SwitchLeader, Goto, IInv, TypeOK, Turn, history
<1>2. Passed(r) = attempt[r] /\ Passed(r)' = attempt[r]
  BY <1>1 DEF Passed
<1>3. attempt'[r] = numReqs'[r] - 1 /\ attempt'[r] - 1 = attempt[r]
  BY <1>1 DEF InTurn
<1>4. leader' = Turn(attempt[r] - 1)'
  BY <1>1, <1>3 DEF Turn
<1>5. \A j \in 0..attempt[r] - 1 : Turn(j)' \in tried'[r]
  BY <1>1, <1>2 DEF InTurn, Turn
<1> QED
  BY <1>1, <1>2, <1>3, <1>4, <1>5 DEF InTurn

(* After an exchange its target has been tried, and only a request that    *)
(* met no answer at all goes on undisturbed.                               *)
LEMMA ReactionInTurn ==
    ASSUME IInv, NEW r \in Requests, InTurn(r), Undisturbed(r), Reaction(r), Undisturbed(r)',
           result[r] = "none"
    PROVE  InTurn(r)'
<1>1. CASE BadAddress(r)
  <2>1. /\ at[r] = "exchange" /\ at'[r] = "done" /\ result'[r] = "error"
        /\ UNCHANGED <<machines, tried, attempt>> /\ attempt[r] \in Nat
    BY <1>1 DEF BadAddress, End, Goto, IInv, TypeOK, shared, history
  <2> QED
    BY <2>1 DEF InTurn
<1>2. CASE ~BadAddress(r)
  <2>1. /\ at[r] = "exchange"
        /\ tried'[r] = tried[r] \union {target[r]}
        /\ attempt[r] \in Nat /\ numReqs[r] \in Nat
        /\ numReqs'[r] = (IF numReqs[r] < Limit THEN numReqs[r] + 1 ELSE numReqs[r])
        /\ numReqs[r] <= Limit
    BY <1>2, ExchangeCounts DEF Reaction, Answered, Truncated, NetworkError, BadStatus, Redirected,
                           Charged, Exchange, IInv, TypeOK
  <2>2. ~BadStatus(r)
    BY <2>1 DEF BadStatus, Undisturbed
  <2>3. ~Redirected(r)
    BY DEF Redirected, Undisturbed, IInv, TypeOK
  <2>4. /\ at'[r] \in {"done", "switch"} /\ UNCHANGED <<machines, attempt>>
        /\ result'[r] = "unreachable" => ~CheckRetry(r) /\ at'[r] = "done"
        /\ at'[r] = "switch" => CheckRetry(r)
    BY <1>2, <2>2, <2>3
       DEF Reaction, Answered, Truncated, NetworkError, End, Goto, IInv, TypeOK, shared
  <2>5. Limit = 2 * Len(machines) /\ Len(machines) \in Nat
    BY ListFacts DEF IInv, TypeOK, Limit
  <2>6. Passed(r)' = attempt[r] /\ Passed(r) = attempt[r] - 1
    BY <2>1, <2>4 DEF Passed
  <2>7. \A j \in 0..attempt[r] - 1 : Turn(j) \in tried'[r]
    <3>1. \A j \in 0..Passed(r) - 1 : Turn(j) \in tried[r]
      BY DEF InTurn
    <3>2. attempt[r] > 0 => target[r] = Turn(attempt[r] - 1)
      BY <2>1 DEF InTurn
    <3> QED
      BY <2>1, <2>6, <3>1, <3>2
  <2>8. attempt[r] = numReqs[r] - 1 /\ \E i \in 1..Len(machines) : machines[i] \in tried'[r]
    BY <2>1 DEF InTurn
  <2>9. /\ result'[r] = "unreachable" => attempt[r] >= 2 * Len(machines) - 2
        /\ at'[r] = "switch" => attempt[r] = numReqs'[r] - 2
    BY <2>1, <2>4, <2>5, <2>8 DEF CheckRetry
  <2> QED
    BY <2>1, <2>4, <2>6, <2>7, <2>8, <2>9 DEF InTurn, Turn
<1> QED
  BY <1>1, <1>2

(* Every step preserves it.                                                *)
LEMMA TriedStep == IInv /\ LeaderIsListed /\ TriedInv /\ [Next]_vars => TriedInv'
<1> SUFFICES ASSUME IInv, LeaderIsListed, TriedInv, [Next]_vars, NEW r \in Requests
             PROVE  /\ result'[r] # "none" => at'[r] = "done"
                    /\ Undisturbed(r)' => InTurn(r)'
  BY DEF TriedInv
<1>1. CASE UNCHANGED vars
  BY <1>1 DEF TriedInv, Undisturbed, InTurn, Alone, Passed, Turn, vars, shared, local, history
<1>2. CASE Sync
  <2>1. at[r] = "idle" /\ attempt[r] = 0
    BY <1>2 DEF Sync, SyncFails, SyncAnswers, IInv, SyncInv, RetryInv, TypeOK
  <2>2. at'[r] = "idle" /\ attempt'[r] = 0 /\ result'[r] = "none"
    BY <1>2, <2>1 DEF Sync, SyncFails, SyncAnswers, local, TriedInv
  <2> QED
    BY <2>2 DEF InTurn, Passed
<1>3. ASSUME NEW q \in Requests, Request(q), q # r
      PROVE  /\ result'[r] # "none" => at'[r] = "done"
             /\ Undisturbed(r)' => InTurn(r)'
  BY <1>3, OthersDisturb, OthersResults DEF Undisturbed, TriedInv, IInv
<1>4. ASSUME Request(r)
      PROVE  /\ result'[r] # "none" => at'[r] = "done"
             /\ Undisturbed(r)' => InTurn(r)'
  <2>1. result[r] = "none"
    BY <1>4 DEF TriedInv, Request, Start, Aim, SwitchLeader, Reaction, BadAddress, Answered,
                Truncated, NetworkError, BadStatus, Redirected, Charged, Exchange
  <2>2. result'[r] # "none" => at'[r] = "done"
    BY <1>4, <2>1 DEF Request, Start, Aim, SwitchLeader, Reaction, BadAddress, Answered, Truncated,
                      NetworkError, BadStatus, Redirected, End, Goto, IInv, TypeOK
  <2>3. Undisturbed(r)' => Undisturbed(r)
    <3>1. \A q \in Requests \ {r} : at'[q] = at[q]
      BY <1>4, OthersResults DEF IInv
    <3>2. redirected[r] => redirected'[r]
      BY <1>4
         DEF Request, Start, Aim, SwitchLeader, Reaction, BadAddress, Answered, Truncated,
             NetworkError, BadStatus, Redirected, Charged, history, IInv, TypeOK
    <3>3. tried[r] \subseteq tried'[r]
      BY <1>4 DEF Request, Start, Aim, SwitchLeader, Reaction, BadAddress, Answered, Truncated,
                  NetworkError, BadStatus, Redirected, Charged, Exchange, history, IInv, TypeOK
    <3> QED
      BY <3>1, <3>2, <3>3 DEF Undisturbed, Alone
  <2>4. Undisturbed(r)' => InTurn(r)'
    BY <1>4, <2>1, <2>3, StartInTurn, AimInTurn, SwitchInTurn, ReactionInTurn DEF Request, TriedInv
  <2> QED
    BY <2>2, <2>4
<1> QED
  BY <1>1, <1>2, <1>3, <1>4 DEF Next, Terminated

(* Taking the machines in turn from the first one misses none, if there    *)
(* are as many turns as machines.                                          *)
LEMMA TurnsAreAll ==
    ASSUME NEW n \in Nat \ {0}, NEW i \in 1..n
    PROVE  1 + ((i - 1) % n) = i
  OBVIOUS

(* Of two machines or more, each has its turn when all but two of twice    *)
(* their number have passed.                                               *)
LEMMA EnoughTurns ==
    ASSUME NEW n \in Nat \ {0, 1}, NEW a \in Nat, a >= 2 * n - 2, NEW i \in 1..n
    PROVE  i - 1 \in 0..a - 1
  OBVIOUS

(* A request that nothing else disturbs gives up only after an exchange    *)
(* with every machine of the list: the first leader may be any of them,    *)
(* the ones after it are taken in turn from the first.                     *)
THEOREM TriesAll == Spec => []LoneFailureTriesAll
<1>1. Init => TriedInv
  <2> SUFFICES ASSUME Init, NEW r \in Requests
               PROVE  result[r] = "none" /\ InTurn(r)
    BY DEF TriedInv
  <2> QED
    BY DEF Init, InTurn, Passed
<1>2. IInv /\ TriedInv => LoneFailureTriesAll
  <2> SUFFICES ASSUME IInv, TriedInv, NEW r \in Requests, Undisturbed(r), result[r] = "unreachable",
                      NEW i \in 1..Len(machines)
               PROVE  machines[i] \in tried[r]
    BY DEF LoneFailureTriesAll, Undisturbed
  <2>1. InTurn(r) /\ at[r] = "done" /\ Passed(r) = attempt[r]
    BY DEF TriedInv, Passed
  <2>2. Len(machines) \in Nat \ {0} /\ attempt[r] \in Nat
    BY ListFacts DEF IInv, TypeOK
  <2>3. CASE Len(machines) = 1
    <3>1. i = 1 /\ \E k \in 1..1 : machines[k] \in tried[r]
      BY <2>1, <2>3 DEF InTurn
    <3> QED
      BY <3>1
  <2>4. CASE Len(machines) # 1
    <3>1. i - 1 \in 0..attempt[r] - 1
      <4>1. attempt[r] >= 2 * Len(machines) - 2
        BY <2>1 DEF InTurn
      <4> QED
        BY <2>2, <2>4, <4>1, EnoughTurns
    <3>2. Turn(i - 1) = machines[i]
      BY <2>2, TurnsAreAll DEF Turn
    <3> QED
      BY <2>1, <3>1, <3>2 DEF InTurn
  <2> QED
    BY <2>3, <2>4
<1> QED
  BY <1>1, <1>2, TriedStep, LeaderListed, Invariant, PTL DEF Spec

-----------------------------------------------------------------------------
(* How many steps a request can take at most: three for each exchange it   *)
(* may still have, and those that lead to the next one.                    *)
StepsTo(s) ==
    CASE s = "idle"     -> 3
      [] s = "switch"   -> 3
      [] s = "aim"      -> 2
      [] s = "exchange" -> 1
      [] OTHER          -> 0

StepsLeft(r) == 3 * (Limit - numReqs[r]) + StepsTo(at[r])

(* The synchronisation asks one machine after the other and ends; then     *)
(* every step takes one of the steps that its request has left, and no     *)
(* request gives another one more to do, although they move its leader.    *)
(* The one exception is a redirect of a request that has had all its       *)
(* exchanges: of these there may be any number.                            *)
Progress ==
    \/ syncing > 0 /\ (syncing < syncing' \/ syncing' = 0)
    \/ /\ syncing = 0 /\ syncing' = 0
       /\ \E r \in Requests :
            /\ StepsLeft(r)' < StepsLeft(r) \/ (numReqs[r] = Limit /\ Redirected(r))
            /\ \A q \in Requests \ {r} : StepsLeft(q)' = StepsLeft(q)

NoneOverdrawn == \A r \in Requests : StepsLeft(r) >= 0

(* A request that takes a step takes one of its own, on the same list.     *)
LEMMA RequestAdvances ==
    ASSUME IInv, NEW r \in Requests, Request(r), ~(numReqs[r] = Limit /\ Redirected(r))
    PROVE  \/ /\ numReqs'[r] = numReqs[r]
              /\ <<at[r], at'[r]>> \in
                   {<<"idle", "aim">>, <<"aim", "exchange">>, <<"switch", "aim">>,
                    <<"exchange", "done">>}
           \/ /\ numReqs'[r] = numReqs[r] + 1
              /\ at[r] = "exchange" /\ at'[r] \in {"aim", "switch", "done"}
<1>1. at \in [Requests -> Stages] /\ numReqs \in [Requests -> Nat]
  BY DEF IInv, TypeOK
<1>2. CASE Start(r) \/ Aim(r) \/ SwitchLeader(r)
  BY <1>1, <1>2 DEF Start, Aim, SwitchLeader, Goto
<1>3. CASE BadAddress(r)
  BY <1>1, <1>3 DEF BadAddress, End, Goto
<1>4. CASE Answered(r) \/ Truncated(r) \/ NetworkError(r) \/ BadStatus(r) \/ Redirected(r)
  <2>1. at[r] = "exchange" /\ Exchange(r)
    BY <1>4 DEF Answered, Truncated, NetworkError, BadStatus, Redirected, Charged, Exchange
  <2>2. at'[r] \in {"aim", "switch", "done"}
    BY <1>1, <1>4 DEF Answered, Truncated, NetworkError, BadStatus, Redirected, End, Goto
  <2>3. CASE numReqs[r] < Limit
    BY <2>1, <2>2, <2>3, ExchangeCounts
  <2>4. CASE numReqs[r] = Limit
    <3>1. numReqs'[r] = numReqs[r]
      BY <2>1, <2>4, ExchangeCounts
    <3>2. ~CheckRetry(r)
      BY <2>1, <2>4, <3>1, ExchangeCounts DEF CheckRetry
    <3>3. at'[r] = "done"
      BY <1>1, <1>4, <2>4, <3>2 DEF Answered, Truncated, NetworkError, BadStatus, End, Goto
    <3> QED
      BY <2>1, <3>1, <3>3
  <2> QED
    BY <2>1, <2>3, <2>4, ExchangeCounts
<1> QED
  BY <1>2, <1>3, <1>4 DEF Request, Reaction

(* It leaves the steps of the others alone, and comes after the            *)
(* synchronisation.                                                        *)
LEMMA OthersKeepTheirSteps ==
    ASSUME IInv, NEW r \in Requests, Request(r)
    PROVE  /\ syncing = 0 /\ UNCHANGED <<machines, syncing>>
           /\ \A q \in Requests \ {r} : at'[q] = at[q] /\ numReqs'[q] = numReqs[q]
<1>1. at \in [Requests -> Stages] /\ numReqs \in [Requests -> Nat] /\ syncing \in Nat
  BY ListFacts, ListsAssumption DEF IInv, TypeOK
<1>2. UNCHANGED <<machines, syncing>>
  BY DEF Request, Start, Aim, SwitchLeader, Reaction, BadAddress, Answered, Truncated, NetworkError,
         BadStatus, Redirected, End, shared
<1>3. \E s \in Stages : Goto(r, s)
  BY DEF Request, Start, Aim, SwitchLeader, Reaction, BadAddress, Answered, Truncated, NetworkError,
         BadStatus, Redirected, End, Stages
<1>4. \A q \in Requests \ {r} : numReqs'[q] = numReqs[q]
  BY <1>1 DEF Request, Start, Aim, SwitchLeader, Reaction, BadAddress, Answered, Truncated, NetworkError,
         BadStatus, Redirected, Charged, Exchange
<1>5. at[r] # "idle" \/ syncing = 0
  BY DEF Request, Start, Aim, SwitchLeader, Reaction, BadAddress, Answered, Truncated, NetworkError,
         BadStatus, Redirected, Charged, Exchange
<1> QED
  BY <1>1, <1>2, <1>3, <1>4, <1>5 DEF Goto, IInv, SyncInv

(* Only a machine that redirects for ever keeps a request going: every     *)
(* other step takes one of finitely many, and no request gives another     *)
(* one more to do, however they move each other's leader.                  *)
THEOREM OnlyRedirectsGoOn == Spec => [][Progress]_vars /\ []NoneOverdrawn
<1>1. ASSUME IInv, [Next]_vars  PROVE [Progress]_vars
  <2>1. CASE Sync
    <3>1. syncing > 0 /\ syncing \in Nat /\ (syncing' = 0 \/ syncing' = syncing + 1)
      BY <1>1, <2>1, ListFacts, ListsAssumption DEF Sync, SyncFails, SyncAnswers, IInv, TypeOK
    <3> QED
      BY <3>1 DEF Progress
  <2>2. ASSUME NEW r \in Requests, Request(r)  PROVE Progress
    <3>1. /\ syncing = 0 /\ syncing' = 0 /\ Limit' = Limit
          /\ \A q \in Requests \ {r} : at'[q] = at[q] /\ numReqs'[q] = numReqs[q]
      BY <1>1, <2>2, OthersKeepTheirSteps DEF Limit
    <3>2. \A q \in Requests \ {r} : StepsLeft(q)' = StepsLeft(q)
      BY <3>1 DEF StepsLeft
    <3>3. Limit \in Nat /\ numReqs[r] \in Nat
      BY <1>1, ListFacts DEF IInv, TypeOK, Limit
    <3>4. ASSUME ~(numReqs[r] = Limit /\ Redirected(r))  PROVE StepsLeft(r)' < StepsLeft(r)
      <4>1. \/ /\ numReqs'[r] = numReqs[r]
               /\ StepsTo(at'[r]) < StepsTo(at[r]) /\ StepsTo(at[r]) \in Nat
               /\ StepsTo(at'[r]) \in Nat
            \/ /\ numReqs'[r] = numReqs[r] + 1
               /\ StepsTo(at[r]) = 1 /\ StepsTo(at'[r]) \in 0..3
        BY <1>1, <2>2, <3>4, RequestAdvances DEF StepsTo
      <4> QED
        BY <3>1, <3>3, <4>1 DEF StepsLeft
    <3>5. StepsLeft(r)' < StepsLeft(r) \/ (numReqs[r] = Limit /\ Redirected(r))
      <4>1. CASE numReqs[r] = Limit /\ Redirected(r)
        BY <4>1
      <4>2. CASE ~(numReqs[r] = Limit /\ Redirected(r))
        BY <3>4, <4>2
      <4> QED
        BY <4>1, <4>2
    <3> QED
      BY <3>1, <3>2, <3>5 DEF Progress
  <2> QED
    BY <1>1, <2>1, <2>2 DEF Next, Terminated
<1>2. ASSUME IInv, NEW r \in Requests  PROVE StepsLeft(r) >= 0
  <2>1. Limit \in Nat /\ numReqs[r] \in Nat /\ numReqs[r] <= Limit
    BY <1>2, ListFacts DEF IInv, TypeOK, RetryInv, Limit
  <2>2. StepsTo(at[r]) \in Nat
    BY DEF StepsTo
  <2> QED
    BY <2>1, <2>2 DEF StepsLeft
<1>3. IInv => NoneOverdrawn
  BY <1>2 DEF NoneOverdrawn
<1> QED
  BY <1>1, <1>3, Invariant, PTL DEF Spec
=============================================================================
