----------------------------- MODULE EtcdClient -----------------------------
(***************************************************************************)
(* The etcd client of the resolver: the one synchronisation at the start   *)
(* (go-etcd client.go, internalSyncCluster) and the requests after it      *)
(* (requests.go, SendRequest), which share one Cluster without a lock:     *)
(* the machine a request goes to is whichever any request chose last.      *)
(*                                                                         *)
(* One exchange of a request and its response is one step with an outcome  *)
(* that depends on the machine. Waiting between attempts takes no step.    *)
(***************************************************************************)
EXTENDS Integers, Sequences, FiniteSets

CONSTANTS
    Machines,       \* the members of the etcd cluster
    BOGUS,          \* a text that is the address of none of them
    TORN,           \* what is read while a string is being assigned
    Configured,     \* --etcd: a sequence of addresses
    Bodies,         \* what /machines may return, split at the commas
    Requests,       \* the requests sent to etcd
    Healthy,        \* machines that always answer
    Failing,        \* machines that may answer with another status
    Hanging,        \* machines that may keep a request without an answer
    Redirects       \* where a 307 may lead that net/http does not follow itself

Addresses == Machines \union {BOGUS}

ASSUME MachinesAssumption ==
    /\ BOGUS \notin Machines
    /\ TORN \notin Addresses
    /\ Healthy \subseteq Machines
    /\ Failing \subseteq Machines \ Healthy
    /\ Hanging \subseteq Machines \ Healthy
    /\ Redirects \subseteq Addresses
ASSUME ListsAssumption ==
    /\ Configured \in Seq(Addresses) \ {<<>>}
    /\ Bodies \subseteq Seq(Addresses) \ {<<>>}

VARIABLES
    machines,   \* cluster.Machines
    leader,     \* cluster.Leader
    syncing,    \* the next machine to ask for the list, 0 after the start
    warned,     \* whether the synchronisation failed
    at,         \* where a request stands
    attempt,    \* attempt, and numReqs, which counts from one: neither counts on
    numReqs,    \* at the Limit, from where a failure ends the request anyway
    target,     \* the machine in httpPath, BOGUS when the exchange is over
    tried,      \* history: the machines a request had an exchange with
    failures,   \* history: its exchanges that were no redirect
    redirected, \* history: whether it was redirected
    result      \* what Get returns: an answer is a value, or an error of etcd's

shared == <<machines, leader>>
history == <<tried, failures, redirected>>
local  == <<at, attempt, numReqs, target, history, result>>
vars   == <<shared, syncing, warned, local>>

-----------------------------------------------------------------------------
Stages  == {"idle", "aim", "exchange", "switch", "done"}
Results == {"none", "answer", "error", "unreachable"}

Init ==
    /\ machines = Configured
    /\ leader = Configured[1]
    /\ syncing = 1
    /\ warned = FALSE
    /\ at = [r \in Requests |-> "idle"]
    /\ attempt = [r \in Requests |-> 0]
    /\ numReqs = [r \in Requests |-> 1]
    /\ target = [r \in Requests |-> BOGUS]
    /\ tried = [r \in Requests |-> {}]
    /\ failures = [r \in Requests |-> 0]
    /\ redirected = [r \in Requests |-> FALSE]
    /\ result = [r \in Requests |-> "none"]

-----------------------------------------------------------------------------
(* Mutant: the end of the list goes unnoticed.                             *)
SyncFails_PastTheEnd ==
    /\ syncing > 0
    /\ Configured[syncing] \notin Healthy
    /\ syncing' = syncing + 1
    /\ UNCHANGED <<shared, warned, local>>

(* SyncCluster, once, before anything else. The next machine is asked when *)
(* one does not answer.                                                    *)
SyncFails ==
    /\ syncing > 0
    /\ Configured[syncing] \notin Healthy
    /\ syncing' = IF syncing < Len(Configured) THEN syncing + 1 ELSE 0
    /\ warned' = (syncing = Len(Configured))
    /\ UNCHANGED <<shared, local>>

(* Mutant: the list is taken, the leader is left.                          *)
SyncAnswers_KeepsLeader ==
    /\ syncing > 0
    /\ Configured[syncing] \in Machines
    /\ \E body \in Bodies : machines' = body
    /\ syncing' = 0
    /\ UNCHANGED <<leader, warned, local>>

(* Any response is taken for the list, whatever its status.                *)
SyncAnswers ==
    /\ syncing > 0
    /\ Configured[syncing] \in Machines
    /\ \E body \in Bodies : machines' = body /\ leader' = body[1]
    /\ syncing' = 0
    /\ UNCHANGED <<warned, local>>

-----------------------------------------------------------------------------
(* SendRequest for request r.                                              *)
Goto(r, s) == at' = [at EXCEPT ![r] = s]

Start(r) ==
    /\ syncing = 0
    /\ at[r] = "idle"
    /\ Goto(r, "aim")
    /\ UNCHANGED <<shared, syncing, warned, attempt, numReqs, target, history, result>>

(* getHttpPath for a strongly consistent read. While another request       *)
(* assigns the leader, its address and its length may not belong together. *)
Aim(r) ==
    /\ at[r] = "aim"
    /\ \E m \in {leader} \union {TORN : q \in {p \in Requests : at[p] = "switch"}} :
        target' = [target EXCEPT ![r] = m]
    /\ Goto(r, "exchange")
    /\ UNCHANGED <<shared, syncing, warned, attempt, numReqs, history, result>>

(* As many exchanges as a request has before a failure must end it.        *)
Limit == 2 * Len(machines)

(* An exchange with its target.                                            *)
Exchange(r) ==
    /\ at[r] = "exchange"
    /\ tried' = [tried EXCEPT ![r] = @ \union {target[r]}]
    /\ numReqs' = [numReqs EXCEPT ![r] = IF @ < Limit THEN @ + 1 ELSE @]
    /\ target' = [target EXCEPT ![r] = BOGUS]

(* An exchange that leads to no redirect.                                  *)
Charged(r) ==
    /\ Exchange(r)
    /\ failures' = [failures EXCEPT ![r] = @ + 1]
    /\ UNCHANGED redirected

End(r, res) ==
    /\ Goto(r, "done")
    /\ result' = [result EXCEPT ![r] = res]
    /\ UNCHANGED <<shared, syncing, warned, attempt>>

(* An address of which http.NewRequest makes no request, if the target is  *)
(* one: the error is returned at once, there is neither an exchange nor a  *)
(* retry.                                                                  *)
BadAddress(r) ==
    /\ at[r] = "exchange"
    /\ target[r] \notin Machines
    /\ End(r, "error")
    /\ UNCHANGED <<numReqs, target, history>>

(* A complete response with a status in validHttpStatusCode.               *)
Answered(r) ==
    /\ target[r] \in Machines
    /\ Charged(r)
    /\ End(r, "answer")

(* Mutant: a body that is cut is asked for again, and not counted.         *)
Truncated_Again(r) ==
    /\ at[r] = "exchange"
    /\ target[r] \in Machines \ Healthy
    /\ Goto(r, "aim")
    /\ UNCHANGED <<shared, syncing, warned, attempt, numReqs, target, history, result>>

(* The connection ends within the body: it is read as an empty one, which  *)
(* is neither a value nor an error message.                                *)
Truncated(r) ==
    /\ target[r] \in Machines \ Healthy
    /\ Charged(r)
    /\ End(r, "error")

(* Mutant: no limit.                                                       *)
CheckRetry_NoLimit(r) == TRUE

(* Mutant: the limit is the number of machines.                            *)
CheckRetry_Once(r) == numReqs'[r] < Len(machines)

(* DefaultCheckRetry: whether to go on after the exchange.                 *)
CheckRetry(r) == numReqs'[r] < Limit

(* No response at all: go on with another machine.                         *)
NetworkError(r) ==
    /\ target[r] \notin Healthy
    /\ Charged(r)
    /\ \/ ~CheckRetry(r) /\ End(r, "unreachable")
       \/ /\ CheckRetry(r)
          /\ Goto(r, "switch")
          /\ UNCHANGED <<shared, syncing, warned, attempt, result>>

SwitchLeader(r) ==
    /\ at[r] = "switch"
    /\ leader' = machines[1 + (attempt[r] % Len(machines))]
    /\ attempt' = [attempt EXCEPT ![r] = @ + 1]
    /\ Goto(r, "aim")
    /\ UNCHANGED <<machines, syncing, warned, numReqs, target, history, result>>

(* Another status, or a body that cannot be read: the same machine again.  *)
BadStatus(r) ==
    /\ target[r] \in Failing
    /\ Charged(r)
    /\ \/ ~CheckRetry(r) /\ End(r, "unreachable")
       \/ /\ CheckRetry(r)
          /\ Goto(r, "aim")
          /\ attempt' = [attempt EXCEPT ![r] = @ + 1]
          /\ UNCHANGED <<shared, syncing, warned, result>>

(* A redirect may name the new leader. It counts as an exchange, but the   *)
(* limit is not asked for: there may be any number of them.                *)
Redirected(r) ==
    /\ target[r] \in Machines \ Healthy
    /\ Exchange(r)
    /\ leader' \in Redirects \union {leader}
    /\ attempt' = [attempt EXCEPT ![r] = IF numReqs[r] < Limit THEN @ + 1 ELSE @]
    /\ redirected' = [redirected EXCEPT ![r] = TRUE]
    /\ Goto(r, "aim")
    /\ UNCHANGED <<machines, syncing, warned, failures, result>>

-----------------------------------------------------------------------------
Sync == SyncFails \/ SyncAnswers
Reaction(r) ==
    BadAddress(r) \/ Answered(r) \/ Truncated(r) \/ NetworkError(r) \/ BadStatus(r) \/ Redirected(r)
Request(r) == Start(r) \/ Aim(r) \/ SwitchLeader(r) \/ Reaction(r)

Terminated == (\A r \in Requests : at[r] = "done") /\ UNCHANGED vars

Next == Sync \/ (\E r \in Requests : Request(r)) \/ Terminated

(* A machine that does not hang answers or refuses in the end. The         *)
(* requests set no time limit of their own.                                *)
Fairness ==
    /\ WF_vars(Sync)
    /\ \A r \in Requests :
        /\ WF_vars(Start(r) \/ Aim(r) \/ SwitchLeader(r))
        /\ WF_vars(target[r] \notin Hanging /\ Reaction(r))

Spec == Init /\ [][Next]_vars /\ Fairness

-----------------------------------------------------------------------------
TypeOK ==
    /\ machines \in Seq(Addresses) \ {<<>>}
    /\ leader \in Addresses
    /\ syncing \in 0..Len(Configured)
    /\ warned \in BOOLEAN
    /\ at \in [Requests -> Stages]
    /\ attempt \in [Requests -> Nat]
    /\ numReqs \in [Requests -> Nat]
    /\ target \in [Requests -> Addresses \union {TORN}]
    /\ tried \in [Requests -> SUBSET (Addresses \union {TORN})]
    /\ failures \in [Requests -> Nat]
    /\ redirected \in [Requests -> BOOLEAN]
    /\ result \in [Requests -> Results]

(* The retries are limited whatever the machines and the other requests do:*)
(* of the exchanges that are no redirects a request has one less than twice*)
(* the number of machines, however many redirects come between them.       *)
RetriesAreBounded ==
    \A r \in Requests :
        /\ failures[r] <= 2 * Len(machines) - 1
        /\ attempt[r] < numReqs[r]

(* A request that was alone from its start to its end, was not redirected  *)
(* and met no bad status, gives up only after an exchange with every       *)
(* machine of the list.                                                    *)
Alone(r) == \A q \in Requests \ {r} : at[q] = "idle"

LoneFailureTriesAll ==
    \A r \in Requests :
        Alone(r) /\ result[r] = "unreachable" /\ ~redirected[r] /\ tried[r] \intersect Failing = {}
            => {machines[i] : i \in 1..Len(machines)} \subseteq tried[r]

(* Whichever request changes the leader, it is a machine of the list, as   *)
(* long as no machine redirects.                                           *)
LeaderIsListed ==
    (\A r \in Requests : ~redirected[r]) => \E i \in 1..Len(machines) : machines[i] = leader

(* Every request ends, unless it is redirected for ever or the machine it  *)
(* waits for hangs. That other requests move its target, and that they     *)
(* hang themselves, does not keep it.                                      *)
EveryRequestEnds ==
    \A r \in Requests :
        \/ <>(at[r] = "done")
        \/ []<><<Redirected(r)>>_vars
        \/ <>[](at[r] = "exchange" /\ target[r] \in Hanging)

=============================================================================
