------------------------------- MODULE Server -------------------------------
(***************************************************************************)
(* The process as its clients see it: the listeners of miekg/dns           *)
(* (server.go there), the goroutine that serves a TCP connection or a UDP  *)
(* datagram, the handlers with their counters (server.go), and the ways    *)
(* the process ends (main.go).                                             *)
(*                                                                         *)
(* The accept loop of TCP reads the first message of a connection itself,  *)
(* with a deadline, before it accepts the next connection; then a          *)
(* goroutine of its own serves this connection, one message after the      *)
(* other. The resolver is one step here: it is Lookup's subject.           *)
(***************************************************************************)
EXTENDS Integers, Sequences, FiniteSets

CONSTANTS
    Conns,          \* TCP connections
    Datagrams,      \* UDP datagrams that arrive
    Scripts,        \* for every session, what its client may send
    Stalled,        \* the connections whose client does not read its replies
    MaxQueries,     \* 128: after so many more queries a connection is closed
    LookupMayPanic, \* whether the lookup of a query may panic
    Interruptible   \* whether the process may be interrupted

Sessions == Conns \union Datagrams
Kinds    == {"query", "filtered", "noquestion", "malformed", "overrun", "response"}
Rcodes   == {"RESOLVED", "NXDOMAIN", "SERVFAIL", "FORMERR"}

ASSUME SessionsAssumption ==
    /\ IsFiniteSet(Sessions)
    /\ Conns \intersect Datagrams = {}
    /\ Stalled \subseteq Conns
ASSUME ScriptsAssumption ==
    /\ DOMAIN Scripts = Sessions
    /\ \A x \in Sessions : \A s \in Scripts[x] : s \in Seq(Kinds)
    /\ \A d \in Datagrams : \A s \in Scripts[d] : Len(s) = 1
ASSUME MaxQueriesAssumption == MaxQueries \in Nat
ASSUME SwitchesAssumption == LookupMayPanic \in BOOLEAN /\ Interruptible \in BOOLEAN

VARIABLES
    ended,      \* "no", or what ended the process
    listener,   \* whether the listener of a protocol is up
    backlog,    \* connections the kernel has accepted and the loop has not
    stage,      \* where a session stands
    script,     \* what the client of every session sends
    arrived,    \* how many of its messages have arrived
    got,        \* how many of them have been read
    pending,    \* the rcode of the reply about to be written
    replies,    \* history: the replies written, and what each one answers
    requests, accepts, rejects, timed       \* the metrics of each protocol

counters == <<requests, accepts, rejects, timed>>
input    == <<script, arrived>>
vars     == <<ended, listener, backlog, stage, input, got, pending, replies, counters>>

-----------------------------------------------------------------------------
Protocols == {"tcp", "udp"}
Protocol(x) == IF x \in Conns THEN "tcp" ELSE "udp"

(* Stages: "first" is in the hands of the accept loop, "read" to "write"   *)
(* belong to the goroutine of the session, the last three are ends.        *)
Serving == {"unpack", "count", "filter", "resolve", "write", "read"}
Ends    == {"abandoned", "closed", "done"}
Stages  == {"idle", "queued", "first"} \union Serving \union Ends

Message(x) == script[x][got[x]]
Unread(x)  == got[x] < arrived[x]

Init ==
    /\ ended = "no"
    /\ listener = [p \in Protocols |-> "starting"]
    /\ backlog = <<>>
    /\ stage = [x \in Sessions |-> "idle"]
    /\ script \in [Sessions -> UNION {Scripts[x] : x \in Sessions}]
    /\ \A x \in Sessions : script[x] \in Scripts[x]
    /\ arrived = [x \in Sessions |-> 0]
    /\ got = [x \in Sessions |-> 0]
    /\ pending = [x \in Sessions |-> "none"]
    /\ replies = [x \in Sessions |-> <<>>]
    /\ requests = [p \in Protocols |-> 0]
    /\ accepts = [p \in Protocols |-> 0]
    /\ rejects = [p \in Protocols |-> 0]
    /\ timed = [p \in Protocols |-> 0]

Goto(x, s) == stage' = [stage EXCEPT ![x] = s]
Inc(counter, x) == [counter EXCEPT ![Protocol(x)] = @ + 1]

-----------------------------------------------------------------------------
(* The clients and the network. A datagram that is lost does not arrive.   *)
Connect(c) ==
    /\ listener["tcp"] = "up"
    /\ stage[c] = "idle"
    /\ Goto(c, "queued")
    /\ backlog' = Append(backlog, c)
    /\ UNCHANGED <<ended, listener, input, got, pending, replies, counters>>

Send(c) ==
    /\ stage[c] \notin {"idle"} \union Ends
    /\ arrived[c] < Len(script[c])
    /\ arrived' = [arrived EXCEPT ![c] = @ + 1]
    /\ UNCHANGED <<ended, listener, backlog, stage, script, got, pending, replies, counters>>

Datagram(d) ==
    /\ listener["udp"] = "up"
    /\ stage[d] = "idle"
    /\ Goto(d, "queued")
    /\ arrived' = [arrived EXCEPT ![d] = 1]
    /\ UNCHANGED <<ended, listener, backlog, script, got, pending, replies, counters>>

-----------------------------------------------------------------------------
(* The listeners.                                                          *)
Listen(p) ==
    /\ listener[p] = "starting"
    /\ listener' = [listener EXCEPT ![p] = "up"]
    /\ UNCHANGED <<ended, backlog, stage, input, got, pending, replies, counters>>

(* Mutant: an error of the accept loop is returned, too.                   *)
ListenFails_AnyTime(p) ==
    /\ ended' = "listener"
    /\ UNCHANGED <<listener, backlog, stage, input, got, pending, replies, counters>>

(* Only the start of a listener fails: its loop skips every later error.   *)
ListenFails(p) ==
    /\ listener[p] = "starting"
    /\ ended' = "listener"
    /\ UNCHANGED <<listener, backlog, stage, input, got, pending, replies, counters>>

(* serveTCP reads the first message before it accepts another connection.  *)
AcceptTCP ==
    /\ backlog # <<>>
    /\ \A c \in Conns : stage[c] # "first"
    /\ Goto(Head(backlog), "first")
    /\ backlog' = Tail(backlog)
    /\ UNCHANGED <<ended, listener, input, got, pending, replies, counters>>

(* Mutant: a read that failed is taken for a message.                      *)
Receive_Unchecked(x, s) ==
    /\ got' = [got EXCEPT ![x] = @ + 1]
    /\ Goto(x, s)
    /\ UNCHANGED <<ended, listener, backlog, input, pending, replies, counters>>

(* The next message of x is read and goes to stage s.                      *)
Receive(x, s) ==
    /\ Unread(x)
    /\ got' = [got EXCEPT ![x] = @ + 1]
    /\ Goto(x, s)
    /\ UNCHANGED <<ended, listener, backlog, input, pending, replies, counters>>

ReadFirst(c) == stage[c] = "first" /\ Receive(c, "unpack")
ReadUDP(d)   == d \in Datagrams /\ stage[d] = "queued" /\ Receive(d, "unpack")

(* Mutant: the accept loop reads without a deadline.                       *)
ReadFirstFails_NoDeadline(c) ==
    /\ stage[c] = "first"
    /\ UNCHANGED vars

(* The deadline, a closed connection, a length prefix in two segments: the *)
(* connection is neither served nor closed.                                *)
ReadFirstFails(c) ==
    /\ stage[c] = "first"
    /\ ~Unread(c)
    /\ Goto(c, "abandoned")
    /\ UNCHANGED <<ended, listener, backlog, input, got, pending, replies, counters>>

-----------------------------------------------------------------------------
(* The goroutine of a session: serve, ServeMux.ServeDNS and Handle.        *)

(* After a message: UDP is done, TCP reads the next one.                   *)
After(x) == IF x \in Conns THEN "read" ELSE "done"

Reply(x, rcode) == Goto(x, "write") /\ pending' = [pending EXCEPT ![x] = rcode]

(* ServeMux: a message without a question never gets to the handler, which *)
(* is registered for the root and so has all the others.                   *)
Dispatch(x) ==
    IF Message(x) = "noquestion" THEN Reply(x, "SERVFAIL")
    ELSE Goto(x, "count") /\ UNCHANGED pending

(* A message cut within an OPT or NSEC record, on which Unpack runs past   *)
(* the end, which nobody recovers.                                         *)
UnpackPanics(x) ==
    /\ stage[x] = "unpack"
    /\ Message(x) = "overrun"
    /\ ended' = "unpack"
    /\ UNCHANGED <<listener, backlog, stage, input, got, pending, replies, counters>>

(* What does not parse is answered, a response is not.                     *)
Unpack(x) ==
    /\ stage[x] = "unpack"
    /\ Message(x) # "overrun"
    /\ CASE Message(x) = "malformed" -> Reply(x, "FORMERR")
         [] Message(x) = "response"  -> Goto(x, After(x)) /\ UNCHANGED pending
         [] OTHER                    -> Dispatch(x)
    /\ UNCHANGED <<ended, listener, backlog, input, got, replies, counters>>

(* Handle counts the request and takes its first question, if there is one.*)
Count(x) ==
    /\ stage[x] = "count"
    /\ requests' = Inc(requests, x)
    /\ ended' = IF Message(x) = "noquestion" THEN "index" ELSE ended
    /\ Goto(x, "filter")
    /\ UNCHANGED <<listener, backlog, input, got, pending, replies, accepts, rejects, timed>>

(* Mutant: a rejected query is looked up nevertheless.                     *)
Reject_LooksUp(x) ==
    /\ stage[x] = "filter"
    /\ Message(x) = "filtered"
    /\ rejects' = Inc(rejects, x)
    /\ Goto(x, "resolve")
    /\ UNCHANGED <<ended, listener, backlog, input, got, pending, replies, requests, accepts, timed>>

Reject(x) ==
    /\ stage[x] = "filter"
    /\ Message(x) = "filtered"
    /\ rejects' = Inc(rejects, x)
    /\ Reply(x, "NXDOMAIN")
    /\ UNCHANGED <<ended, listener, backlog, input, got, replies, requests, accepts, timed>>

(* Mutant: a query is counted as accepted when it is answered.             *)
Accept_NotCounted(x) ==
    /\ stage[x] = "filter"
    /\ Message(x) # "filtered"
    /\ Goto(x, "resolve")
    /\ UNCHANGED <<ended, listener, backlog, input, got, pending, replies, counters>>

Accept(x) ==
    /\ stage[x] = "filter"
    /\ Message(x) # "filtered"
    /\ accepts' = Inc(accepts, x)
    /\ Goto(x, "resolve")
    /\ UNCHANGED <<ended, listener, backlog, input, got, pending, replies, requests, rejects, timed>>

Resolve(x) ==
    /\ stage[x] = "resolve"
    /\ Reply(x, "RESOLVED")
    /\ UNCHANGED <<ended, listener, backlog, input, got, replies, counters>>

(* A panic nobody recovers ends the process, with every query in it.       *)
ResolvePanics(x) ==
    /\ LookupMayPanic
    /\ stage[x] = "resolve"
    /\ ended' = "panic"
    /\ UNCHANGED <<listener, backlog, stage, input, got, pending, replies, counters>>

(* Handle returns, and its timer has one more measurement.                 *)
Handled(x) == Message(x) \in {"query", "filtered"}
Return(x) ==
    /\ Goto(x, After(x))
    /\ timed' = IF Handled(x) THEN Inc(timed, x) ELSE timed
    /\ UNCHANGED <<ended, listener, backlog, input, got, pending, requests, accepts, rejects>>

Write(x) ==
    /\ stage[x] = "write"
    /\ x \notin Stalled
    /\ replies' = [replies EXCEPT ![x] = Append(@, [of |-> got[x], rcode |-> pending[x]])]
    /\ Return(x)

(* The reply does not pack, is too large, or the client is gone: this is   *)
(* logged.                                                                 *)
WriteFails(x) ==
    /\ stage[x] = "write"
    /\ UNCHANGED replies
    /\ Return(x)

(* The next message of the connection. After MaxQueries more than the      *)
(* first, one is still read, but dropped and the connection closed.        *)
ReadNext(c) ==
    /\ stage[c] = "read"
    /\ Receive(c, IF got[c] > MaxQueries THEN "closed" ELSE "unpack")

(* The idle timeout, or any other failure to read.                         *)
ReadNextFails(c) ==
    /\ stage[c] = "read"
    /\ ~Unread(c)
    /\ Goto(c, "closed")
    /\ UNCHANGED <<ended, listener, backlog, input, got, pending, replies, counters>>

Interrupt ==
    /\ Interruptible
    /\ ended' = "interrupt"
    /\ UNCHANGED <<listener, backlog, stage, input, got, pending, replies, counters>>

-----------------------------------------------------------------------------
AcceptLoop == AcceptTCP \/ \E c \in Conns : ReadFirst(c) \/ ReadFirstFails(c)

(* The steps of a goroutine that only need the processor, etcd, a client   *)
(* that reads its replies, or a deadline to pass.                          *)
Goroutine(x) ==
    \/ UnpackPanics(x) \/ Unpack(x) \/ Count(x) \/ Reject(x) \/ Accept(x) \/ Resolve(x)
    \/ Write(x) \/ ReadNext(x) \/ ReadNextFails(x)

Session(x) == Goroutine(x) \/ ResolvePanics(x) \/ WriteFails(x)

Running ==
    \/ \E c \in Conns : Connect(c) \/ Send(c)
    \/ \E d \in Datagrams : Datagram(d) \/ ReadUDP(d)
    \/ \E p \in Protocols : Listen(p) \/ ListenFails(p)
    \/ AcceptLoop
    \/ \E x \in Sessions : Session(x)
    \/ Interrupt

Terminated ==
    /\ ended # "no" \/ \A x \in Sessions : stage[x] \in Ends
    /\ UNCHANGED vars

Next == (ended = "no" /\ Running) \/ Terminated

(* Every goroutine goes on as long as it can.                              *)
Fairness ==
    /\ WF_vars(ended = "no" /\ AcceptLoop)
    /\ \A d \in Datagrams : WF_vars(ended = "no" /\ ReadUDP(d))
    /\ \A x \in Sessions : WF_vars(ended = "no" /\ Goroutine(x))

Spec == Init /\ [][Next]_vars /\ Fairness

-----------------------------------------------------------------------------
TypeOK ==
    /\ ended \in {"no", "interrupt", "unpack", "panic", "listener", "index"}
    /\ listener \in [Protocols -> {"starting", "up"}]
    /\ backlog \in Seq(Conns)
    /\ stage \in [Sessions -> Stages]
    /\ script \in [Sessions -> Seq(Kinds)]
    /\ arrived \in [Sessions -> Nat]
    /\ got \in [Sessions -> Nat]
    /\ \A x \in Sessions : got[x] <= arrived[x] /\ arrived[x] <= Len(script[x])
    /\ pending \in [Sessions -> Rcodes \union {"none"}]
    /\ replies \in [Sessions -> Seq([of : Nat, rcode : Rcodes])]
    /\ requests \in [Protocols -> Nat]
    /\ accepts \in [Protocols -> Nat]
    /\ rejects \in [Protocols -> Nat]
    /\ timed \in [Protocols -> Nat]

(* The metrics are those of the queries at every moment: every query read  *)
(* is counted once, as accepted if the filters accept it and as rejected   *)
(* if they do not, and it is timed or still in Handle. No interleaving of  *)
(* the handlers of a protocol loses one. The query that closes its         *)
(* connection is not counted.                                              *)
At(p, stages) == {x \in Sessions : Protocol(x) = p /\ stage[x] \in stages}
InHandle(p)   == {x \in At(p, {"filter", "resolve", "write"}) : Handled(x)}
ReadOfKind(p, k) ==
    {e \in Sessions \X (1..(MaxQueries + 1)) :
        Protocol(e[1]) = p /\ e[2] <= got[e[1]] /\ script[e[1]][e[2]] = k}
BeforeFilter(p, k) == {x \in At(p, {"unpack", "count", "filter"}) : Message(x) = k}

CountersAddUp ==
    \A p \in Protocols :
        /\ requests[p] = accepts[p] + rejects[p] + Cardinality(At(p, {"filter"}))
        /\ requests[p] = timed[p] + Cardinality(InHandle(p))
        /\ accepts[p] = Cardinality(ReadOfKind(p, "query")) - Cardinality(BeforeFilter(p, "query"))
        /\ rejects[p] = Cardinality(ReadOfKind(p, "filtered")) - Cardinality(BeforeFilter(p, "filtered"))

(* The process ends for one of four reasons only: the interrupt, a         *)
(* listener that does not come up, a panic of the resolver, and a message  *)
(* that ends within a record in one of two ways. No other message of a     *)
(* client ends it, whatever was sent before, and no listener that came up. *)
EndsForAReason ==
    [][ended' # ended =>
        \/ ended' = "interrupt"
        \/ ended' = "listener" /\ \E p \in Protocols : listener[p] = "starting"
        \/ ended' = "panic" /\ \E x \in Sessions : stage[x] = "resolve" /\ Message(x) = "query"
        \/ ended' = "unpack" /\ \E x \in Sessions : stage[x] = "unpack" /\ Message(x) = "overrun"]_vars

(* No client is kept waiting by others that connect and say nothing, or do *)
(* not read: every message that arrives is handled, or its connection is   *)
(* given up, as long as the process runs.                                  *)
HandledUpTo(x, n) ==
    \/ got[x] > n
    \/ got[x] = n /\ stage[x] \notin Serving \ {"read"}
    \/ stage[x] \in Ends

EveryMessageIsHandled ==
    \A x \in Sessions \ Stalled : \A n \in 1..MaxQueries + 1 :
        arrived[x] >= n ~> (HandledUpTo(x, n) \/ ended # "no")

(* Every session is answered in order, each message at most once, with the *)
(* reply it deserves, and nothing is answered after the end.               *)
Abstract == INSTANCE Service WITH over <- ended # "no"

ImplementsService == Abstract!SSpec

=============================================================================
