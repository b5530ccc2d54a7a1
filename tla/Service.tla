------------------------------- MODULE Service -------------------------------
(***************************************************************************)
(* What the server promises to its clients, without goroutines, sockets,   *)
(* counters or timeouts. A session is a TCP connection or a UDP datagram.  *)
(***************************************************************************)
EXTENDS Integers, Sequences

CONSTANTS
    Conns,          \* TCP connections
    Datagrams,      \* UDP datagrams that arrive
    Scripts,        \* for every session, what its client may send
    MaxQueries      \* 128: after so many more queries a connection is closed

VARIABLES
    script,     \* what the client of every session sends
    arrived,    \* how many of its messages have arrived
    replies,    \* the replies written, with the message each one answers
    over        \* whether the process has ended

svars == <<script, arrived, replies, over>>

Sessions == Conns \union Datagrams
Kinds    == {"query", "filtered", "noquestion", "malformed", "overrun", "response"}
Rcodes   == {"RESOLVED", "NXDOMAIN", "SERVFAIL", "FORMERR"}

(* The reply a message deserves; "RESOLVED" is whatever the resolver says. *)
(* A message that is itself a response gets none, and one that ends within *)
(* a record may end the process.                                           *)
Deserved(k) ==
    CASE k = "query"      -> "RESOLVED"
      [] k = "filtered"   -> "NXDOMAIN"
      [] k = "noquestion" -> "SERVFAIL"
      [] k = "malformed"  -> "FORMERR"
      [] k \in {"overrun", "response"} -> "none"

Answered(x) == IF replies[x] = <<>> THEN 0 ELSE replies[x][Len(replies[x])].of

SInit ==
    /\ script \in [Sessions -> UNION {Scripts[x] : x \in Sessions}]
    /\ \A x \in Sessions : script[x] \in Scripts[x]
    /\ arrived = [x \in Sessions |-> 0]
    /\ replies = [x \in Sessions |-> <<>>]
    /\ over = FALSE

Arrive(x) ==
    /\ ~over
    /\ arrived[x] < Len(script[x])
    /\ arrived' = [arrived EXCEPT ![x] = @ + 1]
    /\ UNCHANGED <<script, replies, over>>

(* One more message is answered: the messages of a session in their order, *)
(* each at most once, with what it deserves, and not without end.          *)
Answer(x) ==
    /\ ~over
    /\ \E n \in (Answered(x) + 1)..arrived[x] :
        /\ n <= MaxQueries + 1
        /\ Deserved(script[x][n]) # "none"
        /\ replies' = [replies EXCEPT ![x] =
                        Append(@, [of |-> n, rcode |-> Deserved(script[x][n])])]
    /\ UNCHANGED <<script, arrived, over>>

End == ~over /\ over' = TRUE /\ UNCHANGED <<script, arrived, replies>>

SNext == End \/ \E x \in Sessions : Arrive(x) \/ Answer(x)
SSpec == SInit /\ [][SNext]_svars
=============================================================================
