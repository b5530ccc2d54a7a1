----------------------------- MODULE ServerProofs -----------------------------
(* What Server guarantees for every set of sessions, whatever their clients*)
(* send and in which order goroutines run.                                 *)
EXTENDS Server, FiniteSetTheorems, TLAPS

(* A message is with its handler, or about to be.                          *)
Handling == {"unpack", "count", "filter", "resolve", "write"}

(* The backlog has the connections that are queued, each once.             *)
BacklogInv ==
    /\ \A i \in 1..Len(backlog) : stage[backlog[i]] = "queued"
    /\ \A i, j \in 1..Len(backlog) : backlog[i] = backlog[j] => i = j

(* What the stage of a session says about its messages.                    *)
StageOK(x) ==
    /\ stage[x] = "idle" => arrived[x] = 0
    /\ stage[x] \in {"idle", "queued", "first"} => got[x] = 0
    /\ stage[x] \in Handling => got[x] \in 1..MaxQueries + 1
    /\ stage[x] = "read" => got[x] <= MaxQueries + 1
    /\ stage[x] \in {"first", "read"} => x \in Conns
    /\ stage[x] \in {"count", "filter"} => Message(x) \in {"query", "filtered"}
    /\ stage[x] = "resolve" => Message(x) = "query"
    /\ stage[x] = "write" => Message(x) \notin {"overrun", "response"} /\ pending[x] = Abstract!Deserved(Message(x))

(* The messages answered are among those read, and the one in the hands of *)
(* a handler is not among them.                                            *)
ReplyOK(x) ==
    /\ Abstract!Answered(x) <= got[x]
    /\ stage[x] \in Handling => Abstract!Answered(x) < got[x]

SessionInv == \A x \in Sessions : script[x] \in Scripts[x] /\ StageOK(x) /\ ReplyOK(x)

IInv == TypeOK /\ BacklogInv /\ SessionInv

(* A step that concerns the session x only.                                *)
OnlyOf(x) ==
    \A y \in Sessions \ {x} :
        /\ stage'[y] = stage[y] /\ arrived'[y] = arrived[y] /\ got'[y] = got[y]
        /\ pending'[y] = pending[y] /\ replies'[y] = replies[y]

-----------------------------------------------------------------------------
(* Every script of a session is a sequence of messages.                    *)
LEMMA ScriptFacts ==
    ASSUME TypeOK, SessionInv, NEW x \in Sessions
    PROVE  /\ script[x] \in Seq(Kinds) /\ Len(script[x]) \in Nat
           /\ x \in Datagrams => Len(script[x]) = 1
           /\ got[x] \in 1..Len(script[x]) => Message(x) \in Kinds
  BY ScriptsAssumption DEF TypeOK, SessionInv, Message

(* The last element of a sequence is one of its elements.                  *)
LEMMA LastFacts ==
    ASSUME NEW S, NEW seq \in Seq(S), seq # <<>>
    PROVE  seq[Len(seq)] \in S
  OBVIOUS

(* The number of the last message answered is a number.                    *)
LEMMA AnsweredType == ASSUME TypeOK, NEW x \in Sessions PROVE Abstract!Answered(x) \in Nat
<1>1. replies[x] \in Seq([of : Nat, rcode : Rcodes])
  BY DEF TypeOK
<1>2. replies[x] # <<>> => replies[x][Len(replies[x])] \in [of : Nat, rcode : Rcodes]
  BY <1>1, LastFacts
<1> QED
  BY <1>2 DEF Abstract!Answered

(* What is appended to one of many sequences is its last element.          *)
LEMMA AppendFacts ==
    ASSUME NEW S, NEW f \in [Sessions -> Seq(S)], NEW x \in Sessions, NEW e \in S
    PROVE  LET g == [f EXCEPT ![x] = Append(@, e)]
           IN  /\ g \in [Sessions -> Seq(S)] /\ \A y \in Sessions \ {x} : g[y] = f[y]
               /\ g[x] # <<>> /\ g[x][Len(g[x])] = e
  OBVIOUS

(* A session that a step does not concern stays as it is.                  *)
LEMMA SessionFrame ==
    ASSUME SessionInv, script' = script, NEW x \in Sessions, OnlyOf(x), StageOK(x)', ReplyOK(x)'
    PROVE  SessionInv'
<1>1. ASSUME NEW y \in Sessions \ {x} PROVE StageOK(y)' /\ ReplyOK(y)'
  BY DEF SessionInv, OnlyOf, StageOK, ReplyOK, Message, Abstract!Answered
<1> QED
  BY <1>1 DEF SessionInv

(* The backlog is not concerned by sessions that are not queued.           *)
LEMMA BacklogFrame ==
    ASSUME TypeOK, BacklogInv, backlog' = backlog, NEW x \in Sessions, OnlyOf(x), stage[x] # "queued"
    PROVE  BacklogInv'
<1>1. \A i \in 1..Len(backlog) : backlog[i] \in Sessions
  BY DEF TypeOK, Sessions
<1> QED
  BY <1>1 DEF BacklogInv, OnlyOf

(* Moving a session to a stage is a step of this session.                  *)
LEMMA MoveFacts ==
    ASSUME TypeOK, NEW x \in Sessions, NEW s \in Stages, Goto(x, s)
    PROVE  /\ stage' \in [Sessions -> Stages] /\ stage'[x] = s
           /\ \A y \in Sessions \ {x} : stage'[y] = stage[y]
  BY DEF TypeOK, Goto

-----------------------------------------------------------------------------
(* At the start all sessions are idle.                                     *)
LEMMA InitIInv == Init => IInv
<1> SUFFICES ASSUME Init PROVE IInv
  OBVIOUS
<1>1. script \in [Sessions -> Seq(Kinds)] /\ \A x \in Sessions : Len(script[x]) \in Nat
  BY ScriptsAssumption DEF Init
<1>2. TypeOK
  <2>1. /\ listener \in [Protocols -> {"starting", "up"}]
        /\ stage \in [Sessions -> Stages]
        /\ pending \in [Sessions -> Rcodes \union {"none"}]
    BY DEF Init, Stages
  <2>2. /\ ended \in {"no", "interrupt", "unpack", "panic", "listener", "index"}
        /\ backlog \in Seq(Conns)
        /\ replies \in [Sessions -> Seq([of : Nat, rcode : Rcodes])]
    BY DEF Init
  <2>3. /\ arrived \in [Sessions -> Nat] /\ got \in [Sessions -> Nat]
        /\ \A x \in Sessions : got[x] <= arrived[x] /\ arrived[x] <= Len(script[x])
    BY <1>1 DEF Init
  <2>4. /\ requests \in [Protocols -> Nat] /\ accepts \in [Protocols -> Nat]
        /\ rejects \in [Protocols -> Nat] /\ timed \in [Protocols -> Nat]
    BY DEF Init
  <2> QED
    BY <1>1, <2>1, <2>2, <2>3, <2>4 DEF TypeOK
<1>3. BacklogInv
  BY DEF Init, BacklogInv
<1>4. SessionInv
  BY DEF Init, SessionInv, StageOK, ReplyOK, Handling, Abstract!Answered
<1> QED
  BY <1>2, <1>3, <1>4 DEF IInv

-----------------------------------------------------------------------------
(* A connection is queued behind the others, and was not queued before.    *)
LEMMA ConnectKeepsIInv == ASSUME NEW c \in Conns PROVE IInv /\ Connect(c) => IInv'
<1> SUFFICES ASSUME IInv, Connect(c) PROVE IInv'
  OBVIOUS
<1>1. c \in Sessions /\ "queued" \in Stages
  BY DEF Sessions, Stages
<1>2. /\ stage' \in [Sessions -> Stages] /\ stage'[c] = "queued"
      /\ \A y \in Sessions \ {c} : stage'[y] = stage[y]
  BY <1>1, MoveFacts DEF Connect, IInv
<1>3. TypeOK'
  <2>1. backlog' \in Seq(Conns)
    BY DEF IInv, TypeOK, Connect
  <2>2. UNCHANGED <<ended, listener, input, got, pending, replies, counters>>
    BY DEF Connect
  <2> QED
    BY <1>2, <2>1, <2>2 DEF IInv, TypeOK, input, counters
<1>4. BacklogInv'
  <2>1. backlog \in Seq(Conns) /\ backlog' = Append(backlog, c) /\ stage[c] = "idle"
    BY DEF IInv, TypeOK, Connect
  <2>2. \A i \in 1..Len(backlog) : backlog[i] \in Sessions /\ backlog[i] # c
    BY <2>1 DEF IInv, BacklogInv, Sessions
  <2>3. \A i \in 1..Len(backlog') :
            IF i = Len(backlog) + 1 THEN backlog'[i] = c
            ELSE i \in 1..Len(backlog) /\ backlog'[i] = backlog[i]
    BY <2>1
  <2> QED
    BY <1>2, <2>2, <2>3 DEF IInv, BacklogInv
<1>5. StageOK(c)' /\ ReplyOK(c)'
  BY <1>1, <1>2 DEF Connect, IInv, SessionInv, StageOK, ReplyOK, Handling, Abstract!Answered, input
<1>6. SessionInv'
  BY <1>1, <1>2, <1>5, SessionFrame DEF Connect, IInv, OnlyOf, input
<1> QED
  BY <1>3, <1>4, <1>6 DEF IInv

(* What arrives is not read yet.                                           *)
LEMMA SendKeepsIInv == ASSUME NEW c \in Conns PROVE IInv /\ Send(c) => IInv'
<1> SUFFICES ASSUME IInv, Send(c) PROVE IInv'
  OBVIOUS
<1>1. c \in Sessions /\ arrived'[c] = arrived[c] + 1 /\ arrived' \in [Sessions -> Nat]
      /\ (\A y \in Sessions \ {c} : arrived'[y] = arrived[y])
  BY DEF Sessions, Send, IInv, TypeOK
<1>2. \A x \in Sessions : Len(script[x]) \in Nat
  BY ScriptFacts DEF IInv
<1>3. TypeOK'
  <2>1. UNCHANGED <<ended, listener, backlog, stage, script, got, pending, replies, counters>>
    BY DEF Send
  <2>2. got[c] <= arrived'[c] /\ arrived'[c] <= Len(script[c])
    BY <1>1, <1>2 DEF Send, IInv, TypeOK
  <2>3. \A x \in Sessions : got'[x] <= arrived'[x] /\ arrived'[x] <= Len(script'[x])
    BY <1>1, <2>1, <2>2 DEF IInv, TypeOK
  <2> QED
    BY <1>1, <2>1, <2>3 DEF IInv, TypeOK, counters
<1>4. BacklogInv'
  BY DEF IInv, BacklogInv, Send
<1>5. StageOK(c)' /\ ReplyOK(c)'
  BY <1>1 DEF Send, IInv, SessionInv, StageOK, ReplyOK, Message, Abstract!Answered
<1>6. SessionInv'
  BY <1>1, <1>5, SessionFrame DEF Send, IInv, OnlyOf
<1> QED
  BY <1>3, <1>4, <1>6 DEF IInv

(* A datagram is one message.                                              *)
LEMMA DatagramKeepsIInv == ASSUME NEW d \in Datagrams PROVE IInv /\ Datagram(d) => IInv'
<1> SUFFICES ASSUME IInv, Datagram(d) PROVE IInv'
  OBVIOUS
<1>1. d \in Sessions /\ "queued" \in Stages
  BY DEF Sessions, Stages
<1>2. /\ stage' \in [Sessions -> Stages] /\ stage'[d] = "queued" /\ stage[d] = "idle"
      /\ \A y \in Sessions \ {d} : stage'[y] = stage[y]
  BY <1>1, MoveFacts DEF Datagram, IInv
<1>3. /\ arrived'[d] = 1 /\ arrived' \in [Sessions -> Nat]
      /\ \A y \in Sessions \ {d} : arrived'[y] = arrived[y]
  BY <1>1 DEF Datagram, IInv, TypeOK
<1>4. \A x \in Sessions : Len(script[x]) \in Nat
  BY ScriptFacts DEF IInv
<1>5. Len(script[d]) = 1 /\ got[d] = 0
  BY <1>1, <1>2, ScriptFacts DEF IInv, SessionInv, StageOK
<1>6. TypeOK'
  <2>1. UNCHANGED <<ended, listener, backlog, script, got, pending, replies, counters>>
    BY DEF Datagram
  <2>2. \A x \in Sessions : got'[x] <= arrived'[x] /\ arrived'[x] <= Len(script'[x])
    <3>1. \A x \in Sessions \ {d} : got'[x] <= arrived'[x] /\ arrived'[x] <= Len(script'[x])
      BY <1>3, <2>1 DEF IInv, TypeOK
    <3>2. got'[d] <= arrived'[d] /\ arrived'[d] <= Len(script'[d])
      <4>1. got'[d] = 0 /\ Len(script'[d]) = 1
        BY <1>5, <2>1
      <4> QED
        BY <1>3, <4>1
    <3> QED
      BY <3>1, <3>2
  <2> QED
    BY <1>2, <1>3, <2>1, <2>2 DEF IInv, TypeOK, counters
<1>7. BacklogInv'
  BY <1>1, <1>2, <1>3, BacklogFrame DEF IInv, Datagram, OnlyOf, counters
<1>8. StageOK(d)' /\ ReplyOK(d)'
  BY <1>1, <1>2, <1>5 DEF Datagram, IInv, SessionInv, StageOK, ReplyOK, Handling, Abstract!Answered
<1>9. SessionInv'
  BY <1>1, <1>2, <1>3, <1>8, SessionFrame DEF Datagram, IInv, OnlyOf
<1> QED
  BY <1>6, <1>7, <1>9 DEF IInv

(* Steps that leave the sessions alone: a listener comes up, or the        *)
(* process ends.                                                           *)
LEMMA NoSessionKeepsIInv ==
    ASSUME IInv, UNCHANGED <<backlog, stage, input, got, pending, replies, counters>>,
           ended' \in {"no", "interrupt", "unpack", "panic", "listener", "index"},
           listener' \in [Protocols -> {"starting", "up"}]
    PROVE  IInv'
<1>1. TypeOK'
  BY DEF IInv, TypeOK, input, counters
<1>2. BacklogInv'
  BY DEF IInv, BacklogInv
<1>3. SessionInv'
  BY DEF IInv, SessionInv, StageOK, ReplyOK, Message, Abstract!Answered, input
<1> QED
  BY <1>1, <1>2, <1>3 DEF IInv

(* The head of the backlog goes to the accept loop, the others stay.       *)
LEMMA AcceptTCPKeepsIInv == IInv /\ AcceptTCP => IInv'
<1> SUFFICES ASSUME IInv, AcceptTCP PROVE IInv'
  OBVIOUS
<1>0. PICK c \in Conns : c = Head(backlog)
  BY DEF IInv, TypeOK, AcceptTCP
<1>1. /\ backlog \in Seq(Conns) /\ backlog # <<>>
      /\ 1 \in 1..Len(backlog) /\ c = backlog[1] /\ backlog' = Tail(backlog)
      /\ Goto(c, "first")
      /\ UNCHANGED <<ended, listener, input, got, pending, replies, counters>>
  BY <1>0 DEF IInv, TypeOK, AcceptTCP
<1>2. c \in Conns /\ c \in Sessions /\ "first" \in Stages
  BY <1>1 DEF Sessions, Stages
<1>3. /\ stage' \in [Sessions -> Stages] /\ stage'[c] = "first"
      /\ \A y \in Sessions \ {c} : stage'[y] = stage[y]
  BY <1>1, <1>2, MoveFacts DEF IInv
<1>4. TypeOK'
  <2>1. backlog' \in Seq(Conns)
    BY <1>1
  <2> QED
    BY <1>1, <1>3, <2>1 DEF IInv, TypeOK, input, counters
<1>5. BacklogInv'
  <2>1. \A i \in 1..Len(backlog') : i + 1 \in 1..Len(backlog) /\ backlog'[i] = backlog[i + 1]
    BY <1>1
  <2>2. \A i \in 1..Len(backlog') : backlog'[i] \in Sessions \ {c}
    BY <1>1, <2>1 DEF IInv, BacklogInv, Sessions
  <2>3. \A i \in 1..Len(backlog') : stage'[backlog'[i]] = "queued"
    BY <1>3, <2>1, <2>2 DEF IInv, BacklogInv
  <2>4. ASSUME NEW i \in 1..Len(backlog'), NEW j \in 1..Len(backlog'), backlog'[i] = backlog'[j]
        PROVE  i = j
    BY <2>1, <2>4 DEF IInv, BacklogInv
  <2> QED
    BY <2>3, <2>4 DEF BacklogInv
<1>6. stage[c] = "queued"
  BY <1>1 DEF IInv, BacklogInv
<1>7. StageOK(c)' /\ ReplyOK(c)'
  BY <1>1, <1>2, <1>3, <1>6 DEF IInv, SessionInv, StageOK, ReplyOK, Handling, Abstract!Answered, input
<1>8. SessionInv'
  BY <1>1, <1>2, <1>3, <1>7, SessionFrame DEF IInv, OnlyOf, input
<1> QED
  BY <1>4, <1>5, <1>8 DEF IInv

-----------------------------------------------------------------------------
(* Reading a message: the next one, of a session whose messages so far are *)
(* dealt with.                                                             *)
LEMMA ReceiveKeepsIInv ==
    ASSUME IInv, NEW x \in Sessions, NEW s \in {"unpack", "closed"}, Receive(x, s),
           stage[x] \in {"first", "read"} \/ (x \in Datagrams /\ stage[x] = "queued"),
           s = "unpack" => got[x] <= MaxQueries
    PROVE  IInv'
<1>1. s \in Stages
  BY DEF Stages, Serving, Ends
<1>2. /\ stage' \in [Sessions -> Stages] /\ stage'[x] = s
      /\ \A y \in Sessions \ {x} : stage'[y] = stage[y]
  BY <1>1, MoveFacts DEF Receive, IInv
<1>3. /\ got[x] \in Nat /\ arrived[x] \in Nat /\ got[x] < arrived[x]
      /\ got' \in [Sessions -> Nat] /\ got'[x] = got[x] + 1
      /\ \A y \in Sessions \ {x} : got'[y] = got[y]
  BY DEF Receive, Unread, IInv, TypeOK
<1>4. TypeOK'
  <2>1. UNCHANGED <<ended, listener, backlog, input, pending, replies, counters>>
    BY DEF Receive
  <2>2. \A y \in Sessions : got'[y] <= arrived'[y] /\ arrived'[y] <= Len(script'[y])
    <3>1. \A y \in Sessions \ {x} : got'[y] <= arrived'[y] /\ arrived'[y] <= Len(script'[y])
      BY <1>3, <2>1 DEF IInv, TypeOK, input
    <3>2. got'[x] <= arrived'[x]
      BY <1>3, <2>1 DEF input
    <3>3. arrived'[x] <= Len(script'[x])
      BY <2>1 DEF IInv, TypeOK, input
    <3> QED
      BY <3>1, <3>2, <3>3
  <2> QED
    BY <1>2, <1>3, <2>1, <2>2 DEF IInv, TypeOK, input, counters
<1>5. OnlyOf(x)
  BY <1>2, <1>3 DEF OnlyOf, Receive, input
<1>6. BacklogInv'
  <2>1. CASE stage[x] # "queued"
    BY <1>5, <2>1, BacklogFrame DEF IInv, Receive
  <2>2. CASE x \in Datagrams
    <3>1. \A i \in 1..Len(backlog) : backlog[i] \in Sessions \ {x}
      BY <2>2, SessionsAssumption DEF IInv, TypeOK, Sessions
    <3> QED
      BY <1>2, <3>1 DEF IInv, BacklogInv, Receive
  <2> QED
    BY <2>1, <2>2
<1>7. StageOK(x)'
  BY <1>2, <1>3, MaxQueriesAssumption DEF StageOK, Handling
<1>8. ReplyOK(x)'
  <2>1. Abstract!Answered(x) \in Nat /\ Abstract!Answered(x) <= got[x]
    BY AnsweredType DEF IInv, SessionInv, ReplyOK
  <2>2. Abstract!Answered(x)' = Abstract!Answered(x)
    BY DEF Abstract!Answered, Receive
  <2> QED
    BY <1>3, <2>1, <2>2 DEF ReplyOK
<1>9. SessionInv'
  BY <1>5, <1>7, <1>8, SessionFrame DEF IInv, Receive, input
<1> QED
  BY <1>4, <1>6, <1>9 DEF IInv

(* Giving up a connection.                                                 *)
LEMMA GiveUpKeepsIInv ==
    ASSUME IInv, NEW x \in Sessions, NEW s \in Ends, Goto(x, s), stage[x] # "queued",
           UNCHANGED <<ended, listener, backlog, input, got, pending, replies, counters>>
    PROVE  IInv'
<1>1. /\ stage' \in [Sessions -> Stages] /\ stage'[x] = s
      /\ \A y \in Sessions \ {x} : stage'[y] = stage[y]
  BY MoveFacts DEF Stages, IInv
<1>2. TypeOK'
  BY <1>1 DEF IInv, TypeOK, input, counters
<1>3. OnlyOf(x)
  BY <1>1 DEF OnlyOf, input
<1>4. BacklogInv'
  BY <1>3, BacklogFrame DEF IInv
<1>5. StageOK(x)' /\ ReplyOK(x)'
  BY <1>1 DEF StageOK, ReplyOK, Handling, Ends, IInv, SessionInv, Abstract!Answered
<1>6. SessionInv'
  BY <1>3, <1>5, SessionFrame DEF IInv, input
<1> QED
  BY <1>2, <1>4, <1>6 DEF IInv

-----------------------------------------------------------------------------
(* What every step of a handler has in common: it moves its own session,   *)
(* which reads nothing meanwhile.                                          *)
LEMMA HandlerKeepsIInv ==
    ASSUME IInv, NEW x \in Sessions, stage[x] \in Handling, NEW s \in Stages, Goto(x, s),
           UNCHANGED <<ended, listener, backlog, input, got>>,
           pending' \in [Sessions -> Rcodes \union {"none"}],
           \A y \in Sessions \ {x} : pending'[y] = pending[y] /\ replies'[y] = replies[y],
           replies' \in [Sessions -> Seq([of : Nat, rcode : Rcodes])],
           requests' \in [Protocols -> Nat], accepts' \in [Protocols -> Nat],
           rejects' \in [Protocols -> Nat], timed' \in [Protocols -> Nat],
           s \in Handling \union {"read", "done"},
           s = "read" => x \in Conns,
           s \in {"count", "filter"} => Message(x) \in {"query", "filtered"},
           s = "resolve" => Message(x) = "query",
           s = "write" => Message(x) \notin {"overrun", "response"} /\ pending'[x] = Abstract!Deserved(Message(x)),
           Abstract!Answered(x)' <= got[x],
           s \in Handling => Abstract!Answered(x)' < got[x]
    PROVE  IInv'
<1>1. /\ stage' \in [Sessions -> Stages] /\ stage'[x] = s
      /\ \A y \in Sessions \ {x} : stage'[y] = stage[y]
  BY MoveFacts DEF IInv
<1>2. TypeOK'
  BY <1>1 DEF IInv, TypeOK, input
<1>3. OnlyOf(x)
  BY <1>1 DEF OnlyOf, input
<1>4. BacklogInv'
  BY <1>3, BacklogFrame DEF IInv, Handling
<1>5. got[x] \in 1..MaxQueries + 1 /\ MaxQueries \in Nat
  BY MaxQueriesAssumption DEF IInv, SessionInv, StageOK
<1>6. Message(x)' = Message(x)
  BY DEF Message, input
<1>7. StageOK(x)'
  <2>1. s = "write" => Message(x)' \notin {"overrun", "response"} /\ pending'[x] = Abstract!Deserved(Message(x))'
    BY <1>6 DEF Abstract!Deserved
  <2>2. s \in {"count", "filter"} => Message(x)' \in {"query", "filtered"}
    BY <1>6
  <2>3. got'[x] \in 1..MaxQueries + 1 /\ got'[x] <= MaxQueries + 1
    BY <1>5
  <2> QED
    BY <1>1, <1>6, <2>1, <2>2, <2>3 DEF StageOK, Handling
<1>8. ReplyOK(x)'
  BY <1>1 DEF ReplyOK
<1>9. SessionInv'
  BY <1>3, <1>7, <1>8, SessionFrame DEF IInv, input
<1> QED
  BY <1>2, <1>4, <1>9 DEF IInv

(* A counter of a protocol stays one.                                      *)
LEMMA IncType ==
    ASSUME NEW counter \in [Protocols -> Nat], NEW x \in Sessions
    PROVE  Inc(counter, x) \in [Protocols -> Nat]
  BY DEF Inc, Protocols, Protocol

(* A handler has a message, and has not answered it.                       *)
LEMMA HandlingFacts ==
    ASSUME IInv, NEW x \in Sessions, stage[x] \in Handling
    PROVE  /\ Message(x) \in Kinds
           /\ got[x] \in 1..MaxQueries + 1 /\ got[x] \in Nat
           /\ Abstract!Answered(x) < got[x] /\ Abstract!Answered(x) <= got[x]
<1>1. got[x] \in 1..MaxQueries + 1 /\ got[x] <= arrived[x] /\ arrived[x] <= Len(script[x])
  BY DEF IInv, TypeOK, SessionInv, StageOK
<1>2. got[x] \in Nat /\ arrived[x] \in Nat /\ Len(script[x]) \in Nat
  BY ScriptFacts DEF IInv, TypeOK
<1>3. got[x] \in 1..Len(script[x])
  BY <1>1, <1>2, MaxQueriesAssumption
<1>4. Message(x) \in Kinds
  BY <1>3, ScriptFacts DEF IInv
<1> QED
  BY <1>1, <1>2, <1>4 DEF IInv, SessionInv, ReplyOK

(* Writing a reply, or not, and waiting for the next message.              *)
LEMMA WriteKeepsIInv == ASSUME NEW x \in Sessions PROVE IInv /\ (Write(x) \/ WriteFails(x)) => IInv'
<1> SUFFICES ASSUME IInv, Write(x) \/ WriteFails(x) PROVE IInv'
  OBVIOUS
<1>1. /\ stage[x] = "write" /\ stage[x] \in Handling /\ Goto(x, After(x))
      /\ UNCHANGED <<ended, listener, backlog, input, got, pending, requests, accepts, rejects>>
      /\ timed' \in {Inc(timed, x), timed}
  BY DEF Write, WriteFails, Return, Handling
<1>2. After(x) \in Stages /\ After(x) \in {"read", "done"} /\ (After(x) = "read" => x \in Conns)
  BY DEF After, Stages, Serving, Ends
<1>3. /\ requests' \in [Protocols -> Nat] /\ accepts' \in [Protocols -> Nat]
      /\ rejects' \in [Protocols -> Nat] /\ timed' \in [Protocols -> Nat]
      /\ pending' \in [Sessions -> Rcodes \union {"none"}]
      /\ \A y \in Sessions \ {x} : pending'[y] = pending[y]
  BY <1>1, IncType DEF IInv, TypeOK
<1>4. /\ replies' \in [Sessions -> Seq([of : Nat, rcode : Rcodes])]
      /\ \A y \in Sessions \ {x} : replies'[y] = replies[y]
      /\ Abstract!Answered(x)' <= got[x]
  <2>1. CASE WriteFails(x)
    BY <2>1, <1>1, HandlingFacts DEF WriteFails, IInv, TypeOK, Abstract!Answered
  <2>2. CASE Write(x)
    <3> DEFINE r == [of |-> got[x], rcode |-> pending[x]]
    <3>1. pending[x] \in Rcodes
      BY <1>1, HandlingFacts DEF IInv, SessionInv, StageOK, Abstract!Deserved, Rcodes, Kinds
    <3>2. r \in [of : Nat, rcode : Rcodes]
      BY <1>1, <3>1, HandlingFacts
    <3>3. replies' = [replies EXCEPT ![x] = Append(@, r)]
      BY <2>2 DEF Write
    <3>4. /\ replies' \in [Sessions -> Seq([of : Nat, rcode : Rcodes])]
          /\ \A y \in Sessions \ {x} : replies'[y] = replies[y]
          /\ replies'[x] # <<>> /\ replies'[x][Len(replies'[x])] = r
      <4> DEFINE S == [of : Nat, rcode : Rcodes]
      <4>1. replies \in [Sessions -> Seq(S)] /\ r \in S
        BY <3>2 DEF IInv, TypeOK
      <4> HIDE DEF r, S
      <4>2. /\ replies' \in [Sessions -> Seq(S)]
            /\ \A y \in Sessions \ {x} : replies'[y] = replies[y]
            /\ replies'[x] # <<>> /\ replies'[x][Len(replies'[x])] = r
        BY <3>3, <4>1, AppendFacts
      <4> USE DEF S
      <4> QED
        BY <4>2
    <3>5. Abstract!Answered(x)' = got[x]
      BY <3>4 DEF Abstract!Answered
    <3>6. got[x] \in Nat
      BY <1>1, HandlingFacts
    <3>7. Abstract!Answered(x)' <= got[x]
      BY <3>5, <3>6
    <3> HIDE DEF r
    <3> QED
      BY <3>4, <3>7
  <2> QED
    BY <2>1, <2>2
<1> HIDE DEF Handling
<1> QED
  BY <1>1, <1>2, <1>3, <1>4, HandlerKeepsIInv DEF Handling

(* The steps before the reply.                                             *)
LEMMA GoroutineKeepsIInv ==
    ASSUME NEW x \in Sessions
    PROVE  IInv /\ (Unpack(x) \/ Count(x) \/ Reject(x) \/ Accept(x) \/ Resolve(x)) => IInv'
<1> SUFFICES ASSUME IInv, Unpack(x) \/ Count(x) \/ Reject(x) \/ Accept(x) \/ Resolve(x)
             PROVE  IInv'
  OBVIOUS
<1>1. stage[x] \in Handling /\ StageOK(x)
  BY DEF Unpack, Count, Reject, Accept, Resolve, Handling, IInv, SessionInv
<1>2. Message(x) \in Kinds
  BY <1>1, HandlingFacts
<1>3. UNCHANGED <<ended, listener, backlog, input, got, replies>>
  BY <1>1 DEF Unpack, Count, Reject, Accept, Resolve, StageOK
<1>4. /\ replies' \in [Sessions -> Seq([of : Nat, rcode : Rcodes])]
      /\ Abstract!Answered(x)' < got[x] /\ Abstract!Answered(x)' <= got[x]
  BY <1>1, <1>3, HandlingFacts DEF IInv, TypeOK, Abstract!Answered
<1>5. /\ requests' \in [Protocols -> Nat] /\ accepts' \in [Protocols -> Nat]
      /\ rejects' \in [Protocols -> Nat] /\ timed' \in [Protocols -> Nat]
  BY IncType DEF Unpack, Count, Reject, Accept, Resolve, IInv, TypeOK, counters
<1>6. \E s \in Handling \union {"read", "done"} :
        /\ Goto(x, s)
        /\ s = "read" => x \in Conns
        /\ s \in {"count", "filter"} => Message(x) \in {"query", "filtered"}
        /\ s = "resolve" => Message(x) = "query"
        /\ IF s = "write"
           THEN /\ Message(x) \notin {"overrun", "response"}
                /\ pending' = [pending EXCEPT ![x] = Abstract!Deserved(Message(x))]
           ELSE pending' = pending
  <2>1. CASE Unpack(x)
    <3>1. CASE Message(x) = "malformed"
      BY <2>1, <3>1 DEF Unpack, Reply, Abstract!Deserved, Handling
    <3>2. CASE Message(x) = "response"
      BY <2>1, <3>2 DEF Unpack, After
    <3>3. CASE Message(x) = "noquestion"
      BY <2>1, <3>3 DEF Unpack, Dispatch, Reply, Abstract!Deserved, Handling
    <3>4. CASE Message(x) \in {"query", "filtered"}
      BY <2>1, <3>4 DEF Unpack, Dispatch, Handling
    <3> QED
      BY <1>2, <2>1, <3>1, <3>2, <3>3, <3>4 DEF Kinds, Unpack
  <2>2. CASE Count(x)
    BY <2>2, <1>1 DEF Count, StageOK, Handling
  <2>3. CASE Reject(x)
    BY <2>3 DEF Reject, Reply, Handling, Abstract!Deserved
  <2>4. CASE Accept(x)
    BY <2>4, <1>1 DEF Accept, StageOK, Handling
  <2>5. CASE Resolve(x)
    BY <2>5, <1>1 DEF Resolve, Reply, StageOK, Handling, Abstract!Deserved
  <2> QED
    BY <2>1, <2>2, <2>3, <2>4, <2>5
<1>7. PICK s \in Handling \union {"read", "done"} :
        /\ Goto(x, s)
        /\ s = "read" => x \in Conns
        /\ s \in {"count", "filter"} => Message(x) \in {"query", "filtered"}
        /\ s = "resolve" => Message(x) = "query"
        /\ IF s = "write"
           THEN /\ Message(x) \notin {"overrun", "response"}
                /\ pending' = [pending EXCEPT ![x] = Abstract!Deserved(Message(x))]
           ELSE pending' = pending
  BY <1>6
<1>8. s \in Stages
  BY DEF Stages, Serving, Ends, Handling
<1>9. /\ pending' \in [Sessions -> Rcodes \union {"none"}]
      /\ \A y \in Sessions \ {x} : pending'[y] = pending[y]
      /\ s = "write" => pending'[x] = Abstract!Deserved(Message(x))
  <2>1. Abstract!Deserved(Message(x)) \in Rcodes \union {"none"}
    BY <1>2 DEF Kinds, Rcodes, Abstract!Deserved
  <2>2. pending \in [Sessions -> Rcodes \union {"none"}]
    BY DEF IInv, TypeOK
  <2> HIDE DEF Handling
  <2> QED
    BY <1>7, <2>1, <2>2
<1> QED
  BY <1>1, <1>3, <1>4, <1>5, <1>7, <1>8, <1>9, HandlerKeepsIInv

-----------------------------------------------------------------------------
(* Every step keeps the invariant.                                         *)
LEMMA NextIInv == IInv /\ [Next]_vars => IInv'
<1> SUFFICES ASSUME IInv, [Next]_vars PROVE IInv'
  OBVIOUS
<1>1. CASE UNCHANGED vars
  <2>1. /\ ended' \in {"no", "interrupt", "unpack", "panic", "listener", "index"}
        /\ listener' \in [Protocols -> {"starting", "up"}]
    BY <1>1 DEF vars, IInv, TypeOK
  <2> QED
    BY <1>1, <2>1, NoSessionKeepsIInv DEF vars
<1>2. ASSUME NEW p \in Protocols, Listen(p) \/ ListenFails(p) PROVE IInv'
  BY <1>2, NoSessionKeepsIInv DEF Listen, ListenFails, IInv, TypeOK
<1>3. ASSUME Interrupt \/ \E x \in Sessions : ResolvePanics(x) \/ UnpackPanics(x) PROVE IInv'
  BY <1>3, NoSessionKeepsIInv DEF Interrupt, ResolvePanics, UnpackPanics, IInv, TypeOK
<1>4. ASSUME NEW c \in Conns, ReadFirst(c) PROVE IInv'
  BY <1>4, ReceiveKeepsIInv, MaxQueriesAssumption DEF ReadFirst, Sessions, IInv, SessionInv, StageOK
<1>5. ASSUME NEW d \in Datagrams, ReadUDP(d) PROVE IInv'
  BY <1>5, ReceiveKeepsIInv, MaxQueriesAssumption DEF ReadUDP, Sessions, IInv, SessionInv, StageOK
<1>6. ASSUME NEW x \in Sessions, ReadNext(x) PROVE IInv'
  <2>1. got[x] \in Nat /\ MaxQueries \in Nat
    BY MaxQueriesAssumption DEF IInv, TypeOK
  <2> QED
    BY <1>6, <2>1, ReceiveKeepsIInv DEF ReadNext
<1>7. ASSUME NEW x \in Sessions, ReadNextFails(x) \/ ReadFirstFails(x) PROVE IInv'
  BY <1>7, GiveUpKeepsIInv DEF ReadNextFails, ReadFirstFails, Ends
<1>8. Conns \subseteq Sessions
  BY DEF Sessions
<1>9. CASE Running
  BY <1>2, <1>3, <1>4, <1>5, <1>6, <1>7, <1>8, <1>9, ConnectKeepsIInv, SendKeepsIInv, DatagramKeepsIInv,
     AcceptTCPKeepsIInv, WriteKeepsIInv, GoroutineKeepsIInv
     DEF Running, AcceptLoop, Session, Goroutine
<1> QED
  BY <1>1, <1>9 DEF Next, Terminated

(* The invariant holds at every moment.                                    *)
THEOREM Invariant == Spec => []IInv
  BY InitIInv, NextIInv, PTL DEF Spec

(* The variables keep their types: nobody reads a message that has not     *)
(* arrived.                                                                *)
THEOREM TypeCorrect == Spec => []TypeOK
<1>1. IInv => TypeOK
  BY DEF IInv
<1> QED
  BY <1>1, Invariant, PTL

-----------------------------------------------------------------------------
(* No session ends the process, unless the resolver panics or its message  *)
(* ends within a record in one of two ways; a listener ends it only while  *)
(* it starts.                                                              *)
THEOREM OnlyForAReason == Spec => EndsForAReason
<1>1. ASSUME IInv, [Next]_vars, ended' # ended
      PROVE  \/ ended' = "interrupt"
             \/ ended' = "listener" /\ \E p \in Protocols : listener[p] = "starting"
             \/ ended' = "panic" /\ \E x \in Sessions : stage[x] = "resolve" /\ Message(x) = "query"
             \/ ended' = "unpack" /\ \E x \in Sessions : stage[x] = "unpack" /\ Message(x) = "overrun"
  <2>1. \A x \in Sessions : ~Count(x)
    BY <1>1 DEF Count, IInv, SessionInv, StageOK
  <2>2. \A x \in Sessions : ResolvePanics(x) => stage[x] = "resolve" /\ Message(x) = "query"
    BY <1>1 DEF ResolvePanics, IInv, SessionInv, StageOK
  <2>3. \/ Interrupt \/ \E p \in Protocols : ListenFails(p)
        \/ \E x \in Sessions : ResolvePanics(x) \/ UnpackPanics(x)
    <3>1. Running
      BY <1>1 DEF Next, Terminated, vars
    <3>2. \A x \in Sessions :
            /\ Unpack(x) \/ Reject(x) \/ Accept(x) \/ Resolve(x) \/ Write(x) \/ WriteFails(x) => ended' = ended
            /\ ReadNext(x) \/ ReadNextFails(x) => ended' = ended
      BY DEF Unpack, Reject, Accept, Resolve, Write, WriteFails, Return, ReadNext, ReadNextFails, Receive
    <3>3. \A c \in Conns : Connect(c) \/ Send(c) \/ ReadFirst(c) \/ ReadFirstFails(c) => ended' = ended
      BY DEF Connect, Send, ReadFirst, ReadFirstFails, Receive
    <3>4. \A d \in Datagrams : Datagram(d) \/ ReadUDP(d) => ended' = ended
      BY DEF Datagram, ReadUDP, Receive
    <3>5. (AcceptTCP => ended' = ended) /\ \A p \in Protocols : Listen(p) => ended' = ended
      BY DEF AcceptTCP, Listen
    <3> QED
      BY <1>1, <2>1, <3>1, <3>2, <3>3, <3>4, <3>5 DEF Running, AcceptLoop, Session, Goroutine
  <2> QED
    BY <2>2, <2>3 DEF Interrupt, ListenFails, ResolvePanics, UnpackPanics
<1> QED
  BY <1>1, Invariant, PTL DEF Spec, EndsForAReason
-----------------------------------------------------------------------------
(* The steps that a client can see.                                        *)
LEMMA VisibleSteps ==
    ASSUME IInv, Running, ended = "no"
    PROVE  \/ \E x \in Sessions : Write(x) /\ ended' = ended
           \/ \E c \in Conns : Send(c)
           \/ \E d \in Datagrams : Datagram(d)
           \/ ended' # "no" /\ UNCHANGED <<script, arrived, replies>>
           \/ UNCHANGED <<ended, script, arrived, replies>>
<1>1. \A x \in Sessions :
        /\ Unpack(x) \/ Reject(x) \/ Accept(x) \/ Resolve(x) \/ WriteFails(x) \/ ReadNext(x) \/ ReadNextFails(x)
               => UNCHANGED <<ended, script, arrived, replies>>
        /\ Write(x) => ended' = ended
  BY DEF Unpack, Reject, Accept, Resolve, Write, WriteFails, Return, ReadNext, ReadNextFails, Receive, input
<1>2. \A x \in Sessions : Count(x) => UNCHANGED <<ended, script, arrived, replies>>
  BY DEF Count, input, IInv, SessionInv, StageOK
<1>3. \A c \in Conns : Connect(c) \/ ReadFirst(c) \/ ReadFirstFails(c)
        => UNCHANGED <<ended, script, arrived, replies>>
  BY DEF Connect, ReadFirst, ReadFirstFails, Receive, input
<1>4. \A d \in Datagrams : ReadUDP(d) => UNCHANGED <<ended, script, arrived, replies>>
  BY DEF ReadUDP, Receive, input
<1>5. AcceptTCP \/ (\E p \in Protocols : Listen(p)) => UNCHANGED <<ended, script, arrived, replies>>
  BY DEF AcceptTCP, Listen, input
<1>6. Interrupt \/ (\E p \in Protocols : ListenFails(p)) \/ (\E x \in Sessions : ResolvePanics(x) \/ UnpackPanics(x))
        => ended' # "no" /\ UNCHANGED <<script, arrived, replies>>
  BY DEF Interrupt, ListenFails, ResolvePanics, UnpackPanics, input
<1> QED
  BY <1>1, <1>2, <1>3, <1>4, <1>5, <1>6 DEF Running, AcceptLoop, Session, Goroutine

(* Writing the reply is answering the message: it has arrived, has not     *)
(* been answered, and the reply is the one it deserves.                    *)
LEMMA WriteAnswers ==
    ASSUME IInv, NEW x \in Sessions, Write(x), ended = "no", ended' = ended
    PROVE  Abstract!Answer(x)
<1>1. /\ stage[x] \in Handling /\ stage[x] = "write"
      /\ replies' = [replies EXCEPT ![x] = Append(@, [of |-> got[x], rcode |-> pending[x]])]
      /\ UNCHANGED <<script, arrived>>
  BY DEF Write, Return, Handling, input
<1>2. Abstract!Deserved(Message(x)) # "none" /\ pending[x] = Abstract!Deserved(Message(x))
  <2>1. /\ Message(x) \notin {"overrun", "response"}
        /\ pending[x] = Abstract!Deserved(Message(x))
    BY <1>1 DEF IInv, SessionInv, StageOK
  <2>2. Message(x) \in Kinds
    BY <1>1, HandlingFacts
  <2> QED
    BY <2>1, <2>2 DEF Kinds, Abstract!Deserved
<1>3. /\ got[x] \in Nat /\ arrived[x] \in Nat /\ got[x] <= arrived[x]
      /\ got[x] <= MaxQueries + 1
      /\ Abstract!Answered(x) \in Nat /\ Abstract!Answered(x) < got[x]
  <2>1. TypeOK
    BY DEF IInv
  <2>2. got[x] \in Nat /\ arrived[x] \in Nat /\ got[x] <= arrived[x]
    BY <2>1 DEF TypeOK
  <2>3. Abstract!Answered(x) \in Nat
    BY <2>1, AnsweredType
  <2>4. got[x] \in 1..MaxQueries + 1 /\ Abstract!Answered(x) < got[x]
    BY <1>1, HandlingFacts
  <2>5. got[x] <= MaxQueries + 1
    BY <2>4, MaxQueriesAssumption
  <2> QED
    BY <2>2, <2>3, <2>4, <2>5
<1>4. got[x] \in (Abstract!Answered(x) + 1)..arrived[x]
  BY <1>3
<1>5. \E n \in (Abstract!Answered(x) + 1)..arrived[x] :
        /\ n <= MaxQueries + 1
        /\ Abstract!Deserved(script[x][n]) # "none"
        /\ replies' = [replies EXCEPT ![x] =
                        Append(@, [of |-> n, rcode |-> Abstract!Deserved(script[x][n])])]
  BY <1>1, <1>2, <1>3, <1>4 DEF Message
<1> QED
  BY <1>1, <1>5 DEF Abstract!Answer

(* Every step is one that Service allows, or none.                         *)
LEMMA StepRefines == IInv /\ [Next]_vars => [Abstract!SNext]_Abstract!svars
<1> SUFFICES ASSUME IInv, [Next]_vars
             PROVE  Abstract!SNext \/ UNCHANGED <<script, arrived, replies, ended # "no">>
  BY DEF Abstract!svars
<1>1. CASE UNCHANGED vars
  BY <1>1 DEF vars, input
<1>2. ASSUME Running, ended = "no"
      PROVE  Abstract!SNext \/ UNCHANGED <<script, arrived, replies, ended # "no">>
  <2>1. ASSUME NEW x \in Sessions, Write(x), ended' = ended PROVE Abstract!SNext
    BY <1>2, <2>1, WriteAnswers DEF Abstract!SNext, Abstract!Sessions, Sessions
  <2>2. ASSUME NEW c \in Conns, Send(c) PROVE Abstract!SNext
    <3>1. Abstract!Arrive(c)
      BY <1>2, <2>2 DEF Send, Abstract!Arrive
    <3> QED
      BY <3>1 DEF Abstract!SNext, Abstract!Sessions
  <2>3. ASSUME NEW d \in Datagrams, Datagram(d) PROVE Abstract!SNext
    <3>1. d \in Sessions /\ stage[d] = "idle"
      BY <2>3 DEF Sessions, Datagram
    <3>2. arrived[d] = 0 /\ Len(script[d]) = 1
      BY <3>1, ScriptFacts DEF IInv, SessionInv, StageOK
    <3>3. arrived' = [arrived EXCEPT ![d] = @ + 1] /\ UNCHANGED <<ended, script, replies>>
      BY <2>3, <3>2 DEF Datagram
    <3>4. Abstract!Arrive(d)
      BY <1>2, <3>2, <3>3 DEF Abstract!Arrive
    <3> QED
      BY <3>4 DEF Abstract!SNext, Abstract!Sessions
  <2>4. ASSUME ended' # "no", UNCHANGED <<script, arrived, replies>> PROVE Abstract!SNext
    BY <1>2, <2>4 DEF Abstract!SNext, Abstract!End
  <2> QED
    BY <1>2, <2>1, <2>2, <2>3, <2>4, VisibleSteps
<1> QED
  BY <1>1, <1>2 DEF Next, Terminated

(* The server implements Service: each session is answered in order, no    *)
(* message twice, each with the reply it deserves and only if it has       *)
(* arrived, at most so many on a connection, none after the end.           *)
THEOREM Implements == Spec => ImplementsService
<1>1. Init => Abstract!SInit
  BY DEF Init, Abstract!SInit, Abstract!Sessions, Sessions
<1> QED
  BY <1>1, StepRefines, Invariant, PTL DEF Spec, ImplementsService, Abstract!SSpec
-----------------------------------------------------------------------------
(* One for a member, none otherwise.                                       *)
Bit(b) == IF b THEN 1 ELSE 0

Kind == {"query", "filtered"}

(* Two finite sets that differ in one element at most differ by that in    *)
(* size.                                                                   *)
LEMMA SizeDiffers ==
    ASSUME NEW A, IsFiniteSet(A), NEW B, IsFiniteSet(B), NEW e, A \ {e} = B \ {e}
    PROVE  /\ Cardinality(A) \in Nat /\ Cardinality(B) \in Nat
           /\ Cardinality(B) = Cardinality(A) + Bit(e \in B) - Bit(e \in A)
<1> DEFINE C == A \ {e}
<1>1. IsFiniteSet(C) /\ e \notin C
  BY FS_Subset
<1>2. \A D : D \ {e} = C => D = C \/ (e \in D /\ D = C \union {e})
  OBVIOUS
<1>3. Cardinality(C) \in Nat /\ Cardinality(C \union {e}) = Cardinality(C) + 1
  BY <1>1, FS_CardinalityType, FS_AddElement
<1>4. Cardinality(A) = Cardinality(C) + Bit(e \in A)
  <2>1. CASE e \in A
    BY <1>2, <1>3, <2>1 DEF Bit
  <2>2. CASE e \notin A
    <3>1. A = C
      BY <2>2
    <3> QED
      BY <1>3, <2>2, <3>1 DEF Bit
  <2> QED
    BY <2>1, <2>2
<1>5. Cardinality(B) = Cardinality(C) + Bit(e \in B)
  <2>1. CASE e \in B
    BY <1>2, <1>3, <2>1 DEF Bit
  <2>2. CASE e \notin B
    <3>1. B = C
      BY <2>2
    <3> QED
      BY <1>3, <2>2, <3>1 DEF Bit
  <2> QED
    BY <2>1, <2>2
<1>6. Bit(e \in A) \in Nat /\ Bit(e \in B) \in Nat
  BY DEF Bit
<1> HIDE DEF C
<1> QED
  BY <1>3, <1>4, <1>5, <1>6

(* What is counted are sessions and messages: there are finitely many.     *)
LEMMA CountedFinite ==
    /\ \A A \in SUBSET Sessions : IsFiniteSet(A)
    /\ \A A \in SUBSET (Sessions \X (1..(MaxQueries + 1))) : IsFiniteSet(A)
<1>1. IsFiniteSet(1..(MaxQueries + 1))
  BY FS_Interval, MaxQueriesAssumption
<1>2. IsFiniteSet(Sessions \X (1..(MaxQueries + 1)))
  BY <1>1, FS_Product, SessionsAssumption
<1> QED
  BY <1>2, FS_Subset, SessionsAssumption

(* Whether a session is counted.                                           *)
InFilter(p, x)   == Protocol(x) = p /\ stage[x] = "filter"
InHandler(p, x)  == Protocol(x) = p /\ stage[x] \in {"filter", "resolve", "write"} /\ Handled(x)
InFront(p, k, x) == Protocol(x) = p /\ stage[x] \in {"unpack", "count", "filter"} /\ Message(x) = k

(* Whether the message it has read last is among those handled.            *)
LastIs(p, k, x) == Protocol(x) = p /\ got[x] <= MaxQueries + 1 /\ Message(x) = k

(* A step of one session changes what is counted by this session.          *)
LEMMA SessionCounts ==
    ASSUME NEW x \in Sessions, OnlyOf(x), script' = script, NEW p, NEW k
    PROVE  /\ Cardinality(At(p, {"filter"})) \in Nat
           /\ Cardinality(At(p, {"filter"}))' \in Nat
           /\ Cardinality(At(p, {"filter"}))'
                 = Cardinality(At(p, {"filter"})) + Bit(InFilter(p, x)') - Bit(InFilter(p, x))
           /\ Cardinality(InHandle(p)) \in Nat
           /\ Cardinality(InHandle(p))' \in Nat
           /\ Cardinality(InHandle(p))'
                 = Cardinality(InHandle(p)) + Bit(InHandler(p, x)') - Bit(InHandler(p, x))
           /\ Cardinality(BeforeFilter(p, k)) \in Nat
           /\ Cardinality(BeforeFilter(p, k))' \in Nat
           /\ Cardinality(BeforeFilter(p, k))'
                 = Cardinality(BeforeFilter(p, k)) + Bit(InFront(p, k, x)') - Bit(InFront(p, k, x))
<1>1. /\ At(p, {"filter"}) \in SUBSET Sessions /\ At(p, {"filter"})' \in SUBSET Sessions
      /\ InHandle(p) \in SUBSET Sessions /\ InHandle(p)' \in SUBSET Sessions
      /\ BeforeFilter(p, k) \in SUBSET Sessions /\ BeforeFilter(p, k)' \in SUBSET Sessions
  BY DEF At, InHandle, BeforeFilter
<1>2. \A y \in Sessions \ {x} :
        /\ InFilter(p, y)' <=> InFilter(p, y)
        /\ InHandler(p, y)' <=> InHandler(p, y)
        /\ InFront(p, k, y)' <=> InFront(p, k, y)
  BY DEF OnlyOf, InFilter, InHandler, InFront, Handled, Message
<1>3. \A y \in Sessions :
        /\ (y \in At(p, {"filter"}) <=> InFilter(p, y)) /\ (y \in At(p, {"filter"})' <=> InFilter(p, y)')
        /\ (y \in InHandle(p) <=> InHandler(p, y)) /\ (y \in InHandle(p)' <=> InHandler(p, y)')
        /\ (y \in BeforeFilter(p, k) <=> InFront(p, k, y))
        /\ (y \in BeforeFilter(p, k)' <=> InFront(p, k, y)')
  BY DEF At, InHandle, BeforeFilter, InFilter, InHandler, InFront
<1>4. /\ At(p, {"filter"})' \ {x} = At(p, {"filter"}) \ {x}
      /\ InHandle(p)' \ {x} = InHandle(p) \ {x}
      /\ BeforeFilter(p, k)' \ {x} = BeforeFilter(p, k) \ {x}
  BY <1>1, <1>2, <1>3
<1>5. /\ Bit(x \in At(p, {"filter"})) = Bit(InFilter(p, x))
      /\ Bit(x \in At(p, {"filter"})') = Bit(InFilter(p, x)')
      /\ Bit(x \in InHandle(p)) = Bit(InHandler(p, x)) /\ Bit(x \in InHandle(p)') = Bit(InHandler(p, x)')
      /\ Bit(x \in BeforeFilter(p, k)) = Bit(InFront(p, k, x))
      /\ Bit(x \in BeforeFilter(p, k)') = Bit(InFront(p, k, x)')
  BY <1>3 DEF Bit
<1>6. /\ IsFiniteSet(At(p, {"filter"})) /\ IsFiniteSet(At(p, {"filter"})')
      /\ IsFiniteSet(InHandle(p)) /\ IsFiniteSet(InHandle(p)')
      /\ IsFiniteSet(BeforeFilter(p, k)) /\ IsFiniteSet(BeforeFilter(p, k)')
  BY <1>1, CountedFinite
<1>7. /\ Cardinality(At(p, {"filter"})) \in Nat /\ Cardinality(At(p, {"filter"})') \in Nat
      /\ Cardinality(At(p, {"filter"})')
            = Cardinality(At(p, {"filter"})) + Bit(x \in At(p, {"filter"})') - Bit(x \in At(p, {"filter"}))
  BY <1>4, <1>6, SizeDiffers
<1>8. /\ Cardinality(InHandle(p)) \in Nat /\ Cardinality(InHandle(p)') \in Nat
      /\ Cardinality(InHandle(p)')
            = Cardinality(InHandle(p)) + Bit(x \in InHandle(p)') - Bit(x \in InHandle(p))
  BY <1>4, <1>6, SizeDiffers
<1>9. /\ Cardinality(BeforeFilter(p, k)) \in Nat /\ Cardinality(BeforeFilter(p, k)') \in Nat
      /\ Cardinality(BeforeFilter(p, k)')
            = Cardinality(BeforeFilter(p, k)) + Bit(x \in BeforeFilter(p, k)') - Bit(x \in BeforeFilter(p, k))
  BY <1>4, <1>6, SizeDiffers
<1> QED
  BY <1>5, <1>7, <1>8, <1>9

(* The messages read are one more when a session reads one, if it is among *)
(* those that are handled, and as many as before when no session does.     *)
LEMMA ReadCounts ==
    ASSUME TypeOK, NEW x \in Sessions, script' = script, NEW p, NEW k
    PROVE  /\ Cardinality(ReadOfKind(p, k)) \in Nat
           /\ got' = got => Cardinality(ReadOfKind(p, k))' = Cardinality(ReadOfKind(p, k))
           /\ got' = [got EXCEPT ![x] = @ + 1] =>
                 Cardinality(ReadOfKind(p, k))' = Cardinality(ReadOfKind(p, k))
                     + Bit(LastIs(p, k, x)')
<1> DEFINE All == Sessions \X (1..(MaxQueries + 1))
<1>1. /\ ReadOfKind(p, k) \in SUBSET All /\ ReadOfKind(p, k)' \in SUBSET All
      /\ IsFiniteSet(ReadOfKind(p, k)) /\ IsFiniteSet(ReadOfKind(p, k)')
  BY CountedFinite DEF ReadOfKind
<1>2. Cardinality(ReadOfKind(p, k)) \in Nat
  BY <1>1, FS_CardinalityType
<1>3. ASSUME got' = got PROVE Cardinality(ReadOfKind(p, k))' = Cardinality(ReadOfKind(p, k))
  <2>1. ReadOfKind(p, k)' = ReadOfKind(p, k)
    BY <1>3 DEF ReadOfKind
  <2> QED
    BY <2>1
<1>4. ASSUME got' = [got EXCEPT ![x] = @ + 1]
      PROVE  Cardinality(ReadOfKind(p, k))' = Cardinality(ReadOfKind(p, k))
                + Bit(LastIs(p, k, x)')
  <2> DEFINE e == <<x, got'[x]>>
  <2>1. got[x] \in Nat /\ got'[x] = got[x] + 1 /\ \A y \in Sessions \ {x} : got'[y] = got[y]
    BY <1>4 DEF TypeOK
  <2>2. e \notin ReadOfKind(p, k)
    BY <2>1 DEF ReadOfKind
  <2>3. e \in ReadOfKind(p, k)' <=> LastIs(p, k, x)'
    BY <2>1, MaxQueriesAssumption DEF ReadOfKind, LastIs, Message
  <2>4. ReadOfKind(p, k)' \ {e} = ReadOfKind(p, k) \ {e}
    <3>1. ASSUME NEW y \in Sessions, NEW i \in 1..(MaxQueries + 1), <<y, i>> # e
          PROVE  i <= got'[y] <=> i <= got[y]
      BY <2>1, <3>1, MaxQueriesAssumption
    <3>2. \A d \in All : d # e => (d \in ReadOfKind(p, k)' <=> d \in ReadOfKind(p, k))
      BY <3>1 DEF ReadOfKind
    <3> QED
      BY <1>1, <3>2
  <2>5. Cardinality(ReadOfKind(p, k)') = Cardinality(ReadOfKind(p, k))
            + Bit(e \in ReadOfKind(p, k)') - Bit(e \in ReadOfKind(p, k))
    BY <1>1, <2>4, SizeDiffers
  <2>6. /\ Bit(e \in ReadOfKind(p, k)) = 0
        /\ Bit(e \in ReadOfKind(p, k)')
             = Bit(LastIs(p, k, x)')
    BY <2>2, <2>3 DEF Bit
  <2>7. Bit(e \in ReadOfKind(p, k)') \in Nat
    BY DEF Bit
  <2> QED
    BY <1>2, <2>5, <2>6, <2>7
<1> QED
  BY <1>2, <1>3, <1>4
-----------------------------------------------------------------------------
(* A step that neither counts nor changes what is counted.                 *)
LEMMA QuietStep ==
    ASSUME IInv, CountersAddUp, NEW x \in Sessions, OnlyOf(x), UNCHANGED <<script, got, counters>>,
           \A p \in Protocols :
               /\ InFilter(p, x)' <=> InFilter(p, x)
               /\ InHandler(p, x)' <=> InHandler(p, x)
               /\ \A k \in Kind : InFront(p, k, x)' <=> InFront(p, k, x)
    PROVE  CountersAddUp'
<1> SUFFICES ASSUME NEW p \in Protocols
             PROVE  /\ Cardinality(At(p, {"filter"}))' = Cardinality(At(p, {"filter"}))
                    /\ Cardinality(InHandle(p))' = Cardinality(InHandle(p))
                    /\ \A k \in Kind :
                        /\ Cardinality(BeforeFilter(p, k))' = Cardinality(BeforeFilter(p, k))
                        /\ Cardinality(ReadOfKind(p, k))' = Cardinality(ReadOfKind(p, k))
  BY DEF CountersAddUp, counters, Kind
<1>1. /\ Bit(InFilter(p, x)') = Bit(InFilter(p, x)) /\ Bit(InHandler(p, x)') = Bit(InHandler(p, x))
      /\ \A k \in Kind : Bit(InFront(p, k, x)') = Bit(InFront(p, k, x))
  BY DEF Bit
<1>2. /\ Bit(InFilter(p, x)) \in Nat /\ Bit(InHandler(p, x)) \in Nat
      /\ \A k \in Kind : Bit(InFront(p, k, x)) \in Nat
  BY DEF Bit
<1>3. /\ Cardinality(At(p, {"filter"}))' = Cardinality(At(p, {"filter"}))
      /\ Cardinality(InHandle(p))' = Cardinality(InHandle(p))
  BY <1>1, <1>2, SessionCounts
<1>4. ASSUME NEW k \in Kind
      PROVE  /\ Cardinality(BeforeFilter(p, k))' = Cardinality(BeforeFilter(p, k))
             /\ Cardinality(ReadOfKind(p, k))' = Cardinality(ReadOfKind(p, k))
  <2>1. Cardinality(BeforeFilter(p, k))' = Cardinality(BeforeFilter(p, k))
    BY <1>1, <1>2, SessionCounts
  <2>2. Cardinality(ReadOfKind(p, k))' = Cardinality(ReadOfKind(p, k))
    BY ReadCounts DEF IInv
  <2> QED
    BY <2>1, <2>2
<1> QED
  BY <1>3, <1>4

(* Counting for one protocol is adding one for its sessions.               *)
LEMMA IncBit ==
    ASSUME NEW counter \in [Protocols -> Nat], NEW x \in Sessions, NEW p \in Protocols
    PROVE  Inc(counter, x)[p] = counter[p] + Bit(Protocol(x) = p)
  BY DEF Inc, Bit

(* A step that counts, or by which a message is read: the counters and     *)
(* what is counted change by as much.                                      *)
LEMMA CountingStep ==
    ASSUME IInv, CountersAddUp, NEW x \in Sessions, OnlyOf(x), script' = script, NEW p \in Protocols,
           NEW q \in Nat, NEW a \in Nat, NEW r \in Nat, NEW d \in Nat,
           requests'[p] = requests[p] + q, accepts'[p] = accepts[p] + a,
           rejects'[p] = rejects[p] + r, timed'[p] = timed[p] + d,
           NEW i \in Nat, NEW j \in Nat,
           Cardinality(ReadOfKind(p, "query"))' = Cardinality(ReadOfKind(p, "query")) + i,
           Cardinality(ReadOfKind(p, "filtered"))' = Cardinality(ReadOfKind(p, "filtered")) + j,
           q = a + r + Bit(InFilter(p, x)') - Bit(InFilter(p, x)),
           q = d + Bit(InHandler(p, x)') - Bit(InHandler(p, x)),
           a = i - Bit(InFront(p, "query", x)') + Bit(InFront(p, "query", x)),
           r = j - Bit(InFront(p, "filtered", x)') + Bit(InFront(p, "filtered", x))
    PROVE  /\ requests'[p] = accepts'[p] + rejects'[p] + Cardinality(At(p, {"filter"}))'
           /\ requests'[p] = timed'[p] + Cardinality(InHandle(p))'
           /\ accepts'[p] = Cardinality(ReadOfKind(p, "query"))' - Cardinality(BeforeFilter(p, "query"))'
           /\ rejects'[p]
                 = Cardinality(ReadOfKind(p, "filtered"))' - Cardinality(BeforeFilter(p, "filtered"))'
<1>1. /\ requests[p] \in Nat /\ accepts[p] \in Nat /\ rejects[p] \in Nat /\ timed[p] \in Nat
  BY DEF IInv, TypeOK
<1>2. /\ requests[p] = accepts[p] + rejects[p] + Cardinality(At(p, {"filter"}))
      /\ requests[p] = timed[p] + Cardinality(InHandle(p))
      /\ accepts[p] = Cardinality(ReadOfKind(p, "query")) - Cardinality(BeforeFilter(p, "query"))
      /\ rejects[p] = Cardinality(ReadOfKind(p, "filtered")) - Cardinality(BeforeFilter(p, "filtered"))
  BY DEF CountersAddUp
<1>3. /\ Bit(InFilter(p, x)) \in Nat /\ Bit(InFilter(p, x)') \in Nat
      /\ Bit(InHandler(p, x)) \in Nat /\ Bit(InHandler(p, x)') \in Nat
      /\ Bit(InFront(p, "query", x)) \in Nat /\ Bit(InFront(p, "query", x)') \in Nat
      /\ Bit(InFront(p, "filtered", x)) \in Nat /\ Bit(InFront(p, "filtered", x)') \in Nat
  BY DEF Bit
<1>4. Cardinality(ReadOfKind(p, "query")) \in Nat /\ Cardinality(ReadOfKind(p, "filtered")) \in Nat
  BY ReadCounts DEF IInv
<1>5. requests'[p] = accepts'[p] + rejects'[p] + Cardinality(At(p, {"filter"}))'
  BY <1>1, <1>2, <1>3, SessionCounts
<1>6. requests'[p] = timed'[p] + Cardinality(InHandle(p))'
  BY <1>1, <1>2, <1>3, SessionCounts
<1>7. accepts'[p] = Cardinality(ReadOfKind(p, "query"))' - Cardinality(BeforeFilter(p, "query"))'
  BY <1>1, <1>2, <1>3, <1>4, SessionCounts
<1>8. rejects'[p] = Cardinality(ReadOfKind(p, "filtered"))' - Cardinality(BeforeFilter(p, "filtered"))'
  BY <1>1, <1>2, <1>3, <1>4, SessionCounts
<1> QED
  BY <1>5, <1>6, <1>7, <1>8
-----------------------------------------------------------------------------
(* A step of a session concerns no other one.                              *)
LEMMA OnlyItsOwn ==
    ASSUME TypeOK, NEW x \in Sessions,
           \/ Unpack(x) \/ Count(x) \/ Reject(x) \/ Accept(x) \/ Resolve(x) \/ Write(x) \/ WriteFails(x)
           \/ ReadNext(x) \/ ReadNextFails(x) \/ ReadFirst(x) \/ ReadFirstFails(x) \/ ReadUDP(x)
           \/ Connect(x) \/ Send(x) \/ Datagram(x)
    PROVE  OnlyOf(x) /\ script' = script
<1>1. /\ stage' = stage \/ \E s \in Stages : stage' = [stage EXCEPT ![x] = s]
      /\ arrived' = arrived \/ \E n \in Nat : arrived' = [arrived EXCEPT ![x] = n]
      /\ got' = got \/ \E n \in Nat : got' = [got EXCEPT ![x] = n]
      /\ pending' = pending \/ \E r \in Rcodes : pending' = [pending EXCEPT ![x] = r]
      /\ replies' = replies \/ \E r : replies' = [replies EXCEPT ![x] = r]
      /\ script' = script
  <2>1. CASE Unpack(x)
    BY <2>1 DEF Unpack, Reply, Dispatch, After, Goto, input, Stages, Serving, Ends, Rcodes
  <2>2. CASE Count(x) \/ Reject(x) \/ Accept(x) \/ Resolve(x)
    BY <2>2 DEF Count, Reject, Accept, Resolve, Reply, Goto, input, Stages, Serving, Rcodes
  <2>3. CASE Write(x) \/ WriteFails(x)
    BY <2>3 DEF Write, WriteFails, Return, After, Goto, input, Stages, Serving, Ends
  <2>4. CASE ReadNext(x) \/ ReadFirst(x) \/ ReadUDP(x)
    <3>1. got[x] + 1 \in Nat
      BY DEF TypeOK
    <3> QED
      BY <2>4, <3>1 DEF ReadNext, ReadFirst, ReadUDP, Receive, Goto, input, Stages, Serving, Ends
  <2>5. CASE ReadNextFails(x) \/ ReadFirstFails(x) \/ Connect(x)
    BY <2>5 DEF ReadNextFails, ReadFirstFails, Connect, Goto, input, Stages, Serving, Ends
  <2>6. CASE Send(x) \/ Datagram(x)
    <3>1. arrived[x] + 1 \in Nat
      BY DEF TypeOK
    <3> QED
      BY <2>6, <3>1 DEF Send, Datagram, Goto, Stages
  <2> QED
    BY <2>1, <2>2, <2>3, <2>4, <2>5, <2>6
<1> QED
  BY <1>1 DEF OnlyOf, TypeOK

(* Steps before a message is read, after its reply, and those of a handler *)
(* that leave it among the messages counted as it is, are quiet.           *)
LEMMA QuietActions ==
    ASSUME IInv, CountersAddUp, NEW x \in Sessions,
           \/ Unpack(x) \/ Resolve(x) \/ ReadNextFails(x) \/ ReadFirstFails(x)
           \/ Connect(x) \/ Send(x) \/ Datagram(x)
    PROVE  CountersAddUp'
<1>1. OnlyOf(x) /\ script' = script /\ TypeOK
  BY OnlyItsOwn DEF IInv
<1>2. UNCHANGED <<script, got, counters>>
  BY <1>1 DEF Unpack, Resolve, ReadNextFails, ReadFirstFails, Connect, Send, Datagram
<1>3. Message(x)' = Message(x)
  BY <1>2 DEF Message
<1>4. \/ stage[x] = "unpack" /\ stage'[x] = "count"
      \/ /\ stage[x] = "unpack" /\ stage'[x] \in {"write", "read", "done"}
         /\ Message(x) \notin Kind
      \/ stage[x] = "resolve" /\ stage'[x] = "write"
      \/ stage'[x] = stage[x]
      \/ /\ stage[x] \in {"idle", "first", "read"}
         /\ stage'[x] \in {"queued", "abandoned", "closed"}
  <2>1. CASE Unpack(x)
    <3>1. Message(x) \in Kinds
      BY <2>1, HandlingFacts DEF Unpack, Handling
    <3> QED
      BY <1>1, <2>1, <3>1 DEF Unpack, Dispatch, Reply, After, Goto, Kind, Kinds, TypeOK
  <2>2. CASE Resolve(x)
    BY <1>1, <2>2 DEF Resolve, Reply, Goto, TypeOK
  <2>3. CASE Send(x)
    BY <2>3 DEF Send
  <2>4. CASE ReadNextFails(x) \/ ReadFirstFails(x) \/ Connect(x) \/ Datagram(x)
    BY <1>1, <2>4 DEF ReadNextFails, ReadFirstFails, Connect, Datagram, Goto, TypeOK
  <2> QED
    BY <2>1, <2>2, <2>3, <2>4
<1>5. \A p \in Protocols :
        /\ InFilter(p, x)' <=> InFilter(p, x)
        /\ InHandler(p, x)' <=> InHandler(p, x)
        /\ \A k \in Kind : InFront(p, k, x)' <=> InFront(p, k, x)
  BY <1>3, <1>4 DEF InFilter, InHandler, InFront, Handled, Kind
<1> QED
  BY <1>1, <1>2, <1>5, QuietStep

(* A step that leaves stages, messages and counters alone.                 *)
LEMMA NoSessionCounts ==
    ASSUME CountersAddUp, UNCHANGED <<stage, script, got, counters>>
    PROVE  CountersAddUp'
<1>1. ASSUME NEW p, NEW k
      PROVE  /\ At(p, {"filter"})' = At(p, {"filter"}) /\ InHandle(p)' = InHandle(p)
             /\ BeforeFilter(p, k)' = BeforeFilter(p, k) /\ ReadOfKind(p, k)' = ReadOfKind(p, k)
  BY DEF At, InHandle, Handled, BeforeFilter, ReadOfKind, Message
<1>2. UNCHANGED <<requests, accepts, rejects, timed>>
  BY DEF counters
<1> QED
  BY <1>1, <1>2 DEF CountersAddUp

(* Nor does the accept loop count.                                         *)
LEMMA AcceptTCPCounts ==
    ASSUME IInv, CountersAddUp, AcceptTCP
    PROVE  CountersAddUp'
<1>1. PICK c \in Conns : c = Head(backlog)
  BY DEF IInv, TypeOK, AcceptTCP
<1>2. c = backlog[1] /\ 1 \in 1..Len(backlog) /\ c \in Sessions
  BY <1>1 DEF IInv, TypeOK, AcceptTCP, Sessions
<1>3. stage[c] = "queued" /\ stage' = [stage EXCEPT ![c] = "first"]
  BY <1>1, <1>2 DEF IInv, BacklogInv, AcceptTCP, Goto
<1>4. UNCHANGED <<script, got, counters>> /\ UNCHANGED <<arrived, pending, replies>>
  BY DEF AcceptTCP, input
<1>5. stage'[c] = "first" /\ OnlyOf(c)
  BY <1>2, <1>3, <1>4 DEF OnlyOf, IInv, TypeOK
<1>6. \A p \in Protocols :
        /\ InFilter(p, c)' <=> InFilter(p, c)
        /\ InHandler(p, c)' <=> InHandler(p, c)
        /\ \A k \in Kind : InFront(p, k, c)' <=> InFront(p, k, c)
  BY <1>3, <1>5 DEF InFilter, InHandler, InFront
<1> QED
  BY <1>2, <1>4, <1>5, <1>6, QuietStep

(* A message that is read is counted among those read and, if it is to be  *)
(* handled, among those before the filters.                                *)
LEMMA ReceiveCounts ==
    ASSUME IInv, CountersAddUp, NEW x \in Sessions, ReadNext(x) \/ ReadFirst(x) \/ ReadUDP(x)
    PROVE  CountersAddUp'
<1>1. OnlyOf(x) /\ script' = script /\ TypeOK
  BY OnlyItsOwn DEF IInv
<1>2. /\ got' = [got EXCEPT ![x] = @ + 1] /\ UNCHANGED counters
      /\ stage[x] \in {"first", "read", "queued"}
      /\ stage' = [stage EXCEPT ![x] = IF got[x] + 1 <= MaxQueries + 1 THEN "unpack" ELSE "closed"]
  <2>1. CASE ReadNext(x)
    <3>1. got[x] \in Nat /\ MaxQueries \in Nat
      BY <1>1, MaxQueriesAssumption DEF TypeOK
    <3>2. got[x] > MaxQueries <=> ~(got[x] + 1 <= MaxQueries + 1)
      BY <3>1
    <3> QED
      BY <2>1, <3>2 DEF ReadNext, Receive, Goto
  <2>2. CASE ReadFirst(x) \/ ReadUDP(x)
    <3>1. got[x] = 0
      BY <2>2 DEF ReadFirst, ReadUDP, IInv, SessionInv, StageOK
    <3>2. got[x] + 1 <= MaxQueries + 1
      BY <3>1, MaxQueriesAssumption
    <3> QED
      BY <2>2, <3>2 DEF ReadFirst, ReadUDP, Receive, Goto
  <2> QED
    BY <2>1, <2>2
<1>3. got'[x] = got[x] + 1 /\ stage'[x] = IF got'[x] <= MaxQueries + 1 THEN "unpack" ELSE "closed"
  BY <1>1, <1>2 DEF TypeOK
<1> SUFFICES ASSUME NEW p \in Protocols
             PROVE  /\ requests'[p] = accepts'[p] + rejects'[p] + Cardinality(At(p, {"filter"}))'
                    /\ requests'[p] = timed'[p] + Cardinality(InHandle(p))'
                    /\ accepts'[p] = Cardinality(ReadOfKind(p, "query"))'
                                        - Cardinality(BeforeFilter(p, "query"))'
                    /\ rejects'[p] = Cardinality(ReadOfKind(p, "filtered"))'
                                        - Cardinality(BeforeFilter(p, "filtered"))'
  BY DEF CountersAddUp
<1> DEFINE New(k) == Bit(LastIs(p, k, x)')
<1>4. /\ Bit(InFilter(p, x)) = 0 /\ Bit(InFilter(p, x)') = 0
      /\ Bit(InHandler(p, x)) = 0 /\ Bit(InHandler(p, x)') = 0
  BY <1>2, <1>3 DEF InFilter, InHandler, Bit
<1>5. \A k \in Kind : Bit(InFront(p, k, x)) = 0 /\ Bit(InFront(p, k, x)') = New(k) /\ New(k) \in Nat
  BY <1>2, <1>3 DEF InFront, LastIs, Bit
<1>6. ASSUME NEW k \in Kind
      PROVE  Cardinality(ReadOfKind(p, k))' = Cardinality(ReadOfKind(p, k)) + New(k)
  BY <1>1, <1>2, ReadCounts
<1>7. /\ requests'[p] = requests[p] + 0 /\ accepts'[p] = accepts[p] + 0
      /\ rejects'[p] = rejects[p] + 0 /\ timed'[p] = timed[p] + 0
  BY <1>1, <1>2 DEF counters, TypeOK
<1> DEFINE i == New("query")
           j == New("filtered")
<1>8. /\ i \in Nat /\ j \in Nat
      /\ Bit(InFront(p, "query", x)) = 0 /\ Bit(InFront(p, "query", x)') = i
      /\ Bit(InFront(p, "filtered", x)) = 0 /\ Bit(InFront(p, "filtered", x)') = j
      /\ Cardinality(ReadOfKind(p, "query"))' = Cardinality(ReadOfKind(p, "query")) + i
      /\ Cardinality(ReadOfKind(p, "filtered"))' = Cardinality(ReadOfKind(p, "filtered")) + j
  BY <1>5, <1>6 DEF Kind
<1> HIDE DEF i, j, New
<1>9. /\ 0 = 0 + 0 + Bit(InFilter(p, x)') - Bit(InFilter(p, x))
      /\ 0 = 0 + Bit(InHandler(p, x)') - Bit(InHandler(p, x))
      /\ 0 = i - Bit(InFront(p, "query", x)') + Bit(InFront(p, "query", x))
      /\ 0 = j - Bit(InFront(p, "filtered", x)') + Bit(InFront(p, "filtered", x))
  BY <1>4, <1>8
<1> QED
  BY <1>1, <1>7, <1>8, <1>9, CountingStep
(* Handle counts a query when it gets it, as accepted or rejected once the *)
(* filters have decided, and times it when its reply is written or lost.   *)
LEMMA HandlerCounts ==
    ASSUME IInv, CountersAddUp, NEW x \in Sessions,
           Count(x) \/ Reject(x) \/ Accept(x) \/ Write(x) \/ WriteFails(x)
    PROVE  CountersAddUp'
<1>1. OnlyOf(x) /\ script' = script /\ TypeOK /\ got' = got
  BY OnlyItsOwn DEF IInv, Count, Reject, Accept, Write, WriteFails, Return
<1>2. Message(x)' = Message(x) /\ StageOK(x)
  BY <1>1 DEF Message, IInv, SessionInv
<1> SUFFICES ASSUME NEW p \in Protocols
             PROVE  /\ requests'[p] = accepts'[p] + rejects'[p] + Cardinality(At(p, {"filter"}))'
                    /\ requests'[p] = timed'[p] + Cardinality(InHandle(p))'
                    /\ accepts'[p] = Cardinality(ReadOfKind(p, "query"))'
                                        - Cardinality(BeforeFilter(p, "query"))'
                    /\ rejects'[p] = Cardinality(ReadOfKind(p, "filtered"))'
                                        - Cardinality(BeforeFilter(p, "filtered"))'
  BY DEF CountersAddUp
<1> DEFINE own == Bit(Protocol(x) = p)
<1>3. own \in Nat /\ (own = IF Protocol(x) = p THEN 1 ELSE 0)
  BY DEF Bit
<1>4. /\ requests \in [Protocols -> Nat] /\ accepts \in [Protocols -> Nat]
      /\ rejects \in [Protocols -> Nat] /\ timed \in [Protocols -> Nat]
      /\ stage \in [Sessions -> Stages]
  BY <1>1 DEF TypeOK
<1>5. /\ Cardinality(ReadOfKind(p, "query"))' = Cardinality(ReadOfKind(p, "query")) + 0
      /\ Cardinality(ReadOfKind(p, "filtered"))' = Cardinality(ReadOfKind(p, "filtered")) + 0
  BY <1>1, ReadCounts
<1>6. CASE Count(x)
  <2>1. /\ requests'[p] = requests[p] + own /\ accepts'[p] = accepts[p] + 0
        /\ rejects'[p] = rejects[p] + 0 /\ timed'[p] = timed[p] + 0
    BY <1>3, <1>4, <1>6, IncBit DEF Count
  <2>2. stage[x] = "count" /\ stage'[x] = "filter" /\ Message(x) \in Kind
    BY <1>2, <1>4, <1>6 DEF Count, Goto, StageOK, Kind
  <2>3. /\ Bit(InFilter(p, x)) = 0 /\ Bit(InFilter(p, x)') = own
        /\ Bit(InHandler(p, x)) = 0 /\ Bit(InHandler(p, x)') = own
    BY <1>2, <1>3, <2>2 DEF InFilter, InHandler, Handled, Kind, Bit
  <2>4. \A k \in Kind : Bit(InFront(p, k, x)') = Bit(InFront(p, k, x)) /\ Bit(InFront(p, k, x)) \in Nat
    BY <1>2, <2>2 DEF InFront, Bit
  <2> HIDE DEF own
  <2>5. /\ own = 0 + 0 + Bit(InFilter(p, x)') - Bit(InFilter(p, x))
        /\ own = 0 + Bit(InHandler(p, x)') - Bit(InHandler(p, x))
        /\ 0 = 0 - Bit(InFront(p, "query", x)') + Bit(InFront(p, "query", x))
        /\ 0 = 0 - Bit(InFront(p, "filtered", x)') + Bit(InFront(p, "filtered", x))
    BY <1>3, <2>3, <2>4 DEF Kind
  <2> QED
    BY <1>1, <1>3, <1>5, <2>1, <2>5, CountingStep
<1>7. CASE Reject(x)
  <2>1. /\ requests'[p] = requests[p] + 0 /\ accepts'[p] = accepts[p] + 0
        /\ rejects'[p] = rejects[p] + own /\ timed'[p] = timed[p] + 0
    BY <1>3, <1>4, <1>7, IncBit DEF Reject
  <2>2. stage[x] = "filter" /\ stage'[x] = "write" /\ Message(x) = "filtered"
    BY <1>4, <1>7 DEF Reject, Reply, Goto
  <2>3. /\ Bit(InFilter(p, x)) = own /\ Bit(InFilter(p, x)') = 0
        /\ Bit(InHandler(p, x)) = own /\ Bit(InHandler(p, x)') = own
        /\ Bit(InFront(p, "query", x)) = 0 /\ Bit(InFront(p, "query", x)') = 0
        /\ Bit(InFront(p, "filtered", x)) = own /\ Bit(InFront(p, "filtered", x)') = 0
    BY <1>2, <1>3, <2>2 DEF InFilter, InHandler, InFront, Handled, Bit
  <2> HIDE DEF own
  <2>4. /\ 0 = 0 + own + Bit(InFilter(p, x)') - Bit(InFilter(p, x))
        /\ 0 = 0 + Bit(InHandler(p, x)') - Bit(InHandler(p, x))
        /\ 0 = 0 - Bit(InFront(p, "query", x)') + Bit(InFront(p, "query", x))
        /\ own = 0 - Bit(InFront(p, "filtered", x)') + Bit(InFront(p, "filtered", x))
    BY <1>3, <2>3
  <2> QED
    BY <1>1, <1>3, <1>5, <2>1, <2>4, CountingStep
<1>8. CASE Accept(x)
  <2>1. /\ requests'[p] = requests[p] + 0 /\ accepts'[p] = accepts[p] + own
        /\ rejects'[p] = rejects[p] + 0 /\ timed'[p] = timed[p] + 0
    BY <1>3, <1>4, <1>8, IncBit DEF Accept
  <2>2. stage[x] = "filter" /\ stage'[x] = "resolve" /\ Message(x) = "query"
    BY <1>2, <1>4, <1>8 DEF Accept, Goto, StageOK
  <2>3. /\ Bit(InFilter(p, x)) = own /\ Bit(InFilter(p, x)') = 0
        /\ Bit(InHandler(p, x)) = own /\ Bit(InHandler(p, x)') = own
        /\ Bit(InFront(p, "query", x)) = own /\ Bit(InFront(p, "query", x)') = 0
        /\ Bit(InFront(p, "filtered", x)) = 0 /\ Bit(InFront(p, "filtered", x)') = 0
    BY <1>2, <1>3, <2>2 DEF InFilter, InHandler, InFront, Handled, Bit
  <2> HIDE DEF own
  <2>4. /\ 0 = own + 0 + Bit(InFilter(p, x)') - Bit(InFilter(p, x))
        /\ 0 = 0 + Bit(InHandler(p, x)') - Bit(InHandler(p, x))
        /\ own = 0 - Bit(InFront(p, "query", x)') + Bit(InFront(p, "query", x))
        /\ 0 = 0 - Bit(InFront(p, "filtered", x)') + Bit(InFront(p, "filtered", x))
    BY <1>3, <2>3
  <2> QED
    BY <1>1, <1>3, <1>5, <2>1, <2>4, CountingStep
<1>9. CASE Write(x) \/ WriteFails(x)
  <2> DEFINE more == IF Handled(x) THEN own ELSE 0
  <2>1. /\ requests'[p] = requests[p] + 0 /\ accepts'[p] = accepts[p] + 0
        /\ rejects'[p] = rejects[p] + 0 /\ timed'[p] = timed[p] + more
    <3>1. /\ requests' = requests /\ accepts' = accepts /\ rejects' = rejects
          /\ timed' = IF Handled(x) THEN Inc(timed, x) ELSE timed
      BY <1>9 DEF Write, WriteFails, Return
    <3>2. /\ Inc(timed, x)[p] = timed[p] + own
          /\ requests[p] \in Nat /\ accepts[p] \in Nat /\ rejects[p] \in Nat /\ timed[p] \in Nat
      BY <1>4, IncBit
    <3> HIDE DEF own
    <3>3. CASE Handled(x)
      BY <3>1, <3>2, <3>3
    <3>4. CASE ~Handled(x)
      BY <3>1, <3>2, <3>4
    <3> QED
      BY <3>3, <3>4
  <2>2. stage[x] = "write" /\ stage'[x] \in {"read", "done"}
    BY <1>4, <1>9 DEF Write, WriteFails, Return, After, Goto
  <2>3. /\ Bit(InFilter(p, x)) = 0 /\ Bit(InFilter(p, x)') = 0
        /\ Bit(InHandler(p, x)) = more /\ Bit(InHandler(p, x)') = 0
        /\ Bit(InFront(p, "query", x)) = 0 /\ Bit(InFront(p, "query", x)') = 0
        /\ Bit(InFront(p, "filtered", x)) = 0 /\ Bit(InFront(p, "filtered", x)') = 0
    BY <1>3, <2>2 DEF InFilter, InHandler, InFront, Bit
  <2>4. more \in Nat
    BY <1>3
  <2> HIDE DEF more
  <2>5. /\ 0 = 0 + 0 + Bit(InFilter(p, x)') - Bit(InFilter(p, x))
        /\ 0 = more + Bit(InHandler(p, x)') - Bit(InHandler(p, x))
        /\ 0 = 0 - Bit(InFront(p, "query", x)') + Bit(InFront(p, "query", x))
        /\ 0 = 0 - Bit(InFront(p, "filtered", x)') + Bit(InFront(p, "filtered", x))
    BY <2>3, <2>4
  <2> QED
    BY <1>1, <1>5, <2>1, <2>4, <2>5, CountingStep
<1> QED
  BY <1>6, <1>7, <1>8, <1>9

(* At the start there is nothing to count.                                 *)
LEMMA InitCounts == Init => CountersAddUp
<1> SUFFICES ASSUME Init, NEW p \in Protocols
             PROVE  /\ requests[p] = accepts[p] + rejects[p] + Cardinality(At(p, {"filter"}))
                    /\ requests[p] = timed[p] + Cardinality(InHandle(p))
                    /\ accepts[p] = Cardinality(ReadOfKind(p, "query"))
                                        - Cardinality(BeforeFilter(p, "query"))
                    /\ rejects[p] = Cardinality(ReadOfKind(p, "filtered"))
                                        - Cardinality(BeforeFilter(p, "filtered"))
  BY DEF CountersAddUp
<1>1. At(p, {"filter"}) = {} /\ InHandle(p) = {}
  BY DEF Init, At, InHandle
<1>2. \A k : BeforeFilter(p, k) = {}
  BY DEF Init, At, BeforeFilter
<1>3. \A k : ReadOfKind(p, k) = {}
  <2> SUFFICES ASSUME NEW k, NEW e \in ReadOfKind(p, k) PROVE FALSE
    OBVIOUS
  <2>1. e[1] \in Sessions /\ e[2] \in 1..(MaxQueries + 1) /\ e[2] <= got[e[1]]
    BY DEF ReadOfKind
  <2>2. got[e[1]] = 0
    BY <2>1 DEF Init
  <2> QED
    BY <2>1, <2>2, MaxQueriesAssumption
<1>4. Cardinality({}) = 0
  BY FS_EmptySet
<1>5. requests[p] = 0 /\ accepts[p] = 0 /\ rejects[p] = 0 /\ timed[p] = 0
  BY DEF Init
<1> QED
  BY <1>1, <1>2, <1>3, <1>4, <1>5

(* Every step keeps the counters right.                                    *)
LEMMA NextCounts == IInv /\ CountersAddUp /\ [Next]_vars => CountersAddUp'
<1> SUFFICES ASSUME IInv, CountersAddUp, [Next]_vars PROVE CountersAddUp'
  OBVIOUS
<1>1. CASE UNCHANGED vars
  BY <1>1, NoSessionCounts DEF vars, input
<1>2. ASSUME Interrupt \/ (\E p \in Protocols : Listen(p) \/ ListenFails(p))
                \/ \E x \in Sessions : ResolvePanics(x) \/ UnpackPanics(x)
      PROVE  CountersAddUp'
  <2>1. UNCHANGED <<stage, script, got, counters>>
    BY <1>2 DEF Interrupt, Listen, ListenFails, ResolvePanics, UnpackPanics, input
  <2> QED
    BY <2>1, NoSessionCounts
<1>3. Conns \subseteq Sessions /\ Datagrams \subseteq Sessions
  BY DEF Sessions
<1>4. CASE Running
  BY <1>2, <1>3, <1>4, QuietActions, AcceptTCPCounts, ReceiveCounts, HandlerCounts
     DEF Running, AcceptLoop, Session, Goroutine
<1> QED
  BY <1>1, <1>4 DEF Next, Terminated

(* Whatever the handlers of both listeners interleave, no query is lost    *)
(* from the metrics, and none is counted twice.                            *)
THEOREM CountersRight == Spec => []CountersAddUp
  BY InitCounts, NextCounts, Invariant, PTL DEF Spec
-----------------------------------------------------------------------------
(* The accept loop has one connection in its hands, and the backlog has    *)
(* all the others that wait.                                               *)
LoopInv ==
    /\ \A c \in Conns : stage[c] = "queued" => \E i \in 1..Len(backlog) : backlog[i] = c
    /\ \A c, d \in Conns : stage[c] = "first" /\ stage[d] = "first" => c = d

(* Nobody is overtaken: a step leaves a connection of the backlog where it *)
(* is or brings it forward, and from the first place to the accept loop.   *)
KeepsItsTurn(i) ==
    \/ \E j \in 1..i : j \in 1..Len(backlog') /\ backlog'[j] = backlog[i]
    \/ i = 1 /\ stage'[backlog[i]] = "first"

InTurn == \A i \in 1..Len(backlog) : KeepsItsTurn(i)

(* How far a session is from its end, its messages unread aside.           *)
Rank(s) ==
    CASE s = "idle"    -> 9
      [] s = "queued"  -> 8
      [] s = "first"   -> 7
      [] s = "unpack"  -> 6
      [] s = "count"   -> 5
      [] s = "filter"  -> 4
      [] s = "resolve" -> 3
      [] s = "write"   -> 2
      [] s = "read"    -> 1
      [] OTHER         -> 0

(* The steps that a session can take at most: those of every message it is *)
(* yet to read, and the arrivals of those that have not arrived.           *)
StepsLeft(x) ==
    Rank(stage[x]) + 10 * (Len(script[x]) - got[x]) + (Len(script[x]) - arrived[x])

Advances(x) ==
    /\ StepsLeft(x)' < StepsLeft(x)
    /\ \A y \in Sessions \ {x} : StepsLeft(y)' = StepsLeft(y)

(* Every step takes one session forward, and none back, or it ends the     *)
(* process or brings up a listener.                                        *)
Progress ==
    \/ \E x \in Sessions : Advances(x)
    \/ ended = "no" /\ ended' # "no"
    \/ \E p \in Protocols : listener[p] = "starting" /\ listener'[p] = "up"

StepsAreNumbers == \A x \in Sessions : StepsLeft(x) \in Nat

(* At first nobody waits.                                                  *)
LEMMA InitLoop == Init => LoopInv
  BY DEF Init, LoopInv, Sessions

(* A connection that is not, and does not come, before the accept loop or  *)
(* into its hands leaves them alone.                                       *)
LEMMA LoopFrame ==
    ASSUME LoopInv, backlog' = backlog, NEW x \in Sessions,
           \A y \in Sessions \ {x} : stage'[y] = stage[y],
           x \in Conns => stage'[x] \notin {"queued", "first"} \/ stage'[x] = stage[x]
    PROVE  LoopInv'
<1>1. \A c \in Conns : stage'[c] \in {"queued", "first"} => stage'[c] = stage[c]
  BY DEF Sessions
<1> QED
  BY <1>1 DEF LoopInv

(* A connection queues up behind the others.                               *)
LEMMA ConnectKeepsTurns == ASSUME NEW c \in Conns PROVE IInv /\ LoopInv /\ Connect(c) => LoopInv' /\ InTurn
<1> SUFFICES ASSUME IInv, LoopInv, Connect(c) PROVE LoopInv' /\ InTurn
  OBVIOUS
<1>1. /\ backlog \in Seq(Conns) /\ backlog' = Append(backlog, c)
      /\ stage'[c] = "queued" /\ \A d \in Conns \ {c} : stage'[d] = stage[d]
  BY DEF IInv, TypeOK, Connect, Goto, Sessions
<1>2. /\ Len(backlog) \in Nat /\ Len(backlog') = Len(backlog) + 1 /\ backlog'[Len(backlog')] = c
      /\ \A i \in 1..Len(backlog) : i \in 1..Len(backlog') /\ backlog'[i] = backlog[i]
  BY <1>1
<1>3. Len(backlog') \in 1..Len(backlog')
  BY <1>2
<1>4. ASSUME NEW d \in Conns, stage'[d] = "queued" PROVE \E i \in 1..Len(backlog') : backlog'[i] = d
  <2>1. CASE d = c
    BY <1>2, <1>3, <2>1
  <2>2. CASE d # c
    <3>1. PICK i \in 1..Len(backlog) : backlog[i] = d
      BY <1>1, <1>4, <2>2 DEF LoopInv
    <3> QED
      BY <1>2, <3>1
  <2> QED
    BY <2>1, <2>2
<1>5. LoopInv'
  BY <1>1, <1>4 DEF LoopInv
<1>6. \A i \in 1..Len(backlog) : i \in 1..i
  OBVIOUS
<1>7. InTurn
  BY <1>2, <1>6 DEF InTurn, KeepsItsTurn
<1> QED
  BY <1>5, <1>7

(* The accept loop takes the first connection of the backlog.              *)
LEMMA AcceptKeepsTurns == IInv /\ LoopInv /\ AcceptTCP => LoopInv' /\ InTurn
<1> SUFFICES ASSUME IInv, LoopInv, AcceptTCP PROVE LoopInv' /\ InTurn
  OBVIOUS
<1>1. /\ backlog \in Seq(Conns) /\ backlog # <<>> /\ backlog' = Tail(backlog)
      /\ Head(backlog) = backlog[1] /\ 1 \in 1..Len(backlog) /\ Len(backlog) \in Nat
  BY DEF IInv, TypeOK, AcceptTCP
<1>2. PICK c \in Conns : c = backlog[1]
  BY <1>1
<1>3. /\ stage'[c] = "first" /\ \A d \in Conns \ {c} : stage'[d] = stage[d]
      /\ \A d \in Conns : stage[d] # "first"
  BY <1>1, <1>2 DEF IInv, TypeOK, AcceptTCP, Goto, Sessions
<1>4. \A i \in 1..Len(backlog) : i # 1 => i - 1 \in 1..Len(backlog') /\ i - 1 \in 1..i /\ backlog'[i - 1] = backlog[i]
  BY <1>1
<1>5. ASSUME NEW d \in Conns, stage'[d] = "queued" PROVE \E i \in 1..Len(backlog') : backlog'[i] = d
  <2>1. d # c
    BY <1>3, <1>5
  <2>2. PICK i \in 1..Len(backlog) : backlog[i] = d
    BY <1>3, <1>5, <2>1 DEF LoopInv
  <2> QED
    BY <1>2, <1>4, <2>1, <2>2
<1>6. LoopInv'
  BY <1>3, <1>5 DEF LoopInv
<1>7. InTurn
  BY <1>2, <1>3, <1>4 DEF InTurn, KeepsItsTurn
<1> QED
  BY <1>6, <1>7

(* Steps that leave the backlog alone keep everybody's turn.               *)
LEMMA SameBacklog == IInv /\ backlog' = backlog => InTurn
<1> SUFFICES ASSUME IInv, backlog' = backlog, NEW i \in 1..Len(backlog) PROVE KeepsItsTurn(i)
  BY DEF InTurn
<1>1. i \in 1..i
  BY DEF IInv, TypeOK
<1> QED
  BY <1>1 DEF KeepsItsTurn

(* No other step concerns the accept loop, except that it lets go of the   *)
(* connection it has.                                                      *)
LEMMA SessionKeepsTurns ==
    ASSUME NEW x \in Sessions, NEW s \in Stages, x \in Conns => s \notin {"queued", "first"}
    PROVE  IInv /\ LoopInv /\ Goto(x, s) /\ backlog' = backlog => LoopInv' /\ InTurn
<1> SUFFICES ASSUME IInv, LoopInv, Goto(x, s), backlog' = backlog PROVE LoopInv' /\ InTurn
  OBVIOUS
<1>1. /\ stage'[x] = s /\ \A y \in Sessions \ {x} : stage'[y] = stage[y]
  BY MoveFacts DEF IInv
<1> QED
  BY <1>1, LoopFrame, SameBacklog

(* What the goroutine of a session does with it.                           *)
LEMMA GoroutineMoves ==
    ASSUME IInv, NEW x \in Sessions, Unpack(x) \/ Count(x) \/ Reject(x) \/ Accept(x) \/ Resolve(x) \/ Write(x) \/ WriteFails(x)
    PROVE  /\ \E s \in Stages : Goto(x, s) /\ Rank(s) < Rank(stage[x]) /\ s \notin {"queued", "first"}
           /\ UNCHANGED <<backlog, input, got>>
<1>1. UNCHANGED <<backlog, input, got>>
  BY DEF Unpack, Count, Reject, Accept, Resolve, Write, WriteFails, Return
<1>2. CASE Unpack(x)
  <2>1. stage[x] = "unpack"
    BY <1>2 DEF Unpack
  <2>2. \E s \in {"write", "read", "done", "count"} : Goto(x, s)
    BY <1>2 DEF Unpack, Dispatch, Reply, After
  <2> QED
    BY <1>1, <2>1, <2>2 DEF Rank, Stages, Serving, Ends
<1>3. CASE Count(x)
  BY <1>1, <1>3 DEF Count, Rank, Stages, Serving
<1>4. CASE Reject(x)
  BY <1>1, <1>4 DEF Reject, Reply, Rank, Stages, Serving
<1>5. CASE Accept(x)
  BY <1>1, <1>5 DEF Accept, Rank, Stages, Serving
<1>6. CASE Resolve(x)
  BY <1>1, <1>6 DEF Resolve, Reply, Rank, Stages, Serving
<1>7. CASE Write(x) \/ WriteFails(x)
  <2>1. stage[x] = "write" /\ \E s \in {"read", "done"} : Goto(x, s)
    BY <1>7 DEF Write, WriteFails, Return, After
  <2> QED
    BY <1>1, <2>1 DEF Rank, Stages, Serving, Ends
<1> QED
  BY <1>2, <1>3, <1>4, <1>5, <1>6, <1>7

-----------------------------------------------------------------------------
(* A count of steps is a number, and falls with each of its parts.         *)
LEMMA CountFacts ==
    ASSUME NEW r \in 0..9, NEW l \in Nat, NEW g \in Nat, NEW a \in Nat, g <= a, a <= l
    PROVE  /\ r + 10 * (l - g) + (l - a) \in Nat
           /\ \A t \in 0..9 :
                /\ t < r => t + 10 * (l - g) + (l - a) < r + 10 * (l - g) + (l - a)
                /\ t < 7 => t + 10 * (l - (g + 1)) + (l - a) < r + 10 * (l - g) + (l - a)
                /\ t <= r => t + 10 * (l - g) + (l - (a + 1)) < r + 10 * (l - g) + (l - a)
<1>1. l - g \in Nat /\ l - a \in Nat /\ l - (g + 1) = (l - g) - 1 /\ l - (a + 1) = (l - a) - 1
  OBVIOUS
<1>2. r + 10 * (l - g) + (l - a) \in Nat
  BY <1>1
<1>3. ASSUME NEW t \in 0..9
      PROVE  /\ t < r => t + 10 * (l - g) + (l - a) < r + 10 * (l - g) + (l - a)
             /\ t < 7 => t + 10 * (l - (g + 1)) + (l - a) < r + 10 * (l - g) + (l - a)
             /\ t <= r => t + 10 * (l - g) + (l - (a + 1)) < r + 10 * (l - g) + (l - a)
  BY <1>1
<1> QED
  BY <1>2, <1>3

(* The steps left are numbers.                                             *)
LEMMA LeftFacts ==
    ASSUME IInv, NEW x \in Sessions
    PROVE  /\ Len(script[x]) \in Nat /\ got[x] \in Nat /\ arrived[x] \in Nat
           /\ got[x] <= arrived[x] /\ arrived[x] <= Len(script[x])
           /\ Rank(stage[x]) \in 0..9 /\ StepsLeft(x) \in Nat
<1>1. /\ Len(script[x]) \in Nat /\ got[x] \in Nat /\ arrived[x] \in Nat
      /\ got[x] <= arrived[x] /\ arrived[x] <= Len(script[x])
  BY ScriptFacts DEF IInv, TypeOK
<1>2. Rank(stage[x]) \in 0..9
  BY DEF Rank
<1> QED
  BY <1>1, <1>2, CountFacts DEF StepsLeft

(* A session that comes to a later stage has fewer steps left.             *)
LEMMA MoveAdvances ==
    ASSUME IInv, NEW x \in Sessions, NEW s \in Stages, Goto(x, s), Rank(s) < Rank(stage[x]),
           UNCHANGED <<input, got>>
    PROVE  Advances(x)
<1>1. stage'[x] = s /\ \A y \in Sessions \ {x} : stage'[y] = stage[y]
  BY MoveFacts DEF IInv
<1>2. \A y \in Sessions \ {x} : StepsLeft(y)' = StepsLeft(y)
  BY <1>1 DEF StepsLeft, input
<1>3. StepsLeft(x)' = Rank(s) + 10 * (Len(script[x]) - got[x]) + (Len(script[x]) - arrived[x])
  BY <1>1 DEF StepsLeft, input
<1>4. Rank(s) \in 0..9
  BY DEF Rank
<1> QED
  BY <1>2, <1>3, <1>4, LeftFacts, CountFacts DEF StepsLeft, Advances

(* One message less has to be read.                                        *)
LEMMA ReceiveAdvances ==
    ASSUME IInv, NEW x \in Sessions, NEW s \in {"unpack", "closed"}, Receive(x, s)
    PROVE  Advances(x)
<1>1. stage'[x] = s /\ \A y \in Sessions \ {x} : stage'[y] = stage[y]
  BY MoveFacts DEF IInv, Receive, Stages, Serving, Ends
<1>2. got'[x] = got[x] + 1 /\ \A y \in Sessions \ {x} : got'[y] = got[y]
  BY DEF IInv, TypeOK, Receive
<1>3. \A y \in Sessions \ {x} : StepsLeft(y)' = StepsLeft(y)
  BY <1>1, <1>2 DEF StepsLeft, Receive, input
<1>4. StepsLeft(x)' = Rank(s) + 10 * (Len(script[x]) - (got[x] + 1)) + (Len(script[x]) - arrived[x])
  BY <1>1, <1>2 DEF StepsLeft, Receive, input
<1>5. Rank(s) \in 0..9 /\ Rank(s) < 7
  BY DEF Rank
<1> QED
  BY <1>3, <1>4, <1>5, LeftFacts, CountFacts DEF StepsLeft, Advances

(* A message that arrives is on its way no longer.                         *)
LEMMA ArrivalAdvances ==
    ASSUME IInv, NEW x \in Sessions, (x \in Conns /\ Send(x)) \/ (x \in Datagrams /\ Datagram(x))
    PROVE  Advances(x)
<1>1. /\ arrived'[x] = arrived[x] + 1 /\ \A y \in Sessions \ {x} : arrived'[y] = arrived[y]
      /\ UNCHANGED <<script, got>>
  <2>1. CASE Send(x)
    BY <2>1 DEF Send, IInv, TypeOK
  <2>2. CASE Datagram(x)
    <3>1. arrived[x] = 0
      BY <2>2 DEF Datagram, IInv, SessionInv, StageOK
    <3> QED
      BY <2>2, <3>1 DEF Datagram, IInv, TypeOK
  <2> QED
    BY <2>1, <2>2
<1>2. Rank(stage'[x]) <= Rank(stage[x]) /\ \A y \in Sessions \ {x} : stage'[y] = stage[y]
  <2>1. CASE Send(x)
    <3>1. stage' = stage
      BY <2>1 DEF Send
    <3> QED
      BY <3>1, LeftFacts
  <2>2. CASE Datagram(x)
    <3>1. stage[x] = "idle" /\ stage'[x] = "queued" /\ \A y \in Sessions \ {x} : stage'[y] = stage[y]
      BY <2>2 DEF Datagram, Goto, IInv, TypeOK
    <3> QED
      BY <3>1 DEF Rank
  <2> QED
    BY <2>1, <2>2
<1>3. \A y \in Sessions \ {x} : StepsLeft(y)' = StepsLeft(y)
  BY <1>1, <1>2 DEF StepsLeft
<1>4. StepsLeft(x)' = Rank(stage'[x]) + 10 * (Len(script[x]) - got[x]) + (Len(script[x]) - (arrived[x] + 1))
  BY <1>1 DEF StepsLeft
<1>5. Rank(stage'[x]) \in 0..9
  BY DEF Rank
<1> QED
  BY <1>2, <1>3, <1>4, <1>5, LeftFacts, CountFacts DEF StepsLeft, Advances

-----------------------------------------------------------------------------
(* What a step that does not concern the process as a whole does.          *)
OneForward == LoopInv' /\ InTurn /\ \E x \in Sessions : Advances(x)

(* A session that only goes on to a later stage of its own.                *)
LEMMA MoveForward ==
    ASSUME IInv, LoopInv, NEW x \in Sessions, NEW s \in Stages, s \notin {"queued", "first"},
           Goto(x, s), Rank(s) < Rank(stage[x]), UNCHANGED <<backlog, input, got>>
    PROVE  OneForward
  BY SessionKeepsTurns, MoveAdvances DEF OneForward

(* A session that reads a message.                                         *)
LEMMA ReceiveForward ==
    ASSUME IInv, LoopInv, NEW x \in Sessions, NEW s \in {"unpack", "closed"}, Receive(x, s)
    PROVE  OneForward
<1>1. s \in Stages /\ Goto(x, s) /\ backlog' = backlog
  BY DEF Stages, Serving, Ends, Receive
<1> QED
  BY <1>1, SessionKeepsTurns, ReceiveAdvances DEF OneForward

(* The steps of a session are those of its goroutine and the panics.       *)
LEMMA SessionForward ==
    ASSUME IInv, LoopInv, NEW x \in Sessions, Session(x), ~ResolvePanics(x), ~UnpackPanics(x)
    PROVE  OneForward
<1>1. CASE Unpack(x) \/ Count(x) \/ Reject(x) \/ Accept(x) \/ Resolve(x) \/ Write(x) \/ WriteFails(x)
  BY <1>1, GoroutineMoves, MoveForward
<1>2. CASE ReadNext(x)
  BY <1>2, ReceiveForward DEF ReadNext
<1>3. CASE ReadNextFails(x)
  <2>1. /\ stage[x] = "read" /\ Goto(x, "closed") /\ UNCHANGED <<backlog, input, got>>
        /\ "closed" \in Stages
    BY <1>3 DEF ReadNextFails, Stages, Ends
  <2>2. Rank("closed") < Rank(stage[x])
    BY <2>1 DEF Rank
  <2> QED
    BY <2>1, <2>2, MoveForward
<1> QED
  BY <1>1, <1>2, <1>3 DEF Session, Goroutine

(* The steps of the clients and of the accept loop.                        *)
LEMMA OthersForward ==
    ASSUME IInv, LoopInv,
           \/ \E c \in Conns : Connect(c) \/ Send(c)
           \/ \E d \in Datagrams : Datagram(d) \/ ReadUDP(d)
           \/ AcceptLoop
    PROVE  OneForward
<1>1. Conns \subseteq Sessions /\ Datagrams \subseteq Sessions /\ Conns \intersect Datagrams = {}
  BY SessionsAssumption DEF Sessions
<1>2. {"queued", "first", "abandoned"} \subseteq Stages
  BY DEF Stages, Ends
<1>3. ASSUME NEW c \in Conns, Connect(c) PROVE OneForward
  <2>1. Goto(c, "queued") /\ stage[c] = "idle" /\ UNCHANGED <<input, got>>
    BY <1>3 DEF Connect
  <2>2. Rank("queued") < Rank(stage[c])
    BY <2>1 DEF Rank
  <2> QED
    BY <1>1, <1>2, <1>3, <2>1, <2>2, ConnectKeepsTurns, MoveAdvances DEF OneForward
<1>4. ASSUME NEW c \in Conns, Send(c) PROVE OneForward
  <2>1. stage' = stage /\ backlog' = backlog
    BY <1>4 DEF Send
  <2> QED
    BY <1>1, <1>4, <2>1, LoopFrame, SameBacklog, ArrivalAdvances DEF OneForward
<1>5. ASSUME NEW d \in Datagrams, Datagram(d) PROVE OneForward
  <2>1. Goto(d, "queued") /\ backlog' = backlog /\ d \in Sessions /\ d \notin Conns
    BY <1>1, <1>5 DEF Datagram
  <2> QED
    BY <1>2, <1>5, <2>1, SessionKeepsTurns, ArrivalAdvances DEF OneForward
<1>6. CASE \E d \in Datagrams : ReadUDP(d)
  BY <1>1, <1>6, ReceiveForward DEF ReadUDP
<1>7. CASE AcceptTCP
  <2>1. PICK c \in Conns : c = Head(backlog)
    BY <1>7 DEF AcceptTCP, IInv, TypeOK
  <2>2. Goto(c, "first") /\ UNCHANGED <<input, got>>
    BY <1>7, <2>1 DEF AcceptTCP
  <2>3. stage[c] = "queued"
    BY <1>7, <2>1 DEF AcceptTCP, IInv, TypeOK, BacklogInv
  <2>4. Rank("first") < Rank(stage[c])
    BY <2>3 DEF Rank
  <2> QED
    BY <1>1, <1>2, <1>7, <2>2, <2>4, AcceptKeepsTurns, MoveAdvances DEF OneForward
<1>8. CASE \E c \in Conns : ReadFirst(c)
  BY <1>1, <1>8, ReceiveForward DEF ReadFirst
<1>9. ASSUME NEW c \in Conns, ReadFirstFails(c) PROVE OneForward
  <2>1. /\ stage[c] = "first" /\ Goto(c, "abandoned") /\ UNCHANGED <<backlog, input, got>>
    BY <1>9 DEF ReadFirstFails
  <2>2. Rank("abandoned") < Rank(stage[c])
    BY <2>1 DEF Rank
  <2> QED
    BY <1>1, <1>2, <2>1, <2>2, MoveForward
<1> QED
  BY <1>3, <1>4, <1>5, <1>6, <1>7, <1>8, <1>9 DEF AcceptLoop

(* Every step keeps the turns of the backlog and takes a session forward,  *)
(* or concerns the process as a whole.                                     *)
LEMMA StepForward ==
    IInv /\ LoopInv /\ [Next]_vars => LoopInv' /\ [InTurn]_vars /\ [Progress]_vars
<1> SUFFICES ASSUME IInv, LoopInv, [Next]_vars PROVE LoopInv' /\ [InTurn]_vars /\ [Progress]_vars
  OBVIOUS
<1>1. CASE UNCHANGED vars
  BY <1>1 DEF vars, LoopInv
<1>2. CASE OneForward
  BY <1>2 DEF OneForward, Progress
<1>3. ASSUME ended = "no", Interrupt \/ (\E p \in Protocols : Listen(p) \/ ListenFails(p))
                \/ \E x \in Sessions : ResolvePanics(x) \/ UnpackPanics(x)
      PROVE  LoopInv' /\ InTurn /\ Progress
  <2>1. UNCHANGED <<stage, backlog>>
    BY <1>3 DEF Interrupt, Listen, ListenFails, ResolvePanics, UnpackPanics
  <2>2. LoopInv' /\ InTurn
    BY <2>1, SameBacklog DEF LoopInv
  <2>3. Progress
    <3>1. ASSUME NEW p \in Protocols, Listen(p) PROVE Progress
      BY <3>1 DEF Listen, Progress, IInv, TypeOK
    <3> QED
      BY <1>3, <3>1 DEF Interrupt, ListenFails, ResolvePanics, UnpackPanics, Progress
  <2> QED
    BY <2>2, <2>3
<1>4. CASE ended = "no" /\ Running
  BY <1>2, <1>3, <1>4, OthersForward, SessionForward DEF Running
<1> QED
  BY <1>1, <1>4 DEF Next, Terminated

(* Connections are accepted in the order in which they came, one at a      *)
(* time, whatever their clients do.                                        *)
THEOREM ServedInTurn == Spec => [][InTurn]_vars /\ []LoopInv
<1>1. Spec => []LoopInv
  BY InitLoop, StepForward, Invariant, PTL DEF Spec
<1> QED
  BY <1>1, StepForward, Invariant, PTL DEF Spec

(* No session goes on for ever: every step is one of those that it has     *)
(* left, and whatever one client does takes none from another.             *)
THEOREM SessionsAreFinite == Spec => [][Progress]_vars /\ []StepsAreNumbers
<1>1. IInv => StepsAreNumbers
  BY LeftFacts DEF StepsAreNumbers
<1>2. Spec => []LoopInv
  BY ServedInTurn, PTL
<1> QED
  BY <1>1, <1>2, StepForward, Invariant, PTL DEF Spec

-----------------------------------------------------------------------------
(* Who can go on. The accept loop, if a connection waits or is in its hands*)
(* (it has a deadline); the reader of datagrams; the goroutine of a session*)
(* unless it writes to a client that does not read.                        *)
LoopCan       == backlog # <<>> \/ \E c \in Conns : stage[c] = "first"
DatagramCan(d) == d \in Datagrams /\ stage[d] = "queued" /\ Unread(d)
SessionCan(x) == stage[x] \in Serving /\ ~(stage[x] = "write" /\ x \in Stalled)

(* Whoever has come and not gone can go on, or will when the accept loop   *)
(* has; only a client that does not read its own replies holds up itself.  *)
NobodyIsHeldUp ==
    \A x \in Sessions : stage[x] \notin {"idle"} \union Ends =>
        \/ SessionCan(x)
        \/ DatagramCan(x)
        \/ x \in Conns /\ stage[x] \in {"queued", "first"} /\ LoopCan
        \/ x \in Stalled /\ stage[x] = "write"

(* A datagram that waits has arrived.                                      *)
DatagramInv == \A d \in Datagrams : stage[d] = "queued" => arrived[d] = 1

(* A datagram does not come to wait without arriving.                      *)
LEMMA WaitsAsBefore ==
    ASSUME IInv, Running, NEW d \in Datagrams, stage'[d] = "queued", ~Datagram(d)
    PROVE  stage[d] = "queued" /\ arrived'[d] = arrived[d]
<1>1. /\ d \in Sessions /\ d \notin Conns
      /\ stage \in [Sessions -> Stages] /\ arrived \in [Sessions -> Nat] /\ backlog \in Seq(Conns)
  BY SessionsAssumption DEF IInv, TypeOK, Sessions
<1>2. ASSUME NEW x \in Sessions, NEW s, s # "queued" \/ x # d, Goto(x, s), UNCHANGED input
      PROVE  stage[d] = "queued" /\ arrived'[d] = arrived[d]
  BY <1>1, <1>2 DEF Goto, input
<1>3. ASSUME UNCHANGED <<stage, input>>
      PROVE  stage[d] = "queued" /\ arrived'[d] = arrived[d]
  BY <1>3 DEF input
<1>4. ASSUME NEW c \in Conns, Connect(c) \/ Send(c)
      PROVE  stage[d] = "queued" /\ arrived'[d] = arrived[d]
  BY <1>1, <1>4 DEF Connect, Send, Goto, input
<1>5. ASSUME NEW e \in Datagrams, Datagram(e)
      PROVE  stage[d] = "queued" /\ arrived'[d] = arrived[d]
  <2>1. e # d
    BY <1>5
  <2> QED
    BY <1>1, <1>5, <2>1 DEF Datagram, Goto
<1>6. ASSUME NEW x \in Sessions, NEW s \in {"unpack", "closed"}, Receive(x, s)
      PROVE  stage[d] = "queued" /\ arrived'[d] = arrived[d]
  BY <1>2, <1>6 DEF Receive
<1>7. CASE AcceptLoop
  <2>1. CASE AcceptTCP
    <3>1. Head(backlog) \in Conns /\ Goto(Head(backlog), "first") /\ UNCHANGED input
      BY <1>1, <2>1 DEF AcceptTCP
    <3> QED
      BY <1>2, <3>1 DEF Sessions
  <2>2. ASSUME NEW c \in Conns, ReadFirst(c) \/ ReadFirstFails(c)
        PROVE  stage[d] = "queued" /\ arrived'[d] = arrived[d]
    BY <1>2, <1>6, <2>2 DEF ReadFirst, ReadFirstFails, Sessions
  <2> QED
    BY <1>7, <2>1, <2>2 DEF AcceptLoop
<1>8. ASSUME NEW x \in Sessions, Session(x)
      PROVE  stage[d] = "queued" /\ arrived'[d] = arrived[d]
  <2>1. CASE ReadNext(x)
    BY <1>6, <2>1 DEF ReadNext
  <2>2. CASE ReadNextFails(x)
    BY <1>2, <2>2 DEF ReadNextFails
  <2>3. CASE ResolvePanics(x) \/ UnpackPanics(x)
    BY <1>3, <2>3 DEF ResolvePanics, UnpackPanics
  <2>4. CASE Unpack(x) \/ Count(x) \/ Reject(x) \/ Accept(x) \/ Resolve(x) \/ Write(x) \/ WriteFails(x)
    BY <1>2, <2>4, GoroutineMoves
  <2> QED
    BY <1>8, <2>1, <2>2, <2>3, <2>4 DEF Session, Goroutine
<1>9. CASE (\E p \in Protocols : Listen(p) \/ ListenFails(p)) \/ Interrupt
  BY <1>3, <1>9 DEF Listen, ListenFails, Interrupt
<1>10. ASSUME NEW e \in Datagrams, ReadUDP(e)
       PROVE  stage[d] = "queued" /\ arrived'[d] = arrived[d]
  BY <1>6, <1>10 DEF ReadUDP, Sessions
<1> QED
  BY <1>4, <1>5, <1>7, <1>8, <1>9, <1>10 DEF Running

(* Who waits has arrived, and stays so.                                    *)
LEMMA DatagramStep == IInv /\ DatagramInv /\ [Next]_vars => DatagramInv'
<1> SUFFICES ASSUME IInv, DatagramInv, [Next]_vars, NEW d \in Datagrams, stage'[d] = "queued"
             PROVE  arrived'[d] = 1
  BY DEF DatagramInv
<1>1. CASE UNCHANGED vars
  BY <1>1 DEF DatagramInv, vars, input
<1>2. CASE Datagram(d)
  BY <1>2 DEF Datagram, IInv, TypeOK, Sessions
<1>3. CASE Running /\ ~Datagram(d)
  BY <1>3, WaitsAsBefore DEF DatagramInv
<1> QED
  BY <1>1, <1>2, <1>3 DEF Next, Terminated

(* A silent client holds up the accept loop until its deadline, and a      *)
(* client that does not read holds up its own goroutine: nobody else is    *)
(* ever kept from going on, whatever is sent and however it is interleaved.*)
THEOREM NoneIsHeldUp == Spec => []NobodyIsHeldUp
<1>1. IInv /\ LoopInv /\ DatagramInv => NobodyIsHeldUp
  <2> SUFFICES ASSUME IInv, LoopInv, DatagramInv, NEW x \in Sessions, stage[x] \notin {"idle"} \union Ends
               PROVE  \/ SessionCan(x) \/ DatagramCan(x)
                      \/ x \in Conns /\ stage[x] \in {"queued", "first"} /\ LoopCan
                      \/ x \in Stalled /\ stage[x] = "write"
    BY DEF NobodyIsHeldUp
  <2>1. stage[x] \in {"queued", "first"} \union Serving
    BY DEF IInv, TypeOK, Stages
  <2>2. CASE stage[x] \in Serving
    BY <2>2 DEF SessionCan
  <2>3. CASE stage[x] = "first"
    BY <2>3 DEF LoopCan, IInv, SessionInv, StageOK
  <2>4. CASE stage[x] = "queued" /\ x \in Conns
    <3>1. PICK i \in 1..Len(backlog) : backlog[i] = x
      BY <2>4 DEF LoopInv
    <3>2. backlog # <<>>
      BY <3>1
    <3> QED
      BY <2>4, <3>2 DEF LoopCan
  <2>5. CASE stage[x] = "queued" /\ x \in Datagrams
    <3>1. got[x] = 0 /\ arrived[x] = 1
      BY <2>5 DEF IInv, SessionInv, StageOK, DatagramInv
    <3> QED
      BY <2>5, <3>1 DEF DatagramCan, Unread
  <2> QED
    BY <2>1, <2>2, <2>3, <2>4, <2>5 DEF Sessions
<1>2. Init => DatagramInv
  BY DEF Init, DatagramInv, Sessions
<1>3. Spec => []LoopInv
  BY ServedInTurn, PTL
<1> QED
  BY <1>1, <1>2, <1>3, DatagramStep, Invariant, PTL DEF Spec
=============================================================================
