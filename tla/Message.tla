------------------------------- MODULE Message -------------------------------
(***************************************************************************)
(* A message of miekg/dns as a program composes, sends and receives it:    *)
(* questions and records are added to its sections, records converted from *)
(* what etcd stores among them, it is packed into the buffer the last      *)
(* message was packed into, and what arrives, whole or cut (a datagram     *)
(* longer than the buffer it is read into), is unpacked.                   *)
(***************************************************************************)
EXTENDS Records

CONSTANT
    Suites      \* ways to use the library, each a record of
                \*   questions   the names asked for
                \*   asks        bound: the questions of a message
                \*   records     the records added: [name, number, type, v]
                \*   sections    the sections they are added to
                \*   stored      the values of a name: [name, type, values]
                \*   maxRecords  bound: the records of a message
                \*   compress    whether messages are compressed
                \*   reuse       whether the buffer of a message is used for the next
                \*   cut         whether a message may arrive cut

VARIABLES
    suite,      \* the suite
    msg,        \* the message being composed
    stored,     \* the values its answers were converted from
    buffer,     \* the buffer it will be packed into
    sent,       \* the last message packed, with the result
    received    \* what unpacking has made of it

vars == <<suite, msg, stored, buffer, sent, received>>

Empty   == [question |-> <<>>, truncated |-> FALSE, answer |-> <<>>, ns |-> <<>>, extra |-> <<>>]
Nothing == [err |-> "nothing"]

Init ==
    /\ suite \in Suites
    /\ msg = Empty
    /\ stored = <<>>
    /\ buffer = <<>>
    /\ sent = Nothing
    /\ received = Nothing

Ask ==
    /\ sent = Nothing
    /\ Len(msg.question) < suite.asks
    /\ Sections(msg) = <<>>
    /\ \E q \in suite.questions : msg' = [msg EXCEPT !.question = Append(@, <<q, 1, 1>>)]
    /\ UNCHANGED <<suite, stored, buffer, sent, received>>

(* A record is added to a section.                                         *)
Add ==
    /\ sent = Nothing
    /\ Len(Sections(msg)) < suite.maxRecords
    /\ \E rr \in suite.records, section \in suite.sections :
        msg' = [msg EXCEPT ![section] = Append(@, rr)]
    /\ UNCHANGED <<suite, stored, buffer, sent, received>>

(* The values of a name are converted to answers.                          *)
AddStored ==
    /\ sent = Nothing
    /\ msg.answer = <<>>
    /\ \E s \in suite.stored :
        /\ msg' = [msg EXCEPT !.answer = Converted(s.name, s.type, s.values)]
        /\ stored' = s.values
    /\ UNCHANGED <<suite, buffer, sent, received>>

(* A server that has no room sets the bit and sends what it has.           *)
Truncate ==
    /\ sent = Nothing
    /\ ~msg.truncated
    /\ msg' = [msg EXCEPT !.truncated = TRUE]
    /\ UNCHANGED <<suite, stored, buffer, sent, received>>

Send ==
    /\ sent = Nothing
    /\ sent' = PackBuffer(msg, buffer, suite.compress)
    /\ buffer' = IF suite.reuse THEN sent'.wire ELSE buffer
    /\ UNCHANGED <<suite, msg, stored, received>>

(* What arrives, the first n octets of it.                                 *)
Arrive(n) ==
    /\ sent # Nothing /\ received = Nothing
    /\ received' = (IF sent.err = "none" THEN Unpack(SubSeq(sent.wire, 1, n)) ELSE Nothing)
                       @@ [octets |-> n]
    /\ UNCHANGED <<suite, msg, stored, buffer, sent>>

Receive    == sent # Nothing /\ Arrive(Len(sent.wire))
ReceiveCut == sent # Nothing /\ suite.cut /\ \E n \in 0..Len(sent.wire) - 1 : Arrive(n)

StartOver ==
    /\ received # Nothing
    /\ msg' = Empty /\ stored' = <<>> /\ sent' = Nothing /\ received' = Nothing
    /\ UNCHANGED <<suite, buffer>>

Next == Ask \/ Add \/ AddStored \/ Truncate \/ Send \/ Receive \/ ReceiveCut \/ StartOver
Spec == Init /\ [][Next]_vars

-----------------------------------------------------------------------------
(* The octets that some records take, behind the questions and in a buffer *)
(* that is long enough, and those the first n of the message take.         *)
With(rrs) == [msg EXCEPT !.answer = rrs, !.ns = <<>>, !.extra = <<>>]
Ample     == [i \in 1..MsgLen(msg, FALSE) + 100 |-> 0]
OctetsOf(rrs) == Len(PackInto(Ample, With(rrs), suite.compress).out)
OctetsUpTo(n) == OctetsOf(SubSeq(Sections(msg), 1, n))
OctetsTaken   == OctetsUpTo(Len(Sections(msg)))

Added     == ToSet(Sections(msg))
HasBitMap(rr) == rr.type \in {"NSEC", "NSEC3"}
HasPorts(rr)  == rr.type = "WKS" /\ rr.v[3] # <<>>
BitMap(rr)    == Last(rr.v)
OctetsBeforeBitMap(n) ==
    OctetsOf(Append(SubSeq(Sections(msg), 1, n - 1), [Sections(msg)[n] EXCEPT !.v = Append(Front(@), <<>>)]))

(* The records that len() counts too few octets for: types that forget a   *)
(* field or the length of a text, options (two octets each), a bitmap with *)
(* a full window (32 octets and the two before them are counted as 33) or  *)
(* one whose first window is not window 0 (three octets are skipped), and  *)
(* the bitmap of a WKS.                                                    *)
Short(rr) ==
    \/ rr.type \in {"HINFO", "NSAPPTR", "TKEY", "L32"}
    \/ rr.type = "OPT" /\ rr.v # <<<<>>>>
    \/ HasBitMap(rr) /\ \E t \in ToSet(BitMap(rr)) : t % 256 >= 248 \/ BitMap(rr)[1] >= 256
    \/ HasPorts(rr)

(* A message is packed if and only if it takes at most one octet more than *)
(* len() counts, and so is every message without a record for which len()  *)
(* counts too few. Options for which there is no room are cut instead, and *)
(* the ports of a WKS are left out, in a message that is packed then.      *)
HasOptions == \E rr \in Added : rr.type = "OPT" /\ rr.v # <<<<>>>>
MayBeCut   == HasOptions \/ \E rr \in Added : HasPorts(rr)
HasRoom    == OctetsTaken <= MsgLen(msg, FALSE) + 1

EverythingPacks ==
    sent # Nothing =>
        /\ (\A rr \in Added : ~Short(rr)) => sent.err = "none"
        /\ HasRoom => sent.err = "none"
        /\ sent.err = "none" => HasRoom \/ MayBeCut \/ suite.reuse

(* What does not arrive as it was sent. Of a truncated message no record   *)
(* is read.                                                                *)
Read == IF msg.truncated THEN <<>> ELSE Sections(msg)

(* A name of no text takes no octet, and what follows is read in its place.*)
Nameless == \/ \E q \in ToSet(msg.question) : q[1] = <<>>
            \/ \E rr \in ToSet(Read) : rr.name = <<>>

(* The names that may be compressed, in the order they are packed.         *)
NamesOf(rr) ==
    <<rr.name>> \o SelectSeq([i \in 1..Len(rr.v) |-> IF Types[rr.type].fields[i] = "cname" THEN rr.v[i]
                                                     ELSE <<>>], LAMBDA n : n # <<>>)
NamesInOrder ==
    FoldLeft(LAMBDA ns, rr : ns \o NamesOf(rr), [i \in 1..Len(msg.question) |-> msg.question[i][1]],
             Read)

(* The pointers to follow for a name: one to where its longest ending that *)
(* is there already was first written, and those to follow from there.     *)
Endings(name) == [i \in 1..Len(Split(name)) |-> From(name, Split(name)[i])]
Pointers(known, name) ==
    LET there == {n \in ToSet(Endings(name)) : n \in DOMAIN known}
    IN  IF there = {} THEN 0 ELSE 1 + known[CHOOSE n \in there : \A m \in there : Len(m) <= Len(n)]
Follow(acc, name) ==
    [known |-> acc.known @@ [n \in ToSet(Endings(name)) |-> Pointers(acc.known, name)],
     most  |-> Max({acc.most, Pointers(acc.known, name)})]
TooManyPointers ==
    suite.compress /\ FoldLeft(Follow, [known |-> <<>>, most |-> 0], NamesInOrder).most > MaxPointers

(* The keys of a name in the table of compression, each with the ending it *)
(* stands for. Two endings may have the same key: escapes are undone in    *)
(* the text, and a dot that was quoted looks like one that was not.        *)
Keys1(name) ==
    LET p == PackDomainName(name, <<>>, 2 * Len(name) + 2, <<>>, TRUE)
    IN  {<<key, UnpackDomainName(p.out, p.table[key]).s>> : key \in DOMAIN p.table}
SameKey ==
    LET keys == UNION {Keys1(n) : n \in ToSet(NamesInOrder)}
    IN  suite.compress /\ \E k \in keys, l \in keys : k[1] = l[1] /\ k[2] # l[2]

(* Of the address of a subnet only the whole octets of the mask are read.  *)
OddMask(rr) == rr.type = "OPT" /\ \E o \in ToSet(rr.v[1]) : o.code = Subnet /\ o.mask % 8 # 0

(* The octets that are skipped in front of a bitmap are an empty window.   *)
SkipsWindow(rr) == HasBitMap(rr) /\ BitMap(rr) # <<>> /\ BitMap(rr)[1] >= 256

Spoilt ==
    \/ Nameless \/ TooManyPointers \/ SameKey
    \/ \E rr \in ToSet(Read) : HasPorts(rr) \/ OddMask(rr) \/ SkipsWindow(rr)
    \/ HasOptions /\ ~HasRoom /\ ~msg.truncated

(* What arrives whole is what was sent: the same questions and, if the     *)
(* message is not marked as truncated, the same records in their sections; *)
(* a CDNSKEY, that is in no table of types, as the octets it is made of,   *)
(* and in a buffer that is used again a bitmap with what it adds to. That  *)
(* is so if and only if nothing of what is listed above is in the message. *)
Unknown(rr) == rr.type = "CDNSKEY"
DataOctets(rr) ==
    PackData([out |-> <<>>, old |-> <<>>, size |-> RecordLen(rr), table |-> <<>>, compress |-> FALSE,
              err |-> "none"], rr).out
OnWire(rr) ==
    CASE rr.type = "A" -> [rr EXCEPT !.v = <<LastFour(@[1])>>]
      [] Unknown(rr)   -> [rr EXCEPT !.type = "RFC3597", !.v = <<HexDigits(DataOctets(rr))>>]
      [] OTHER         -> rr
OnWires(rrs) == [i \in DOMAIN rrs |-> OnWire(rrs[i])]
Expected ==
    IF msg.truncated THEN [msg EXCEPT !.answer = <<>>, !.ns = <<>>, !.extra = <<>>]
    ELSE [msg EXCEPT !.answer = OnWires(@), !.ns = OnWires(@), !.extra = OnWires(@)]

BitMapLess(rr) == [rr EXCEPT !.v = Front(@)]
SameRecord(r, s) ==
    /\ r.type = s.type
    /\ IF suite.reuse /\ HasBitMap(r)
       THEN BitMapLess(r) = BitMapLess(s) /\ ToSet(BitMap(s)) \subseteq ToSet(BitMap(r))
       ELSE r = s
SameRecords(rs, ss) == Len(rs) = Len(ss) /\ \A i \in 1..Len(rs) : SameRecord(rs[i], ss[i])
SameMessage(m, n) ==
    /\ m.question = n.question /\ m.truncated = n.truncated
    /\ \A section \in {"answer", "ns", "extra"} : SameRecords(m[section], n[section])

IsCut   == received.octets < Len(sent.wire)
Arrived == received # Nothing /\ received.err = "none" /\ ~IsCut

ArrivesAsSent ==
    received # Nothing /\ sent.err = "none" /\ ~IsCut =>
        ((received.err = "none" /\ SameMessage(received.m, Expected)) <=> ~Spoilt)

(* A message that arrives cut is refused or, if a field ends just there,   *)
(* is unpacked to what was before the cut as it was sent, a question or a  *)
(* record that lacks what was behind it (a record: all its data), and then *)
(* nothing but empty ones: no names, no types, no data. It is never taken  *)
(* for another message. If the cut lies in a record with options or with a *)
(* bitmap, unpacking may run over the end of the message and panic.        *)
NoData(rr)     == rr.v = [i \in 1..Len(rr.v) |-> Zero(Types[rr.type].fields[i])]
EmptyRecord(rr) == rr.name = <<>> /\ rr.number = 0 /\ NoData(rr)
PartOfRecord(r, s) == r.name \in {<<>>, s.name} /\ r.number \in {0, s.number} /\ NoData(r)

EmptyQuestion == <<<<>>, 0, 0>>
PartOfQuestion(p, q) == p[1] \in {<<>>, q[1]} /\ p[2] \in {0, q[2]} /\ p[3] \in {0, q[3]}

(* Where the header has the number of questions and records, and what is   *)
(* left of it.                                                             *)
Counted == [question |-> 6, answer |-> 8, ns |-> 10, extra |-> 12]
Left(section) == IF received.octets < Counted[section] THEN <<>> ELSE Expected[section]

BeforeCut(k) ==
    LET got  == Sections(received.m)
        want == (Left("answer") \o Left("ns")) \o Left("extra")
        asked == Left("question")
    IN  /\ Len(got) = Len(want) /\ Len(received.m.question) = Len(asked)
        /\ \A i \in 1..Len(asked) :
            CASE i <= k    -> received.m.question[i] = asked[i]
              [] i = k + 1 -> PartOfQuestion(received.m.question[i], asked[i])
              [] i > k + 1 -> received.m.question[i] = EmptyQuestion
        /\ \A i \in 1..Len(want) :
            CASE i + Len(asked) <= k    -> SameRecord(got[i], want[i])
              [] i + Len(asked) = k + 1 -> PartOfRecord(got[i], want[i])
              [] i + Len(asked) > k + 1 -> EmptyRecord(got[i])

CutInside(i) == received.octets > OctetsUpTo(i - 1) /\ received.octets < OctetsUpTo(i)

CutIsSeen ==
    received # Nothing /\ sent.err = "none" /\ IsCut /\ ~Spoilt =>
        /\ received.err = "none" => \E k \in 0..Len(msg.question) + Len(Sections(msg)) : BeforeCut(k)
        /\ received.err = "panic" =>
            \E i \in 1..Len(Sections(msg)) :
                CutInside(i) /\ (HasBitMap(Sections(msg)[i]) \/ Sections(msg)[i].type = "OPT")

(* What a message is packed to does not depend on what the buffer holds    *)
(* but for the octets of a bitmap: what has room in a new buffer packs     *)
(* into one that is used again, and only those octets may differ.          *)
BitMapOctets ==
    UNION {OctetsBeforeBitMap(i) + 1 .. OctetsUpTo(i) : i \in {j \in 1..Len(Sections(msg)) :
                HasBitMap(Sections(msg)[j]) \/ HasPorts(Sections(msg)[j])}}

BufferDoesNotMatter ==
    LET fresh == PackBuffer(msg, <<>>, suite.compress)
    IN  sent # Nothing /\ HasRoom =>
            /\ sent.err = "none" /\ Len(sent.wire) = Len(fresh.wire)
            /\ \A i \in 1..Len(fresh.wire) : sent.wire[i] # fresh.wire[i] => i \in BitMapOctets

(* What a client sees of a name is what etcd stores for it: the values of  *)
(* the type, all of them or none, in their order, each number in full.     *)
RECURSIVE Decimal(_)
Decimal(n) == (IF n < 10 THEN <<>> ELSE Decimal(n \div 10)) \o <<48 + (n % 10)>>

TextOf(rr) ==
    LET mapped(octets) == IF Len(octets) = 16 THEN octets ELSE [i \in 1..10 |-> 0] \o <<255, 255>> \o octets
        text(i) == CASE rr.type \in {"A", "AAAA"} -> CHOOSE t \in DOMAIN ParseIP : ParseIP[t] = mapped(rr.v[i])
                     [] rr.type = "TXT" -> rr.v[i][1]
                     [] Width(Types[rr.type].fields[i]) > 0 -> Decimal(rr.v[i])
                     [] OTHER -> rr.v[i]
        said == SelectSeq([i \in 1..Len(rr.v) |-> i], LAMBDA i : rr.type # "SOA" \/ i # 3)
    IN  Tail(FoldLeft(LAMBDA t, i : (t \o <<Tab>>) \o text(i), <<>>, said))

ServedAsStored ==
    Arrived /\ ~msg.truncated /\ stored # <<>> /\ received.m.answer # <<>> =>
        /\ Len(received.m.answer) = Len(stored)
        /\ \A i \in 1..Len(stored) :
            LET text == TextOf(received.m.answer[i])
            IN  text = stored[i] \/ text = stored[i] \o Root
=============================================================================
