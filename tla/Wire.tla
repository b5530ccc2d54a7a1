-------------------------------- MODULE Wire --------------------------------
(***************************************************************************)
(* Records and messages of miekg/dns on the wire (msg.go, edns.go): a      *)
(* field by its kind, a record by the row of its type, a message by its    *)
(* sections. Values: a name or a string is a text of octets, txt and names *)
(* sequences of them, uN a number, hex a sequence of digits 0..15, base64  *)
(* and base32 the octets they encode, an address its octets, nsec and wks  *)
(* sequences of numbers, opt a sequence of options.                        *)
(***************************************************************************)
EXTENDS Names, Types

CONSTANT HashSize       \* 20: the octets of a hash in an NSEC3

ASSUME HashSizeAssumption == HashSize \in Nat

SumOver(seq, Op(_)) == FoldLeft(LAMBDA sum, x : sum + Op(x), 0, seq)
Width(kind) == CASE kind = "u8" -> 1 [] kind = "u16" -> 2 [] kind = "u32" -> 4
                 [] kind = "u48" -> 6 [] kind = "u64" -> 8 [] OTHER -> 0
Octets(n, width) ==     \* big endian, of numbers below 2^24
    [i \in 1..width |-> IF width - i > 2 THEN 0 ELSE (n \div 256^(width - i)) % 256]
FromOctets(os) == FoldLeft(LAMBDA n, o : (n * 256) + o, 0, os)
RoundUp(n, k)  == (n + k - 1) \div k

-----------------------------------------------------------------------------
(* Character strings of TXT records: escapes as in names, but \DDD and the *)
(* letters only. Texts are shorter than the scratch buffer (1025 octets).  *)
RECURSIVE StringOctets(_)
StringOctets(s) ==
    IF s = <<>> THEN <<>>
    ELSE IF Head(s) # Backslash THEN <<Head(s)>> \o StringOctets(Tail(s))
    ELSE IF Len(s) = 1 THEN <<>>
    ELSE IF Len(s) > 3 /\ \A i \in 2..4 : IsDigit(s[i])
         THEN <<DddToByte(SubSeq(s, 2, 4))>> \o StringOctets(From(s, 4))
    ELSE <<Letter(s[2])>> \o StringOctets(From(s, 2))

StringWritten(c) ==
    IF c \in {34, Backslash} THEN <<Backslash, c>>
    ELSE IF c = 9 THEN <<Backslash, 116>>
    ELSE IF c = 13 THEN <<Backslash, 114>>
    ELSE IF c = 10 THEN <<Backslash, 110>>
    ELSE IF c \notin 32..127
         THEN <<Backslash, 48 + c \div 100, 48 + ((c \div 10) % 10), 48 + (c % 10)>>
    ELSE <<c>>

StringText(os) == FoldLeft(LAMBDA txt, c : txt \o StringWritten(c), <<>>, os)

-----------------------------------------------------------------------------
(* EDNS0 options: that of a client subnet has a structure, the others are  *)
(* octets.                                                                 *)
Subnet == 8

Masked(address, mask) ==
    [i \in 1..Len(address) |->
        LET bits == IF mask >= 8 * i THEN 8 ELSE IF mask > 8 * (i - 1) THEN mask - (8 * (i - 1)) ELSE 0
        IN  address[i] - (address[i] % 2^(8 - bits))]

(* As many octets of the address as the mask touches.                      *)
SubnetPack(o) ==
    Octets(o.family, 2) \o <<o.mask, 0>> \o SubSeq(Masked(o.address, o.mask), 1, RoundUp(o.mask, 8))

(* Only the octets the mask covers are taken.                              *)
SubnetUnpack(b) ==
    LET mask == b[3]
        size == IF FromOctets(SubSeq(b, 1, 2)) = 1 THEN 4 ELSE 16
    IN  [code |-> Subnet, family |-> FromOctets(SubSeq(b, 1, 2)), mask |-> mask,
         address |-> [i \in 1..size |-> IF i <= mask \div 8 THEN b[4 + i] ELSE 0]]

OptionPack(o) == IF o.code = Subnet THEN SubnetPack(o) ELSE o.data
OptionUnpack(code, b) == IF code = Subnet THEN SubnetUnpack(b) ELSE [code |-> code, data |-> b]

-----------------------------------------------------------------------------
(* What len() counts for a field. The windows of a bitmap are counted when *)
(* they change, and the number before the first one is 2 ^ 32 + 1, in Go   *)
(* an exclusive or: 35.                                                    *)
Windows(types) ==
    {i \in 1..Len(types) : types[i] \div 256 # (IF i = 1 THEN 35 ELSE types[i - 1] \div 256)}

FieldLen(kind, v) ==
    CASE kind \in {"cname", "name", "string"} -> Len(v) + 1
      [] kind \in {"names", "txt"}            -> SumOver(v, LAMBDA s : Len(s) + 1)
      [] kind \in {"hex", "hexs", "hit"}      -> Len(v) \div 2
      [] kind \in {"base64", "hitkey"}        -> 3 * RoundUp(Len(v), 3)
      [] kind = "base32s"                     -> 8 * RoundUp(Len(v), 5)
      [] kind = "a"                           -> 4
      [] kind = "aaaa"                        -> 16
      [] kind = "nsec"                        -> 33 * Cardinality(Windows(v))
      [] kind = "opt"                         -> SumOver(v, LAMBDA o : 2 + Len(OptionPack(o)))
      [] OTHER                                -> Width(kind)

(* The gateway of an IPSECKEY is one of three fields.                      *)
GatewayLen(v) == IF v[2] = 1 THEN 5 ELSE IF v[2] = 2 THEN 17 ELSE Len(v[6]) + 1

(* Mutant: the two octets of the length of the data are not counted.       *)
HeaderLen_NoRdlength(name) == Len(name) + 1 + 8

HeaderLen(name) == Len(name) + 1 + 10

RecordLen(rr) ==
    LET row == Types[rr.type]
        In(i) == FieldLen(row.fields[i], rr.v[i])
    IN  HeaderLen(rr.name) + row.slack + SumOver([i \in 1..Len(rr.v) |-> i], In)
        + IF rr.type = "IPSECKEY" THEN GatewayLen(rr.v) ELSE 0

-----------------------------------------------------------------------------
(* Packing. st has the octets written so far (out), the size of the buffer *)
(* and what an earlier message left in it (old), the table of compression  *)
(* and whether it is used, and the error.                                  *)
Put(st, octets, err) ==
    IF Len(st.out) + Len(octets) > st.size THEN Failed(st, err)
    ELSE [st EXCEPT !.out = @ \o octets]

Behind(st, p) == [st EXCEPT !.out = p.out, !.table = p.table, !.err = p.err]
PutName(st, name, compress) ==
    Behind(st, PackDomainName(name, st.out, st.size, st.table, compress /\ st.compress))

PutString(st, s) ==
    LET octets == StringOctets(s)
    IN  IF Len(octets) > 255 THEN Failed(st, "string exceeded 255 bytes in txt")
        ELSE Put(st, <<Len(octets)>> \o octets, "ErrBuf")

WithBit(octet, bit) == IF (octet \div 2^(7 - bit)) % 2 = 1 THEN octet ELSE octet + 2^(7 - bit)

(* The buffer: what is written, and behind it what was there before.       *)
Whole(st) == st.out \o From(st.old, Len(st.out))

(* The bitmap of an NSEC: the bits are added to what is in the buffer, and *)
(* a window starts behind the last octet written, the first one too if it  *)
(* is not window 0. Of the last octet nobody asks whether there is room.   *)
PutBitMap(st, types) ==
    LET Step(b, t) ==
            LET window == t \div 256
                off    == IF window = b.last THEN b.off ELSE b.off + b.length + 3
                length == (t % 256) \div 8
            IN  CASE b.err # "none" -> b
                  [] off + 2 + length > st.size -> Failed(b, "overflow packing nsecx bitmap")
                  [] off + 2 + length = st.size -> Failed(b, "panic")
                  [] OTHER -> [b EXCEPT !.off = off, !.length = length, !.last = window,
                                        !.m[off + 1] = window, !.m[off + 2] = length + 1,
                                        !.m[off + 3 + length] = WithBit(@, t % 8)]
        b == FoldLeft(Step, [off |-> Len(st.out), length |-> 0, last |-> 0, m |-> Whole(st),
                             err |-> "none"], types)
    IN  IF types = <<>> THEN st
        ELSE IF b.err # "none" THEN Failed(st, b.err)
        ELSE [st EXCEPT !.out = SubSeq(b.m, 1, b.off + b.length + 3)]

(* The bitmap of a WKS is written from the start of the message: over the  *)
(* header, for the ports below 96. The record goes on by what is in the    *)
(* buffer, up to the octet of the last port, be it beyond the end of it.   *)
PutPorts(st, ports) ==
    LET Step(b, p) ==
            CASE b.err # "none"        -> b
              [] p \div 8 > st.size -> Failed(b, "overflow packing wks")
              [] p \div 8 = st.size -> Failed(b, "panic")
              [] OTHER              -> [b EXCEPT !.m[(p \div 8) + 1] = 2^(7 - (p % 8))]
        b   == FoldLeft(Step, [m |-> Whole(st), err |-> "none"], ports)
        off == Len(st.out) + (Last(ports) \div 8)
    IN  IF Len(st.out) = st.size \/ ports = <<>> THEN st
        ELSE IF b.err # "none" THEN Failed(st, b.err)
        ELSE [st EXCEPT !.out = [i \in 1..off |-> IF i <= Len(b.m) THEN b.m[i] ELSE 0]]

(* An option that does not fit is cut at the end of the buffer.            *)
PutCut(st, data) ==
    IF st.err # "none" THEN st
    ELSE [st EXCEPT !.out = @ \o SubSeq(data, 1, Min({st.size - Len(@), Len(data)}))]

PutOptionData(st, code, data) ==
    PutCut(Put(st, Octets(code, 2) \o Octets(Len(data), 2), "panic"), data)

PutOption(st, o) == PutOptionData(st, o.code, OptionPack(o))

PutHex(st, digits, err) ==
    IF Len(digits) % 2 = 1 THEN Failed(st, "odd length hex string")
    ELSE Put(st, [i \in 1..Len(digits) \div 2 |-> (16 * digits[2 * i - 1]) + digits[2 * i]], err)

(* Of an address of sixteen octets, the last four.                         *)
LastFour(octets) == IF Len(octets) = 16 THEN From(octets, 12) ELSE octets

(* One field. v are the values of the record, for the kinds that depend on *)
(* another one; each is its value.                                         *)
PutField(st, kind, v, i) ==
    LET each == v[i]
    IN  CASE st.err # "none" -> st
          [] kind \in {"u8", "u16", "u32", "u48", "u64"} ->
                Put(st, Octets(each, Width(kind)), "overflow")
          [] kind = "gwname" /\ v[2] \in {1, 2}  -> st
          [] kind \in {"cname", "name", "gwname"} -> PutName(st, each, kind = "cname")
          [] kind = "names"  -> FoldLeft(LAMBDA s, n : IF s.err = "none" THEN PutName(s, n, FALSE)
                                                       ELSE s, st, each)
          [] kind = "string" -> PutString(st, each)
          [] kind = "txt"    -> FoldLeft(LAMBDA s, t : IF s.err = "none" THEN PutString(s, t)
                                                       ELSE s, st, each)
          [] kind \in {"hex", "hexs", "hit"} -> PutHex(st, each, "overflow packing hex")
          [] kind \in {"base64", "hitkey"}   -> Put(st, each, "panic")
          [] kind = "base32s" -> Put([st EXCEPT !.out[Len(st.out)] = HashSize], each, "panic")
          [] kind = "a"       -> Put(st, LastFour(each), "overflow packing a")
          [] kind = "aaaa"    -> Put(st, each, "overflow packing aaaa")
          [] kind = "nsec"    -> PutBitMap(st, each)
          [] kind = "wks"     -> PutPorts(st, each)
          [] kind = "opt"     -> FoldLeft(LAMBDA s, o : IF s.err = "none" THEN PutOption(s, o)
                                                        ELSE s, st, each)
          [] kind = "gwa"     -> IF v[2] = 1 THEN Put(st, each, "overflow packing a") ELSE st
          [] kind = "gwaaaa"  -> IF v[2] = 2 THEN Put(st, each, "overflow packing aaaa") ELSE st

PutFields(st, kinds, v) ==
    FoldLeft(LAMBDA s, i : PutField(s, kinds[i], v, i), st, [i \in 1..Len(v) |-> i])

(* Where the name at off ends.                                             *)
RECURSIVE BehindName(_, _)
BehindName(m, off) ==
    CASE At(m, off) = 0    -> off + 1
      [] At(m, off) >= 192 -> off + 2
      [] OTHER             -> BehindName(m, off + 1 + At(m, off))

(* The length of the data is set in the header afterwards: eight octets    *)
(* behind the first name that is found there. An owner that took no octet  *)
(* makes it the wrong ones.                                                *)
WithLength(st, start) ==
    LET at       == BehindName(Whole(st), start) + 8
        rdlength == Octets((Len(st.out) - at - 2) % 65536, 2)
    IN  IF st.err # "none" THEN st
        ELSE IF at + 2 > st.size THEN Failed(st, "ErrRdata")
        ELSE [st EXCEPT !.out = [i \in 1..Len(@) |-> IF i \in {at + 1, at + 2} THEN rdlength[i - at]
                                                     ELSE @[i]]]

(* A record: its header (class and ttl are zero here) and its data.        *)
PackData(header, rr) == PutFields(header, Types[rr.type].fields, rr.v)

PackRR(st, rr) ==
    WithLength(PackData(PutFields(st, <<"cname", "u16", "u16", "u32", "u16">>,
                                  <<rr.name, rr.number, 0, 0, 0>>), rr), Len(st.out))

-----------------------------------------------------------------------------
(* Unpacking. st has the offset, where the data of the record end (0 while *)
(* that is not known), the values so far and the error.                    *)
Zero(kind) == IF Width(kind) > 0 THEN 0 ELSE <<>>
Got(st, v, off) == [st EXCEPT !.v = Append(@, v), !.off = off]

GetNumber(msg, st, width) ==
    IF st.off + width > Len(msg) THEN Failed(st, "overflow")
    ELSE Got(st, FromOctets(Slice(msg, st.off, st.off + width)), st.off + width)

GetName(msg, st) ==
    LET u == UnpackDomainName(msg, st.off)
    IN  IF u.err # "none" THEN Failed(st, u.err) ELSE Got(st, u.s, u.off)

(* size octets; end is where they have to end at the latest.               *)
GetOctets(msg, st, size, end, Value(_)) ==
    IF st.off + size > end \/ st.off + size > Len(msg) THEN Failed(st, "overflow")
    ELSE Got(st, Value(Slice(msg, st.off, st.off + size)), st.off + size)

AsIs(os)      == os
HexDigits(os) == [i \in 1..2 * Len(os) |->
                     IF i % 2 = 1 THEN os[(i + 1) \div 2] \div 16 ELSE os[i \div 2] % 16]

GetString(msg, st) ==
    IF st.off + 1 > Len(msg) THEN Failed(st, "overflow unpacking txt")
    ELSE GetOctets(msg, [st EXCEPT !.off = @ + 1], At(msg, st.off), Len(msg), StringText)

(* As many of what Get gets as there are before the end of the data.       *)
GetAll(msg, st, Get(_, _)) ==
    LET RECURSIVE From1(_)
        From1(s) == IF s.err # "none" \/ s.off >= st.end THEN s ELSE From1(Get(msg, s))
        all == From1([st EXCEPT !.v = <<>>])
    IN  IF all.err # "none" THEN Failed(st, all.err) ELSE Got(st, all.v, all.off)

BitsOf(octet) == SelectSeq([i \in 1..8 |-> i - 1], LAMBDA bit : (octet \div 2^(7 - bit)) % 2 = 1)
NumbersIn(os, first) ==
    FoldLeft(LAMBDA ns, i : ns \o [j \in 1..Len(BitsOf(os[i])) |-> first + (8 * (i - 1)) + BitsOf(os[i])[j]],
             <<>>, [i \in 1..Len(os) |-> i])

(* The windows of a bitmap.                                                *)
GetBitMap(msg, st) ==
    LET RECURSIVE From1(_, _)
        From1(off, types) ==
            LET window == At(msg, off)
                length == At(msg, off + 1)
            IN  IF off + 2 >= st.end THEN Got(st, types, off)
                ELSE IF off + 2 > Len(msg) THEN Failed(st, "panic")
                ELSE IF length \notin 1..32 \/ off + 2 + length > Len(msg)
                THEN Failed(st, "overflow unpacking nsecx")
                ELSE From1(off + 2 + length,
                           types \o NumbersIn(Slice(msg, off + 2, off + 2 + length), 256 * window))
    IN  IF st.off + 2 > st.end \/ st.off + 2 > Len(msg) THEN Failed(st, "overflow unpacking nsecx")
        ELSE From1(st.off, <<>>)

(* An option: the octets of its head are taken without asking whether they *)
(* are there, and so are its data if the record says that they are.        *)
GetOption(msg, st) ==
    LET code   == FromOctets(Slice(msg, st.off, st.off + 2))
        optlen == FromOctets(Slice(msg, st.off + 2, st.off + 4))
        end    == st.off + 4 + optlen
    IN  CASE st.off + 2 > Len(msg) -> Failed(st, "overflow unpacking opt")
          [] st.off + 4 > Len(msg) -> Failed(st, "panic")
          [] end > st.end          -> Failed(st, "overflow unpacking opt")
          [] end > Len(msg)        -> Failed(st, "panic")
          [] OTHER -> Got(st, OptionUnpack(code, Slice(msg, st.off + 4, end)), end)

Missing(msg, st, kind) ==
    \/ kind \in {"u8", "u16", "u32", "name", "cname", "string", "txt", "hex", "hexs", "hit", "base64",
                 "hitkey", "base32s"} /\ st.off = Len(msg)
    \/ kind \in {"txt", "opt", "a", "aaaa", "gwa", "gwaaaa", "nsec"} /\ st.off = st.end
    \/ kind = "gwa" /\ st.v[2] # 1
    \/ kind = "gwaaaa" /\ st.v[2] # 2
    \/ kind = "gwname" /\ (st.v[2] \in {1, 2} \/ st.off = Len(msg))

(* One field: nothing once the data or, for many kinds, the message have   *)
(* come to an end.                                                         *)
GetField(msg, st, kind) ==
    CASE st.err # "none" -> st
      [] st.end # 0 /\ st.end = st.off -> Got(st, Zero(kind), st.off)
      [] st.off > Len(msg)       -> Failed(st, "bad offset unpacking")
      [] Missing(msg, st, kind)  -> Got(st, Zero(kind), st.off)
      [] OTHER ->
            CASE Width(kind) > 0 -> GetNumber(msg, st, Width(kind))
              [] kind \in {"name", "cname", "gwname"} -> GetName(msg, st)
              [] kind = "names"   -> GetAll(msg, st, GetName)
              [] kind = "string"  -> GetString(msg, st)
              [] kind = "txt"     -> GetAll(msg, st, GetString)
              [] kind = "hex"     -> GetOctets(msg, st, st.end - st.off, st.end, HexDigits)
              [] kind = "hexs"    -> GetOctets(msg, st, Last(st.v), Len(msg), HexDigits)
              [] kind = "hit"     -> GetOctets(msg, st, st.v[1], st.end, HexDigits)
              [] kind = "base64"  -> GetOctets(msg, st, st.end - st.off, st.end, AsIs)
              [] kind = "hitkey"  -> GetOctets(msg, st, st.v[3], st.end, AsIs)
              [] kind = "base32s" -> GetOctets(msg, st, Last(st.v), Len(msg), AsIs)
              [] kind \in {"a", "gwa"}       -> GetOctets(msg, st, 4, st.end, AsIs)
              [] kind \in {"aaaa", "gwaaaa"} -> GetOctets(msg, st, 16, st.end, AsIs)
              [] kind = "nsec"    -> GetBitMap(msg, st)
              [] kind = "wks"     -> GetOctets(msg, st, st.end - st.off, Len(msg),
                                               LAMBDA os : NumbersIn(os, 0))
              [] kind = "opt"     -> GetAll(msg, st, GetOption)

GetFields(msg, off, end, kinds) ==
    FoldLeft(LAMBDA st, kind : GetField(msg, st, kind),
             [off |-> off, end |-> end, v |-> <<>>, err |-> "none"], kinds)

NoRecord(err) == [err |-> err, off |-> 0, rr |-> <<>>]

(* Mutant: that the data end where the header says is not checked.         *)
AtEnd_NotChecked(data) == data

AtEnd(data) == IF data.err = "none" /\ data.off # data.end THEN Failed(data, "bad rdlength") ELSE data

Record(header, type, data) ==
    IF data.err # "none" THEN NoRecord(data.err)
    ELSE [err |-> "none", off |-> data.off,
          rr  |-> [name |-> header.v[1], number |-> header.v[2], type |-> type, v |-> data.v]]

UnpackData(msg, header, type) ==
    Record(header, type,
           AtEnd(GetFields(msg, header.off, header.off + header.v[5], Types[type].fields)))

(* A record at off: the header says its type and where it ends, and it has *)
(* to end there.                                                           *)
BehindHeader(msg, header) ==
    IF header.err # "none" THEN NoRecord(header.err)
    ELSE UnpackData(msg, header, TypeOf(header.v[2]))

UnpackRR(msg, off) ==
    BehindHeader(msg, GetFields(msg, off, 0, <<"cname", "u16", "u16", "u32", "u16">>))

-----------------------------------------------------------------------------
(* Messages: a sequence of questions, <<name, type, class>>, and the       *)
(* records of three sections.                                              *)
(* Mutant: the additional section comes before the authority section.      *)
Sections_Swapped(m) == (m.answer \o m.extra) \o m.ns

Sections(m) == (m.answer \o m.ns) \o m.extra

(* Each part of a name that can be pointed to from now on, by its text.    *)
Parts(name) == {From(name, Split(name)[i]) : i \in 1..Len(Split(name))}

(* The longest part of a name in a table.                                  *)
Search(table, name) ==
    LET known == Parts(name) \intersect table
    IN  IF known = {} THEN 0 ELSE Len(CHOOSE s \in known : \A t \in known : Len(t) <= Len(s))

(* The names in the data of a record that Len takes to be compressed.      *)
CompressedNames(rr) ==
    IF rr.type \in {"NS", "MX", "CNAME", "PTR", "SOA", "MB", "MG", "MR", "MF", "MD", "RT", "MINFO", "AFSDB"}
    THEN SelectSeq([i \in 1..Len(rr.v) |-> IF Types[rr.type].fields[i] = "cname" THEN rr.v[i] ELSE <<>>],
                   LAMBDA n : n # <<>>)
    ELSE <<>>

Saved(k) == IF k = 0 THEN 0 ELSE k - 1

(* Len: for a compressed message, less what the names found in the table   *)
(* save. The names in the data of one record count as one.                 *)
MsgLen(m, compress) ==
    LET asked == SumOver(m.question, LAMBDA q : Len(q[1]) + 5)
        names == UNION {Parts(m.question[i][1]) : i \in 1..Len(m.question)}
        Step(acc, rr) ==
            LET owner == acc.table \union Parts(rr.name)
                data  == CompressedNames(rr)
            IN  [len   |-> acc.len + RecordLen(rr)
                           - (IF compress THEN Saved(Search(acc.table, rr.name))
                                  + Saved(SumOver(data, LAMBDA n : Search(owner, n))) ELSE 0),
                 table |-> owner \union UNION {Parts(data[i]) : i \in 1..Len(data)}]
    IN  FoldLeft(Step, [len |-> 12 + asked, table |-> names], Sections(m)).len

Header(m) == <<0, 0, IF m.truncated THEN 2 ELSE 0, 0>> \o Octets(Len(m.question), 2)
                 \o Octets(Len(m.answer), 2) \o Octets(Len(m.ns), 2) \o Octets(Len(m.extra), 2)

(* Mutant: a given buffer is used whatever its length.                     *)
Buffer_Given(buf, need) == IF buf = <<>> THEN [i \in 1..need |-> 0] ELSE buf

Buffer(buf, need) == IF Len(buf) < need THEN [i \in 1..need |-> 0] ELSE buf

(* PackBuffer: into buf if it is long enough, else into a new buffer, of   *)
(* the length of the uncompressed message and one more.                    *)
PackQuestion(st, q) == PutFields(st, <<"cname", "u16", "u16">>, q)

PackInto(buffer, m, compress) ==
    FoldLeft(PackRR,
             FoldLeft(PackQuestion,
                      [out |-> Header(m), size |-> Len(buffer), old |-> buffer, table |-> <<>>,
                       compress |-> compress, err |-> "none"], m.question),
             Sections(m))

(* Nothing is returned with an error. The end may lie beyond the buffer.   *)
Packed(st) ==
    IF st.err # "none" THEN [err |-> st.err, wire |-> <<>>]
    ELSE IF Len(st.out) > st.size THEN [err |-> "panic", wire |-> <<>>]
    ELSE [err |-> "none", wire |-> st.out]

PackBuffer(m, buf, compress) == Packed(PackInto(Buffer(buf, MsgLen(m, FALSE) + 1), m, compress))

-----------------------------------------------------------------------------
(* Unpack: of a truncated message only the questions. What is missing      *)
(* of the header or of a question is zero.                                 *)
HeaderFields(msg) == GetFields(msg, 0, 0, <<"u16", "u16", "u16", "u16", "u16", "u16">>)

Truncated(bits) == (bits \div 512) % 2 = 1

Asked(st, q) == [st EXCEPT !.off = q.off, !.err = q.err, !.items = Append(@, q.v)]
Found(st, u) == [st EXCEPT !.off = u.off, !.err = u.err, !.items = Append(@, u.rr)]

UnpackQuestions(msg, off, n) ==
    FoldLeft(LAMBDA st, i : IF st.err # "none" THEN st
                            ELSE Asked(st, GetFields(msg, st.off, 0, <<"cname", "u16", "u16">>)),
             [off |-> off, err |-> "none", items |-> <<>>], [i \in 1..n |-> i])

UnpackRecords(msg, off, n) ==
    FoldLeft(LAMBDA st, i : IF st.err # "none" THEN st ELSE Found(st, UnpackRR(msg, st.off)),
             [off |-> off, err |-> "none", items |-> <<>>], [i \in 1..n |-> i])

Unpacked(counts, truncated, asked, found) ==
    IF found.err # "none" THEN [err |-> found.err]
    ELSE [err |-> "none",
          m |-> [question |-> asked.items, truncated |-> truncated,
                 answer |-> SubSeq(found.items, 1, counts[2]),
                 ns     |-> SubSeq(found.items, counts[2] + 1, counts[2] + counts[3]),
                 extra  |-> From(found.items, counts[2] + counts[3])]]

BehindQuestions(msg, truncated, counts, asked) ==
    IF asked.err # "none" THEN [err |-> asked.err]
    ELSE IF truncated
         THEN Unpacked(<<counts[1], 0, 0, 0>>, TRUE, asked, [asked EXCEPT !.items = <<>>])
    ELSE Unpacked(counts, FALSE, asked,
                  UnpackRecords(msg, asked.off, counts[2] + counts[3] + counts[4]))

BehindCounts(msg, off, bits, counts) ==
    BehindQuestions(msg, Truncated(bits), counts, UnpackQuestions(msg, off, counts[1]))

Unpack(msg) ==
    LET header == HeaderFields(msg)
    IN  IF header.err # "none" THEN [err |-> header.err]
        ELSE BehindCounts(msg, header.off, header.v[2], SubSeq(header.v, 3, 6))
=============================================================================
