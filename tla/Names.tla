-------------------------------- MODULE Names --------------------------------
(***************************************************************************)
(* Domain names in miekg/dns: the helpers on their text (labels.go,        *)
(* defaults.go), and their packing and unpacking (msg.go). A text and a    *)
(* message are sequences of octets, indexed from 0 as in the code.         *)
(***************************************************************************)
EXTENDS Integers, Sequences, FiniteSets, SequencesExt, TLC

CONSTANTS
    MaxLabel,               \* 63: the octets of a label
    NilSize,                \* 256: the size assumed when there is no buffer
    MaxCompressionOffset,   \* 2^14: names further on are not pointed to
    MaxPointers             \* 10: the pointers followed for one name

ASSUME SizesAssumption ==
    {MaxLabel, NilSize, MaxCompressionOffset, MaxPointers} \subseteq Nat

Dot       == 46
Backslash == 92
PointerTo(p) == <<192 + p \div 256, p % 256>>

Root           == <<Dot>>
At(s, i)       == s[i + 1]
From(s, i)     == SubSeq(s, i + 1, Len(s))
Slice(s, i, j) == SubSeq(s, i + 1, j)

IsFqdn(s) == s # <<>> /\ Last(s) = Dot
Fqdn(s)   == IF IsFqdn(s) THEN s ELSE Append(s, Dot)

(* Mutant: two backslashes in a row quote the dot after them.              *)
RECURSIVE Scan_Sticky(_, _, _)
Scan_Sticky(s, i, quote) ==
    IF i >= Len(s) - 1 THEN <<i + 1, TRUE>>
    ELSE IF At(s, i) = Dot /\ ~quote THEN <<i + 1, FALSE>>
    ELSE Scan_Sticky(s, i + 1, At(s, i) = Backslash)

NextLabel_Sticky(s, offset) == Scan_Sticky(s, offset, FALSE)

(* NextLabel: the start of the label after offset, and whether the end of  *)
(* the text is reached. A quoted dot does not end a label, and the last    *)
(* character is not looked at.                                             *)
RECURSIVE Scan(_, _, _)
Scan(s, i, quote) ==
    IF i >= Len(s) - 1 THEN <<i + 1, TRUE>>
    ELSE IF At(s, i) = Dot /\ ~quote THEN <<i + 1, FALSE>>
    ELSE Scan(s, i + 1, At(s, i) = Backslash /\ ~quote)

NextLabel(s, offset) == Scan(s, offset, FALSE)

(* Split: the starts of the labels; the root has none.                     *)
RECURSIVE Starts(_, _)
Starts(s, off) ==
    LET next == NextLabel(s, off)
    IN  IF next[2] THEN <<off>> ELSE <<off>> \o Starts(s, next[1])

Split(s) == IF s = Root THEN <<>> ELSE Starts(s, 0)

CountLabel(s) ==
    LET RECURSIVE Count(_)
        Count(off) == LET next == NextLabel(s, off)
                      IN  IF next[2] THEN 1 ELSE 1 + Count(next[1])
    IN  IF s = Root THEN 0 ELSE Count(0)

(* The labels as texts, without the dots between them.                     *)
SplitDomainName(s) ==
    LET idx == Split(s)
        end == IF IsFqdn(s) THEN Len(s) - 1 ELSE Len(s)
        Until(k) == IF k = Len(idx) THEN end ELSE idx[k + 1] - 1
    IN  IF s = <<>> THEN <<>> ELSE [k \in 1..Len(idx) |-> Slice(s, idx[k], Until(k))]

(* The k-th label from the right, the dot after it included.               *)
PieceFromRight(s, k) ==
    LET idx == Split(s)
    IN  IF k = 0 THEN From(s, Last(idx)) ELSE Slice(s, idx[Len(idx) - k], idx[Len(idx) - k + 1])

SamePieces(s1, s2) ==
    LET depth == IF Len(Split(s1)) < Len(Split(s2)) THEN Len(Split(s1)) ELSE Len(Split(s2))
    IN  {k \in 0..depth - 1 : PieceFromRight(s1, k) = PieceFromRight(s2, k)}

(* How many labels two names have in common, from the right, up to the     *)
(* first inequality.                                                       *)
CompareDomainName(a, b) ==
    LET same == SamePieces(Fqdn(a), Fqdn(b))
    IN  Cardinality({k \in same : \A j \in 0..k : j \in same})

(* Mutant: the labels of the wrong one are counted.                        *)
IsSubDomain_OfChild(parent, child) == CompareDomainName(parent, child) = CountLabel(child)

IsSubDomain(parent, child) == CompareDomainName(parent, child) = CountLabel(parent)

-----------------------------------------------------------------------------
(* packDomainName. While the name is scanned, escapes are undone in the    *)
(* text itself: what follows is moved to the left over the first ls        *)
(* octets, and what was at their end stays behind it. The key of a label   *)
(* in the table of compression is all of the text from that label on.      *)
IsDigit(c)     == c \in 48..57
DddToByte(ddd) == (100 * (ddd[1] - 48) + 10 * (ddd[2] - 48) + ddd[3] - 48) % 256
Letter(c)      == IF c = 116 THEN 9 ELSE IF c = 114 THEN 13 ELSE IF c = 110 THEN 10 ELSE c

Moved(st, i, n) == [j \in 1..Len(st.bs) |-> IF j \in i + 1..st.ls - n THEN st.bs[j + n] ELSE st.bs[j]]

(* The backslash at i and what it escapes become one octet.                *)
Unescape(st, i) ==
    LET one == [st EXCEPT !.bs = Moved(st, i, 1), !.ls = @ - 1]
        ddd == Slice(one.bs, i, i + 3)
        Set(x, c) == [x EXCEPT !.bs[i + 1] = c, !.escapedDot = c = Dot]
    IN  IF i + 2 < one.ls /\ \A k \in 1..3 : IsDigit(ddd[k])
        THEN Set([one EXCEPT !.bs = Moved(one, i + 1, 2), !.ls = @ - 2], DddToByte(ddd))
        ELSE Set(one, Letter(At(one.bs, i)))

BackToBack(st, i) == i > 0 /\ At(st.bs, i - 1) = Dot /\ ~st.escapedDot

Key(st) == From(st.bs, st.begin)

(* A label that is written is remembered, if a pointer can reach it.       *)
Register(st, label) ==
    IF Key(st) = Root \/ Len(st.out) >= MaxCompressionOffset THEN st.table
    ELSE st.table @@ (Key(st) :> Len(st.out))

Failed(st, err) == [st EXCEPT !.err = err]

(* From octet i on. A key found in the table ends the name with a pointer, *)
(* and what is left of the text is not looked at.                          *)
RECURSIVE PackFrom(_, _, _, _)
PackFrom(st, i, size, compress) ==
    IF i >= st.ls THEN
        IF st.bs = Root THEN st
        ELSE IF size # NilSize /\ Len(st.out) >= size THEN Failed(st, "panic")
        ELSE [st EXCEPT !.out = Append(@, 0)]
    ELSE IF At(st.bs, i) = Backslash THEN
        IF Len(st.out) + 1 > size THEN Failed(st, "ErrBuf")
        ELSE PackFrom(Unescape(st, i), i + 1, size, compress)
    ELSE IF At(st.bs, i) # Dot THEN
        PackFrom([st EXCEPT !.escapedDot = FALSE], i + 1, size, compress)
    ELSE LET label == Slice(st.bs, st.begin, i)
         IN  IF BackToBack(st, i) \/ Len(label) > MaxLabel THEN Failed(st, "ErrRdata")
             ELSE IF Len(st.out) + 1 + Len(label) > size THEN Failed(st, "ErrBuf")
             ELSE IF compress /\ Key(st) # Root /\ Key(st) \in DOMAIN st.table
             THEN [st EXCEPT !.out = @ \o PointerTo(st.table[Key(st)])]
             ELSE PackFrom([st EXCEPT !.out = (@ \o <<Len(label)>>) \o label,
                                      !.table = IF compress THEN Register(st, label) ELSE @,
                                      !.labels = @ + 1, !.begin = i + 1, !.escapedDot = FALSE],
                           i + 1, size, compress)

(* The name s packed behind out, in a buffer of some size.                 *)
PackDomainName(s, out, size, table, compress) ==
    LET st == [bs |-> s, ls |-> Len(s), begin |-> 0, escapedDot |-> FALSE, out |-> out,
               table |-> table, labels |-> 0, err |-> "none"]
    IN  IF s = <<>> THEN st
        ELSE IF ~IsFqdn(s) THEN Failed(st, "ErrFqdn")
        ELSE PackFrom(st, 0, size, compress)

(* IsDomainName packs to nowhere, and adds the final dot.                  *)
IsDomainName(s) ==
    LET p == PackDomainName(IF s = <<>> THEN s ELSE Fqdn(s), <<>>, NilSize, <<>>, FALSE)
    IN  [ok |-> p.err = "none", labels |-> p.labels]

-----------------------------------------------------------------------------
(* Mutant: the digits of a small octet are not padded.                     *)
Written_Unpadded(c) ==
    IF c \in {Dot, Backslash} THEN <<Backslash, c>>
    ELSE IF c < 10 THEN <<Backslash, 48 + c>>
    ELSE <<c>>

(* The text of an octet: . ( ) ; space @ " and \ are escaped, tab and CR   *)
(* have letters, and what cannot be printed is written in digits.          *)
Written(c) ==
    IF c \in {Dot, Backslash, 40, 41, 59, 32, 64, 34} THEN <<Backslash, c>>
    ELSE IF c = 9 THEN <<Backslash, 116>>
    ELSE IF c = 13 THEN <<Backslash, 114>>
    ELSE IF c \notin 32..126 THEN <<Backslash, 48 + c \div 100, 48 + ((c \div 10) % 10), 48 + (c % 10)>>
    ELSE <<c>>

NotUnpacked(err) == [err |-> err, s |-> <<>>, off |-> 0]

(* From offset off, with the text s so far. off1 is the offset behind the  *)
(* first pointer, -1 if none was met.                                      *)
RECURSIVE UnpackFrom(_, _, _, _, _)
UnpackFrom(msg, off, s, ptr, off1) ==
    IF off >= Len(msg) THEN NotUnpacked("ErrBuf")
    ELSE LET c == At(msg, off)
         IN  IF c = 0 THEN [err |-> "none", s |-> IF s = <<>> THEN Root ELSE s,
                            off |-> IF ptr = 0 THEN off + 1 ELSE off1]
             ELSE IF c < 64 THEN
                 IF off + 1 + c > Len(msg) THEN NotUnpacked("ErrBuf")
                 ELSE UnpackFrom(msg, off + 1 + c,
                                 FoldLeft(LAMBDA txt, o : txt \o Written(o), s,
                                          Slice(msg, off + 1, off + 1 + c)) \o Root, ptr, off1)
             ELSE IF c < 192 THEN NotUnpacked("ErrRdata")
             ELSE IF off + 1 >= Len(msg) THEN NotUnpacked("ErrBuf")
             ELSE IF ptr = MaxPointers THEN NotUnpacked("too many compression pointers")
             ELSE UnpackFrom(msg, (c - 192) * 256 + At(msg, off + 1), s, ptr + 1,
                             IF ptr = 0 THEN off + 2 ELSE off1)

UnpackDomainName(msg, off) == UnpackFrom(msg, off, <<>>, 0, -1)
=============================================================================
