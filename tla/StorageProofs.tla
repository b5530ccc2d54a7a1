---------------------------- MODULE StorageProofs ----------------------------
(* What Storage guarantees for every tree, whatever is written meanwhile.  *)
EXTENDS Storage, SequenceTheorems, TLAPS

-----------------------------------------------------------------------------
(* The frames of the walk. Of the children a frame has seen, the last      *)
(* value node is still to be dealt with; there is nothing between it and   *)
(* the next child.                                                         *)
Frames == [dir : Nat, next : Nat, last : Nat]

Resume(f) == IF f.last = 0 THEN f.next ELSE f.last

NothingFrom(t, i, j) == \A v \in ValuesOf(t) : ~(i <= v /\ v < j)

LastOK(t, f) ==
    /\ Child(t, f.dir, f.last) /\ ~IsTtl(t[f.last]) /\ After(t, f.last) <= f.next
    /\ NothingFrom(t, After(t, f.last), f.next)
    /\ \A i \in After(t, f.last)..f.next - 1 :
            Child(t, f.dir, i) => IsTtl(t[i]) /\ ~IsNumeric(t[i])

FrameOK(t, f) ==
    /\ f \in Frames
    /\ f.dir \in DOMAIN t /\ t[f.dir].dir /\ ~Hidden(t, f.dir)
    /\ f.dir < f.next /\ f.next <= After(t, f.dir) /\ Between(t, f.dir, f.next)
    /\ f.last # 0 => LastOK(t, f)

(* Frame g was called by frame f, which has gone on past its directory.    *)
Nested(t, f, g) ==
    /\ After(t, g.dir) <= Resume(f)
    /\ NothingFrom(t, After(t, g.dir), Resume(f))

StackOK(t, s) ==
    /\ s \in Seq(Frames) /\ s # <<>> /\ s[1].dir = 1
    /\ \A k \in 1..Len(s) : FrameOK(t, s[k])
    /\ \A k \in 1..Len(s) - 1 : Nested(t, s[k], s[k + 1])

(* The records of the values before position i, with their own TTLs.       *)
RecordsOf(t) == [node : DOMAIN t, ttl : Ttls \union {DefaultTtl}]
Upto(t, i)   == {v \in ValuesOf(t) : v < i}
NodesOf(ns)  == {ns[k].node : k \in DOMAIN ns}
InOrder(ns)  == \A k, l \in DOMAIN ns : k < l => ns[k].node < ns[l].node

OutOK(t, ns, i) ==
    /\ ns \in Seq(RecordsOf(t))
    /\ NodesOf(ns) = Upto(t, i) /\ InOrder(ns)
    /\ Paired(t) => \A k \in DOMAIN ns : HasOwnTtl(t, ns[k])

(* The walk with stack s has returned ns so far.                           *)
Innermost(s)     == s[Len(s)]
WalkOK(t, s, ns) == StackOK(t, s) /\ OutOK(t, ns, Resume(Innermost(s)))

WalkInv ==
    /\ pc = "walk" => got # <<>> /\ got[1].dir /\ WalkOK(got, frames, nodes)
    /\ pc = "done" /\ got # <<>> /\ got[1].dir => OutOK(got, nodes, Len(got) + 1)

(* A single value is the one record, with a TTL of its own.                *)
SingleInv ==
    /\ pc \in {"get", "ttl"} => nodes = <<>> /\ failures = 0
    /\ pc = "get" => got = <<>>
    /\ pc = "ttl" => got # <<>> /\ ~got[1].dir /\ (overtaken \/ ttlNode \in own)
    /\ pc = "done" /\ got # <<>> /\ ~got[1].dir =>
        /\ \E ttl \in Ttls \union {DefaultTtl} : nodes = <<Record(1, ttl)>>
        /\ failures > 0 => nodes[1].ttl = DefaultTtl
        /\ failures = 0 => overtaken \/ \E c \in own : nodes[1].ttl = TtlOf(c)

IInv == TypeOK /\ WalkInv /\ SingleInv

-----------------------------------------------------------------------------
(* A tree is not empty, and what is below a node ends where the node ends. *)
LEMMA TreeShape ==
    ASSUME NEW t, TreeOK(t)
    PROVE  /\ Len(t) \in Nat /\ 1 <= Len(t) /\ DOMAIN t = 1..Len(t) /\ After(t, 1) = Len(t) + 1
           /\ \A i \in DOMAIN t :
                /\ After(t, i) \in Nat /\ i < After(t, i) /\ After(t, i) <= Len(t) + 1
                /\ ~t[i].dir => After(t, i) = i + 1
           /\ \A i, j \in DOMAIN t : i <= j /\ j < After(t, i) => After(t, j) <= After(t, i)
<1>1. /\ Len(t) \in Nat /\ 1 <= Len(t) /\ DOMAIN t = 1..Len(t) /\ After(t, 1) = Len(t) + 1
      /\ 1 \in DOMAIN t
  BY DEF TreeOK
<1>2. ASSUME NEW i \in DOMAIN t
      PROVE  /\ i \in Nat /\ After(t, i) \in Nat /\ i < After(t, i)
             /\ ~t[i].dir => After(t, i) = i + 1
  BY <1>1, <1>2 DEF TreeOK, After
<1>3. ASSUME NEW i \in DOMAIN t, NEW j \in DOMAIN t, i <= j, j < After(t, i)
      PROVE  After(t, j) <= After(t, i)
  <2>1. j \in i..After(t, i) - 1
    BY <1>1, <1>2, <1>3
  <2>2. QED
    BY <2>1 DEF TreeOK
<1>4. ASSUME NEW i \in DOMAIN t  PROVE After(t, i) <= Len(t) + 1
  <2>1. 1 <= i /\ i < After(t, 1)
    BY <1>1
  <2>2. QED
    BY <1>1, <1>3, <2>1
<1>5. QED
  BY <1>1, <1>2, <1>3, <1>4

(* A node's name tells whether it is a .ttl node, and of what name.        *)
LEMMA NodeNames ==
    ASSUME NEW t, TreeOK(t), NEW i \in DOMAIN t
    PROVE  t[i].name = IF IsTtl(t[i]) THEN TtlName(t[i].name.of) ELSE Name(t[i].name.of)
<1>1. t[i].name = Name(t[i].name.of) \/ t[i].name = TtlName(t[i].name.of)
  BY DEF TreeOK
<1>2. \A x : Name(x).ttl = FALSE /\ TtlName(x).ttl = TRUE
  BY DEF Name, TtlName
<1>3. CASE t[i].name = Name(t[i].name.of)
  <2>1. ~IsTtl(t[i])
    BY <1>2, <1>3, Zenon DEF IsTtl
  <2>2. QED
    BY <1>3, <2>1
<1>4. CASE t[i].name = TtlName(t[i].name.of)
  <2>1. IsTtl(t[i])
    BY <1>2, <1>4, Zenon DEF IsTtl
  <2>2. QED
    BY <1>4, <2>1
<1>5. QED
  BY <1>1, <1>3, <1>4

(* A child lies, with all below it, below the directory.                   *)
LEMMA ChildShape ==
    ASSUME NEW t, TreeOK(t), NEW d \in DOMAIN t, NEW c \in Nat, Child(t, d, c)
    PROVE  /\ c \in DOMAIN t /\ c \in 2..Len(t) /\ d < c
           /\ After(t, c) <= After(t, d) /\ Between(t, d, After(t, c))
<1>1. c \in DOMAIN t /\ c \in 2..Len(t) /\ d < c /\ c < After(t, d)
  BY TreeShape DEF Child
<1>2. After(t, c) <= After(t, d)
  BY <1>1, TreeShape
<1>3. ASSUME NEW j \in d + 1..After(t, c) - 1  PROVE After(t, j) <= After(t, c)
  <2>1. j \in DOMAIN t /\ d < j /\ j < After(t, c)
    BY <1>1, TreeShape
  <2>2. CASE j < c
    <3>1. j \in d + 1..c - 1
      BY <1>1, <2>1, <2>2, TreeShape
    <3>2. After(t, j) <= c
      BY <3>1 DEF Child, Between
    <3>3. QED
      BY <1>1, <2>1, <3>2, TreeShape
  <2>3. CASE c <= j
    BY <1>1, <2>1, <2>3, TreeShape
  <2>4. QED
    BY <1>1, <2>1, <2>2, <2>3, TreeShape
<1>4. QED
  BY <1>1, <1>2, <1>3 DEF Between

(* Of two children of a directory, the first ends before the second.       *)
LEMMA ChildrenApart ==
    ASSUME NEW t, TreeOK(t), NEW d \in DOMAIN t, NEW a \in DOMAIN t, NEW b \in DOMAIN t,
           Child(t, d, a), Child(t, d, b), a < b
    PROVE  After(t, a) <= b
<1>1. a \in d + 1..b - 1
  BY TreeShape DEF Child
<1>2. QED
  BY <1>1 DEF Child, Between

(* A node has one directory.                                               *)
LEMMA OneParent ==
    ASSUME NEW t, TreeOK(t), NEW d \in DOMAIN t, NEW e \in DOMAIN t, NEW c \in DOMAIN t,
           Child(t, d, c), Child(t, e, c)
    PROVE  d = e
<1>1. ASSUME NEW x \in DOMAIN t, NEW y \in DOMAIN t, Child(t, x, c), Child(t, y, c), x < y
      PROVE  FALSE
  <2>1. y \in x + 1..c - 1 /\ c < After(t, y)
    BY <1>1, TreeShape DEF Child
  <2>2. After(t, y) <= c
    BY <1>1, <2>1 DEF Child, Between
  <2>3. QED
    BY <2>1, <2>2, TreeShape
<1>2. d < e \/ e < d \/ d = e
  BY TreeShape
<1>3. QED
  BY <1>1, <1>2

(* A child of a visible directory is visible, if it is no .ttl node.       *)
LEMMA ChildIsVisible ==
    ASSUME NEW t, TreeOK(t), NEW d \in DOMAIN t, NEW c \in DOMAIN t, Child(t, d, c),
           ~Hidden(t, d), ~IsTtl(t[c])
    PROVE  ~Hidden(t, c)
<1>1. SUFFICES ASSUME NEW j \in 2..c, c < After(t, j), IsTtl(t[j])
               PROVE  FALSE
  BY DEF Hidden
<1>2. j \in DOMAIN t /\ d \in Nat /\ c \in Nat /\ d < c /\ j # c
  BY <1>1, TreeShape DEF Child
<1>3. CASE d < j
  <2>1. j \in d + 1..c - 1
    BY <1>1, <1>2, <1>3, TreeShape
  <2>2. QED
    BY <1>1, <1>2, <2>1, TreeShape DEF Child, Between
<1>4. CASE j <= d
  <2>1. j \in 2..d /\ d < After(t, j)
    BY <1>1, <1>2, <1>4, TreeShape
  <2>2. QED
    BY <1>1, <2>1 DEF Hidden
<1>5. QED
  BY <1>2, <1>3, <1>4, TreeShape

(* There are no values in a .ttl node, and none but a value in itself.     *)
LEMMA NothingBelowTtl ==
    ASSUME NEW t, TreeOK(t), NEW c \in 2..Len(t), IsTtl(t[c])
    PROVE  NothingFrom(t, c, After(t, c))
<1>1. SUFFICES ASSUME NEW v \in DOMAIN t, ~Hidden(t, v), c <= v, v < After(t, c)
               PROVE  FALSE
  BY DEF NothingFrom, ValuesOf
<1>2. c \in 2..v
  BY <1>1, TreeShape
<1>3. QED
  BY <1>1, <1>2 DEF Hidden

(* What holds no value joined to what holds none holds none.               *)
LEMMA NothingJoined ==
    ASSUME NEW t, TreeOK(t), NEW i \in Nat, NEW j \in Nat, NEW k \in Nat,
           NothingFrom(t, i, j), NothingFrom(t, j, k)
    PROVE  NothingFrom(t, i, k)
<1>1. \A v \in ValuesOf(t) : v \in Nat
  BY TreeShape DEF ValuesOf
<1>2. QED
  BY <1>1 DEF NothingFrom

-----------------------------------------------------------------------------
(* The frame that is on top changes: the frames below it are as they were. *)
LEMMA StackUpdate ==
    ASSUME NEW t, TreeOK(t), NEW s, StackOK(t, s), NEW f, FrameOK(t, f),
           f.dir = Innermost(s).dir
    PROVE  LET u == [s EXCEPT ![Len(s)] = f]
           IN  StackOK(t, u) /\ Innermost(u) = f
<1> DEFINE u == [s EXCEPT ![Len(s)] = f]
<1>1. s \in Seq(Frames) /\ Len(s) \in Nat \ {0} /\ f \in Frames
  BY DEF StackOK, FrameOK
<1>2. u \in Seq(Frames) /\ Len(u) = Len(s) /\ Innermost(u) = f
  BY <1>1 DEF Innermost
<1>3. \A k \in 1..Len(s) : u[k] = IF k = Len(s) THEN f ELSE s[k]
  BY <1>1
<1>4. \A k \in 1..Len(s) : u[k].dir = s[k].dir
  BY <1>1, <1>3 DEF Innermost
<1> HIDE DEF u
<1>5. u # <<>> /\ u[1].dir = 1
  <2>1. 1 \in 1..Len(s) /\ s[1].dir = 1
    BY <1>1 DEF StackOK
  <2>2. QED
    BY <1>1, <1>2, <1>4, <2>1
<1>6. \A k \in 1..Len(u) : FrameOK(t, u[k])
  BY <1>1, <1>2, <1>3 DEF StackOK
<1>7. ASSUME NEW k \in 1..Len(u) - 1  PROVE Nested(t, u[k], u[k + 1])
  <2>1. k \in 1..Len(s) - 1 /\ k \in 1..Len(s) /\ k + 1 \in 1..Len(s) /\ k # Len(s)
    BY <1>1, <1>2
  <2>2. u[k] = s[k] /\ u[k + 1].dir = s[k + 1].dir
    BY <1>3, <1>4, <2>1
  <2>3. Nested(t, s[k], s[k + 1])
    BY <2>1 DEF StackOK
  <2>4. QED
    BY <2>2, <2>3 DEF Nested
<1>8. QED
  BY <1>2, <1>5, <1>6, <1>7 DEF StackOK, u

(* A call of findKeys for a directory that its caller has gone past.       *)
LEMMA StackPush ==
    ASSUME NEW t, TreeOK(t), NEW s, StackOK(t, s), NEW g, FrameOK(t, g),
           Nested(t, Innermost(s), g)
    PROVE  StackOK(t, Append(s, g)) /\ Innermost(Append(s, g)) = g
<1> DEFINE u == Append(s, g)
<1>1. s \in Seq(Frames) /\ Len(s) \in Nat \ {0} /\ g \in Frames
  BY DEF StackOK, FrameOK
<1>2. u \in Seq(Frames) /\ Len(u) = Len(s) + 1 /\ u[Len(s) + 1] = g /\ Innermost(u) = g
  BY <1>1 DEF Innermost
<1>3. \A k \in 1..Len(s) : u[k] = s[k]
  BY <1>1
<1> HIDE DEF u
<1>4. u # <<>> /\ u[1].dir = 1
  <2>1. 1 \in 1..Len(s) /\ s[1].dir = 1
    BY <1>1 DEF StackOK
  <2>2. QED
    BY <1>1, <1>2, <1>3, <2>1
<1>5. ASSUME NEW k \in 1..Len(u)  PROVE FrameOK(t, u[k])
  <2>1. k \in 1..Len(s) \/ k = Len(s) + 1
    BY <1>1, <1>2
  <2>2. QED
    BY <1>2, <1>3, <2>1 DEF StackOK
<1>6. ASSUME NEW k \in 1..Len(u) - 1  PROVE Nested(t, u[k], u[k + 1])
  <2>1. CASE k = Len(s)
    BY <1>1, <1>2, <1>3, <2>1 DEF Innermost
  <2>2. CASE k # Len(s)
    <3>1. k \in 1..Len(s) - 1 /\ k \in 1..Len(s) /\ k + 1 \in 1..Len(s)
      BY <1>1, <1>2, <2>2
    <3>2. QED
      BY <1>3, <3>1 DEF StackOK
  <2>3. QED
    BY <2>1, <2>2
<1>7. QED
  BY <1>2, <1>4, <1>5, <1>6 DEF StackOK, u

(* A call returns.                                                         *)
LEMMA StackPop ==
    ASSUME NEW t, TreeOK(t), NEW s, StackOK(t, s), Len(s) # 1
    PROVE  LET u == SubSeq(s, 1, Len(s) - 1)
           IN  u # <<>> /\ StackOK(t, u) /\ Nested(t, Innermost(u), Innermost(s))
<1> DEFINE u == SubSeq(s, 1, Len(s) - 1)
<1>1. s \in Seq(Frames) /\ Len(s) \in Nat /\ 2 <= Len(s)
  <2>1. s \in Seq(Frames) /\ s # <<>>
    BY DEF StackOK
  <2>2. Len(s) \in Nat /\ Len(s) # 0
    BY <2>1
  <2>3. \A n \in Nat : n # 0 /\ n # 1 => 2 <= n
    OBVIOUS
  <2>4. QED
    BY <2>1, <2>2, <2>3
<1>2. u \in Seq(Frames) /\ Len(u) = Len(s) - 1 /\ \A k \in 1..Len(u) : u[k] = s[k]
  <2>1. /\ 1 \in Int /\ Len(s) - 1 \in Int /\ 1 <= Len(s) - 1
        /\ Len(s) - 1 - 1 + 1 = Len(s) - 1 /\ \A k \in 1..Len(s) - 1 : 1 + k - 1 = k
    BY <1>1
  <2>2. \A k \in 1..Len(s) - 1 : s[k] \in Frames
    BY <1>1
  <2>3. u \in Seq(Frames)
    BY <2>1, <2>2, SubSeqProperties
  <2>4. Len(u) = Len(s) - 1
    BY <2>1, <2>2, SubSeqProperties
  <2>5. \A k \in 1..Len(s) - 1 : u[k] = s[k]
    BY <2>1, <2>2, SubSeqProperties
  <2>6. QED
    BY <2>3, <2>4, <2>5
<1> HIDE DEF u
<1>3. u # <<>> /\ 1 \in 1..Len(u) /\ u[1].dir = 1
  <2>1. s[1].dir = 1
    BY DEF StackOK
  <2>2. QED
    BY <1>1, <1>2, <2>1
<1>4. ASSUME NEW k \in 1..Len(u)  PROVE FrameOK(t, u[k])
  BY <1>1, <1>2 DEF StackOK
<1>5. ASSUME NEW k \in 1..Len(u) - 1  PROVE Nested(t, u[k], u[k + 1])
  <2>1. k \in 1..Len(s) - 1 /\ k \in 1..Len(u) /\ k + 1 \in 1..Len(u)
    BY <1>1, <1>2
  <2>2. QED
    BY <1>2, <2>1 DEF StackOK
<1>6. Nested(t, Innermost(u), Innermost(s))
  <2>1. Len(u) \in 1..Len(s) - 1 /\ Len(u) \in 1..Len(u) /\ Len(u) + 1 = Len(s)
    BY <1>1, <1>2
  <2>2. Nested(t, s[Len(u)], s[Len(u) + 1])
    BY <2>1 DEF StackOK
  <2>3. QED
    BY <1>2, <2>1, <2>2 DEF Innermost
<1>7. QED
  BY <1>2, <1>3, <1>4, <1>5, <1>6 DEF StackOK, u

-----------------------------------------------------------------------------
(* What is returned: it is the same further on, if no value lies between,  *)
(* and one more with the record of the next value.                         *)
LEMMA OutFurther ==
    ASSUME NEW t, TreeOK(t), NEW ns, NEW i \in Nat, NEW j \in Nat, OutOK(t, ns, i),
           i <= j, NothingFrom(t, i, j)
    PROVE  OutOK(t, ns, j)
<1>1. \A v \in ValuesOf(t) : v \in Nat
  BY TreeShape DEF ValuesOf
<1>2. Upto(t, j) = Upto(t, i)
  BY <1>1 DEF NothingFrom, Upto
<1>3. QED
  BY <1>2 DEF OutOK

(* The record of the next value is what the output may grow by.            *)
LEMMA OutRecord ==
    ASSUME NEW t, TreeOK(t), NEW ns, NEW i \in ValuesOf(t), OutOK(t, ns, i),
           NEW ttl \in Ttls \union {DefaultTtl},
           Paired(t) => HasOwnTtl(t, Record(i, ttl))
    PROVE  OutOK(t, Append(ns, Record(i, ttl)), i + 1)
<1> DEFINE r == Record(i, ttl)
           u == Append(ns, r)
<1>1. r \in RecordsOf(t) /\ r.node = i
  BY DEF RecordsOf, Record, ValuesOf
<1> HIDE DEF r
<1>2. ns \in Seq(RecordsOf(t)) /\ Len(ns) \in Nat /\ DOMAIN ns = 1..Len(ns)
  BY DEF OutOK
<1>3. /\ u \in Seq(RecordsOf(t)) /\ DOMAIN u = 1..Len(ns) + 1 /\ u[Len(ns) + 1] = r
      /\ \A k \in DOMAIN ns : u[k] = ns[k]
  BY <1>1, <1>2
<1> HIDE DEF u
<1>4. \A k \in DOMAIN u : k \in DOMAIN ns \/ k = Len(ns) + 1
  BY <1>2, <1>3
<1>5. DOMAIN ns \subseteq DOMAIN u /\ Len(ns) + 1 \in DOMAIN u
  BY <1>2, <1>3
<1>6. NodesOf(u) = NodesOf(ns) \union {i}
  BY <1>1, <1>3, <1>4, <1>5 DEF NodesOf
<1>7. \A v \in ValuesOf(t) : v \in Nat
  BY TreeShape DEF ValuesOf
<1>8. Upto(t, i + 1) = Upto(t, i) \union {i}
  BY <1>7 DEF Upto
<1>9. InOrder(u)
  <2>1. SUFFICES ASSUME NEW k \in DOMAIN u, NEW l \in DOMAIN u, k < l
                 PROVE  u[k].node < u[l].node
    BY DEF InOrder
  <2>2. k \in DOMAIN ns
    BY <1>2, <1>3, <2>1
  <2>3. CASE l \in DOMAIN ns
    BY <1>3, <2>1, <2>2, <2>3 DEF OutOK, InOrder
  <2>4. CASE l = Len(ns) + 1
    <3>1. ns[k].node \in Upto(t, i)
      BY <2>2 DEF OutOK, NodesOf
    <3>2. QED
      BY <1>1, <1>3, <2>2, <2>4, <3>1 DEF Upto
  <2>5. QED
    BY <1>4, <2>3, <2>4
<1>10. ASSUME Paired(t), NEW k \in DOMAIN u  PROVE HasOwnTtl(t, u[k])
  BY <1>3, <1>4, <1>10 DEF OutOK, r
<1>11. QED
  BY <1>3, <1>6, <1>8, <1>9, <1>10 DEF OutOK, u, r

-----------------------------------------------------------------------------
(* What a frame has next is a child of its directory, if it has not seen   *)
(* all of them, and its last value node is a visible child.                *)
LEMMA NextChild ==
    ASSUME NEW t, TreeOK(t), NEW f, FrameOK(t, f), f.next # After(t, f.dir)
    PROVE  Child(t, f.dir, f.next) /\ f.next \in DOMAIN t /\ f.next \in 2..Len(t)
<1>1. f.dir \in DOMAIN t /\ f.next \in Nat
  BY DEF FrameOK, Frames
<1>2. Child(t, f.dir, f.next)
  BY <1>1, TreeShape DEF FrameOK, Child
<1>3. QED
  BY <1>1, <1>2, ChildShape

(* The last value node lies in the tree, before the next child.            *)
LEMMA LastChild ==
    ASSUME NEW t, TreeOK(t), NEW f, FrameOK(t, f), f.last # 0
    PROVE  /\ f.last \in DOMAIN t /\ ~Hidden(t, f.last) /\ f.last < f.next
           /\ After(t, f.last) <= f.next
<1>1. f.dir \in DOMAIN t /\ f.last \in Nat /\ f.next \in Nat
  BY DEF FrameOK, Frames
<1>2. Child(t, f.dir, f.last) /\ ~IsTtl(t[f.last]) /\ After(t, f.last) <= f.next
  BY DEF FrameOK, LastOK
<1>3. f.last \in DOMAIN t
  BY <1>1, <1>2, ChildShape
<1>4. f.last < f.next
  BY <1>1, <1>2, <1>3, TreeShape
<1>5. ~Hidden(t, f.last)
  BY <1>1, <1>2, <1>3, ChildIsVisible DEF FrameOK
<1>6. QED
  BY <1>2, <1>3, <1>4, <1>5

-----------------------------------------------------------------------------
(* If every .ttl node comes right after its value node, then the last      *)
(* value node has none of its own when the children end or the next one    *)
(* is another value,                                                       *)
LEMMA NoTtlOfItsOwn ==
    ASSUME NEW t, TreeOK(t), Paired(t), NEW f, FrameOK(t, f), f.last # 0,
           f.next # After(t, f.dir) => ~IsTtl(t[f.next])
    PROVE  HasOwnTtl(t, Record(f.last, DefaultTtl))
<1> DEFINE d == f.dir
           c == f.last
           e == f.next
<1>1. d \in DOMAIN t /\ c \in DOMAIN t /\ e \in Nat
  BY LastChild DEF FrameOK, Frames
<1>2. Child(t, d, c) /\ ~IsTtl(t[c]) /\ After(t, c) <= e
  BY DEF FrameOK, LastOK
<1>3. \A i \in After(t, c)..e - 1 : Child(t, d, i) => IsTtl(t[i]) /\ ~IsNumeric(t[i])
  BY DEF FrameOK, LastOK
<1>4. e # After(t, d) => ~IsTtl(t[e])
  OBVIOUS
<1> HIDE DEF d, c, e
<1>5. ASSUME NEW j \in OwnTtlNodes(t, c)  PROVE FALSE
  <2>1. j \in DOMAIN t /\ t[j].name = TtlName(t[c].name.of) /\ IsNumeric(t[j])
    BY <1>5 DEF OwnTtlNodes
  <2>2. Child(t, d, j)
    BY <1>1, <1>2, <1>5, OneParent DEF OwnTtlNodes, Siblings
  <2>3. IsTtl(t[j]) /\ t[j].name.of = t[c].name.of
    BY <2>1 DEF IsTtl, TtlName
  <2>4. j \in 2..Len(t)
    BY <1>1, <2>1, <2>2, ChildShape, TreeShape
  <2>5. PICK i \in DOMAIN t : Siblings(t, i, j) /\ After(t, i) = j /\ t[i].name = Name(t[j].name.of)
    BY <2>3, <2>4 DEF Paired
  <2>6. Child(t, d, i)
    BY <1>1, <2>1, <2>2, <2>5, OneParent DEF Siblings
  <2>7. t[c].name = Name(t[c].name.of)
    BY <1>1, <1>2, NodeNames
  <2>8. i = c
    <3>1. t[i].name = t[c].name
      BY <2>3, <2>5, <2>7
    <3>2. QED
      BY <1>1, <1>2, <2>5, <2>6, <3>1 DEF TreeOK
  <2>9. j = After(t, c) /\ j \in Nat /\ After(t, c) \in Nat
    BY <1>1, <2>1, <2>5, <2>8, TreeShape
  <2>10. CASE j < e
    <3>1. j \in After(t, c)..e - 1
      BY <1>1, <2>9, <2>10
    <3>2. QED
      BY <1>3, <2>1, <2>2, <3>1
  <2>11. CASE j = e
    <3>1. e # After(t, d)
      <4>1. j < After(t, d)
        BY <2>2 DEF Child
      <4>2. QED
        BY <1>1, <2>9, <2>11, <4>1, TreeShape
    <3>2. QED
      BY <1>4, <2>3, <2>11, <3>1
  <2>12. QED
    BY <1>1, <1>2, <2>9, <2>10, <2>11
<1>6. OwnTtlNodes(t, c) = {}
  BY <1>5
<1>7. Record(c, DefaultTtl).node = c /\ Record(c, DefaultTtl).ttl = DefaultTtl
  BY DEF Record
<1>8. HasOwnTtl(t, Record(c, DefaultTtl))
  BY <1>6, <1>7 DEF HasOwnTtl
<1>9. QED
  BY <1>8 DEF c

(* and a numeric .ttl node that is next is its own, the only one.          *)
LEMMA NextIsItsOwn ==
    ASSUME NEW t, TreeOK(t), Paired(t), NEW f, FrameOK(t, f), f.last # 0,
           f.next # After(t, f.dir), IsTtl(t[f.next]), IsNumeric(t[f.next])
    PROVE  HasOwnTtl(t, Record(f.last, t[f.next].value))
<1> DEFINE d == f.dir
           c == f.last
           e == f.next
<1>1. d \in DOMAIN t /\ c \in DOMAIN t /\ e \in DOMAIN t /\ e \in 2..Len(t) /\ c < e
  BY LastChild, NextChild DEF FrameOK, Frames
<1>2. Child(t, d, c) /\ ~IsTtl(t[c]) /\ After(t, c) <= e
  BY DEF FrameOK, LastOK
<1>3. \A i \in After(t, c)..e - 1 : Child(t, d, i) => IsTtl(t[i]) /\ ~IsNumeric(t[i])
  BY DEF FrameOK, LastOK
<1>4. Child(t, d, e) /\ IsTtl(t[e]) /\ IsNumeric(t[e])
  BY NextChild
<1> HIDE DEF d, c, e
<1>5. PICK i \in DOMAIN t : Siblings(t, i, e) /\ After(t, i) = e /\ t[i].name = Name(t[e].name.of)
  BY <1>1, <1>4 DEF Paired
<1>6. Child(t, d, i) /\ ~IsTtl(t[i])
  BY <1>1, <1>4, <1>5, OneParent DEF Siblings, IsTtl, Name
<1>7. i = c
  <2>1. i \in Nat /\ c \in Nat /\ e \in Nat /\ i < e
    BY <1>1, <1>5, TreeShape
  <2>2. CASE c < i
    <3>1. After(t, c) <= i
      BY <1>1, <1>2, <1>5, <1>6, <2>2, ChildrenApart
    <3>2. i \in After(t, c)..e - 1
      BY <1>1, <2>1, <3>1, TreeShape
    <3>3. QED
      BY <1>3, <1>6, <3>2
  <2>3. CASE i < c
    <3>1. e <= c
      BY <1>1, <1>2, <1>5, <1>6, <2>3, ChildrenApart
    <3>2. QED
      BY <1>1, <2>1, <3>1
  <2>4. QED
    BY <2>1, <2>2, <2>3
<1>8. t[e].name = TtlName(t[c].name.of)
  <2>1. t[e].name = TtlName(t[e].name.of)
    BY <1>1, <1>4, NodeNames
  <2>2. t[c].name.of = t[e].name.of
    BY <1>5, <1>7 DEF Name
  <2>3. QED
    BY <2>1, <2>2
<1>9. OwnTtlNodes(t, c) = {e}
  <2>1. e \in OwnTtlNodes(t, c)
    BY <1>1, <1>2, <1>4, <1>8 DEF OwnTtlNodes, Siblings
  <2>2. ASSUME NEW j \in OwnTtlNodes(t, c)  PROVE j = e
    <3>1. j \in DOMAIN t /\ t[j].name = t[e].name
      BY <1>8, <2>2 DEF OwnTtlNodes
    <3>2. Child(t, d, j)
      BY <1>1, <1>2, <2>2, OneParent DEF OwnTtlNodes, Siblings
    <3>3. QED
      BY <1>1, <1>4, <3>1, <3>2 DEF TreeOK
  <2>3. QED
    BY <2>1, <2>2
<1>10. HasOwnTtl(t, Record(c, t[e].value))
  <2>1. Record(c, t[e].value).node = c /\ Record(c, t[e].value).ttl = t[e].value
    BY DEF Record
  <2>2. QED
    BY <1>9, <2>1 DEF HasOwnTtl
<1>11. QED
  BY <1>10 DEF c, e

-----------------------------------------------------------------------------
(* What a step of the walk keeps. The top frame goes on as f, and nothing  *)
(* is returned for what it passes;                                         *)
LEMMA FramePasses ==
    ASSUME NEW t, TreeOK(t), NEW s, NEW ns, WalkOK(t, s, ns), NEW f, FrameOK(t, f),
           f.dir = Innermost(s).dir, Resume(Innermost(s)) <= Resume(f),
           NothingFrom(t, Resume(Innermost(s)), Resume(f))
    PROVE  WalkOK(t, [s EXCEPT ![Len(s)] = f], ns)
<1> DEFINE u == [s EXCEPT ![Len(s)] = f]
           g == Innermost(s)
<1>1. StackOK(t, s) /\ OutOK(t, ns, Resume(g))
  BY DEF WalkOK
<1>2. StackOK(t, u) /\ Innermost(u) = f
  BY <1>1, StackUpdate
<1>3. g \in Frames /\ f \in Frames
  <2>1. s \in Seq(Frames) /\ Len(s) \in Nat \ {0}
    BY <1>1 DEF StackOK
  <2>2. QED
    BY <2>1 DEF Innermost, FrameOK
<1>4. Resume(g) \in Nat /\ Resume(f) \in Nat
  BY <1>3 DEF Resume, Frames
<1> HIDE DEF u, g
<1>5. OutOK(t, ns, Resume(f))
  BY <1>1, <1>4, OutFurther DEF g
<1>6. QED
  BY <1>2, <1>5 DEF WalkOK, u

(* or findKeys is called for its last value node: a record is returned, or *)
(* the calls are one more.                                                 *)
LEMMA FrameCalls ==
    ASSUME NEW t, TreeOK(t), NEW s, NEW ns, WalkOK(t, s, ns), NEW f, FrameOK(t, f),
           f.dir = Innermost(s).dir, Innermost(s).last # 0,
           After(t, Innermost(s).last) <= Resume(f),
           NothingFrom(t, After(t, Innermost(s).last), Resume(f)),
           NEW ttl \in Ttls \union {DefaultTtl},
           Paired(t) => HasOwnTtl(t, Record(Innermost(s).last, ttl))
    PROVE  /\ t[Innermost(s).last].dir =>
                WalkOK(t, Append([s EXCEPT ![Len(s)] = f], Start(Innermost(s).last)), ns)
           /\ ~t[Innermost(s).last].dir =>
                WalkOK(t, [s EXCEPT ![Len(s)] = f], Append(ns, Record(Innermost(s).last, ttl)))
<1> DEFINE u == [s EXCEPT ![Len(s)] = f]
           c == Innermost(s).last
<1>1. StackOK(t, s)
  BY DEF WalkOK
<1>2. FrameOK(t, Innermost(s))
  <2>1. s \in Seq(Frames) /\ Len(s) \in Nat \ {0}
    BY <1>1 DEF StackOK
  <2>2. Len(s) \in 1..Len(s)
    BY <2>1
  <2>3. QED
    BY <1>1, <2>2 DEF StackOK, Innermost
<1>3. c \in DOMAIN t /\ ~Hidden(t, c)
  BY <1>2, LastChild
<1>4. OutOK(t, ns, c)
  BY DEF WalkOK, Resume
<1>5. StackOK(t, u) /\ Innermost(u) = f
  BY <1>1, StackUpdate
<1>6. Resume(f) \in Nat
  BY DEF FrameOK, Frames, Resume
<1>7. c \in Nat /\ After(t, c) \in Nat /\ c < After(t, c) /\ (~t[c].dir => After(t, c) = c + 1)
  BY <1>3, TreeShape
<1>8. /\ After(t, c) <= Resume(f) /\ NothingFrom(t, After(t, c), Resume(f))
      /\ Paired(t) => HasOwnTtl(t, Record(c, ttl))
  OBVIOUS
<1> HIDE DEF u, c
<1>9. ASSUME t[c].dir  PROVE WalkOK(t, Append(u, Start(c)), ns)
  <2> DEFINE g == Start(c)
  <2>1. g.dir = c /\ g.next = c + 1 /\ g.last = 0 /\ g \in Frames /\ Resume(g) = c + 1
    BY <1>7 DEF Start, Frames, Resume
  <2> HIDE DEF g
  <2>2. Between(t, c, c + 1)
    BY <1>7 DEF Between
  <2>3. FrameOK(t, g)
    BY <1>3, <1>7, <1>9, <2>1, <2>2 DEF FrameOK
  <2>4. Nested(t, f, g)
    BY <1>8, <2>1 DEF Nested
  <2>5. StackOK(t, Append(u, g)) /\ Innermost(Append(u, g)) = g
    BY <1>5, <2>3, <2>4, StackPush
  <2>6. NothingFrom(t, c, c + 1)
    <3>1. SUFFICES ASSUME NEW v \in ValuesOf(t), c <= v, v < c + 1  PROVE FALSE
      BY DEF NothingFrom
    <3>2. v \in Nat /\ ~t[v].dir
      BY TreeShape DEF ValuesOf
    <3>3. v = c
      BY <1>7, <3>1, <3>2
    <3>4. QED
      BY <1>9, <3>2, <3>3
  <2>7. OutOK(t, ns, c + 1)
    BY <1>4, <1>7, <2>6, OutFurther
  <2>8. QED
    BY <2>1, <2>5, <2>7 DEF WalkOK, g
<1>10. ASSUME ~t[c].dir  PROVE WalkOK(t, u, Append(ns, Record(c, ttl)))
  <2>1. c \in ValuesOf(t)
    BY <1>3, <1>10 DEF ValuesOf
  <2> DEFINE ms == Append(ns, Record(c, ttl))
  <2>2. OutOK(t, ms, c + 1)
    BY <1>4, <1>8, <2>1, OutRecord
  <2> HIDE DEF ms
  <2>3. OutOK(t, ms, Resume(f))
    BY <1>6, <1>7, <1>8, <1>10, <2>2, OutFurther
  <2>4. QED
    BY <1>5, <2>3 DEF WalkOK, ms
<1>11. QED
  BY <1>9, <1>10 DEF u, c

-----------------------------------------------------------------------------
(* A step of the walk: what it needs of the walk, and what it returns to.  *)
LEMMA WalkStarts ==
    ASSUME NEW t, TreeOK(t), t[1].dir
    PROVE  WalkOK(t, <<Start(1)>>, <<>>)
<1> DEFINE f == Start(1)
<1>1. f.dir = 1 /\ f.next = 2 /\ f.last = 0 /\ f \in Frames /\ Resume(f) = 2
  BY DEF Start, Frames, Resume
<1> HIDE DEF f
<1>2. 1 \in DOMAIN t /\ ~Hidden(t, 1) /\ After(t, 1) = Len(t) + 1 /\ Len(t) \in Nat /\ 1 <= Len(t)
  BY TreeShape DEF Hidden
<1>3. FrameOK(t, f)
  <2>1. Between(t, 1, 2)
    BY DEF Between
  <2>2. 1 < 2 /\ 2 <= After(t, 1)
    BY <1>2
  <2>3. QED
    BY <1>1, <1>2, <2>1, <2>2 DEF FrameOK
<1>4. StackOK(t, <<f>>) /\ Innermost(<<f>>) = f
  BY <1>1, <1>3 DEF StackOK, Innermost
<1>5. Upto(t, 2) = {}
  <2>1. SUFFICES ASSUME NEW v \in ValuesOf(t), v < 2  PROVE FALSE
    BY DEF Upto
  <2>2. v \in DOMAIN t /\ ~t[v].dir
    BY DEF ValuesOf
  <2>3. v = 1
    BY <2>1, <2>2, TreeShape
  <2>4. QED
    BY <2>2, <2>3
<1>6. OutOK(t, <<>>, 2)
  BY <1>5 DEF OutOK, NodesOf, InOrder
<1>7. QED
  BY <1>1, <1>4, <1>6 DEF WalkOK, f

-----------------------------------------------------------------------------
(* Every TTL is the default or one that a .ttl node may hold.              *)
LEMMA TtlType ==
    /\ DefaultTtl \in Ttls \union {DefaultTtl}
    /\ \A content : TtlOf(content) \in Ttls \union {DefaultTtl}
BY DEF TtlOf

(* During the walk there is an innermost frame, and it is a good one.      *)
LEMMA InTheWalk ==
    ASSUME IInv, Walking
    PROVE  /\ TreeOK(got) /\ WalkOK(got, frames, nodes) /\ got # <<>> /\ got[1].dir
           /\ FrameOK(got, Top) /\ Top \in Frames /\ Innermost(frames) = Top
           /\ frames \in Seq(Frames) /\ Len(frames) \in Nat \ {0}
<1>1. WalkOK(got, frames, nodes) /\ got # <<>> /\ got[1].dir
  BY DEF IInv, WalkInv, Walking
<1>2. TreeOK(got)
  BY <1>1, TreesAssumption DEF IInv, TypeOK
<1>3. StackOK(got, frames)
  BY <1>1 DEF WalkOK
<1>4. frames \in Seq(Frames) /\ Len(frames) \in Nat \ {0}
  BY <1>3 DEF StackOK
<1>5. Len(frames) \in 1..Len(frames)
  BY <1>4
<1>6. FrameOK(got, Top) /\ Innermost(frames) = Top
  BY <1>3, <1>5 DEF StackOK, Top, Innermost
<1>7. QED
  BY <1>1, <1>2, <1>4, <1>6 DEF FrameOK

(* A step of the walk that leaves it good leaves everything good.          *)
LEMMA WalkGoesOn ==
    ASSUME IInv, Walking, UNCHANGED pc, WalkOK(got, frames', nodes')
    PROVE  IInv'
<1>1. pc = "walk" /\ pc' = "walk" /\ UNCHANGED <<node, ttlNode, writes, failures, got, err, history>>
  BY DEF Walking
<1>2. got # <<>> /\ got[1].dir
  BY InTheWalk
<1>3. nodes' \in Seq(RecordsOf(got))
  BY DEF WalkOK, OutOK
<1>4. TypeOK'
  BY <1>1, <1>3 DEF IInv, TypeOK, RecordsOf
<1>5. WalkInv'
  BY <1>1, <1>2 DEF WalkInv
<1>6. SingleInv'
  BY <1>1 DEF SingleInv
<1>7. QED
  BY <1>4, <1>5, <1>6 DEF IInv

(* A frame may go past what holds no value.                                *)
LEMMA PassKeeps ==
    ASSUME IInv, Walking, UNCHANGED pc, NEW f, Pass(f), FrameOK(got, f), f.dir = Top.dir,
           Resume(Top) <= Resume(f), NothingFrom(got, Resume(Top), Resume(f))
    PROVE  IInv'
<1>1. TreeOK(got) /\ WalkOK(got, frames, nodes) /\ Innermost(frames) = Top
  BY InTheWalk
<1>2. WalkOK(got, [frames EXCEPT ![Len(frames)] = f], nodes)
  BY <1>1, FramePasses
<1>3. WalkOK(got, frames', nodes')
  BY <1>2 DEF Pass
<1>4. QED
  BY <1>3, WalkGoesOn

(* A frame may call findKeys for its last value node, whose TTL is its own *)
(* if the tree is paired, and go past what holds no value.                 *)
LEMMA CallKeeps ==
    ASSUME IInv, Walking, UNCHANGED pc, NEW ttl \in Ttls \union {DefaultTtl}, NEW f,
           Call(ttl, f), FrameOK(got, f), f.dir = Top.dir, Top.last # 0,
           After(got, Top.last) <= Resume(f), NothingFrom(got, After(got, Top.last), Resume(f)),
           Paired(got) => HasOwnTtl(got, Record(Top.last, ttl))
    PROVE  IInv'
<1>1. TreeOK(got) /\ WalkOK(got, frames, nodes) /\ Innermost(frames) = Top
  BY InTheWalk
<1>2. /\ got[Top.last].dir =>
            WalkOK(got, Append([frames EXCEPT ![Len(frames)] = f], Start(Top.last)), nodes)
      /\ ~got[Top.last].dir =>
            WalkOK(got, [frames EXCEPT ![Len(frames)] = f], Append(nodes, Record(Top.last, ttl)))
  BY <1>1, FrameCalls
<1>3. CASE got[Top.last].dir
  BY <1>2, <1>3, WalkGoesOn DEF Call
<1>4. CASE ~got[Top.last].dir
  BY <1>2, <1>4, WalkGoesOn DEF Call
<1>5. QED
  BY <1>3, <1>4

-----------------------------------------------------------------------------
(* A .ttl node: either its TTL is used for the last value node, or it is   *)
(* passed, with all below it.                                              *)
LEMMA WalkTtlKeeps ==
    ASSUME IInv, WalkTtl
    PROVE  IInv'
<1> DEFINE e == Top.next
           d == Top.dir
           f == [Top EXCEPT !.next = After(got, @)]
           h == [f EXCEPT !.last = 0]
<1>1. Walking /\ ~AtTheEnd /\ IsTtl(got[e]) /\ UNCHANGED pc
  BY DEF WalkTtl
<1>2. TreeOK(got) /\ FrameOK(got, Top) /\ Top \in Frames
  BY <1>1, InTheWalk
<1>3. Child(got, d, e) /\ e \in DOMAIN got /\ e \in 2..Len(got)
  BY <1>1, <1>2, NextChild DEF AtTheEnd
<1>4. d \in DOMAIN got /\ got[d].dir /\ ~Hidden(got, d) /\ d \in Nat /\ e \in Nat
  BY <1>2 DEF FrameOK, Frames
<1>5. /\ After(got, e) \in Nat /\ e < After(got, e) /\ d < e
      /\ After(got, e) <= After(got, d) /\ Between(got, d, After(got, e))
  BY <1>2, <1>3, <1>4, ChildShape, TreeShape
<1>6. NothingFrom(got, e, After(got, e))
  BY <1>1, <1>2, <1>3, NothingBelowTtl
<1>7. /\ f \in Frames /\ f.dir = d /\ f.next = After(got, e) /\ f.last = Top.last
      /\ h \in Frames /\ h.dir = d /\ h.next = After(got, e) /\ h.last = 0
  BY <1>2, <1>5 DEF Frames
<1>8. \/ IsNumeric(got[e]) /\ Top.last # 0 /\ Call(got[e].value, h)
      \/ ~(IsNumeric(got[e]) /\ Top.last # 0) /\ Pass(f)
  BY DEF WalkTtl
<1> HIDE DEF f, h
<1>9. d < After(got, e)
  BY <1>4, <1>5
<1>10. CASE IsNumeric(got[e]) /\ Top.last # 0 /\ Call(got[e].value, h)
  <2>1. FrameOK(got, h)
    BY <1>4, <1>5, <1>7, <1>9 DEF FrameOK
  <2>2. Resume(h) = After(got, e)
    BY <1>7 DEF Resume
  <2>3. Top.last \in DOMAIN got /\ After(got, Top.last) <= e
    BY <1>2, <1>10, LastChild
  <2>4. After(got, Top.last) \in Nat
    BY <1>2, <2>3, TreeShape
  <2>5. After(got, Top.last) <= Resume(h)
    BY <1>4, <1>5, <2>2, <2>3, <2>4
  <2>6. NothingFrom(got, After(got, Top.last), e)
    BY <1>2, <1>10 DEF FrameOK, LastOK
  <2>7. NothingFrom(got, After(got, Top.last), Resume(h))
    BY <1>2, <1>4, <1>5, <1>6, <2>2, <2>4, <2>6, NothingJoined
  <2>8. got[e].value \in Ttls \union {DefaultTtl}
    BY <1>10 DEF IsNumeric
  <2>9. Paired(got) => HasOwnTtl(got, Record(Top.last, got[e].value))
    BY <1>1, <1>2, <1>10, NextIsItsOwn DEF AtTheEnd
  <2>10. QED
    BY <1>1, <1>7, <1>10, <2>1, <2>5, <2>7, <2>8, <2>9, CallKeeps
<1>11. CASE ~(IsNumeric(got[e]) /\ Top.last # 0) /\ Pass(f)
  <2>1. CASE Top.last = 0
    <3>1. FrameOK(got, f)
      BY <1>4, <1>5, <1>7, <1>9, <2>1 DEF FrameOK
    <3>2. Resume(f) = After(got, e) /\ Resume(Top) = e
      BY <1>7, <2>1 DEF Resume
    <3>3. e <= After(got, e)
      BY <1>4, <1>5
    <3>4. QED
      BY <1>1, <1>6, <1>7, <1>11, <3>1, <3>2, <3>3, PassKeeps
  <2>2. CASE Top.last # 0
    <3>1. LastOK(got, Top) /\ Top.last \in DOMAIN got /\ After(got, Top.last) \in Nat
      BY <1>2, <2>2, LastChild, TreeShape DEF FrameOK
    <3>2. /\ Child(got, d, Top.last) /\ ~IsTtl(got[Top.last]) /\ After(got, Top.last) <= e
          /\ NothingFrom(got, After(got, Top.last), e)
          /\ \A i \in After(got, Top.last)..e - 1 :
                Child(got, d, i) => IsTtl(got[i]) /\ ~IsNumeric(got[i])
      BY <3>1 DEF LastOK
    <3>3. After(got, Top.last) <= After(got, e)
      BY <1>4, <1>5, <3>1, <3>2
    <3>4. NothingFrom(got, After(got, Top.last), After(got, e))
      BY <1>2, <1>4, <1>5, <1>6, <3>1, <3>2, NothingJoined
    <3>5. ASSUME NEW i \in After(got, Top.last)..After(got, e) - 1, Child(got, d, i)
          PROVE  IsTtl(got[i]) /\ ~IsNumeric(got[i])
      <4>1. i \in Nat
        BY <1>5, <3>1
      <4>2. i \in DOMAIN got
        BY <1>2, <1>4, <3>5, <4>1, ChildShape
      <4>3. CASE i < e
        <5>1. i \in After(got, Top.last)..e - 1
          BY <1>4, <1>5, <3>1, <3>5, <4>1, <4>3
        <5>2. QED
          BY <3>2, <3>5, <5>1
      <4>4. CASE i = e
        BY <1>1, <1>11, <2>2, <4>4
      <4>5. CASE e < i
        <5>1. After(got, e) <= i
          BY <1>2, <1>3, <1>4, <3>5, <4>2, <4>5, ChildrenApart
        <5>2. QED
          BY <1>5, <3>1, <3>5, <4>1, <5>1
      <4>6. QED
        BY <1>4, <4>1, <4>3, <4>4, <4>5
    <3>6. LastOK(got, f)
      BY <1>7, <3>2, <3>3, <3>4, <3>5 DEF LastOK
    <3>7. FrameOK(got, f)
      BY <1>4, <1>5, <1>7, <1>9, <3>6 DEF FrameOK
    <3>8. Resume(f) = Top.last /\ Resume(Top) = Top.last
      BY <1>7, <2>2 DEF Resume
    <3>9. Resume(Top) <= Resume(f) /\ NothingFrom(got, Resume(Top), Resume(f))
      <4>1. Top.last \in Nat /\ \A v \in ValuesOf(got) : v \in Nat
        BY <1>2, TreeShape DEF Frames, ValuesOf
      <4>2. QED
        BY <3>8, <4>1 DEF NothingFrom
    <3>10. QED
      BY <1>1, <1>7, <1>11, <3>7, <3>9, PassKeeps
  <2>3. QED
    BY <2>1, <2>2
<1>12. QED
  BY <1>8, <1>10, <1>11

-----------------------------------------------------------------------------
(* Another node becomes the last value node; the one before it has no TTL. *)
LEMMA WalkValueKeeps ==
    ASSUME IInv, WalkValue
    PROVE  IInv'
<1> DEFINE e == Top.next
           d == Top.dir
           f == [Top EXCEPT !.next = After(got, @), !.last = Top.next]
<1>1. Walking /\ ~AtTheEnd /\ ~IsTtl(got[e]) /\ UNCHANGED pc
  BY DEF WalkValue
<1>2. TreeOK(got) /\ FrameOK(got, Top) /\ Top \in Frames
  BY <1>1, InTheWalk
<1>3. Child(got, d, e) /\ e \in DOMAIN got /\ e \in 2..Len(got)
  BY <1>1, <1>2, NextChild DEF AtTheEnd
<1>4. d \in DOMAIN got /\ got[d].dir /\ ~Hidden(got, d) /\ d \in Nat /\ e \in Nat
  BY <1>2 DEF FrameOK, Frames
<1>5. /\ After(got, e) \in Nat /\ e < After(got, e) /\ d < e /\ d < After(got, e)
      /\ After(got, e) <= After(got, d) /\ Between(got, d, After(got, e))
  BY <1>2, <1>3, <1>4, ChildShape, TreeShape
<1>6. f \in Frames /\ f.dir = d /\ f.next = After(got, e) /\ f.last = e
  BY <1>2, <1>5 DEF Frames
<1>7. IF Top.last # 0 THEN Call(DefaultTtl, f) ELSE Pass(f)
  BY DEF WalkValue
<1> HIDE DEF f
<1>8. FrameOK(got, f)
  <2>1. NothingFrom(got, After(got, e), After(got, e))
    <3>1. \A v \in ValuesOf(got) : v \in Nat
      BY <1>2, TreeShape DEF ValuesOf
    <3>2. QED
      BY <1>5, <3>1 DEF NothingFrom
  <2>2. \A i \in After(got, e)..After(got, e) - 1 : FALSE
    BY <1>5
  <2>3. After(got, e) <= After(got, e)
    BY <1>5
  <2>4. LastOK(got, f)
    BY <1>1, <1>3, <1>6, <2>1, <2>2, <2>3 DEF LastOK
  <2>5. QED
    BY <1>4, <1>5, <1>6, <2>4 DEF FrameOK
<1>9. Resume(f) = e
  BY <1>3, <1>6 DEF Resume
<1>10. CASE Top.last # 0
  <2>1. After(got, Top.last) <= Resume(f)
    BY <1>2, <1>9, <1>10, LastChild
  <2>2. NothingFrom(got, After(got, Top.last), Resume(f))
    BY <1>2, <1>9, <1>10 DEF FrameOK, LastOK
  <2>3. Paired(got) => HasOwnTtl(got, Record(Top.last, DefaultTtl))
    BY <1>1, <1>2, <1>10, NoTtlOfItsOwn
  <2>4. Call(DefaultTtl, f)
    BY <1>7, <1>10
  <2>5. QED
    BY <1>1, <1>6, <1>8, <1>10, <2>1, <2>2, <2>3, <2>4, CallKeeps, TtlType
<1>11. CASE Top.last = 0
  <2>1. Resume(Top) = e /\ Resume(Top) <= Resume(f)
    BY <1>4, <1>9, <1>11 DEF Resume
  <2>2. NothingFrom(got, Resume(Top), Resume(f))
    <3>1. \A v \in ValuesOf(got) : v \in Nat
      BY <1>2, TreeShape DEF ValuesOf
    <3>2. QED
      BY <1>4, <1>9, <2>1, <3>1 DEF NothingFrom
  <2>3. QED
    BY <1>1, <1>6, <1>7, <1>8, <1>11, <2>1, <2>2, PassKeeps
<1>12. QED
  BY <1>10, <1>11

(* All children were seen, and the last value node is still to be walked,  *)
LEMMA WalkLastKeeps ==
    ASSUME IInv, WalkLast
    PROVE  IInv'
<1> DEFINE f == [Top EXCEPT !.last = 0]
<1>1. Walking /\ AtTheEnd /\ Top.last # 0 /\ UNCHANGED pc /\ Call(DefaultTtl, f)
  BY DEF WalkLast, Call
<1>2. TreeOK(got) /\ FrameOK(got, Top) /\ Top \in Frames
  BY <1>1, InTheWalk
<1>3. f \in Frames /\ f.dir = Top.dir /\ f.next = Top.next /\ f.last = 0
  BY <1>2 DEF Frames
<1> HIDE DEF f
<1>4. FrameOK(got, f) /\ Resume(f) = Top.next
  BY <1>2, <1>3 DEF FrameOK, Resume
<1>5. After(got, Top.last) <= Resume(f) /\ NothingFrom(got, After(got, Top.last), Resume(f))
  BY <1>1, <1>2, <1>4 DEF FrameOK, LastOK
<1>6. Paired(got) => HasOwnTtl(got, Record(Top.last, DefaultTtl))
  BY <1>1, <1>2, NoTtlOfItsOwn DEF AtTheEnd
<1>7. QED
  BY <1>1, <1>3, <1>4, <1>5, <1>6, CallKeeps, TtlType

(* or the call returns: to its caller, or everything was returned.         *)
LEMMA WalkReturnsKeeps ==
    ASSUME IInv, WalkReturns
    PROVE  IInv'
<1> DEFINE u == SubSeq(frames, 1, Len(frames) - 1)
<1>1. /\ Walking /\ AtTheEnd /\ Top.last = 0 /\ frames' = u /\ UNCHANGED nodes
      /\ pc' = IF frames' = <<>> THEN "done" ELSE "walk"
  BY DEF WalkReturns
<1>2. /\ TreeOK(got) /\ WalkOK(got, frames, nodes) /\ got # <<>> /\ got[1].dir
      /\ FrameOK(got, Top) /\ Top \in Frames /\ Innermost(frames) = Top
      /\ frames \in Seq(Frames) /\ Len(frames) \in Nat \ {0}
  BY <1>1, InTheWalk
<1>3. StackOK(got, frames) /\ OutOK(got, nodes, After(got, Top.dir))
  BY <1>1, <1>2 DEF WalkOK, Resume, AtTheEnd
<1>4. pc = "walk" /\ UNCHANGED <<node, ttlNode, writes, failures, got, err, history>>
  BY <1>1 DEF Walking
<1>5. CASE Len(frames) = 1
  <2>1. u = <<>>
    BY <1>2, <1>5
  <2>2. pc' = "done"
    BY <1>1, <2>1
  <2>3. Top.dir = 1
    BY <1>3, <1>5 DEF StackOK, Top
  <2>4. OutOK(got, nodes, Len(got) + 1)
    BY <1>2, <1>3, <2>3, TreeShape
  <2>5. TypeOK'
    BY <1>1, <1>4, <2>2 DEF IInv, TypeOK
  <2>6. WalkInv'
    BY <1>1, <1>4, <2>2, <2>4 DEF WalkInv
  <2>7. SingleInv'
    BY <1>1, <1>2, <1>4, <2>2 DEF SingleInv
  <2>8. QED
    BY <2>5, <2>6, <2>7 DEF IInv
<1>6. CASE Len(frames) # 1
  <2>1. u # <<>> /\ StackOK(got, u) /\ Nested(got, Innermost(u), Top)
    BY <1>2, <1>3, <1>6, StackPop
  <2>2. pc' = "walk"
    BY <1>1, <2>1
  <2>3. Innermost(u) \in Frames
    <3>1. u \in Seq(Frames) /\ Len(u) \in 1..Len(u)
      BY <2>1 DEF StackOK
    <3>2. QED
      BY <3>1 DEF Innermost
  <2> HIDE DEF u
  <2>4. Resume(Innermost(u)) \in Nat /\ After(got, Top.dir) \in Nat
    BY <1>2, <2>3, TreeShape DEF Resume, Frames, FrameOK
  <2>5. OutOK(got, nodes, Resume(Innermost(u)))
    BY <1>2, <1>3, <2>1, <2>4, OutFurther DEF Nested
  <2>6. WalkOK(got, frames', nodes')
    BY <1>1, <2>1, <2>5 DEF WalkOK
  <2>7. UNCHANGED pc
    BY <1>4, <2>2
  <2>8. QED
    BY <1>1, <2>6, <2>7, WalkGoesOn
<1>7. QED
  BY <1>5, <1>6

-----------------------------------------------------------------------------
(* The requests: a directory is walked, and a single value has its TTL     *)
(* from the second request.                                                *)
LEMMA GetKeeps ==
    ASSUME IInv, Get
    PROVE  IInv'
<1>1. /\ pc = "get" /\ got' = node /\ nodes = <<>> /\ failures = 0 /\ TypeOK
      /\ UNCHANGED <<node, ttlNode, writes, failures, nodes, err>>
  BY DEF Get, IInv, SingleInv
<1>2. pc' \in {"walk", "ttl", "done"}
  BY DEF Get
<1>3. nodes' \in Seq(RecordsOf(got'))
  BY <1>1
<1>4. TypeOK'
  BY <1>1, <1>2, <1>3 DEF TypeOK, RecordsOf
<1>5. CASE node = <<>> /\ pc' = "done"
  <2>1. WalkInv' /\ SingleInv'
    BY <1>1, <1>5 DEF WalkInv, SingleInv
  <2>2. QED
    BY <1>4, <2>1 DEF IInv
<1>6. CASE node # <<>> /\ node[1].dir /\ pc' = "walk" /\ frames' = <<Start(1)>>
  <2>1. TreeOK(node)
    BY <1>1, <1>6, TreesAssumption DEF TypeOK
  <2>2. WalkOK(node, <<Start(1)>>, <<>>)
    BY <1>6, <2>1, WalkStarts
  <2>3. WalkInv'
    BY <1>1, <1>6, <2>2 DEF WalkInv
  <2>4. SingleInv'
    BY <1>1, <1>6 DEF SingleInv
  <2>5. QED
    BY <1>4, <2>3, <2>4 DEF IInv
<1>7. CASE node # <<>> /\ ~node[1].dir /\ pc' = "ttl" /\ own' = {ttlNode}
  <2>1. WalkInv'
    BY <1>1, <1>7 DEF WalkInv
  <2>2. SingleInv'
    BY <1>1, <1>7 DEF SingleInv
  <2>3. QED
    BY <1>4, <2>1, <2>2 DEF IInv
<1>8. QED
  BY <1>5, <1>6, <1>7 DEF Get

(* The second request, answered or not.                                    *)
LEMMA FoundKeeps ==
    ASSUME IInv, pc = "ttl", NEW ttl \in Ttls \union {DefaultTtl}, Found(ttl),
           failures' \in 0..MaxFailures,
           failures' = 0 => ttl = TtlOf(ttlNode),
           failures' > 0 => ttl = DefaultTtl
    PROVE  IInv'
<1>1. /\ nodes' = <<Record(1, ttl)>> /\ pc' = "done"
      /\ UNCHANGED <<node, ttlNode, writes, got, frames, err, history>>
  BY DEF Found
<1>2. got # <<>> /\ ~got[1].dir /\ (overtaken \/ ttlNode \in own) /\ TypeOK
  BY DEF IInv, SingleInv
<1>3. TreeOK(got)
  BY <1>2, TreesAssumption DEF TypeOK
<1>4. 1 \in DOMAIN got
  BY <1>3, TreeShape
<1>5. Record(1, ttl) \in RecordsOf(got) /\ Record(1, ttl).ttl = ttl
  BY <1>4 DEF RecordsOf, Record
<1>6. nodes' \in Seq(RecordsOf(got)) /\ nodes'[1].ttl = ttl
  BY <1>1, <1>5
<1>7. TypeOK'
  BY <1>1, <1>2, <1>6 DEF TypeOK, RecordsOf
<1>8. WalkInv'
  BY <1>1, <1>2 DEF WalkInv
<1>9. /\ failures' = 0 => overtaken' \/ \E c \in own' : nodes'[1].ttl = TtlOf(c)
      /\ failures' > 0 => nodes'[1].ttl = DefaultTtl
  BY <1>1, <1>2, <1>6 DEF history
<1>10. SingleInv'
  BY <1>1, <1>2, <1>9 DEF SingleInv
<1>11. QED
  BY <1>7, <1>8, <1>10 DEF IInv

-----------------------------------------------------------------------------
(* The invariant holds at the start, and with Inductive always.            *)
LEMMA Initially == Init => IInv
<1>1. SUFFICES ASSUME Init PROVE IInv
  OBVIOUS
<1>2. /\ pc = "get" /\ got = <<>> /\ nodes = <<>> /\ writes = 0 /\ failures = 0 /\ err = FALSE
      /\ node \in {<<>>} \union Trees
      /\ ttlNode \in {<<>>} \union {<<t>> : t \in Ttls \union {INVALID}}
  BY <1>1 DEF Init
<1>3. TypeOK
  <2>1. 0 \in 0..MaxWrites /\ 0 \in 0..MaxFailures
    BY BoundsAssumption
  <2>2. nodes \in Seq([node : DOMAIN got, ttl : Ttls \union {DefaultTtl}])
    BY <1>2
  <2>3. QED
    BY <1>2, <2>1, <2>2 DEF TypeOK
<1>4. WalkInv /\ SingleInv
  BY <1>2 DEF WalkInv, SingleInv
<1>5. QED
  BY <1>3, <1>4 DEF IInv

(* No step of the reader, and no write of another client, breaks the       *)
(* invariant.                                                              *)
LEMMA Inductive == IInv /\ [Next]_vars => IInv'
<1>1. SUFFICES ASSUME IInv, [Next]_vars PROVE IInv'
  OBVIOUS
<1>2. CASE Write
  <2>1. /\ pc \in {"get", "ttl"} /\ writes' = writes + 1 /\ writes < MaxWrites
        /\ node' \in {<<>>} \union Trees
        /\ ttlNode' \in {<<>>} \union {<<t>> : t \in Ttls \union {INVALID}}
        /\ UNCHANGED <<failures, pc, got, frames, nodes, err>>
    BY <1>1, <1>2 DEF Write, IInv, TypeOK
  <2>2. pc = "ttl" => overtaken' \/ ttlNode' \in own'
    BY <1>1, <1>2 DEF Write, IInv, SingleInv
  <2>3. writes' \in 0..MaxWrites
    BY <1>1, <2>1, BoundsAssumption DEF IInv, TypeOK
  <2>4. TypeOK'
    BY <1>1, <2>1, <2>3 DEF IInv, TypeOK
  <2>5. WalkInv'
    BY <2>1 DEF WalkInv
  <2>6. SingleInv'
    BY <1>1, <2>1, <2>2 DEF IInv, SingleInv
  <2>7. QED
    BY <2>4, <2>5, <2>6 DEF IInv
<1>3. ASSUME Fails  PROVE failures' \in 0..MaxFailures /\ failures' # 0
  BY <1>1, <1>3, BoundsAssumption DEF Fails, IInv, TypeOK
<1>4. CASE GetFails
  <2>1. /\ pc = "get" /\ err' = TRUE /\ pc' = "done" /\ got = <<>> /\ Fails
        /\ UNCHANGED <<node, ttlNode, writes, got, frames, nodes, history>>
    BY <1>1, <1>4 DEF GetFails, IInv, SingleInv
  <2>2. TypeOK'
    BY <1>1, <1>3, <2>1 DEF IInv, TypeOK
  <2>3. WalkInv' /\ SingleInv'
    BY <2>1 DEF WalkInv, SingleInv
  <2>4. QED
    BY <2>2, <2>3 DEF IInv
<1>5. CASE GetTtl
  <2>1. failures' = 0 /\ 0 \in 0..MaxFailures
    BY <1>1, <1>5 DEF GetTtl, IInv, TypeOK, SingleInv
  <2>2. QED
    BY <1>1, <1>5, <2>1, FoundKeeps, TtlType DEF GetTtl
<1>6. CASE GetTtlFails
  BY <1>1, <1>3, <1>6, FoundKeeps, TtlType DEF GetTtlFails
<1>7. CASE UNCHANGED vars
  BY <1>1, <1>7 DEF vars, history, IInv, TypeOK, WalkInv, SingleInv
<1>8. QED
  BY <1>1, <1>2, <1>4, <1>5, <1>6, <1>7, GetKeeps, WalkTtlKeeps, WalkValueKeeps,
     WalkLastKeeps, WalkReturnsKeeps
     DEF Next, Reader, Walk, Terminated

(* The invariant holds in every state.                                     *)
LEMMA Always == Spec => []IInv
BY Initially, Inductive, PTL DEF Spec

-----------------------------------------------------------------------------
(* The types of the variables: only values of the tree that was read are   *)
(* returned, with a TTL that some .ttl node holds or the default.          *)
THEOREM TypeCorrect == Spec => []TypeOK
<1>1. IInv => TypeOK
  BY DEF IInv
<1>2. QED
  BY <1>1, Always, PTL

(* Whatever the tree, and whatever is written to it while it is read: the  *)
(* values of the first response are returned, each once and in its order.  *)
THEOREM EveryValueOnceHolds == Spec => []EveryValueOnce
<1>1. ASSUME IInv, Returned
      PROVE  /\ {nodes[k].node : k \in DOMAIN nodes} = ValuesOf(got)
             /\ \A k, l \in DOMAIN nodes : k < l => nodes[k].node < nodes[l].node
  <2>1. pc = "done" /\ got # <<>> /\ TreeOK(got)
    BY <1>1, TreesAssumption DEF IInv, TypeOK, Returned
  <2>2. Len(got) \in Nat /\ DOMAIN got = 1..Len(got) /\ \A v \in ValuesOf(got) : v \in 1..Len(got)
    BY <2>1, TreeShape DEF ValuesOf
  <2>3. CASE got[1].dir
    <3>1. OutOK(got, nodes, Len(got) + 1)
      BY <1>1, <2>1, <2>3 DEF IInv, WalkInv
    <3>2. Upto(got, Len(got) + 1) = ValuesOf(got)
      BY <2>2 DEF Upto
    <3>3. QED
      BY <3>1, <3>2 DEF OutOK, NodesOf, InOrder
  <2>4. CASE ~got[1].dir
    <3>1. PICK ttl \in Ttls \union {DefaultTtl} : nodes = <<Record(1, ttl)>>
      BY <1>1, <2>1, <2>4 DEF IInv, SingleInv
    <3>2. DOMAIN nodes = {1} /\ nodes[1].node = 1
      BY <3>1 DEF Record
    <3>3. DOMAIN got = {1}
      <4>1. After(got, 1) = 2 /\ After(got, 1) = Len(got) + 1
        BY <2>1, <2>4, TreeShape
      <4>2. QED
        BY <2>2, <4>1
    <3>4. ~Hidden(got, 1)
      BY DEF Hidden
    <3>5. ValuesOf(got) = {1}
      BY <2>4, <3>3, <3>4 DEF ValuesOf
    <3>6. {nodes[k].node : k \in DOMAIN nodes} = {1}
      BY <3>2
    <3>7. QED
      BY <3>2, <3>5, <3>6
  <2>5. QED
    BY <2>3, <2>4
<1>2. IInv => EveryValueOnce
  BY <1>1 DEF EveryValueOnce
<1>3. QED
  BY <1>2, Always, PTL

(* Where every .ttl node comes right after the value or the directory it   *)
(* is named after, every record has the TTL that is given for it.          *)
THEOREM OwnTtlWhenPairedHolds == Spec => []OwnTtlWhenPaired
<1>1. IInv => OwnTtlWhenPaired
  BY DEF IInv, WalkInv, OwnTtlWhenPaired, Listing, Returned, OutOK
<1>2. QED
  BY <1>1, Always, PTL

(* A single value has its own TTL: one its .ttl node held together with it,*)
(* unless the request for the TTL failed, or the key and then its .ttl node*)
(* were written between the two requests.                                  *)
THEOREM SingleTtlIsItsOwnHolds == Spec => []SingleTtlIsItsOwn
<1>1. TypeOK => failures = 0 \/ failures > 0
  BY BoundsAssumption DEF TypeOK
<1>2. IInv => SingleTtlIsItsOwn
  BY <1>1 DEF IInv, SingleInv, SingleTtlIsItsOwn, SingleFile, Returned
<1>3. QED
  BY <1>2, Always, PTL

-----------------------------------------------------------------------------
(* The walk comes to an end, however deep the tree: each step goes on in   *)
(* the response; or returns to a call that resumes no earlier; or stays    *)
(* with a value whose TTL is not known yet and takes another child.        *)
Advances(s, u) ==
    \/ Resume(Innermost(s)) < Resume(Innermost(u))
    \/ /\ Resume(Innermost(s)) = Resume(Innermost(u))
       /\ \/ Len(u) < Len(s)
          \/ Len(u) = Len(s) /\ Innermost(s).next < Innermost(u).next

Progress == pc = "walk" /\ pc' = "walk" => Advances(frames, frames')

(* The walk stays within the response.                                     *)
WithinTheTree ==
    pc = "walk" => Top.next <= Len(got) + 1 /\ Resume(Top) <= Len(got) + 1

(* A frame that goes on is the innermost one after it.                     *)
LEMMA PassAdvances ==
    ASSUME IInv, Walking, NEW f \in Frames, Pass(f),
           \/ Resume(Top) < Resume(f)
           \/ Resume(Top) = Resume(f) /\ Top.next < f.next
    PROVE  Advances(frames, frames')
<1>1. frames \in Seq(Frames) /\ Len(frames) \in Nat \ {0} /\ Innermost(frames) = Top
  BY InTheWalk
<1>2. Len(frames') = Len(frames) /\ Innermost(frames') = f
  BY <1>1 DEF Pass, Innermost
<1>3. QED
  BY <1>1, <1>2 DEF Advances

(* A call starts behind its directory, and a record is behind the caller.  *)
LEMMA CallAdvances ==
    ASSUME IInv, Walking, NEW ttl, NEW f \in Frames, Call(ttl, f), Top.last # 0, Top.last < Resume(f)
    PROVE  Advances(frames, frames')
<1>1. /\ frames \in Seq(Frames) /\ Len(frames) \in Nat \ {0} /\ Innermost(frames) = Top
      /\ Top \in Frames
  BY InTheWalk
<1> DEFINE goesOn == [frames EXCEPT ![Len(frames)] = f]
<1>2. goesOn \in Seq(Frames) /\ Len(goesOn) = Len(frames) /\ Innermost(goesOn) = f
  BY <1>1 DEF Innermost
<1>3. \/ frames' = Append(goesOn, Start(Top.last))
      \/ frames' = goesOn
  BY DEF Call
<1> HIDE DEF goesOn
<1>4. Resume(Top) = Top.last /\ Top.last \in Nat
  BY <1>1 DEF Resume, Frames
<1>5. CASE frames' = Append(goesOn, Start(Top.last))
  <2>1. Start(Top.last) \in Frames /\ Resume(Start(Top.last)) = Top.last + 1
    BY <1>4 DEF Start, Resume, Frames
  <2>2. Innermost(frames') = Start(Top.last)
    BY <1>1, <1>2, <1>5, <2>1 DEF Innermost
  <2>3. QED
    BY <1>1, <1>4, <2>1, <2>2 DEF Advances
<1>6. CASE frames' = goesOn
  BY <1>1, <1>2, <1>4, <1>6 DEF Advances
<1>7. QED
  BY <1>3, <1>5, <1>6

(* A return is to a call that resumes behind the directory it called for.  *)
LEMMA ReturnAdvances ==
    ASSUME IInv, WalkReturns, pc' = "walk"
    PROVE  Advances(frames, frames')
<1> DEFINE u == SubSeq(frames, 1, Len(frames) - 1)
<1>1. /\ Walking /\ AtTheEnd /\ Top.last = 0 /\ frames' = u
      /\ pc' = IF frames' = <<>> THEN "done" ELSE "walk"
  BY DEF WalkReturns
<1>2. /\ TreeOK(got) /\ WalkOK(got, frames, nodes) /\ FrameOK(got, Top) /\ Innermost(frames) = Top
      /\ frames \in Seq(Frames) /\ Len(frames) \in Nat \ {0}
  BY <1>1, InTheWalk
<1>3. Len(frames) # 1
  BY <1>1, <1>2
<1>4. StackOK(got, u) /\ Nested(got, Innermost(u), Top) /\ Len(u) = Len(frames) - 1
  BY <1>2, <1>3, StackPop DEF WalkOK
<1>5. u \in Seq(Frames) /\ Len(u) \in 1..Len(u)
  BY <1>2, <1>3, <1>4 DEF StackOK
<1> HIDE DEF u
<1>6. Innermost(u) \in Frames
  BY <1>5 DEF Innermost
<1>7. Resume(Innermost(u)) \in Nat /\ Resume(Top) = After(got, Top.dir)
  BY <1>1, <1>6 DEF Resume, Frames, AtTheEnd
<1>8. After(got, Top.dir) \in Nat /\ After(got, Top.dir) <= Resume(Innermost(u))
  BY <1>2, <1>4, TreeShape DEF Nested, FrameOK
<1>9. QED
  BY <1>1, <1>2, <1>4, <1>7, <1>8 DEF Advances

(* Every child goes on past itself, or past the value before it.           *)
LEMMA ChildAdvances ==
    ASSUME IInv, WalkTtl \/ WalkValue
    PROVE  Advances(frames, frames')
<1> DEFINE e == Top.next
           f == [Top EXCEPT !.next = After(got, @)]
           h == [f EXCEPT !.last = 0]
           g == [Top EXCEPT !.next = After(got, @), !.last = Top.next]
<1>1. Walking /\ ~AtTheEnd
  BY DEF WalkTtl, WalkValue
<1>2. TreeOK(got) /\ FrameOK(got, Top) /\ Top \in Frames
  BY <1>1, InTheWalk
<1>3. e \in DOMAIN got /\ e \in Nat \ {0} /\ Top.last \in Nat
  BY <1>1, <1>2, NextChild DEF AtTheEnd, Frames
<1>4. After(got, e) \in Nat /\ e < After(got, e)
  BY <1>2, <1>3, TreeShape
<1>5. Top.last # 0 => Top.last < e
  BY <1>2, LastChild
<1>6. /\ f \in Frames /\ f.next = After(got, e) /\ f.last = Top.last
      /\ h \in Frames /\ h.next = After(got, e) /\ h.last = 0
      /\ g \in Frames /\ g.next = After(got, e) /\ g.last = e
  BY <1>2, <1>3, <1>4 DEF Frames
<1>7. \/ Top.last # 0 /\ \E ttl : Call(ttl, h) \/ Call(ttl, g)
      \/ Pass(f)
      \/ Top.last = 0 /\ Pass(g)
  BY DEF WalkTtl, WalkValue
<1> HIDE DEF f, g, h
<1>8. /\ Resume(h) = After(got, e) /\ Resume(g) = e
      /\ Resume(Top) = (IF Top.last = 0 THEN e ELSE Top.last)
      /\ Resume(f) = (IF Top.last = 0 THEN After(got, e) ELSE Top.last)
  BY <1>3, <1>6 DEF Resume
<1>9. CASE Top.last # 0 /\ \E ttl : Call(ttl, h) \/ Call(ttl, g)
  <2>1. Top.last < Resume(h) /\ Top.last < Resume(g)
    BY <1>3, <1>4, <1>5, <1>8, <1>9
  <2>2. QED
    BY <1>1, <1>6, <1>9, <2>1, CallAdvances
<1>10. CASE Pass(f)
  <2>1. Resume(Top) < Resume(f) \/ (Resume(Top) = Resume(f) /\ Top.next < f.next)
    BY <1>3, <1>4, <1>6, <1>8
  <2>2. QED
    BY <1>1, <1>6, <1>10, <2>1, PassAdvances
<1>11. CASE Top.last = 0 /\ Pass(g)
  <2>1. Resume(Top) = Resume(g) /\ Top.next < g.next
    BY <1>4, <1>6, <1>8, <1>11
  <2>2. QED
    BY <1>1, <1>6, <1>11, <2>1, PassAdvances
<1>12. QED
  BY <1>7, <1>9, <1>10, <1>11

(* findKeys ends for every tree: no step of the walk is without progress   *)
(* towards the end of the response, so that none is repeated.              *)
THEOREM WalkEnds == Spec => [][Progress]_vars /\ []WithinTheTree
<1>1. ASSUME IInv, [Next]_vars  PROVE [Progress]_vars
  <2>1. CASE WalkTtl \/ WalkValue
    BY <1>1, <2>1, ChildAdvances DEF Progress
  <2>2. CASE WalkLast
    <3> DEFINE f == [Top EXCEPT !.last = 0]
    <3>1. Walking /\ Top.last # 0 /\ Call(DefaultTtl, f)
      BY <2>2 DEF WalkLast
    <3>2. TreeOK(got) /\ FrameOK(got, Top) /\ Top \in Frames
      BY <1>1, <3>1, InTheWalk
    <3>3. f \in Frames /\ Resume(f) = Top.next
      BY <3>2 DEF Frames, Resume
    <3>4. Top.last < Top.next
      BY <3>1, <3>2, LastChild
    <3> HIDE DEF f
    <3>5. QED
      BY <1>1, <3>1, <3>3, <3>4, CallAdvances DEF Progress
  <2>3. CASE WalkReturns
    BY <1>1, <2>3, ReturnAdvances DEF Progress
  <2>4. CASE Write \/ Get \/ GetFails \/ GetTtl \/ GetTtlFails \/ Terminated
    BY <2>4 DEF Write, Get, GetFails, GetTtl, GetTtlFails, Found, Terminated, Progress
  <2>5. QED
    BY <1>1, <2>1, <2>2, <2>3, <2>4 DEF Next, Reader, Walk
<1>2. ASSUME IInv, pc = "walk"  PROVE Top.next <= Len(got) + 1 /\ Resume(Top) <= Len(got) + 1
  <2>1. /\ TreeOK(got) /\ StackOK(got, frames)
    BY <1>2, TreesAssumption DEF IInv, WalkInv, TypeOK, WalkOK
  <2>2. frames \in Seq(Frames) /\ Len(frames) \in 1..Len(frames)
    BY <2>1 DEF StackOK
  <2>3. FrameOK(got, Top) /\ Top \in Frames
    BY <2>1, <2>2 DEF StackOK, Top
  <2>4. After(got, Top.dir) <= Len(got) + 1 /\ After(got, Top.dir) \in Nat /\ Len(got) \in Nat
    BY <2>1, <2>3, TreeShape DEF FrameOK
  <2>5. Top.next <= Len(got) + 1 /\ Top.next \in Nat /\ Top.last \in Nat
    BY <2>3, <2>4 DEF FrameOK, Frames
  <2>6. Top.last # 0 => Top.last < Top.next
    BY <2>1, <2>3, LastChild
  <2>7. QED
    BY <2>4, <2>5, <2>6 DEF Resume
<1>3. IInv => WithinTheTree
  BY <1>2 DEF WithinTheTree
<1>4. QED
  BY <1>1, <1>3, Always, PTL DEF Spec
=============================================================================
