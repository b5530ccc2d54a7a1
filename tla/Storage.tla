------------------------------- MODULE Storage -------------------------------
(***************************************************************************)
(* Reading one key from etcd (resolver.go, GetFromStorage and findKeys).   *)
(*                                                                         *)
(* A key holds a value, or a directory whose values are all records of the *)
(* same name and type; directories nest. A node x.ttl holds the TTL of its *)
(* sibling x. Of a directory one sorted and recursive request shows        *)
(* everything, and findKeys walks it in that order; for a single value a   *)
(* second request fetches its .ttl node.                                   *)
(*                                                                         *)
(* A tree is the sequence of its nodes in the order of the response, each  *)
(* directory before what lies below it; a node is known by its position.   *)
(* The first one is the key itself, and a key that is not there the empty  *)
(* sequence. The calls of findKeys are a stack of frames.                  *)
(***************************************************************************)
EXTENDS Integers, Sequences, FiniteSets

CONSTANTS
    Trees,          \* the nodes the key may hold
    Ttls,           \* the numeric contents of .ttl nodes
    INVALID,        \* a content of a .ttl node that is no number of 32 bits
    DefaultTtl,     \* r.defaultTtl
    MaxWrites,      \* bound: writes while the key is read
    MaxFailures     \* bound: requests that fail

-----------------------------------------------------------------------------
(* A node: its name, a value or a directory, and how many nodes are below. *)
File(n, v)    == <<[name |-> n, dir |-> FALSE, value |-> v, below |-> 0]>>
Dir(n, nds)   == <<[name |-> n, dir |-> TRUE, value |-> INVALID, below |-> Len(nds)]>> \o nds
Name(x)       == [of |-> x, ttl |-> FALSE]
TtlName(x)    == [of |-> x, ttl |-> TRUE]

IsTtl(n)      == n.name.ttl
IsNumeric(n)  == n.value \in Ttls
Record(i, t)  == [node |-> i, ttl |-> t]

(* The node after node i and all below it, and the children of node d: the *)
(* nodes below it that are below no other node below it.                   *)
After(t, i)       == i + t[i].below + 1
Between(t, d, i)  == \A j \in d + 1..i - 1 : After(t, j) <= i
Child(t, d, i)    == d < i /\ i < After(t, d) /\ Between(t, d, i)

(* What etcd answers: of a directory either all nodes below a node or none *)
(* are below it, and its children have different names. The key read is    *)
(* never a .ttl node.                                                      *)
TreeOK(t) ==
    /\ Len(t) \in Nat \ {0} /\ DOMAIN t = 1..Len(t)
    /\ After(t, 1) = Len(t) + 1 /\ ~IsTtl(t[1])
    /\ \A i \in DOMAIN t :
        /\ t[i].name \in {Name(t[i].name.of), TtlName(t[i].name.of)}
        /\ t[i].below \in Nat /\ t[i].dir \in BOOLEAN
        /\ ~t[i].dir => t[i].below = 0
        /\ \A j \in i..After(t, i) - 1 : After(t, j) <= After(t, i)
    /\ \A d, i, j \in DOMAIN t : Child(t, d, i) /\ Child(t, d, j) /\ t[i].name = t[j].name => i = j

ASSUME TreesAssumption == \A t \in Trees : TreeOK(t)
ASSUME TtlAssumption == Ttls \subseteq Nat /\ INVALID \notin Ttls /\ DefaultTtl \in Nat
ASSUME BoundsAssumption == MaxWrites \in Nat /\ MaxFailures \in Nat

VARIABLES
    node,       \* etcd: the tree of the key
    ttlNode,    \* etcd: the content of its .ttl node, as a sequence: none or one
    writes,     \* how often other clients wrote them
    failures,   \* how many requests failed
    pc,         \* "get", "ttl", "walk" or "done"
    got,        \* the tree of the first response
    frames,     \* the calls of findKeys for directories, the innermost last
    nodes,      \* the records returned
    err,        \* whether an error is returned
    own,        \* history: what the .ttl node held while the key held the value read
    overtaken   \* history: the .ttl node was written while the key held another value

history == <<own, overtaken>>

vars == <<node, ttlNode, writes, failures, pc, got, frames, nodes, err, history>>

-----------------------------------------------------------------------------
Init ==
    /\ node \in {<<>>} \union Trees
    /\ ttlNode \in {<<>>} \union {<<t>> : t \in Ttls \union {INVALID}}
    /\ writes = 0
    /\ failures = 0
    /\ pc = "get"
    /\ got = <<>>
    /\ frames = <<>>
    /\ nodes = <<>>
    /\ err = FALSE
    /\ own = {}
    /\ overtaken = FALSE

(* Another client writes or deletes the key, or its .ttl node. What it     *)
(* writes during the walk is not seen.                                     *)
Write ==
    /\ pc \in {"get", "ttl"}
    /\ writes < MaxWrites
    /\ writes' = writes + 1
    /\ \/ /\ node' \in {<<>>} \union Trees
          /\ UNCHANGED ttlNode
       \/ /\ ttlNode' \in {<<>>} \union {<<t>> : t \in Ttls \union {INVALID}}
          /\ UNCHANGED node
    /\ own' = IF pc = "ttl" /\ node' = got THEN own \union {ttlNode'} ELSE own
    /\ overtaken' = (overtaken \/ (pc = "ttl" /\ node # got /\ ttlNode' # ttlNode))
    /\ UNCHANGED <<failures, pc, got, frames, nodes, err>>

Fails == failures < MaxFailures /\ failures' = failures + 1

-----------------------------------------------------------------------------
(* The first request fails; so it does, for the caller, if the key is not  *)
(* there, only that LookupAnswersForType takes that error for no answers.  *)
GetFails ==
    /\ pc = "get"
    /\ Fails
    /\ err' = TRUE
    /\ pc' = "done"
    /\ UNCHANGED <<node, ttlNode, writes, got, frames, nodes, history>>

(* findKeys is called for a directory: it starts with the first child.     *)
Start(d) == [dir |-> d, next |-> d + 1, last |-> 0]

Get ==
    /\ pc = "get"
    /\ got' = node
    /\ \/ node = <<>> /\ pc' = "done" /\ UNCHANGED <<frames, own>>
       \/ node # <<>> /\ node[1].dir /\ pc' = "walk" /\ frames' = <<Start(1)>> /\ UNCHANGED own
       \/ node # <<>> /\ ~node[1].dir /\ pc' = "ttl" /\ own' = {ttlNode} /\ UNCHANGED frames
    /\ UNCHANGED <<node, ttlNode, writes, failures, nodes, err, overtaken>>

-----------------------------------------------------------------------------
(* The record of a single value, with TTL ttl.                             *)
Found(ttl) ==
    /\ nodes' = <<Record(1, ttl)>>
    /\ pc' = "done"
    /\ UNCHANGED <<node, ttlNode, writes, got, frames, err, history>>

(* Mutant: the TTL found is not used.                                      *)
GetTtl_NotUsed == pc = "ttl" /\ Found(DefaultTtl) /\ UNCHANGED failures

TtlOf(content) == IF content # <<>> /\ content[1] \in Ttls THEN content[1] ELSE DefaultTtl

GetTtl == pc = "ttl" /\ Found(TtlOf(ttlNode)) /\ UNCHANGED failures

(* A failure of this request is not reported: the default is used.         *)
GetTtlFails == pc = "ttl" /\ Fails /\ Found(DefaultTtl)

-----------------------------------------------------------------------------
(* The walk. A frame has the child that is next, and the last value node,  *)
(* lastValNode, if it is not nil.                                          *)
Top       == frames[Len(frames)]
AtTheEnd  == Top.next = After(got, Top.dir)
Walking   == pc = "walk" /\ UNCHANGED <<node, ttlNode, writes, failures, got, err, history>>

(* findKeys(lastValNode, ttl, false) is called, and then frame f goes on:  *)
(* a value is a record, and a directory is walked first.                   *)
Call(ttl, f) ==
    LET goesOn == [frames EXCEPT ![Len(frames)] = f]
    IN  \/ /\ got[Top.last].dir
           /\ frames' = Append(goesOn, Start(Top.last))
           /\ UNCHANGED nodes
        \/ /\ ~got[Top.last].dir
           /\ frames' = goesOn
           /\ nodes' = Append(nodes, Record(Top.last, ttl))

Pass(f) == frames' = [frames EXCEPT ![Len(frames)] = f] /\ UNCHANGED nodes

(* Mutant: the TTL is not used.                                            *)
WalkTtl_Ignored ==
    /\ Walking /\ ~AtTheEnd /\ IsTtl(got[Top.next])
    /\ Pass([Top EXCEPT !.next = After(got, @)])
    /\ UNCHANGED pc

(* Mutant: lastValNode is not reset after a .ttl node.                     *)
WalkTtl_KeepsLast ==
    /\ Walking /\ ~AtTheEnd /\ IsTtl(got[Top.next])
    /\ LET f == [Top EXCEPT !.next = After(got, @)]
       IN  IF IsNumeric(got[Top.next]) /\ Top.last # 0
           THEN Call(got[Top.next].value, f)
           ELSE Pass(f)
    /\ UNCHANGED pc

(* A .ttl node is taken for the TTL of the last value node, whatever its   *)
(* own name; if there is none, or it is not a number, nothing happens.     *)
WalkTtl ==
    /\ Walking /\ ~AtTheEnd /\ IsTtl(got[Top.next])
    /\ LET f == [Top EXCEPT !.next = After(got, @)]
       IN  IF IsNumeric(got[Top.next]) /\ Top.last # 0
           THEN Call(got[Top.next].value, [f EXCEPT !.last = 0])
           ELSE Pass(f)
    /\ UNCHANGED pc

(* Another node: the value node before it has no TTL of its own.           *)
WalkValue ==
    /\ Walking /\ ~AtTheEnd /\ ~IsTtl(got[Top.next])
    /\ LET f == [Top EXCEPT !.next = After(got, @), !.last = Top.next]
       IN  IF Top.last # 0 THEN Call(DefaultTtl, f) ELSE Pass(f)
    /\ UNCHANGED pc

(* All children were seen: the last value node has no TTL of its own.      *)
WalkLast ==
    /\ Walking /\ AtTheEnd /\ Top.last # 0
    /\ Call(DefaultTtl, [Top EXCEPT !.last = 0])
    /\ UNCHANGED pc

WalkReturns ==
    /\ Walking /\ AtTheEnd /\ Top.last = 0
    /\ frames' = SubSeq(frames, 1, Len(frames) - 1)
    /\ pc' = IF frames' = <<>> THEN "done" ELSE "walk"
    /\ UNCHANGED nodes

Terminated == pc = "done" /\ UNCHANGED vars

Walk   == WalkTtl \/ WalkValue \/ WalkLast \/ WalkReturns
Reader == Get \/ GetFails \/ GetTtl \/ GetTtlFails \/ Walk
Next   == Write \/ Reader \/ Terminated
Spec   == Init /\ [][Next]_vars

-----------------------------------------------------------------------------
TypeOK ==
    /\ node \in {<<>>} \union Trees
    /\ got \in {<<>>} \union Trees
    /\ ttlNode \in {<<>>} \union {<<t>> : t \in Ttls \union {INVALID}}
    /\ writes \in 0..MaxWrites
    /\ failures \in 0..MaxFailures
    /\ pc \in {"get", "ttl", "walk", "done"}
    /\ nodes \in Seq([node : DOMAIN got, ttl : Ttls \union {DefaultTtl}])
    /\ err \in BOOLEAN

Returned   == pc = "done" /\ ~err /\ got # <<>>
Listing    == Returned /\ got[1].dir
SingleFile == Returned /\ ~got[1].dir

(* The values of a tree: not those below a .ttl node, nor these.           *)
Hidden(t, i)  == \E j \in 2..i : i < After(t, j) /\ IsTtl(t[j])
ValuesOf(t)   == {i \in DOMAIN t : ~t[i].dir /\ ~Hidden(t, i)}

(* The values returned are those of one moment, the first response: each   *)
(* exactly once and in the order of the storage, whatever .ttl nodes lie   *)
(* between them. (This is why Lookup may read a key in one step.)          *)
EveryValueOnce ==
    Returned =>
        /\ {nodes[k].node : k \in DOMAIN nodes} = ValuesOf(got)
        /\ \A k, l \in DOMAIN nodes : k < l => nodes[k].node < nodes[l].node

(* The TTL of value node i: that of the .ttl node of its own name, if      *)
(* there is one and it is numeric.                                         *)
Siblings(t, i, j) == \E d \in DOMAIN t : Child(t, d, i) /\ Child(t, d, j)

OwnTtlNodes(t, i) ==
    {j \in DOMAIN t : Siblings(t, i, j) /\ t[j].name = TtlName(t[i].name.of) /\ IsNumeric(t[j])}

HasOwnTtl(t, r) ==
    LET given == OwnTtlNodes(t, r.node)
    IN  IF given = {} THEN r.ttl = DefaultTtl ELSE \A j \in given : r.ttl = t[j].value

(* Every .ttl node comes right after the value node it is named after.     *)
Paired(t) ==
    \A j \in 2..Len(t) : IsTtl(t[j]) =>
        \E i \in DOMAIN t : Siblings(t, i, j) /\ After(t, i) = j /\ t[i].name = Name(t[j].name.of)

(* If the .ttl nodes of the directories follow their value nodes, records  *)
(* have their own TTL.                                                     *)
OwnTtlWhenPaired ==
    Listing /\ Paired(got) => \A k \in DOMAIN nodes : HasOwnTtl(got, nodes[k])

(* "To change the TTL of any given record, you can use the .ttl suffix"    *)
(* and "If you have multiple nested records, you can still use the suffix" *)
(* (README.md:205, 210), even with a value for every .ttl node. Not so for *)
(* a name that sorts between bar and bar.ttl, as bar-1 does.               *)
Owned(t) ==
    \A j \in 2..Len(t) : IsTtl(t[j]) =>
        /\ IsNumeric(t[j])
        /\ \E i \in DOMAIN t : Siblings(t, i, j) /\ t[i].name = Name(t[j].name.of)

OwnTtlAlways ==
    Listing /\ Owned(got) => \A k \in DOMAIN nodes : HasOwnTtl(got, nodes[k])

(* A single value and its TTL belong together, though they are read by two *)
(* requests: the .ttl node held that TTL, or none that is numeric, while   *)
(* the key held the value. There are two exceptions. If the second request *)
(* fails it is the default whatever was specified; and it may be that of   *)
(* another value if between the requests the key is written first and the  *)
(* .ttl node after it.                                                     *)
SingleTtlIsItsOwn ==
    SingleFile =>
        IF failures > 0 THEN nodes[1].ttl = DefaultTtl
                        ELSE overtaken \/ \E c \in own : nodes[1].ttl = TtlOf(c)

(* "This means every single DNS resource record returned will have a TTL   *)
(* of the default value, unless otherwise specified on a per-record basis" *)
(* (README.md:203). Not so if the second request fails.                    *)
SpecifiedTtlIsUsed == SingleFile /\ writes = 0 => nodes[1].ttl = TtlOf(ttlNode)
=============================================================================
