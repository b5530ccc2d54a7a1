------------------------------ MODULE MCStorage ------------------------------
(* Small instances of Storage: all directories over six names. In the order *)
(* of etcd: bar, bar-1, bar-1.ttl, bar.ttl, sub, sub.ttl.                   *)
EXTENDS Storage

CONSTANTS bar, bar1, sub, x, v1, v2, v3, key

Optional(S) == {<<>>} \union S
Ttl(n, ts)  == {File(TtlName(n), t) : t \in ts}

Subs == {Dir(Name(sub), nds) :
            nds \in {<<>>, File(Name(x), v3), File(Name(x), v3) \o File(TtlName(x), 60),
                     Dir(Name(bar), File(Name(x), v3)) \o File(TtlName(bar), 60) \o File(Name(x), v3)}}

MCTrees ==
    {Dir(Name(key), a \o b \o c \o d \o e \o f) :
        a \in Optional({File(Name(bar), v1)}),
        b \in Optional({File(Name(bar1), v2)}),
        c \in Optional(Ttl(bar1, {300, INVALID})),
        d \in Optional(Ttl(bar, {600, INVALID})),
        e \in Optional(Subs),
        f \in Optional(Ttl(sub, {60}) \union {Dir(TtlName(sub), File(Name(x), v3))})}
    \union {File(Name(key), v1), File(Name(key), v2)}
=============================================================================
