---------------------------- MODULE MCQueryFilter ----------------------------
(* A small instance of QueryFilter: the domains "", "b", "b.", "a.b" and    *)
(* "B", and names in and beside them: ".", "b.", "a.b.", "ab.", "a.B."...;  *)
(* and the question of a message that ends where it should be.              *)
EXTENDS QueryFilter

CONSTANTS a, b, A, B, dot, TypeA, TypeAAAA

MCChars == {a, b, A, B, dot}
MCLower == [c \in MCChars |-> CASE c = A -> a [] c = B -> b [] OTHER -> c]

MCOptions ==
    [wellFormed : {TRUE},
     domain     : {<<>>, <<b>>, <<b, dot>>, <<a, dot, b>>, <<B>>},
     types      : {<<EMPTY>>, <<TypeA>>, <<TypeAAAA, TypeA>>}]
        \union {[wellFormed |-> FALSE, domain |-> <<b>>, types |-> <<>>]}

Lists(n) == UNION {[1..k -> MCOptions] : k \in 0..n}

MCOptionLists == [accept |-> Lists(2), reject |-> Lists(1)]

MCQueries ==
    [name : {<<dot>>, <<b, dot>>, <<a, dot, b, dot>>, <<a, b, dot>>, <<a, dot, B, dot>>, <<a, dot>>},
     type : {TypeA, TypeAAAA, EMPTY}]
        \union {[name |-> <<>>, type |-> EMPTY]}
=============================================================================
