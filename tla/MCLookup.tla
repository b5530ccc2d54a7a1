------------------------------ MODULE MCLookup ------------------------------
(* Small instances of Lookup. The zone is net with the host www.net, asked *)
(* for as WWW.net to see the folding of case, and wildcards below net.     *)
EXTENDS Lookup

CONSTANTS b, www, WWW, net, Star, Empty, A, Cname, Soa, v1, v2, bad

MCLabels == {b, www, WWW, net, Star, Empty}
MCLower  == [l \in MCLabels |-> IF l = WWW THEN www ELSE l]
MCTypes  == {A, Cname, Soa}
MCValues == {v1, v2, bad}

Host == <<www, net>>
Wild == <<Star, net>>

Fqdn(name) == name \o <<Empty>>
Root == Fqdn(<<Empty>>)
Cut  == Fqdn(<<>>)
Dot  == Fqdn(<<b, Empty, net>>)
Dots == Fqdn(<<b, Empty>>)

(* A label with a dot at its end, and a question cut off: it has no name,  *)
(* no type and no class.                                                   *)
MCQueries ==
    [name : {Fqdn(<<WWW, net>>)}, type : {A, Cname, ANY, UNKNOWN}, inet : {TRUE}]
        \union [name : {Fqdn(<<WWW, net>>), Root, Dots}, type : {A}, inet : {FALSE}]
        \union [name : {Root, Fqdn(<<net>>)}, type : {Soa}, inet : {TRUE}]
        \union [name : {Dot}, type : {Cname}, inet : {TRUE}]
        \union [name : {Cut}, type : {UNKNOWN}, inet : {FALSE}]

MCContents ==
    [k \in {<<Host, A>>, <<Host, Cname>>, <<Wild, A>>, <<Wild, Cname>>,
            <<Host, Soa>>, <<<<net>>, Soa>>, <<<<>>, Soa>>} |->
        CASE k[2] = A -> {{}, {v1}, {v1, bad}}
          [] k[2] = Cname -> {{}, {v1}, {v1, v2}}
          [] k[2] = Soa -> {{}, {v1}}]

(* A deeper name with wildcards on two levels and more writes.             *)
DeepQueries ==
    [name : {Fqdn(<<b, WWW, net>>)}, type : {A, ANY}, inet : BOOLEAN]

DeepContents ==
    [k \in {<<<<b, www, net>>, A>>, <<<<b, www, net>>, Cname>>,
            <<<<Star, www, net>>, A>>, <<<<Star, www, net>>, Cname>>,
            <<Wild, A>>, <<Wild, Cname>>} |->
        {{}, {v1}}]
=============================================================================
