------------------------------ MODULE MCServer ------------------------------
(* Instances of Server: two connections and a datagram. c2 may be silent;  *)
(* where clients stall, it is c1 that does not read.                       *)
EXTENDS Server

CONSTANTS c1, c2, d1

MCConns     == {c1, c2}
MCDatagrams == {d1}
MCStalled   == {c1}

MCScripts ==
    [x \in {c1, c2, d1} |->
        CASE x = c1 -> {<<k, "query", "query">> : k \in {"query", "filtered"}}
          [] x = c2 -> {<<>>, <<"response", "filtered">>, <<"malformed", "noquestion">>,
                       <<"response", "overrun">>}
          [] x = d1 -> {<<k>> : k \in Kinds}]
=============================================================================
