---------------------------- MODULE MCEtcdClient ----------------------------
(* An instance of EtcdClient: two machines are configured, the cluster may *)
(* turn out to have one, two or three.                                     *)
EXTENDS EtcdClient

CONSTANTS m1, m2, m3, r1, r2

MCMachines   == {m1, m2, m3}
MCConfigured == <<m1, m2>>
MCBodies     == {<<m3, m1>>, <<m2, m3>>, <<m3>>, <<BOGUS>>}
MCNone       == {}
MCFirst      == {m1}
MCThird      == {m3}
MCTwo        == {r1, r2}
=============================================================================
