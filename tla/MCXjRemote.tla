----------------------------- MODULE MCXjRemote -----------------------------
(* One run of xjremote and two of xjadeo, and what was left of earlier ones.*)
EXTENDS XjRemote, TLC

CONSTANTS c1, s1, s2

MCClients == {c1}
MCServers == {s1, s2}

(* Without options; unlink first, connect only, without a ping (-u -f -P). *)
MCOptions == {{}, {"u", "f", "P"}}
=============================================================================
