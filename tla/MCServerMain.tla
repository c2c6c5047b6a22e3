---------------------------- MODULE MCServerMain -----------------------------
(* Two RPCs, two upstreams; what an RPC streams does not matter here.      *)
EXTENDS ServerMain

NoName   == [exists |-> FALSE, has |-> {}, selfAlias |-> FALSE]
OneName  == [exists |-> TRUE, has |-> {"A"}, selfAlias |-> FALSE]
MCZones  == {NoName, OneName}
NoMoreLookups == <<>>
=============================================================================
