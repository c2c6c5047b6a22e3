------------------------- MODULE MCResolverService --------------------------
(* Small instances of ResolverService for TLC.                             *)
EXTENDS ResolverService

CONSTANT r1

OneRpc == {r1}

Name(types) == [exists |-> TRUE, has |-> types, selfAlias |-> FALSE]

NoName == [Name({}) EXCEPT !.exists = FALSE]

\* No such name, names without and with addresses, one with every type, one
\* whose alias points to itself.
SomeZones ==
    {NoName, Name({}), Name({"MX", "TXT"}), Name({"AAAA", "CAA"}),
     Name({"A", "NS", "URI"}), Name({"A", "AAAA"} \cup ToSet(AllTypes)),
     [Name({"A", "CNAME", "DNAME"}) EXCEPT !.selfAlias = TRUE]}

=============================================================================
