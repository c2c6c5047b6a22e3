--------------------------- MODULE MCAddressLookup ---------------------------
(***************************************************************************)
(* Names with few and many dots, rooted, of .onion, no name at all, and so *)
(* long that one suffix, or any, makes them too long.                      *)
(***************************************************************************)
EXTENDS AddressLookup

Name(id, len, dots, rooted, onion, valid) ==
    [id |-> id, len |-> len, dots |-> dots, rooted |-> rooted, onion |-> onion, valid |-> valid]
MCNames == {Name("host", 4, 0, FALSE, FALSE, TRUE), Name("a.b", 3, 1, FALSE, FALSE, TRUE),
            Name("a.b.", 4, 2, TRUE, FALSE, TRUE), Name("x.onion", 7, 1, FALSE, TRUE, TRUE),
            Name("x.onion.", 8, 2, TRUE, TRUE, TRUE), Name("-", 300, 0, FALSE, FALSE, FALSE),
            Name("long", 246, 3, FALSE, FALSE, TRUE), Name("longest", 253, 3, FALSE, FALSE, TRUE)}

Corp  == [id |-> "corp.", len |-> 5, onion |-> FALSE]
Lab   == [id |-> "lab.example.", len |-> 12, onion |-> FALSE]
Onion == [id |-> "onion.", len |-> 6, onion |-> TRUE]
MCSearches == {<<>>, <<Onion, Corp>>, <<Lab, Corp>>, <<Corp, Corp>>}
=============================================================================
