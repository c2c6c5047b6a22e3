---------------------------- MODULE MCHostsCache ----------------------------
(* Small instances of HostsCache for TLC: two lookups, a file that is      *)
(* empty or has one of two contents.                                       *)
EXTENDS HostsCache

CONSTANTS c1, c2, nothing, before, after, s1, s2

TwoCallers   == {c1, c2}
AllBodies    == {nothing, before, after}
TwoStamps    == {s1, s2}

AllFailures  == {"stat", "open", "denied", "read"}
=============================================================================
