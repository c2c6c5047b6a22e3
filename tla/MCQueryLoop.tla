---------------------------- MODULE MCQueryLoop -----------------------------
(* Small instances of QueryLoop: one outcome of exchange per way its       *)
(* result can be judged, and one per line of checkHeader.                  *)
EXTENDS QueryLoop

CONSTANTS l1, l2

TwoLookups == {l1, l2}

Header(code) == [rcode |-> code, aa |-> FALSE, ra |-> TRUE, answers |-> <<>>, adds |-> <<>>]

AllOutcomes ==
    {[socket |-> TRUE], [socket |-> FALSE],
     [reply |-> [Header("success") EXCEPT !.answers = <<"CNAME", "A">>]],
     [reply |-> [Header("success") EXCEPT !.answers = <<"CNAME">>]],
     [reply |-> [Header("success") EXCEPT !.answers = <<"bad">>]],
     [reply |-> [Header("success") EXCEPT !.ra = FALSE]],
     [reply |-> Header("nxdomain")],
     [reply |-> Header("servfail")],
     [reply |-> Header("refused")]}
=============================================================================
