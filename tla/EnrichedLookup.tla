---------------------------- MODULE EnrichedLookup ---------------------------
(***************************************************************************)
(* What a domain RDAP lookup promises: the registry's data or an error,    *)
(* and once the registry's data are there no error any more: the answer is *)
(* those data, or the same with something added by the registrar.          *)
(***************************************************************************)
EXTENDS Sequences

CONSTANT Extends(_, _)  \* Extends(b, a): answer a has all of b, in its order

VARIABLES
    base,   \* <<>>, or <<the registry's data>>
    answer  \* <<>>, <<"error">> or <<"ok", data>>

vars == <<base, answer>>

Init == base = <<>> /\ answer = <<>>

Fail == base = <<>> /\ answer = <<>> /\ answer' = <<"error">> /\ UNCHANGED base

Obtain == base = <<>> /\ answer = <<>> /\ Len(base') = 1 /\ UNCHANGED answer

Return ==
    /\ base # <<>> /\ answer = <<>>
    /\ Len(answer') = 2 /\ answer'[1] = "ok" /\ Extends(base[1], answer'[2])
    /\ UNCHANGED base

Next == Fail \/ Obtain \/ Return

Spec == Init /\ [][Next]_vars
=============================================================================
