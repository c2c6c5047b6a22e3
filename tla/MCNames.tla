------------------------------ MODULE MCNames -------------------------------
(***************************************************************************)
(* Every bounded text is a state; the property compares what the grammars  *)
(* and the resolver make of it.                                            *)
(***************************************************************************)
EXTENDS Names

CONSTANT Texts  \* the names to judge

LabelFields ==
    [len : Nat, lead : {"none", "letter", "digit", "-", "_"}, trail : {"none", "alnum", "-"},
     chars : {"ldh", "underscore", "other"}, digits : BOOLEAN, upper : BOOLEAN, com : BOOLEAN]

\* "com" in any case is that label once in lower case.
Text(t) ==
    /\ t \in [labels : Seq(LabelFields), dot : BOOLEAN]
    /\ \A i \in DOMAIN t.labels : t.labels[i].com => Lower(t.labels[i]) = Com

ASSUME TextsAssumption == \A t \in Texts : Text(t)

VARIABLE text

NamesInit == text \in Texts

\* The next text is the parent domain's.
NamesNext ==
    text.labels # <<>> /\ text' = [text EXCEPT !.labels = Tail(@)] /\ text' \in Texts

NamesSpec == NamesInit /\ [][NamesNext]_text

(* A parsed name prints as the text in lower case and parses to the same   *)
(* again, known TLD or not, rooted or not; a single label is the same      *)
(* domain to either grammar, and a last label the TLD grammar takes, one   *)
(* that does not start with a digit, the same TLD; and the resolver asks   *)
(* for every name the service accepts, up to the longest with its final    *)
(* dot, except those it takes for numbers: the two length checks and the   *)
(* two ideas of a label agree.  (internal/grammar/domain.go, canonicalName *)
(* and isDomainName.)                                                      *)
NamesAgree ==
    LET d == ParseDomain(text)
    IN  /\ d # Invalid =>
               /\ PrintDomain(d[2]) =
                      [text EXCEPT !.labels = [i \in DOMAIN @ |-> Lower(@[i])]]
               /\ ParseDomain(PrintDomain(d[2])) = d
               /\ isDomainName(canonicalName(d[2])) <=>
                      \E i \in DOMAIN text.labels : ~text.labels[i].digits
        /\ ParseHostname(text) # Invalid => ParseHostname(text) = d
        /\ \A l \in ToSet(text.labels) : l = Last(text.labels) /\ d # Invalid =>
               ParseTLD(l) \in {d[2].tld} \cup (IF l.lead = "digit" THEN {Invalid} ELSE {})
=============================================================================
