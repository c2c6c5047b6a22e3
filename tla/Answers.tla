------------------------------ MODULE Answers -------------------------------
(***************************************************************************)
(* What the lookups of dns/lookup.go and dns/golookup.go read from a reply *)
(* the query loop has taken: the loop over the answers that each of them   *)
(* repeats.  Records are named by their positions; the result is TRUE and  *)
(* the records read, or FALSE, for "cannot unmarshal DNS message".         *)
(*                                                                         *)
(* mangled holds the positions of records whose body has the length its    *)
(* header says but does not decode: skipping one is no trouble.            *)
(***************************************************************************)
EXTENDS Reply, Integers

Addresses == {"A", "AAAA"}

\* The walk begins where skipToAnswer stopped, at the first record of qtype.
Walk_keepsPart(r, qtype, wanted, mangled) ==
    LET Step(acc, k) ==
            CASE ~acc.ok \/ r.answers[k] \in {"bad", "short"}  -> acc
              [] r.answers[k] \in wanted /\ k \in mangled      -> acc
              [] OTHER -> IF r.answers[k] \in wanted
                          THEN [acc EXCEPT !.records = Append(@, k)] ELSE acc
        start == Len(Before(r.answers, {qtype})) + 1
    IN  FoldLeft(Step, [ok |-> TRUE, records |-> <<>>],
                 [i \in 1..(Len(r.answers) + 1 - start) |-> start + i - 1])
Walk(r, qtype, wanted, mangled) ==
    LET Failed == [ok |-> FALSE, records |-> <<>>]
        Step(acc, k) ==
            CASE ~acc.ok \/ r.answers[k] \in {"bad", "short"}  -> Failed
              [] r.answers[k] \in wanted /\ k \in mangled      -> Failed
              [] OTHER -> IF r.answers[k] \in wanted
                          THEN [acc EXCEPT !.records = Append(@, k)] ELSE acc
        start == Len(Before(r.answers, {qtype})) + 1
    IN  FoldLeft(Step, [ok |-> TRUE, records |-> <<>>],
                 [i \in 1..(Len(r.answers) + 1 - start) |-> start + i - 1])

\* LookupRecords has no record of the protocol for PTR and walks past those.
parseGenericAnswers(r, qtype, mangled) ==
    Walk(r, qtype, IF qtype = "PTR" THEN {} ELSE {qtype}, mangled)

\* goLookupNS, and alike goLookupMX, TXT, SRV and PTR, up to the sorting.
goLookupTyped(r, qtype, mangled) == Walk(r, qtype, {qtype}, mangled)

\* An address lookup takes addresses of both families and aliases.
parseAddressAnswers(r, qtype, mangled) ==
    Walk(r, qtype, Addresses \cup {"CNAME"}, mangled)

\* The canonical name it reports: the owner of the first record read, or the
\* target when that is an alias.
CanonicalName(r, qtype, mangled) ==
    LET read == parseAddressAnswers(r, qtype, mangled).records
    IN  CASE read = <<>>                            -> <<"none", 0>>
          [] read # <<>> /\ r.answers[read[1]] = "CNAME" -> <<"target", read[1]>>
          [] OTHER                                  -> <<"owner", read[1]>>
=============================================================================
