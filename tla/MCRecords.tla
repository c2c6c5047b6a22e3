----------------------------- MODULE MCRecords ------------------------------
(***************************************************************************)
(* Every bounded list of records to order is a state, and every bounded    *)
(* sequence of draws is tried on it.                                       *)
(***************************************************************************)
EXTENDS SortRecords, FiniteSets

CONSTANTS
    Prefs, RecordWeights,  \* preferences or priorities, and weights
    MaxRecords,            \* bound on the records of a list
    Drawn                  \* what randInt returns

ASSUME RecordsAssumption ==
    /\ Prefs \subseteq Nat /\ RecordWeights \subseteq Nat /\ Drawn \subseteq Nat
    /\ MaxRecords \in Nat \ {0}

VARIABLE list

Records == [pref : Prefs, weight : RecordWeights, id : 1..MaxRecords]

RecordsInit == list \in {s \in [1..MaxRecords -> Records] : \A i \in DOMAIN s : s[i].id = i}

\* The next list has one record less.
RecordsNext == Len(list) > 1 /\ \E k \in DOMAIN list : list' = Only(list, ToSet(list) \ {list[k]})

RecordsSpec == RecordsInit /\ [][RecordsNext]_list

Draws(n) == [1..n -> Drawn]

\* The same records, none lost or repeated, by preference or priority.
InOrder(out) ==
    /\ ToSet(out) = ToSet(list) /\ Len(out) = Len(list)
    /\ \A i, j \in DOMAIN out : i < j => out[i].pref <= out[j].pref

\* Whatever is drawn, no record is lost or repeated, preferences and priorities
\* ascend, and in a priority the records without weight come last.
RecordsInOrder ==
    \A draws \in Draws(Len(list)) :
        LET srv == sortSRVRecords(list, draws)
        IN  /\ InOrder(sortMXRecords(list, draws)) /\ InOrder(srv)
            /\ \A i, j \in DOMAIN srv :
                   i < j /\ srv[i].pref = srv[j].pref /\ srv[j].weight > 0 => srv[i].weight > 0

\* Among the SRV records of the best priority each is the first with the chance
\* its weight gives it: as many of the numbers below the sum bring it to the front.
FirstByWeight ==
    LET best == {r \in ToSet(list) : \A q \in ToSet(list) : r.pref <= q.pref}
        sum  == Weights(Only(list, best))
        First(n) == sortSRVRecords(list, [i \in DOMAIN list |-> n])[1]
    IN  Cardinality(best) > 1 /\ sum > 0 =>
            \A r \in best : Cardinality({n \in 0..(sum - 1) : First(n) = r}) = r.weight

(* Whatever is drawn, MX and SRV records come by preference or priority,   *)
(* and of SRV records the weights decide which comes first.                *)
(* (sortMXRecords, sortSRVRecords, shuffleByWeight.)                       *)
OrderByWeight == RecordsInOrder /\ FirstByWeight

(* Among MX records of one preference every order is equally likely: as    *)
(* many draws lead to one as to another.  (sortMXRecords.)                 *)
EqualsShuffled ==
    LET orders == {p \in [1..Len(list) -> ToSet(list)] : InOrder(p)}
        Count(p) == Cardinality({d \in Draws(Len(list)) : sortMXRecords(list, d) = p})
    IN  \A p \in orders : Count(p) * Cardinality(orders) = Cardinality(Draws(Len(list)))
=============================================================================
