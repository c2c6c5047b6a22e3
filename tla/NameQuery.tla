----------------------------- MODULE NameQuery ------------------------------
(***************************************************************************)
(* What asking the configured name servers about one name promises,        *)
(* without how: in which order they are asked, and how often.              *)
(*   - nothing is asked after a conclusive reply, which is the result;     *)
(*   - a failure is reported only when every server has failed, and it is  *)
(*     one that a server of this query gave.  (A resolver with             *)
(*     StrictErrors asks on as any other, against net_helpers.go:91-94.)   *)
(***************************************************************************)
CONSTANTS
    Lookups,     \* concurrent queries
    Servers,     \* the configured name servers
    Conclusive,  \* verdicts that end a query
    Failures     \* verdicts that do not

VARIABLES
    heard,  \* per query, the verdicts so far with the servers they came from
    res     \* per query, its result or "none"

Init ==
    /\ heard = [l \in Lookups |-> {}]
    /\ res = [l \in Lookups |-> "none"]

AllFailed(h) == \A s \in Servers : \E v \in Failures : <<s, v>> \in h

Hear(l, s, v) ==
    /\ res[l] = "none"
    /\ heard' = [heard EXCEPT ![l] = @ \cup {<<s, v>>}]
    /\ \/ v \in Conclusive /\ res' = [res EXCEPT ![l] = v]
       \/ v \in Failures /\ UNCHANGED res
       \/ /\ v \in Failures /\ AllFailed(heard'[l])
          /\ \E f \in Failures :
                /\ \E t \in Servers : <<t, f>> \in heard'[l]
                /\ res' = [res EXCEPT ![l] = f]

Next ==
    \E l \in Lookups, s \in Servers, v \in Conclusive \cup Failures : Hear(l, s, v)

Spec == Init /\ [][Next]_<<heard, res>>
=============================================================================
