------------------------- MODULE AddressLookupProofs -------------------------
(***************************************************************************)
(* What AddressLookup asks and when it stops, for every name, search list  *)
(* and configuration: induction over the questions asked, with the name    *)
(* list and the records kept as the copies that Only makes.  Then the      *)
(* names themselves: what the grammar takes for one and what the resolver  *)
(* asks for agree, for any texts.                                          *)
(***************************************************************************)
EXTENDS AddressLookup, MCNames, Lemmas

\* What may be asked for a call, and what is answered with records.
Question == [fqdn : ToSet(List), qtype : ToSet(Types), outcome : Outcomes]

Answered == {q \in Question : q.outcome = "records"}

TypeInv ==
    /\ call \in Calls /\ hosts \in {"none", "listed"} /\ pc \in {"hosts", "ask", "done"}
    /\ at \in Nat \X Nat /\ asked \in Seq(Question)

\* Before DNS is asked nothing is; it is not asked about a listed name.
StartInv ==
    /\ pc = "hosts" => at = <<1, 1>> /\ asked = <<>> /\ records = <<>> /\ lastErr = <<>>
    /\ pc # "done" => result = <<>>
    /\ asked # <<>> \/ pc = "ask" => (hosts = "listed" => call.network = "typed")

\* The questions were asked in the order of the two loops.
OrderInv == \A m \in DOMAIN asked : InTurn(m)

\* Of the questions asked so far only those about the present name may have
\* been answered; the error kept is one of theirs.
AskInv ==
    pc = "ask" =>
        /\ at[1] \in DOMAIN List /\ at[2] \in DOMAIN Types
        /\ Len(asked) + 1 = Place(at[1], at[2])
        /\ \A m \in DOMAIN asked :
               Failed(asked[m]) \/ (asked[m] \in Answered /\ m > Place(at[1], 0))
        /\ records = Only(asked, Answered)
        /\ lastErr # <<>> => lastErr \in ToSet(asked)
        /\ Addresses /\ ~call.name.rooted =>
               \A m \in DOMAIN asked : Failed(asked[m]) /\ asked[m].fqdn = Itself(call.name)
                   => lastErr # <<>> /\ lastErr.fqdn = Itself(call.name)

\* The two properties belong to it: a result, once given, is not looked at again.
IInv == TypeInv /\ StartInv /\ OrderInv /\ AskInv /\ FirstAnswerWins /\ FailsOnlyAtTheEnd

-----------------------------------------------------------------------------
(* The names and types of a call.                                          *)
LEMMA TypesShape ==
    ASSUME call \in Calls
    PROVE  /\ Len(Types) \in 1..3 /\ DOMAIN Types = 1..Len(Types)
           /\ \A t \in DOMAIN Types : Types[t] \in ToSet(Types)
<1>1. call.network \in Networks
    BY DEF Calls
<1>2. \/ Types = <<"A", "AAAA">> \/ Types = <<"A">> \/ Types = <<"AAAA">>
      \/ Types = <<"A", "AAAA", "CNAME">> \/ Types = <<"T">> \/ Types = <<"PTR">>
    BY <1>1 DEF Types, qtypes, Networks
<1>3. Len(Types) \in 1..3 /\ DOMAIN Types = 1..Len(Types)
    <2> HIDE DEF Types
    <2>1. CASE Types = <<"A", "AAAA">>
        BY <2>1
    <2>2. CASE Types \in {<<"A">>, <<"AAAA">>, <<"T">>, <<"PTR">>}
        BY <2>2
    <2>3. CASE Types = <<"A", "AAAA", "CNAME">>
        BY <2>3
    <2> QED
        BY <1>2, <2>1, <2>2, <2>3
<1> QED
    BY <1>3 DEF ToSet

(* The name itself, as a candidate.                                        *)
LEMMA ItselfShape ==
    ASSUME NEW c \in Calls
    PROVE  /\ c.name \in Names /\ c.search \in Searches
           /\ Itself(c.name).len \in Nat /\ Itself(c.name).onion = c.name.onion
           /\ Itself(c.name).id[2] = ""
<1>1. c.name \in Names /\ c.search \in Searches
    BY DEF Calls
<1>2. c.name.len \in Nat
    BY <1>1, AddressAssumption
<1> QED
    BY <1>1, <1>2 DEF Itself, FQDN

\* The name with every suffix of the search list.
Forms(c) == [k \in DOMAIN c.search |-> FQDN(c.name, c.search[k])]

(* None of these is the name itself; nor are those that are kept, and no   *)
(* .onion name or one that is too long is kept.                            *)
LEMMA FormsShape ==
    ASSUME NEW c \in Calls
    PROVE  /\ Forms(c) \in Seq(ToSet(Forms(c)))
           /\ \A f \in ToSet(Forms(c)) : f.id[2] # ""
<1>1. c.search \in Seq(ToSet(c.search))
    BY ItselfShape, AddressAssumption
<1>2. Len(c.search) \in Nat /\ DOMAIN c.search = 1..Len(c.search)
    BY <1>1, LenProperties
<1>3. Forms(c) \in [1..Len(c.search) -> ToSet(Forms(c))]
    BY <1>2 DEF Forms, ToSet
<1>4. ASSUME NEW k \in DOMAIN c.search PROVE Forms(c)[k].id[2] # ""
    <2>1. c.search[k].id # ""
        BY ItselfShape, AddressAssumption DEF ToSet
    <2> QED
        BY <2>1 DEF Forms, FQDN
<1> QED
    BY <1>2, <1>3, <1>4, FunctionIsSeq DEF ToSet, Forms

(* The search part of nameList: one proper, suffixed name per suffix.      *)
LEMMA SuffixedShape ==
    ASSUME NEW c \in Calls
    PROVE  /\ Suffixed(c) \in Seq(ToSet(Forms(c)))
           /\ \A f \in ToSet(Suffixed(c)) : ~f.onion /\ f.len <= 254 /\ f # Itself(c.name)
<1> DEFINE K == {f \in ToSet(Forms(c)) : ~avoidDNS(f) /\ f.len <= 254}
<1>1. Suffixed(c) = Only(Forms(c), K)
    BY DEF Suffixed, Forms
<1>2. Suffixed(c) \in Seq(ToSet(Forms(c)))
    BY <1>1, FormsShape, OnlyType
<1>3. ToSet(Suffixed(c)) = ToSet(Forms(c)) \cap K
    BY <1>1, FormsShape, OnlySet
<1> QED
    BY <1>2, <1>3, FormsShape, ItselfShape DEF avoidDNS

(* The name itself is a candidate unless it is an .onion name.             *)
LEMMA UnsuffixedShape ==
    ASSUME NEW c \in Calls
    PROVE  \/ Unsuffixed(c) = <<>>
           \/ Unsuffixed(c) = <<Itself(c.name)>> /\ ~c.name.onion
BY ItselfShape DEF Unsuffixed, avoidDNS

(* The name list is of proper names; the name itself comes before its      *)
(* suffixed forms just if it has dots enough, and is left out only if it   *)
(* is an .onion name or all of the list is.                                *)
LEMMA ListShape ==
    ASSUME NEW c \in Calls
    PROVE  LET list == nameList(c) IN
           /\ list \in Seq(ToSet(list)) /\ Len(list) \in Nat /\ DOMAIN list = 1..Len(list)
           /\ \A n \in DOMAIN list : /\ ~list[n].onion /\ list[n].len <= 254
                                     /\ c.name.rooted => list[n] = Itself(c.name)
           /\ \A m, n \in DOMAIN list : list[m] = Itself(c.name) /\ list[n] # Itself(c.name) =>
                  (m < n <=> c.name.dots >= c.ndots)
           /\ list # <<>> /\ ~c.name.rooted /\ ~c.name.onion => Itself(c.name) \in ToSet(list)
<1> DEFINE me == Itself(c.name)
           U == Unsuffixed(c)
           W == Suffixed(c)
           S == ToSet(Forms(c)) \cup {me}
           first == c.name.dots >= c.ndots
           list == nameList(c)
<1>1. c.name.rooted \in BOOLEAN /\ c.name.onion \in BOOLEAN
    BY ItselfShape, AddressAssumption
<1>2. me.len \in Nat /\ me.onion = c.name.onion
    BY ItselfShape
<1>3. U = <<>> \/ (U = <<me>> /\ ~c.name.onion)
    BY UnsuffixedShape
<1>4. ~c.name.onion => U = <<me>>
    BY <1>2 DEF Unsuffixed, avoidDNS
<1>5. U \in Seq(S) /\ Len(U) \in Nat /\ DOMAIN U = 1..Len(U) /\ Len(U) <= 1
      /\ \A n \in 1..Len(U) : U[n] = me
    <2> HIDE DEF U, me
    <2>1. CASE U = <<>>
        BY <2>1
    <2>2. CASE U = <<me>>
        BY <2>2
    <2> QED
        BY <1>3, <2>1, <2>2
<1>6. W \in Seq(S) /\ \A f \in ToSet(W) : ~f.onion /\ f.len <= 254 /\ f # me
    BY SuffixedShape, SeqMonotonic
<1>7. Len(W) \in Nat /\ DOMAIN W = 1..Len(W)
      /\ \A n \in 1..Len(W) : ~W[n].onion /\ W[n].len <= 254 /\ W[n] # me
    BY <1>6, LenProperties DEF ToSet
<1>8. CASE me.len > 254
    <2>1. list = <<>>
        BY <1>8, <1>2 DEF nameList
    <2> QED
        BY <2>1, EmptySeq
<1>9. CASE me.len <= 254 /\ c.name.rooted
    <2>1. list = U
        BY <1>9, <1>2 DEF nameList
    <2>2. list \in Seq(ToSet(list))
        BY <2>1, <1>5 DEF ToSet
    <2> QED
        BY <2>1, <2>2, <1>2, <1>3, <1>5, <1>9
<1>10. CASE me.len <= 254 /\ ~c.name.rooted /\ first
    <2>1. list = U \o W
        BY <1>10, <1>2 DEF nameList
    <2> HIDE DEF list, U, W, first, me, S
    <2>2. /\ list \in Seq(S) /\ Len(list) = Len(U) + Len(W)
          /\ \A i \in 1..(Len(U) + Len(W)) :
                 list[i] = IF i <= Len(U) THEN U[i] ELSE W[i - Len(U)]
        BY <2>1, <1>5, <1>6, ConcatProperties
    <2>3. /\ \A i \in 1..Len(U) : list[i] = me
          /\ \A i \in (Len(U) + 1)..Len(list) :
                 ~list[i].onion /\ list[i].len <= 254 /\ list[i] # me
        BY <2>2, <1>5, <1>7
    <2>4. list \in Seq(ToSet(list)) /\ Len(list) \in Nat /\ DOMAIN list = 1..Len(list)
        BY <2>2, <1>5, <1>7, SeqOfToSet
    <2>5. \A n \in DOMAIN list : ~list[n].onion /\ list[n].len <= 254
        BY <2>3, <2>4, <1>2, <1>3, <1>5, <1>10
    <2>6. \A m, n \in DOMAIN list : list[m] = me /\ list[n] # me => m < n
        BY <2>3, <2>4, <1>5
    <2>7. ~c.name.onion => me \in ToSet(list)
        BY <2>1, <1>4, <1>5, <1>6, ToSetOfConcat DEF ToSet
    <2> QED
        BY <2>4, <2>5, <2>6, <2>7, <1>10 DEF list, me, first
<1>11. CASE me.len <= 254 /\ ~c.name.rooted /\ ~first
    <2>1. list = W \o U
        BY <1>11, <1>2 DEF nameList
    <2> HIDE DEF list, U, W, first, me, S
    <2>2. /\ list \in Seq(S) /\ Len(list) = Len(W) + Len(U)
          /\ \A i \in 1..(Len(W) + Len(U)) :
                 list[i] = IF i <= Len(W) THEN W[i] ELSE U[i - Len(W)]
        BY <2>1, <1>5, <1>6, ConcatProperties
    <2>3. /\ \A i \in 1..Len(W) : ~list[i].onion /\ list[i].len <= 254 /\ list[i] # me
          /\ \A i \in (Len(W) + 1)..Len(list) : list[i] = me
        BY <2>2, <1>5, <1>7
    <2>4. list \in Seq(ToSet(list)) /\ Len(list) \in Nat /\ DOMAIN list = 1..Len(list)
        BY <2>2, <1>5, <1>7, SeqOfToSet
    <2>5. \A n \in DOMAIN list : ~list[n].onion /\ list[n].len <= 254
        BY <2>2, <2>3, <2>4, <1>2, <1>3, <1>5, <1>7, <1>11
    <2>6. \A m, n \in DOMAIN list : list[m] = me /\ list[n] # me => ~(m < n)
        BY <2>3, <2>4, <1>5, <1>7
    <2>7. ~c.name.onion => me \in ToSet(list)
        <3>1. ToSet(list) = ToSet(W) \cup ToSet(U)
            BY <2>1, <1>5, <1>6, ToSetOfConcat
        <3> QED
            BY <3>1, <1>4, <1>5 DEF ToSet
    <2> QED
        BY <2>4, <2>5, <2>6, <2>7, <1>11 DEF list, me, first
<1> QED
    BY <1>1, <1>2, <1>8, <1>9, <1>10, <1>11

(* Questions have their places: the next type's is the next, the next      *)
(* name's begins where the types end, and no two share one.                *)
LEMMA PlaceNext ==
    ASSUME call \in Calls, NEW n \in Nat \ {0}, NEW t \in 1..Len(Types)
    PROVE  /\ Place(n, t) \in Nat \ {0} /\ Place(n, t) + 1 = Place(n, t + 1)
           /\ Place(n + 1, 0) = Place(n, Len(Types)) /\ Place(n + 1, 1) = Place(n, Len(Types)) + 1
           /\ Place(n, Len(Types)) \in Nat
           /\ Place(n, t) > Place(n, 0) /\ Place(n, t) <= Place(n, Len(Types))
<1>1. Len(Types) \in 1..3
    BY TypesShape
<1> DEFINE T == Len(Types)
<1> HIDE DEF T
<1>2. CASE T = 1
    BY <1>2 DEF Place, T
<1>3. CASE T = 2
    BY <1>3 DEF Place, T
<1>4. CASE T = 3
    BY <1>4 DEF Place, T
<1> QED
    BY <1>1, <1>2, <1>3, <1>4 DEF T

(* Questions are placed name by name, and type by type within a name.      *)
LEMMA PlaceOrder ==
    ASSUME call \in Calls, NEW n \in Nat \ {0}, NEW k \in Nat \ {0},
           NEW t \in 1..Len(Types), NEW u \in 1..Len(Types)
    PROVE  /\ n < k => Place(n, t) < Place(k, u)
           /\ n <= k => Place(n, t) <= Place(k, Len(Types))
           /\ Place(n, t) = Place(k, u) => n = k /\ t = u
<1>1. Len(Types) \in 1..3
    BY TypesShape
<1> DEFINE T == Len(Types)
<1> HIDE DEF T
<1>2. CASE T = 1
    BY <1>2 DEF Place, T
<1>3. CASE T = 2
    BY <1>3 DEF Place, T
<1>4. CASE T = 3
    BY <1>4 DEF Place, T
<1> QED
    BY <1>1, <1>2, <1>3, <1>4 DEF T

-----------------------------------------------------------------------------
(* The invariant is kept: by the start, by the hosts file, and on the way  *)
(* to DNS.                                                                 *)
LEMMA InitHolds == Init => IInv
<1> SUFFICES ASSUME Init PROVE IInv
    OBVIOUS
<1> USE DEF Init
<1>1. TypeInv
    BY EmptySeq DEF TypeInv
<1>2. DOMAIN asked = {}
    OBVIOUS
<1> QED
    BY <1>1, <1>2 DEF IInv, StartInv, OrderInv, AskInv, FirstAnswerWins, FailsOnlyAtTheEnd

(* A step that changes nothing keeps the invariant.                        *)
LEMMA StutterKeeps == IInv /\ UNCHANGED vars => IInv'
<1> SUFFICES ASSUME IInv, UNCHANGED vars PROVE IInv'
    OBVIOUS
<1>1. /\ call' = call /\ hosts' = hosts /\ pc' = pc /\ at' = at /\ lastErr' = lastErr
      /\ records' = records /\ asked' = asked /\ result' = result
    BY DEF vars
<1>2. List' = List /\ Types' = Types /\ Addresses' = Addresses
    BY <1>1 DEF List, Types, Addresses
<1>3. TypeInv' /\ StartInv'
    BY <1>1, <1>2 DEF IInv, TypeInv, StartInv, Question
<1>4. OrderInv' /\ AskInv'
    BY <1>1, <1>2 DEF IInv, OrderInv, AskInv, InTurn, Place, Answered, Question, Failed
<1>5. FirstAnswerWins'
    BY <1>1, <1>2 DEF IInv, FirstAnswerWins, InTurn, Place, Failed
<1>6. FailsOnlyAtTheEnd'
    BY <1>1, <1>2, Zenon DEF IInv, FailsOnlyAtTheEnd, InTurn, Place, Failed
<1> QED
    BY <1>3, <1>4, <1>5, <1>6 DEF IInv

(* Answering from /etc/hosts keeps the invariant.                          *)
LEMMA FromHostsKeeps == IInv /\ FromHosts => IInv'
<1> SUFFICES ASSUME IInv, FromHosts PROVE IInv'
    OBVIOUS
<1> USE DEF FromHosts, Finish
<1>1. asked' = <<>> /\ DOMAIN asked' = {} /\ result' = <<"hosts">> /\ pc' = "done"
    BY DEF IInv, StartInv
<1>2. TypeInv'
    BY <1>1, EmptySeq DEF IInv, TypeInv
<1> QED
    BY <1>1, <1>2 DEF IInv, StartInv, OrderInv, AskInv, FirstAnswerWins, FailsOnlyAtTheEnd

(* Going on to DNS keeps the invariant.                                    *)
LEMMA ToDNSKeeps == IInv /\ ToDNS => IInv'
<1> SUFFICES ASSUME IInv, ToDNS PROVE IInv'
    OBVIOUS
<1>1. /\ asked = <<>> /\ at = <<1, 1>> /\ records = <<>> /\ lastErr = <<>>
      /\ UNCHANGED <<call, hosts, at, lastErr, records, asked>>
      /\ hosts = "listed" => call.network = "typed"
      /\ call \in Calls /\ result = <<>>
    BY DEF IInv, StartInv, TypeInv, ToDNS
<1>2. List' = List /\ Types' = Types
    BY <1>1 DEF List, Types
<1>3. \/ pc' = "done" /\ result' \in {<<"unrecognized address">>, <<"no such host">>, <<"cannot unmarshal">>}
      \/ pc' = "ask" /\ result' = <<>> /\ List # <<>>
    BY <1>1 DEF ToDNS, Finish
<1>4. TypeInv'
    BY <1>1, <1>3, EmptySeq DEF TypeInv, IInv
<1>5. DOMAIN asked' = {} /\ Len(asked') = 0
    BY <1>1
<1>6. StartInv' /\ OrderInv' /\ FirstAnswerWins' /\ FailsOnlyAtTheEnd'
    <2>1. StartInv'
        BY <1>1, <1>3 DEF StartInv
    <2>2. OrderInv'
        BY <1>5 DEF OrderInv
    <2>3. FirstAnswerWins'
        <3>1. result' = <<>> \/ result'[1] # "ok"
            <4>1. ASSUME NEW e \in {"unrecognized address", "no such host", "cannot unmarshal"},
                         result' = <<e>>
                  PROVE  result'[1] # "ok"
                BY <4>1
            <4> QED
                BY <1>3, <4>1
        <3> QED
            BY <3>1 DEF FirstAnswerWins
    <2>4. FailsOnlyAtTheEnd'
        BY <1>1 DEF FailsOnlyAtTheEnd
    <2> QED
        BY <2>1, <2>2, <2>3, <2>4
<1>7. CASE pc' = "ask"
    <2>1. List \in Seq(ToSet(List)) /\ Len(List) \in Nat /\ DOMAIN List = 1..Len(List)
        BY <1>1, ListShape DEF List
    <2>2. 1 \in DOMAIN List
        BY <1>3, <1>7, <2>1, EmptySeq
    <2>3. 1 \in DOMAIN Types /\ Place(1, 1) = 1
        BY <1>1, TypesShape DEF Place
    <2>4. Place(1, 1)' = Place(1, 1)
        BY <1>2 DEF Place
    <2>5. records' = Only(asked', Answered')
        BY <1>1, OnlyOfNone
    <2> QED
        BY <1>1, <1>2, <1>4, <1>5, <1>6, <2>2, <2>3, <2>4, <2>5 DEF AskInv, IInv
<1> QED
    BY <1>3, <1>4, <1>6, <1>7 DEF IInv, AskInv

\* What holds of the replies read and the error kept once a question was
\* asked, before the walk goes on or ends.
After(recs, e) ==
    /\ asked' # <<>> /\ Len(asked') = Place(at[1], at[2])
    /\ \A m \in DOMAIN asked' :
           Failed(asked'[m]) \/ (asked'[m] \in Answered /\ m > Place(at[1], 0))
    /\ recs = Only(asked', Answered)
    /\ recs = <<>> => e # <<>> /\ asked'[Len(asked')].outcome \in {"notfound", "temporary", "permanent"}
    /\ ~(call.strict /\ asked'[Len(asked')].outcome = "temporary")
    /\ e # <<>> => e \in ToSet(asked')
    /\ Addresses /\ ~call.name.rooted =>
           \A m \in DOMAIN asked' : Failed(asked'[m]) /\ asked'[m].fqdn = Itself(call.name)
               => e # <<>> /\ e.fqdn = Itself(call.name)

(* The walk goes on to the next type, the next name or the end.            *)
LEMMA AdvanceKeeps ==
    ASSUME IInv, pc = "ask", UNCHANGED <<call, hosts>>, asked' \in Seq(Question), OrderInv',
           NEW recs, NEW e, After(recs, e), Advance(recs, e), records' = recs, lastErr' = e
    PROVE  IInv'
<1> DEFINE n == at[1]
           t == at[2]
           T == Len(Types)
<1>1. /\ call \in Calls /\ call' = call /\ hosts' = hosts /\ at = <<n, t>>
      /\ n \in DOMAIN List /\ t \in DOMAIN Types /\ result = <<>>
      /\ hosts = "listed" => call.network = "typed"
    BY DEF IInv, TypeInv, StartInv, AskInv
<1>2. List' = List /\ Types' = Types /\ Addresses' = Addresses
    BY <1>1 DEF List, Types, Addresses
<1>3. \A j, k : Place(j, k)' = Place(j, k)
    BY <1>2 DEF Place
<1>4. Question' = Question /\ Answered' = Answered
    BY <1>2 DEF Question, Answered
<1>5. T \in 1..3 /\ t \in 1..T
    BY <1>1, TypesShape
<1>6. n \in 1..Len(List) /\ Len(List) \in Nat /\ DOMAIN List = 1..Len(List) /\ DOMAIN Types = 1..T
    BY <1>1, ListShape, TypesShape DEF List
<1>10. recs = <<>> => \A m \in DOMAIN asked' : Failed(asked'[m])
    <2> SUFFICES ASSUME recs = <<>>, NEW m \in DOMAIN asked' PROVE Failed(asked'[m])
        OBVIOUS
    <2>1. ToSet(recs) = ToSet(asked') \cap Answered
        BY OnlySet DEF After
    <2>2. ToSet(recs) = {}
        BY DEF ToSet
    <2>3. asked'[m] \in ToSet(asked')
        BY DEF ToSet
    <2> QED
        BY <2>1, <2>2, <2>3 DEF After
<1>7. CASE t < T
    <2>1. at' = <<n, t + 1>> /\ pc' = pc /\ result' = result
        BY <1>7 DEF Advance
    <2>2. t + 1 \in 1..T /\ Place(n, t) + 1 = Place(n, t + 1)
        <3>1. n \in Nat \ {0} /\ t + 1 \in 1..T
            BY <1>5, <1>6, <1>7
        <3>2. Place(n, t) + 1 = Place(n, t + 1)
            BY <1>1, <1>5, <3>1, PlaceNext
        <3> QED
            BY <3>1, <3>2
    <2> QED
        BY <1>1, <1>2, <1>3, <1>4, <1>5, <1>6, <2>1, <2>2
        DEF After, IInv, TypeInv, StartInv, AskInv, FirstAnswerWins, FailsOnlyAtTheEnd
<1>8. CASE t = T /\ recs = <<>> /\ n < Len(List)
    <2>1. at' = <<n + 1, 1>> /\ pc' = pc /\ result' = result
        BY <1>5, <1>8 DEF Advance
    <2>2. n + 1 \in 1..Len(List) /\ 1 \in 1..T /\ Place(n + 1, 1) = Place(n, T) + 1
          /\ Place(n, T) \in Nat
        BY <1>1, <1>5, <1>6, <1>8, PlaceNext
    <2>3. \A m \in DOMAIN asked' : Failed(asked'[m])
        BY <1>8, <1>10
    <2> QED
        BY <1>1, <1>2, <1>3, <1>4, <1>5, <1>6, <1>8, <2>1, <2>2, <2>3
        DEF After, IInv, TypeInv, StartInv, AskInv, FirstAnswerWins, FailsOnlyAtTheEnd
<1>9. CASE t = T /\ ~(recs = <<>> /\ n < Len(List))
    <2>1. at' = at /\ pc' = "done" /\ result' = Result(recs, e)
        BY <1>5, <1>9 DEF Advance, Finish
    <2>2. TypeInv' /\ StartInv' /\ AskInv'
        BY <1>1, <1>2, <1>4, <2>1 DEF IInv, TypeInv, StartInv, AskInv
    <2>3. \A m \in DOMAIN asked' : InTurn(m)'
        BY DEF OrderInv
    <2>4. Len(asked') = Place(n, T)
        BY <1>9 DEF After
    <2>5. FirstAnswerWins'
        <3> SUFFICES ASSUME result' # <<>>, result'[1] = "ok"
                     PROVE  FirstAnswerWins'
            BY DEF FirstAnswerWins
        <3>1. recs # <<>> /\ result' = <<"ok", recs>>
            BY <2>1 DEF Result
        <3> DEFINE R == {q \in ToSet(asked') : q.outcome = "records"}
        <3>2. recs = Only(asked', R)
            <4>1. ToSet(asked') \subseteq Question
                BY ElementOfSeq, LenProperties DEF ToSet
            <4>2. ToSet(asked') \cap Answered = ToSet(asked') \cap R
                BY <4>1 DEF Answered
            <4> HIDE DEF R
            <4> QED
                BY <4>2, OnlySame DEF After
        <3>3. \A m \in DOMAIN asked' : m <= Place(n, 0) => Failed(asked'[m])
            <4> SUFFICES ASSUME NEW m \in DOMAIN asked', m <= Place(n, 0), m > Place(n, 0)
                         PROVE  FALSE
                BY DEF After
            <4>1. m \in Nat
                BY LenProperties
            <4> QED
                BY <4>1, <1>6, <1>5 DEF Place
        <3>4. PICK k \in DOMAIN List : k = n
            BY <1>1
        <3>5. k \in DOMAIN List' /\ Len(asked)' = Place(k, Len(Types))'
            BY <1>2, <1>3, <2>4, <3>4
        <3>6. \A m \in DOMAIN asked' : m <= Place(k, 0)' => Failed(asked[m])'
            BY <1>3, <3>3, <3>4 DEF Failed
        <3>7. result'[2] = recs
            BY <3>1
        <3> QED
            BY <3>1, <3>2, <3>5, <3>6, <3>7, <2>3 DEF FirstAnswerWins
    <2>6. FailsOnlyAtTheEnd'
        <3> SUFFICES ASSUME result' # <<>>, result'[1] # "ok"
                     PROVE  FailsOnlyAtTheEnd'
            BY DEF FailsOnlyAtTheEnd
        <3>1. recs = <<>> /\ result' = <<"error", e>> /\ n = Len(List)
            BY <2>1, <1>6, <1>9 DEF Result
        <3>2. e \in ToSet(asked') /\ \A m \in DOMAIN asked' : Failed(asked'[m])
            BY <3>1, <1>10 DEF After
        <3>3. ASSUME Addresses, ~call.name.rooted, ~call.name.onion
              PROVE  e.fqdn = Itself(call.name)
            <4>1. PICK k \in DOMAIN List : List[k] = Itself(call.name)
                <5>1. List # <<>>
                    BY <1>6
                <5> QED
                    BY <1>1, <3>3, <5>1, ListShape DEF List, ToSet
            <4> DEFINE m == Place(k, 1)
            <4>2. k \in Nat \ {0} /\ k <= n /\ n \in Nat \ {0} /\ 1 \in 1..T
                BY <1>5, <1>6, <3>1
            <4>3. m \in Nat \ {0} /\ m <= Place(n, T)
                BY <1>1, <4>2, PlaceNext, PlaceOrder
            <4>4. m \in DOMAIN asked'
                BY <2>4, <4>3, LenProperties
            <4>5. PICK j \in DOMAIN List, u \in DOMAIN Types :
                      m = Place(j, u) /\ asked'[m].fqdn = List[j]
                BY <4>4, <2>3, <1>2, <1>3 DEF InTurn
            <4>6. j = k
                BY <1>1, <1>6, <4>2, <4>5, PlaceOrder
            <4> QED
                BY <1>1, <3>2, <3>3, <4>1, <4>4, <4>5, <4>6 DEF After
        <3>4. /\ asked'[Len(asked')].outcome \in {"notfound", "temporary", "permanent"}
              /\ ~(call.strict /\ asked'[Len(asked')].outcome = "temporary")
            BY <3>1 DEF After
        <3>5. Len(asked)' = Place(Len(List), Len(Types))'
            BY <1>1, <1>2, <1>3, <2>4, <3>1
        <3>6. \A m \in DOMAIN asked' : Failed(asked[m])'
            BY <3>2 DEF Failed
        <3>7. result'[1] = "error" /\ result'[2] = e
            BY <3>1
        <3> QED
            BY <1>1, <1>2, <2>3, <3>2, <3>3, <3>4, <3>5, <3>6, <3>7 DEF FailsOnlyAtTheEnd
    <2> QED
        BY <2>2, <2>5, <2>6 DEF IInv
<1> QED
    BY <1>5, <1>7, <1>8, <1>9

(* A question: its outcome ends the walk at once or is kept.               *)
LEMMA AskKeeps == IInv /\ Ask => IInv'
<1> SUFFICES ASSUME IInv, Ask PROVE IInv'
    OBVIOUS
<1>1. /\ pc = "ask" /\ call' = call /\ hosts' = hosts /\ call \in Calls /\ result = <<>>
      /\ asked \in Seq(Question) /\ at \in Nat \X Nat
      /\ hosts = "listed" => call.network = "typed"
    BY DEF Ask, IInv, TypeInv, StartInv
<1>2. /\ at[1] \in DOMAIN List /\ at[2] \in DOMAIN Types
      /\ Len(asked) + 1 = Place(at[1], at[2])
      /\ \A m \in DOMAIN asked :
             Failed(asked[m]) \/ (asked[m] \in Answered /\ m > Place(at[1], 0))
      /\ records = Only(asked, Answered)
      /\ lastErr # <<>> => lastErr \in ToSet(asked)
      /\ Addresses /\ ~call.name.rooted =>
             \A m \in DOMAIN asked : Failed(asked[m]) /\ asked[m].fqdn = Itself(call.name)
                 => lastErr # <<>> /\ lastErr.fqdn = Itself(call.name)
    BY <1>1 DEF IInv, AskInv
<1>3. List' = List /\ Types' = Types /\ Addresses' = Addresses
    BY <1>1 DEF List, Types, Addresses
<1>4. (\A j, k : Place(j, k)' = Place(j, k)) /\ Question' = Question
    BY <1>3 DEF Place, Question
<1> DEFINE Q(o) == [fqdn |-> List[at[1]], qtype |-> Types[at[2]], outcome |-> o]
<1>5. PICK o \in Outcomes :
          /\ asked' = Append(asked, Q(o))
          /\ CASE o = "temporary" /\ call.strict ->
                      Finish(<<"error", Q(o)>>) /\ UNCHANGED <<at, lastErr, records>>
               [] o = "garbled" ->
                      Finish(<<"cannot unmarshal">>) /\ UNCHANGED <<at, lastErr, records>>
               [] o = "records" ->
                      /\ records' = Append(records, Q(o))
                      /\ Advance(records', lastErr) /\ UNCHANGED lastErr
               [] OTHER ->
                      /\ lastErr' = Kept(lastErr, Q(o))
                      /\ Advance(records, lastErr') /\ UNCHANGED records
    BY DEF Ask
<1> DEFINE q == Q(o)
           N == Len(asked)
<1>6. q \in Question /\ q.outcome = o /\ q.fqdn = List[at[1]] /\ q.qtype = Types[at[2]] /\ q # <<>>
    BY <1>2 DEF Question, ToSet
<1> HIDE DEF q
<1>7. asked' = Append(asked, q)
    BY <1>5 DEF q
<1>8. /\ asked' \in Seq(Question) /\ N \in Nat /\ Len(asked') = N + 1
      /\ asked'[N + 1] = q /\ \A m \in 1..N : asked'[m] = asked[m]
      /\ DOMAIN asked = 1..N /\ DOMAIN asked' = 1..(N + 1)
    BY <1>1, <1>6, <1>7, AppendProperties, LenProperties
<1>9. OrderInv'
    <2> SUFFICES ASSUME NEW m \in 1..(N + 1) PROVE InTurn(m)'
        BY <1>8 DEF OrderInv
    <2>1. CASE m = N + 1
        BY <1>2, <1>3, <1>4, <1>6, <1>8, <2>1 DEF InTurn
    <2>2. CASE m # N + 1
        <3>1. m \in 1..N /\ asked'[m] = asked[m] /\ InTurn(m)
            BY <1>8, <2>2 DEF IInv, OrderInv
        <3> QED
            BY <1>3, <1>4, <3>1 DEF InTurn
    <2> QED
        BY <2>1, <2>2
<1>10. CASE (o = "temporary" /\ call.strict) \/ o = "garbled"
    <2>1. /\ pc' = "done"
          /\ o = "temporary" => result' = <<"error", q>>
          /\ o = "garbled" => result' = <<"cannot unmarshal">>
          /\ at' = at /\ records' = records
        BY <1>5, <1>10 DEF Finish, q
    <2>2. TypeInv' /\ StartInv' /\ AskInv'
        BY <1>1, <1>4, <1>8, <2>1 DEF IInv, TypeInv, StartInv, AskInv
    <2>3. result'[1] # "ok" /\ (o = "temporary" => result'[2] = q)
        <3>1. result' = <<"error", q>> => result'[1] = "error" /\ result'[2] = q
            OBVIOUS
        <3>2. ASSUME NEW e, result' = <<e>> PROVE result'[1] = e
            BY <3>2
        <3> QED
            BY <1>10, <2>1, <3>1, <3>2
    <2>4. FirstAnswerWins'
        BY <2>3 DEF FirstAnswerWins
    <2>5. FailsOnlyAtTheEnd'
        <3>1. asked'[Len(asked')] = q
            BY <1>8
        <3>2. CASE o = "temporary" /\ call.strict
            BY <1>1, <1>6, <2>3, <3>1, <3>2 DEF FailsOnlyAtTheEnd
        <3>3. CASE o = "garbled"
            BY <1>6, <2>1, <3>1, <3>3 DEF FailsOnlyAtTheEnd
        <3> QED
            BY <1>10, <3>2, <3>3
    <2> QED
        BY <1>9, <2>2, <2>4, <2>5 DEF IInv
<1>11. at[1] \in Nat \ {0} /\ at[2] \in 1..Len(Types) /\ Place(at[1], at[2]) > Place(at[1], 0)
    <2>1. DOMAIN List = 1..Len(List) /\ Len(List) \in Nat
        BY <1>1, ListShape DEF List
    <2>2. DOMAIN Types = 1..Len(Types) /\ Len(Types) \in 1..3
        BY <1>1, TypesShape
    <2> HIDE DEF List, Types
    <2>3. at[1] \in Nat \ {0} /\ at[2] \in 1..Len(Types)
        BY <1>2, <2>1, <2>2
    <2> QED
        BY <1>1, <2>3, PlaceNext
<1>12. ToSet(asked') = ToSet(asked) \cup {q}
    BY <1>1, <1>6, <1>7, ToSetOfAppend
<1>13. Only(asked', Answered) = IF q \in Answered THEN Append(Only(asked, Answered), q)
                                ELSE Only(asked, Answered)
    BY <1>1, <1>6, <1>7, OnlyOfAppend
<1>14. CASE o = "records"
    <2>1. records' = Append(records, q) /\ lastErr' = lastErr /\ Advance(records', lastErr)
        BY <1>5, <1>14 DEF q
    <2>2. q \in Answered /\ ~Failed(q)
        BY <1>6, <1>14 DEF Answered, Failed
    <2>3. records' # <<>>
        <3>1. records \in Seq(Question)
            BY <1>1, <1>2, OnlyType
        <3> QED
            BY <1>6, <2>1, <3>1, AppendProperties
    <2>4. After(records', lastErr)
        <3>1. asked' # <<>> /\ Len(asked') = Place(at[1], at[2]) /\ asked'[Len(asked')] = q
            BY <1>2, <1>8
        <3>2. \A m \in DOMAIN asked' :
                  Failed(asked'[m]) \/ (asked'[m] \in Answered /\ m > Place(at[1], 0))
            BY <1>2, <1>8, <1>11, <2>2
        <3>3. records' = Only(asked', Answered)
            BY <1>2, <1>13, <2>1, <2>2
        <3>4. Addresses /\ ~call.name.rooted =>
                  \A m \in DOMAIN asked' : Failed(asked'[m]) /\ asked'[m].fqdn = Itself(call.name)
                      => lastErr # <<>> /\ lastErr.fqdn = Itself(call.name)
            BY <1>2, <1>8, <2>2
        <3> QED
            BY <1>2, <1>6, <1>12, <1>14, <2>3, <3>1, <3>2, <3>3, <3>4 DEF After
    <2> QED
        BY <1>1, <1>8, <1>9, <2>1, <2>4, AdvanceKeeps
<1>15. CASE o \in {"notfound", "temporary", "permanent"} /\ ~(o = "temporary" /\ call.strict)
    <2>1. records' = records /\ lastErr' = Kept(lastErr, q) /\ Advance(records, lastErr')
        BY <1>5, <1>15 DEF q
    <2>2. q \notin Answered /\ Failed(q)
        BY <1>6, <1>15 DEF Answered, Failed
    <2>3. (lastErr' = lastErr /\ lastErr # <<>>) \/ lastErr' = q
        BY <2>1 DEF Kept
    <2>4. ASSUME Addresses, ~call.name.rooted, NEW m \in DOMAIN asked', Failed(asked'[m]),
                 asked'[m].fqdn = Itself(call.name)
          PROVE  lastErr'.fqdn = Itself(call.name)
        <3>1. CASE q.fqdn = Itself(call.name)
            BY <2>1, <2>4, <3>1 DEF Kept
        <3>2. CASE q.fqdn # Itself(call.name)
            <4>1. m \in 1..N /\ asked'[m] = asked[m]
                BY <1>8, <2>4, <3>2
            <4>2. lastErr # <<>> /\ lastErr.fqdn = Itself(call.name)
                BY <1>2, <1>8, <2>4, <4>1
            <4> QED
                BY <2>1, <2>4, <3>2, <4>2 DEF Kept
        <3> QED
            BY <3>1, <3>2
    <2>5. After(records, lastErr')
        BY <1>2, <1>6, <1>8, <1>11, <1>12, <1>13, <1>15, <2>2, <2>3, <2>4 DEF After
    <2> QED
        BY <1>1, <1>8, <1>9, <2>1, <2>5, AdvanceKeeps
<1> QED
    BY <1>10, <1>14, <1>15 DEF Outcomes

(* What holds of every walk.                                               *)
THEOREM InvHolds == Spec => []IInv
<1>1. Init => IInv
    BY InitHolds
<1>2. IInv /\ [Next]_vars => IInv'
    BY StutterKeeps, FromHostsKeeps, ToDNSKeeps, AskKeeps DEF Next, Done
<1> QED
    BY <1>1, <1>2, PTL DEF Spec

(* goLookupIPCNAMEOrder and lookup return all the records of the first     *)
(* name of the search order that has any, of every type, and no others.    *)
THEOREM FirstAnswerHolds == Spec => []FirstAnswerWins
BY InvHolds, PTL DEF IInv

(* They fail only when nothing is left to ask, or at once for a garbled    *)
(* reply or strict; the error is one they met, and that of an address      *)
(* lookup of an unrooted name is about the name itself.                    *)
THEOREM FailureHolds == Spec => []FailsOnlyAtTheEnd
BY InvHolds, PTL DEF IInv

(* No question is about an .onion name, a name too long, a listed name or  *)
(* a rooted name made longer, and ndots decides what is asked first.       *)
THEOREM QuestionsHold == Spec => []OnlyProperQuestions
<1>1. IInv => OnlyProperQuestions
    <2> SUFFICES ASSUME IInv PROVE OnlyProperQuestions
        OBVIOUS
    <2> DEFINE me == Itself(call.name)
    <2>1. call \in Calls /\ asked \in Seq(Question)
        BY DEF IInv, TypeInv
    <2>2. /\ DOMAIN List = 1..Len(List) /\ Len(List) \in Nat /\ DOMAIN Types = 1..Len(Types)
          /\ \A n \in DOMAIN List : /\ ~List[n].onion /\ List[n].len <= 254
                                    /\ call.name.rooted => List[n] = me
          /\ \A m, n \in DOMAIN List : List[m] = me /\ List[n] # me =>
                 (m < n <=> call.name.dots >= call.ndots)
        BY <2>1, ListShape, TypesShape DEF List
    <2>3. ASSUME NEW q \in ToSet(asked)
          PROVE  /\ ~q.fqdn.onion /\ q.fqdn.len <= 254
                 /\ call.name.rooted => q.fqdn = me
                 /\ hosts = "listed" => call.network = "typed"
        <3>1. PICK m \in DOMAIN asked : q = asked[m]
            BY DEF ToSet
        <3>2. PICK n \in DOMAIN List : q.fqdn = List[n]
            BY <3>1 DEF IInv, OrderInv, InTurn
        <3>3. asked # <<>>
            BY <3>1
        <3> QED
            BY <2>2, <3>2, <3>3 DEF IInv, StartInv
    <2>4. ASSUME NEW j \in DOMAIN asked, NEW k \in DOMAIN asked,
                 asked[j].fqdn = me, asked[k].fqdn # me
          PROVE  j < k <=> call.name.dots >= call.ndots
        <3>1. PICK m \in DOMAIN List, t \in DOMAIN Types : j = Place(m, t) /\ asked[j].fqdn = List[m]
            BY DEF IInv, OrderInv, InTurn
        <3>2. PICK n \in DOMAIN List, u \in DOMAIN Types : k = Place(n, u) /\ asked[k].fqdn = List[n]
            BY DEF IInv, OrderInv, InTurn
        <3>3. m # n /\ m \in Nat \ {0} /\ n \in Nat \ {0}
            BY <2>2, <2>4, <3>1, <3>2
        <3>4. j < k <=> m < n
            <4>1. m < n => Place(m, t) < Place(n, u)
                BY <2>1, <2>2, <3>3, PlaceOrder
            <4>2. n < m => Place(n, u) < Place(m, t)
                BY <2>1, <2>2, <3>3, PlaceOrder
            <4>3. Place(m, t) \in Nat /\ Place(n, u) \in Nat
                BY <2>1, <2>2, <3>3, PlaceNext
            <4> QED
                BY <3>1, <3>2, <3>3, <4>1, <4>2, <4>3
        <3> QED
            BY <2>2, <2>4, <3>1, <3>2, <3>4
    <2> QED
        BY <2>3, <2>4 DEF OnlyProperQuestions
<1> QED
    BY <1>1, InvHolds, PTL
-----------------------------------------------------------------------------
\* The labels of a text in lower case.
Lowered(labels) == [i \in DOMAIN labels |-> Lower(labels[i])]

(* What Lower leaves alone, which is all the checks look at.               *)
LEMMA LowerFields ==
    ASSUME NEW l \in LabelFields
    PROVE  /\ Lower(l) \in LabelFields /\ Lower(Lower(l)) = Lower(l)
           /\ Lower(l).len = l.len /\ Lower(l).lead = l.lead /\ Lower(l).trail = l.trail
           /\ Lower(l).chars = l.chars /\ Lower(l).digits = l.digits /\ Lower(l).com = l.com
           /\ validateLabel(Lower(l)) = validateLabel(l) /\ IsLabel(Lower(l)) = IsLabel(l)
<1>1. ASSUME NEW r \in LabelFields
      PROVE  /\ [r EXCEPT !.upper = FALSE] \in LabelFields
             /\ [r EXCEPT !.upper = FALSE].upper = FALSE
    BY DEF LabelFields
<1>2. ASSUME NEW r \in LabelFields, r.upper = FALSE PROVE [r EXCEPT !.upper = FALSE] = r
    BY <1>2 DEF LabelFields
<1>3. /\ Lower(l) \in LabelFields
      /\ Lower(l).len = l.len /\ Lower(l).lead = l.lead /\ Lower(l).trail = l.trail
      /\ Lower(l).chars = l.chars /\ Lower(l).digits = l.digits /\ Lower(l).com = l.com
    <2>1. Lower(l) \in LabelFields
        BY <1>1 DEF Lower
    <2>2. \A r \in LabelFields :
              /\ [r EXCEPT !.upper = FALSE].len = r.len
              /\ [r EXCEPT !.upper = FALSE].lead = r.lead
              /\ [r EXCEPT !.upper = FALSE].trail = r.trail
              /\ [r EXCEPT !.upper = FALSE].chars = r.chars
              /\ [r EXCEPT !.upper = FALSE].digits = r.digits
              /\ [r EXCEPT !.upper = FALSE].com = r.com
        BY DEF LabelFields
    <2> QED
        BY <2>1, <2>2 DEF Lower
<1>4. Lower(Lower(l)) = Lower(l)
    BY <1>1, <1>2 DEF Lower
<1>5. validateLabel(Lower(l)) = validateLabel(l) /\ IsLabel(Lower(l)) = IsLabel(l)
    BY <1>3 DEF validateLabel, IsLabel
<1> QED
    BY <1>3, <1>4, <1>5

(* A sequence in lower case, label by label.                               *)
LEMMA LoweredLabels ==
    ASSUME NEW labels \in Seq(LabelFields)
    PROVE  /\ Lowered(labels) \in Seq(LabelFields) /\ Len(Lowered(labels)) = Len(labels)
           /\ DOMAIN Lowered(labels) = DOMAIN labels
           /\ \A i \in DOMAIN labels : Lowered(labels)[i] = Lower(labels[i])
           /\ Lowered(Lowered(labels)) = Lowered(labels)
<1>1. Len(labels) \in Nat /\ DOMAIN labels = 1..Len(labels)
      /\ \A i \in DOMAIN labels : labels[i] \in LabelFields
    BY LenProperties
<1>2. Lowered(labels) \in [1..Len(labels) -> LabelFields]
    BY <1>1, LowerFields DEF Lowered
<1> DEFINE n == Len(labels)
<1>3. /\ Lowered(labels) \in Seq(LabelFields) /\ Len(Lowered(labels)) = n
      /\ DOMAIN Lowered(labels) = 1..n
    <2> HIDE DEF n
    <2> QED
        BY <1>1, <1>2, FunctionIsSeq DEF n
<1>4. \A i \in DOMAIN labels : Lowered(labels)[i] = Lower(labels[i])
    BY DEF Lowered
<1>5. Lowered(Lowered(labels)) = Lowered(labels)
    <2>1. \A i \in DOMAIN labels : Lower(Lowered(labels)[i]) = Lower(labels[i])
        BY <1>1, <1>4, LowerFields
    <2> QED
        BY <1>1, <1>3, <2>1 DEF Lowered
<1> QED
    BY <1>1, <1>3, <1>4, <1>5

\* The octets each label takes, with its length byte.
Lengths(labels) == [i \in DOMAIN labels |-> labels[i].len + 1]

(* Octets of labels: a natural number, the same in lower case, that of a   *)
(* single label, and none only without labels.                             *)
LEMMA OctetsFacts ==
    ASSUME NEW labels \in Seq(LabelFields)
    PROVE  /\ Octets(labels) \in Nat /\ Octets(Lowered(labels)) = Octets(labels)
           /\ labels # <<>> => Octets(labels) >= 1
           /\ Len(labels) = 1 => Octets(labels) = labels[1].len + 1
<1>1. Len(labels) \in Nat /\ DOMAIN labels = 1..Len(labels)
      /\ \A i \in DOMAIN labels : labels[i].len \in Nat
    <2>1. \A i \in DOMAIN labels : labels[i] \in LabelFields
        BY LenProperties
    <2>2. \A l \in LabelFields : l.len \in Nat
        BY DEF LabelFields
    <2> QED
        BY <2>1, <2>2, LenProperties
<1>2. Lengths(labels) \in [1..Len(labels) -> Nat]
    BY <1>1 DEF Lengths
<1>3. Lengths(labels) \in Seq(Nat) /\ Len(Lengths(labels)) = Len(labels)
    <2> DEFINE n == Len(labels)
    <2> HIDE DEF n
    <2> QED
        BY <1>1, <1>2, FunctionIsSeq DEF n
<1>4. Octets(labels) = Total(Lengths(labels))
    BY DEF Octets, Lengths
<1>5. Octets(Lowered(labels)) = Octets(labels)
    <2>1. \A i \in DOMAIN labels : Lowered(labels)[i].len = labels[i].len
        BY LoweredLabels, LowerFields, LenProperties
    <2>2. Lengths(Lowered(labels)) = Lengths(labels)
        BY <2>1, LoweredLabels DEF Lengths
    <2> QED
        BY <2>2 DEF Octets, Lengths
<1>6. ASSUME labels # <<>>
      PROVE  Octets(labels) >= 1 /\ (Len(labels) = 1 => Octets(labels) = labels[1].len + 1)
    <2> DEFINE lengths == Lengths(labels)
    <2>1. lengths \in Seq(Nat) /\ lengths # <<>>
        BY <1>3, <1>6, EmptySeq
    <2> HIDE DEF lengths
    <2>2. PICK s \in Seq(Nat), x \in Nat : lengths = Append(s, x)
        BY <2>1, SequenceEmptyOrAppend
    <2>3. /\ Len(s) \in Nat /\ Len(labels) = Len(s) + 1 /\ Lengths(labels)[Len(s) + 1] = x
          /\ Octets(labels) = Total(s) + x /\ Total(s) \in Nat
        <3>1. Len(lengths) = Len(labels) /\ Octets(labels) = Total(lengths)
            BY <1>3, <1>4 DEF lengths
        <3>2. /\ Len(s) \in Nat /\ Len(lengths) = Len(s) + 1 /\ lengths[Len(s) + 1] = x
              /\ Total(lengths) = Total(s) + x /\ Total(s) \in Nat
            BY <2>2, TotalOfAppend, TotalType, AppendProperties, LenProperties, Z3T(30)
        <3> QED
            BY <3>1, <3>2 DEF lengths
    <2>4. x = labels[Len(s) + 1].len + 1 /\ x >= 1
        <3>1. Len(s) + 1 \in DOMAIN labels
            BY <1>1, <2>3
        <3> QED
            BY <1>1, <2>3, <3>1 DEF Lengths
    <2>5. ASSUME Len(labels) = 1 PROVE Octets(labels) = labels[1].len + 1
        <3>1. s = <<>> /\ Len(s) = 0
            BY <2>3, <2>5, EmptySeq
        <3> QED
            BY <2>3, <2>4, <3>1, TotalOfNone
    <2> QED
        BY <2>3, <2>4, <2>5
<1> QED
    BY <1>1, <1>3, <1>4, <1>5, <1>6, TotalType, EmptySeq
(* What ParseDomain takes, and what it makes of it.                        *)
LEMMA ParsedDomain ==
    ASSUME NEW t, Text(t)
    PROVE  /\ ParseDomain(t) # Invalid <=>
                  validateDomain(t.labels) /\ \A i \in DOMAIN t.labels : IsLabel(t.labels[i])
           /\ ParseDomain(t) # Invalid => ParseDomain(t) =
                  <<"domain", [hostname |-> Lowered(t.labels), labels |-> Front(Lowered(t.labels)),
                               tld |-> tldFromLabel(Last(Lowered(t.labels))), fq |-> t.dot]>>
<1>1. \A r : <<"domain", r>> # Invalid
    BY DEF Invalid
<1> QED
    BY <1>1 DEF ParseDomain, Lowered

(* The name a parsed domain has again from its fields.                     *)
LEMMA PartsAgain ==
    ASSUME NEW labels \in Seq(LabelFields), labels # <<>>,
           labels[Len(labels)].com => labels[Len(labels)] = Com
    PROVE  Front(labels) \o tldString(tldFromLabel(Last(labels))) = labels
<1>1. PICK s \in Seq(LabelFields), x \in LabelFields : labels = Append(s, x)
    BY SequenceEmptyOrAppend
<1>2. Len(s) \in Nat /\ Len(labels) = Len(s) + 1 /\ labels[Len(labels)] = x /\ Last(labels) = x
    BY <1>1, AppendProperties, LenProperties DEF Last
<1>3. Front(labels) = s
    <2>1. Len(s) \in 0..Len(s) /\ Len(labels) - 1 = Len(s)
        BY <1>2
    <2> QED
        BY <1>1, <2>1, SubSeqOfAppend, SubSeqFull DEF Front
<1>4. tldString(tldFromLabel(x)) = <<x>>
    <2>1. CASE x.com
        BY <1>2, <2>1 DEF tldString, tldFromLabel
    <2>2. CASE ~x.com
        <3>1. tldFromLabel(x) = <<"custom", x>>
            BY <2>2 DEF tldFromLabel
        <3>2. <<"custom", x>> # <<"internet", "COM">> /\ <<"custom", x>> # <<"internet", "None">>
            OBVIOUS
        <3>3. <<"custom", x>>[1] = "custom" /\ <<"custom", x>>[2] = x
            OBVIOUS
        <3> QED
            BY <3>1, <3>2, <3>3 DEF tldString
    <2> QED
        BY <2>1, <2>2
<1> QED
    BY <1>1, <1>2, <1>3, <1>4, AppendIsConcat
(* The text a parsed domain prints as, and what is valid of it.            *)
LEMMA LoweredText ==
    ASSUME NEW t, Text(t), ParseDomain(t) # Invalid
    PROVE  LET low == [labels |-> Lowered(t.labels), dot |-> t.dot]
           IN  /\ Text(low) /\ low = [t EXCEPT !.labels = Lowered(t.labels)]
               /\ Lowered(t.labels) # <<>> /\ Parts(ParseDomain(t)[2]) = Lowered(t.labels)
               /\ ParseDomain(low) = ParseDomain(t)
<1> DEFINE labels == t.labels
           lowered == Lowered(labels)
           low == [labels |-> lowered, dot |-> t.dot]
<1>1. labels \in Seq(LabelFields) /\ t.dot \in BOOLEAN
    BY DEF Text
<1>2. /\ lowered \in Seq(LabelFields) /\ Len(lowered) = Len(labels)
      /\ DOMAIN lowered = DOMAIN labels
      /\ \A i \in DOMAIN labels : lowered[i] = Lower(labels[i])
      /\ Lowered(lowered) = lowered
    BY <1>1, LoweredLabels
<1>3. /\ validateDomain(labels) /\ \A i \in DOMAIN labels : IsLabel(labels[i])
      /\ ParseDomain(t) = <<"domain", [hostname |-> lowered, labels |-> Front(lowered),
                                tld |-> tldFromLabel(Last(lowered)), fq |-> t.dot]>>
    BY ParsedDomain
<1>4. /\ Len(labels) \in Nat /\ DOMAIN labels = 1..Len(labels)
      /\ \A i \in DOMAIN labels : labels[i] \in LabelFields
    BY <1>1, LenProperties
<1>5. labels # <<>> /\ Len(labels) # 0 /\ lowered # <<>>
    BY <1>1, <1>2, <1>3, EmptySeq DEF validateDomain
<1>6. \A i \in DOMAIN labels : lowered[i].com => lowered[i] = Com
    BY <1>2, <1>4, LowerFields DEF Text
<1>7. \A i \in DOMAIN labels : lowered[i].com => Lower(lowered[i]) = Com
    BY <1>2, <1>4, <1>6, LowerFields
<1>8. Text(low)
    <2>1. low.labels = lowered /\ low \in [labels : Seq(LabelFields), dot : BOOLEAN]
        BY <1>1, <1>2
    <2> HIDE DEF low
    <2> QED
        BY <1>2, <1>7, <2>1 DEF Text
<1>9. low = [t EXCEPT !.labels = lowered]
    <2>1. \A r \in [labels : Seq(LabelFields), dot : BOOLEAN], new \in Seq(LabelFields) :
              [labels |-> new, dot |-> r.dot] = [r EXCEPT !.labels = new]
        OBVIOUS
    <2> HIDE DEF lowered
    <2> QED
        BY <1>2, <2>1 DEF Text
<1>10. Parts(ParseDomain(t)[2]) = lowered
    <2>1. lowered[Len(lowered)].com => lowered[Len(lowered)] = Com
        BY <1>2, <1>4, <1>5, <1>6
    <2>2. Front(lowered) \o tldString(tldFromLabel(Last(lowered))) = lowered
        <3> HIDE DEF lowered
        <3> QED
            BY <1>2, <1>5, <2>1, PartsAgain
    <2> QED
        BY <1>3, <2>2 DEF Parts
<1>11. validateDomain(lowered) /\ \A i \in DOMAIN lowered : IsLabel(lowered[i])
    <2>1. \A i \in DOMAIN lowered : validateLabel(lowered[i]) /\ IsLabel(lowered[i])
        BY <1>2, <1>3, <1>4, LowerFields DEF validateDomain
    <2>2. Octets(lowered) = Octets(labels)
        BY <1>1, OctetsFacts
    <2> QED
        BY <1>3, <1>5, <2>1, <2>2 DEF validateDomain
<1>12. ParseDomain(low) = ParseDomain(t)
    <2>1. low.labels = lowered /\ low.dot = t.dot
        OBVIOUS
    <2> HIDE DEF low, lowered
    <2> QED
        BY <1>2, <1>3, <1>8, <1>11, <2>1, ParsedDomain
<1> QED
    BY <1>5, <1>8, <1>9, <1>10, <1>12

(* The resolver asks for what the service accepts, but for numbers.        *)
LEMMA AcceptedIsAsked ==
    ASSUME NEW t, Text(t), ParseDomain(t) # Invalid
    PROVE  isDomainName([labels |-> Lowered(t.labels), dot |-> TRUE]) <=>
               \E i \in DOMAIN t.labels : ~t.labels[i].digits
<1> DEFINE labels == t.labels
           lowered == Lowered(labels)
           name == [labels |-> lowered, dot |-> TRUE]
<1>1. labels \in Seq(LabelFields)
    BY DEF Text
<1>2. \A i \in DOMAIN labels : labels[i] \in LabelFields
    BY <1>1, LenProperties
<1>3. validateDomain(labels) /\ \A i \in DOMAIN labels : IsLabel(labels[i])
    BY ParsedDomain
<1>4. /\ lowered \in Seq(LabelFields) /\ DOMAIN lowered = DOMAIN labels
      /\ \A i \in DOMAIN labels : lowered[i] = Lower(labels[i])
    BY <1>1, LoweredLabels
<1>5. lowered # <<>> /\ Len(lowered) = Len(labels)
    BY <1>1, <1>3, LoweredLabels, EmptySeq DEF validateDomain
<1>6. \A i \in DOMAIN lowered : /\ validateLabel(lowered[i])
                                 /\ lowered[i].chars = "ldh"
                                 /\ lowered[i].digits = labels[i].digits
    BY <1>2, <1>3, <1>4, LowerFields DEF validateDomain, IsLabel
<1>7. Octets(lowered) \in Nat /\ Octets(lowered) >= 1 /\ Octets(lowered) - 1 <= 253
    BY <1>1, <1>3, OctetsFacts DEF validateDomain, MaxDomainOctets
<1>8. Length(name) = Octets(lowered)
    BY <1>5, <1>7 DEF Length
<1>9. name.labels = lowered /\ name.dot
    OBVIOUS
<1> HIDE DEF name, lowered
<1>10. Length(name) \in 1..254
    BY <1>7, <1>8
<1>11. (\E i \in DOMAIN lowered : ~lowered[i].digits) <=> \E i \in DOMAIN labels : ~labels[i].digits
    BY <1>4, <1>6
<1>12. isDomainName(name) <=> \E i \in DOMAIN lowered : ~lowered[i].digits
    BY <1>5, <1>6, <1>9, <1>10 DEF isDomainName
<1> QED
    BY <1>11, <1>12 DEF name, lowered
(* The properties of NamesAgree, of any text.                              *)
LEMMA TextAgrees ==
    ASSUME Text(text) PROVE NamesAgree
<1> DEFINE d == ParseDomain(text)
           labels == text.labels
           lowered == Lowered(labels)
<1>1. labels \in Seq(LabelFields) /\ text.dot \in BOOLEAN
    BY DEF Text
<1>2. Len(labels) \in Nat /\ DOMAIN labels = 1..Len(labels)
      /\ \A i \in DOMAIN labels : labels[i] \in LabelFields
    BY <1>1, LenProperties
<1>3. ASSUME d # Invalid
      PROVE  /\ PrintDomain(d[2]) =
                    [text EXCEPT !.labels = [i \in DOMAIN @ |-> Lower(@[i])]]
             /\ ParseDomain(PrintDomain(d[2])) = d
             /\ isDomainName(canonicalName(d[2])) <=>
                    \E i \in DOMAIN labels : ~labels[i].digits
    <2>1. /\ Text([labels |-> lowered, dot |-> text.dot])
          /\ [labels |-> lowered, dot |-> text.dot] = [text EXCEPT !.labels = lowered]
          /\ lowered # <<>> /\ Parts(d[2]) = lowered
          /\ ParseDomain([labels |-> lowered, dot |-> text.dot]) = d
        BY <1>3, LoweredText
    <2>2. d[2].fq = text.dot
        <3>1. d = <<"domain", [hostname |-> lowered, labels |-> Front(lowered),
                               tld |-> tldFromLabel(Last(lowered)), fq |-> text.dot]>>
            BY <1>3, ParsedDomain
        <3> QED
            BY <3>1
    <2>3. PrintDomain(d[2]) = [labels |-> lowered, dot |-> text.dot]
        BY <2>1, <2>2 DEF PrintDomain
    <2>4. canonicalName(d[2]) = [labels |-> lowered, dot |-> TRUE]
        BY <2>1 DEF canonicalName
    <2>5. isDomainName([labels |-> lowered, dot |-> TRUE]) <=>
              \E i \in DOMAIN labels : ~labels[i].digits
        BY <1>3, AcceptedIsAsked
    <2>6. [text EXCEPT !.labels = [i \in DOMAIN @ |-> Lower(@[i])]] = [text EXCEPT !.labels = lowered]
        BY DEF Lowered
    <2> QED
        BY <2>1, <2>3, <2>4, <2>5, <2>6
<1>4. ASSUME ParseHostname(text) # Invalid PROVE ParseHostname(text) = d
    <2>1. /\ Len(labels) = 1 /\ ~text.dot /\ IsLabel(labels[1]) /\ validateLabel(labels[1])
          /\ ParseHostname(text) =
                 <<"domain", [hostname |-> <<Lower(labels[1])>>, labels |-> <<>>,
                              tld |-> tldFromLabel(Lower(labels[1])), fq |-> FALSE]>>
        BY <1>4 DEF ParseHostname
    <2>2. labels[1] \in LabelFields /\ labels # <<>> /\ DOMAIN labels = {1}
        BY <1>1, <1>2, <2>1, EmptySeq
    <2>3. Octets(labels) - 1 <= MaxDomainOctets
        <3>1. Octets(labels) = labels[1].len + 1
            BY <1>1, <2>1, OctetsFacts
        <3>2. \A l : validateLabel(l) => l.len \in 1..63
            BY DEF validateLabel, MaxLabelOctets
        <3>3. labels[1].len \in 1..63
            BY <2>1, <3>2
        <3> QED
            BY <3>1, <3>3 DEF MaxDomainOctets
    <2>4. validateDomain(labels) /\ \A i \in DOMAIN labels : IsLabel(labels[i])
        BY <2>1, <2>2, <2>3 DEF validateDomain
    <2>5. d = <<"domain", [hostname |-> lowered, labels |-> Front(lowered),
                           tld |-> tldFromLabel(Last(lowered)), fq |-> text.dot]>>
        BY <2>4, ParsedDomain
    <2>6. lowered = <<Lower(labels[1])>>
        <3>1. Lowered(labels) = [i \in {1} |-> Lower(labels[i])]
            BY <2>2 DEF Lowered
        <3>2. \A x : <<x>> = [i \in {1} |-> x]
            OBVIOUS
        <3> QED
            BY <3>1, <3>2
    <2>7. \A x : Front(<<x>>) = <<>> /\ Last(<<x>>) = x
        BY DEF Front, Last
    <2> QED
        BY <2>1, <2>5, <2>6, <2>7, <1>1
<1>5. ASSUME d # Invalid, NEW l \in ToSet(labels), l = Last(labels)
      PROVE  ParseTLD(l) \in {d[2].tld} \cup (IF l.lead = "digit" THEN {Invalid} ELSE {})
    <2>1. /\ validateDomain(labels) /\ \A i \in DOMAIN labels : IsLabel(labels[i])
          /\ d = <<"domain", [hostname |-> lowered, labels |-> Front(lowered),
                              tld |-> tldFromLabel(Last(lowered)), fq |-> text.dot]>>
        BY <1>5, ParsedDomain
    <2>2. Len(labels) \in DOMAIN labels /\ l = labels[Len(labels)]
        BY <1>1, <1>2, <1>5, <2>1, EmptySeq DEF Last, validateDomain
    <2>3. IsLabel(l) /\ validateLabel(l)
        BY <2>1, <2>2 DEF validateDomain
    <2>4. Last(lowered) = Lower(l)
        BY <1>1, <2>2, LoweredLabels DEF Last
    <2>5. d[2].tld = tldFromLabel(Lower(l))
        BY <2>1, <2>4
    <2> QED
        BY <2>3, <2>5 DEF ParseTLD, IsLabel
<1> QED
    BY <1>3, <1>4, <1>5 DEF NamesAgree

(* Every text judged is of the kind the abstraction has.                   *)
LEMMA TextsOnly == NamesSpec => []Text(text)
<1>1. NamesInit => Text(text)
    BY TextsAssumption DEF NamesInit
<1>2. Text(text) /\ [NamesNext]_text => Text(text)'
    BY TextsAssumption DEF NamesNext, Text
<1> QED
    BY <1>1, <1>2, PTL DEF NamesSpec

(* What the grammar makes of a name and what the resolver asks for agree,  *)
(* for any texts: labels of any length, number and kind.                   *)
THEOREM AnyNameAgrees == NamesSpec => []NamesAgree
BY TextsOnly, TextAgrees, PTL
=============================================================================
