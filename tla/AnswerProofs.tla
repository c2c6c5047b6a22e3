---------------------------- MODULE AnswerProofs ----------------------------
(***************************************************************************)
(* Proofs about an answer.  First about the exchange that brings it, for   *)
(* any message ids, questions, timeout and caller's deadline: what is      *)
(* returned answers the query, TCP has a cause, no connection is left open *)
(* and the wait is bounded.  Then about the order its records are put in,  *)
(* for any list of them and any draws: none is lost, preferences ascend,   *)
(* and the weights decide what comes first.  Last about the bodies of its  *)
(* records, for any values of their fields: what was written is what is    *)
(* read, and what is cut short or compressed is refused.                   *)
(***************************************************************************)
EXTENDS Exchange, MCRecords, MCBodies, Lemmas

Phases == {"dial", "write", "read", "done"}

\* The part of the type invariant the proofs need.
Typed ==
    /\ useTCP \in BOOLEAN /\ network \in {"udp", "tcp"} /\ phase \in Phases
    /\ useTCP => network = "tcp"
    /\ conn \in BOOLEAN
    /\ budget \in Nat /\ clock \in Nat /\ deadline \in Nat
    /\ accepted \in [{"udp", "tcp"} -> SUBSET Replies]

\* A reply a round trip has returned is this query's; before the TCP
\* iteration of an exchange that began with UDP, one of them was truncated.
AcceptedInv ==
    /\ \A n \in {"udp", "tcp"} : \A r \in accepted[n] :
          r.response /\ r.id = id /\ r.question = question
    /\ TCPForAReason

\* A returned reply is one of those, complete and with a single question.
ResultInv ==
    phase = "done" /\ result \in Replies =>
        /\ result \in accepted[network]
        /\ ~result.extra
        /\ result.tc => network = "tcp"

\* A connection is open exactly between its dial and its round trip's end.
ConnInv == conn <=> phase \in {"write", "read"}

\* The clock stops at the deadline, which leaves each network one timeout.
Limit == IF useTCP \/ network = "udp" THEN Timeout ELSE 2 * Timeout

TimeInv == clock <= deadline /\ deadline <= budget /\ deadline <= Limit

-----------------------------------------------------------------------------
(* An error record is never taken for a reply.                             *)
LEMMA NoError == \A e \in Errors \cup {"none"} : [err |-> e] \notin Replies
BY DEF Replies

(* What Earlier returns for two numbers.                                   *)
LEMMA EarlierFacts ==
    ASSUME NEW a \in Nat, NEW b \in Nat
    PROVE  Earlier(a, b) \in Nat /\ Earlier(a, b) <= a /\ Earlier(a, b) <= b
           /\ (Earlier(a, b) = a \/ Earlier(a, b) = b)
BY DEF Earlier

IInv == Typed /\ AcceptedInv /\ ResultInv /\ ConnInv

(* The initial states satisfy the invariant and the time bound.            *)
LEMMA InitInv == Init => IInv /\ TimeInv
<1> USE ExchangeAssumption DEF ExchangeAssumption
<1> SUFFICES ASSUME Init PROVE IInv /\ TimeInv
    OBVIOUS
<1>1. budget \in Nat /\ deadline = Earlier(Timeout, budget)
    BY DEF Init
<1>2. /\ deadline \in Nat /\ deadline <= Timeout /\ deadline <= budget /\ 0 <= deadline
    BY <1>1, EarlierFacts
<1>3. Typed
    BY <1>1, <1>2 DEF Init, Typed, Phases
<1>4. AcceptedInv /\ ResultInv /\ ConnInv
    BY DEF Init, AcceptedInv, TCPForAReason, ResultInv, ConnInv
<1>5. TimeInv
    BY <1>1, <1>2 DEF Init, TimeInv, Limit
<1> QED
    BY <1>3, <1>4, <1>5 DEF IInv

\* The end of an exchange by an error: no reply is returned, nothing is open.
LEMMA FailInv ==
    ASSUME IInv, NEW e \in Errors \cup {"none"}, Fail(e), ~conn',
           UNCHANGED <<query, network, clock, deadline, accepted>>
    PROVE  IInv'
<1>1. phase' = "done" /\ result' \notin Replies /\ conn' = FALSE
    BY NoError DEF Fail, Return, IInv, Typed
<1>2. Typed' /\ AcceptedInv'
    BY <1>1 DEF query, IInv, Typed, Phases, AcceptedInv, TCPForAReason
<1>3. ResultInv' /\ ConnInv'
    BY <1>1 DEF ResultInv, ConnInv
<1> QED
    BY <1>2, <1>3 DEF IInv

(* Every step keeps the invariant.                                         *)
LEMMA StepInv == IInv /\ [Next]_vars => IInv'
<1> USE ExchangeAssumption DEF ExchangeAssumption
<1> SUFFICES ASSUME IInv, [Next]_vars PROVE IInv'
    OBVIOUS
<1>1. CASE Dial
    BY <1>1 DEF Dial, query, IInv, Typed, Phases, AcceptedInv, TCPForAReason, ResultInv, ConnInv
<1>2. CASE DialFails
  <2>1. ~conn' /\ Fail("dial") /\ UNCHANGED <<query, network, clock, deadline, accepted>>
      BY <1>2 DEF DialFails, IInv, ConnInv
  <2> QED
      BY <2>1, FailInv DEF Errors
<1>0. CASE RequestFails
  <2>1. ~conn' /\ Fail("marshal") /\ UNCHANGED <<query, network, clock, deadline, accepted>>
      BY <1>0 DEF RequestFails, IInv, ConnInv
  <2> QED
      BY <2>1, FailInv DEF Errors
<1>3. CASE Write
    BY <1>3 DEF Write, query, IInv, Typed, Phases, AcceptedInv, TCPForAReason, ResultInv, ConnInv
<1>4. CASE WriteFails
    BY <1>4, FailInv DEF WriteFails, Errors
<1>5. CASE ReadFails
    BY <1>5, FailInv DEF ReadFails, Errors
<1>6. CASE ReadTimeout
    BY <1>6, FailInv DEF ReadTimeout, Errors
<1>7. ASSUME NEW r \in Replies, IgnoreUDP(r) PROVE IInv'
    BY <1>7 DEF IgnoreUDP, vars, query, IInv, Typed, AcceptedInv, TCPForAReason, ResultInv, ConnInv
<1>8. ASSUME NEW r \in Replies, RejectTCP(r) PROVE IInv'
  <2>1. PICK e \in Errors : Fail(e)
      BY <1>8 DEF RejectTCP, Errors
  <2>2. ~conn' /\ UNCHANGED <<query, network, clock, deadline, accepted>>
      BY <1>8 DEF RejectTCP
  <2> QED
      BY <2>1, <2>2, FailInv
<1>9. ASSUME NEW r \in Replies, Accept(r) PROVE IInv'
  <2>1. /\ r.response /\ r.id = id /\ r.question = question
        /\ conn' = FALSE /\ UNCHANGED <<query, ctx, clock>>
        /\ accepted' = [accepted EXCEPT ![network] = @ \cup {r}]
      BY <1>9 DEF Accept, Matches
  <2>2. /\ accepted' \in [{"udp", "tcp"} -> SUBSET Replies]
        /\ r \in accepted'[network]
        /\ \A n \in {"udp", "tcp"} : \A q \in accepted'[n] : q = r \/ q \in accepted[n]
        /\ \A n \in {"udp", "tcp"} : accepted[n] \subseteq accepted'[n]
      BY <2>1 DEF IInv, Typed
  <2>3. UNCHANGED <<useTCP, id, question, budget>>
      BY <2>1 DEF query
  <2>4. \A n \in {"udp", "tcp"} : \A q \in accepted'[n] :
            q.response /\ q.id = id /\ q.question = question
      BY <2>1, <2>2 DEF IInv, AcceptedInv
  <2>5. CASE ~r.extra /\ r.tc /\ network = "udp"
    <3>1. phase' = "dial" /\ network' = "tcp" /\ deadline' = Earlier(clock + Timeout, budget)
        BY <1>9, <2>5 DEF Accept
    <3>2. deadline' \in Nat
        BY <3>1, EarlierFacts DEF IInv, Typed
    <3>3. Typed'
        BY <2>1, <2>2, <2>3, <3>1, <3>2 DEF IInv, Typed, Phases
    <3>4. TCPForAReason'
        BY <2>1, <2>2, <2>3, <2>5 DEF TCPForAReason
    <3>5. ResultInv' /\ ConnInv'
        BY <2>1, <3>1 DEF ResultInv, ConnInv
    <3> QED
        BY <2>3, <2>4, <3>3, <3>4, <3>5 DEF IInv, AcceptedInv
  <2>6. CASE ~(~r.extra /\ r.tc /\ network = "udp")
    <3>1. /\ UNCHANGED <<network, deadline>>
          /\ IF r.extra THEN Fail("invalid") ELSE Return(r)
        BY <1>9, <2>6 DEF Accept
    <3>2. phase' = "done" /\ (result' \in Replies => result' = r /\ ~r.extra)
        BY <3>1, NoError DEF Fail, Return, Errors
    <3>3. Typed'
        BY <2>1, <2>2, <2>3, <3>1, <3>2 DEF IInv, Typed, Phases
    <3>4. TCPForAReason'
        BY <2>2, <2>3, <3>1 DEF IInv, Typed, AcceptedInv, TCPForAReason
    <3>5. ResultInv'
        BY <2>2, <2>6, <3>1, <3>2 DEF IInv, Typed, ResultInv
    <3>6. ConnInv'
        BY <2>1, <3>2 DEF ConnInv
    <3> QED
        BY <2>3, <2>4, <3>3, <3>4, <3>5, <3>6 DEF IInv, AcceptedInv
  <2> QED
      BY <2>5, <2>6
<1>10. CASE Tick
    BY <1>10 DEF Tick, query, IInv, Typed, Phases, AcceptedInv, TCPForAReason, ResultInv, ConnInv
<1>11. CASE Cancel
    BY <1>11 DEF Cancel, query, IInv, Typed, AcceptedInv, TCPForAReason, ResultInv, ConnInv
<1>12. CASE UNCHANGED vars
    BY <1>12 DEF vars, query, IInv, Typed, AcceptedInv, TCPForAReason, ResultInv, ConnInv
<1> QED
    BY <1>0, <1>1, <1>2, <1>3, <1>4, <1>5, <1>6, <1>7, <1>8, <1>9, <1>10, <1>11, <1>12
       DEF Next, Done

(* Every step keeps the time bound, given the invariant.                   *)
LEMMA StepTime == IInv /\ TimeInv /\ [Next]_vars => TimeInv'
<1> USE ExchangeAssumption DEF ExchangeAssumption
<1> SUFFICES ASSUME IInv, TimeInv, [Next]_vars PROVE TimeInv'
    OBVIOUS
<1>1. /\ clock \in Nat /\ deadline \in Nat /\ budget \in Nat
      /\ network \in {"udp", "tcp"} /\ (useTCP => network = "tcp")
    BY DEF IInv, Typed
<1>2. CASE UNCHANGED <<query, network, clock, deadline>>
    BY <1>2 DEF query, TimeInv, Limit
<1>3. CASE Tick
    BY <1>1, <1>3 DEF Tick, query, TimeInv, Limit
<1>4. ASSUME NEW r \in Replies, Accept(r), ~UNCHANGED <<network, deadline>> PROVE TimeInv'
  <2>1. /\ network = "udp" /\ network' = "tcp" /\ clock < deadline
        /\ deadline' = Earlier(clock + Timeout, budget) /\ UNCHANGED <<query, clock>>
      BY <1>4 DEF Accept
  <2>2. ~useTCP /\ UNCHANGED <<useTCP, budget>> /\ deadline <= Timeout
      BY <1>1, <2>1 DEF query, TimeInv, Limit
  <2>3. deadline' <= clock + Timeout /\ deadline' <= budget
        /\ (deadline' = clock + Timeout \/ deadline' = budget) /\ deadline' \in Nat
      BY <1>1, <2>1, EarlierFacts
  <2>4. clock <= deadline' /\ deadline' <= 2 * Timeout
      BY <1>1, <2>1, <2>2, <2>3 DEF TimeInv
  <2> QED
      BY <2>1, <2>2, <2>3, <2>4 DEF TimeInv, Limit
<1>5. ASSUME NEW r \in Replies, Accept(r), UNCHANGED <<network, deadline>> PROVE TimeInv'
    BY <1>2, <1>5 DEF Accept
<1> QED
    BY <1>2, <1>3, <1>4, <1>5
       DEF Next, RequestFails, Dial, DialFails, Write, WriteFails, ReadFails, ReadTimeout, IgnoreUDP,
           RejectTCP, Cancel, Done, vars

-----------------------------------------------------------------------------
(* exchange returns only what checkResponse let through on the network it  *)
(* ended on, and never a truncated UDP reply, for any stream of messages.  *)
THEOREM AnswersOnly == Spec => []ReplyIsAnswer
<1>1. IInv => ReplyIsAnswer
    BY DEF IInv, Typed, AcceptedInv, ResultInv, ReplyIsAnswer
<1> QED
    BY <1>1, InitInv, StepInv, PTL DEF Spec

(* The switch to TCP has a cause that is this query's own (exchange).      *)
THEOREM TCPHasCause == Spec => []TCPForAReason
<1>1. IInv => TCPForAReason
    BY DEF IInv, AcceptedInv
<1> QED
    BY <1>1, InitInv, StepInv, PTL DEF Spec

(* No path out of exchange, or on to its second network, leaves a          *)
(* connection open.                                                        *)
THEOREM NoLeak == Spec => []ConnectionClosed
<1>1. IInv => ConnectionClosed
    BY DEF IInv, ConnInv, ConnectionClosed
<1> QED
    BY <1>1, InitInv, StepInv, PTL DEF Spec

(* The wait is bounded by one timeout per network and by the caller's      *)
(* deadline, whatever arrives: no message extends it.                      *)
THEOREM BoundedWait == Spec => []WaitBounded
<1>1. IInv /\ TimeInv => WaitBounded
    BY ExchangeAssumption DEF ExchangeAssumption, IInv, Typed, TimeInv, Limit, WaitBounded
<1>2. Init => IInv /\ TimeInv
    BY InitInv
<1>3. IInv /\ TimeInv /\ [Next]_vars => (IInv /\ TimeInv)'
    BY StepInv, StepTime
<1> QED
    BY <1>1, <1>2, <1>3, PTL DEF Spec

-----------------------------------------------------------------------------
(* What one insertion yields: the records it had and the new one.          *)
LEMMA InsertType ==
    ASSUME NEW S, NEW sorted \in Seq(S), NEW r \in S, NEW after
    PROVE  /\ Insert(sorted, r, after) \in Seq(S)
           /\ ToSet(Insert(sorted, r, after)) = ToSet(sorted) \cup {r}
<1> DEFINE K == ToSet(sorted) \ after[r]
           L == after[r]
           before == Only(sorted, K)
           behind == Only(sorted, L)
<1> HIDE DEF K, L
<1>1. before \in Seq(S) /\ behind \in Seq(S)
    BY OnlyType
<1>2. Insert(sorted, r, after) = Append(before, r) \o behind
    BY DEF Insert, K, L
<1>3. ToSet(before) \cup ToSet(behind) = ToSet(sorted)
    <2>1. ToSet(before) = ToSet(sorted) \cap K /\ ToSet(behind) = ToSet(sorted) \cap L
        BY OnlySet
    <2> QED
        BY <2>1 DEF K, L
<1> HIDE DEF before, behind
<1>4. Append(before, r) \in Seq(S) /\ ToSet(Append(before, r)) = ToSet(before) \cup {r}
    BY <1>1, AppendProperties, ToSetOfAppend
<1> DEFINE upto == Append(before, r)
<1> HIDE DEF upto
<1>5. upto \in Seq(S)
    BY <1>4 DEF upto
<1>6. upto \o behind \in Seq(S)
    BY <1>1, <1>5, ConcatProperties
<1>7. ToSet(upto \o behind) = ToSet(upto) \cup ToSet(behind)
    BY <1>1, <1>5, ToSetOfConcat
<1> QED
    BY <1>2, <1>3, <1>4, <1>6, <1>7 DEF upto

\* F follows SortFunc along the slice.
Inserting(F, out, after) ==
    /\ F[0] = <<>> /\ F[Len(out)] = SortFunc(out, after)
    /\ \A n \in 1..Len(out) : F[n] = Insert(F[n - 1], out[n], after)

(* SortFunc inserts record by record.                                      *)
LEMMA InsertSteps ==
    ASSUME NEW S, NEW out \in Seq(S), NEW after
    PROVE  \E F \in [0..Len(out) -> Seq(S)] : Inserting(F, out, after)
<1> DEFINE N == Len(out)
           V == Seq(S)
           base == <<>>
           Put(v, n) == Insert(v, out[n], after)
           step == [p \in V \X (1..N) |-> Put(p[1], p[2])]
           IsFold(f) == f = [T \in SUBSET (1..N) |->
               IF T = {} THEN base ELSE Put(f[T \ {Max(T)}], Max(T))]
           g == CHOOSE f : IsFold(f)
<1>1. N \in Nat /\ DOMAIN out = 1..N /\ \A n \in 1..N : out[n] \in S
    BY LenProperties
<1>2. base \in V /\ step \in [V \X (1..N) -> V]
    <2>1. \A v \in V, r \in S : Insert(v, r, after) \in V
        BY InsertType
    <2>2. \A v \in V, n \in 1..N : Put(v, n) \in V
        BY <1>1, <2>1
    <2> HIDE DEF Put
    <2> QED
        BY <2>2
<1>3. IsFold(g)
    <2>1. PICK f \in [SUBSET (1..N) -> V] : Table(f, N, base, step)
        <3> HIDE DEF step, N, V, base
        <3> QED
            BY <1>1, <1>2, FoldExists
    <2>2. ASSUME NEW T \in SUBSET (1..N), T # {}
          PROVE  step[<<f[T \ {Max(T)}], Max(T)>>] = Put(f[T \ {Max(T)}], Max(T))
        <3>1. Max(T) \in T
            BY <1>1, <2>2, MaxIsMember
        <3> HIDE DEF Put, V, N
        <3> QED
            BY <2>1, <3>1
    <2>3. IsFold(f)
        <3> HIDE DEF Put, V, N, base, step
        <3> QED
            BY <2>1, <2>2 DEF Table
    <2> HIDE DEF IsFold
    <2> QED
        BY <2>3
<1>4. SortFunc(out, after) = g[1..N]
    BY <1>1, Zenon DEF SortFunc, FoldLeft, MapThenFoldSet
<1>5. g[{}] = base
    <2> HIDE DEF Put, base, g
    <2> QED
        BY <1>3
<1>6. ASSUME NEW n \in 1..N PROVE g[1..n] = Put(g[1..(n - 1)], n)
    <2>1. 1..n \in SUBSET (1..N) /\ 1..n # {} /\ Max(1..n) = n /\ (1..n) \ {n} = 1..(n - 1)
        BY <1>1, MaxOfRange
    <2> HIDE DEF g, Put, N
    <2> QED
        BY <1>3, <2>1
<1>7. ASSUME NEW n \in 1..N, NEW a \in V PROVE step[<<a, n>>] = Put(a, n)
    <2> HIDE DEF Put, V, N
    <2> QED
        OBVIOUS
<1> HIDE DEF g, Put, N, step, V, base
<1>8. PICK F \in [0..N -> V] : F[N] = g[1..N] /\ Path(F, N, base, step)
    <2>1. \A n \in 1..N : g[1..(n - 1)] \in V => g[1..n] = step[<<g[1..(n - 1)], n>>]
        BY <1>6, <1>7
    <2>2. N \in Nat /\ base \in V /\ step \in [V \X (1..N) -> V] /\ g[{}] = base
        BY <1>1, <1>2, <1>5
    <2> QED
        BY <2>1, <2>2, FoldAlong, ZenonT(60)
<1>9. \A n \in 1..N : F[n] = Put(F[n - 1], n)
    <2> SUFFICES ASSUME NEW n \in 1..N PROVE F[n] = Put(F[n - 1], n)
        OBVIOUS
    <2>1. n - 1 \in 0..N
        BY <1>1
    <2>2. F[n - 1] \in V
        BY <2>1
    <2> QED
        BY <2>2, <1>7, <1>8 DEF Path
<1> QED
    BY <1>4, <1>8, <1>9 DEF Inserting, Path, Put, N, V, base

\* after is a strict order on T.
Strict(after, T) ==
    \A a, b, c \in T : /\ b \in after[a] => a \notin after[b]
                       /\ b \in after[a] /\ c \in after[b] => c \in after[a]

\* What may stand before what: another, and not one that comes after it.
May(after, T) == {p \in T \X T : p[1] # p[2] /\ p[1] \notin after[p[2]]}

(* An insertion keeps the order.                                           *)
LEMMA InsertOrdered ==
    ASSUME NEW T, NEW after, Strict(after, T), NEW sorted \in Seq(T), NEW r \in T,
           Ordered(sorted, May(after, T)), r \notin ToSet(sorted)
    PROVE  Ordered(Insert(sorted, r, after), May(after, T))
<1> DEFINE K == ToSet(sorted) \ after[r]
           L == after[r]
           R == May(after, T)
           before == Only(sorted, K)
           behind == Only(sorted, L)
<1>1. /\ before \in Seq(T) /\ behind \in Seq(T) /\ Append(before, r) \in Seq(T)
      /\ ToSet(before) = ToSet(sorted) \cap K /\ ToSet(behind) = ToSet(sorted) \cap L
      /\ ToSet(sorted) \subseteq T
    <2>1. before \in Seq(T) /\ behind \in Seq(T)
        BY OnlyType
    <2>2. ToSet(before) = ToSet(sorted) \cap K /\ ToSet(behind) = ToSet(sorted) \cap L
        BY OnlySet
    <2>3. ToSet(sorted) \subseteq T
        BY LenProperties DEF ToSet
    <2> HIDE DEF before, behind
    <2> QED
        BY <2>1, <2>2, <2>3, AppendProperties
<1>2. Insert(sorted, r, after) = Append(before, r) \o behind
    BY DEF Insert
<1>3. Ordered(before, R) /\ Ordered(behind, R)
    <2> HIDE DEF K, L, R
    <2> QED
        BY OrderedOnly DEF R
<1> HIDE DEF before, behind
<1>4. \A x \in ToSet(before) : <<x, r>> \in R
    BY <1>1 DEF May
<1>5. ASSUME NEW x \in ToSet(before), NEW y \in ToSet(behind) PROVE <<x, y>> \in R
    BY <1>1 DEF May, Strict
<1>6. ASSUME NEW y \in ToSet(behind) PROVE <<r, y>> \in R
    BY <1>1 DEF May, Strict
<1> HIDE DEF R
<1>7. Ordered(Append(before, r), R)
    BY <1>1, <1>3, <1>4, OrderedAppend
<1>8. ToSet(Append(before, r)) = ToSet(before) \cup {r}
    BY <1>1, ToSetOfAppend
<1>9. \A x \in ToSet(Append(before, r)), y \in ToSet(behind) : <<x, y>> \in R
    BY <1>5, <1>6, <1>8
<1>10. Ordered(Append(before, r) \o behind, R)
    BY <1>1, <1>3, <1>7, <1>9, OrderedConcat
<1> QED
    BY <1>2, <1>10 DEF R

(* The sort returns the records it was given, ordered.                     *)
LEMMA SortFuncSorts ==
    ASSUME NEW T, NEW after, Strict(after, T), NEW out \in Seq(T), Distinct(out)
    PROVE  /\ SortFunc(out, after) \in Seq(T) /\ ToSet(SortFunc(out, after)) = ToSet(out)
           /\ Ordered(SortFunc(out, after), May(after, T))
<1> DEFINE N == Len(out)
           R == May(after, T)
<1>1. N \in Nat /\ DOMAIN out = 1..N /\ \A n \in 1..N : out[n] \in T
    BY LenProperties
<1>2. PICK F \in [0..N -> Seq(T)] : Inserting(F, out, after)
    BY InsertSteps
<1> DEFINE Good(n) == ToSet(F[n]) = {out[k] : k \in 1..n} /\ Ordered(F[n], R)
           G == {n \in 0..N : Good(n)}
<1>3. 0 \in G
    <2>1. F[0] = <<>> /\ ToSet(<<>>) = {} /\ Ordered(<<>>, R)
        BY <1>2 DEF Inserting, ToSet, Ordered
    <2> QED
        BY <1>1, <2>1
<1>4. ASSUME NEW n \in 1..N, n - 1 \in G PROVE n \in G
    <2>1. F[n - 1] \in Seq(T) /\ Good(n - 1)
        BY <1>1, <1>4
    <2>2. F[n] = Insert(F[n - 1], out[n], after) /\ out[n] \in T
        BY <1>1, <1>2 DEF Inserting
    <2>3. out[n] \notin ToSet(F[n - 1])
        <3>1. \A k \in 1..(n - 1) : k \in 1..N /\ k # n
            BY <1>1
        <3>2. \A k \in 1..(n - 1) : out[k] # out[n]
            BY <1>1, <3>1 DEF Distinct
        <3> QED
            BY <2>1, <3>2
    <2>4. Ordered(F[n], R)
        <3> HIDE DEF N, G
        <3> QED
            BY <2>1, <2>2, <2>3, InsertOrdered
    <2>5. ToSet(F[n]) = ToSet(F[n - 1]) \cup {out[n]}
        BY <2>1, <2>2, InsertType
    <2>6. {out[k] : k \in 1..n} = {out[k] : k \in 1..(n - 1)} \cup {out[n]}
        <3>1. 1..n = 1..(n - 1) \cup {n}
            BY <1>1
        <3> QED
            BY <3>1
    <2> QED
        BY <2>1, <2>4, <2>5, <2>6
<1> HIDE DEF G, Good, N, R
<1>5. \A n \in 0..N : n \in G
    <2>1. N \in Nat /\ 0 \in G /\ \A n \in 1..N : n - 1 \in G => n \in G
        BY <1>1, <1>3, <1>4
    <2> QED
        BY <2>1, AlongInduction, Zenon
<1>6. N \in G /\ F[N] = SortFunc(out, after) /\ F[N] \in Seq(T)
    BY <1>1, <1>2, <1>5 DEF Inserting, N
<1>7. ToSet(out) = {out[k] : k \in 1..N}
    BY <1>1 DEF ToSet
<1> QED
    BY <1>6, <1>7 DEF G, Good, R

(* A swap keeps the elements, and their number.                            *)
LEMMA SwapFacts ==
    ASSUME NEW S, NEW s \in Seq(S), NEW i \in 1..Len(s), NEW j \in 1..Len(s)
    PROVE  /\ Swap(s, i, j) \in Seq(S) /\ Len(Swap(s, i, j)) = Len(s)
           /\ ToSet(Swap(s, i, j)) = ToSet(s)
           /\ \A k \in 1..Len(s) : Swap(s, i, j)[k] =
                  IF k = i THEN s[j] ELSE IF k = j THEN s[i] ELSE s[k]
           /\ Distinct(s) => Distinct(Swap(s, i, j))
<1> DEFINE N == Len(s)
           t == Swap(s, i, j)
<1>1. N \in Nat /\ DOMAIN s = 1..N /\ s \in [1..N -> S]
    BY LenProperties
<1>2. /\ t \in [1..N -> S]
      /\ \A k \in 1..N : t[k] = IF k = i THEN s[j] ELSE IF k = j THEN s[i] ELSE s[k]
    BY <1>1 DEF Swap
<1> HIDE DEF t, N
<1>3. t \in Seq(S) /\ Len(t) = N /\ DOMAIN t = 1..N
    BY <1>1, <1>2, FunctionIsSeq
<1>4. i \in 1..N /\ j \in 1..N
    BY DEF N
<1>5. ToSet(t) \subseteq ToSet(s)
    BY <1>1, <1>2, <1>3, <1>4 DEF ToSet
<1>6. \A k \in 1..N : \E l \in 1..N : s[k] = t[l]
    <2> TAKE k \in 1..N
    <2>1. CASE k = i
        BY <1>2, <1>4, <2>1
    <2>2. CASE k = j
        BY <1>2, <1>4, <2>2
    <2>3. CASE k # i /\ k # j
        BY <1>2, <2>3
    <2> QED
        BY <2>1, <2>2, <2>3
<1>7. ToSet(s) \subseteq ToSet(t)
    <2>1. ToSet(s) = {s[k] : k \in 1..N} /\ ToSet(t) = {t[k] : k \in 1..N}
        BY <1>1, <1>3 DEF ToSet
    <2> QED
        BY <1>6, <2>1
<1>8. ASSUME Distinct(s) PROVE Distinct(t)
    <2> SUFFICES ASSUME NEW k \in 1..N, NEW l \in 1..N, t[k] = t[l] PROVE k = l
        BY <1>3 DEF Distinct
    <2> QED
        BY <1>1, <1>2, <1>4, <1>8 DEF Distinct
<1> QED
    BY <1>2, <1>3, <1>5, <1>7, <1>8 DEF t, N

\* What a shuffle may make of a slice.
Shuffles(out, S) ==
    {t \in Seq(S) : /\ Len(t) = Len(out) /\ ToSet(t) = ToSet(out)
                    /\ Distinct(out) => Distinct(t)}

(* The shuffle only swaps.                                                 *)
LEMMA ShuffledFacts ==
    ASSUME NEW S, NEW out \in Seq(S), NEW draws \in [1..Len(out) -> Nat]
    PROVE  Shuffled(out, draws) \in Shuffles(out, S)
<1> DEFINE N == Len(out)
           V == Shuffles(out, S)
           base == out
           at == [i \in DOMAIN out |-> i]
           Exchange(v, n) == Swap(v, at[n], 1 + randIntn(at[n], draws[at[n]]))
           step == [p \in V \X (1..N) |-> Exchange(p[1], p[2])]
           IsFold(f) == f = [T \in SUBSET (1..N) |->
               IF T = {} THEN base ELSE Exchange(f[T \ {Max(T)}], Max(T))]
           g == CHOOSE f : IsFold(f)
<1>1. /\ N \in Nat /\ DOMAIN out = 1..N /\ DOMAIN at = 1..N /\ Len(at) = N
      /\ \A n \in 1..N : at[n] = n
    <2>1. N \in Nat /\ DOMAIN out = 1..N
        BY LenProperties
    <2>2. at \in [1..N -> Nat] /\ \A n \in 1..N : at[n] = n
        BY <2>1
    <2> HIDE DEF N, at
    <2>3. Len(at) = N /\ DOMAIN at = 1..N
        BY <2>1, <2>2, FunctionIsSeq
    <2> QED
        BY <2>1, <2>2, <2>3
<1>2. base \in V /\ step \in [V \X (1..N) -> V]
    <2>1. base \in V
        BY <1>1 DEF Shuffles
    <2>2. ASSUME NEW v \in V, NEW n \in 1..N PROVE Exchange(v, n) \in V
        <3> DEFINE j == 1 + randIntn(n, draws[n])
        <3>0. at[n] = n /\ n \in 1..N
            BY <1>1
        <3>1. j \in 1..N
            <4>1. n \in Nat \ {0} /\ draws[n] \in Nat
                BY <1>1
            <4>2. draws[n] % n \in 0..(n - 1)
                BY <4>1, ModNext
            <4> QED
                BY <1>1, <4>2 DEF randIntn
        <3> HIDE DEF j, at
        <3>2. v \in Seq(S) /\ Len(v) = N
            BY DEF Shuffles
        <3>3. Swap(v, n, j) \in Shuffles(out, S)
            BY <3>0, <3>1, <3>2, SwapFacts DEF Shuffles
        <3> QED
            BY <3>0, <3>3 DEF j
    <2> HIDE DEF Exchange, V
    <2> QED
        BY <2>1, <2>2
<1>3. IsFold(g)
    <2>1. PICK f \in [SUBSET (1..N) -> V] : Table(f, N, base, step)
        <3> HIDE DEF step, N, V, base
        <3> QED
            BY <1>1, <1>2, FoldExists
    <2>2. ASSUME NEW T \in SUBSET (1..N), T # {}
          PROVE  step[<<f[T \ {Max(T)}], Max(T)>>] = Exchange(f[T \ {Max(T)}], Max(T))
        <3>1. Max(T) \in T
            BY <1>1, <2>2, MaxIsMember
        <3> HIDE DEF Exchange, V, N
        <3> QED
            BY <2>1, <3>1
    <2>3. IsFold(f)
        <3> HIDE DEF Exchange, V, N, base, step
        <3> QED
            BY <2>1, <2>2 DEF Table
    <2> HIDE DEF IsFold
    <2> QED
        BY <2>3
<1>4. Shuffled(out, draws) = g[1..N]
    <2>1. FoldLeft(LAMBDA s, i : Swap(s, i, 1 + randIntn(i, draws[i])), out, at) = g[1..N]
        BY <1>1, Zenon DEF FoldLeft, MapThenFoldSet
    <2> QED
        BY <2>1 DEF Shuffled
<1>5. g[{}] = base
    <2> HIDE DEF Exchange, base, g
    <2> QED
        BY <1>3
<1>6. ASSUME NEW n \in 1..N PROVE g[1..n] = Exchange(g[1..(n - 1)], n)
    <2>1. 1..n \in SUBSET (1..N) /\ 1..n # {} /\ Max(1..n) = n /\ (1..n) \ {n} = 1..(n - 1)
        BY <1>1, MaxOfRange
    <2> HIDE DEF g, Exchange, N
    <2> QED
        BY <1>3, <2>1
<1>7. ASSUME NEW n \in 1..N, NEW a \in V PROVE step[<<a, n>>] = Exchange(a, n)
    <2> HIDE DEF Exchange, V, N
    <2> QED
        OBVIOUS
<1> HIDE DEF g, Exchange, N, step, V, base, at
<1>8. PICK F \in [0..N -> V] : F[N] = g[1..N] /\ Path(F, N, base, step)
    <2>1. \A n \in 1..N : g[1..(n - 1)] \in V => g[1..n] = step[<<g[1..(n - 1)], n>>]
        BY <1>6, <1>7
    <2>2. N \in Nat /\ base \in V /\ step \in [V \X (1..N) -> V] /\ g[{}] = base
        BY <1>1, <1>2, <1>5
    <2> QED
        BY <2>1, <2>2, FoldAlong, ZenonT(60)
<1>9. F[N] \in V
    BY <1>1
<1> QED
    BY <1>4, <1>8, <1>9 DEF V
(* Lists of the same records that repeat nothing are as long.              *)
LEMMA SameLength ==
    ASSUME NEW S, NEW s \in Seq(S), NEW t \in Seq(S),
           Distinct(s), Distinct(t), ToSet(s) = ToSet(t)
    PROVE  Len(s) = Len(t)
BY DistinctCount

(* The sort by preference, of a shuffled list.                             *)
LEMMA ByPrefSorts ==
    ASSUME NEW out \in Seq(Records), NEW s \in Seq(Records), Distinct(s), ToSet(s) = ToSet(out)
    PROVE  LET sorted == SortFunc(s, ByPref(out))
           IN  /\ sorted \in Seq(Records) /\ ToSet(sorted) = ToSet(out) /\ Distinct(sorted)
               /\ \A i, j \in DOMAIN sorted : i < j => sorted[i].pref <= sorted[j].pref
<1> DEFINE T == ToSet(out)
           after == ByPref(out)
           sorted == SortFunc(s, after)
<1>1. /\ T \subseteq Records /\ s \in Seq(T)
      /\ \A r \in Records : r.pref \in Nat
    <2>1. T \subseteq Records
        BY LenProperties DEF ToSet
    <2>2. s \in Seq(T)
        BY SeqOfToSet
    <2> QED
        BY <2>1, <2>2, RecordsAssumption DEF Records
<1>2. \A r \in T : after[r] = {q \in T : q.pref > r.pref}
    BY DEF ByPref
<1>3. Strict(after, T)
    <2> SUFFICES ASSUME NEW a \in T, NEW b \in T, NEW c \in T
                 PROVE  /\ b \in after[a] => a \notin after[b]
                        /\ b \in after[a] /\ c \in after[b] => c \in after[a]
        BY DEF Strict
    <2>1. a.pref \in Nat /\ b.pref \in Nat /\ c.pref \in Nat
        BY <1>1
    <2> HIDE DEF after, T
    <2> QED
        BY <1>2, <2>1
<1> HIDE DEF after, T
<1>4. sorted \in Seq(T) /\ ToSet(sorted) = T /\ Ordered(sorted, May(after, T))
    BY <1>1, <1>3, SortFuncSorts DEF T
<1> HIDE DEF sorted
<1>5. Distinct(sorted)
    BY <1>4, OrderedDistinct DEF May
<1>6. sorted \in Seq(Records)
    BY <1>1, <1>4
<1>7. ASSUME NEW i \in DOMAIN sorted, NEW j \in DOMAIN sorted, i < j
      PROVE  sorted[i].pref <= sorted[j].pref
    <2>1. <<sorted[i], sorted[j]>> \in May(after, T)
        BY <1>4, <1>7 DEF Ordered
    <2>2. sorted[i] \in T /\ sorted[j] \in T /\ sorted[i] \notin after[sorted[j]]
        BY <2>1 DEF May
    <2>3. sorted[i].pref \in Nat /\ sorted[j].pref \in Nat
        BY <1>1, <2>2
    <2> QED
        BY <1>2, <2>2, <2>3
<1> QED
    BY <1>4, <1>5, <1>6, <1>7 DEF sorted, after, T

(* MX records come by preference, whatever is drawn.                       *)
LEMMA MXInOrder ==
    ASSUME list \in Seq(Records), Distinct(list), NEW draws \in [1..Len(list) -> Nat]
    PROVE  InOrder(sortMXRecords(list, draws))
<1> DEFINE s == Shuffled(list, draws)
           sorted == SortFunc(s, ByPref(list))
<1>1. s \in Seq(Records) /\ ToSet(s) = ToSet(list) /\ Distinct(s)
    BY ShuffledFacts DEF Shuffles
<1> HIDE DEF s
<1>2. /\ sorted \in Seq(Records) /\ ToSet(sorted) = ToSet(list) /\ Distinct(sorted)
      /\ \A i, j \in DOMAIN sorted : i < j => sorted[i].pref <= sorted[j].pref
    BY <1>1, ByPrefSorts
<1> HIDE DEF sorted
<1>3. Len(sorted) = Len(list)
    BY <1>2, SameLength
<1>4. sortMXRecords(list, draws) = sorted
    BY DEF sortMXRecords, sorted, s
<1> QED
    BY <1>2, <1>3, <1>4 DEF InOrder
-----------------------------------------------------------------------------
(* The weights of a list of records: a natural number, nothing for no      *)
(* record, and that of a record more.                                      *)
LEMMA WeightsOfNone == Weights(<<>>) = 0
<1>1. [i \in DOMAIN <<>> |-> <<>>[i].weight] = <<>>
    OBVIOUS
<1> QED
    BY <1>1, TotalOfNone DEF Weights

(* What a sequence one longer is made of.                                  *)
LEMMA AppendByElement ==
    ASSUME NEW S, NEW w \in Seq(S), NEW u \in Seq(S), Len(u) = Len(w) + 1,
           \A i \in 1..Len(w) : u[i] = w[i]
    PROVE  u = Append(w, u[Len(w) + 1])
<1>1. Len(w) \in Nat /\ DOMAIN w = 1..Len(w) /\ DOMAIN u = 1..(Len(w) + 1)
    BY LenProperties
<1>2. u # <<>>
    BY <1>1, EmptySeq
<1>3. PICK v \in Seq(S), x \in S : u = Append(v, x)
    BY <1>2, SequenceEmptyOrAppend
<1>4. /\ Len(v) = Len(w) /\ u[Len(w) + 1] = x /\ DOMAIN v = 1..Len(w)
      /\ \A i \in 1..Len(w) : v[i] = w[i]
    BY <1>1, <1>3, AppendProperties, LenProperties
<1>5. v = w
    <2>1. v \in [1..Len(w) -> S] /\ w \in [1..Len(w) -> S]
        BY <1>1, <1>4, LenProperties
    <2> QED
        BY <1>4, <2>1
<1> QED
    BY <1>3, <1>4, <1>5

(* One weight per record.                                                  *)
LEMMA WeightsAreNats ==
    ASSUME NEW s \in Seq(Records)
    PROVE  /\ [i \in DOMAIN s |-> s[i].weight] \in Seq(Nat)
           /\ Len([i \in DOMAIN s |-> s[i].weight]) = Len(s)
           /\ \A i \in 1..Len(s) : s[i].weight \in Nat
<1> DEFINE N == Len(s)
           w == [i \in 1..N |-> s[i].weight]
<1>1. N \in Nat /\ DOMAIN s = 1..N /\ \A i \in 1..N : s[i] \in Records
    BY LenProperties
<1>2. \A r \in Records : r.weight \in Nat
    BY RecordsAssumption DEF Records
<1>3. \A i \in 1..N : s[i].weight \in Nat
    BY <1>1, <1>2
<1>4. w \in [1..N -> Nat]
    BY <1>3
<1> HIDE DEF N, w
<1>5. w \in Seq(Nat) /\ Len(w) = N
    BY <1>1, <1>4, FunctionIsSeq
<1> QED
    BY <1>1, <1>3, <1>5 DEF N, w

(* The sum of weights is a number.                                         *)
LEMMA WeightsType ==
    ASSUME NEW s \in Seq(Records) PROVE Weights(s) \in Nat
BY WeightsAreNats, TotalType DEF Weights

(* One record more.                                                        *)
LEMMA WeightsOfAppend ==
    ASSUME NEW s \in Seq(Records), NEW r \in Records
    PROVE  Weights(Append(s, r)) = Weights(s) + r.weight
<1> DEFINE t == Append(s, r)
           N == Len(s)
           w == [i \in DOMAIN s |-> s[i].weight]
           u == [i \in DOMAIN t |-> t[i].weight]
<1>1. /\ N \in Nat /\ t \in Seq(Records) /\ DOMAIN s = 1..N /\ DOMAIN t = 1..(N + 1)
      /\ t[N + 1] = r /\ \A i \in 1..N : t[i] = s[i]
    BY AppendProperties, LenProperties
<1>2. w \in Seq(Nat) /\ Len(w) = N /\ u \in Seq(Nat) /\ Len(u) = Len(t) /\ r.weight \in Nat
    <2>1. \A q \in Records : q.weight \in Nat
        BY RecordsAssumption DEF Records
    <2> HIDE DEF t, u, w, N
    <2> QED
        BY <1>1, <2>1, WeightsAreNats DEF u, w, N
<1>3. Append(w, r.weight) = u
    <2>1. u[N + 1] = r.weight /\ \A i \in 1..N : u[i] = w[i]
        BY <1>1
    <2> HIDE DEF u, w, t, N
    <2> QED
        BY <1>1, <1>2, <2>1, AppendByElement DEF N
<1> HIDE DEF u, w, t
<1>4. Total(u) = Total(w) + r.weight
    BY <1>2, <1>3, TotalOfAppend
<1> QED
    BY <1>4 DEF u, w, t, Weights

(* A sum of nothing: no record has weight.                                 *)
LEMMA WeightsZero ==
    \A s \in Seq(Records) : Weights(s) = 0 => \A r \in ToSet(s) : r.weight = 0
<1> DEFINE G == {s \in Seq(Records) : Weights(s) = 0 => \A r \in ToSet(s) : r.weight = 0}
<1>0. \A r \in Records : r.weight \in Nat
    BY RecordsAssumption DEF Records
<1>1. <<>> \in G
    BY EmptySeq DEF ToSet
<1>2. ASSUME NEW s \in Seq(Records), NEW r \in Records, s \in G PROVE Append(s, r) \in G
    <2>1. /\ Weights(Append(s, r)) = Weights(s) + r.weight /\ Weights(s) \in Nat
          /\ ToSet(Append(s, r)) = ToSet(s) \cup {r} /\ Append(s, r) \in Seq(Records)
        BY WeightsOfAppend, WeightsType, ToSetOfAppend, AppendProperties
    <2> QED
        BY <1>0, <1>2, <2>1
<1> HIDE DEF G
<1>3. \A s \in Seq(Records) : s \in G
    BY <1>1, <1>2, SeqSetInduction
<1> QED
    BY <1>3 DEF G

\* The running sum.
Running(s, i) == Weights(SubSeq(s, 1, i))

(* It starts with nothing, grows by a record's weight, and ends with the   *)
(* sum.                                                                    *)
LEMMA RunningFacts ==
    ASSUME NEW s \in Seq(Records)
    PROVE  /\ Running(s, 0) = 0 /\ Running(s, Len(s)) = Weights(s)
           /\ \A i \in 0..Len(s) : Running(s, i) \in Nat
           /\ \A i \in 1..Len(s) : Running(s, i) = Running(s, i - 1) + s[i].weight
<1>1. Len(s) \in Nat /\ \A i \in 1..Len(s) : s[i] \in Records
    BY LenProperties
<1>2. Running(s, 0) = 0
    <2>1. SubSeq(s, 1, 0) = <<>>
        BY SubSeqEmpty
    <2> QED
        BY <2>1, WeightsOfNone DEF Running
<1>3. Running(s, Len(s)) = Weights(s)
    BY SubSeqFull DEF Running
<1>4. ASSUME NEW i \in 0..Len(s) PROVE SubSeq(s, 1, i) \in Seq(Records)
    <2>1. \A k \in 1..i : s[k] \in Records
        BY <1>1
    <2> QED
        BY <1>1, <2>1, SubSeqProperties
<1>5. ASSUME NEW i \in 1..Len(s) PROVE Running(s, i) = Running(s, i - 1) + s[i].weight
    <2>1. i - 1 \in 0..Len(s) /\ 1 \in 1..Len(s) /\ i \in 1..Len(s) /\ s[i] \in Records
        BY <1>1
    <2>2. SubSeq(s, 1, i - 1) \in Seq(Records)
        BY <1>4, <2>1
    <2>3. SubSeq(s, 1, i) = SubSeq(s, 1, i - 1) \o <<s[i]>>
        BY <2>1, SubSeqRecursiveSecond
    <2>4. SubSeq(s, 1, i) = Append(SubSeq(s, 1, i - 1), s[i])
        BY <2>1, <2>2, <2>3, AppendIsConcat
    <2> QED
        BY <2>1, <2>2, <2>4, WeightsOfAppend DEF Running
<1> QED
    BY <1>2, <1>3, <1>4, <1>5, WeightsType DEF Running

(* It never falls.                                                         *)
LEMMA RunningGrows ==
    ASSUME NEW s \in Seq(Records), NEW i \in 0..Len(s), NEW j \in i..Len(s)
    PROVE  Running(s, i) <= Running(s, j)
<1> DEFINE N == Len(s) - i
           G == {n \in 0..N : Running(s, i) <= Running(s, i + n)}
<1>1. /\ Len(s) \in Nat /\ N \in Nat
      /\ \A k \in 0..Len(s) : Running(s, k) \in Nat
      /\ \A k \in 1..Len(s) : Running(s, k) = Running(s, k - 1) + s[k].weight /\ s[k].weight \in Nat
    <2>1. Len(s) \in Nat /\ N \in Nat
        BY LenProperties
    <2>2. \A k \in 1..Len(s) : s[k].weight \in Nat
        BY WeightsAreNats
    <2> QED
        BY <2>1, <2>2, RunningFacts
<1>2. 0 \in G
    BY <1>1
<1>3. ASSUME NEW n \in 1..N, n - 1 \in G PROVE n \in G
    <2>1. i + n \in 1..Len(s) /\ i + n \in 0..Len(s) /\ i + (n - 1) \in 0..Len(s) /\ (i + n) - 1 = i + (n - 1)
        BY <1>1
    <2>2. Running(s, i + n) = Running(s, i + (n - 1)) + s[i + n].weight
        BY <1>1, <2>1
    <2>3. Running(s, i) <= Running(s, i + (n - 1))
        BY <1>3
    <2>4. /\ Running(s, i) \in Nat /\ Running(s, i + (n - 1)) \in Nat
          /\ Running(s, i + n) \in Nat /\ s[i + n].weight \in Nat
        BY <1>1, <2>1
    <2>5. Running(s, i) <= Running(s, i + n)
        BY <2>2, <2>3, <2>4
    <2> QED
        BY <1>1, <2>5
<1> HIDE DEF G
<1>4. \A n \in 0..N : n \in G
    <2> HIDE DEF N
    <2>1. N \in Nat /\ 0 \in G /\ \A n \in 1..N : n - 1 \in G => n \in G
        BY <1>1, <1>2, <1>3
    <2> QED
        BY <2>1, AlongInduction, Zenon
<1>5. j - i \in 0..N /\ i + (j - i) = j
    BY <1>1
<1> QED
    BY <1>4, <1>5 DEF G

(* The record a number below the sum brings to the front: the one whose    *)
(* stretch of the running sum the number is in.                            *)
LEMMA ChosenFacts ==
    ASSUME NEW s \in Seq(Records), NEW n \in Nat, n < Weights(s)
    PROVE  /\ Chosen(s, n) \in 1..Len(s) /\ s[Chosen(s, n)].weight > 0
           /\ \A i \in 1..Len(s) : Chosen(s, n) = i <=> Running(s, i) > n /\ Running(s, i - 1) <= n
<1> DEFINE T == {i \in 0..Len(s) : Running(s, i) > n}
           Fits(i) == Running(s, i) > n /\ Running(s, i - 1) <= n
<1>1. /\ Len(s) \in Nat /\ DOMAIN s = 1..Len(s)
      /\ Running(s, 0) = 0 /\ Running(s, Len(s)) = Weights(s)
      /\ \A k \in 0..Len(s) : Running(s, k) \in Nat
      /\ \A k \in 1..Len(s) : Running(s, k) = Running(s, k - 1) + s[k].weight /\ s[k].weight \in Nat
    BY RunningFacts, WeightsAreNats, LenProperties
<1>2. T \in SUBSET Nat /\ Len(s) \in T
    BY <1>1
<1>3. PICK m \in T : \A k \in T : m <= k
    BY <1>2, LeastNatural
<1>4. m \in 1..Len(s) /\ m - 1 \in 0..Len(s) /\ m - 1 \notin T
    BY <1>1, <1>3
<1>5. Fits(m)
    BY <1>1, <1>3, <1>4
<1>6. ASSUME NEW i \in 1..Len(s), NEW j \in 1..Len(s), Fits(i), Fits(j) PROVE i = j
    <2>1. ASSUME NEW a \in 1..Len(s), NEW b \in 1..Len(s), Fits(a), Fits(b), a < b PROVE FALSE
        <3>1. a \in 0..Len(s) /\ b - 1 \in a..Len(s) /\ b - 1 \in 0..Len(s)
            BY <1>1, <2>1
        <3>2. Running(s, a) <= Running(s, b - 1)
            BY <3>1, RunningGrows
        <3>3. Running(s, a) \in Nat /\ Running(s, b - 1) \in Nat
            BY <1>1, <3>1
        <3> QED
            BY <2>1, <3>2, <3>3
    <2> HIDE DEF Fits
    <2> QED
        BY <1>1, <1>6, <2>1
<1>7. Chosen(s, n) = CHOOSE i \in 1..Len(s) : Fits(i)
    BY <1>1 DEF Chosen, Running
<1> HIDE DEF Fits
<1>8. Chosen(s, n) = m
    BY <1>4, <1>5, <1>6, <1>7
<1>9. s[m].weight > 0
    BY <1>1, <1>4, <1>5 DEF Fits
<1>10. \A i \in 1..Len(s) : m = i <=> Fits(i)
    BY <1>4, <1>5, <1>6
<1> QED
    BY <1>4, <1>8, <1>9, <1>10 DEF Fits
-----------------------------------------------------------------------------
(* The records after the first.                                            *)
LEMMA TailFacts ==
    ASSUME NEW S, NEW s \in Seq(S), s # <<>>, Distinct(s)
    PROVE  /\ Tail(s) \in Seq(S) /\ Len(Tail(s)) = Len(s) - 1 /\ Distinct(Tail(s))
           /\ ToSet(Tail(s)) = ToSet(s) \ {s[1]} /\ s[1] \in ToSet(s)
<1> DEFINE t == Tail(s)
           N == Len(s)
<1>1. N \in Nat /\ DOMAIN s = 1..N /\ N # 0
    BY LenProperties, EmptySeq
<1>2. t \in Seq(S) /\ Len(t) = N - 1 /\ \A i \in 1..Len(t) : t[i] = s[i + 1]
    BY HeadTailProperties
<1>3. DOMAIN t = 1..(N - 1)
    BY <1>2, LenProperties
<1> HIDE DEF t, N
<1>4. Distinct(t)
    <2> SUFFICES ASSUME NEW i \in 1..(N - 1), NEW j \in 1..(N - 1), t[i] = t[j] PROVE i = j
        BY <1>3 DEF Distinct
    <2>1. i + 1 \in 1..N /\ j + 1 \in 1..N /\ s[i + 1] = s[j + 1]
        BY <1>1, <1>2
    <2>2. i + 1 = j + 1
        BY <1>1, <2>1 DEF Distinct
    <2> QED
        BY <1>1, <2>2
<1>5. ToSet(s) = {s[i] : i \in 1..N} /\ ToSet(t) = {t[i] : i \in 1..(N - 1)}
    BY <1>1, <1>3 DEF ToSet
<1>6. ASSUME NEW i \in 1..(N - 1) PROVE t[i] \in ToSet(s) \ {s[1]}
    <2>1. i + 1 \in 1..N /\ 1 \in 1..N /\ i + 1 # 1 /\ t[i] = s[i + 1]
        BY <1>1, <1>2
    <2> QED
        BY <1>1, <1>5, <2>1 DEF Distinct
<1>7. ASSUME NEW i \in 1..N, s[i] # s[1] PROVE s[i] \in ToSet(t)
    <2>1. i - 1 \in 1..(N - 1) /\ (i - 1) + 1 = i
        BY <1>1, <1>7
    <2>2. t[i - 1] = s[i]
        BY <1>2, <2>1
    <2> QED
        BY <1>5, <2>1, <2>2
<1>8. s[1] \in ToSet(s)
    BY <1>1, <1>5
<1> QED
    BY <1>2, <1>4, <1>5, <1>6, <1>7, <1>8 DEF t, N

\* The states of the loop over a run: what has been placed has weight.
Splits(out) ==
    {acc \in [placed : Seq(Records), rest : Seq(Records)] :
        /\ Distinct(acc.placed) /\ Distinct(acc.rest)
        /\ ToSet(acc.placed) \cap ToSet(acc.rest) = {}
        /\ ToSet(acc.placed) \cup ToSet(acc.rest) = ToSet(out)
        /\ \A r \in ToSet(acc.placed) : r.weight > 0}

\* The loop ends: no weight or a single record is left.
Over(acc) == Weights(acc.rest) = 0 \/ Len(acc.rest) <= 1

\* The record a draw brings to the front.
Front1(s, draw) == s[Chosen(s, randIntn(Weights(s), draw))]

(* A round places the chosen record, and nothing once the loop is over.    *)
LEMMA RoundFacts ==
    ASSUME NEW out, NEW acc \in Splits(out), NEW draw \in Nat
    PROVE  /\ Round(acc, draw) \in Splits(out)
           /\ Over(acc) => Round(acc, draw) = acc
           /\ ~Over(acc) => /\ Len(Round(acc, draw).rest) = Len(acc.rest) - 1
                            /\ Round(acc, draw).placed = Append(acc.placed, Front1(acc.rest, draw))
<1> DEFINE rest == acc.rest
           placed == acc.placed
           sum == Weights(rest)
           i == Chosen(rest, randIntn(sum, draw))
           next == [placed |-> Append(placed, rest[i]), rest |-> Tail(Swap(rest, 1, i))]
<1>1. /\ placed \in Seq(Records) /\ rest \in Seq(Records) /\ Distinct(placed) /\ Distinct(rest)
      /\ ToSet(placed) \cap ToSet(rest) = {}
      /\ ToSet(placed) \cup ToSet(rest) = ToSet(out)
      /\ \A r \in ToSet(placed) : r.weight > 0
    BY DEF Splits
<1>2. sum \in Nat /\ Len(rest) \in Nat
    BY <1>1, WeightsType, LenProperties
<1>3. Round(acc, draw) = IF Over(acc) THEN acc ELSE next
    BY DEF Round, Over
<1>4. ASSUME ~Over(acc)
      PROVE  /\ next \in Splits(out) /\ Len(next.rest) = Len(rest) - 1
             /\ next.placed = Append(placed, rest[i])
    <2>1. sum \in Nat \ {0} /\ Len(rest) > 1
        BY <1>2, <1>4 DEF Over
    <2>2. randIntn(sum, draw) \in Nat /\ randIntn(sum, draw) < sum
        <3>1. draw % sum \in 0..(sum - 1)
            <4> HIDE DEF sum
            <4> QED
                BY <2>1, ModNext
        <3> QED
            BY <2>1, <3>1 DEF randIntn
    <2> HIDE DEF rest, placed
    <2>3. i \in 1..Len(rest) /\ rest[i].weight > 0
        BY <1>1, <2>2, ChosenFacts
    <2> HIDE DEF sum, i
    <2> DEFINE s == Swap(rest, 1, i)
    <2>4. 1 \in 1..Len(rest)
        BY <1>2, <2>1
    <2>5. /\ s \in Seq(Records) /\ Len(s) = Len(rest) /\ ToSet(s) = ToSet(rest)
          /\ Distinct(s) /\ s[1] = rest[i]
        BY <1>1, <2>3, <2>4, SwapFacts
    <2> HIDE DEF s
    <2>6. s # <<>>
        BY <2>1, <2>5, EmptySeq
    <2>7. /\ Tail(s) \in Seq(Records) /\ Len(Tail(s)) = Len(s) - 1 /\ Distinct(Tail(s))
          /\ ToSet(Tail(s)) = ToSet(rest) \ {rest[i]} /\ rest[i] \in ToSet(rest)
        BY <2>5, <2>6, TailFacts
    <2>8. rest[i] \in Records
        BY <1>1, <2>3, LenProperties
    <2> DEFINE p == Append(placed, rest[i])
    <2>9. p \in Seq(Records) /\ ToSet(p) = ToSet(placed) \cup {rest[i]} /\ Distinct(p)
        <3>1. rest[i] \notin ToSet(placed)
            BY <1>1, <2>7
        <3> QED
            BY <1>1, <2>8, <3>1, AppendProperties, ToSetOfAppend, DistinctAppend
    <2> HIDE DEF p
    <2> DEFINE n == [placed |-> p, rest |-> Tail(s)]
    <2>10. n \in Splits(out)
        <3>1. n.placed = p /\ n.rest = Tail(s) /\ n \in [placed : Seq(Records), rest : Seq(Records)]
            BY <2>7, <2>9
        <3> HIDE DEF n
        <3>2. ToSet(p) \cap ToSet(Tail(s)) = {} /\ ToSet(p) \cup ToSet(Tail(s)) = ToSet(out)
            BY <1>1, <2>7, <2>9
        <3>3. \A r \in ToSet(p) : r.weight > 0
            BY <1>1, <2>3, <2>9
        <3> QED
            BY <2>7, <2>9, <3>1, <3>2, <3>3 DEF Splits
    <2>11. next = n
        BY DEF p, s
    <2> QED
        BY <2>5, <2>7, <2>10, <2>11 DEF p
<1>5. Over(acc) \/ Front1(rest, draw) = rest[i]
    BY DEF Front1
<1> HIDE DEF next
<1> QED
    BY <1>3, <1>4, <1>5

\* F follows the loop along the draws.
Rounds(F, out, draws) ==
    /\ F[0] = [placed |-> <<>>, rest |-> out]
    /\ F[Len(draws)] = FoldLeft(Round, [placed |-> <<>>, rest |-> out], draws)
    /\ \A n \in 1..Len(draws) : F[n] = Round(F[n - 1], draws[n])

(* The weighted shuffle goes round by round.                               *)
LEMMA RoundSteps ==
    ASSUME NEW out \in Seq(Records), Distinct(out), NEW draws \in Seq(Nat)
    PROVE  \E F \in [0..Len(draws) -> Splits(out)] : Rounds(F, out, draws)
<1> DEFINE N == Len(draws)
           V == Splits(out)
           base == [placed |-> <<>>, rest |-> out]
           Go(v, n) == Round(v, draws[n])
           step == [p \in V \X (1..N) |-> Go(p[1], p[2])]
           IsFold(f) == f = [T \in SUBSET (1..N) |->
               IF T = {} THEN base ELSE Go(f[T \ {Max(T)}], Max(T))]
           g == CHOOSE f : IsFold(f)
<1>1. N \in Nat /\ DOMAIN draws = 1..N /\ \A n \in 1..N : draws[n] \in Nat
    BY LenProperties
<1>2. base \in V /\ step \in [V \X (1..N) -> V]
    <2>1. base \in V
        BY EmptySeq DEF Splits, Distinct, ToSet
    <2>2. \A v \in V, n \in 1..N : Go(v, n) \in V
        BY <1>1, RoundFacts
    <2> HIDE DEF Go, V, base
    <2> QED
        BY <2>1, <2>2
<1>3. IsFold(g)
    <2>1. PICK f \in [SUBSET (1..N) -> V] : Table(f, N, base, step)
        <3> HIDE DEF step, N, V, base
        <3> QED
            BY <1>1, <1>2, FoldExists
    <2>2. ASSUME NEW T \in SUBSET (1..N), T # {}
          PROVE  step[<<f[T \ {Max(T)}], Max(T)>>] = Go(f[T \ {Max(T)}], Max(T))
        <3>1. Max(T) \in T
            BY <1>1, <2>2, MaxIsMember
        <3> HIDE DEF Go, V, N
        <3> QED
            BY <2>1, <3>1
    <2>3. IsFold(f)
        <3> HIDE DEF Go, V, N, base, step
        <3> QED
            BY <2>1, <2>2 DEF Table
    <2> HIDE DEF IsFold
    <2> QED
        BY <2>3
<1>4. FoldLeft(Round, [placed |-> <<>>, rest |-> out], draws) = g[1..N]
    BY <1>1, Zenon DEF FoldLeft, MapThenFoldSet
<1>5. g[{}] = base
    <2> HIDE DEF Go, base, g
    <2> QED
        BY <1>3
<1>6. ASSUME NEW n \in 1..N PROVE g[1..n] = Go(g[1..(n - 1)], n)
    <2>1. 1..n \in SUBSET (1..N) /\ 1..n # {} /\ Max(1..n) = n /\ (1..n) \ {n} = 1..(n - 1)
        BY <1>1, MaxOfRange
    <2> HIDE DEF g, Go, N
    <2> QED
        BY <1>3, <2>1
<1>7. ASSUME NEW n \in 1..N, NEW a \in V PROVE step[<<a, n>>] = Go(a, n)
    <2> HIDE DEF Go, V, N
    <2> QED
        OBVIOUS
<1> HIDE DEF g, Go, N, step, V, base
<1>8. PICK F \in [0..N -> V] : F[N] = g[1..N] /\ Path(F, N, base, step)
    <2>1. \A n \in 1..N : g[1..(n - 1)] \in V => g[1..n] = step[<<g[1..(n - 1)], n>>]
        BY <1>6, <1>7
    <2>2. N \in Nat /\ base \in V /\ step \in [V \X (1..N) -> V] /\ g[{}] = base
        BY <1>1, <1>2, <1>5
    <2> QED
        BY <2>1, <2>2, FoldAlong, ZenonT(60)
<1>9. \A n \in 1..N : F[n] = Go(F[n - 1], n)
    <2> SUFFICES ASSUME NEW n \in 1..N PROVE F[n] = Go(F[n - 1], n)
        OBVIOUS
    <2>1. n - 1 \in 0..N
        BY <1>1
    <2>2. F[n - 1] \in V
        BY <2>1
    <2> QED
        BY <2>2, <1>7, <1>8 DEF Path
<1> QED
    BY <1>4, <1>8, <1>9 DEF Rounds, Path, Go, N, V, base
-----------------------------------------------------------------------------
\* Of two records the one with weight, if only one has some, comes first.
WeightFirst ==
    {p \in Records \X Records : p[1] # p[2] /\ (p[2].weight > 0 => p[1].weight > 0)}

(* With a draw for every record the loop ends, by itself.                  *)
LEMMA RoundsEnd ==
    ASSUME NEW out \in Seq(Records), NEW draws \in Seq(Nat), Len(out) <= Len(draws),
           NEW F \in [0..Len(draws) -> Splits(out)], Rounds(F, out, draws)
    PROVE  Over(F[Len(draws)])
<1> DEFINE N == Len(draws)
           M == Len(out)
           G == {n \in 0..N : Over(F[n]) \/ Len(F[n].rest) = M - n}
<1>1. N \in Nat /\ M \in Nat /\ M <= N /\ \A n \in 1..N : draws[n] \in Nat
    BY LenProperties
<1>2. 0 \in G
    <2>1. F[0].rest = out
        BY DEF Rounds
    <2>2. 0 \in 0..N /\ Len(F[0].rest) = M - 0
        BY <1>1, <2>1
    <2> QED
        BY <2>2
<1>3. ASSUME NEW n \in 1..N, n - 1 \in G PROVE n \in G
    <2>1. /\ n - 1 \in 0..N /\ n \in 0..N /\ F[n - 1] \in Splits(out)
          /\ F[n] = Round(F[n - 1], draws[n])
        <3>1. n - 1 \in 0..N /\ n \in 0..N
            BY <1>1
        <3>2. F[n] = Round(F[n - 1], draws[n])
            BY DEF Rounds
        <3> QED
            BY <3>1, <3>2
    <2> DEFINE a == F[n - 1]
    <2>2. a \in Splits(out) /\ (Over(a) \/ Len(a.rest) = M - (n - 1))
        BY <1>3, <2>1
    <2> HIDE DEF a
    <2>3. /\ Over(a) => Round(a, draws[n]) = a
          /\ ~Over(a) => Len(Round(a, draws[n]).rest) = Len(a.rest) - 1
        BY <1>1, <2>2, RoundFacts
    <2>4. F[n] = Round(a, draws[n])
        BY <2>1 DEF a
    <2>5. CASE Over(a)
        BY <2>1, <2>3, <2>4, <2>5
    <2>6. CASE ~Over(a)
        <3>1. Len(F[n].rest) = M - n
            BY <1>1, <2>2, <2>3, <2>4, <2>6, Z3T(30)
        <3> QED
            BY <2>1, <3>1
    <2> QED
        BY <2>5, <2>6
<1> HIDE DEF G
<1>4. N \in G
    <2>1. N \in Nat /\ 0 \in G /\ \A n \in 1..N : n - 1 \in G => n \in G
        BY <1>1, <1>2, <1>3
    <2>2. \A n \in 0..N : n \in G
        BY <2>1, AlongInduction, Zenon
    <2> QED
        BY <1>1, <2>2
<1>5. Over(F[N]) \/ Len(F[N].rest) = M - N
    BY <1>4 DEF G
<1> QED
    BY <1>1, <1>5 DEF Over

(* What the first round puts in front stays there.                         *)
LEMMA RoundsBegin ==
    ASSUME NEW out \in Seq(Records), NEW draws \in Seq(Nat), Len(draws) > 0,
           NEW F \in [0..Len(draws) -> Splits(out)], Rounds(F, out, draws),
           Len(out) > 1, Weights(out) > 0
    PROVE  LET placed == F[Len(draws)].placed
           IN  Len(placed) > 0 /\ placed[1] = Front1(out, draws[1])
<1> DEFINE N == Len(draws)
           b == Front1(out, draws[1])
           G == {n \in 0..N : n # 0 => Len(F[n].placed) > 0 /\ F[n].placed[1] = b}
<1>1. N \in Nat \ {0} /\ \A n \in 1..N : draws[n] \in Nat
    BY LenProperties
<1>2. 0 \in G
    BY <1>1
<1>3. ASSUME NEW n \in 1..N, n - 1 \in G PROVE n \in G
    <2> DEFINE a == F[n - 1]
               c == F[n]
    <2>1. n - 1 \in 0..N /\ n \in 0..N /\ a \in Splits(out) /\ c = Round(a, draws[n])
        BY <1>1 DEF Rounds
    <2>2. a.placed \in Seq(Records) /\ c \in Splits(out)
        BY <2>1 DEF Splits
    <2>3. n # 1 => Len(a.placed) > 0 /\ a.placed[1] = b
        BY <1>3, <2>1
    <2>4. n = 1 => a = [placed |-> <<>>, rest |-> out]
        BY DEF Rounds
    <2> HIDE DEF a, c, b
    <2>5. /\ Over(a) => c = a
          /\ ~Over(a) => c.placed = Append(a.placed, Front1(a.rest, draws[n]))
        BY <1>1, <2>1, RoundFacts
    <2>6. Len(c.placed) > 0 /\ c.placed[1] = b
        <3>1. CASE Over(a)
            <4>1. n # 1
                BY <2>4, <3>1, WeightsType DEF Over
            <4> QED
                BY <2>3, <2>5, <3>1, <4>1
        <3>2. CASE ~Over(a) /\ n = 1
            <4>1. c.placed = <<Front1(out, draws[1])>>
                BY <2>4, <2>5, <3>2
            <4> QED
                BY <4>1 DEF b
        <3>3. CASE ~Over(a) /\ n # 1
            <4> DEFINE e == Front1(a.rest, draws[n])
            <4>1. c.placed \in Seq(Records)
                BY <2>2 DEF Splits
            <4>2. c.placed = Append(a.placed, e)
                BY <2>5, <3>3
            <4> HIDE DEF e
            <4>3. Len(a.placed) \in Nat /\ Len(a.placed) > 0
                BY <2>2, <2>3, <3>3, LenProperties
            <4>4. Len(c.placed) = Len(a.placed) + 1 /\ c.placed[1] = a.placed[1]
                BY <2>2, <4>2, <4>3
            <4> QED
                BY <2>3, <3>3, <4>3, <4>4
        <3> QED
            BY <3>1, <3>2, <3>3
    <2> QED
        BY <2>1, <2>6 DEF c
<1> HIDE DEF G
<1>4. N \in G
    <2>1. N \in Nat /\ 0 \in G /\ \A n \in 1..N : n - 1 \in G => n \in G
        BY <1>1, <1>2, <1>3
    <2>2. \A n \in 0..N : n \in G
        BY <2>1, AlongInduction, Zenon
    <2> QED
        BY <1>1, <2>2
<1> QED
    BY <1>1, <1>4 DEF G

(* The weighted shuffle keeps the records, puts those without weight last, *)
(* and the one the first draw falls on first.                              *)
LEMMA ShuffleByWeightFacts ==
    ASSUME NEW out \in Seq(Records), Distinct(out),
           NEW draws \in Seq(Nat), Len(out) <= Len(draws)
    PROVE  LET s == shuffleByWeight(out, draws)
           IN  /\ s \in Seq(Records) /\ ToSet(s) = ToSet(out) /\ Ordered(s, WeightFirst)
               /\ Len(out) > 1 /\ Weights(out) > 0 => s[1] = Front1(out, draws[1])
<1> DEFINE N == Len(draws)
<1>1. N \in Nat /\ Len(out) \in Nat
    BY LenProperties
<1>2. PICK F \in [0..N -> Splits(out)] : Rounds(F, out, draws)
    BY RoundSteps
<1> DEFINE done == F[N]
           p == done.placed
           t == done.rest
           s == p \o t
<1>3. s = shuffleByWeight(out, draws)
    BY <1>2 DEF shuffleByWeight, Rounds
<1>4. done \in Splits(out) /\ Over(done)
    <2>1. N \in 0..N
        BY <1>1
    <2> QED
        BY <1>2, <2>1, RoundsEnd
<1>5. Len(out) > 1 /\ Weights(out) > 0 => Len(p) > 0 /\ p[1] = Front1(out, draws[1])
    <2> SUFFICES ASSUME Len(out) > 1, Weights(out) > 0
                 PROVE  Len(p) > 0 /\ p[1] = Front1(out, draws[1])
        OBVIOUS
    <2>1. N > 0
        BY <1>1
    <2> QED
        BY <1>2, <2>1, RoundsBegin
<1>6. /\ p \in Seq(Records) /\ t \in Seq(Records) /\ Distinct(p) /\ Distinct(t)
      /\ ToSet(p) \cap ToSet(t) = {} /\ ToSet(p) \cup ToSet(t) = ToSet(out)
      /\ \A r \in ToSet(p) : r.weight > 0
    BY <1>4 DEF Splits
<1>7. Weights(t) = 0 \/ Len(t) <= 1
    BY <1>4 DEF Over
<1> HIDE DEF p, t, s, done
<1>8. s \in Seq(Records) /\ ToSet(s) = ToSet(out)
    <2>1. s \in Seq(Records) /\ ToSet(s) = ToSet(p) \cup ToSet(t)
        BY <1>6, ConcatProperties, ToSetOfConcat DEF s
    <2> QED
        BY <1>6, <2>1
<1>9. /\ DOMAIN p = 1..Len(p) /\ \A i \in 1..Len(p) : p[i] \in Records /\ p[i] \in ToSet(p)
      /\ DOMAIN t = 1..Len(t) /\ \A i \in 1..Len(t) : t[i] \in Records /\ t[i] \in ToSet(t)
      /\ Len(p) \in Nat /\ Len(t) \in Nat
    BY <1>6, LenProperties DEF ToSet
<1>10. Ordered(p, WeightFirst)
    <2> SUFFICES ASSUME NEW i \in 1..Len(p), NEW j \in 1..Len(p), i < j
                 PROVE  <<p[i], p[j]>> \in WeightFirst
        BY <1>9 DEF Ordered
    <2>1. p[i] # p[j]
        <3>1. i \in DOMAIN p /\ j \in DOMAIN p /\ i # j
            BY <1>9
        <3> QED
            BY <1>6, <3>1 DEF Distinct
    <2>2. p[i].weight > 0 /\ p[i] \in Records /\ p[j] \in Records
        BY <1>6, <1>9
    <2> QED
        BY <2>1, <2>2 DEF WeightFirst
<1>11. Ordered(t, WeightFirst)
    <2> SUFFICES ASSUME NEW i \in 1..Len(t), NEW j \in 1..Len(t), i < j
                 PROVE  <<t[i], t[j]>> \in WeightFirst
        BY <1>9 DEF Ordered
    <2>1. t[i] # t[j]
        <3>1. i \in DOMAIN t /\ j \in DOMAIN t /\ i # j
            BY <1>9
        <3> QED
            BY <1>6, <3>1 DEF Distinct
    <2>2. Weights(t) = 0
        BY <1>7, <1>9
    <2>3. t[j].weight = 0
        BY <1>6, <1>9, <2>2, WeightsZero
    <2>4. ~(t[j].weight > 0) /\ t[i] \in Records /\ t[j] \in Records
        BY <1>9, <2>3
    <2> QED
        BY <2>1, <2>4 DEF WeightFirst
<1>12. Ordered(s, WeightFirst)
    <2>1. \A x \in ToSet(p), y \in ToSet(t) : <<x, y>> \in WeightFirst
        <3> SUFFICES ASSUME NEW x \in ToSet(p), NEW y \in ToSet(t)
                     PROVE  <<x, y>> \in WeightFirst
            OBVIOUS
        <3>1. x # y /\ x.weight > 0
            BY <1>6
        <3>2. x \in Records /\ y \in Records
            BY <1>9 DEF ToSet
        <3> QED
            BY <3>1, <3>2 DEF WeightFirst
    <2> QED
        BY <1>6, <1>10, <1>11, <2>1, OrderedConcat DEF s
<1>13. Len(p) > 0 => s[1] = p[1]
    BY <1>6, <1>9, ConcatProperties DEF s
<1> QED
    BY <1>3, <1>5, <1>8, <1>12, <1>13
-----------------------------------------------------------------------------
\* Records by preference or priority, none repeated.
SortedRecords ==
    {s \in Seq(Records) : /\ Distinct(s)
                          /\ \A i, j \in DOMAIN s : i < j => s[i].pref <= s[j].pref}

(* SRV records sorted by priority and weight are sorted by priority.       *)
LEMMA ByPriorityWeightSorts ==
    ASSUME NEW out \in Seq(Records), Distinct(out)
    PROVE  LET sorted == SortFunc(out, ByPriorityWeight(out))
           IN  /\ sorted \in SortedRecords /\ ToSet(sorted) = ToSet(out)
               /\ Len(sorted) = Len(out)
<1> DEFINE T == ToSet(out)
           after == ByPriorityWeight(out)
           sorted == SortFunc(out, after)
<1>1. /\ T \subseteq Records /\ out \in Seq(T)
      /\ \A r \in Records : r.pref \in Nat /\ r.weight \in Nat
    <2>1. T \subseteq Records
        BY LenProperties DEF ToSet
    <2>2. out \in Seq(T)
        BY SeqOfToSet
    <2> QED
        BY <2>1, <2>2, RecordsAssumption DEF Records
<1>2. \A r \in T : after[r] = {q \in T : \/ q.pref > r.pref
                                         \/ q.pref = r.pref /\ q.weight > r.weight}
    BY DEF ByPriorityWeight
<1>3. Strict(after, T)
    <2> SUFFICES ASSUME NEW a \in T, NEW b \in T, NEW c \in T
                 PROVE  /\ b \in after[a] => a \notin after[b]
                        /\ b \in after[a] /\ c \in after[b] => c \in after[a]
        BY DEF Strict
    <2>1. /\ a.pref \in Nat /\ b.pref \in Nat /\ c.pref \in Nat
          /\ a.weight \in Nat /\ b.weight \in Nat /\ c.weight \in Nat
        BY <1>1
    <2> HIDE DEF after, T
    <2> QED
        BY <1>2, <2>1
<1> HIDE DEF after, T
<1>4. sorted \in Seq(T) /\ ToSet(sorted) = T /\ Ordered(sorted, May(after, T))
    BY <1>1, <1>3, SortFuncSorts DEF T
<1> HIDE DEF sorted
<1>5. Distinct(sorted)
    BY <1>4, OrderedDistinct DEF May
<1>6. sorted \in Seq(Records)
    BY <1>1, <1>4
<1>7. ASSUME NEW i \in DOMAIN sorted, NEW j \in DOMAIN sorted, i < j
      PROVE  sorted[i].pref <= sorted[j].pref
    <2>1. <<sorted[i], sorted[j]>> \in May(after, T)
        BY <1>4, <1>7 DEF Ordered
    <2>2. sorted[i] \in T /\ sorted[j] \in T /\ sorted[i] \notin after[sorted[j]]
        BY <2>1 DEF May
    <2>3. sorted[i].pref \in Nat /\ sorted[j].pref \in Nat
        BY <1>1, <2>2
    <2> QED
        BY <1>2, <2>2, <2>3
<1>8. Len(sorted) = Len(out)
    BY <1>4, <1>5, <1>6, SameLength DEF T
<1> QED
    BY <1>4, <1>5, <1>6, <1>7, <1>8 DEF sorted, after, T, SortedRecords

\* Position i begins a run of one priority.
Begins(s, i) == i = 1 \/ s[i - 1].pref # s[i].pref

(* A run holds the records of its priority, and begins with enough of the  *)
(* list ahead of it.                                                       *)
LEMMA BucketFacts ==
    ASSUME NEW s \in SortedRecords, NEW i \in 1..Len(s)
    PROVE  /\ Bucket(s, i) \in Seq(Records) /\ Distinct(Bucket(s, i))
           /\ ToSet(Bucket(s, i)) = {r \in ToSet(s) : r.pref = s[i].pref}
           /\ Begins(s, i) => Len(Bucket(s, i)) <= Len(s) + 1 - i
<1> DEFINE N == Len(s)
           K == {r \in ToSet(s) : r.pref = s[i].pref}
           B == Bucket(s, i)
           t == [k \in 1..(N + 1 - i) |-> s[i + k - 1]]
<1>1. /\ s \in Seq(Records) /\ Distinct(s) /\ N \in Nat /\ DOMAIN s = 1..N
      /\ \A k, j \in 1..N : k < j => s[k].pref <= s[j].pref
    BY LenProperties DEF SortedRecords
<1>2. \A k \in 1..N : s[k] \in Records /\ s[k].pref \in Nat
    <2>1. \A r \in Records : r.pref \in Nat
        BY RecordsAssumption DEF Records
    <2>2. \A k \in 1..N : s[k] \in Records
        BY <1>1
    <2> QED
        BY <2>1, <2>2
<1>3. B = Only(s, K)
    BY DEF Bucket
<1> HIDE DEF B
<1>4. B \in Seq(Records) /\ Distinct(B) /\ ToSet(B) = K
    <2>1. B \in Seq(Records)
        BY <1>1, <1>3, OnlyType
    <2>2. Distinct(B)
        BY <1>1, <1>3, DistinctOnly
    <2>3. ToSet(B) = ToSet(s) \cap K
        BY <1>1, <1>3, OnlySet
    <2> QED
        BY <2>1, <2>2, <2>3
<1>5. t \in Seq(Records) /\ Len(t) = N + 1 - i /\ DOMAIN t = 1..(N + 1 - i)
    <2>1. N + 1 - i \in Nat
        BY <1>1
    <2>2. t \in [1..(N + 1 - i) -> Records]
        <3> SUFFICES ASSUME NEW k \in 1..(N + 1 - i) PROVE s[i + k - 1] \in Records
            OBVIOUS
        <3>1. i + k - 1 \in 1..N
            BY <1>1
        <3> QED
            BY <1>2, <3>1
    <2> HIDE DEF t, N
    <2> QED
        BY <2>1, <2>2, FunctionIsSeq
<1>6. \A k \in 1..(N + 1 - i) : t[k] = s[i + k - 1]
    OBVIOUS
<1> HIDE DEF t
<1>7. Distinct(t)
    <2> SUFFICES ASSUME NEW k \in 1..(N + 1 - i), NEW j \in 1..(N + 1 - i), t[k] = t[j]
                 PROVE  k = j
        BY <1>5 DEF Distinct
    <2>1. i + k - 1 \in 1..N /\ i + j - 1 \in 1..N /\ s[i + k - 1] = s[i + j - 1]
        BY <1>1, <1>6
    <2>2. i + k - 1 = i + j - 1
        BY <1>1, <2>1 DEF Distinct
    <2> QED
        BY <1>1, <2>2
<1>8. ASSUME Begins(s, i) PROVE Len(B) <= N + 1 - i
    <2>1. K \subseteq ToSet(t)
        <3> SUFFICES ASSUME NEW k \in 1..N, s[k].pref = s[i].pref PROVE s[k] \in ToSet(t)
            BY <1>1 DEF ToSet
        <3>1. k >= i
            <4> SUFFICES ASSUME k < i PROVE FALSE
                BY <1>1
            <4>1. i - 1 \in 1..N /\ i # 1 /\ k <= i - 1
                BY <1>1
            <4>2. s[k].pref <= s[i - 1].pref
                BY <1>1, <1>2, <4>1
            <4>3. s[i - 1].pref <= s[i].pref
                BY <1>1, <4>1
            <4>4. s[i - 1].pref = s[i].pref
                BY <1>2, <4>1, <4>2, <4>3
            <4> QED
                BY <1>8, <4>1, <4>4 DEF Begins
        <3>2. k + 1 - i \in 1..(N + 1 - i) /\ i + (k + 1 - i) - 1 = k
            BY <1>1, <3>1
        <3>3. t[k + 1 - i] = s[k]
            BY <1>6, <3>2
        <3> QED
            BY <1>5, <3>2, <3>3 DEF ToSet
    <2>2. /\ IsFiniteSet(ToSet(t)) /\ Cardinality(ToSet(t)) = Len(t)
          /\ Cardinality(ToSet(B)) = Len(B)
        BY <1>4, <1>5, <1>7, DistinctCount
    <2>3. ToSet(B) \subseteq ToSet(t)
        BY <1>4, <2>1
    <2> QED
        BY <1>5, <2>2, <2>3, FS_Subset
<1> QED
    BY <1>4, <1>8 DEF B

(* The draws left for a run.                                               *)
LEMMA DrawsFromFacts ==
    ASSUME NEW N \in Nat, NEW draws \in [1..N -> Nat], NEW i \in 1..N
    PROVE  /\ DrawsFrom(draws, i, N) \in Seq(Nat) /\ Len(DrawsFrom(draws, i, N)) = N + 1 - i
           /\ DrawsFrom(draws, i, N)[1] = draws[i]
<1> DEFINE d == DrawsFrom(draws, i, N)
<1>1. N + 1 - i \in Nat /\ 1 \in 1..(N + 1 - i) /\ i + 1 - 1 = i
    OBVIOUS
<1>2. d \in [1..(N + 1 - i) -> Nat] /\ d[1] = draws[i]
    <2>1. \A k \in 1..(N + 1 - i) : i + k - 1 \in 1..N
        OBVIOUS
    <2> QED
        BY <1>1, <2>1 DEF DrawsFrom
<1> HIDE DEF d
<1> QED
    BY <1>1, <1>2, FunctionIsSeq DEF d

(* A run that begins gets shuffled, within its records.                    *)
LEMMA RunFacts ==
    ASSUME NEW s \in SortedRecords, NEW draws \in [1..Len(s) -> Nat],
           NEW i \in 1..Len(s), Begins(s, i)
    PROVE  LET w == shuffleByWeight(Bucket(s, i), DrawsFrom(draws, i, Len(s)))
           IN  /\ w \in Seq(Records) /\ ToSet(w) = {r \in ToSet(s) : r.pref = s[i].pref}
               /\ Ordered(w, WeightFirst)
               /\ Len(Bucket(s, i)) > 1 /\ Weights(Bucket(s, i)) > 0 =>
                      w[1] = Front1(Bucket(s, i), draws[i])
<1> DEFINE B == Bucket(s, i)
           d == DrawsFrom(draws, i, Len(s))
<1>1. /\ B \in Seq(Records) /\ Distinct(B) /\ ToSet(B) = {r \in ToSet(s) : r.pref = s[i].pref}
      /\ Len(B) <= Len(s) + 1 - i
    BY BucketFacts
<1>2. s \in Seq(Records) /\ Len(s) \in Nat
    BY LenProperties DEF SortedRecords
<1>3. d \in Seq(Nat) /\ Len(d) = Len(s) + 1 - i /\ d[1] = draws[i]
    BY <1>2, DrawsFromFacts
<1> HIDE DEF B, d
<1> DEFINE w == shuffleByWeight(B, d)
<1>4. /\ w \in Seq(Records) /\ ToSet(w) = ToSet(B) /\ Ordered(w, WeightFirst)
      /\ Len(B) > 1 /\ Weights(B) > 0 => w[1] = Front1(B, d[1])
    BY <1>1, <1>3, ShuffleByWeightFacts
<1> HIDE DEF w
<1> QED
    BY <1>1, <1>3, <1>4 DEF w, B, d

\* F follows the runs of the sorted list s.
Runs(F, s, draws) ==
    /\ F[0] = <<>>
    /\ F[Len(s)] = FoldLeft(LAMBDA done, i : AddBucket(done, i, s, draws), <<>>,
                            [i \in DOMAIN s |-> i])
    /\ \A n \in 1..Len(s) : F[n] = AddBucket(F[n - 1], n, s, draws)

(* The sorted list is rebuilt run by run.                                  *)
LEMMA RunSteps ==
    ASSUME NEW s \in SortedRecords, NEW draws \in [1..Len(s) -> Nat]
    PROVE  \E F \in [0..Len(s) -> Seq(Records)] : Runs(F, s, draws)
<1> DEFINE N == Len(s)
           V == Seq(Records)
           base == <<>>
           at == [i \in DOMAIN s |-> i]
           Add(v, n) == AddBucket(v, at[n], s, draws)
           step == [p \in V \X (1..N) |-> Add(p[1], p[2])]
           IsFold(f) == f = [T \in SUBSET (1..N) |->
               IF T = {} THEN base ELSE Add(f[T \ {Max(T)}], Max(T))]
           g == CHOOSE f : IsFold(f)
<1>1. /\ N \in Nat /\ DOMAIN s = 1..N /\ DOMAIN at = 1..N /\ Len(at) = N
      /\ \A n \in 1..N : at[n] = n
    <2>1. N \in Nat /\ DOMAIN s = 1..N
        BY LenProperties DEF SortedRecords
    <2>2. at \in [1..N -> Nat] /\ \A n \in 1..N : at[n] = n
        BY <2>1
    <2> HIDE DEF N, at
    <2>3. Len(at) = N /\ DOMAIN at = 1..N
        BY <2>1, <2>2, FunctionIsSeq
    <2> QED
        BY <2>1, <2>2, <2>3
<1>2. base \in V /\ step \in [V \X (1..N) -> V]
    <2>1. base \in V
        BY EmptySeq
    <2>2. ASSUME NEW v \in V, NEW n \in 1..N PROVE Add(v, n) \in V
        <3> DEFINE w == shuffleByWeight(Bucket(s, n), DrawsFrom(draws, n, Len(s)))
        <3>1. at[n] = n
            BY <1>1
        <3>2. AddBucket(v, n, s, draws) = IF Begins(s, n) THEN v \o w ELSE v
            BY DEF AddBucket, Begins
        <3>3. Begins(s, n) => w \in Seq(Records)
            BY RunFacts
        <3> HIDE DEF w, at
        <3>4. AddBucket(v, n, s, draws) \in V
            BY <3>2, <3>3, ConcatProperties
        <3> QED
            BY <3>1, <3>4
    <2> HIDE DEF Add, V, base
    <2> QED
        BY <2>1, <2>2
<1>3. IsFold(g)
    <2>1. PICK f \in [SUBSET (1..N) -> V] : Table(f, N, base, step)
        <3> HIDE DEF step, N, V, base
        <3> QED
            BY <1>1, <1>2, FoldExists
    <2>2. ASSUME NEW T \in SUBSET (1..N), T # {}
          PROVE  step[<<f[T \ {Max(T)}], Max(T)>>] = Add(f[T \ {Max(T)}], Max(T))
        <3>1. Max(T) \in T
            BY <1>1, <2>2, MaxIsMember
        <3> HIDE DEF Add, V, N
        <3> QED
            BY <2>1, <3>1
    <2>3. IsFold(f)
        <3> HIDE DEF Add, V, N, base, step
        <3> QED
            BY <2>1, <2>2 DEF Table
    <2> HIDE DEF IsFold
    <2> QED
        BY <2>3
<1>4. FoldLeft(LAMBDA done, i : AddBucket(done, i, s, draws), <<>>, at) = g[1..N]
    BY <1>1, Zenon DEF FoldLeft, MapThenFoldSet
<1>5. g[{}] = base
    <2> HIDE DEF Add, base, g
    <2> QED
        BY <1>3
<1>6. ASSUME NEW n \in 1..N PROVE g[1..n] = Add(g[1..(n - 1)], n)
    <2>1. 1..n \in SUBSET (1..N) /\ 1..n # {} /\ Max(1..n) = n /\ (1..n) \ {n} = 1..(n - 1)
        BY <1>1, MaxOfRange
    <2> HIDE DEF g, Add, N
    <2> QED
        BY <1>3, <2>1
<1>7. ASSUME NEW n \in 1..N, NEW a \in V PROVE step[<<a, n>>] = Add(a, n)
    <2> HIDE DEF Add, V, N
    <2> QED
        OBVIOUS
<1> HIDE DEF g, Add, N, step, V, base
<1>8. PICK F \in [0..N -> V] : F[N] = g[1..N] /\ Path(F, N, base, step)
    <2>1. \A n \in 1..N : g[1..(n - 1)] \in V => g[1..n] = step[<<g[1..(n - 1)], n>>]
        BY <1>6, <1>7
    <2>2. N \in Nat /\ base \in V /\ step \in [V \X (1..N) -> V] /\ g[{}] = base
        BY <1>1, <1>2, <1>5
    <2> QED
        BY <2>1, <2>2, FoldAlong, ZenonT(60)
<1>9. \A n \in 1..N : F[n] = Add(F[n - 1], n)
    <2> SUFFICES ASSUME NEW n \in 1..N PROVE F[n] = Add(F[n - 1], n)
        OBVIOUS
    <2>1. n - 1 \in 0..N
        BY <1>1
    <2>2. F[n - 1] \in V
        BY <2>1
    <2> QED
        BY <2>2, <1>7, <1>8 DEF Path
<1> QED
    <2>1. \A n \in 1..N : at[n] = n
        BY <1>1
    <2> HIDE DEF at
    <2>2. \A n \in 1..N : F[n] = AddBucket(F[n - 1], n, s, draws)
        BY <1>9, <2>1 DEF Add
    <2> QED
        BY <1>4, <1>8, <2>2 DEF Runs, Path, N, V, base, at
-----------------------------------------------------------------------------
\* SRV records as they may follow each other.
SRVOrder ==
    {p \in Records \X Records :
        /\ p[1] # p[2] /\ p[1].pref <= p[2].pref
        /\ p[1].pref = p[2].pref /\ p[2].weight > 0 => p[1].weight > 0}

\* Up to the n-th position of s its runs are done.
Placed(f, s, n) ==
    /\ Ordered(f, SRVOrder)
    /\ ToSet(f) = {r \in ToSet(s) : n # 0 /\ r.pref <= s[n].pref}

(* What is done when a run begins is what has a better priority.           *)
LEMMA PlacedBefore ==
    ASSUME NEW s \in SortedRecords, NEW n \in 1..Len(s), NEW f, Placed(f, s, n - 1), Begins(s, n)
    PROVE  ToSet(f) = {r \in ToSet(s) : r.pref < s[n].pref}
<1> DEFINE N == Len(s)
<1>1. /\ s \in Seq(Records) /\ N \in Nat /\ DOMAIN s = 1..N
      /\ \A k, j \in 1..N : k < j => s[k].pref <= s[j].pref
    BY LenProperties DEF SortedRecords
<1>2. \A k \in 1..N : s[k].pref \in Nat
    <2>1. \A r \in Records : r.pref \in Nat
        BY RecordsAssumption DEF Records
    <2> QED
        BY <1>1, <2>1
<1>3. ToSet(s) = {s[k] : k \in 1..N}
    BY <1>1 DEF ToSet
<1> SUFFICES ASSUME NEW k \in 1..N
             PROVE  (n - 1 # 0 /\ s[k].pref <= s[n - 1].pref) <=> s[k].pref < s[n].pref
    BY <1>3 DEF Placed
<1>4. s[k].pref < s[n].pref => k < n
    <2> SUFFICES ASSUME k >= n PROVE ~(s[k].pref < s[n].pref)
        BY <1>1
    <2>1. k = n \/ s[n].pref <= s[k].pref
        BY <1>1
    <2> QED
        BY <1>2, <2>1
<1>5. CASE n = 1
    BY <1>1, <1>4, <1>5
<1>6. CASE n # 1
    <2>1. n - 1 \in 1..N /\ n - 1 < n /\ n - 1 # 0
        BY <1>1, <1>6
    <2>2. s[n - 1].pref <= s[n].pref /\ s[n - 1].pref # s[n].pref
        BY <1>1, <1>6, <2>1 DEF Begins
    <2>3. k < n => s[k].pref <= s[n - 1].pref
        <3>1. k < n => k = n - 1 \/ k < n - 1
            BY <1>1
        <3>2. k < n - 1 => s[k].pref <= s[n - 1].pref
            BY <1>1, <2>1
        <3>3. s[n - 1].pref <= s[n - 1].pref
            BY <1>2, <2>1
        <3> QED
            BY <3>1, <3>2, <3>3
    <2>4. s[k].pref \in Nat /\ s[n].pref \in Nat /\ s[n - 1].pref \in Nat
        BY <1>2, <2>1
    <2> QED
        BY <1>4, <2>1, <2>2, <2>3, <2>4
<1> QED
    BY <1>5, <1>6

(* A run goes behind what is done.                                         *)
LEMMA PlacedNext ==
    ASSUME NEW s \in SortedRecords, NEW draws \in [1..Len(s) -> Nat], NEW n \in 1..Len(s),
           NEW f \in Seq(Records), Placed(f, s, n - 1)
    PROVE  Placed(AddBucket(f, n, s, draws), s, n)
<1> DEFINE N == Len(s)
           w == shuffleByWeight(Bucket(s, n), DrawsFrom(draws, n, Len(s)))
<1>1. /\ s \in Seq(Records) /\ N \in Nat /\ DOMAIN s = 1..N /\ n # 0
      /\ \A k, j \in 1..N : k < j => s[k].pref <= s[j].pref
    BY LenProperties DEF SortedRecords
<1>2. \A r \in ToSet(s) : r \in Records /\ r.pref \in Nat
    <2>1. \A r \in Records : r.pref \in Nat
        BY RecordsAssumption DEF Records
    <2> QED
        BY <1>1, <2>1 DEF ToSet
<1>3. s[n] \in ToSet(s) /\ s[n].pref \in Nat
    <2>1. s[n] \in ToSet(s)
        BY <1>1 DEF ToSet
    <2> QED
        BY <1>2, <2>1
<1>4. AddBucket(f, n, s, draws) = IF Begins(s, n) THEN f \o w ELSE f
    BY DEF AddBucket, Begins
<1>5. CASE Begins(s, n)
    <2>1. /\ w \in Seq(Records) /\ ToSet(w) = {r \in ToSet(s) : r.pref = s[n].pref}
          /\ Ordered(w, WeightFirst)
        BY <1>5, RunFacts
    <2> HIDE DEF w
    <2>2. ToSet(f) = {r \in ToSet(s) : r.pref < s[n].pref} /\ Ordered(f, SRVOrder)
        BY <1>5, PlacedBefore DEF Placed
    <2>3. Ordered(w, SRVOrder)
        <3> SUFFICES ASSUME NEW i \in DOMAIN w, NEW j \in DOMAIN w, i < j
                     PROVE  <<w[i], w[j]>> \in SRVOrder
            BY DEF Ordered
        <3>1. <<w[i], w[j]>> \in WeightFirst
            BY <2>1 DEF Ordered
        <3>2. w[i] \in ToSet(w) /\ w[j] \in ToSet(w)
            BY DEF ToSet
        <3>3. w[i].pref = s[n].pref /\ w[j].pref = s[n].pref
            BY <2>1, <3>2
        <3> QED
            BY <1>3, <3>1, <3>3 DEF WeightFirst, SRVOrder
    <2>4. \A x \in ToSet(f), y \in ToSet(w) : <<x, y>> \in SRVOrder
        <3> SUFFICES ASSUME NEW x \in ToSet(f), NEW y \in ToSet(w)
                     PROVE  <<x, y>> \in SRVOrder
            OBVIOUS
        <3>1. /\ x \in ToSet(s) /\ x.pref < s[n].pref
              /\ y \in ToSet(s) /\ y.pref = s[n].pref
            BY <2>1, <2>2
        <3>2. x.pref < y.pref
            BY <3>1
        <3>3. x \in Records /\ y \in Records /\ x.pref \in Nat /\ y.pref \in Nat
            BY <1>2, <3>1
        <3>4. x # y /\ x.pref <= y.pref /\ x.pref # y.pref
            BY <3>2, <3>3
        <3> QED
            BY <3>3, <3>4 DEF SRVOrder
    <2>5. Ordered(f \o w, SRVOrder)
        BY <2>1, <2>2, <2>3, <2>4, OrderedConcat
    <2>6. ToSet(f \o w) = ToSet(f) \cup ToSet(w)
        BY <2>1, ToSetOfConcat
    <2>7. ToSet(f \o w) = {r \in ToSet(s) : n # 0 /\ r.pref <= s[n].pref}
        <3>1. \A r \in ToSet(s) : r.pref <= s[n].pref <=> r.pref < s[n].pref \/ r.pref = s[n].pref
            BY <1>2, <1>3
        <3> QED
            BY <1>1, <2>1, <2>2, <2>6, <3>1
    <2>8. AddBucket(f, n, s, draws) = f \o w
        BY <1>4, <1>5
    <2> QED
        BY <2>5, <2>7, <2>8 DEF Placed
<1>6. CASE ~Begins(s, n)
    <2>1. n # 1 /\ s[n - 1].pref = s[n].pref
        BY <1>6 DEF Begins
    <2>2. n - 1 # 0 /\ AddBucket(f, n, s, draws) = f
        BY <1>1, <1>4, <1>6, <2>1
    <2> QED
        BY <1>1, <2>1, <2>2 DEF Placed
<1> QED
    BY <1>5, <1>6

(* The list rebuilt from its runs: the same records in the right order.    *)
LEMMA RunsOrdered ==
    ASSUME NEW s \in SortedRecords, NEW draws \in [1..Len(s) -> Nat],
           NEW F \in [0..Len(s) -> Seq(Records)], Runs(F, s, draws)
    PROVE  Ordered(F[Len(s)], SRVOrder) /\ ToSet(F[Len(s)]) = ToSet(s)
<1> DEFINE N == Len(s)
           G == {n \in 0..N : Placed(F[n], s, n)}
<1>1. /\ s \in Seq(Records) /\ N \in Nat /\ DOMAIN s = 1..N
      /\ \A k, j \in 1..N : k < j => s[k].pref <= s[j].pref
    BY LenProperties DEF SortedRecords
<1>2. 0 \in G
    <2>1. F[0] = <<>> /\ 0 \in 0..N
        <3>1. F[0] = <<>>
            BY DEF Runs
        <3> HIDE DEF N
        <3> QED
            BY <1>1, <3>1
    <2>2. Ordered(<<>>, SRVOrder) /\ ToSet(<<>>) = {}
        BY DEF Ordered, ToSet
    <2>3. Placed(<<>>, s, 0)
        BY <2>2 DEF Placed
    <2> QED
        BY <2>1, <2>3
<1>3. ASSUME NEW n \in 1..N, n - 1 \in G PROVE n \in G
    <2>1. n - 1 \in 0..N /\ n \in 0..N
        BY <1>1
    <2>2. F[n] = AddBucket(F[n - 1], n, s, draws)
        BY DEF Runs
    <2>3. F[n - 1] \in Seq(Records) /\ Placed(F[n - 1], s, n - 1)
        BY <1>3, <2>1
    <2>4. Placed(AddBucket(F[n - 1], n, s, draws), s, n)
        BY <2>3, PlacedNext
    <2> QED
        BY <2>1, <2>2, <2>4
<1> HIDE DEF G
<1>4. N \in G
    <2>1. N \in Nat /\ 0 \in G /\ \A n \in 1..N : n - 1 \in G => n \in G
        BY <1>1, <1>2, <1>3
    <2>2. \A n \in 0..N : n \in G
        BY <2>1, AlongInduction, Zenon
    <2> QED
        BY <1>1, <2>2
<1>5. Placed(F[N], s, N)
    BY <1>4 DEF G
<1>6. {r \in ToSet(s) : N # 0 /\ r.pref <= s[N].pref} = ToSet(s)
    <2> SUFFICES ASSUME NEW k \in 1..N PROVE N # 0 /\ s[k].pref <= s[N].pref
        BY <1>1 DEF ToSet
    <2> HIDE DEF N
    <2>1. N # 0 /\ N \in 1..N /\ (k = N \/ k < N)
        BY <1>1
    <2>2. s[N].pref <= s[N].pref
        <3>1. s[N] \in Records
            BY <1>1, <2>1, LenProperties DEF N
        <3>2. s[N].pref \in Nat
            BY <3>1, RecordsAssumption DEF Records
        <3> QED
            BY <3>2
    <2> QED
        BY <1>1, <2>1, <2>2
<1> QED
    BY <1>5, <1>6 DEF Placed

(* It begins as its first run does.                                        *)
LEMMA RunsBegin ==
    ASSUME NEW s \in SortedRecords, NEW draws \in [1..Len(s) -> Nat], s # <<>>,
           NEW F \in [0..Len(s) -> Seq(Records)], Runs(F, s, draws)
    PROVE  F[Len(s)][1] = shuffleByWeight(Bucket(s, 1), DrawsFrom(draws, 1, Len(s)))[1]
<1> DEFINE N == Len(s)
           w == shuffleByWeight(Bucket(s, 1), DrawsFrom(draws, 1, Len(s)))
           G == {n \in 0..N : n # 0 => Len(F[n]) > 0 /\ F[n][1] = w[1]}
<1>1. s \in Seq(Records) /\ N \in Nat \ {0} /\ DOMAIN s = 1..N
    BY LenProperties, EmptySeq DEF SortedRecords
<1>2. 0 \in G
    BY <1>1
<1>3. ASSUME NEW n \in 1..N, n - 1 \in G PROVE n \in G
    <2>1. n - 1 \in 0..N /\ n \in 0..N
        BY <1>1
    <2> DEFINE a == F[n - 1]
               c == F[n]
               v == shuffleByWeight(Bucket(s, n), DrawsFrom(draws, n, Len(s)))
    <2>2. c = AddBucket(a, n, s, draws)
        BY DEF Runs
    <2>3. a \in Seq(Records) /\ (n # 1 => Len(a) > 0 /\ a[1] = w[1])
        BY <1>3, <2>1
    <2>4. c = IF Begins(s, n) THEN a \o v ELSE a
        BY <2>2 DEF AddBucket, Begins
    <2>5. Begins(s, n) => v \in Seq(Records) /\ ToSet(v) = {r \in ToSet(s) : r.pref = s[n].pref}
        BY RunFacts
    <2>6. n = 1 => a = <<>> /\ v = w /\ Begins(s, n)
        <3>1. n = 1 => F[n - 1] = F[0]
            BY <1>1
        <3>2. F[0] = <<>> /\ Begins(s, 1)
            BY DEF Runs, Begins
        <3>3. n = 1 => v = w
            OBVIOUS
        <3> HIDE DEF v, w
        <3> QED
            BY <3>1, <3>2, <3>3
    <2> HIDE DEF a, c, w, v
    <2>7. CASE n = 1
        <3>1. c = <<>> \o v /\ v \in Seq(Records)
            BY <2>4, <2>5, <2>6, <2>7
        <3>2. c = v
            BY <3>1, ConcatEmptySeq
        <3>3. v # <<>>
            <4>1. s[n] \in ToSet(v)
                BY <1>1, <2>5, <2>6, <2>7 DEF ToSet
            <4> QED
                BY <4>1 DEF ToSet
        <3>4. Len(v) > 0
            BY <3>1, <3>3, LenProperties, EmptySeq
        <3> QED
            BY <2>1, <2>6, <2>7, <3>2, <3>4 DEF c
    <2>8. CASE n # 1
        <3>1. Len(a) \in Nat /\ Len(a) > 0 /\ a[1] = w[1]
            BY <2>3, <2>8, LenProperties
        <3>2. Begins(s, n) => Len(a \o v) = Len(a) + Len(v) /\ Len(v) \in Nat /\ (a \o v)[1] = a[1]
            BY <2>3, <2>5, <3>1, ConcatProperties, LenProperties
        <3>3. Len(c) > 0 /\ c[1] = w[1]
            BY <2>4, <3>1, <3>2
        <3> QED
            BY <2>1, <3>3 DEF c
    <2> QED
        BY <2>7, <2>8
<1> HIDE DEF G
<1>4. N \in G
    <2>1. N \in Nat /\ 0 \in G /\ \A n \in 1..N : n - 1 \in G => n \in G
        BY <1>1, <1>2, <1>3
    <2>2. \A n \in 0..N : n \in G
        BY <2>1, AlongInduction, Zenon
    <2> QED
        BY <1>1, <2>2
<1> QED
    BY <1>1, <1>4 DEF G
-----------------------------------------------------------------------------
(* SRV records, whatever is drawn: the same ones, in the order above; the  *)
(* first is the one the first draw falls on, by weight.                    *)
LEMMA SRVFacts ==
    ASSUME NEW out \in Seq(Records), Distinct(out), NEW draws \in [1..Len(out) -> Nat]
    PROVE  LET sorted == SortFunc(out, ByPriorityWeight(out))
               srv    == sortSRVRecords(out, draws)
               B      == Bucket(sorted, 1)
           IN  /\ srv \in Seq(Records) /\ ToSet(srv) = ToSet(out) /\ Len(srv) = Len(out)
               /\ Ordered(srv, SRVOrder)
               /\ out # <<>> /\ Len(B) > 1 /\ Weights(B) > 0 => srv[1] = Front1(B, draws[1])
<1> DEFINE s == SortFunc(out, ByPriorityWeight(out))
           B == Bucket(s, 1)
           w == shuffleByWeight(B, DrawsFrom(draws, 1, Len(s)))
           srv == sortSRVRecords(out, draws)
<1>1. s \in SortedRecords /\ ToSet(s) = ToSet(out) /\ Len(s) = Len(out)
    BY ByPriorityWeightSorts
<1>2. s \in Seq(Records) /\ DOMAIN s = DOMAIN out /\ Len(s) \in Nat
    BY <1>1, LenProperties DEF SortedRecords
<1>3. srv = FoldLeft(LAMBDA done, i : AddBucket(done, i, s, draws), <<>>, [i \in DOMAIN s |-> i])
    BY <1>2 DEF sortSRVRecords
<1> HIDE DEF s, srv
<1>4. draws \in [1..Len(s) -> Nat]
    BY <1>1
<1>5. PICK F \in [0..Len(s) -> Seq(Records)] : Runs(F, s, draws)
    BY <1>1, <1>4, RunSteps
<1>6. srv = F[Len(s)]
    BY <1>3, <1>5 DEF Runs
<1>7. srv \in Seq(Records)
    BY <1>2, <1>5, <1>6
<1>8. Ordered(srv, SRVOrder) /\ ToSet(srv) = ToSet(out)
    BY <1>1, <1>4, <1>5, <1>6, RunsOrdered
<1>9. Len(srv) = Len(out)
    <2>1. Distinct(srv)
        BY <1>7, <1>8, OrderedDistinct DEF SRVOrder
    <2> QED
        BY <1>7, <1>8, <2>1, SameLength
<1>10. out # <<>> /\ Len(B) > 1 /\ Weights(B) > 0 => srv[1] = Front1(B, draws[1])
    <2> SUFFICES ASSUME out # <<>>, Len(B) > 1, Weights(B) > 0
                 PROVE  srv[1] = Front1(B, draws[1])
        OBVIOUS
    <2>1. Len(s) > 0 /\ s # <<>>
        BY <1>1, <1>2, EmptySeq, LenProperties
    <2>2. 1 \in 1..Len(s) /\ Begins(s, 1)
        BY <1>2, <2>1 DEF Begins
    <2>3. w[1] = Front1(B, draws[1])
        BY <1>1, <1>4, <2>2, RunFacts
    <2>4. srv[1] = w[1]
        BY <1>1, <1>4, <1>5, <1>6, <2>1, RunsBegin
    <2> QED
        BY <2>3, <2>4
<1> QED
    BY <1>7, <1>8, <1>9, <1>10 DEF s, srv

(* What is drawn for a list.                                               *)
LEMMA DrawsAreNats ==
    ASSUME NEW n \in Nat, NEW draws \in Draws(n)
    PROVE  draws \in [1..n -> Nat]
BY RecordsAssumption DEF Draws

(* A list of records to order repeats none.                                *)
ListInv == list \in Seq(Records) /\ Distinct(list)

(* Of such a list both orders are what they should be.                     *)
LEMMA ListInOrder == ListInv => RecordsInOrder
<1> SUFFICES ASSUME ListInv, NEW draws \in Draws(Len(list))
             PROVE  LET srv == sortSRVRecords(list, draws)
                    IN  /\ InOrder(sortMXRecords(list, draws)) /\ InOrder(srv)
                        /\ \A i, j \in DOMAIN srv :
                               i < j /\ srv[i].pref = srv[j].pref /\ srv[j].weight > 0 =>
                                   srv[i].weight > 0
    BY DEF RecordsInOrder
<1> DEFINE srv == sortSRVRecords(list, draws)
<1>1. list \in Seq(Records) /\ Distinct(list) /\ Len(list) \in Nat
    BY LenProperties DEF ListInv
<1>2. draws \in [1..Len(list) -> Nat]
    BY <1>1, DrawsAreNats
<1>3. InOrder(sortMXRecords(list, draws))
    BY <1>1, <1>2, MXInOrder
<1>4. ToSet(srv) = ToSet(list) /\ Len(srv) = Len(list) /\ Ordered(srv, SRVOrder)
    BY <1>1, <1>2, SRVFacts
<1> HIDE DEF srv
<1>5. ASSUME NEW i \in DOMAIN srv, NEW j \in DOMAIN srv, i < j
      PROVE  /\ srv[i].pref <= srv[j].pref
             /\ srv[i].pref = srv[j].pref /\ srv[j].weight > 0 => srv[i].weight > 0
    <2>1. <<srv[i], srv[j]>> \in SRVOrder
        BY <1>4, <1>5 DEF Ordered
    <2> QED
        BY <2>1 DEF SRVOrder
<1>6. InOrder(srv)
    BY <1>4, <1>5 DEF InOrder
<1> QED
    BY <1>3, <1>5, <1>6 DEF srv

(* Whatever the program comes to order.                                    *)
LEMMA ListsOnly == RecordsSpec => []ListInv
<1>1. RecordsInit => ListInv
    <2> SUFFICES ASSUME RecordsInit PROVE ListInv
        OBVIOUS
    <2>1. list \in [1..MaxRecords -> Records] /\ \A i \in DOMAIN list : list[i].id = i
        BY DEF RecordsInit
    <2>2. MaxRecords \in Nat
        BY RecordsAssumption
    <2>3. list \in Seq(Records) /\ DOMAIN list = 1..MaxRecords
        BY <2>1, <2>2, FunctionIsSeq
    <2>4. \A i, j \in DOMAIN list : list[i] = list[j] => i = j
        BY <2>1
    <2> QED
        BY <2>3, <2>4 DEF ListInv, Distinct
<1>2. ListInv /\ [RecordsNext]_list => ListInv'
    <2> SUFFICES ASSUME ListInv, [RecordsNext]_list PROVE ListInv'
        OBVIOUS
    <2>1. list \in Seq(Records) /\ Distinct(list)
        BY DEF ListInv
    <2>2. CASE RecordsNext
        <3>1. PICK K : list' = Only(list, K)
            BY <2>2 DEF RecordsNext
        <3>2. Only(list, K) \in Seq(Records)
            BY <2>1, OnlyType
        <3>3. Distinct(Only(list, K))
            BY <2>1, DistinctOnly
        <3>4. list' \in Seq(Records) /\ Distinct(list')
            BY <3>1, <3>2, <3>3
        <3> QED
            BY <3>4 DEF ListInv, Distinct, Records
    <2>3. CASE UNCHANGED list
        BY <2>1, <2>3 DEF ListInv, Distinct, Records
    <2> QED
        BY <2>2, <2>3
<1> QED
    BY <1>1, <1>2, PTL DEF RecordsSpec
-----------------------------------------------------------------------------
(* The weights of what is kept and of what is not.                         *)
LEMMA WeightsSplit ==
    ASSUME NEW K
    PROVE  \A s \in Seq(Records) :
               Weights(s) = Weights(Only(s, K)) + Weights(Only(s, Records \ K))
<1> DEFINE C == Records \ K
           G == {s \in Seq(Records) : Weights(s) = Weights(Only(s, K)) + Weights(Only(s, C))}
<1>1. <<>> \in G
    <2>1. Only(<<>>, K) = <<>> /\ Only(<<>>, C) = <<>> /\ <<>> \in Seq(Records)
        BY OnlyOfNone, EmptySeq
    <2> QED
        BY <2>1, WeightsOfNone
<1>2. ASSUME NEW s \in Seq(Records), NEW r \in Records, s \in G PROVE Append(s, r) \in G
    <2> DEFINE a == Only(s, K)
               b == Only(s, C)
    <2>1. a \in Seq(Records) /\ b \in Seq(Records)
        BY OnlyType
    <2>2. /\ Only(Append(s, r), K) = IF r \in K THEN Append(a, r) ELSE a
          /\ Only(Append(s, r), C) = IF r \in C THEN Append(b, r) ELSE b
        BY OnlyOfAppend
    <2>3. Weights(s) = Weights(a) + Weights(b)
        BY <1>2
    <2> HIDE DEF a, b
    <2>4. /\ Weights(a) \in Nat /\ Weights(b) \in Nat /\ r.weight \in Nat
          /\ Weights(Append(a, r)) = Weights(a) + r.weight
          /\ Weights(Append(b, r)) = Weights(b) + r.weight
          /\ Weights(Append(s, r)) = Weights(s) + r.weight
        <3>1. r.weight \in Nat
            BY RecordsAssumption DEF Records
        <3> QED
            BY <2>1, <3>1, WeightsType, WeightsOfAppend
    <2>5. r \in C <=> r \notin K
        OBVIOUS
    <2>6. Append(s, r) \in Seq(Records)
        BY AppendProperties
    <2> HIDE DEF C
    <2>7. Weights(Append(s, r)) = Weights(Only(Append(s, r), K)) + Weights(Only(Append(s, r), C))
        <3>1. CASE r \in K
            <4>1. Only(Append(s, r), K) = Append(a, r) /\ Only(Append(s, r), C) = b
                BY <2>2, <2>5, <3>1
            <4> QED
                BY <2>3, <2>4, <4>1
        <3>2. CASE r \notin K
            <4>1. Only(Append(s, r), K) = a /\ Only(Append(s, r), C) = Append(b, r)
                BY <2>2, <2>5, <3>2
            <4> QED
                BY <2>3, <2>4, <4>1
        <3> QED
            BY <3>1, <3>2
    <2> QED
        BY <2>6, <2>7
<1> HIDE DEF G
<1>3. \A s \in Seq(Records) : s \in G
    <2>1. \A s \in Seq(Records), r \in Records : s \in G => Append(s, r) \in G
        BY <1>2
    <2> QED
        BY <1>1, <2>1, SeqSetInduction, Zenon
<1> QED
    BY <1>3 DEF G

(* A record by itself.                                                     *)
LEMMA WeightsOfOne ==
    ASSUME NEW s \in Seq(Records), Distinct(s), NEW r \in ToSet(s)
    PROVE  Weights(Only(s, {r})) = r.weight
<1> DEFINE t == Only(s, {r})
<1>1. t \in Seq(Records) /\ Distinct(t) /\ ToSet(t) = {r}
    <2>1. t \in Seq(Records)
        BY OnlyType
    <2>2. Distinct(t)
        BY DistinctOnly
    <2>3. ToSet(t) = ToSet(s) \cap {r}
        BY OnlySet
    <2> QED
        BY <2>1, <2>2, <2>3
<1> HIDE DEF t
<1>2. Len(t) = 1
    <2>1. Cardinality(ToSet(t)) = Len(t)
        BY <1>1, DistinctCount
    <2> QED
        BY <1>1, <2>1, FS_Singleton
<1>3. r \in Records /\ r.weight \in Nat
    <2>1. r \in Records
        BY LenProperties DEF ToSet
    <2> QED
        BY <2>1, RecordsAssumption DEF Records
<1>4. t = Append(<<>>, r)
    <2>1. DOMAIN t = 1..1 /\ t[1] \in ToSet(t)
        BY <1>1, <1>2, LenProperties DEF ToSet
    <2>2. t[1] = r
        BY <1>1, <2>1
    <2> QED
        BY <1>1, <1>2, <2>2
<1>5. <<>> \in Seq(Records)
    BY EmptySeq
<1>6. Weights(Append(<<>>, r)) = Weights(<<>>) + r.weight
    BY <1>3, <1>5, WeightsOfAppend
<1>7. Weights(<<>>) = 0
    BY WeightsOfNone
<1>8. Weights(t) = r.weight
    BY <1>3, <1>4, <1>6, <1>7
<1> QED
    BY <1>8 DEF t

(* The order of the records is nothing to the sum of their weights.        *)
LEMMA WeightsSame ==
    ASSUME NEW s \in Seq(Records), Distinct(s)
    PROVE  \A t \in Seq(Records) :
               Distinct(t) /\ ToSet(t) = ToSet(s) => Weights(t) = Weights(s)
<1> DEFINE G == {u \in Seq(Records) : Distinct(u) =>
                    \A t \in Seq(Records) :
                        Distinct(t) /\ ToSet(t) = ToSet(u) => Weights(t) = Weights(u)}
<1>1. <<>> \in G
    <2>1. <<>> \in Seq(Records) /\ ToSet(<<>>) = {}
        BY EmptySeq DEF ToSet
    <2>2. ASSUME NEW t \in Seq(Records), ToSet(t) = {} PROVE t = <<>>
        <3>1. t # <<>> => t[1] \in ToSet(t)
            BY LenProperties, EmptySeq DEF ToSet
        <3> QED
            BY <2>2, <3>1
    <2> QED
        BY <2>1, <2>2
<1>2. ASSUME NEW u \in Seq(Records), NEW r \in Records, u \in G PROVE Append(u, r) \in G
    <2>1. Append(u, r) \in Seq(Records)
        BY AppendProperties
    <2>2. ASSUME Distinct(Append(u, r)), NEW t \in Seq(Records), Distinct(t),
                 ToSet(t) = ToSet(Append(u, r))
          PROVE  Weights(t) = Weights(Append(u, r))
        <3>1. Distinct(u) /\ r \notin ToSet(u)
            BY <2>2, DistinctAppend
        <3>2. ToSet(t) = ToSet(u) \cup {r}
            BY <2>2, ToSetOfAppend
        <3> DEFINE v == Only(t, Records \ {r})
        <3>3. v \in Seq(Records)
            BY OnlyType
        <3>4. Distinct(v)
            BY <2>2, DistinctOnly
        <3>5. ToSet(v) = ToSet(t) \cap (Records \ {r})
            BY OnlySet
        <3>6. ToSet(t) \subseteq Records
            BY LenProperties DEF ToSet
        <3>7. ToSet(v) = ToSet(u)
            BY <3>1, <3>2, <3>5, <3>6
        <3>8. Weights(t) = Weights(Only(t, {r})) + Weights(v)
            BY WeightsSplit
        <3>9. Weights(Only(t, {r})) = r.weight
            <4>1. r \in ToSet(t)
                BY <3>2
            <4> QED
                BY <2>2, <4>1, WeightsOfOne
        <3> HIDE DEF v
        <3>10. Weights(v) = Weights(u)
            BY <1>2, <3>1, <3>3, <3>4, <3>7
        <3>11. Weights(Append(u, r)) = Weights(u) + r.weight /\ Weights(u) \in Nat /\ r.weight \in Nat
            <4>1. r.weight \in Nat
                BY RecordsAssumption DEF Records
            <4> QED
                BY <4>1, WeightsOfAppend, WeightsType
        <3> QED
            BY <3>8, <3>9, <3>10, <3>11
    <2> QED
        BY <2>1, <2>2
<1> HIDE DEF G
<1>3. \A u \in Seq(Records) : u \in G
    <2>1. \A u \in Seq(Records), r \in Records : u \in G => Append(u, r) \in G
        BY <1>2
    <2> QED
        BY <1>1, <2>1, SeqSetInduction, Zenon
<1> QED
    BY <1>3 DEF G
-----------------------------------------------------------------------------
(* Of a list that repeats nothing, each record is chosen by as many        *)
(* numbers below the sum of the weights as its weight says.                *)
LEMMA ChosenByWeight ==
    ASSUME NEW B \in Seq(Records), Distinct(B), NEW r \in ToSet(B)
    PROVE  Cardinality({n \in 0..(Weights(B) - 1) : B[Chosen(B, n)] = r}) = r.weight
<1> DEFINE W == Weights(B)
           chance == {n \in 0..(W - 1) : B[Chosen(B, n)] = r}
<1>1. DOMAIN B = 1..Len(B) /\ Len(B) \in Nat /\ W \in Nat
    BY LenProperties, WeightsType
<1>2. PICK k \in 1..Len(B) : B[k] = r
    BY <1>1 DEF ToSet
<1> DEFINE a == Running(B, k - 1)
           b == Running(B, k)
<1>3. a \in Nat /\ b \in Nat /\ b = a + r.weight /\ r.weight \in Nat
    <2>1. k - 1 \in 0..Len(B) /\ k \in 0..Len(B)
        BY <1>1
    <2>2. a \in Nat /\ b \in Nat /\ b = a + B[k].weight
        BY <2>1, RunningFacts
    <2>3. r.weight \in Nat
        BY <1>2, WeightsAreNats
    <2> QED
        BY <1>2, <2>2, <2>3
<1>4. b <= W
    <2>1. k \in 0..Len(B) /\ Len(B) \in k..Len(B)
        BY <1>1
    <2>2. Running(B, k) <= Running(B, Len(B))
        BY <2>1, RunningGrows
    <2> QED
        BY <2>2, RunningFacts
<1>5. ASSUME NEW n \in 0..(W - 1)
      PROVE  B[Chosen(B, n)] = r <=> a <= n /\ n < b
    <2>1. n \in Nat /\ n < Weights(B)
        BY <1>1
    <2>2. Chosen(B, n) \in 1..Len(B) /\ (Chosen(B, n) = k <=> b > n /\ a <= n)
        BY <1>2, <2>1, ChosenFacts
    <2>3. B[Chosen(B, n)] = r <=> Chosen(B, n) = k
        BY <1>1, <1>2, <2>2 DEF Distinct
    <2> HIDE DEF a, b
    <2> QED
        BY <1>3, <2>1, <2>2, <2>3
<1> HIDE DEF a, b, W
<1>6. chance = a..(b - 1)
    <2>1. \A n \in a..(b - 1) : n \in 0..(W - 1) /\ a <= n /\ n < b
        BY <1>1, <1>3, <1>4
    <2>2. \A n \in 0..(W - 1) : a <= n /\ n < b => n \in a..(b - 1)
        BY <1>1, <1>3
    <2> QED
        BY <1>5, <2>1, <2>2
<1> HIDE DEF chance
<1>7. Cardinality(a..(b - 1)) = r.weight
    <2>1. Cardinality(a..(b - 1)) = IF a > b - 1 THEN 0 ELSE (b - 1) - a + 1
        <3>1. a \in Int /\ b - 1 \in Int
            BY <1>3
        <3> QED
            BY <3>1, FS_Interval
    <2> QED
        BY <1>3, <2>1
<1> QED
    BY <1>6, <1>7 DEF chance, W

(* A number below n is its own remainder.                                  *)
LEMMA ModSmall ==
    ASSUME NEW m \in Nat \ {0}, NEW n \in 0..(m - 1)
    PROVE  n % m = n
OBVIOUS

(* The best priority is that of the first run of the sorted records.       *)
LEMMA BestBucket ==
    ASSUME NEW out \in Seq(Records), Distinct(out), out # <<>>
    PROVE  LET best == {r \in ToSet(out) : \A q \in ToSet(out) : r.pref <= q.pref}
               B    == Bucket(SortFunc(out, ByPriorityWeight(out)), 1)
           IN  /\ B \in Seq(Records) /\ Distinct(B) /\ ToSet(B) = best
               /\ Len(B) = Cardinality(best) /\ Weights(B) = Weights(Only(out, best))
<1> DEFINE best == {r \in ToSet(out) : \A q \in ToSet(out) : r.pref <= q.pref}
           s == SortFunc(out, ByPriorityWeight(out))
           B == Bucket(s, 1)
           o == Only(out, best)
<1>1. s \in SortedRecords /\ ToSet(s) = ToSet(out) /\ Len(s) = Len(out)
    BY ByPriorityWeightSorts
<1> HIDE DEF s
<1>2. /\ s \in Seq(Records) /\ Len(s) \in Nat \ {0} /\ DOMAIN s = 1..Len(s)
      /\ \A i, j \in 1..Len(s) : i < j => s[i].pref <= s[j].pref
    <2>1. Len(out) \in Nat \ {0}
        BY LenProperties, EmptySeq
    <2> QED
        BY <1>1, <2>1, LenProperties DEF SortedRecords
<1>3. \A i \in 1..Len(s) : s[i] \in ToSet(s) /\ s[i].pref \in Nat
    <2>1. \A r \in Records : r.pref \in Nat
        BY RecordsAssumption DEF Records
    <2> QED
        BY <1>2, <2>1, LenProperties DEF ToSet
<1>4. 1 \in 1..Len(s)
    BY <1>2
<1>5. B \in Seq(Records) /\ Distinct(B) /\ ToSet(B) = {r \in ToSet(s) : r.pref = s[1].pref}
    BY <1>1, <1>4, BucketFacts
<1> HIDE DEF B
<1>6. best = {r \in ToSet(s) : r.pref = s[1].pref}
    <2>1. \A i \in 1..Len(s) : s[1].pref <= s[i].pref
        <3> SUFFICES ASSUME NEW i \in 1..Len(s) PROVE s[1].pref <= s[i].pref
            OBVIOUS
        <3>1. i = 1 \/ 1 < i
            BY <1>2
        <3> QED
            BY <1>2, <1>3, <1>4, <3>1
    <2>2. \A q \in ToSet(s) : s[1].pref <= q.pref /\ q.pref \in Nat
        BY <1>2, <1>3, <2>1 DEF ToSet
    <2>3. s[1] \in ToSet(s) /\ s[1].pref \in Nat
        BY <1>3, <1>4
    <2>4. ASSUME NEW r \in ToSet(s)
          PROVE  (\A q \in ToSet(s) : r.pref <= q.pref) <=> r.pref = s[1].pref
        BY <2>2, <2>3
    <2> QED
        BY <1>1, <2>4
<1> HIDE DEF best
<1>7. ToSet(B) = best
    BY <1>5, <1>6
<1>8. Len(B) = Cardinality(best)
    BY <1>5, <1>7, DistinctCount
<1>9. o \in Seq(Records) /\ Distinct(o) /\ ToSet(o) = best
    <2>1. o \in Seq(Records)
        BY OnlyType
    <2>2. Distinct(o)
        BY DistinctOnly
    <2>3. ToSet(o) = ToSet(out) \cap best
        BY OnlySet
    <2>4. best \subseteq ToSet(out)
        BY <1>1, <1>6
    <2> QED
        BY <2>1, <2>2, <2>3, <2>4
<1> HIDE DEF o
<1>10. Weights(B) = Weights(o)
    BY <1>5, <1>7, <1>9, WeightsSame
<1> QED
    BY <1>5, <1>7, <1>8, <1>10 DEF best, B, s, o

(* Of a list that repeats none, the first SRV record comes by its weight.  *)
LEMMA ListFirst == ListInv => FirstByWeight
<1> SUFFICES ASSUME ListInv PROVE FirstByWeight
    OBVIOUS
<1> DEFINE best == {r \in ToSet(list) : \A q \in ToSet(list) : r.pref <= q.pref}
           sum == Weights(Only(list, best))
           First(n) == sortSRVRecords(list, [i \in DOMAIN list |-> n])[1]
           B == Bucket(SortFunc(list, ByPriorityWeight(list)), 1)
<1>1. /\ list \in Seq(Records) /\ Distinct(list)
      /\ Len(list) \in Nat /\ DOMAIN list = 1..Len(list)
    BY LenProperties DEF ListInv
<1> SUFFICES ASSUME Cardinality(best) > 1, sum > 0, NEW r \in best
             PROVE  Cardinality({n \in 0..(sum - 1) : First(n) = r}) = r.weight
    BY DEF FirstByWeight
<1>2. list # <<>> /\ 1 \in DOMAIN list
    <2>1. list # <<>>
        BY DEF ToSet
    <2> QED
        BY <1>1, <2>1, EmptySeq
<1>3. /\ B \in Seq(Records) /\ Distinct(B) /\ ToSet(B) = best
      /\ Len(B) = Cardinality(best) /\ Weights(B) = sum
    BY <1>1, <1>2, BestBucket
<1>4. sum \in Nat
    BY <1>3, WeightsType
<1>5. ASSUME NEW n \in 0..(sum - 1) PROVE First(n) = B[Chosen(B, n)]
    <2> DEFINE d == [i \in DOMAIN list |-> n]
               srv == sortSRVRecords(list, d)
    <2>1. d \in [1..Len(list) -> Nat] /\ d[1] = n
        BY <1>1, <1>2
    <2> HIDE DEF d
    <2>2. list # <<>> /\ Len(B) > 1 /\ Weights(B) > 0 => srv[1] = Front1(B, d[1])
        BY <1>1, <2>1, SRVFacts
    <2>3. srv[1] = Front1(B, n)
        BY <1>2, <1>3, <2>1, <2>2
    <2>4. randIntn(sum, n) = n
        <3>1. sum \in Nat \ {0}
            BY <1>4
        <3> HIDE DEF sum
        <3> QED
            BY <3>1, ModSmall DEF randIntn
    <2>5. Front1(B, n) = B[Chosen(B, n)]
        BY <1>3, <2>4 DEF Front1
    <2> QED
        BY <2>3, <2>5 DEF d
<1> HIDE DEF First, B, sum
<1>6. Cardinality({n \in 0..(Weights(B) - 1) : B[Chosen(B, n)] = r}) = r.weight
    BY <1>3, ChosenByWeight
<1>7. {n \in 0..(sum - 1) : First(n) = r} = {n \in 0..(sum - 1) : B[Chosen(B, n)] = r}
    BY <1>5
<1> QED
    BY <1>3, <1>6, <1>7

(* OrderByWeight, for lists of any length, any priorities, weights and     *)
(* numbers drawn.  (sortMXRecords, sortSRVRecords, dns/sort.go.)           *)
THEOREM OrderHolds == RecordsSpec => []OrderByWeight
<1>1. ListInv => OrderByWeight
    BY ListInOrder, ListFirst DEF OrderByWeight
<1> QED
    BY <1>1, ListsOnly, PTL

-----------------------------------------------------------------------------
(* A byte is a natural number below 256.                                   *)
LEMMA ByteFacts == \A b : b \in Byte <=> b \in Nat /\ b < 256
BY DEF Byte

\* The number whose bytes these are, the most significant first.
Number(s) == FoldLeft(LAMBDA v, b : 256 * v + b, 0, s)

\* F follows Number along the bytes.
Digits(F, s) ==
    /\ F[0] = 0 /\ F[Len(s)] = Number(s)
    /\ \A n \in 1..Len(s) : F[n] = 256 * F[n - 1] + s[n]

(* A number grows byte by byte.                                            *)
LEMMA NumberSteps ==
    ASSUME NEW s \in Seq(Byte)
    PROVE  \E F \in [0..Len(s) -> Nat] : Digits(F, s)
<1> DEFINE N == Len(s)
           V == Nat
           base == 0
           Shift(v, b) == 256 * v + b
           step == [p \in V \X (1..N) |-> Shift(p[1], s[p[2]])]
           IsFold(f) == f = [T \in SUBSET (1..N) |->
               IF T = {} THEN base ELSE Shift(f[T \ {Max(T)}], s[Max(T)])]
           g == CHOOSE f : IsFold(f)
<1>1. N \in Nat /\ DOMAIN s = 1..N /\ \A n \in 1..N : s[n] \in Nat
    BY LenProperties, ByteFacts
<1>2. base \in V /\ step \in [V \X (1..N) -> V]
    BY <1>1
<1>3. IsFold(g)
    <2>1. PICK f \in [SUBSET (1..N) -> V] : Table(f, N, base, step)
        <3> HIDE DEF step, N, V, base
        <3> QED
            BY <1>1, <1>2, FoldExists
    <2>2. ASSUME NEW T \in SUBSET (1..N), T # {}
          PROVE  step[<<f[T \ {Max(T)}], Max(T)>>] = Shift(f[T \ {Max(T)}], s[Max(T)])
        <3>1. Max(T) \in T
            BY <1>1, <2>2, MaxIsMember
        <3> HIDE DEF Shift, V, N
        <3> QED
            BY <2>1, <3>1
    <2>3. IsFold(f)
        <3> HIDE DEF Shift, V, N, base, step
        <3> QED
            BY <2>1, <2>2 DEF Table
    <2> HIDE DEF IsFold
    <2> QED
        BY <2>3
<1>4. Number(s) = g[1..N]
    BY <1>1, Zenon DEF Number, FoldLeft, MapThenFoldSet
<1>5. g[{}] = base
    <2> HIDE DEF Shift, base, g
    <2> QED
        BY <1>3
<1>6. ASSUME NEW n \in 1..N PROVE g[1..n] = Shift(g[1..(n - 1)], s[n])
    <2>1. 1..n \in SUBSET (1..N) /\ 1..n # {} /\ Max(1..n) = n /\ (1..n) \ {n} = 1..(n - 1)
        BY <1>1, MaxOfRange
    <2> HIDE DEF g, Shift, N
    <2> QED
        BY <1>3, <2>1
<1>7. ASSUME NEW n \in 1..N, NEW a \in V PROVE step[<<a, n>>] = Shift(a, s[n])
    <2> HIDE DEF Shift, V, N
    <2> QED
        OBVIOUS
<1> HIDE DEF g, Shift, N, step, V, base
<1>8. PICK F \in [0..N -> V] : F[N] = g[1..N] /\ Path(F, N, base, step)
    <2>1. \A n \in 1..N : g[1..(n - 1)] \in V => g[1..n] = step[<<g[1..(n - 1)], n>>]
        BY <1>6, <1>7
    <2>2. N \in Nat /\ base \in V /\ step \in [V \X (1..N) -> V] /\ g[{}] = base
        BY <1>1, <1>2, <1>5
    <2> QED
        BY <2>1, <2>2, FoldAlong, ZenonT(60)
<1>9. \A n \in 1..N : F[n] = Shift(F[n - 1], s[n])
    <2> SUFFICES ASSUME NEW n \in 1..N PROVE F[n] = Shift(F[n - 1], s[n])
        OBVIOUS
    <2>1. n - 1 \in 0..N
        BY <1>1
    <2>2. F[n - 1] \in V
        BY <2>1
    <2> QED
        BY <2>2, <1>7, <1>8 DEF Path
<1> QED
    BY <1>4, <1>8, <1>9 DEF Digits, Path, Shift, N, V, base

(* The number of one, of two and of four bytes.                            *)
LEMMA SmallNumbers ==
    /\ \A s \in Seq(Byte) : Len(s) = 1 => Number(s) = s[1]
    /\ \A s \in Seq(Byte) : Len(s) = 2 => Number(s) = 256 * s[1] + s[2]
    /\ \A s \in Seq(Byte) : Len(s) = 4 =>
           Number(s) = 256 * (256 * (256 * s[1] + s[2]) + s[3]) + s[4]
<1>1. ASSUME NEW s \in Seq(Byte) PROVE \A i \in 1..Len(s) : s[i] \in Nat
    BY LenProperties, ByteFacts
<1>2. ASSUME NEW s \in Seq(Byte), Len(s) = 1 PROVE Number(s) = s[1]
    <2>1. PICK F \in [0..1 -> Nat] : Digits(F, s)
        BY <1>2, NumberSteps
    <2>2. F[1] = 256 * F[0] + s[1] /\ F[0] = 0 /\ F[1] = Number(s)
        BY <1>2, <2>1 DEF Digits
    <2> QED
        BY <1>1, <1>2, <2>2
<1>3. ASSUME NEW s \in Seq(Byte), Len(s) = 2 PROVE Number(s) = 256 * s[1] + s[2]
    <2>1. PICK F \in [0..2 -> Nat] : Digits(F, s)
        BY <1>3, NumberSteps
    <2>2. F[1] = 256 * F[0] + s[1] /\ F[2] = 256 * F[1] + s[2] /\ F[0] = 0 /\ F[2] = Number(s)
        BY <1>3, <2>1 DEF Digits
    <2> QED
        BY <1>1, <1>3, <2>2
<1>4. ASSUME NEW s \in Seq(Byte), Len(s) = 4
      PROVE  Number(s) = 256 * (256 * (256 * s[1] + s[2]) + s[3]) + s[4]
    <2>1. PICK F \in [0..4 -> Nat] : Digits(F, s)
        BY <1>4, NumberSteps
    <2>2. F[1] = 256 * F[0] + s[1] /\ F[2] = 256 * F[1] + s[2] /\ F[0] = 0
        BY <1>4, <2>1 DEF Digits
    <2>3. F[3] = 256 * F[2] + s[3] /\ F[4] = 256 * F[3] + s[4] /\ F[4] = Number(s)
        BY <1>4, <2>1 DEF Digits
    <2>4. s[1] \in Nat /\ 256 * F[0] + s[1] = s[1]
        BY <1>1, <1>4, <2>2
    <2> QED
        BY <2>2, <2>3, <2>4
<1> QED
    BY <1>2, <1>3, <1>4

(* An integer is read from the bytes at the offset; there is none if they  *)
(* are cut short.                                                          *)
LEMMA UintReads ==
    ASSUME NEW data \in Seq(Byte), NEW w \in Seq(Byte), NEW off \in Nat
    PROVE  /\ At(data, off, w) => Uint(Len(w), data, off) = Got(Number(w), off + Len(w))
           /\ Cut(data, off, w) => Uint(Len(w), data, off) = Failed
<1>1. Len(w) \in Nat /\ Len(data) \in Nat
    BY LenProperties
<1>2. ASSUME At(data, off, w)
      PROVE  Uint(Len(w), data, off) = Got(Number(w), off + Len(w))
    <2>1. SubSeq(data, off + 1, off + Len(w)) = w
        BY <1>2, AtTaken
    <2>2. ~(off + Len(w) > Len(data))
        BY <1>1, <1>2 DEF At
    <2> QED
        BY <2>1, <2>2 DEF Uint, Number
<1>3. ASSUME Cut(data, off, w) PROVE Uint(Len(w), data, off) = Failed
    <2>1. off + Len(w) > Len(data)
        BY <1>1, <1>3 DEF Cut
    <2> QED
        BY <2>1 DEF Uint
<1> QED
    BY <1>2, <1>3

(* A number in two bytes.                                                  *)
LEMMA TwoBytes ==
    ASSUME NEW a \in Byte, NEW b \in Byte
    PROVE  <<a, b>> \in Seq(Byte) /\ Len(<<a, b>>) = 2 /\ Number(<<a, b>>) = 256 * a + b
<1> DEFINE s == <<a, b>>
<1>1. s \in Seq(Byte) /\ Len(s) = 2 /\ s[1] = a /\ s[2] = b
    OBVIOUS
<1> HIDE DEF s
<1>2. Number(s) = 256 * s[1] + s[2]
    BY <1>1, SmallNumbers
<1> QED
    BY <1>1, <1>2 DEF s

(* Sixteen bits go over the wire in two bytes and come back.               *)
LEMMA U16Facts ==
    ASSUME NEW v \in Nat, v <= 65535
    PROVE  U16(v) \in Seq(Byte) /\ Len(U16(v)) = 2 /\ Number(U16(v)) = v
<1> DEFINE a == v \div 256
           b == v % 256
<1>1. v = 256 * a + b /\ a \in Nat /\ b \in 0..255
    BY Z3T(30)
<1> HIDE DEF a, b
<1>2. a \in Byte /\ b \in Byte
    BY <1>1, ByteFacts
<1>3. <<a, b>> \in Seq(Byte) /\ Len(<<a, b>>) = 2 /\ Number(<<a, b>>) = 256 * a + b
    BY <1>2, TwoBytes
<1> QED
    BY <1>1, <1>3 DEF U16, a, b

(* Two bytes and two more make a number of four.                           *)
LEMMA FourBytes ==
    ASSUME NEW s \in Seq(Byte), NEW t \in Seq(Byte), Len(s) = 2, Len(t) = 2
    PROVE  /\ s \o t \in Seq(Byte) /\ Len(s \o t) = 4
           /\ Number(s \o t) = 65536 * Number(s) + Number(t)
<1> DEFINE u == s \o t
<1>1. s[1] \in Nat /\ s[2] \in Nat /\ t[1] \in Nat /\ t[2] \in Nat
    <2>1. 1 \in 1..2 /\ 2 \in 1..2 /\ \A b \in Byte : b \in Nat
        BY ByteFacts
    <2>2. s[1] \in Byte /\ s[2] \in Byte /\ t[1] \in Byte /\ t[2] \in Byte
        BY <2>1, ElementOfSeq
    <2> QED
        BY <2>1, <2>2
<1>2. Number(s) = 256 * s[1] + s[2] /\ Number(t) = 256 * t[1] + t[2]
    BY SmallNumbers
<1>3. /\ u \in Seq(Byte) /\ Len(u) = Len(s) + Len(t)
      /\ \A i \in 1..(Len(s) + Len(t)) : u[i] = IF i <= Len(s) THEN s[i] ELSE t[i - Len(s)]
    BY ConcatProperties
<1> HIDE DEF u
<1>4. Len(u) = 4 /\ u[1] = s[1] /\ u[2] = s[2] /\ u[3] = t[1] /\ u[4] = t[2]
    BY <1>3
<1>5. Number(u) = 256 * (256 * (256 * u[1] + u[2]) + u[3]) + u[4]
    BY <1>3, <1>4, SmallNumbers
<1>6. Number(u) = 65536 * Number(s) + Number(t)
    BY <1>1, <1>2, <1>4, <1>5
<1> QED
    BY <1>3, <1>4, <1>6 DEF u

\* Thirty-two bits over the wire.
U32(v) == U16(v \div 65536) \o U16(v % 65536)

(* Twice sixteen bits.                                                     *)
LEMMA TwiceU16 ==
    ASSUME NEW a \in Nat, NEW b \in Nat, a <= 65535, b <= 65535
    PROVE  /\ U16(a) \o U16(b) \in Seq(Byte) /\ Len(U16(a) \o U16(b)) = 4
           /\ Number(U16(a) \o U16(b)) = 65536 * a + b
<1> DEFINE s == U16(a)
           t == U16(b)
<1>1. s \in Seq(Byte) /\ Len(s) = 2 /\ Number(s) = a
    BY U16Facts
<1>2. t \in Seq(Byte) /\ Len(t) = 2 /\ Number(t) = b
    BY U16Facts
<1> HIDE DEF s, t
<1>3. /\ s \o t \in Seq(Byte) /\ Len(s \o t) = 4
      /\ Number(s \o t) = 65536 * Number(s) + Number(t)
    BY <1>1, <1>2, FourBytes
<1> QED
    BY <1>1, <1>2, <1>3 DEF s, t

(* Division with a remainder by 2^16.                                      *)
LEMMA Halves ==
    ASSUME NEW v \in Nat
    PROVE  \E a, b \in Nat : /\ a = v \div 65536 /\ b = v % 65536
                             /\ v = 65536 * a + b /\ b <= 65535
<1> DEFINE a == v \div 65536
           b == v % 65536
<1>1. v = 65536 * a + b /\ a \in Nat /\ b \in Nat /\ b <= 65535
    BY Z3T(30)
<1> HIDE DEF a, b
<1> QED
    BY <1>1 DEF a, b

(* So do thirty-two bits in four.                                          *)
LEMMA U32Facts ==
    ASSUME NEW v \in Nat, v \div 65536 <= 65535
    PROVE  U32(v) \in Seq(Byte) /\ Len(U32(v)) = 4 /\ Number(U32(v)) = v
<1>1. PICK a, b \in Nat : /\ a = v \div 65536 /\ b = v % 65536
                          /\ v = 65536 * a + b /\ b <= 65535
    BY Halves
<1>2. a <= 65535
    BY <1>1
<1>3. U32(v) = U16(a) \o U16(b)
    BY <1>1 DEF U32
<1>4. a <= 65535 /\ b <= 65535 /\ 65536 * a + b = v
    BY <1>1, <1>2
<1> DEFINE w == U16(a) \o U16(b)
<1>5. w \in Seq(Byte) /\ Len(w) = 4 /\ Number(w) = 65536 * a + b
    BY <1>4, TwiceU16
<1> HIDE DEF w
<1>6. w \in Seq(Byte) /\ Len(w) = 4 /\ Number(w) = v
    BY <1>4, <1>5
<1> QED
    BY <1>3, <1>6 DEF w

(* A string goes over the wire after its length.                           *)
LEMMA StrFacts ==
    ASSUME NEW s \in Seq(Byte), Len(s) < 256
    PROVE  /\ Str(s) \in Seq(Byte) /\ Len(Str(s)) = 1 + Len(s)
           /\ <<Len(s)>> \in Seq(Byte) /\ Len(<<Len(s)>>) = 1 /\ <<Len(s)>>[1] = Len(s)
           /\ Str(s) = <<Len(s)>> \o s
<1>1. Len(s) \in Byte
    <2>1. Len(s) \in Nat
        BY LenProperties
    <2> QED
        BY <2>1, ByteFacts
<1> DEFINE n == Len(s)
           t == <<n>>
<1> HIDE DEF n
<1>2. t \in Seq(Byte) /\ Len(t) = 1 /\ t[1] = n
    BY <1>1 DEF n
<1> HIDE DEF t
<1>3. t \o s \in Seq(Byte) /\ Len(t \o s) = 1 + n
    <2>1. t \o s \in Seq(Byte) /\ Len(t \o s) = Len(t) + Len(s)
        BY <1>2, ConcatProperties, Zenon
    <2> QED
        BY <1>2, <2>1 DEF n
<1> QED
    BY <1>2, <1>3 DEF Str, t, n

(* Where a string is, its length byte says how much to take.               *)
LEMMA StrAt ==
    ASSUME NEW s \in Seq(Byte), Len(s) < 256, NEW data \in Seq(Byte), NEW off \in Nat
    PROVE  /\ At(data, off, Str(s)) =>
                  /\ off < Len(data) /\ data[off + 1] = Len(s) /\ off + 1 + Len(s) <= Len(data)
                  /\ SubSeq(data, off + 2, off + 1 + Len(s)) = s
           /\ Cut(data, off, Str(s)) =>
                  (off # Len(data) => /\ off < Len(data) /\ data[off + 1] = Len(s)
                                      /\ off + 1 + Len(s) > Len(data))
<1> DEFINE t == <<Len(s)>>
<1>1. /\ Len(s) \in Nat /\ Len(data) \in Nat /\ t \in Seq(Byte) /\ Len(t) = 1 /\ t[1] = Len(s)
      /\ Str(s) = t \o s /\ Len(Str(s)) = 1 + Len(s)
    BY StrFacts, LenProperties
<1> HIDE DEF t
<1>2. ASSUME At(data, off, t) PROVE off < Len(data) /\ data[off + 1] = Len(s)
    <2>1. off + 1 <= Len(data) /\ data[off + 1] = t[1]
        BY <1>1, <1>2 DEF At
    <2> QED
        BY <1>1, <2>1
<1>3. ASSUME At(data, off, Str(s))
      PROVE  /\ off < Len(data) /\ data[off + 1] = Len(s) /\ off + 1 + Len(s) <= Len(data)
             /\ SubSeq(data, off + 2, off + 1 + Len(s)) = s
    <2>1. At(data, off, t) /\ At(data, off + 1, s)
        BY <1>1, <1>3, AtConcat
    <2>2. SubSeq(data, (off + 1) + 1, (off + 1) + Len(s)) = s
        BY <2>1, off + 1 \in Nat, AtTaken
    <2>3. (off + 1) + 1 = off + 2 /\ (off + 1) + Len(s) = off + 1 + Len(s)
        BY <1>1
    <2>4. off + 1 + Len(s) <= Len(data)
        BY <1>1, <2>1 DEF At
    <2> QED
        BY <1>2, <2>1, <2>2, <2>3, <2>4
<1>4. ASSUME Cut(data, off, Str(s)), off # Len(data)
      PROVE  off < Len(data) /\ data[off + 1] = Len(s) /\ off + 1 + Len(s) > Len(data)
    <2>1. off < Len(data) /\ off + 1 + Len(s) > Len(data)
        BY <1>1, <1>4 DEF Cut
    <2>2. Cut(data, off, t) \/ At(data, off, t)
        BY <1>1, <1>4, CutConcat
    <2>3. ~Cut(data, off, t)
        BY <1>1, <2>1 DEF Cut
    <2> QED
        BY <1>2, <2>1, <2>2, <2>3
<1> QED
    BY <1>3, <1>4

(* A character string is read back, and one cut short is refused.          *)
LEMMA CharStringReads ==
    ASSUME NEW s \in Seq(Byte), Len(s) < 256, NEW data \in Seq(Byte), NEW off \in Nat
    PROVE  /\ At(data, off, Str(s)) =>
                  parseCharString(data, off) = Got(s, off + Len(Str(s)))
           /\ Cut(data, off, Str(s)) => parseCharString(data, off) = Failed
<1>1. Len(s) \in Nat /\ Len(data) \in Nat /\ Len(Str(s)) = 1 + Len(s)
    BY StrFacts, LenProperties
<1>2. ASSUME At(data, off, Str(s))
      PROVE  parseCharString(data, off) = Got(s, off + Len(Str(s)))
    <2>1. /\ off < Len(data) /\ data[off + 1] = Len(s) /\ off + 1 + Len(s) <= Len(data)
          /\ SubSeq(data, off + 2, off + 1 + Len(s)) = s
        BY <1>2, StrAt
    <2>2. ~(off >= Len(data)) /\ ~(off + 1 + Len(s) > Len(data))
          /\ off + 1 + Len(s) = off + Len(Str(s))
        BY <1>1, <2>1
    <2> QED
        BY <2>1, <2>2, Zenon DEF parseCharString
<1>3. ASSUME Cut(data, off, Str(s)) PROVE parseCharString(data, off) = Failed
    <2>1. off >= Len(data) \/ (data[off + 1] = Len(s) /\ off + 1 + Len(s) > Len(data))
        BY <1>1, <1>3, StrAt
    <2> QED
        BY <2>1, Zenon DEF parseCharString
<1> QED
    BY <1>2, <1>3

-----------------------------------------------------------------------------
\* What a reader may return when its value is a sequence.
Readings(S) == [ok : BOOLEAN, value : Seq(S), off : Nat]

\* A row of the table of parseWireName: the labels from the offset o on.
LabelRow(data, f, o) ==
    IF o = Len(data) THEN Failed
    ELSE LET n == data[o + 1]
             rest == f[o + 1 + n]
         IN  CASE n = 0                                  -> Got(<<>>, o + 1)
               [] n >= 192 \/ o + 1 + n > Len(data)      -> Failed
               [] n \in 1..191 /\ o + 1 + n <= Len(data) ->
                     [rest EXCEPT !.value =
                         Append(SubSeq(data, o + 2, o + 1 + n), Dot) \o @]

\* g is that table.
LabelTable(g, data) == \A o \in 0..Len(data) : g[o] = LabelRow(data, g, o)

(* The rows of the table, case by case.                                    *)
LEMMA LabelRows ==
    ASSUME NEW data \in Seq(Byte), NEW f, NEW o \in 0..Len(data)
    PROVE  /\ o = Len(data) => LabelRow(data, f, o) = Failed
           /\ o # Len(data) =>
                  /\ o + 1 \in 1..Len(data) /\ data[o + 1] \in 0..255
                  /\ data[o + 1] = 0 => LabelRow(data, f, o) = Got(<<>>, o + 1)
                  /\ data[o + 1] >= 192 => LabelRow(data, f, o) = Failed
                  /\ data[o + 1] # 0 /\ o + 1 + data[o + 1] > Len(data) =>
                         LabelRow(data, f, o) = Failed
                  /\ data[o + 1] \in 1..191 /\ o + 1 + data[o + 1] <= Len(data) =>
                         LabelRow(data, f, o) =
                             [f[o + 1 + data[o + 1]] EXCEPT !.value =
                                 Append(SubSeq(data, o + 2, o + 1 + data[o + 1]), Dot) \o @]
<1>1. Len(data) \in Nat /\ \A i \in 1..Len(data) : data[i] \in Nat /\ data[i] < 256
    BY LenProperties, ByteFacts
<1>2. ASSUME o # Len(data) PROVE o + 1 \in 1..Len(data) /\ data[o + 1] \in 0..255
    <2>1. o + 1 \in 1..Len(data)
        BY <1>1, <1>2
    <2>2. data[o + 1] \in Nat /\ data[o + 1] < 256
        BY <1>1, <2>1
    <2>3. \A k \in Nat : k < 256 => k \in 0..255
        OBVIOUS
    <2> QED
        BY <2>1, <2>2, <2>3, Zenon
<1>3. o = Len(data) => LabelRow(data, f, o) = Failed
    BY DEF LabelRow
<1> DEFINE n == data[o + 1]
           e == [f[o + 1 + n] EXCEPT !.value =
                    Append(SubSeq(data, o + 2, o + 1 + n), Dot) \o @]
           L == Len(data)
<1>4. o # L => LabelRow(data, f, o) =
          CASE n = 0                           -> Got(<<>>, o + 1)
            [] n >= 192 \/ o + 1 + n > L       -> Failed
            [] n \in 1..191 /\ o + 1 + n <= L  -> e
    BY DEF LabelRow
<1> HIDE DEF n, e, L
<1>5. ASSUME o # L, n \in 0..255
      PROVE  /\ n = 0 => LabelRow(data, f, o) = Got(<<>>, o + 1)
             /\ n >= 192 => LabelRow(data, f, o) = Failed
             /\ n # 0 /\ o + 1 + n > L => LabelRow(data, f, o) = Failed
             /\ n \in 1..191 /\ o + 1 + n <= L => LabelRow(data, f, o) = e
    <2>1. L \in Nat /\ o + 1 <= L /\ o \in Nat
        <3>1. L \in Nat /\ o \in 0..L
            BY <1>1 DEF L
        <3> QED
            BY <1>5, <3>1
    <2>2. CASE n = 0
        <3>1. ~(n >= 192 \/ o + 1 + n > L) /\ ~(n \in 1..191 /\ o + 1 + n <= L)
            BY <1>5, <2>1, <2>2
        <3>2. LabelRow(data, f, o) = Got(<<>>, o + 1)
            BY <1>4, <1>5, <2>2, <3>1, Zenon
        <3> QED
            BY <2>2, <3>1, <3>2
    <2>3. CASE n # 0 /\ (n >= 192 \/ o + 1 + n > L)
        <3>1. ~(n \in 1..191 /\ o + 1 + n <= L)
            BY <1>5, <2>1, <2>3
        <3>2. LabelRow(data, f, o) = Failed
            BY <1>4, <1>5, <2>3, <3>1, Zenon
        <3> QED
            BY <2>3, <3>1, <3>2
    <2>4. CASE n \in 1..191 /\ o + 1 + n <= L
        <3>1. n # 0 /\ ~(n >= 192) /\ ~(o + 1 + n > L)
            BY <1>5, <2>1, <2>4
        <3>2. LabelRow(data, f, o) = e
            BY <1>4, <1>5, <2>4, <3>1, Zenon
        <3> QED
            BY <3>1, <3>2
    <2> QED
        BY <1>5, <2>1, <2>2, <2>3, <2>4
<1>6. o # Len(data) => n \in 0..255
    BY <1>2 DEF n
<1> QED
    BY <1>2, <1>3, <1>5, <1>6 DEF n, e, L

(* There is a table, and parseWireName reads it.                           *)
LEMMA LabelTableRead ==
    ASSUME NEW data \in Seq(Byte)
    PROVE  \E g : /\ LabelTable(g, data)
                  /\ \A off : parseWireName(data, off) =
                         IF off > Len(data) \/ ~g[off].ok THEN Failed
                         ELSE IF g[off].value = <<>> THEN [g[off] EXCEPT !.value = <<Dot>>]
                         ELSE g[off]
<1> DEFINE L == Len(data)
           V == Readings(Byte)
           IsTable(f) == f = [o \in 0..Len(data) |-> LabelRow(data, f, o)]
           g == CHOOSE f : IsTable(f)
           Label(o) == Append(SubSeq(data, o + 2, o + 1 + data[o + 1]), Dot)
           Follows(o) == /\ o # L /\ data[o + 1] \in 1..191
                         /\ o + 1 + data[o + 1] <= L
           next == [o \in 0..L |-> IF Follows(o) THEN o + 1 + data[o + 1] ELSE L + 1]
           base == [o \in 0..L |-> IF o # L /\ data[o + 1] = 0 THEN Got(<<>>, o + 1) ELSE Failed]
           step == [p \in (0..L) \X V |-> IF Follows(p[1])
                                          THEN [p[2] EXCEPT !.value = Label(p[1]) \o @]
                                          ELSE Failed]
<1>1. L \in Nat /\ \A i \in 1..L : data[i] \in Byte /\ data[i] \in Nat /\ data[i] < 256
    BY LenProperties, ByteFacts
<1>2. /\ Failed \in V
      /\ \A o \in 0..L : Got(<<>>, o + 1) \in V
      /\ \A r \in V : r.ok \in BOOLEAN /\ r.value \in Seq(Byte) /\ r.off \in Nat
      /\ \A r \in V, s \in Seq(Byte) : s \o r.value \in Seq(Byte)
      /\ \A r \in V, s \in Seq(Byte) : [r EXCEPT !.value = s \o @] \in V
    <2>1. <<>> \in Seq(Byte)
        BY EmptySeq
    <2>2. Failed \in V /\ \A o \in 0..L : Got(<<>>, o + 1) \in V
        BY <1>1, <2>1 DEF Readings, Failed, Got
    <2>3. \A r \in V : r.ok \in BOOLEAN /\ r.value \in Seq(Byte) /\ r.off \in Nat
        BY DEF Readings
    <2>4. ASSUME NEW r \in V, NEW s \in Seq(Byte)
          PROVE  s \o r.value \in Seq(Byte) /\ [r EXCEPT !.value = s \o @] \in V
        <3>1. s \o r.value \in Seq(Byte)
            BY <2>3, ConcatProperties
        <3> DEFINE z == s \o r.value
        <3> HIDE DEF z
        <3>2. [r EXCEPT !.value = z] \in V
            BY <3>1 DEF Readings, z
        <3> QED
            BY <3>1, <3>2 DEF z
    <2> HIDE DEF V
    <2> QED
        BY <2>2, <2>3, <2>4
<1>3. ASSUME NEW o \in 0..L, Follows(o) PROVE Label(o) \in Seq(Byte)
    <2> DEFINE n == data[o + 1]
    <2>1. n \in Nat /\ o + 1 + n <= L
        BY <1>1, <1>3
    <2> HIDE DEF n
    <2>2. \A i \in (o + 2)..(o + 1 + n) : data[i] \in Byte
        BY <1>1, <2>1
    <2>3. SubSeq(data, o + 2, o + 1 + n) \in Seq(Byte)
        BY <2>1, <2>2, SubSeqProperties, o + 2 \in Int, o + 1 + n \in Int
    <2>4. Dot \in Byte
        BY ByteFacts DEF Dot
    <2> QED
        BY <2>3, <2>4, AppendProperties DEF n
<1>4. next \in [0..L -> Nat] /\ Ahead(next, L)
    <2> SUFFICES ASSUME NEW o \in 0..L PROVE next[o] \in Nat /\ next[o] > o
        <3> HIDE DEF Follows
        <3> QED
            BY DEF Ahead
    <2>1. CASE Follows(o)
        <3> DEFINE n == data[o + 1]
        <3>1. n \in 1..191
            BY <2>1
        <3>2. next[o] = o + 1 + n
            <4> HIDE DEF Follows
            <4> QED
                BY <2>1
        <3> HIDE DEF n, next
        <3> QED
            BY <3>1, <3>2
    <2>2. CASE ~Follows(o)
        <3> HIDE DEF Follows
        <3>1. next[o] = L + 1
            BY <2>2
        <3> QED
            BY <1>1, <3>1
    <2> QED
        BY <2>1, <2>2
<1>5. base \in [0..L -> V]
    <2> HIDE DEF V
    <2> QED
        BY <1>2
<1>6. step \in [(0..L) \X V -> V]
    <2> SUFFICES ASSUME NEW p \in (0..L) \X V PROVE step[p] \in V
        <3> HIDE DEF Follows, Label
        <3> QED
            OBVIOUS
    <2> HIDE DEF V, Label, Follows
    <2> QED
        BY <1>2, <1>3
<1>7. PICK f \in [0..L -> V] : Recurs(f, L, base, next, step)
    <2>1. L \in Nat /\ base \in [0..L -> V] /\ next \in [0..L -> Nat]
        BY <1>1, <1>4, <1>5
    <2>2. Ahead(next, L) /\ step \in [(0..L) \X V -> V]
        BY <1>4, <1>6
    <2> HIDE DEF next, base, step, V, L
    <2> QED
        BY <2>1, <2>2, Backwards, Zenon
<1>8. ASSUME NEW o \in 0..L PROVE f[o] = LabelRow(data, f, o)
    <2>1. CASE Follows(o)
        <3>1. next[o] = o + 1 + data[o + 1] /\ next[o] <= L /\ next[o] \in 0..L
            <4> DEFINE n == data[o + 1]
            <4>1. n \in 1..191 /\ o + 1 + n <= L
                BY <2>1
            <4>2. next[o] = o + 1 + n
                <5> HIDE DEF Follows
                <5> QED
                    BY <2>1
            <4> HIDE DEF n, L, next
            <4>3. o + 1 + n \in 0..L
                BY <1>1, <4>1
            <4> QED
                BY <4>1, <4>2, <4>3 DEF n
        <3>2. f[o] = step[<<o, f[next[o]]>>] /\ f[next[o]] \in V
            BY <1>7, <3>1, ZenonT(60) DEF Recurs
        <3>3. f[o] = [f[next[o]] EXCEPT !.value = Label(o) \o @]
            <4> DEFINE r == f[next[o]]
            <4> HIDE DEF r
            <4>1. r \in V /\ f[o] = step[<<o, r>>]
                BY <3>2 DEF r
            <4>2. <<o, r>> \in (0..L) \X V
                BY <4>1
            <4>3. step[<<o, r>>] = [r EXCEPT !.value = Label(o) \o @]
                <5> HIDE DEF Follows, Label, V, L
                <5> QED
                    BY <2>1, <4>2
            <4> HIDE DEF step
            <4> QED
                BY <4>1, <4>3 DEF r
        <3>4. LabelRow(data, f, o) = [f[next[o]] EXCEPT !.value = Label(o) \o @]
            <4>1. o # Len(data) /\ data[o + 1] \in 1..191 /\ o + 1 + data[o + 1] <= Len(data)
                BY <2>1
            <4>2. LabelRow(data, f, o) =
                      [f[o + 1 + data[o + 1]] EXCEPT !.value =
                          Append(SubSeq(data, o + 2, o + 1 + data[o + 1]), Dot) \o @]
                <5> HIDE DEF next, Follows
                <5> QED
                    BY <4>1, LabelRows
            <4> HIDE DEF next
            <4> QED
                BY <3>1, <4>2
        <3> QED
            BY <3>3, <3>4
    <2>2. CASE ~Follows(o)
        <3>1. f[o] = base[o]
            <4>1. next[o] = L + 1
                <5> HIDE DEF Follows
                <5> QED
                    BY <2>2
            <4>2. ~(next[o] <= L)
                <5> HIDE DEF next, L
                <5> QED
                    BY <1>1, <4>1
            <4> QED
                BY <1>7, <4>2 DEF Recurs
        <3>2. base[o] = IF o # L /\ data[o + 1] = 0 THEN Got(<<>>, o + 1) ELSE Failed
            OBVIOUS
        <3> HIDE DEF base
        <3>3. CASE o = L
            BY <3>1, <3>2, <3>3, LabelRows
        <3>4. CASE o # L
            <4>1. data[o + 1] \in 0..255
                BY <3>4, LabelRows
            <4>2. CASE data[o + 1] = 0
                BY <3>1, <3>2, <3>4, <4>2, LabelRows
            <4>3. CASE data[o + 1] # 0
                <5>1. f[o] = Failed
                    BY <3>1, <3>2, <4>3
                <5>2. data[o + 1] >= 192 \/ o + 1 + data[o + 1] > Len(data)
                    <6> DEFINE n == data[o + 1]
                    <6>1. ~(n \in 1..191) \/ ~(o + 1 + n <= L)
                        BY <2>2, <3>4
                    <6>2. n \in 0..255 /\ n # 0 /\ L \in Nat
                        BY <1>1, <4>1, <4>3
                    <6> HIDE DEF n, L
                    <6>3. n >= 192 \/ o + 1 + n > L
                        BY <6>1, <6>2
                    <6> QED
                        BY <6>3 DEF n, L
                <5>3. LabelRow(data, f, o) = Failed
                    BY <3>4, <4>3, <5>2, LabelRows
                <5> QED
                    BY <5>1, <5>3
            <4> QED
                BY <4>2, <4>3
        <3> QED
            BY <3>3, <3>4
    <2> QED
        BY <2>1, <2>2
<1>9. IsTable(g)
    <2>1. IsTable(f)
        <3>1. f = [o \in 0..L |-> f[o]]
            BY <1>7
        <3> QED
            BY <1>8, <3>1
    <2> HIDE DEF IsTable
    <2> QED
        BY <2>1
<1>10. LabelTable(g, data)
    <2> HIDE DEF g
    <2> QED
        BY <1>9 DEF LabelTable
<1>11. ASSUME NEW off
       PROVE  parseWireName(data, off) =
                  IF off > Len(data) \/ ~g[off].ok THEN Failed
                  ELSE IF g[off].value = <<>> THEN [g[off] EXCEPT !.value = <<Dot>>]
                  ELSE g[off]
    BY Zenon DEF parseWireName, LabelRow
<1> HIDE DEF g
<1> QED
    BY <1>10, <1>11

-----------------------------------------------------------------------------
(* A value that was read may be replaced.                                  *)
LEMMA GotValue ==
    ASSUME NEW v, NEW x, NEW n
    PROVE  [Got(v, n) EXCEPT !.value = x] = Got(x, n)
<1> DEFINE r == Got(v, n)
           V == {v, x}
           O == {n}
           e == [r EXCEPT !.value = x]
<1>1. r \in [ok : BOOLEAN, value : V, off : O] /\ r.ok = TRUE /\ r.off = n
    BY DEF Got
<1>2. x \in V /\ v \in V /\ n \in O
    OBVIOUS
<1> HIDE DEF r, V, O
<1>3. /\ e \in [ok : BOOLEAN, value : V, off : O]
      /\ e.ok = TRUE /\ e.off = n /\ e.value = x
    BY <1>1, <1>2
<1> HIDE DEF e
<1>4. e = Got(x, n)
    BY <1>3 DEF Got
<1> QED
    BY <1>4 DEF r, e

\* A label of a name on the wire.
WireLabel == {s \in Seq(Byte) : Len(s) \in 1..191}

\* A name as it is shown, with a dot after every label.
Dotted(labels) == FlattenSeq([i \in DOMAIN labels |-> Append(labels[i], Dot)])

(* A name is its first label and the rest of it, on the wire and shown.    *)
LEMMA NameParts ==
    ASSUME NEW labels \in Seq(WireLabel)
    PROVE  /\ WireLabels(labels) \in Seq(Byte) /\ Dotted(labels) \in Seq(Byte)
           /\ labels = <<>> => WireLabels(labels) = <<>> /\ Dotted(labels) = <<>>
           /\ labels # <<>> =>
                  /\ labels[1] \in WireLabel /\ Tail(labels) \in Seq(WireLabel)
                  /\ Len(Tail(labels)) = Len(labels) - 1
                  /\ WireLabels(labels) = Str(labels[1]) \o WireLabels(Tail(labels))
                  /\ Dotted(labels) = Append(labels[1], Dot) \o Dotted(Tail(labels))
<1> DEFINE F == [l \in WireLabel |-> Str(l)]
           E == [l \in WireLabel |-> Append(l, Dot)]
<1>1. ASSUME NEW l \in WireLabel PROVE Str(l) \in Seq(Byte) /\ Append(l, Dot) \in Seq(Byte)
    <2>1. l \in Seq(Byte) /\ Len(l) < 256
        BY \A k \in 1..191 : k < 256 DEF WireLabel
    <2>2. Dot \in Byte
        BY ByteFacts DEF Dot
    <2>3. Str(l) \in Seq(Byte)
        BY <2>1, StrFacts
    <2>4. Append(l, Dot) \in Seq(Byte)
        BY <2>1, <2>2, AppendProperties
    <2> QED
        BY <2>3, <2>4
<1>2. F \in [WireLabel -> Seq(Byte)] /\ E \in [WireLabel -> Seq(Byte)]
    BY <1>1
<1>3. ASSUME NEW u \in Seq(WireLabel)
      PROVE  /\ WireLabels(u) = Laid(F, u)
             /\ Dotted(u) = Laid(E, u)
    <2>1. \A i \in DOMAIN u : u[i] \in WireLabel
        BY LenProperties
    <2>2. \A i \in DOMAIN u : F[u[i]] = Str(u[i]) /\ E[u[i]] = Append(u[i], Dot)
        BY <2>1
    <2> HIDE DEF F, E
    <2>3. [i \in DOMAIN u |-> F[u[i]]] = [i \in DOMAIN u |-> Str(u[i])]
        BY <2>2
    <2>4. [i \in DOMAIN u |-> E[u[i]]] = [i \in DOMAIN u |-> Append(u[i], Dot)]
        BY <2>2
    <2> QED
        BY <2>3, <2>4 DEF WireLabels, Dotted, Laid
<1>4. \A l \in WireLabel : F[l] = Str(l) /\ E[l] = Append(l, Dot)
    OBVIOUS
<1> HIDE DEF F, E
<1>5. LaidFirst(F, labels, WireLabel, Byte) /\ LaidFirst(E, labels, WireLabel, Byte)
    BY <1>2, FlattenMap
<1> QED
    BY <1>3, <1>4, <1>5 DEF LaidFirst

\* The reading a is r, with s before its value.
Extends(a, r, s, S) ==
    /\ a \in Readings(S) /\ a.ok = r.ok /\ a.off = r.off
    /\ a.value = s \o r.value

(* A reading with more put before its value extends it.                    *)
LEMMA ReadingGrows ==
    ASSUME NEW S, NEW r \in Readings(S), NEW s \in Seq(S)
    PROVE  Extends([r EXCEPT !.value = s \o @], r, s, S)
<1> DEFINE v == r.value
           x == s \o v
<1>1. v \in Seq(S)
    BY DEF Readings
<1> HIDE DEF v
<1>2. x \in Seq(S)
    BY <1>1, ConcatProperties
<1> HIDE DEF x
<1>3. Extends([r EXCEPT !.value = x], r, s, S)
    <2>1. [r EXCEPT !.value = x] \in Readings(S) /\ [r EXCEPT !.value = x].ok = r.ok
          /\ [r EXCEPT !.value = x].off = r.off /\ [r EXCEPT !.value = x].value = x
        BY <1>2 DEF Readings
    <2> QED
        BY <2>1 DEF Extends, x, v
<1> QED
    BY <1>3 DEF x, v

(* A reading that extends an extended one extends the first by both.       *)
LEMMA ExtendsTwice ==
    ASSUME NEW S, NEW r \in Readings(S), NEW s \in Seq(S), NEW t \in Seq(S), NEW a, NEW b,
           Extends(a, b, s, S), Extends(b, r, t, S)
    PROVE  Extends(a, r, s \o t, S)
<1>1. r.value \in Seq(S)
    BY DEF Readings
<1> DEFINE v == r.value
<1>2. s \o (t \o r.value) = (s \o t) \o r.value
    <2> HIDE DEF v
    <2>1. (s \o t) \o v = s \o (t \o v)
        BY <1>1, ConcatAssociative
    <2> QED
        BY <2>1 DEF v
<1> QED
    BY <1>2 DEF Extends

(* A row of the table at a label extends the one after it by that label.   *)
LEMMA LabelRowExtends ==
    ASSUME NEW data \in Seq(Byte), NEW g, LabelTable(g, data), NEW l \in WireLabel,
           NEW off \in Nat, At(data, off, Str(l)),
           g[off + Len(Str(l))] \in Readings(Byte)
    PROVE  Extends(g[off], g[off + Len(Str(l))], Append(l, Dot), Byte)
<1> DEFINE n == Len(l)
           r == g[off + 1 + n]
<1>1. l \in Seq(Byte) /\ n \in 1..191
    BY DEF WireLabel
<1> HIDE DEF n
<1>2. n < 256 /\ n \in Nat
    BY <1>1
<1>3. Len(Str(l)) = 1 + n
    BY <1>1, <1>2, StrFacts DEF n
<1>4. /\ off < Len(data) /\ data[off + 1] = n /\ off + 1 + n <= Len(data)
      /\ SubSeq(data, off + 2, off + 1 + n) = l
    BY <1>1, <1>2, StrAt DEF n
<1>5. off \in 0..Len(data) /\ off # Len(data)
    BY <1>4, LenProperties
<1>6. g[off] = LabelRow(data, g, off)
    BY <1>5 DEF LabelTable
<1>7. g[off] = [r EXCEPT !.value = Append(l, Dot) \o @]
    <2>1. data[off + 1] \in 1..191 /\ off + 1 + data[off + 1] <= Len(data)
        BY <1>1, <1>4
    <2>2. LabelRow(data, g, off) =
              [g[off + 1 + data[off + 1]] EXCEPT !.value =
                  Append(SubSeq(data, off + 2, off + 1 + data[off + 1]), Dot) \o @]
        BY <1>5, <2>1, LabelRows
    <2> QED
        BY <1>4, <1>6, <2>2
<1>8. off + Len(Str(l)) = off + 1 + n
    BY <1>2, <1>3
<1>9. r \in Readings(Byte)
    BY <1>8
<1>10. Append(l, Dot) \in Seq(Byte)
    BY <1>1, AppendProperties, ByteFacts DEF Dot
<1> HIDE DEF r
<1>11. Extends(g[off], r, Append(l, Dot), Byte)
    <2> DEFINE s == Append(l, Dot)
    <2> HIDE DEF s
    <2>1. s \in Seq(Byte) /\ g[off] = [r EXCEPT !.value = s \o @]
        BY <1>7, <1>10 DEF s
    <2>2. Extends([r EXCEPT !.value = s \o @], r, s, Byte)
        BY <1>9, <2>1, ReadingGrows
    <2>3. Extends(g[off], r, s, Byte)
        BY <2>1, <2>2
    <2> QED
        BY <2>3 DEF s
<1> QED
    BY <1>8, <1>11 DEF r

\* What the table g of the data holds where the labels of a name are.
NameRows(g, data, labels) ==
    \A off \in Nat :
        /\ At(data, off, WireLabels(labels)) =>
               \A r \in Readings(Byte) :
                   r = g[off + Len(WireLabels(labels))] =>
                       Extends(g[off], r, Dotted(labels), Byte)
        /\ Cut(data, off, WireName(labels)) => g[off] \in Readings(Byte) /\ ~g[off].ok

(* The rows of no label.                                                   *)
LEMMA NameRowsOfNone ==
    ASSUME NEW data \in Seq(Byte), NEW g, LabelTable(g, data)
    PROVE  NameRows(g, data, <<>>)
<1>1. WireLabels(<<>>) = <<>> /\ Dotted(<<>>) = <<>>
    BY NameParts, EmptySeq
<1> SUFFICES ASSUME NEW off \in Nat
             PROVE  /\ \A r \in Readings(Byte) :
                           r = g[off + Len(<<>>)] => Extends(g[off], r, <<>>, Byte)
                    /\ Cut(data, off, WireName(<<>>)) =>
                           g[off] \in Readings(Byte) /\ ~g[off].ok
    BY <1>1 DEF NameRows
<1>2. ASSUME NEW r \in Readings(Byte), r = g[off + Len(<<>>)]
      PROVE  Extends(g[off], r, <<>>, Byte)
    <2>1. off + Len(<<>>) = off
        BY EmptySeq
    <2>2. r.value \in Seq(Byte)
        BY DEF Readings
    <2>3. <<>> \o r.value = r.value
        BY <2>2, ConcatEmptySeq
    <2> QED
        BY <1>2, <2>1, <2>3 DEF Extends
<1>3. ASSUME Cut(data, off, WireName(<<>>)) PROVE g[off] \in Readings(Byte) /\ ~g[off].ok
    <2>1. <<0>> \in Seq(Byte) /\ Len(<<0>>) = 1
        BY ByteFacts
    <2>2. WireName(<<>>) = <<0>>
        BY <1>1, <2>1, ConcatEmptySeq DEF WireName
    <2>3. off = Len(data) /\ off \in 0..Len(data)
        <3>1. off <= Len(data) /\ Len(data) < off + 1
            BY <1>3, <2>1, <2>2 DEF Cut
        <3>2. Len(data) \in Nat
            BY LenProperties
        <3> QED
            BY <3>1, <3>2
    <2>4. g[off] = LabelRow(data, g, off)
        BY <2>3 DEF LabelTable
    <2>5. g[off] = Failed
        BY <2>3, <2>4, LabelRows
    <2>6. <<>> \in Seq(Byte)
        BY EmptySeq
    <2> QED
        BY <2>5, <2>6 DEF Failed, Readings
<1> QED
    BY <1>2, <1>3

(* The rows of a name, from those of the labels after the first.           *)
LEMMA NameRowsOfMore ==
    ASSUME NEW data \in Seq(Byte), NEW g, LabelTable(g, data),
           NEW labels \in Seq(WireLabel), labels # <<>>, NameRows(g, data, Tail(labels))
    PROVE  NameRows(g, data, labels)
<1> DEFINE l == labels[1]
           t == Tail(labels)
           w == Str(l)
           u == WireLabels(t)
<1>1. /\ l \in WireLabel /\ t \in Seq(WireLabel)
      /\ WireLabels(labels) = w \o u /\ Dotted(labels) = Append(l, Dot) \o Dotted(t)
    BY NameParts
<1>2. l \in Seq(Byte) /\ Len(l) \in 1..191
    BY <1>1 DEF WireLabel
<1> DEFINE n == Len(l)
<1> HIDE DEF l, t
<1>3. n \in Nat /\ n < 256 /\ n > 0
    <2>1. n \in 1..191
        BY <1>2
    <2> HIDE DEF n
    <2> QED
        BY <2>1
<1> HIDE DEF n
<1>4. w \in Seq(Byte) /\ Len(w) = 1 + n
    BY <1>2, <1>3, StrFacts DEF n
<1>5. u \in Seq(Byte) /\ Dotted(t) \in Seq(Byte) /\ Append(l, Dot) \in Seq(Byte)
    <2>1. u \in Seq(Byte) /\ Dotted(t) \in Seq(Byte)
        BY <1>1, NameParts
    <2>2. Dot \in Byte
        BY ByteFacts DEF Dot
    <2>3. Append(l, Dot) \in Seq(Byte)
        BY <1>2, <2>2, AppendProperties
    <2> QED
        BY <2>1, <2>3
<1>6. NameRows(g, data, t)
    BY DEF t
<1>7. <<0>> \in Seq(Byte)
    BY ByteFacts
<1>8. WireName(labels) = w \o WireName(t) /\ WireName(t) \in Seq(Byte)
    <2> DEFINE z == <<0>>
    <2> HIDE DEF w, u, z
    <2>4. w \in Seq(Byte) /\ u \in Seq(Byte) /\ z \in Seq(Byte)
        BY <1>4, <1>5, <1>7 DEF z
    <2>2. u \o z \in Seq(Byte)
        BY <2>4, ConcatProperties
    <2>3. (w \o u) \o z = w \o (u \o z)
        BY <2>4, ConcatAssociative
    <2>1. (w \o u) \o <<0>> = w \o (u \o <<0>>) /\ u \o <<0>> \in Seq(Byte)
        BY <2>2, <2>3 DEF z
    <2> QED
        BY <1>1, <2>1 DEF WireName, u
<1> SUFFICES ASSUME NEW off \in Nat
             PROVE  /\ At(data, off, WireLabels(labels)) =>
                           \A r \in Readings(Byte) :
                               r = g[off + Len(WireLabels(labels))] =>
                                   Extends(g[off], r, Dotted(labels), Byte)
                    /\ Cut(data, off, WireName(labels)) =>
                           g[off] \in Readings(Byte) /\ ~g[off].ok
    BY DEF NameRows
<1> DEFINE k == off + Len(w)
<1>9. k \in Nat
    BY <1>3, <1>4
<1>10. ASSUME At(data, off, w), g[k] \in Readings(Byte)
       PROVE  Extends(g[off], g[k], Append(l, Dot), Byte)
    BY <1>1, <1>10, LabelRowExtends
<1>11. ASSUME At(data, off, WireLabels(labels)), NEW r \in Readings(Byte),
              r = g[off + Len(WireLabels(labels))]
       PROVE  Extends(g[off], r, Dotted(labels), Byte)
    <2> HIDE DEF w, u
    <2>1. At(data, off, w) /\ At(data, k, u)
        BY <1>1, <1>4, <1>5, <1>11, AtConcat, ZenonT(60)
    <2>2. off + Len(WireLabels(labels)) = k + Len(u)
        <3>1. Len(w \o u) = Len(w) + Len(u)
            BY <1>4, <1>5, ConcatProperties
        <3>2. Len(w) \in Nat /\ Len(u) \in Nat
            BY <1>4, <1>5, LenProperties
        <3> QED
            BY <1>1, <3>1, <3>2
    <2> HIDE DEF k
    <2>3. r = g[k + Len(u)]
        BY <1>11, <2>2
    <2>4. Extends(g[k], r, Dotted(t), Byte)
        BY <1>6, <1>9, <2>1, <2>3 DEF NameRows, u
    <2>5. Extends(g[off], g[k], Append(l, Dot), Byte)
        BY <1>10, <2>1, <2>4 DEF Extends
    <2> QED
        BY <1>1, <1>5, <2>4, <2>5, ExtendsTwice
<1>12. ASSUME Cut(data, off, WireName(labels)) PROVE g[off] \in Readings(Byte) /\ ~g[off].ok
    <2>1. \/ Cut(data, off, w)
          \/ At(data, off, w) /\ Cut(data, k, WireName(t))
        <3> HIDE DEF w, u
        <3> QED
            BY <1>4, <1>8, <1>12, CutConcat
    <2>2. CASE Cut(data, off, w)
        <3>1. off <= Len(data) /\ off \in 0..Len(data)
            <4>1. Len(data) \in Nat
                BY LenProperties
            <4> QED
                BY <2>2, <4>1 DEF Cut
        <3>2. g[off] = LabelRow(data, g, off)
            BY <3>1 DEF LabelTable
        <3>3. off # Len(data) => data[off + 1] = n /\ off + 1 + n > Len(data)
            BY <1>2, <1>3, <2>2, StrAt DEF n
        <3>4. g[off] = Failed
            <4>1. CASE off = Len(data)
                BY <3>1, <3>2, <4>1, LabelRows
            <4>2. CASE off # Len(data)
                <5>1. data[off + 1] # 0 /\ off + 1 + data[off + 1] > Len(data)
                    BY <1>3, <3>3, <4>2
                <5> QED
                    BY <3>1, <3>2, <4>2, <5>1, LabelRows
            <4> QED
                BY <4>1, <4>2
        <3>5. <<>> \in Seq(Byte)
            BY EmptySeq
        <3> QED
            BY <3>4, <3>5 DEF Failed, Readings
    <2>3. CASE At(data, off, w) /\ Cut(data, k, WireName(t))
        <3> HIDE DEF w, k
        <3>1. g[k] \in Readings(Byte) /\ ~g[k].ok
            BY <1>6, <1>9, <2>3 DEF NameRows
        <3>2. Extends(g[off], g[k], Append(l, Dot), Byte)
            BY <1>10, <2>3, <3>1
        <3> QED
            BY <3>1, <3>2 DEF Extends
    <2> QED
        BY <2>1, <2>2, <2>3
<1> QED
    BY <1>11, <1>12

(* The rows of every name.                                                 *)
LEMMA NameRowsOfAll ==
    ASSUME NEW data \in Seq(Byte), NEW g, LabelTable(g, data)
    PROVE  \A labels \in Seq(WireLabel) : NameRows(g, data, labels)
<1> DEFINE G == {n \in Nat : \A s \in Seq(WireLabel) : Len(s) = n => NameRows(g, data, s)}
<1>1. 0 \in G
    <2>1. ASSUME NEW s \in Seq(WireLabel), Len(s) = 0 PROVE NameRows(g, data, s)
        <3>1. s = <<>>
            BY <2>1, EmptySeq
        <3> QED
            BY <3>1, NameRowsOfNone
    <2> QED
        BY <2>1
<1>2. ASSUME NEW n \in Nat, n \in G PROVE n + 1 \in G
    <2>1. ASSUME NEW s \in Seq(WireLabel), Len(s) = n + 1 PROVE NameRows(g, data, s)
        <3>1. s # <<>>
            BY <2>1, EmptySeq
        <3>2. Tail(s) \in Seq(WireLabel) /\ Len(Tail(s)) = n
            BY <2>1, <3>1, NameParts
        <3>3. NameRows(g, data, Tail(s))
            BY <1>2, <3>2
        <3> QED
            BY <3>1, <3>3, NameRowsOfMore
    <2> QED
        BY <2>1
<1> HIDE DEF G
<1>3. \A n \in Nat : n \in G
    BY <1>1, <1>2, NatSetInduction
<1> QED
    BY <1>3, LenProperties DEF G

(* The bytes of a name, and what is shown of it.                           *)
LEMMA NameFacts ==
    ASSUME NEW labels \in Seq(WireLabel)
    PROVE  /\ WireName(labels) \in Seq(Byte)
           /\ Len(WireName(labels)) = Len(WireLabels(labels)) + 1
           /\ Shown("name", labels) = IF Dotted(labels) = <<>> THEN <<Dot>> ELSE Dotted(labels)
<1>1. WireLabels(labels) \in Seq(Byte) /\ <<0>> \in Seq(Byte) /\ Len(<<0>>) = 1
    <2>1. <<0>> \in Seq(Byte) /\ Len(<<0>>) = 1
        BY ByteFacts
    <2> QED
        BY <2>1, NameParts
<1>2. WireName(labels) \in Seq(Byte) /\ Len(WireName(labels)) = Len(WireLabels(labels)) + 1
    BY <1>1, ConcatProperties DEF WireName
<1>3. labels # <<>> => Dotted(labels) # <<>>
    <2> SUFFICES ASSUME labels # <<>> PROVE Dotted(labels) # <<>>
        OBVIOUS
    <2> DEFINE a == Append(labels[1], Dot)
               b == Dotted(Tail(labels))
    <2>1. Dotted(labels) = a \o b /\ labels[1] \in WireLabel /\ Tail(labels) \in Seq(WireLabel)
        BY NameParts
    <2>2. b \in Seq(Byte)
        BY <2>1, NameParts
    <2>3. labels[1] \in Seq(Byte) /\ Dot \in Byte
        <3>1. Dot \in Byte
            BY ByteFacts DEF Dot
        <3> QED
            BY <2>1, <3>1 DEF WireLabel
    <2>4. a \in Seq(Byte) /\ Len(a) = Len(labels[1]) + 1
        BY <2>3, AppendProperties
    <2>5. Len(labels[1]) \in Nat
        BY <2>3, LenProperties
    <2> HIDE DEF a, b
    <2>6. Len(a \o b) = Len(a) + Len(b) /\ Len(b) \in Nat
        BY <2>2, <2>4, ConcatProperties, LenProperties
    <2>7. a \o b # <<>>
        BY <2>4, <2>5, <2>6, EmptySeq
    <2> QED
        BY <2>1, <2>7
<1>4. labels = <<>> => Dotted(labels) = <<>>
    BY NameParts
<1> QED
    BY <1>2, <1>3, <1>4 DEF Shown, Dotted

(* A name is read as it is shown; one cut short, or one that ends in a     *)
(* compression pointer, is refused.                                        *)
LEMMA NameReads ==
    ASSUME NEW labels \in Seq(WireLabel), NEW data \in Seq(Byte), NEW off \in Nat
    PROVE  /\ At(data, off, WireName(labels)) =>
                  parseWireName(data, off) =
                      Got(Shown("name", labels), off + Len(WireName(labels)))
           /\ Cut(data, off, WireName(labels)) => ~parseWireName(data, off).ok
           /\ At(data, off, WireLabels(labels) \o <<192>>) => ~parseWireName(data, off).ok
<1> DEFINE w == WireLabels(labels)
           k == off + Len(w)
<1>1. PICK g : /\ LabelTable(g, data)
               /\ parseWireName(data, off) =
                      IF off > Len(data) \/ ~g[off].ok THEN Failed
                      ELSE IF g[off].value = <<>> THEN [g[off] EXCEPT !.value = <<Dot>>]
                      ELSE g[off]
    BY LabelTableRead
<1>2. NameRows(g, data, labels)
    BY <1>1, NameRowsOfAll
<1>3. w \in Seq(Byte) /\ Len(w) \in Nat /\ Len(data) \in Nat /\ k \in Nat
    BY NameParts, LenProperties
<1>4. ASSUME NEW b \in Byte, At(data, off, w \o <<b>>)
      PROVE  /\ k \in 0..Len(data) /\ k # Len(data) /\ data[k + 1] = b
             /\ off <= Len(data) /\ At(data, off, w)
    <2>1. <<b>> \in Seq(Byte) /\ Len(<<b>>) = 1 /\ <<b>>[1] = b
        OBVIOUS
    <2> DEFINE z == <<b>>
    <2> HIDE DEF w, z
    <2>2. At(data, off, w) /\ At(data, k, z)
        BY <1>3, <1>4, <2>1, AtConcat DEF z
    <2>3. k + 1 <= Len(data) /\ data[k + 1] = b
        BY <2>1, <2>2 DEF At, z
    <2> QED
        BY <1>3, <2>2, <2>3
<1>5. Failed \in Readings(Byte) /\ ~Failed.ok
    BY EmptySeq DEF Failed, Readings
<1>6. ASSUME At(data, off, WireName(labels))
      PROVE  parseWireName(data, off) =
                 Got(Shown("name", labels), off + Len(WireName(labels)))
    <2>1. 0 \in Byte
        BY ByteFacts
    <2>2. /\ k \in 0..Len(data) /\ k # Len(data) /\ data[k + 1] = 0
          /\ off <= Len(data) /\ At(data, off, w)
        <3> HIDE DEF w, k
        <3> QED
            BY <1>4, <1>6, <2>1 DEF WireName, w
    <2> DEFINE r == Got(<<>>, k + 1)
               d == Dotted(labels)
    <2> HIDE DEF k, w
    <2>3. g[k] = r
        BY <1>1, <2>2, LabelRows DEF LabelTable
    <2>4. r \in Readings(Byte)
        BY <1>3, EmptySeq DEF Readings, Got
    <2> HIDE DEF r
    <2>5. Extends(g[off], r, d, Byte)
        BY <1>2, <2>2, <2>3, <2>4 DEF NameRows, w, k
    <2>6. d \in Seq(Byte)
        BY NameParts
    <2> HIDE DEF d
    <2>7. d \o <<>> = d
        BY <2>6, ConcatEmptySeq
    <2>8. g[off] \in Readings(Byte) /\ g[off].ok = TRUE /\ g[off].off = k + 1 /\ g[off].value = d
        BY <2>5, <2>7 DEF Extends, r, Got
    <2>9. g[off] = Got(d, k + 1)
        BY <2>8 DEF Readings, Got
    <2>10. parseWireName(data, off) = Got(IF d = <<>> THEN <<Dot>> ELSE d, k + 1)
        <3> DEFINE n == k + 1
        <3> HIDE DEF n
        <3>1. g[off] = Got(d, n)
            BY <2>9 DEF n
        <3>2. Got(d, n).ok /\ Got(d, n).value = d
            BY DEF Got
        <3>5. [Got(d, n) EXCEPT !.value = <<Dot>>] = Got(<<Dot>>, n)
            BY GotValue
        <3>3. ~(off > Len(data))
            BY <1>3, <2>2
        <3>4. parseWireName(data, off) =
                  IF d = <<>> THEN [Got(d, n) EXCEPT !.value = <<Dot>>] ELSE Got(d, n)
            BY <1>1, <3>1, <3>2, <3>3
        <3> QED
            BY <3>4, <3>5 DEF n
    <2>11. k + 1 = off + Len(WireName(labels))
        BY <1>3, NameFacts DEF k, w
    <2> QED
        BY <2>10, <2>11, NameFacts DEF d
<1>7. ASSUME Cut(data, off, WireName(labels)) PROVE ~parseWireName(data, off).ok
    <2>1. ~g[off].ok
        BY <1>2, <1>7 DEF NameRows
    <2> QED
        BY <1>1, <1>5, <2>1
<1>8. ASSUME At(data, off, w \o << 192 >>) PROVE ~parseWireName(data, off).ok
    <2>1. 192 \in Byte
        BY ByteFacts
    <2>2. /\ k \in 0..Len(data) /\ k # Len(data) /\ data[k + 1] = 192
          /\ off <= Len(data) /\ At(data, off, w)
        <3> HIDE DEF w, k
        <3> QED
            BY <1>4, <1>8, <2>1
    <2> HIDE DEF k, w
    <2>3. g[k] = Failed
        <3>1. data[k + 1] >= 192
            BY <2>2
        <3> QED
            BY <1>1, <2>2, <3>1, LabelRows DEF LabelTable
    <2>4. Extends(g[off], Failed, Dotted(labels), Byte)
        BY <1>2, <1>5, <2>2, <2>3 DEF NameRows, w, k
    <2> QED
        BY <1>1, <1>5, <2>4 DEF Extends
<1> QED
    BY <1>6, <1>7, <1>8

-----------------------------------------------------------------------------
Pair == Nat \X Seq(Byte)

\* A parameter whose key and length fit their two bytes.
WirePair == {p \in Pair : p[1] <= 65535 /\ Len(p[2]) <= 65535}

\* Where data has a parameter at the offset o: it, and where the next one is.
NextParam(data, o) == o + 4 + Uint(2, data, o + 2).value

HasParam(data, o) ==
    o # Len(data) /\ Uint(2, data, o + 2).ok /\ NextParam(data, o) <= Len(data)

ParamAt(data, o) == <<Uint(2, data, o).value, SubSeq(data, o + 5, NextParam(data, o))>>

\* A row of the table of parseSVCBParams: the parameters from the offset o on.
ParamRow(data, f, o) ==
    IF o = Len(data) THEN Got(<<>>, o)
    ELSE LET key  == Uint(2, data, o)
             len  == Uint(2, data, o + 2)
             next == o + 4 + len.value
         IN  IF ~len.ok \/ next > Len(data) THEN Failed
             ELSE [f[next] EXCEPT !.value =
                      <<<<key.value, SubSeq(data, o + 5, next)>>>> \o @]

\* g is that table.
ParamTable(g, data) == \A o \in 0..Len(data) : g[o] = ParamRow(data, g, o)

(* What an integer of two bytes is read as.                                *)
LEMMA UintType ==
    ASSUME NEW data \in Seq(Byte), NEW off \in Nat
    PROVE  \/ Uint(2, data, off) = Failed /\ off + 2 > Len(data)
           \/ /\ off + 2 <= Len(data)
              /\ \E v \in Nat : Uint(2, data, off) = Got(v, off + 2)
<1>1. Len(data) \in Nat /\ \A i \in 1..Len(data) : data[i] \in Byte
    BY LenProperties
<1>2. CASE off + 2 > Len(data)
    BY <1>2 DEF Uint
<1>3. CASE ~(off + 2 > Len(data))
    <2> DEFINE s == SubSeq(data, off + 1, off + 2)
    <2>1. \A i \in (off + 1)..(off + 2) : data[i] \in Byte
        BY <1>1, <1>3
    <2>2. s \in Seq(Byte)
        BY <2>1, SubSeqProperties, off + 1 \in Int, off + 2 \in Int
    <2>3. Uint(2, data, off) = Got(Number(s), off + 2)
        BY <1>3 DEF Uint, Number
    <2> HIDE DEF s
    <2>4. Number(s) \in Nat
        <3>1. PICK F \in [0..Len(s) -> Nat] : Digits(F, s)
            BY <2>2, NumberSteps
        <3>2. Len(s) \in 0..Len(s)
            BY <2>2, LenProperties
        <3> QED
            BY <3>1, <3>2 DEF Digits
    <2> QED
        BY <1>1, <1>3, <2>3, <2>4
<1> QED
    BY <1>2, <1>3

(* The rows of the table, case by case.                                    *)
LEMMA ParamRows ==
    ASSUME NEW data \in Seq(Byte), NEW f, NEW o \in 0..Len(data)
    PROVE  /\ o = Len(data) => ParamRow(data, f, o) = Got(<<>>, o)
           /\ HasParam(data, o) =>
                  /\ NextParam(data, o) \in 0..Len(data) /\ NextParam(data, o) > o
                  /\ ParamAt(data, o) \in Pair
                  /\ ParamRow(data, f, o) =
                         [f[NextParam(data, o)] EXCEPT !.value = <<ParamAt(data, o)>> \o @]
           /\ o # Len(data) /\ ~HasParam(data, o) => ParamRow(data, f, o) = Failed
<1> DEFINE L == Len(data)
           len == Uint(2, data, o + 2)
           next == NextParam(data, o)
<1>1. L \in Nat /\ o \in Nat /\ \A i \in 1..L : data[i] \in Byte
    BY LenProperties
<1>2. o = L => ParamRow(data, f, o) = Got(<<>>, o)
    BY DEF ParamRow
<1>3. o # L => ParamRow(data, f, o) =
          IF ~len.ok \/ next > L THEN Failed
          ELSE [f[next] EXCEPT !.value = <<ParamAt(data, o)>> \o @]
    BY Zenon DEF ParamRow, NextParam, ParamAt
<1>4. HasParam(data, o) <=> o # L /\ len.ok /\ next <= L
    BY DEF HasParam
<1>5. ASSUME len.ok PROVE next \in Nat /\ next >= o + 4 /\ o + 4 <= L
    <2>1. o + 2 \in Nat
        BY <1>1
    <2>2. len = Failed \/ ((o + 2) + 2 <= L /\ \E v \in Nat : len = Got(v, (o + 2) + 2))
        BY <2>1, UintType
    <2>3. (o + 2) + 2 <= L /\ len.value \in Nat
        <3> HIDE DEF len, L
        <3>1. ~Failed.ok
            BY DEF Failed
        <3>2. (o + 2) + 2 <= L /\ \E v \in Nat : len = Got(v, (o + 2) + 2)
            BY <1>5, <2>2, <3>1
        <3> QED
            BY <3>2 DEF Got
    <2> HIDE DEF len
    <2>4. next = o + 4 + len.value
        BY DEF NextParam, len
    <2> HIDE DEF next, L
    <2> QED
        BY <1>1, <2>3, <2>4
<1> HIDE DEF len, next
<1>6. ASSUME HasParam(data, o)
      PROVE  next \in 0..L /\ next > o /\ ParamAt(data, o) \in Pair
    <2>1. next \in Nat /\ next >= o + 4 /\ o + 4 <= L /\ next <= L
        BY <1>4, <1>5, <1>6
    <2>2. next \in 0..L /\ next > o
        BY <1>1, <2>1
    <2>3. \A i \in (o + 5)..next : i \in 1..L
        BY <1>1, <2>1
    <2>4. \A i \in (o + 5)..next : data[i] \in Byte
        BY <1>1, <2>3
    <2>5. SubSeq(data, o + 5, next) \in Seq(Byte)
        BY <1>1, <2>1, <2>4, SubSeqProperties, o + 5 \in Int, next \in Int
    <2>6. Uint(2, data, o).value \in Nat
        <3>1. ~(o + 2 > L)
            BY <1>1, <2>1
        <3>2. \E v \in Nat : Uint(2, data, o) = Got(v, o + 2)
            BY <1>1, <3>1, UintType
        <3> QED
            BY <3>2 DEF Got
    <2> QED
        BY <2>2, <2>5, <2>6 DEF ParamAt, Pair, next
<1>7. ASSUME HasParam(data, o)
      PROVE  ParamRow(data, f, o) = [f[next] EXCEPT !.value = <<ParamAt(data, o)>> \o @]
    <2>1. o # L /\ len.ok /\ ~(next > L)
        BY <1>1, <1>4, <1>6, <1>7
    <2> QED
        BY <1>3, <2>1
<1>8. ASSUME o # L, ~HasParam(data, o) PROVE ParamRow(data, f, o) = Failed
    <2>1. ~len.ok \/ next > L
        BY <1>1, <1>4, <1>5, <1>8
    <2> QED
        BY <1>3, <1>8, <2>1
<1> QED
    BY <1>2, <1>6, <1>7, <1>8 DEF next

(* There is a table, and parseSVCBParams reads it.                         *)
LEMMA ParamTableRead ==
    ASSUME NEW data \in Seq(Byte)
    PROVE  \E g : /\ ParamTable(g, data)
                  /\ \A off : parseSVCBParams(data, off) = g[off]
<1> DEFINE L == Len(data)
           V == Readings(Pair)
           IsTable(f) == f = [o \in 0..Len(data) |-> ParamRow(data, f, o)]
           g == CHOOSE f : IsTable(f)
           Follows(o) == HasParam(data, o)
           next == [o \in 0..L |-> IF Follows(o) THEN NextParam(data, o) ELSE L + 1]
           base == [o \in 0..L |-> IF o = L THEN Got(<<>>, o) ELSE Failed]
           step == [p \in (0..L) \X V |-> IF Follows(p[1])
                                          THEN [p[2] EXCEPT !.value = <<ParamAt(data, p[1])>> \o @]
                                          ELSE Failed]
<1>1. L \in Nat
    BY LenProperties
<1>2. /\ Failed \in V
      /\ \A o \in 0..L : Got(<<>>, o) \in V
      /\ \A r \in V, p \in Pair : [r EXCEPT !.value = <<p>> \o @] \in V
    <2>1. <<>> \in Seq(Pair)
        BY EmptySeq
    <2>2. Failed \in V /\ \A o \in 0..L : Got(<<>>, o) \in V
        BY <1>1, <2>1 DEF Readings, Failed, Got
    <2>3. ASSUME NEW r \in V, NEW p \in Pair PROVE [r EXCEPT !.value = <<p>> \o @] \in V
        <3> DEFINE s == <<p>>
        <3>1. s \in Seq(Pair)
            OBVIOUS
        <3> HIDE DEF s
        <3>2. Extends([r EXCEPT !.value = s \o @], r, s, Pair)
            BY <3>1, ReadingGrows
        <3> QED
            BY <3>2 DEF Extends, s
    <2> HIDE DEF V
    <2> QED
        BY <2>2, <2>3
<1>3. \A o \in 0..L : Follows(o) => /\ ParamAt(data, o) \in Pair
                                    /\ NextParam(data, o) \in 0..L /\ NextParam(data, o) > o
    BY ParamRows
<1> HIDE DEF Follows
<1>4. next \in [0..L -> Nat] /\ Ahead(next, L)
    <2> SUFFICES ASSUME NEW o \in 0..L PROVE next[o] \in Nat /\ next[o] > o
        BY DEF Ahead
    <2>1. CASE Follows(o)
        <3>1. next[o] = NextParam(data, o)
            BY <2>1
        <3> HIDE DEF next
        <3> QED
            BY <1>3, <2>1, <3>1
    <2>2. CASE ~Follows(o)
        <3>1. next[o] = L + 1
            BY <2>2
        <3> HIDE DEF next
        <3> QED
            BY <1>1, <3>1
    <2> QED
        BY <2>1, <2>2
<1>5. base \in [0..L -> V]
    <2> HIDE DEF V
    <2> QED
        BY <1>2
<1>6. step \in [(0..L) \X V -> V]
    <2> SUFFICES ASSUME NEW p \in (0..L) \X V PROVE step[p] \in V
        OBVIOUS
    <2> HIDE DEF V
    <2> QED
        BY <1>2, <1>3
<1>7. PICK f \in [0..L -> V] : Recurs(f, L, base, next, step)
    <2>1. L \in Nat /\ base \in [0..L -> V] /\ next \in [0..L -> Nat]
        BY <1>1, <1>4, <1>5
    <2>2. Ahead(next, L) /\ step \in [(0..L) \X V -> V]
        BY <1>4, <1>6
    <2> HIDE DEF next, base, step, V, L
    <2> QED
        BY <2>1, <2>2, Backwards, Zenon
<1>8. ASSUME NEW o \in 0..L PROVE f[o] = ParamRow(data, f, o)
    <2>1. CASE Follows(o)
        <3>1. next[o] = NextParam(data, o) /\ next[o] <= L /\ next[o] \in 0..L
            <4>1. next[o] = NextParam(data, o)
                BY <2>1
            <4> HIDE DEF next
            <4> QED
                BY <1>1, <1>3, <2>1, <4>1
        <3>2. f[o] = step[<<o, f[next[o]]>>] /\ f[next[o]] \in V
            <4> HIDE DEF next, step, V
            <4> QED
                BY <1>7, <3>1, ZenonT(60) DEF Recurs
        <3>3. f[o] = [f[next[o]] EXCEPT !.value = <<ParamAt(data, o)>> \o @]
            <4> DEFINE r == f[next[o]]
            <4> HIDE DEF r
            <4>1. r \in V /\ f[o] = step[<<o, r>>]
                BY <3>2 DEF r
            <4>2. <<o, r>> \in (0..L) \X V
                BY <4>1
            <4>3. step[<<o, r>>] = [r EXCEPT !.value = <<ParamAt(data, o)>> \o @]
                <5> HIDE DEF V, L
                <5> QED
                    BY <2>1, <4>2
            <4> HIDE DEF step
            <4> QED
                BY <4>1, <4>3 DEF r
        <3>4. ParamRow(data, f, o) =
                  [f[NextParam(data, o)] EXCEPT !.value = <<ParamAt(data, o)>> \o @]
            BY <2>1, ParamRows DEF Follows
        <3> HIDE DEF next
        <3> QED
            BY <3>1, <3>3, <3>4
    <2>2. CASE ~Follows(o)
        <3>1. f[o] = base[o]
            <4>1. next[o] = L + 1
                BY <2>2
            <4>2. ~(next[o] <= L)
                <5> HIDE DEF next, L
                <5> QED
                    BY <1>1, <4>1
            <4> HIDE DEF next, base, step
            <4> QED
                BY <1>7, <4>2 DEF Recurs
        <3>2. base[o] = IF o = L THEN Got(<<>>, o) ELSE Failed
            OBVIOUS
        <3> HIDE DEF base
        <3>3. o = L => ParamRow(data, f, o) = Got(<<>>, o)
            BY ParamRows
        <3>4. o # L => ParamRow(data, f, o) = Failed
            BY <2>2, ParamRows DEF Follows
        <3> QED
            BY <3>1, <3>2, <3>3, <3>4
    <2> QED
        BY <2>1, <2>2
<1>9. IsTable(g)
    <2>1. IsTable(f)
        <3>1. f = [o \in 0..L |-> f[o]]
            BY <1>7
        <3> QED
            BY <1>8, <3>1
    <2> HIDE DEF IsTable
    <2> QED
        BY <2>1
<1>10. ParamTable(g, data)
    <2> HIDE DEF g
    <2> QED
        BY <1>9 DEF ParamTable
<1>11. ASSUME NEW off PROVE parseSVCBParams(data, off) = g[off]
    BY Zenon DEF parseSVCBParams, ParamRow
<1> HIDE DEF g
<1> QED
    BY <1>10, <1>11

(* A parameter is read as it was written; if it is cut short there is none. *)
LEMMA ParamWritten ==
    ASSUME NEW data \in Seq(Byte), NEW off \in Nat, NEW p \in WirePair
    PROVE  /\ WireParam(p) \in Seq(Byte)
           /\ At(data, off, WireParam(p)) =>
                  /\ HasParam(data, off) /\ NextParam(data, off) = off + Len(WireParam(p))
                  /\ ParamAt(data, off) = p
           /\ Cut(data, off, WireParam(p)) => ~HasParam(data, off)
<1> DEFINE k == p[1]
           s == p[2]
           n == Len(s)
           a == U16(k)
           b == U16(n)
<1>1. /\ p = <<k, s>> /\ k \in Nat /\ s \in Seq(Byte) /\ n \in Nat /\ k <= 65535 /\ n <= 65535
      /\ Len(data) \in Nat
    BY LenProperties DEF WirePair, Pair
<1> HIDE DEF k, s
<1>10. k \in Nat /\ n \in Nat /\ k <= 65535 /\ n <= 65535
    BY <1>1
<1>11. s \in Seq(Byte)
    BY <1>1
<1>2. /\ a \in Seq(Byte) /\ Len(a) = 2 /\ Number(a) = k
      /\ b \in Seq(Byte) /\ Len(b) = 2 /\ Number(b) = n
    <2> HIDE DEF n
    <2> QED
        BY <1>1, U16Facts
<1>3. WireParam(p) = (a \o b) \o s
    BY DEF WireParam, k, s
<1> HIDE DEF n, a, b
<1>12. a \in Seq(Byte) /\ b \in Seq(Byte)
    BY <1>2
<1>4. a \o b \in Seq(Byte) /\ Len(a \o b) = 4
    <2>1. a \o b \in Seq(Byte) /\ Len(a \o b) = Len(a) + Len(b)
        BY <1>12, ConcatProperties
    <2> QED
        BY <1>2, <2>1
<1>5. WireParam(p) \in Seq(Byte) /\ Len(WireParam(p)) = 4 + n
    <2> DEFINE c == a \o b
    <2> HIDE DEF c
    <2>1. c \in Seq(Byte) /\ Len(c) = 4 /\ WireParam(p) = c \o s
        BY <1>3, <1>4 DEF c
    <2>2. c \o s \in Seq(Byte) /\ Len(c \o s) = Len(c) + Len(s)
        <3>1. c \in Seq(Byte)
            BY <2>1
        <3> QED
            BY <1>11, <3>1, ConcatProperties
    <2> QED
        BY <2>1, <2>2 DEF n
<1>6. /\ At(data, off, WireParam(p)) => At(data, off, a \o b) /\ At(data, off + 4, s)
      /\ Cut(data, off, WireParam(p)) =>
             \/ Cut(data, off, a \o b)
             \/ At(data, off, a \o b) /\ Cut(data, off + 4, s)
    <2> DEFINE c == a \o b
    <2> HIDE DEF c
    <2>1. c \in Seq(Byte) /\ Len(c) = 4 /\ WireParam(p) = c \o s
        BY <1>3, <1>4 DEF c
    <2>4. c \in Seq(Byte)
        BY <2>1
    <2>2. At(data, off, c \o s) => At(data, off, c) /\ At(data, off + Len(c), s)
        BY <1>11, <2>4, AtConcat
    <2>3. Cut(data, off, c \o s) =>
              Cut(data, off, c) \/ (At(data, off, c) /\ Cut(data, off + Len(c), s))
        BY <1>11, <2>4, CutConcat
    <2> QED
        BY <2>1, <2>2, <2>3 DEF c
<1>7. ASSUME At(data, off, a \o b)
      PROVE  /\ Uint(2, data, off) = Got(k, off + 2) /\ Uint(2, data, off + 2) = Got(n, off + 4)
             /\ off # Len(data)
    <2>1. At(data, off, a) /\ At(data, off + 2, b)
        BY <1>2, <1>7, AtConcat
    <2>2. Uint(2, data, off) = Got(k, off + 2)
        BY <1>2, <2>1, UintReads
    <2> DEFINE o == off + 2
    <2>3. o \in Nat /\ o + 2 = off + 4
        OBVIOUS
    <2>6. At(data, o, b)
        BY <2>1
    <2> HIDE DEF o
    <2>7. Uint(Len(b), data, o) = Got(Number(b), o + Len(b))
        BY <1>12, <2>3, <2>6, UintReads
    <2>4. Uint(2, data, off + 2) = Got(n, off + 4)
        BY <1>2, <2>3, <2>7 DEF o
    <2>5. off + 2 <= Len(data)
        BY <1>2, <2>1 DEF At
    <2> QED
        BY <1>1, <2>2, <2>4, <2>5
<1>8. ASSUME At(data, off, WireParam(p))
      PROVE  /\ HasParam(data, off) /\ NextParam(data, off) = off + Len(WireParam(p))
             /\ ParamAt(data, off) = p
    <2>1. At(data, off, a \o b) /\ At(data, off + 4, s)
        BY <1>6, <1>8
    <2>2. /\ Uint(2, data, off).value = k /\ Uint(2, data, off + 2).value = n
          /\ Uint(2, data, off + 2).ok /\ off # Len(data)
        BY <1>7, <2>1 DEF Got
    <2>3. NextParam(data, off) = (off + 4) + n
        BY <2>2 DEF NextParam
    <2>4. SubSeq(data, (off + 4) + 1, (off + 4) + Len(s)) = s
        <3>1. off + 4 \in Nat
            OBVIOUS
        <3> QED
            BY <1>1, <2>1, <3>1, AtTaken
    <2>5. (off + 4) + 1 = off + 5
        OBVIOUS
    <2>6. ParamAt(data, off) = p
        BY <1>1, <2>2, <2>3, <2>4, <2>5 DEF ParamAt, n
    <2>7. (off + 4) + n <= Len(data)
        BY <2>1 DEF At, n
    <2>8. HasParam(data, off)
        BY <2>2, <2>3, <2>7 DEF HasParam
    <2>9. (off + 4) + n = off + (4 + n)
        BY <1>1
    <2> QED
        BY <1>5, <2>3, <2>6, <2>8, <2>9
<1>9. ASSUME Cut(data, off, WireParam(p)) PROVE ~HasParam(data, off)
    <2>1. CASE Cut(data, off, a \o b)
        <3>1. Len(data) < off + 4
            BY <1>4, <2>1 DEF Cut
        <3>2. off + 2 \in Nat /\ ~((off + 2) + 2 <= Len(data))
            BY <1>1, <3>1
        <3>3. Uint(2, data, off + 2) = Failed
            BY <3>2, UintType
        <3> QED
            BY <3>3 DEF HasParam, Failed
    <2>2. CASE At(data, off, a \o b) /\ Cut(data, off + 4, s)
        <3>1. Uint(2, data, off + 2).value = n
            BY <1>7, <2>2 DEF Got
        <3>2. Len(data) < (off + 4) + n
            BY <2>2 DEF Cut, n
        <3>3. ~((off + 4) + n <= Len(data))
            BY <1>1, <3>2
        <3> QED
            BY <3>1, <3>3 DEF HasParam, NextParam
    <2> QED
        BY <1>6, <1>9, <2>1, <2>2
<1> QED
    BY <1>5, <1>8, <1>9

WireParams(params) == FlattenSeq([i \in DOMAIN params |-> WireParam(params[i])])

(* Parameters are the first of them and the rest, on the wire.             *)
LEMMA ParamParts ==
    ASSUME NEW params \in Seq(WirePair)
    PROVE  /\ WireParams(params) \in Seq(Byte)
           /\ params = <<>> => WireParams(params) = <<>>
           /\ params # <<>> =>
                  /\ params[1] \in WirePair /\ Tail(params) \in Seq(WirePair)
                  /\ Len(Tail(params)) = Len(params) - 1
                  /\ WireParams(params) = WireParam(params[1]) \o WireParams(Tail(params))
<1> DEFINE F == [p \in WirePair |-> WireParam(p)]
<1>1. F \in [WirePair -> Seq(Byte)]
    <2>1. \A p \in WirePair : WireParam(p) \in Seq(Byte)
        BY ParamWritten, EmptySeq, 0 \in Nat
    <2> QED
        BY <2>1
<1>2. ASSUME NEW u \in Seq(WirePair) PROVE WireParams(u) = Laid(F, u)
    <2>1. \A i \in DOMAIN u : u[i] \in WirePair
        BY LenProperties
    <2>2. \A i \in DOMAIN u : F[u[i]] = WireParam(u[i])
        BY <2>1
    <2> HIDE DEF F
    <2>3. [i \in DOMAIN u |-> F[u[i]]] = [i \in DOMAIN u |-> WireParam(u[i])]
        BY <2>2
    <2> QED
        BY <2>3 DEF WireParams, Laid
<1>3. \A p \in WirePair : F[p] = WireParam(p)
    OBVIOUS
<1> HIDE DEF F
<1>4. LaidFirst(F, params, WirePair, Byte)
    BY <1>1, FlattenMap
<1> QED
    BY <1>2, <1>3, <1>4 DEF LaidFirst

\* What the table g of the data holds where parameters are.
ParamsRead(g, data, params) ==
    \A off \in Nat :
        /\ At(data, off, WireParams(params)) /\ off + Len(WireParams(params)) = Len(data) =>
               g[off] = Got(params, Len(data))
        /\ Cut(data, off, WireParams(params)) =>
               g[off] \in Readings(Pair) /\ (g[off].ok => IsPrefix(g[off].value, params))

(* No parameter is read where the data ends.                               *)
LEMMA ParamsReadOfNone ==
    ASSUME NEW data \in Seq(Byte), NEW g, ParamTable(g, data)
    PROVE  ParamsRead(g, data, <<>>)
<1>1. WireParams(<<>>) = <<>> /\ Len(<<>>) = 0
    BY ParamParts, EmptySeq
<1>2. Len(data) \in Nat
    BY LenProperties
<1> SUFFICES ASSUME NEW off \in Nat
             PROVE  /\ off = Len(data) => g[off] = Got(<<>>, Len(data))
                    /\ ~Cut(data, off, <<>>)
    BY <1>1 DEF ParamsRead
<1>3. ASSUME off = Len(data) PROVE g[off] = Got(<<>>, Len(data))
    <2>1. off \in 0..Len(data)
        BY <1>2, <1>3
    <2>2. ParamRow(data, g, off) = Got(<<>>, off)
        BY <1>3, <2>1, ParamRows, ZenonT(60)
    <2>3. g[off] = ParamRow(data, g, off)
        BY <2>1, Zenon DEF ParamTable
    <2> QED
        BY <1>3, <2>2, <2>3, Zenon
<1>4. ~Cut(data, off, <<>>)
    BY <1>1, <1>2 DEF Cut
<1> QED
    BY <1>3, <1>4

(* What is read of parameters, from those after the first.                 *)
LEMMA ParamsReadOfMore ==
    ASSUME NEW data \in Seq(Byte), NEW g, ParamTable(g, data),
           NEW params \in Seq(WirePair), params # <<>>, ParamsRead(g, data, Tail(params))
    PROVE  ParamsRead(g, data, params)
<1> DEFINE p == params[1]
           t == Tail(params)
           w == WireParam(p)
           u == WireParams(t)
<1>1. /\ p \in WirePair /\ t \in Seq(WirePair) /\ WireParams(params) = w \o u
      /\ u \in Seq(Byte)
    <2>1. p \in WirePair /\ t \in Seq(WirePair) /\ WireParams(params) = w \o u
        BY ParamParts
    <2> HIDE DEF t
    <2> QED
        BY <2>1, ParamParts
<1>2. p \in Pair /\ t \in Seq(Pair) /\ params = <<p>> \o t
    <2>1. \A s \in Seq(WirePair) : s \in Seq(Pair)
        <3>1. ASSUME NEW s \in Seq(WirePair) PROVE s \in Seq(Pair)
            <4>1. s \in [1..Len(s) -> Pair] /\ Len(s) \in Nat
                BY LenProperties DEF WirePair
            <4>2. [i \in 1..Len(s) |-> s[i]] = s
                BY <4>1
            <4> QED
                BY <4>1, FunctionIsSeq
        <3> QED
            BY <3>1
    <2>2. params = <<params[1]>> \o Tail(params)
        <3>1. params = <<Head(params)>> \o Tail(params) /\ Head(params) = params[1]
            BY HeadTailProperties
        <3> QED
            BY <3>1
    <2> QED
        BY <1>1, <2>1, <2>2 DEF WirePair
<1>3. ParamsRead(g, data, t)
    OBVIOUS
<1> HIDE DEF p, t
<1>4. w \in Seq(Byte)
    BY <1>1, ParamWritten, 0 \in Nat, EmptySeq
<1>5. Len(w) \in Nat /\ Len(u) \in Nat /\ Len(data) \in Nat
    BY <1>1, <1>4, LenProperties
<1> HIDE DEF w, u
<1>6. u \in Seq(Byte)
    BY <1>1
<1>7. Len(w \o u) = Len(w) + Len(u)
    BY <1>4, <1>6, ConcatProperties
<1> SUFFICES ASSUME NEW off \in Nat
             PROVE  /\ At(data, off, w \o u) /\ off + Len(w \o u) = Len(data) =>
                           g[off] = Got(params, Len(data))
                    /\ Cut(data, off, w \o u) =>
                           /\ g[off] \in Readings(Pair)
                           /\ g[off].ok => IsPrefix(g[off].value, params)
    BY <1>1 DEF ParamsRead
<1> DEFINE k == off + Len(w)
<1>8. k \in Nat
    BY <1>5
<1>9. ASSUME At(data, off, w)
      PROVE  off \in 0..Len(data) /\ g[off] = [g[k] EXCEPT !.value = <<p>> \o @]
    <2>1. HasParam(data, off) /\ NextParam(data, off) = k /\ ParamAt(data, off) = p
        BY <1>1, <1>9, ParamWritten DEF w
    <2>2. off \in 0..Len(data)
        BY <1>5, <1>9 DEF At
    <2>3. g[off] = ParamRow(data, g, off)
        BY <2>2 DEF ParamTable
    <2>4. ParamRow(data, g, off) =
              [g[NextParam(data, off)] EXCEPT !.value = <<ParamAt(data, off)>> \o @]
        BY <2>1, <2>2, ParamRows
    <2> QED
        BY <2>1, <2>2, <2>3, <2>4
<1>10. ASSUME At(data, off, w \o u), off + Len(w \o u) = Len(data)
       PROVE  g[off] = Got(params, Len(data))
    <2>1. At(data, off, w) /\ At(data, k, u)
        BY <1>4, <1>6, <1>10, AtConcat
    <2>2. k + Len(u) = Len(data)
        BY <1>5, <1>7, <1>10
    <2> HIDE DEF k
    <2>3. g[k] = Got(t, Len(data))
        BY <1>3, <1>8, <2>1, <2>2 DEF ParamsRead, u
    <2>4. Got(t, Len(data)).value = t
        BY DEF Got
    <2>5. g[off] = [Got(t, Len(data)) EXCEPT !.value = <<p>> \o t]
        BY <1>9, <2>1, <2>3, <2>4
    <2>6. [Got(t, Len(data)) EXCEPT !.value = <<p>> \o t] = Got(<<p>> \o t, Len(data))
        <3> DEFINE x == <<p>> \o t
        <3> HIDE DEF x
        <3>1. [Got(t, Len(data)) EXCEPT !.value = x] = Got(x, Len(data))
            BY GotValue
        <3> QED
            BY <3>1 DEF x
    <2> QED
        BY <1>2, <2>5, <2>6
<1>11. ASSUME Cut(data, off, w \o u)
       PROVE  /\ g[off] \in Readings(Pair)
              /\ g[off].ok => IsPrefix(g[off].value, params)
    <2>1. Cut(data, off, w) \/ (At(data, off, w) /\ Cut(data, k, u))
        BY <1>4, <1>6, <1>11, CutConcat
    <2>2. CASE Cut(data, off, w)
        <3>1. ~HasParam(data, off)
            BY <1>1, <2>2, ParamWritten DEF w
        <3>2. off \in 0..Len(data)
            BY <1>5, <2>2 DEF Cut
        <3>3. g[off] = ParamRow(data, g, off)
            BY <3>2 DEF ParamTable
        <3>4. g[off] = Got(<<>>, off) \/ g[off] = Failed
            BY <3>1, <3>2, <3>3, ParamRows
        <3>5. <<>> \in Seq(Pair)
            BY EmptySeq
        <3>6. g[off] \in Readings(Pair) /\ g[off].value = <<>>
            <4>1. Failed \in Readings(Pair) /\ Failed.value = <<>>
                BY <3>5 DEF Readings, Failed
            <4>2. Got(<<>>, off) \in Readings(Pair) /\ Got(<<>>, off).value = <<>>
                BY <3>5 DEF Readings, Got
            <4> QED
                BY <3>4, <4>1, <4>2
        <3>7. Len(<<>>) = 0 /\ Len(params) \in Nat /\ params \in Seq(WirePair)
            BY EmptySeq, LenProperties
        <3>8. IsPrefix(<<>>, params)
            <4>1. <<>> \in Seq(WirePair) /\ Len(<<>>) <= Len(params)
                  /\ \A i \in 1..Len(<<>>) : <<>>[i] = params[i]
                BY <3>7, EmptySeq
            <4> QED
                BY <4>1, PrefixByElement
        <3> QED
            BY <3>6, <3>8
    <2>3. CASE At(data, off, w) /\ Cut(data, k, u)
        <3> DEFINE r == g[k]
                   s == <<p>>
        <3>1. s \in Seq(Pair)
            BY <1>2
        <3> HIDE DEF s, k
        <3>2. r \in Readings(Pair) /\ (r.ok => IsPrefix(r.value, t))
            BY <1>3, <1>8, <2>3 DEF ParamsRead, u
        <3>3. g[off] = [r EXCEPT !.value = s \o @]
            BY <1>9, <2>3 DEF s, k
        <3> HIDE DEF r
        <3>4. Extends(g[off], r, s, Pair)
            BY <3>1, <3>2, <3>3, ReadingGrows
        <3>5. g[off] \in Readings(Pair) /\ g[off].ok = r.ok /\ g[off].value = s \o r.value
            BY <3>4 DEF Extends
        <3> DEFINE v == r.value
        <3>6. v \in Seq(Pair)
            BY <3>2 DEF Readings
        <3>7. r.ok => IsPrefix(v, t)
            BY <3>2
        <3> HIDE DEF v
        <3>8. IsPrefix(v, t) => IsPrefix(<<p>> \o v, <<p>> \o t)
            BY <1>2, <3>6, PrefixMore
        <3> QED
            BY <1>2, <3>5, <3>7, <3>8 DEF s, v
    <2> QED
        BY <2>1, <2>2, <2>3
<1> QED
    BY <1>10, <1>11

(* Parameters at the end of the data are read as they were written; cut    *)
(* short, they are refused or read as a beginning of them.                 *)
LEMMA ParamsReads ==
    ASSUME NEW params \in Seq(WirePair), NEW data \in Seq(Byte), NEW off \in Nat
    PROVE  /\ At(data, off, WireParams(params)) /\ off + Len(WireParams(params)) = Len(data) =>
                  parseSVCBParams(data, off) = Got(params, Len(data))
           /\ Cut(data, off, WireParams(params)) =>
                  LET r == parseSVCBParams(data, off)
                  IN  r.ok => IsPrefix(r.value, params)
<1>1. PICK g : ParamTable(g, data) /\ \A o : parseSVCBParams(data, o) = g[o]
    BY ParamTableRead
<1> DEFINE G == {n \in Nat : \A s \in Seq(WirePair) : Len(s) = n => ParamsRead(g, data, s)}
<1>2. 0 \in G
    <2>1. ASSUME NEW s \in Seq(WirePair), Len(s) = 0 PROVE ParamsRead(g, data, s)
        <3>1. s = <<>>
            BY <2>1, EmptySeq
        <3> QED
            BY <1>1, <3>1, ParamsReadOfNone
    <2> QED
        BY <2>1
<1>3. ASSUME NEW n \in Nat, n \in G PROVE n + 1 \in G
    <2>1. ASSUME NEW s \in Seq(WirePair), Len(s) = n + 1 PROVE ParamsRead(g, data, s)
        <3>1. s # <<>>
            BY <2>1, EmptySeq
        <3>2. Tail(s) \in Seq(WirePair) /\ Len(Tail(s)) = n
            BY <2>1, <3>1, ParamParts
        <3>3. ParamsRead(g, data, Tail(s))
            BY <1>3, <3>2
        <3> QED
            BY <1>1, <3>1, <3>3, ParamsReadOfMore
    <2> QED
        BY <2>1
<1> HIDE DEF G
<1>4. \A n \in Nat : n \in G
    BY <1>2, <1>3, NatSetInduction
<1>5. ParamsRead(g, data, params)
    BY <1>4, LenProperties DEF G
<1> QED
    BY <1>1, <1>5 DEF ParamsRead

-----------------------------------------------------------------------------
\* What the reader of a kind of field makes of the bytes of a value.
FieldRead(kind, v, data, off) ==
    LET wire == Wire(kind, v)
        read == ReadField(kind, data, off)
    IN  /\ wire \in Seq(Byte)
        /\ At(data, off, wire) /\ (kind \in Open => off + Len(wire) = Len(data)) =>
               read = Got(Shown(kind, v), off + Len(wire))
        /\ Cut(data, off, wire) /\ read.ok =>
               kind \in Open /\ IsPrefix(read.value, Shown(kind, v))

(* Integers.                                                               *)
LEMMA IntegerRead ==
    ASSUME NEW kind \in {"u8", "u16", "u32"}, NEW v, Writable(kind, v),
           NEW data \in Seq(Byte), NEW off \in Nat
    PROVE  FieldRead(kind, v, data, off)
<1> DEFINE w == Wire(kind, v)
<1>1. kind \notin Open /\ Shown(kind, v) = v
    BY DEF Open, Shown
<1>2. w \in Seq(Byte) /\ Number(w) = v /\ ReadField(kind, data, off) = Uint(Len(w), data, off)
    <2>1. CASE kind = "u8"
        <3>1. v \in Byte /\ w = <<v>>
            BY <2>1 DEF Writable, Wire
        <3>2. w \in Seq(Byte) /\ Len(w) = 1 /\ w[1] = v
            BY <3>1
        <3> HIDE DEF w
        <3>3. Number(w) = w[1]
            BY <3>2, SmallNumbers
        <3> QED
            BY <2>1, <3>2, <3>3 DEF ReadField
    <2>2. CASE kind = "u16"
        <3>1. v \in Word /\ w = U16(v)
            BY <2>2 DEF Writable, Wire
        <3>2. v \in Nat /\ v <= 65535
            BY <3>1 DEF Word
        <3>3. U16(v) \in Seq(Byte) /\ Len(U16(v)) = 2 /\ Number(U16(v)) = v
            BY <3>2, U16Facts
        <3>9. ReadField(kind, data, off) = Uint(2, data, off)
            BY <2>2 DEF ReadField
        <3> HIDE DEF w
        <3> QED
            BY <3>1, <3>3, <3>9
    <2>3. CASE kind = "u32"
        <3>1. v \in Nat /\ v \div 65536 <= 65535 /\ w = U32(v)
            BY <2>3 DEF Writable, Wire, U32
        <3>2. U32(v) \in Seq(Byte) /\ Len(U32(v)) = 4 /\ Number(U32(v)) = v
            BY <3>1, U32Facts
        <3>9. ReadField(kind, data, off) = Uint(4, data, off)
            BY <2>3 DEF ReadField
        <3> HIDE DEF w
        <3> QED
            BY <3>1, <3>2, <3>9
    <2> QED
        BY <2>1, <2>2, <2>3
<1> HIDE DEF w
<1>3. At(data, off, w) => Uint(Len(w), data, off) = Got(Number(w), off + Len(w))
    BY <1>2, UintReads
<1>4. Cut(data, off, w) => Uint(Len(w), data, off) = Failed
    BY <1>2, UintReads
<1>5. ~Failed.ok
    BY DEF Failed
<1> QED
    BY <1>1, <1>2, <1>3, <1>4, <1>5 DEF FieldRead, w

(* The labels of a name a body can hold.                                   *)
LEMMA WritableLabels ==
    ASSUME NEW v, Writable("name", v) PROVE v \in Seq(WireLabel)
<1>1. v \in Seq(Seq(Byte)) /\ \A i \in DOMAIN v : Len(v[i]) \in 1..191
    BY DEF Writable
<1>2. Len(v) \in Nat /\ DOMAIN v = 1..Len(v) /\ \A i \in 1..Len(v) : v[i] \in Seq(Byte)
    BY <1>1, LenProperties
<1>3. \A i \in 1..Len(v) : v[i] \in WireLabel
    BY <1>1, <1>2 DEF WireLabel
<1>4. v \in [1..Len(v) -> WireLabel]
    BY <1>1, <1>3, LenProperties
<1> QED
    BY <1>2, <1>4, FunctionIsSeq

(* Strings and names.                                                      *)
LEMMA TextRead ==
    ASSUME NEW kind \in {"str", "name"}, NEW v, Writable(kind, v),
           NEW data \in Seq(Byte), NEW off \in Nat
    PROVE  FieldRead(kind, v, data, off)
<1>1. kind \notin Open /\ ~Failed.ok
    BY DEF Open, Failed
<1>2. CASE kind = "str"
    <2>1. v \in Seq(Byte) /\ Len(v) < 256
        BY <1>2 DEF Writable
    <2>2. Wire(kind, v) = Str(v) /\ Shown(kind, v) = v
          /\ ReadField(kind, data, off) = parseCharString(data, off)
        BY <1>2 DEF Wire, Shown, ReadField
    <2>3. Str(v) \in Seq(Byte)
        BY <2>1, StrFacts
    <2>4. /\ At(data, off, Str(v)) => parseCharString(data, off) = Got(v, off + Len(Str(v)))
          /\ Cut(data, off, Str(v)) => parseCharString(data, off) = Failed
        BY <2>1, CharStringReads
    <2> QED
        BY <1>1, <2>2, <2>3, <2>4 DEF FieldRead
<1>3. CASE kind = "name"
    <2>1. v \in Seq(WireLabel)
        BY <1>3, WritableLabels
    <2>2. Wire(kind, v) = WireName(v) /\ ReadField(kind, data, off) = parseWireName(data, off)
        BY <1>3 DEF Wire, ReadField
    <2>3. WireName(v) \in Seq(Byte)
        BY <2>1, NameFacts
    <2>4. /\ At(data, off, WireName(v)) =>
                 parseWireName(data, off) = Got(Shown("name", v), off + Len(WireName(v)))
          /\ Cut(data, off, WireName(v)) => ~parseWireName(data, off).ok
        BY <2>1, NameReads
    <2> QED
        BY <1>1, <1>3, <2>2, <2>3, <2>4 DEF FieldRead
<1> QED
    BY <1>2, <1>3

(* Fields that take what is left.                                          *)
LEMMA OpenRead ==
    ASSUME NEW kind \in Open, NEW v, Writable(kind, v),
           NEW data \in Seq(Byte), NEW off \in Nat
    PROVE  FieldRead(kind, v, data, off)
<1>1. kind \in {"rest", "params"} /\ Shown(kind, v) = v
    BY DEF Open, Shown
<1>2. CASE kind = "rest"
    <2>1. v \in Seq(Byte) /\ Wire(kind, v) = v /\ ReadField(kind, data, off) = Rest(data, off)
        BY <1>2 DEF Writable, Wire, ReadField
    <2>2. v \in Seq(Byte)
        BY <2>1
    <2>3. Len(v) \in Nat /\ Len(data) \in Nat /\ \A i \in 1..Len(data) : data[i] \in Byte
        BY <2>2, LenProperties
    <2>4. ASSUME At(data, off, v), off + Len(v) = Len(data)
          PROVE  Rest(data, off) = Got(v, off + Len(v))
        <3>1. SubSeq(data, off + 1, off + Len(v)) = v
            BY <2>2, <2>4, AtTaken
        <3> QED
            BY <2>4, <3>1 DEF Rest
    <2>5. ASSUME Cut(data, off, v) PROVE IsPrefix(Rest(data, off).value, v)
        <3> DEFINE s == SubSeq(data, off + 1, Len(data))
        <3>1. off <= Len(data) /\ Len(data) < off + Len(v)
              /\ \A i \in 1..(Len(data) - off) : data[off + i] = v[i]
            BY <2>5 DEF Cut
        <3>2. \A i \in (off + 1)..Len(data) : i \in 1..Len(data)
            BY <2>3, <3>1
        <3>3. \A i \in (off + 1)..Len(data) : data[i] \in Byte
            BY <2>3, <3>2
        <3>4. s \in Seq(Byte) /\ Len(s) = (IF off + 1 <= Len(data) THEN Len(data) - (off + 1) + 1 ELSE 0)
              /\ \A i \in 1..(Len(data) - (off + 1) + 1) : s[i] = data[(off + 1) + i - 1]
            BY <2>3, <3>3, SubSeqProperties, off + 1 \in Int, Len(data) \in Int
        <3> HIDE DEF s
        <3>5. Len(s) = Len(data) - off /\ Len(s) <= Len(v)
            BY <2>3, <3>1, <3>4
        <3>6. ASSUME NEW i \in 1..Len(s) PROVE s[i] = v[i]
            <4>1. i \in 1..(Len(data) - (off + 1) + 1) /\ i \in 1..(Len(data) - off)
                  /\ (off + 1) + i - 1 = off + i
                BY <2>3, <3>5
            <4> QED
                BY <3>1, <3>4, <4>1
        <3>7. IsPrefix(s, v)
            BY <2>2, <3>4, <3>5, <3>6, PrefixByElement
        <3> QED
            BY <3>7 DEF Rest, Got, s
    <2> QED
        BY <1>1, <2>1, <2>4, <2>5 DEF FieldRead
<1>3. CASE kind = "params"
    <2>1. v \in Seq(WirePair)
        <3>1. v \in Seq(Param) /\ \A i \in DOMAIN v : Len(v[i][2]) < 65536
            BY <1>3 DEF Writable
        <3>2. \A k \in Word : k \in Nat /\ k <= 65535
            BY DEF Word
        <3>3. ASSUME NEW p \in Param
              PROVE  p[1] \in Nat /\ p[1] <= 65535 /\ p[2] \in Seq(Byte) /\ p \in Pair
            <4>1. p[1] \in Word /\ p[2] \in Seq(Byte) /\ p = <<p[1], p[2]>>
                BY DEF Param
            <4>2. p[1] \in Nat /\ p[1] <= 65535
                BY <3>2, <4>1
            <4>3. p \in Pair
                BY <4>1, <4>2 DEF Pair
            <4> QED
                BY <4>1, <4>2, <4>3
        <3>4. Len(v) \in Nat
            BY <3>1, LenProperties
        <3>5. DOMAIN v = 1..Len(v) /\ \A i \in 1..Len(v) : v[i] \in Param
            BY <3>1, LenProperties
        <3>6. ASSUME NEW i \in 1..Len(v) PROVE v[i] \in WirePair
            <4> DEFINE p == v[i]
            <4>1. p \in Param /\ Len(p[2]) < 65536
                BY <3>1, <3>5
            <4> HIDE DEF p
            <4>2. Len(p[2]) <= 65535
                <5>1. p[2] \in Seq(Byte)
                    BY <3>3, <4>1
                <5>2. Len(p[2]) \in Nat
                    BY <5>1, LenProperties
                <5> QED
                    BY <4>1, <5>2
            <4> QED
                BY <3>3, <4>1, <4>2 DEF WirePair, p
        <3>7. v \in [1..Len(v) -> WirePair]
            <4>1. v \in [1..Len(v) -> Param]
                BY <3>1, LenProperties
            <4> QED
                BY <3>6, <4>1
        <3> QED
            BY <3>4, <3>7, FunctionIsSeq
    <2>2. Wire(kind, v) = WireParams(v) /\ ReadField(kind, data, off) = parseSVCBParams(data, off)
        BY <1>3 DEF Wire, WireParams, ReadField
    <2>3. WireParams(v) \in Seq(Byte)
        BY <2>1, ParamParts
    <2>4. /\ At(data, off, WireParams(v)) /\ off + Len(WireParams(v)) = Len(data) =>
                 parseSVCBParams(data, off) = Got(v, Len(data))
          /\ Cut(data, off, WireParams(v)) =>
                 (parseSVCBParams(data, off).ok => IsPrefix(parseSVCBParams(data, off).value, v))
        BY <2>1, ParamsReads
    <2> QED
        BY <1>1, <2>2, <2>3, <2>4 DEF FieldRead
<1> QED
    BY <1>1, <1>2, <1>3

(* Every kind of field.                                                    *)
LEMMA EveryFieldRead ==
    ASSUME NEW kind \in Kinds, NEW v, Writable(kind, v), NEW data \in Seq(Byte), NEW off \in Nat
    PROVE  FieldRead(kind, v, data, off)
<1>1. kind \in {"u8", "u16", "u32"} \/ kind \in {"str", "name"} \/ kind \in Open
    BY DEF Kinds, Open
<1> QED
    BY <1>1, IntegerRead, TextRead, OpenRead

-----------------------------------------------------------------------------
(* The fields of every layout; only the last may take what is left.        *)
LEMMA LayoutFacts ==
    ASSUME NEW layout \in Layouts
    PROVE  /\ layout \in Seq(Kinds) /\ Len(layout) \in Nat \ {0}
           /\ \A i \in 1..(Len(layout) - 1) : layout[i] \notin Open
<1> DEFINE Closed(n) == /\ layout \in Seq(Kinds) /\ Len(layout) = n
                        /\ \A i \in 1..(n - 1) : layout[i] \notin Open
<1>1. ASSUME layout = DNAME PROVE Closed(1)
    BY <1>1 DEF DNAME, Kinds, Open
<1>2. ASSUME layout = HINFO PROVE Closed(2)
    BY <1>2 DEF HINFO, Kinds, Open
<1>3. ASSUME layout = RP PROVE Closed(2)
    BY <1>3 DEF RP, Kinds, Open
<1>4. ASSUME layout = AFSDB PROVE Closed(2)
    BY <1>4 DEF AFSDB, Kinds, Open
<1>5. ASSUME layout = LOC PROVE Closed(7)
    BY <1>5 DEF LOC, Kinds, Open
<1>6. ASSUME layout = NAPTR PROVE Closed(6)
    BY <1>6 DEF NAPTR, Kinds, Open
<1>7. ASSUME layout = KX PROVE Closed(2)
    BY <1>7 DEF KX, Kinds, Open
<1>8. ASSUME layout = SSHFP PROVE Closed(3)
    BY <1>8 DEF SSHFP, Kinds, Open
<1>9. ASSUME layout = SVCB PROVE Closed(3)
    BY <1>9 DEF SVCB, Kinds, Open
<1>10. ASSUME layout = HTTPS PROVE Closed(3)
    BY <1>10 DEF HTTPS, Kinds, Open
<1>11. ASSUME layout = CAA PROVE Closed(3)
    BY <1>11 DEF CAA, Kinds, Open
<1>12. ASSUME layout = URI PROVE Closed(3)
    BY <1>12 DEF URI, Kinds, Open
<1> HIDE DEF Closed
<1>13. \E n \in 1..7 : Closed(n)
    BY <1>1, <1>2, <1>3, <1>4, <1>5, <1>6, <1>7, <1>8, <1>9, <1>10, <1>11, <1>12 DEF Layouts
<1> QED
    BY <1>13 DEF Closed

\* What Decode does with the next field.
DecodeStep(acc, kind, data) ==
    LET field == ReadField(kind, data, acc.off)
    IN  IF ~acc.ok \/ ~field.ok THEN Failed
        ELSE Got(Append(acc.value, field.value), field.off)

\* D is what Decode has after each field.
Decodes(D, layout, data) ==
    /\ D[0] = Got(<<>>, 0) /\ D[Len(layout)] = Decode(layout, data)
    /\ \A n \in 1..Len(layout) : D[n] = DecodeStep(D[n - 1], layout[n], data)

(* A body is decoded field by field.                                       *)
LEMMA DecodeSteps ==
    ASSUME NEW layout \in Seq(Kinds), NEW data
    PROVE  \E D : Decodes(D, layout, data)
<1> DEFINE N == Len(layout)
           base == Got(<<>>, 0)
           Step(acc, kind) == DecodeStep(acc, kind, data)
           Fold(f, n) == f = [T \in SUBSET (1..n) |->
               IF T = {} THEN base ELSE Step(f[T \ {Max(T)}], layout[Max(T)])]
           G == {n \in Nat : \E f : Fold(f, n)}
           g == CHOOSE f : Fold(f, N)
<1>1. N \in Nat /\ DOMAIN layout = 1..N
    BY LenProperties
<1> HIDE DEF base, Step
<1>2. 0 \in G
    <2> DEFINE f == [T \in SUBSET (1..0) |-> base]
    <2>1. \A T \in SUBSET (1..0) : T = {}
        OBVIOUS
    <2>2. Fold(f, 0)
        BY <2>1
    <2> HIDE DEF Fold
    <2> QED
        BY <2>2
<1>3. ASSUME NEW n \in Nat, n \in G PROVE n + 1 \in G
    <2> DEFINE m == n + 1
    <2>1. PICK f : Fold(f, n)
        <3> HIDE DEF Fold
        <3> QED
            BY <1>3
    <2> DEFINE h == [T \in SUBSET (1..m) |->
                        IF m \in T THEN Step(f[T \ {m}], layout[m]) ELSE f[T]]
    <2>2. ASSUME NEW T \in SUBSET (1..m)
          PROVE  h[T] = IF T = {} THEN base ELSE Step(h[T \ {Max(T)}], layout[Max(T)])
        <3>1. CASE m \in T
            <4>1. Max(T) = m
                <5>1. m \in Nat /\ T # {} /\ \A k \in T : k <= m
                    BY <3>1
                <5>2. Max(T) \in T /\ \A k \in T : k <= Max(T)
                    BY <5>1, MaxIsMember
                <5> DEFINE c == Max(T)
                <5> HIDE DEF m, c
                <5>3. c \in T /\ m <= c
                    BY <3>1, <5>2 DEF c
                <5>4. c \in Nat /\ c <= m
                    BY <5>1, <5>3
                <5> QED
                    BY <5>1, <5>3, <5>4 DEF c
            <4>2. T \ {m} \in SUBSET (1..m) /\ m \notin T \ {m}
                OBVIOUS
            <4>3. h[T] = Step(f[T \ {m}], layout[m]) /\ h[T \ {m}] = f[T \ {m}]
                <5> HIDE DEF m
                <5> QED
                    BY <3>1, <4>2
            <4> HIDE DEF h, m
            <4> QED
                BY <3>1, <4>1, <4>3
        <3>2. CASE m \notin T
            <4>1. T \in SUBSET (1..n)
                BY <3>2
            <4>2. f[T] = IF T = {} THEN base ELSE Step(f[T \ {Max(T)}], layout[Max(T)])
                BY <2>1, <4>1
            <4>3. T \ {Max(T)} \in SUBSET (1..m) /\ m \notin T \ {Max(T)}
                BY <3>2
            <4>4. h[T] = f[T] /\ h[T \ {Max(T)}] = f[T \ {Max(T)}]
                <5> HIDE DEF m
                <5> QED
                    BY <3>2, <4>3
            <4> HIDE DEF h
            <4> QED
                BY <4>2, <4>4
        <3> QED
            BY <3>1, <3>2
    <2>3. Fold(h, m)
        <3>1. h = [T \in SUBSET (1..m) |-> h[T]]
            OBVIOUS
        <3> HIDE DEF h, m
        <3> QED
            BY <2>2, <3>1
    <2> HIDE DEF Fold, h
    <2> QED
        BY <2>3
<1>4. N \in G
    <2> HIDE DEF G, N
    <2>1. \A n \in Nat : n \in G
        BY <1>2, <1>3, NatSetInduction
    <2> QED
        BY <1>1, <2>1
<1>5. Fold(g, N)
    <2> HIDE DEF Fold
    <2> QED
        BY <1>4
<1>6. Decode(layout, data) = g[1..N]
    BY <1>1, Zenon DEF Decode, FoldLeft, MapThenFoldSet, Step, DecodeStep, base
<1> HIDE DEF g
<1> DEFINE D == [n \in 0..N |-> g[1..n]]
<1>7. D[0] = base
    <2>1. 1..0 = {} /\ {} \in SUBSET (1..N)
        OBVIOUS
    <2>2. g[{}] = base
        BY <1>5, <2>1
    <2> HIDE DEF N
    <2> QED
        BY <1>1, <2>1, <2>2
<1>8. ASSUME NEW n \in 1..N PROVE D[n] = Step(D[n - 1], layout[n])
    <2> HIDE DEF N
    <2>1. n \in Nat /\ n # 0 /\ n \in 0..N /\ n - 1 \in 0..N
        BY <1>1
    <2>2. 1..n \in SUBSET (1..N) /\ 1..n # {} /\ Max(1..n) = n /\ (1..n) \ {n} = 1..(n - 1)
        <3>1. Max(1..n) = n /\ (1..n) \ {n} = 1..(n - 1)
            BY <2>1, MaxOfRange
        <3>2. n \in 1..n /\ 1..n \in SUBSET (1..N)
            BY <1>1, <2>1
        <3> QED
            BY <3>1, <3>2
    <2>3. g[1..n] = Step(g[1..(n - 1)], layout[n])
        BY <1>5, <2>2
    <2>4. D[n] = g[1..n] /\ D[n - 1] = g[1..(n - 1)]
        BY <2>1
    <2> QED
        BY <2>3, <2>4
<1>9. D[N] = g[1..N]
    <2> HIDE DEF N
    <2> QED
        BY <1>1
<1> HIDE DEF D
<1> QED
    BY <1>6, <1>7, <1>8, <1>9 DEF Decodes, base, Step

(* Once a field cannot be read the body is refused.                        *)
LEMMA DecodeFails ==
    ASSUME NEW layout \in Seq(Kinds), NEW data, NEW D, Decodes(D, layout, data),
           NEW m \in 1..Len(layout), ~ReadField(layout[m], data, D[m - 1].off).ok
    PROVE  Decode(layout, data) = Failed
<1> DEFINE N == Len(layout)
           H == {n \in Nat : n \in m..N => D[n] = Failed}
<1>1. N \in Nat /\ m \in 1..N
    BY LenProperties
<1>2. \A n \in 1..N : D[n] = DecodeStep(D[n - 1], layout[n], data)
    BY DEF Decodes
<1>3. D[m] = Failed
    BY <1>2 DEF DecodeStep
<1> HIDE DEF N
<1>4. 0 \in H
    BY <1>1
<1>5. ASSUME NEW n \in 1..N, n - 1 \in H PROVE n \in H
    <2>1. CASE n = m
        BY <1>1, <1>3, <2>1
    <2>2. CASE n # m
        <3> SUFFICES ASSUME n \in m..N PROVE D[n] = Failed
            BY <1>1
        <3>1. n - 1 \in m..N /\ n - 1 \in Nat
            BY <1>1, <2>2
        <3>2. D[n - 1] = Failed
            BY <1>5, <3>1
        <3>3. ~D[n - 1].ok
            BY <3>2 DEF Failed
        <3> QED
            BY <1>2, <3>3 DEF DecodeStep
    <2> QED
        BY <2>1, <2>2
<1> HIDE DEF H
<1>6. \A n \in 0..N : n \in H
    BY <1>1, <1>4, <1>5, AlongInduction
<1>7. N \in 0..N /\ N \in m..N
    BY <1>1
<1> QED
    BY <1>6, <1>7 DEF H, N, Decodes

\* The first m fields are read one after the other, at the offsets E.
FieldsRead(layout, data, shown, E, m) ==
    /\ E[0] = 0
    /\ \A k \in 1..m : ReadField(layout[k], data, E[k - 1]) = Got(shown[k], E[k])

(* While its fields are read, a body is decoded to what is shown of them.  *)
LEMMA DecodeTo ==
    ASSUME NEW layout \in Seq(Kinds), NEW data, NEW D, Decodes(D, layout, data),
           NEW S, NEW shown \in Seq(S), NEW E, NEW m \in 0..Len(layout), m <= Len(shown),
           FieldsRead(layout, data, shown, E, m)
    PROVE  \A n \in 0..m : D[n] = Got(SubSeq(shown, 1, n), E[n])
<1> DEFINE H == {n \in Nat : n <= m => D[n] = Got(SubSeq(shown, 1, n), E[n])}
<1>1. m \in Nat /\ Len(layout) \in Nat /\ m <= Len(layout) /\ Len(shown) \in Nat
    BY LenProperties
<1>2. 0 \in H
    <2>1. SubSeq(shown, 1, 0) = <<>>
        BY SubSeqProperties, EmptySeq
    <2> QED
        BY <2>1 DEF Decodes, FieldsRead
<1>3. ASSUME NEW n \in 1..m, n - 1 \in H PROVE n \in H
    <2>1. n \in Nat /\ n - 1 <= m /\ n \in 1..Len(layout) /\ n \in 1..Len(shown)
        BY <1>1
    <2>2. D[n - 1] = Got(SubSeq(shown, 1, n - 1), E[n - 1])
        BY <1>3, <2>1
    <2>3. ReadField(layout[n], data, E[n - 1]) = Got(shown[n], E[n])
        BY DEF FieldsRead
    <2>4. D[n] = DecodeStep(D[n - 1], layout[n], data)
        BY <2>1 DEF Decodes
    <2>5. D[n] = Got(Append(SubSeq(shown, 1, n - 1), shown[n]), E[n])
        <3> DEFINE s == SubSeq(shown, 1, n - 1)
                   x == shown[n]
        <3>1. /\ D[n - 1].ok /\ D[n - 1].value = s /\ D[n - 1].off = E[n - 1]
            BY <2>2 DEF Got
        <3> HIDE DEF s, x
        <3>2. ReadField(layout[n], data, E[n - 1]) = Got(x, E[n])
            BY <2>3 DEF x
        <3>3. Got(x, E[n]).ok /\ Got(x, E[n]).value = x /\ Got(x, E[n]).off = E[n]
            BY DEF Got
        <3>4. D[n] = Got(Append(s, x), E[n])
            BY <2>4, <3>1, <3>2, <3>3 DEF DecodeStep
        <3> QED
            BY <3>4 DEF s, x
    <2>6. Append(SubSeq(shown, 1, n - 1), shown[n]) = SubSeq(shown, 1, n)
        BY <2>1, SubSeqNext
    <2> QED
        BY <2>1, <2>5, <2>6
<1> HIDE DEF H
<1>4. \A n \in 0..m : n \in H
    BY <1>1, <1>2, <1>3, AlongInduction
<1> QED
    BY <1>1, <1>4 DEF H

-----------------------------------------------------------------------------
\* Values for the fields of a layout.
Fits(layout, values) == \A i \in 1..Len(layout) : Writable(layout[i], values[i])

(* The bytes of a field.                                                   *)
LEMMA WireType ==
    ASSUME NEW kind \in Kinds, NEW v, Writable(kind, v) PROVE Wire(kind, v) \in Seq(Byte)
BY EveryFieldRead, EmptySeq, 0 \in Nat DEF FieldRead

\* The rows of a body, and the body up to each of them.
Rows(layout, values) == [i \in 1..Len(layout) |-> Wire(layout[i], values[i])]

Parts(layout, values) ==
    [n \in 0..Len(layout) |-> WireBody(SubSeq(layout, 1, n), values)]

(* A body grows field by field.                                            *)
LEMMA BodyParts ==
    ASSUME NEW layout \in Seq(Kinds), NEW values, Fits(layout, values)
    PROVE  /\ Rows(layout, values) \in [1..Len(layout) -> Seq(Byte)]
           /\ Parts(layout, values) \in [0..Len(layout) -> Seq(Byte)]
           /\ Grown(Parts(layout, values), Rows(layout, values), Len(layout))
           /\ Parts(layout, values)[Len(layout)] = WireBody(layout, values)
<1> DEFINE N == Len(layout)
           W == Rows(layout, values)
           P == Parts(layout, values)
           R(n) == [i \in 1..n |-> W[i]]
<1>1. N \in Nat /\ \A i \in 1..N : layout[i] \in Kinds
    BY LenProperties
<1>2. \A i \in 1..N : W[i] = Wire(layout[i], values[i]) /\ W[i] \in Seq(Byte)
    BY <1>1, WireType DEF Rows, Fits
<1>3. W \in [1..N -> Seq(Byte)]
    <2>1. W = [i \in 1..N |-> W[i]]
        BY DEF Rows
    <2> HIDE DEF W
    <2> QED
        BY <1>2, <2>1
<1>4. \A n \in 0..N : P[n] = WireBody(SubSeq(layout, 1, n), values)
    BY DEF Parts
<1> HIDE DEF W, P
<1>5. ASSUME NEW n \in 0..N
      PROVE  P[n] = FlattenSeq(R(n)) /\ R(n) \in Seq(Seq(Byte)) /\ Len(R(n)) = n
    <2> DEFINE s == SubSeq(layout, 1, n)
    <2>1. n \in Nat /\ n <= N
        BY <1>1
    <2>2. \A i \in 1..n : layout[i] \in Kinds /\ i \in 1..N
        BY <1>1, <2>1
    <2>3. s \in Seq(Kinds) /\ Len(s) = (IF 1 <= n THEN n - 1 + 1 ELSE 0)
          /\ \A i \in 1..(n - 1 + 1) : s[i] = layout[1 + i - 1]
        BY <2>1, <2>2, SubSeqProperties, 1 \in Int, n \in Int
    <2> HIDE DEF s
    <2>4. Len(s) = n /\ \A i \in 1..n : s[i] = layout[i]
        BY <2>1, <2>3
    <2>5. DOMAIN s = 1..n
        BY <2>3, <2>4, LenProperties
    <2>6. [i \in DOMAIN s |-> Wire(s[i], values[i])] = R(n)
        BY <1>2, <2>2, <2>4, <2>5
    <2>7. P[n] = FlattenSeq(R(n))
        BY <1>4, <2>6 DEF WireBody, s
    <2>8. R(n) \in [1..n -> Seq(Byte)]
        BY <1>2, <2>2
    <2> HIDE DEF R
    <2> QED
        BY <2>1, <2>7, <2>8, FunctionIsSeq
<1>6. P \in [0..N -> Seq(Byte)]
    <2>1. \A n \in 0..N : FlattenSeq(R(n)) \in Seq(Byte)
        <3> HIDE DEF R
        <3> QED
            BY <1>5, FlattenAppend
    <2>2. P = [n \in 0..N |-> P[n]]
        BY DEF P, Parts
    <2> HIDE DEF R
    <2> QED
        BY <1>5, <2>1, <2>2
<1>7. P[0] = <<>>
    <2>1. 0 \in 0..N
        BY <1>1
    <2>2. R(0) = <<>>
        <3> HIDE DEF R
        <3> QED
            BY <1>5, <2>1, EmptySeq
    <2> QED
        BY <1>5, <2>1, <2>2, FlattenAppend
<1>8. ASSUME NEW n \in 1..N PROVE P[n] = P[n - 1] \o W[n]
    <2> DEFINE a == R(n)
               b == R(n - 1)
               c == Append(b, W[n])
    <2>1. n \in 0..N /\ n - 1 \in 0..N /\ n \in Nat
        BY <1>1
    <2>2. a \in Seq(Seq(Byte)) /\ Len(a) = n /\ P[n] = FlattenSeq(a)
        BY <1>5, <2>1
    <2>3. b \in Seq(Seq(Byte)) /\ Len(b) = n - 1 /\ P[n - 1] = FlattenSeq(b)
        BY <1>5, <2>1
    <2>4. W[n] \in Seq(Byte)
        BY <1>2
    <2>5. (\A i \in 1..n : a[i] = W[i]) /\ (\A i \in 1..(n - 1) : b[i] = W[i])
        OBVIOUS
    <2> HIDE DEF R, a, b
    <2>6. /\ c \in Seq(Seq(Byte)) /\ Len(c) = Len(b) + 1
          /\ \A i \in 1..Len(b) : c[i] = b[i]
          /\ c[Len(b) + 1] = W[n]
        BY <2>3, <2>4, AppendProperties
    <2> HIDE DEF c
    <2>7. Len(c) = n /\ \A i \in 1..n : c[i] = a[i]
        BY <2>1, <2>3, <2>5, <2>6
    <2>8. a = c
        BY <2>2, <2>6, <2>7, SeqEqual
    <2>9. FlattenSeq(c) = FlattenSeq(b) \o W[n]
        BY <2>3, <2>4, FlattenAppend DEF c
    <2> QED
        BY <2>2, <2>3, <2>8, <2>9
<1>9. P[N] = WireBody(layout, values)
    <2>1. N \in 0..N /\ SubSeq(layout, 1, N) = layout
        BY <1>1, SubSeqFull
    <2> QED
        BY <1>4, <2>1
<1> QED
    BY <1>3, <1>6, <1>7, <1>8, <1>9 DEF Grown, N, W, P

\* What is shown of each field, and where each field ends.
ShownBody(layout, values) == [i \in DOMAIN layout |-> Shown(layout[i], values[i])]

Ends(layout, values) == [n \in 0..Len(layout) |-> Len(Parts(layout, values)[n])]

(* The ends of the fields.                                                 *)
LEMMA EndFacts ==
    ASSUME NEW layout \in Seq(Kinds), NEW values, Fits(layout, values)
    PROVE  LET E == Ends(layout, values)
           IN  /\ E \in [0..Len(layout) -> Nat] /\ E[0] = 0
               /\ \A n \in 1..Len(layout) : E[n] = E[n - 1] + Len(Rows(layout, values)[n])
               /\ E[Len(layout)] = Len(WireBody(layout, values))
<1> DEFINE N == Len(layout)
           W == Rows(layout, values)
           P == Parts(layout, values)
           E == Ends(layout, values)
<1>1. N \in Nat
    BY LenProperties
<1>2. W \in [1..N -> Seq(Byte)]
    BY BodyParts
<1>3. P \in [0..N -> Seq(Byte)]
    BY BodyParts
<1>4. Grown(P, W, N) /\ P[N] = WireBody(layout, values)
    BY BodyParts
<1>5. \A n \in 0..N : E[n] = Len(P[n])
    BY DEF Ends
<1>6. E = [n \in 0..N |-> E[n]]
    BY DEF Ends
<1> HIDE DEF N, W, P, E
<1>7. \A n \in 0..N : E[n] \in Nat
    BY <1>3, <1>5, LenProperties
<1>8. E \in [0..N -> Nat]
    BY <1>6, <1>7
<1>9. E[0] = 0 /\ E[N] = Len(WireBody(layout, values))
    <2>1. 0 \in 0..N /\ N \in 0..N /\ Len(<<>>) = 0
        BY <1>1, EmptySeq
    <2> QED
        BY <1>4, <1>5, <2>1 DEF Grown
<1>10. ASSUME NEW n \in 1..N PROVE E[n] = E[n - 1] + Len(W[n])
    <2> DEFINE v == P[n - 1]
               w == W[n]
    <2>1. n \in 0..N /\ n - 1 \in 0..N
        BY <1>1
    <2>2. v \in Seq(Byte) /\ w \in Seq(Byte)
        BY <1>2, <1>3, <2>1
    <2>3. P[n] = v \o w
        BY <1>4 DEF Grown
    <2> HIDE DEF v, w
    <2>4. Len(v \o w) = Len(v) + Len(w)
        BY <2>2, ConcatProperties
    <2> QED
        BY <1>5, <2>1, <2>3, <2>4 DEF v, w
<1> QED
    BY <1>8, <1>9, <1>10 DEF E, N, W

(* The fields that are there are read as they were written.                *)
LEMMA FieldsThere ==
    ASSUME NEW layout \in Layouts, NEW values, Fits(layout, values), NEW data \in Seq(Byte),
           NEW m \in 0..Len(layout), At(data, 0, Parts(layout, values)[m]),
           m = Len(layout) /\ layout[m] \in Open => Len(WireBody(layout, values)) = Len(data)
    PROVE  FieldsRead(layout, data, ShownBody(layout, values), Ends(layout, values), m)
<1> DEFINE N == Len(layout)
           W == Rows(layout, values)
           P == Parts(layout, values)
           E == Ends(layout, values)
<1>1. /\ layout \in Seq(Kinds) /\ N \in Nat \ {0} /\ m \in 0..N
      /\ \A i \in 1..(N - 1) : layout[i] \notin Open
    BY LayoutFacts
<1>2. DOMAIN layout = 1..N /\ \A i \in 1..N : layout[i] \in Kinds
    BY <1>1, LenProperties
<1>3. /\ E \in [0..N -> Nat] /\ E[0] = 0 /\ E[N] = Len(WireBody(layout, values))
      /\ \A n \in 1..N : E[n] = E[n - 1] + Len(W[n])
    BY <1>1, EndFacts
<1>4. W \in [1..N -> Seq(Byte)]
    BY <1>1, BodyParts
<1>5. P \in [0..N -> Seq(Byte)]
    BY <1>1, BodyParts
<1>6. Grown(P, W, N)
    BY <1>1, BodyParts
<1>7. \A n \in 0..N : E[n] = Len(P[n])
    BY DEF Ends
<1>8. \A i \in 1..N : W[i] = Wire(layout[i], values[i])
    BY DEF Rows
<1>9. At(data, 0, P[m])
    OBVIOUS
<1>10. m = N /\ layout[m] \in Open => E[N] = Len(data)
    BY <1>3
<1> HIDE DEF N, W, P, E
<1>11. \A k \in 1..m : At(data, Len(P[k - 1]), W[k])
    <2>1. N \in Nat
        BY <1>1
    <2> QED
        BY <1>1, <1>4, <1>5, <1>6, <1>9, <2>1, RowsAt
<1>12. ASSUME NEW k \in 1..m
       PROVE  ReadField(layout[k], data, E[k - 1]) = Got(Shown(layout[k], values[k]), E[k])
    <2> DEFINE off == E[k - 1]
               kind == layout[k]
               v == values[k]
    <2>1. k \in 1..N /\ k - 1 \in 0..N
        BY <1>1
    <2>2. off \in Nat /\ off = Len(P[k - 1])
        BY <1>3, <1>7, <2>1
    <2>3. kind \in Kinds /\ Writable(kind, v)
        BY <1>2, <2>1 DEF Fits, N
    <2>4. At(data, off, Wire(kind, v)) /\ E[k] = off + Len(Wire(kind, v))
        BY <1>3, <1>8, <1>11, <2>1, <2>2
    <2>5. ASSUME kind \in Open PROVE E[k] = Len(data)
        <3>1. k = N /\ m = N
            BY <1>1, <2>1, <2>5
        <3> QED
            BY <1>10, <2>5, <3>1
    <2> HIDE DEF off, kind, v
    <2>6. FieldRead(kind, v, data, off)
        BY <2>2, <2>3, EveryFieldRead
    <2>7. ReadField(kind, data, off) = Got(Shown(kind, v), off + Len(Wire(kind, v)))
        BY <2>4, <2>5, <2>6 DEF FieldRead
    <2> QED
        BY <2>4, <2>7 DEF off, kind, v
<1>13. \A k \in 1..m : ShownBody(layout, values)[k] = Shown(layout[k], values[k])
    <2>1. \A k \in 1..m : k \in DOMAIN layout
        BY <1>1, <1>2
    <2> QED
        BY <2>1 DEF ShownBody
<1> QED
    BY <1>3, <1>12, <1>13 DEF FieldsRead, E

(* What Decode has after the fields that are there.                        *)
LEMMA DecodedThere ==
    ASSUME NEW layout \in Layouts, NEW values, Fits(layout, values), NEW data \in Seq(Byte),
           NEW m \in 0..Len(layout), At(data, 0, Parts(layout, values)[m]),
           m = Len(layout) /\ layout[m] \in Open => Len(WireBody(layout, values)) = Len(data)
    PROVE  \A D : Decodes(D, layout, data) =>
               D[m] = Got(SubSeq(ShownBody(layout, values), 1, m), Ends(layout, values)[m])
<1> DEFINE N == Len(layout)
           shown == ShownBody(layout, values)
           E == Ends(layout, values)
           S == {shown[i] : i \in 1..N}
<1>1. FieldsRead(layout, data, shown, E, m)
    BY FieldsThere
<1>2. layout \in Seq(Kinds) /\ N \in Nat /\ m \in 0..N
    BY LayoutFacts
<1>3. shown \in [1..N -> S]
    <2>1. DOMAIN layout = 1..N
        BY <1>2, LenProperties
    <2> QED
        BY <2>1 DEF ShownBody
<1> HIDE DEF shown, E, S
<1>4. shown \in Seq(S) /\ Len(shown) = N
    BY <1>2, <1>3, FunctionIsSeq
<1>5. m <= Len(shown) /\ m \in 0..m
    BY <1>2, <1>4
<1> SUFFICES ASSUME NEW D, Decodes(D, layout, data)
             PROVE  D[m] = Got(SubSeq(shown, 1, m), E[m])
    BY DEF shown, E
<1>6. \A n \in 0..m : D[n] = Got(SubSeq(shown, 1, n), E[n])
    BY <1>1, <1>2, <1>4, <1>5, DecodeTo
<1> QED
    BY <1>5, <1>6

-----------------------------------------------------------------------------
(* A whole body is decoded to what is shown of its fields.                 *)
LEMMA WholeBody ==
    ASSUME NEW layout \in Layouts, NEW values, Fits(layout, values), NEW data \in Seq(Byte),
           At(data, 0, WireBody(layout, values)),
           layout[Len(layout)] \in Open => Len(WireBody(layout, values)) = Len(data)
    PROVE  Decode(layout, data) =
               Got(ShownBody(layout, values), Len(WireBody(layout, values)))
<1> DEFINE N == Len(layout)
           shown == ShownBody(layout, values)
           E == Ends(layout, values)
           S == {shown[i] : i \in 1..N}
<1>1. layout \in Seq(Kinds) /\ N \in Nat /\ N \in 0..N
    BY LayoutFacts
<1>2. Parts(layout, values)[N] = WireBody(layout, values) /\ E[N] = Len(WireBody(layout, values))
    BY <1>1, BodyParts, EndFacts
<1>3. PICK D : Decodes(D, layout, data)
    BY <1>1, DecodeSteps
<1>4. D[N] = Got(SubSeq(shown, 1, N), E[N])
    BY <1>1, <1>2, <1>3, DecodedThere
<1>5. SubSeq(shown, 1, N) = shown
    <2>1. DOMAIN layout = 1..N
        BY <1>1, LenProperties
    <2>2. shown \in [1..N -> S]
        BY <2>1 DEF ShownBody
    <2> HIDE DEF shown, S, N
    <2>3. shown \in Seq(S) /\ Len(shown) = N
        BY <1>1, <2>2, FunctionIsSeq
    <2> QED
        BY <2>3, SubSeqFull
<1> QED
    BY <1>2, <1>3, <1>4, <1>5 DEF Decodes

(* A body cut short is refused, unless it ends in a field that takes what  *)
(* is left, which is then a beginning of the value.                        *)
LEMMA ShortBody ==
    ASSUME NEW layout \in Layouts, NEW values, Fits(layout, values), NEW data \in Seq(Byte),
           Cut(data, 0, WireBody(layout, values)), Decode(layout, data).ok
    PROVE  LET cut == Decode(layout, data)
               shown == ShownBody(layout, values)
           IN  /\ Last(layout) \in Open
               /\ Front(cut.value) = Front(shown) /\ IsPrefix(Last(cut.value), Last(shown))
<1> DEFINE N == Len(layout)
           W == Rows(layout, values)
           P == Parts(layout, values)
           shown == ShownBody(layout, values)
           E == Ends(layout, values)
<1>1. /\ layout \in Seq(Kinds) /\ N \in Nat \ {0} /\ \A i \in 1..(N - 1) : layout[i] \notin Open
    BY LayoutFacts
<1>2. DOMAIN layout = 1..N /\ \A i \in 1..N : layout[i] \in Kinds
    BY <1>1, LenProperties
<1>3. \A n \in 0..N : E[n] = Len(P[n])
    BY DEF Ends
<1>4. W \in [1..N -> Seq(Byte)]
    BY <1>1, BodyParts
<1>5. P \in [0..N -> Seq(Byte)]
    BY <1>1, BodyParts
<1>6. Grown(P, W, N) /\ Cut(data, 0, P[N])
    BY <1>1, BodyParts
<1>7. \A i \in 1..N : W[i] = Wire(layout[i], values[i])
    BY DEF Rows
<1>8. \A i \in 1..N : shown[i] = Shown(layout[i], values[i])
    BY <1>2 DEF ShownBody
<1>9. shown = [i \in 1..N |-> shown[i]]
    BY <1>2 DEF ShownBody
<1>10. Failed.ok = FALSE
    BY DEF Failed
<1> HIDE DEF W, P, shown, E, N
<1>11. PICK m \in 1..N : At(data, 0, P[m - 1]) /\ Cut(data, Len(P[m - 1]), W[m])
    <2>1. N \in 0..N /\ N \in Nat
        BY <1>1
    <2> QED
        BY <1>4, <1>5, <1>6, <2>1, RowsAt
<1> DEFINE k == m - 1
<1>12. k \in 0..N /\ k # N /\ k \in Nat
    BY <1>1
<1>13. PICK D : Decodes(D, layout, data)
    BY <1>1, DecodeSteps
<1>14. D[k] = Got(SubSeq(shown, 1, k), E[k])
    <2> HIDE DEF k
    <2>1. At(data, 0, P[k])
        BY <1>11 DEF k
    <2> QED
        BY <1>12, <1>13, <2>1, DecodedThere DEF N, P, shown, E
<1> DEFINE off == E[k]
           kind == layout[m]
           v == values[m]
           r == ReadField(kind, data, off)
<1>15. off \in Nat
    BY <1>3, <1>5, <1>12, LenProperties
<1>16. r.ok
    <2> SUFFICES ASSUME ~r.ok PROVE FALSE
        OBVIOUS
    <2>1. D[m - 1].off = E[m - 1]
        BY <1>14 DEF Got
    <2>2. ~ReadField(layout[m], data, D[m - 1].off).ok
        BY <2>1
    <2>3. m \in 1..Len(layout)
        BY DEF N
    <2>4. Decode(layout, data) = Failed
        BY <1>1, <1>13, <2>2, <2>3, DecodeFails
    <2> QED
        BY <1>10, <2>4
<1>17. kind \in Open /\ IsPrefix(r.value, Shown(kind, v))
    <2>1. kind \in Kinds /\ Writable(kind, v)
        BY <1>2 DEF Fits, N
    <2>2. Cut(data, off, Wire(kind, v))
        BY <1>3, <1>7, <1>11, <1>12
    <2> HIDE DEF off, kind, v
    <2>3. FieldRead(kind, v, data, off)
        BY <1>15, <2>1, EveryFieldRead
    <2> QED
        BY <1>16, <2>2, <2>3 DEF FieldRead
<1>18. m = N
    BY <1>1, <1>17
<1> DEFINE S == {shown[i] : i \in 1..N} \cup {r.value}
           u == SubSeq(shown, 1, N - 1)
<1>19. shown \in [1..N -> S]
    BY <1>9
<1>20. shown[N] \in S /\ r.value \in S
    BY <1>1
<1> HIDE DEF r, S
<1>21. shown \in Seq(S) /\ Len(shown) = N
    BY <1>1, <1>19, FunctionIsSeq
<1>22. shown = Append(u, shown[N]) /\ u \in Seq(S)
    <2>1. N \in 1..Len(shown)
        BY <1>1, <1>21
    <2>2. SubSeq(shown, 1, N) = Append(u, shown[N]) /\ u \in Seq(S)
        BY <1>21, <2>1, SubSeqNext
    <2>3. SubSeq(shown, 1, N) = shown
        BY <1>21, SubSeqFull
    <2> QED
        BY <2>2, <2>3
<1> HIDE DEF u
<1>23. Decode(layout, data) = Got(Append(u, r.value), r.off)
    <2>1. D[N] = DecodeStep(D[N - 1], layout[N], data) /\ D[N] = Decode(layout, data)
        BY <1>1, <1>13 DEF Decodes, N
    <2>2. D[N - 1] = Got(u, E[N - 1])
        BY <1>14, <1>18 DEF u
    <2>3. D[N - 1].ok /\ D[N - 1].value = u /\ D[N - 1].off = E[N - 1]
        BY <2>2 DEF Got
    <2>4. r = ReadField(layout[N], data, E[N - 1])
        BY <1>18 DEF r
    <2> QED
        BY <1>16, <2>1, <2>3, <2>4 DEF DecodeStep
<1>24. Decode(layout, data).value = Append(u, r.value)
    BY <1>23 DEF Got
<1>25. Front(Append(u, r.value)) = u /\ Last(Append(u, r.value)) = r.value
    BY <1>20, <1>22, FrontOfAppend
<1>26. Front(shown) = u /\ Last(shown) = shown[N]
    BY <1>20, <1>22, FrontOfAppend
<1>27. IsPrefix(r.value, shown[N])
    BY <1>8, <1>17, <1>18
<1>28. Last(layout) \in Open
    BY <1>17, <1>18 DEF Last, N
<1> QED
    BY <1>24, <1>25, <1>26, <1>27, <1>28 DEF shown

(* A body whose name ends in a compression pointer is refused.             *)
LEMMA PointerRefused ==
    ASSUME NEW layout \in Layouts, NEW values, Fits(layout, values),
           NEW m \in 1..Len(layout), layout[m] = "name", NEW b \in Seq(Byte)
    PROVE  ~Decode(layout, WireBody(SubSeq(layout, 1, m - 1), values)
                           \o WireLabels(values[m]) \o <<192, 12>> \o b).ok
<1> DEFINE N == Len(layout)
           P == Parts(layout, values)
           E == Ends(layout, values)
           shown == ShownBody(layout, values)
           k == m - 1
           p == P[k]
           w == WireLabels(values[m])
           c == <<192, 12>>
           d == <<192>>
           pw == p \o w
           pwc == pw \o c
           data == pwc \o b
           off == E[k]
<1>1. layout \in Seq(Kinds) /\ N \in Nat /\ k \in 0..N /\ k # N
    BY LayoutFacts
<1>2. p = WireBody(SubSeq(layout, 1, m - 1), values)
    BY <1>1 DEF Parts
<1>3. P \in [0..N -> Seq(Byte)]
    BY <1>1, BodyParts
<1>4. p \in Seq(Byte)
    BY <1>1, <1>3
<1>5. values[m] \in Seq(WireLabel)
    BY WritableLabels DEF Fits
<1>6. w \in Seq(Byte)
    BY <1>5, NameParts
<1>7. /\ c \in Seq(Byte) /\ d \in Seq(Byte)
      /\ Len(c) = 2 /\ Len(d) = 1 /\ c[1] = 192 /\ d[1] = 192
    BY ByteFacts
<1>8. off = Len(p)
    BY <1>1 DEF Ends
<1> HIDE DEF N, P, E, shown, p, w, c, d, off
<1>9. pw \in Seq(Byte)
    BY <1>4, <1>6, ConcatProperties
<1>10. Len(pw) = off + Len(w)
    BY <1>4, <1>6, <1>8, ConcatProperties
<1> HIDE DEF pw
<1>11. pwc \in Seq(Byte)
    BY <1>7, <1>9, ConcatProperties
<1> HIDE DEF pwc
<1>12. data \in Seq(Byte) /\ At(data, 0, pwc)
    BY <1>11, ConcatProperties, AtStart
<1> HIDE DEF data
<1>13. off \in Nat /\ Len(w) \in Nat /\ off + Len(w) \in Nat /\ 0 \in Nat /\ 0 + off = off
    <2>1. Len(p) \in Nat
        BY <1>4, LenProperties
    <2>2. Len(w) \in Nat
        BY <1>6, LenProperties
    <2> QED
        BY <1>8, <2>1, <2>2
<1>14. At(data, 0, pw) /\ At(data, off + Len(w), c)
    <2>1. c \in Seq(Byte)
        BY <1>7
    <2>2. At(data, 0, pw) /\ At(data, 0 + Len(pw), c)
        BY <1>9, <1>12, <1>13, <2>1, AtConcat DEF pwc
    <2>3. 0 + Len(pw) = off + Len(w)
        BY <1>10, <1>13
    <2> QED
        BY <2>2, <2>3
<1>15. At(data, 0, p) /\ At(data, off, w)
    <2>1. At(data, 0, p) /\ At(data, 0 + Len(p), w)
        BY <1>4, <1>6, <1>12, <1>13, <1>14, AtConcat DEF pw
    <2>2. 0 + Len(p) = off
        BY <1>8, <1>13
    <2> QED
        BY <2>1, <2>2
<1>16. At(data, off, w \o d)
    <2> DEFINE o == off + Len(w)
    <2>1. o \in Nat /\ At(data, o, c) /\ Len(data) \in Nat
        BY <1>12, <1>13, <1>14, LenProperties
    <2> HIDE DEF o
    <2>2. At(data, o, d)
        <3>1. o + 2 <= Len(data) /\ data[o + 1] = 192
            BY <1>7, <2>1 DEF At
        <3> QED
            BY <1>7, <2>1, <3>1 DEF At
    <2>3. d \in Seq(Byte)
        BY <1>7
    <2> QED
        BY <1>6, <1>12, <1>13, <1>15, <2>2, <2>3, AtConcat DEF o
<1>17. ~ReadField(layout[m], data, off).ok
    <2>1. ReadField("name", data, off) = parseWireName(data, off)
        BY DEF ReadField
    <2>2. ~parseWireName(data, off).ok
        BY <1>5, <1>12, <1>13, <1>16, NameReads DEF w, d
    <2> QED
        BY <2>1, <2>2
<1>18. PICK D : Decodes(D, layout, data)
    BY <1>1, DecodeSteps
<1>19. D[k] = Got(SubSeq(shown, 1, k), off)
    <2> HIDE DEF k
    <2> QED
        BY <1>1, <1>12, <1>15, <1>18, DecodedThere DEF N, P, E, p, shown, off
<1>20. D[m - 1].off = off
    BY <1>19 DEF Got
<1>21. Decode(layout, data) = Failed
    <2>1. ~ReadField(layout[m], data, D[m - 1].off).ok
        BY <1>17, <1>20
    <2> QED
        BY <1>1, <1>18, <2>1, DecodeFails
<1> QED
    BY <1>2, <1>21 DEF data, pwc, pw, w, c, Failed

-----------------------------------------------------------------------------
\* Every value of a body is one for its field.
BodyInv ==
    /\ body \in [layout : Layouts, values : Seq(UNION {FieldValues[kind] : kind \in Kinds})]
    /\ Len(body.values) <= Len(body.layout)
    /\ \A i \in 1..Len(body.values) : body.values[i] \in FieldValues[body.layout[i]]

(* Bodies are written field by field, from none.                           *)
LEMMA BodyInvHolds == BodySpec => []BodyInv
<1> DEFINE A == UNION {FieldValues[kind] : kind \in Kinds}
<1>1. ASSUME BodyInit PROVE BodyInv
    <2>1. PICK layout \in Layouts : body = [layout |-> layout, values |-> <<>>]
        BY <1>1 DEF BodyInit
    <2>2. <<>> \in Seq(A) /\ Len(<<>>) = 0
        BY EmptySeq
    <2>3. Len(layout) \in Nat
        BY LayoutFacts
    <2> HIDE DEF A
    <2>4. body \in [layout : Layouts, values : Seq(A)]
        BY <2>1, <2>2
    <2>5. body.values = <<>> /\ body.layout = layout
        BY <2>1
    <2> QED
        BY <2>2, <2>3, <2>4, <2>5 DEF BodyInv, A
<1>2. ASSUME BodyInv, BodyNext PROVE BodyInv'
    <2> DEFINE l == body.layout
               s == body.values
               n == Len(s)
    <2>1. body \in [layout : Layouts, values : Seq(A)] /\ \A i \in 1..n : s[i] \in FieldValues[l[i]]
        BY <1>2 DEF BodyInv
    <2>2. PICK v \in FieldValues[l[n + 1]] : body' = [body EXCEPT !.values = Append(s, v)]
        BY <1>2 DEF BodyNext
    <2>3. n < Len(l)
        BY <1>2 DEF BodyNext
    <2>4. l \in Layouts /\ s \in Seq(A)
        BY <2>1
    <2> DEFINE t == Append(s, v)
    <2>5. body' = [body EXCEPT !.values = t]
        BY <2>2
    <2> HIDE DEF l, s, n, t
    <2>6. l \in Seq(Kinds) /\ Len(l) \in Nat
        BY <2>4, LayoutFacts
    <2>7. n \in Nat /\ n + 1 \in 1..Len(l)
        BY <2>3, <2>4, <2>6, LenProperties DEF n
    <2>8. l[n + 1] \in Kinds
        BY <2>6, <2>7, LenProperties
    <2>9. v \in A
        BY <2>8
    <2> HIDE DEF A
    <2>10. t \in Seq(A) /\ Len(t) = n + 1 /\ (\A i \in 1..n : t[i] = s[i]) /\ t[n + 1] = v
        BY <2>4, <2>9, AppendProperties DEF t, n
    <2>11. \A i \in 1..(n + 1) : t[i] \in FieldValues[l[i]]
        <3>1. \A i \in 1..(n + 1) : i \in 1..n \/ i = n + 1
            BY <2>7
        <3> QED
            BY <2>1, <2>10, <3>1
    <2>12. body' \in [layout : Layouts, values : Seq(A)] /\ body'.layout = l /\ body'.values = t
        BY <2>1, <2>5, <2>10 DEF l
    <2>13. n + 1 <= Len(l)
        BY <2>7
    <2> QED
        BY <2>10, <2>11, <2>12, <2>13 DEF BodyInv, A
<1>3. ASSUME BodyInv, UNCHANGED body PROVE BodyInv'
    BY <1>3 DEF BodyInv
<1> QED
    BY <1>1, <1>2, <1>3, PTL DEF BodySpec

(* Whatever is written is read back.                                       *)
LEMMA WrittenIsRead ==
    ASSUME BodyInv PROVE DecodeFaithful
<1> DEFINE layout == body.layout
           values == body.values
           N == Len(layout)
           wire == WireBody(layout, values)
           shown == ShownBody(layout, values)
           open == Last(layout) \in Open
<1> SUFFICES ASSUME values # <<>>, Len(values) = N
             PROVE  /\ Decode(layout, wire) = Got(shown, Len(wire))
                    /\ ~open => Decode(layout, wire \o <<7, 7>>) = Got(shown, Len(wire))
                    /\ \A n \in 0..(Len(wire) - 1) :
                           LET cut == Decode(layout, SubSeq(wire, 1, n))
                           IN  cut.ok => /\ open /\ Front(cut.value) = Front(shown)
                                         /\ IsPrefix(Last(cut.value), Last(shown))
                    /\ \A i \in DOMAIN layout : layout[i] = "name" =>
                           ~Decode(layout, WireBody(SubSeq(layout, 1, i - 1), values)
                                           \o WireLabels(values[i]) \o <<192, 12>>
                                           \o [k \in 1..200 |-> 0]).ok
    BY Zenon DEF DecodeFaithful, ShownBody
<1>1. layout \in Layouts /\ \A i \in 1..N : values[i] \in FieldValues[layout[i]]
    BY DEF BodyInv
<1>2. layout \in Seq(Kinds) /\ N \in Nat \ {0}
    BY <1>1, LayoutFacts
<1>3. DOMAIN layout = 1..N /\ \A i \in 1..N : layout[i] \in Kinds
    BY <1>2, LenProperties
<1>4. Fits(layout, values)
    BY <1>1, <1>3, FieldsAssumption DEF Fits
<1>5. open <=> layout[N] \in Open
    BY DEF Last
<1> HIDE DEF layout, values
<1>6. wire \in Seq(Byte)
    <2>1. N \in 0..N
        BY <1>2
    <2> QED
        BY <1>2, <1>4, <2>1, BodyParts
<1> HIDE DEF wire
<1>7. Decode(layout, wire) = Got(shown, Len(wire))
    <2>1. At(wire, 0, wire)
        <3>1. 0 + Len(wire) <= Len(wire) /\ \A i \in 1..Len(wire) : wire[0 + i] = wire[i]
            BY <1>6, LenProperties
        <3> QED
            BY <3>1 DEF At
    <2> QED
        BY <1>1, <1>4, <1>6, <2>1, WholeBody DEF wire
<1>8. ASSUME ~open PROVE Decode(layout, wire \o <<7, 7>>) = Got(shown, Len(wire))
    <2> DEFINE b == <<7, 7>>
               data == wire \o b
    <2>1. b \in Seq(Byte)
        BY ByteFacts
    <2> HIDE DEF b
    <2>2. data \in Seq(Byte) /\ At(data, 0, wire)
        BY <1>6, <2>1, ConcatProperties, AtStart
    <2> HIDE DEF data
    <2>3. Decode(layout, data) = Got(shown, Len(wire))
        BY <1>1, <1>4, <1>5, <1>8, <2>2, WholeBody DEF wire
    <2> QED
        BY <2>3 DEF data, b
<1>9. ASSUME NEW n \in 0..(Len(wire) - 1), Decode(layout, SubSeq(wire, 1, n)).ok
      PROVE  /\ open /\ Front(Decode(layout, SubSeq(wire, 1, n)).value) = Front(shown)
             /\ IsPrefix(Last(Decode(layout, SubSeq(wire, 1, n)).value), Last(shown))
    <2> DEFINE data == SubSeq(wire, 1, n)
    <2>1. data \in Seq(Byte) /\ Cut(data, 0, wire)
        BY <1>6, CutStart
    <2>2. Decode(layout, data).ok
        BY <1>9
    <2> HIDE DEF data
    <2>3. /\ open /\ Front(Decode(layout, data).value) = Front(shown)
          /\ IsPrefix(Last(Decode(layout, data).value), Last(shown))
        BY <1>1, <1>4, <2>1, <2>2, ShortBody DEF wire
    <2> QED
        BY <2>3 DEF data
<1>10. ASSUME NEW i \in DOMAIN layout, layout[i] = "name"
       PROVE  ~Decode(layout, WireBody(SubSeq(layout, 1, i - 1), values)
                              \o WireLabels(values[i]) \o <<192, 12>>
                              \o [k \in 1..200 |-> 0]).ok
    <2> DEFINE b == [k \in 1..200 |-> 0]
    <2>1. b \in Seq(Byte)
        <3>1. 200 \in Nat /\ 0 \in Byte
            BY ByteFacts
        <3>2. b \in [1..200 -> Byte]
            BY <3>1
        <3> HIDE DEF b
        <3> QED
            BY <3>1, <3>2, FunctionIsSeq
    <2> HIDE DEF b
    <2>2. i \in 1..Len(layout)
        BY <1>3
    <2>3. ~Decode(layout, WireBody(SubSeq(layout, 1, i - 1), values)
                          \o WireLabels(values[i]) \o <<192, 12>> \o b).ok
        BY <1>1, <1>4, <1>10, <2>1, <2>2, PointerRefused
    <2> QED
        BY <2>3 DEF b
<1> QED
    BY <1>7, <1>8, <1>9, <1>10, Zenon

(* For any values, a body is read back as it was written, whatever follows *)
(* it; one cut short is refused or is a beginning of the value; a name     *)
(* that ends in a compression pointer is refused.                          *)
THEOREM AnyBodyRead == BodySpec => []DecodeFaithful
<1>1. BodyInv => DecodeFaithful
    BY WrittenIsRead
<1> QED
    BY <1>1, BodyInvHolds, PTL
=============================================================================
