--------------------------- MODULE QueryLoopProofs ---------------------------
(***************************************************************************)
(* tryOneName keeps the promise of NameQuery for any number of lookups and *)
(* attempts.  With rotate the number of servers has to divide the range of *)
(* the rotation counter: with another number a round may skip a server     *)
(* while the counter wraps.                                                *)
(*                                                                         *)
(* What an attempt makes of a reply, and what the lookups read out of one  *)
(* that is taken, is right for replies of any length.                      *)
(***************************************************************************)
EXTENDS QueryLoop, MCReply, Lemmas, FiniteSetTheorems

\* The rounds a lookup makes meet every server.
Divides == \E k \in Nat \ {0} : 2^Width = N * k
NoWrap == ~Rotate /\ 2^Width \in Nat /\ N <= 2^Width
FullRounds == Divides \/ NoWrap

LoopType ==
    /\ soffset \in Nat /\ off \in [Lookups -> Nat]
    /\ \A l \in Lookups : Rotate \/ off[l] = 0
    /\ pc \in [Lookups -> {"offset", "ask", "done"}]
    /\ i \in [Lookups -> Nat] /\ j \in [Lookups -> Servers]
    /\ res \in [Lookups -> Failures \cup Conclusive \cup {"none"}]
    /\ asked \in [Lookups -> Seq(Servers \X (Failures \cup Conclusive))]

Heard(l) == ToSet(asked[l])

HasFailed(h, s) == \E v \in Failures : <<s, v>> \in h

\* The server at place p of a round that begins at offset o.
Place(o, p) == ((o + p) % 2^Width) % N

\* While it asks, a lookup has no result, and has met with failure wherever it
\* has been: in the first round at the places before this one, later everywhere.
AskInv ==
    \A l \in Lookups :
        /\ pc[l] # "done" => res[l] = "none"
        /\ pc[l] = "offset" => i[l] = 0 /\ j[l] = 0
        /\ pc[l] = "ask" =>
               \A p \in 0..(N - 1) : 
                   (i[l] > 0 \/ p < j[l]) => HasFailed(Heard(l), Place(off[l], p))

LoopInv == LoopType /\ AskInv

-----------------------------------------------------------------------------
(* Judging an outcome gives a failure or a conclusive verdict.             *)
LEMMA JudgeType == ASSUME NEW o PROVE Judge(o) \in Failures \cup Conclusive
BY DEF Judge, Failures, Conclusive

\* Every server has one place in the round, and every place a server.
LEMMA Places ==
    ASSUME LoopType, FullRounds, NEW l \in Lookups
    PROVE  /\ \A p \in 0..(N - 1) : Place(off[l], p) \in Servers
           /\ \A s \in Servers : \E p \in 0..(N - 1) : Place(off[l], p) = s
           /\ \A p, q \in 0..(N - 1) : Place(off[l], p) = Place(off[l], q) => p = q
<1>1. N \in Nat \ {0} /\ off[l] \in Nat
    BY LoopAssumption DEF LoopType
<1>2. ASSUME NEW p \in 0..(N - 1) PROVE Place(off[l], p) = (off[l] + p) % N
    <2> DEFINE n == off[l] + p
    <2>1. n \in Nat
        BY <1>1
    <2>2. CASE Divides
        <3>1. PICK k \in Nat \ {0} : 2^Width = N * k
            BY <2>2 DEF Divides
        <3>2. (n % (N * k)) % N = n % N
            <4> HIDE DEF n
            <4> QED
                BY <2>1, <1>1, ModWrap
        <3> QED
            BY <3>1, <3>2, Zenon DEF Place
    <2>3. CASE NoWrap
        <3>1. n = p /\ n < N
            BY <2>3, <1>1 DEF NoWrap, LoopType
        <3> DEFINE w == 2^Width
        <3>2. w \in Nat /\ n < w
            <4>1. w \in Nat /\ N <= w
                BY <2>3 DEF NoWrap
            <4> HIDE DEF w
            <4> QED
                BY <4>1, <3>1, <2>1, <1>1
        <3> HIDE DEF w, n
        <3>3. n % w = n
            BY <3>2, <2>1
        <3> QED
            BY <3>3 DEF Place, w, n
    <2> QED
        BY <2>2, <2>3 DEF FullRounds
<1>3. ASSUME NEW p \in 0..(N - 1) PROVE Place(off[l], p) \in Servers
    <2>1. off[l] + p \in Nat
        BY <1>1
    <2>2. (off[l] + p) % N \in 0..(N - 1)
        BY <2>1, <1>1, ModNext
    <2> QED
        BY <2>2, <1>2 DEF Servers
<1>4. ASSUME NEW s \in Servers PROVE \E p \in 0..(N - 1) : Place(off[l], p) = s
    <2>1. PICK p \in 0..(N - 1) : (off[l] + p) % N = s
        BY <1>1, ModCovers DEF Servers
    <2> QED
        BY <2>1, <1>2
<1>5. ASSUME NEW p \in 0..(N - 1), NEW q \in 0..(N - 1),
             Place(off[l], p) = Place(off[l], q)
      PROVE  p = q
    BY <1>1, <1>2, <1>5, ModInjective
<1> QED
    BY <1>3, <1>4, <1>5

\* Asking adds one thing to what a lookup has heard.
LEMMA HeardMore ==
    ASSUME LoopType, NEW l \in Lookups, NEW x \in Servers \X (Failures \cup Conclusive),
           asked' = [asked EXCEPT ![l] = Append(@, x)]
    PROVE  /\ Heard(l)' = Heard(l) \cup {x}
           /\ \A m \in Lookups : m # l => Heard(m)' = Heard(m)
           /\ asked' \in [Lookups -> Seq(Servers \X (Failures \cup Conclusive))]
<1>1. asked[l] \in Seq(Servers \X (Failures \cup Conclusive))
    BY DEF LoopType
<1>2. ToSet(Append(asked[l], x)) = ToSet(asked[l]) \cup {x}
    <2> DEFINE a == asked[l]
               b == Append(a, x)
    <2>1. /\ a \in Seq(Servers \X (Failures \cup Conclusive))
          /\ DOMAIN a = 1..Len(a) /\ Len(a) \in Nat
        BY <1>1
    <2>2. /\ DOMAIN b = 1..(Len(a) + 1) /\ b[Len(a) + 1] = x
          /\ \A n \in 1..Len(a) : b[n] = a[n]
        <3> HIDE DEF a
        <3> QED
            BY <2>1
    <2> HIDE DEF a, b
    <2>3. \A y : y \in ToSet(a) => y \in ToSet(b)
        BY <2>1, <2>2 DEF ToSet
    <2>4. x \in ToSet(b)
        <3> DEFINE n == Len(a) + 1
        <3>1. n \in DOMAIN b /\ b[n] = x
            <4>1. n \in 1..n
                BY <2>1
            <4> QED
                BY <2>2, <4>1
        <3> HIDE DEF n
        <3> QED
            BY <3>1 DEF ToSet
    <2>5. \A y : y \in ToSet(b) => y \in ToSet(a) \/ y = x
        BY <2>1, <2>2 DEF ToSet
    <2>6. ToSet(b) = ToSet(a) \cup {x}
        BY <2>3, <2>4, <2>5
    <2> QED
        BY <2>6 DEF a, b
<1>3. asked'[l] = Append(asked[l], x) /\ \A m \in Lookups : m # l => asked'[m] = asked[m]
    BY DEF LoopType
<1> QED
    BY <1>1, <1>2, <1>3 DEF Heard, LoopType

-----------------------------------------------------------------------------
(* The initial states satisfy LoopInv.                                     *)
LEMMA LoopInit == Init => LoopInv
<1> SUFFICES ASSUME Init PROVE LoopInv
    OBVIOUS
<1>1. LoopType
    BY LoopAssumption DEF Init, LoopType, Servers
<1> QED
    BY <1>1 DEF Init, LoopInv, AskInv

(* Taking the rotation offset keeps LoopInv.                               *)
LEMMA OffsetStep ==
    ASSUME LoopInv, FullRounds, NEW l \in Lookups, TakeOffset(l)
    PROVE  LoopInv' /\ UNCHANGED <<asked, res>>
<1>1. soffset \in Nat
    BY DEF LoopInv, LoopType
<1>2. Rotate => (soffset + 1) % 2^Width \in Nat
    <2> SUFFICES ASSUME Rotate PROVE (soffset + 1) % 2^Width \in Nat
        OBVIOUS
    <2>1. PICK k \in Nat \ {0} : 2^Width = N * k
        BY DEF FullRounds, Divides, NoWrap
    <2> DEFINE w == N * k
    <2>2. w \in Nat \ {0}
        BY LoopAssumption, Z3T(30)
    <2>3. (soffset + 1) % w \in Nat
        <3> HIDE DEF w
        <3> QED
            BY <2>2, <1>1
    <2>4. (soffset + 1) % 2^Width = (soffset + 1) % w
        BY <2>1, Zenon
    <2> QED
        BY <2>3, <2>4
<1>3. LoopType'
    <2> DEFINE next == (soffset + 1) % 2^Width
    <2>1. /\ soffset' = IF Rotate THEN next ELSE soffset
          /\ off' = [off EXCEPT ![l] = IF Rotate THEN soffset ELSE 0]
          /\ pc' = [pc EXCEPT ![l] = "ask"]
          /\ UNCHANGED <<i, j, res, asked>>
        BY DEF TakeOffset
    <2>2. Rotate => next \in Nat
        BY <1>2
    <2> HIDE DEF next
    <2>3. soffset' \in Nat
        BY <1>1, <2>1, <2>2
    <2>4. /\ off' \in [Lookups -> Nat] /\ pc' \in [Lookups -> {"offset", "ask", "done"}]
          /\ \A m \in Lookups : Rotate \/ off'[m] = 0
        BY <1>1, <2>1 DEF LoopInv, LoopType
    <2> QED
        BY <2>1, <2>3, <2>4 DEF LoopInv, LoopType
<1>4. AskInv'
    <2> SUFFICES ASSUME NEW m \in Lookups
                 PROVE  /\ pc'[m] # "done" => res'[m] = "none"
                        /\ pc'[m] = "offset" => i'[m] = 0 /\ j'[m] = 0
                        /\ pc'[m] = "ask" =>
                               \A p \in 0..(N - 1) :
                                   (i'[m] > 0 \/ p < j'[m]) =>
                                       HasFailed(Heard(m)', Place(off'[m], p))
        BY DEF AskInv
    <2>1. CASE m = l
        <3>1. /\ pc[l] = "offset" /\ pc'[l] = "ask" /\ UNCHANGED <<i, j, res>>
            BY DEF TakeOffset, LoopInv, LoopType
        <3>2. res[l] = "none" /\ i[l] = 0 /\ j[l] = 0
            BY <3>1 DEF LoopInv, AskInv
        <3> QED
            BY <2>1, <3>1, <3>2
    <2>2. CASE m # l
        <3>1. /\ pc'[m] = pc[m] /\ off'[m] = off[m] /\ UNCHANGED <<i, j, res>>
              /\ Heard(m)' = Heard(m)
            BY <2>2 DEF TakeOffset, LoopInv, LoopType, Heard
        <3> QED
            BY <3>1 DEF LoopInv, AskInv
    <2> QED
        BY <2>1, <2>2
<1> QED
    BY <1>3, <1>4 DEF LoopInv, TakeOffset

(* What the body of the loop and its control leave behind.                 *)
LEMMA LoopControl ==
    ASSUME LoopInv, NEW l \in Lookups, NEW o, NEW v, v = Judge(o), Ask(l, o)
    PROVE  /\ pc[l] = "ask" /\ res[l] = "none"
           /\ asked' = [asked EXCEPT ![l] = Append(@, <<Server(l), v>>)]
           /\ soffset' = soffset /\ off' = off
           /\ \/ /\ pc' = [pc EXCEPT ![l] = "done"] /\ res' = [res EXCEPT ![l] = v]
                 /\ i' = i /\ j' = j
                 /\ v \notin Conclusive => j[l] + 1 = N /\ i[l] + 1 >= Attempts
              \/ /\ v \notin Conclusive /\ pc' = pc /\ res' = res
                 /\ \/ j[l] + 1 < N /\ i' = i /\ j' = [j EXCEPT ![l] = @ + 1]
                    \/ /\ j[l] + 1 = N /\ i[l] + 1 < Attempts
                       /\ i' = [i EXCEPT ![l] = @ + 1] /\ j' = [j EXCEPT ![l] = 0]
<1>1. N \in Nat \ {0} /\ i[l] \in Nat /\ j[l] \in 0..(N - 1) /\ Attempts \in Nat
    BY LoopAssumption DEF LoopInv, LoopType, Servers
<1>2. /\ pc[l] = "ask"
      /\ asked' = [asked EXCEPT ![l] = Append(@, <<Server(l), v>>)]
      /\ soffset' = soffset /\ off' = off
      /\ \/ v \in Conclusive /\ Return(l, v)
         \/ v \notin Conclusive /\ Advance(l, v)
    BY DEF Ask
<1>3. res[l] = "none"
    BY <1>2 DEF LoopInv, AskInv
<1> QED
    BY <1>1, <1>2, <1>3 DEF Return, Advance

(* One exchange keeps the invariant, and a failure becomes the result only *)
(* when every server has failed.                                           *)
LEMMA AskStep ==
    ASSUME LoopInv, FullRounds, NEW l \in Lookups, NEW o, NEW v, v = Judge(o), Ask(l, o)
    PROVE  /\ LoopInv'
           /\ res[l] = "none"
           /\ Server(l) \in Servers /\ v \in Failures \cup Conclusive
           /\ Heard(l)' = Heard(l) \cup {<<Server(l), v>>}
           /\ \A m \in Lookups : m # l => Heard(m)' = Heard(m)
           /\ \/ v \in Conclusive /\ res' = [res EXCEPT ![l] = v]
              \/ v \in Failures /\ UNCHANGED res
              \/ /\ v \in Failures /\ res' = [res EXCEPT ![l] = v]
                 /\ \A s \in Servers : HasFailed(Heard(l)', s)
<1> DEFINE x == <<Server(l), v>>
<1>1. v \in Failures \cup Conclusive
    BY JudgeType
<1>2. N \in Nat \ {0} /\ i[l] \in Nat /\ j[l] \in 0..(N - 1) /\ Attempts \in Nat
    BY LoopAssumption DEF LoopInv, LoopType, Servers
<1>3. Server(l) = Place(off[l], j[l]) /\ Server(l) \in Servers
    BY <1>2, Places DEF LoopInv, Server, Place
<1>4. pc[l] = "ask" /\ off' = off /\ asked' = [asked EXCEPT ![l] = Append(@, x)]
    BY LoopControl
<1>5. res[l] = "none" /\ soffset' = soffset
    BY LoopControl
<1>6. x \in Servers \X (Failures \cup Conclusive)
    BY <1>1, <1>3
<1>7. /\ Heard(l)' = Heard(l) \cup {x}
      /\ \A m \in Lookups : m # l => Heard(m)' = Heard(m)
      /\ asked' \in [Lookups -> Seq(Servers \X (Failures \cup Conclusive))]
    <2> HIDE DEF x
    <2> QED
        BY <1>4, <1>6, HeardMore DEF LoopInv
<1>8. ASSUME v \notin Conclusive, NEW p \in 0..(N - 1), i[l] > 0 \/ p < j[l] + 1
      PROVE  HasFailed(Heard(l)', Place(off[l], p))
    <2>1. CASE i[l] > 0 \/ p < j[l]
        <3>1. HasFailed(Heard(l), Place(off[l], p))
            BY <2>1, <1>4 DEF LoopInv, AskInv
        <3> QED
            BY <3>1, <1>7 DEF HasFailed
    <2>2. CASE p = j[l]
        <3>1. v \in Failures /\ <<Place(off[l], p), v>> \in Heard(l)'
            BY <2>2, <1>1, <1>3, <1>7, <1>8
        <3> QED
            BY <3>1 DEF HasFailed
    <2> QED
        BY <2>1, <2>2, <1>2, <1>8
<1>9. \/ /\ pc' = [pc EXCEPT ![l] = "done"] /\ res' = [res EXCEPT ![l] = v]
         /\ i' = i /\ j' = j
         /\ v \notin Conclusive => j[l] + 1 = N
      \/ /\ v \notin Conclusive /\ pc' = pc /\ res' = res
         /\ \/ j[l] + 1 < N /\ i' = i /\ j' = [j EXCEPT ![l] = @ + 1]
            \/ j[l] + 1 = N /\ i' = [i EXCEPT ![l] = @ + 1] /\ j' = [j EXCEPT ![l] = 0]
    BY LoopControl
<1>10. LoopType'
    <2>1. j[l] + 1 < N => j[l] + 1 \in Servers
        BY <1>2 DEF Servers
    <2>2. 0 \in Servers
        BY <1>2 DEF Servers
    <2>3. i' \in [Lookups -> Nat] /\ j' \in [Lookups -> Servers]
        <3>1. i \in [Lookups -> Nat] /\ j \in [Lookups -> Servers] /\ i[l] + 1 \in Nat
            BY <1>2 DEF LoopInv, LoopType
        <3>2. CASE i' = i /\ j' = j
            BY <3>1, <3>2
        <3>3. CASE j[l] + 1 < N /\ i' = i /\ j' = [j EXCEPT ![l] = @ + 1]
            BY <3>1, <3>3, <2>1
        <3>4. CASE i' = [i EXCEPT ![l] = @ + 1] /\ j' = [j EXCEPT ![l] = 0]
            BY <3>1, <3>4, <2>2
        <3> QED
            BY <1>9, <3>2, <3>3, <3>4
    <2>4. /\ pc' \in [Lookups -> {"offset", "ask", "done"}]
          /\ res' \in [Lookups -> Failures \cup Conclusive \cup {"none"}]
        BY <1>1, <1>9 DEF LoopInv, LoopType
    <2> QED
        BY <1>4, <1>5, <1>7, <2>3, <2>4 DEF LoopInv, LoopType
<1>11. AskInv'
    <2> SUFFICES ASSUME NEW m \in Lookups
                 PROVE  /\ pc'[m] # "done" => res'[m] = "none"
                        /\ pc'[m] = "offset" => i'[m] = 0 /\ j'[m] = 0
                        /\ pc'[m] = "ask" =>
                               \A p \in 0..(N - 1) :
                                   (i'[m] > 0 \/ p < j'[m]) =>
                                       HasFailed(Heard(m)', Place(off[m], p))
        BY <1>4 DEF AskInv
    <2>1. CASE m # l
        <3>1. /\ pc'[m] = pc[m] /\ i'[m] = i[m] /\ j'[m] = j[m] /\ res'[m] = res[m]
              /\ Heard(m)' = Heard(m)
            BY <2>1, <1>7, <1>9 DEF LoopInv, LoopType
        <3> QED
            BY <3>1 DEF LoopInv, AskInv
    <2>2. CASE m = l /\ pc' = [pc EXCEPT ![l] = "done"]
        BY <2>2 DEF LoopInv, LoopType
    <2>3. CASE m = l /\ pc' # [pc EXCEPT ![l] = "done"]
        <3>1. v \notin Conclusive /\ pc'[l] = "ask" /\ res'[l] = "none"
            BY <2>3, <1>4, <1>5, <1>9
        <3>2. \/ i'[l] = i[l] /\ j'[l] = j[l] + 1
              \/ j[l] + 1 = N
            BY <2>3, <1>9 DEF LoopInv, LoopType
        <3>3. ASSUME NEW p \in 0..(N - 1), i'[l] > 0 \/ p < j'[l]
              PROVE  i[l] > 0 \/ p < j[l] + 1
            BY <3>2, <3>3, <1>2
        <3> QED
            BY <2>3, <3>1, <3>3, <1>8
    <2> QED
        BY <2>1, <2>2, <2>3
<1>12. ASSUME v \notin Conclusive, j[l] + 1 = N
       PROVE  \A s \in Servers : HasFailed(Heard(l)', s)
    <2> SUFFICES ASSUME NEW s \in Servers PROVE HasFailed(Heard(l)', s)
        OBVIOUS
    <2>1. PICK p \in 0..(N - 1) : Place(off[l], p) = s
        BY Places DEF LoopInv
    <2>2. p < j[l] + 1
        BY <1>12, <1>2
    <2> QED
        BY <1>8, <1>12, <2>1, <2>2
<1> QED
    BY <1>1, <1>3, <1>5, <1>7, <1>9, <1>10, <1>11, <1>12 DEF LoopInv

(* Every step of the loop keeps LoopInv.                                   *)
LEMMA LoopInductive ==
    ASSUME FullRounds, LoopInv, [Next]_vars PROVE LoopInv'
<1>1. CASE UNCHANGED vars
    BY <1>1 DEF vars, LoopInv, LoopType, AskInv, Heard
<1>2. CASE Done
    BY <1>1, <1>2 DEF Done
<1>3. ASSUME NEW l \in Lookups, TakeOffset(l) PROVE LoopInv'
    BY <1>3, OffsetStep
<1>4. ASSUME NEW l \in Lookups, NEW o \in Outcomes, Ask(l, o) PROVE LoopInv'
    BY <1>4, AskStep
<1> QED
    BY <1>1, <1>2, <1>3, <1>4 DEF Next, Step

-----------------------------------------------------------------------------
(* Initial states of the loop map to initial states of the promise.        *)
LEMMA InitImplements == Init => Promise!Init
<1> SUFFICES ASSUME Init PROVE Promise!Init
    OBVIOUS
<1>1. \A l \in Lookups : ToSet(asked[l]) = {}
    BY DEF Init, ToSet
<1> QED
    BY <1>1 DEF Init, Promise!Init

(* An exchange is a Hear of the abstract specification, all else stutters. *)
LEMMA StepImplements ==
    ASSUME FullRounds, LoopInv, [Next]_vars
    PROVE  \/ Promise!Next
           \/ UNCHANGED <<asked, res>>
<1>1. CASE UNCHANGED vars
    BY <1>1 DEF vars
<1>2. CASE Done
    BY <1>2 DEF Done, vars
<1>3. ASSUME NEW l \in Lookups, TakeOffset(l) PROVE UNCHANGED <<asked, res>>
    BY <1>3, OffsetStep
<1>4. ASSUME NEW l \in Lookups, NEW o \in Outcomes, Ask(l, o) PROVE Promise!Next
    <2> DEFINE h == [m \in Lookups |-> ToSet(asked[m])]
               v == Judge(o)
               s == Server(l)
    <2>1. /\ res[l] = "none"
          /\ s \in Servers /\ v \in Failures \cup Conclusive
          /\ Heard(l)' = Heard(l) \cup {<<s, v>>}
          /\ \A m \in Lookups : m # l => Heard(m)' = Heard(m)
          /\ \/ v \in Conclusive /\ res' = [res EXCEPT ![l] = v]
             \/ v \in Failures /\ UNCHANGED res
             \/ /\ v \in Failures /\ res' = [res EXCEPT ![l] = v]
                /\ \A t \in Servers : HasFailed(Heard(l)', t)
        BY <1>4, AskStep
    <2>2. h = [m \in Lookups |-> Heard(m)] /\ h' = [m \in Lookups |-> Heard(m)']
        BY DEF Heard
    <2> HIDE DEF h, v, s
    <2>3. h' = [h EXCEPT ![l] = @ \cup {<<s, v>>}] /\ h'[l] = Heard(l)'
        BY <2>1, <2>2
    <2>4. <<s, v>> \in h'[l]
        BY <2>1, <2>3
    <2>5. (\A t \in Servers : HasFailed(Heard(l)', t)) => Promise!AllFailed(h'[l])
        BY <2>3 DEF Promise!AllFailed, HasFailed
    <2>6. \/ v \in Conclusive /\ res' = [res EXCEPT ![l] = v]
          \/ v \in Failures /\ UNCHANGED res
          \/ /\ v \in Failures /\ Promise!AllFailed(h'[l])
             /\ \E f \in Failures :
                   /\ \E t \in Servers : <<t, f>> \in h'[l]
                   /\ res' = [res EXCEPT ![l] = f]
        BY <2>1, <2>4, <2>5, Zenon
    <2>7. Promise!Hear(l, s, v)
        BY <2>1, <2>3, <2>6, Zenon DEF Promise!Hear, h
    <2> QED
        BY <2>1, <2>7 DEF Promise!Next
<1> QED
    BY <1>1, <1>2, <1>3, <1>4 DEF Next, Step

(* Without rotate, or with a number of servers that divides the range of   *)
(* the rotation counter, tryOneName keeps its promise for any number of    *)
(* concurrent lookups, servers and attempts, wherever the rotation begins  *)
(* and whenever its counter wraps: nothing is asked after a conclusive     *)
(* reply, and a failure is reported only when every server has failed.     *)
THEOREM KeepsPromise == ASSUME FullRounds PROVE Spec => ImplementsNameQuery
<1>1. Init => LoopInv
    BY LoopInit
<1>2. LoopInv /\ [Next]_vars => LoopInv'
    BY LoopInductive
<1>3. Init => Promise!Init
    BY InitImplements
<1>4. LoopInv /\ [Next]_vars => Promise!Next \/ UNCHANGED <<asked, res>>
    BY StepImplements
<1>5. UNCHANGED <<asked, res>> => UNCHANGED <<[l \in Lookups |-> ToSet(asked[l])], res>>
    OBVIOUS
<1> QED
    BY <1>1, <1>2, <1>3, <1>4, <1>5, PTL DEF Spec, ImplementsNameQuery, Promise!Spec

-----------------------------------------------------------------------------
(***************************************************************************)
(* How often each server is asked.  At any moment the servers at the       *)
(* places before this one have been asked once more than the others.       *)
(***************************************************************************)
Turn(l) == j[l] + (IF pc[l] = "done" THEN 1 ELSE 0)

CountInv ==
    \A l \in Lookups :
        /\ i[l] < Attempts
        /\ pc[l] = "offset" => asked[l] = <<>>
        /\ pc[l] # "offset" =>
               \A p \in 0..(N - 1) :
                   Times(l, Place(off[l], p)) = i[l] + (IF p < Turn(l) THEN 1 ELSE 0)
        /\ res[l] \in Failures => pc[l] = "done" /\ i[l] + 1 = Attempts /\ j[l] + 1 = N

\* Times of any sequence.
Count(a, s) == Cardinality({k \in DOMAIN a : a[k][1] = s})

(* Before any query no server has been asked.                              *)
LEMMA CountEmpty == \A s : Count(<<>>, s) = 0
BY FS_EmptySet DEF Count

(* A query adds one to the count of the server asked, and to no other.     *)
LEMMA CountMore ==
    ASSUME NEW S, NEW a \in Seq(S), NEW x, NEW s
    PROVE  Count(Append(a, x), s) = Count(a, s) + (IF x[1] = s THEN 1 ELSE 0)
<1> DEFINE b == Append(a, x)
           A == {k \in DOMAIN a : a[k][1] = s}
           B == {k \in DOMAIN b : b[k][1] = s}
           n == Len(a) + 1
<1>1. Len(a) \in Nat /\ DOMAIN a = 1..Len(a)
    OBVIOUS
<1>2. DOMAIN b = 1..n /\ b[n] = x /\ \A k \in 1..Len(a) : b[k] = a[k]
    OBVIOUS
<1> HIDE DEF b
<1>3. IsFiniteSet(A) /\ n \notin A
    <2>1. IsFiniteSet(1..Len(a))
        BY <1>1, FS_Interval
    <2>2. A \in SUBSET (1..Len(a))
        BY <1>1
    <2> QED
        BY <1>1, <2>1, <2>2, FS_Subset
<1>4. B = IF x[1] = s THEN A \cup {n} ELSE A
    BY <1>1, <1>2
<1>5. Cardinality(A \cup {n}) = Cardinality(A) + 1 /\ Cardinality(A) \in Nat
    BY <1>3, FS_AddElement, FS_CardinalityType
<1>6. Cardinality(B) = Cardinality(A) + (IF x[1] = s THEN 1 ELSE 0)
    <2> HIDE DEF A, B
    <2> QED
        BY <1>4, <1>5
<1> QED
    BY <1>6 DEF Count, b

(* The initial states satisfy CountInv.                                    *)
LEMMA CountInit == Init => CountInv
<1> SUFFICES ASSUME Init, NEW l \in Lookups
             PROVE  /\ i[l] < Attempts /\ asked[l] = <<>> /\ pc[l] = "offset"
                    /\ res[l] \notin Failures
    BY DEF CountInv
<1> QED
    BY LoopAssumption DEF Init, Failures

(* Taking the rotation offset keeps CountInv.                              *)
LEMMA CountOffset ==
    ASSUME LoopInv, FullRounds, CountInv, NEW l \in Lookups, TakeOffset(l)
    PROVE  CountInv'
<1>1. LoopInv'
    BY OffsetStep
<1> SUFFICES ASSUME NEW m \in Lookups
             PROVE  /\ i'[m] < Attempts
                    /\ pc'[m] = "offset" => asked'[m] = <<>>
                    /\ pc'[m] # "offset" =>
                           \A p \in 0..(N - 1) :
                               Count(asked'[m], Place(off'[m], p)) =
                                   i'[m] + (IF p < j'[m] + (IF pc'[m] = "done" THEN 1 ELSE 0)
                                            THEN 1 ELSE 0)
                    /\ res'[m] \in Failures =>
                           pc'[m] = "done" /\ i'[m] + 1 = Attempts /\ j'[m] + 1 = N
    BY DEF CountInv, Times, Turn, Count
<1>2. UNCHANGED <<i, j, res, asked>>
    BY DEF TakeOffset
<1>3. CASE m = l
    <2>1. pc[l] = "offset" /\ pc'[l] = "ask" /\ asked[l] = <<>> /\ i[l] < Attempts
        BY DEF TakeOffset, LoopInv, LoopType, CountInv
    <2>2. i[l] = 0 /\ j[l] = 0 /\ res[l] \notin Failures
        BY <2>1 DEF LoopInv, AskInv, Failures
    <2>3. \A p \in 0..(N - 1) : Count(asked'[l], Place(off'[l], p)) = 0
        BY <1>2, <2>1, CountEmpty
    <2> QED
        BY <1>2, <1>3, <2>1, <2>2, <2>3
<1>4. CASE m # l
    <2>1. pc'[m] = pc[m] /\ off'[m] = off[m]
        BY <1>4 DEF TakeOffset, LoopInv, LoopType
    <2> QED
        BY <1>2, <2>1 DEF CountInv, Times, Turn, Count
<1> QED
    BY <1>3, <1>4

(* Asking a server keeps CountInv.                                         *)
LEMMA CountAsk ==
    ASSUME LoopInv, FullRounds, CountInv, NEW l \in Lookups, NEW o, Ask(l, o)
    PROVE  CountInv'
<1> DEFINE v == Judge(o)
           x == <<Server(l), v>>
<1>1. /\ pc[l] = "ask" /\ res[l] = "none"
      /\ asked' = [asked EXCEPT ![l] = Append(@, x)]
      /\ off' = off
      /\ \/ /\ pc' = [pc EXCEPT ![l] = "done"] /\ res' = [res EXCEPT ![l] = v]
            /\ i' = i /\ j' = j
            /\ v \notin Conclusive => j[l] + 1 = N /\ i[l] + 1 >= Attempts
         \/ /\ v \notin Conclusive /\ pc' = pc /\ res' = res
            /\ \/ j[l] + 1 < N /\ i' = i /\ j' = [j EXCEPT ![l] = @ + 1]
               \/ /\ j[l] + 1 = N /\ i[l] + 1 < Attempts
                  /\ i' = [i EXCEPT ![l] = @ + 1] /\ j' = [j EXCEPT ![l] = 0]
    BY LoopControl
<1>2. /\ N \in Nat \ {0} /\ Attempts \in Nat
      /\ i[l] \in Nat /\ i[l] < Attempts /\ j[l] \in 0..(N - 1)
    BY LoopAssumption DEF LoopInv, LoopType, Servers, CountInv
<1>3. v \in Failures => v \notin Conclusive
    BY DEF Failures, Conclusive
<1> HIDE DEF v
<1>4. x[1] = Place(off[l], j[l])
    BY DEF Server, Place
<1>5. asked[l] \in Seq(Servers \X (Failures \cup Conclusive))
    BY DEF LoopInv, LoopType
<1>6. asked'[l] = Append(asked[l], x)
    BY <1>1 DEF LoopInv, LoopType
<1>7. ASSUME NEW p \in 0..(N - 1)
      PROVE  Count(asked'[l], Place(off[l], p)) = i[l] + (IF p < j[l] + 1 THEN 1 ELSE 0)
    <2> DEFINE s == Place(off[l], p)
    <2>1. Count(asked'[l], s) = Count(asked[l], s) + (IF x[1] = s THEN 1 ELSE 0)
        <3> HIDE DEF x, s
        <3> QED
            BY <1>5, <1>6, CountMore
    <2>2. Count(asked[l], s) = i[l] + (IF p < j[l] THEN 1 ELSE 0)
        <3>1. Turn(l) = j[l]
            BY <1>1, <1>2 DEF Turn
        <3>2. Times(l, s) = i[l] + (IF p < Turn(l) THEN 1 ELSE 0)
            <4> HIDE DEF s
            <4>1. pc[l] # "offset"
                BY <1>1
            <4> QED
                BY <4>1 DEF CountInv, s
        <3> QED
            BY <3>1, <3>2 DEF Times, Count
    <2>3. x[1] = s <=> p = j[l]
        BY <1>2, <1>4, Places DEF LoopInv
    <2> HIDE DEF s, x
    <2> QED
        BY <1>2, <2>1, <2>2, <2>3 DEF s
<1> SUFFICES ASSUME NEW m \in Lookups
             PROVE  /\ i'[m] < Attempts
                    /\ pc'[m] = "offset" => asked'[m] = <<>>
                    /\ pc'[m] # "offset" =>
                           \A p \in 0..(N - 1) :
                               Count(asked'[m], Place(off[m], p)) =
                                   i'[m] + (IF p < j'[m] + (IF pc'[m] = "done" THEN 1 ELSE 0)
                                            THEN 1 ELSE 0)
                    /\ res'[m] \in Failures =>
                           pc'[m] = "done" /\ i'[m] + 1 = Attempts /\ j'[m] + 1 = N
    BY <1>1 DEF CountInv, Times, Turn, Count
<1>8. CASE m # l
    <2>1. /\ pc'[m] = pc[m] /\ i'[m] = i[m] /\ j'[m] = j[m] /\ res'[m] = res[m]
          /\ asked'[m] = asked[m]
        BY <1>1, <1>8 DEF LoopInv, LoopType
    <2> QED
        BY <2>1 DEF CountInv, Times, Turn, Count
<1>9. CASE m = l
    <2>1. CASE pc'[l] = "done"
        <3>1. /\ i'[l] = i[l] /\ j'[l] = j[l] /\ res'[l] = v
              /\ v \notin Conclusive => j[l] + 1 = N /\ i[l] + 1 >= Attempts
            BY <2>1, <1>1 DEF LoopInv, LoopType
        <3>2. v \in Failures => i[l] + 1 = Attempts /\ j[l] + 1 = N
            BY <3>1, <1>2, <1>3
        <3> QED
            BY <1>2, <1>7, <1>9, <2>1, <3>1, <3>2
    <2>2. CASE pc'[l] # "done"
        <3>1. pc'[l] = "ask" /\ res'[l] \notin Failures
            BY <2>2, <1>1 DEF LoopInv, LoopType, Failures
        <3>2. \/ j[l] + 1 < N /\ i'[l] = i[l] /\ j'[l] = j[l] + 1
              \/ /\ j[l] + 1 = N /\ i[l] + 1 < Attempts
                 /\ i'[l] = i[l] + 1 /\ j'[l] = 0
            BY <2>2, <1>1 DEF LoopInv, LoopType
        <3>3. ASSUME NEW p \in 0..(N - 1)
              PROVE  i[l] + (IF p < j[l] + 1 THEN 1 ELSE 0) = i'[l] + (IF p < j'[l] THEN 1 ELSE 0)
            BY <1>2, <3>2
        <3> QED
            BY <1>2, <1>7, <1>9, <2>2, <3>1, <3>2, <3>3
    <2> QED
        BY <2>1, <2>2
<1> QED
    BY <1>8, <1>9

(* Every step of the loop keeps CountInv.                                  *)
LEMMA CountInductive ==
    ASSUME FullRounds, LoopInv, CountInv, [Next]_vars PROVE CountInv'
<1>1. CASE UNCHANGED vars
    BY <1>1 DEF vars, CountInv, Times, Turn
<1>2. CASE Done
    BY <1>1, <1>2 DEF Done
<1>3. ASSUME NEW l \in Lookups, TakeOffset(l) PROVE CountInv'
    BY <1>3, CountOffset
<1>4. ASSUME NEW l \in Lookups, NEW o \in Outcomes, Ask(l, o) PROVE CountInv'
    BY <1>4, CountAsk
<1> QED
    BY <1>1, <1>2, <1>3, <1>4 DEF Next, Step

(* The counts at the end of full rounds say that every server was tried.   *)
LEMMA CountEnough == ASSUME FullRounds, LoopInv, CountInv PROVE EveryServerTried
<1> SUFFICES ASSUME NEW l \in Lookups
             PROVE  /\ res[l] \in Failures => \A s \in Servers : Times(l, s) = Attempts
                    /\ \A s, t \in Servers : Times(l, s) <= Times(l, t) + 1
    BY DEF EveryServerTried
<1>1. N \in Nat \ {0} /\ Attempts \in Nat /\ i[l] \in Nat /\ j[l] \in 0..(N - 1)
    BY LoopAssumption DEF LoopInv, LoopType, Servers
<1>2. CASE pc[l] = "offset"
    <2>1. \A s : Times(l, s) = 0
        BY <1>2, CountEmpty, ZenonT(60) DEF CountInv, Times, Count
    <2>2. res[l] \notin Failures
        BY <1>2 DEF LoopInv, AskInv, Failures
    <2> QED
        BY <2>1, <2>2
<1>3. CASE pc[l] # "offset"
    <2>1. \A s \in Servers : \E p \in 0..(N - 1) :
              Times(l, s) = i[l] + (IF p < Turn(l) THEN 1 ELSE 0)
        BY <1>3, Places DEF LoopInv, CountInv
    <2>2. res[l] \in Failures => Turn(l) = N /\ i[l] + 1 = Attempts
        BY <1>1 DEF CountInv, Turn
    <2> QED
        BY <1>1, <2>1, <2>2
<1> QED
    BY <1>2, <1>3

(* A failure is reported only after every server has failed as often as    *)
(* configured, and the servers are asked in rounds, for any number of      *)
(* concurrent lookups, servers and attempts.                               *)
THEOREM TriesAll == ASSUME FullRounds PROVE Spec => []EveryServerTried
<1>1. Init => LoopInv /\ CountInv
    BY LoopInit, CountInit
<1>2. LoopInv /\ CountInv /\ [Next]_vars => (LoopInv /\ CountInv)'
    BY LoopInductive, CountInductive
<1>3. LoopInv /\ CountInv => EveryServerTried
    BY CountEnough
<1> QED
    BY <1>1, <1>2, <1>3, PTL DEF Spec

-----------------------------------------------------------------------------
(***************************************************************************)
(* Where the lookups begin.  Each takes its turn of the rotation, so those *)
(* that have begun spread over the servers.                                *)
(***************************************************************************)
Begun(s) == {l \in Lookups : pc[l] # "offset" /\ off[l] % N = s}

Turns == [s \in Servers |-> Cardinality(Begun(s))]

BeginInv ==
    /\ \A l \in Lookups : asked[l] # <<>> => /\ pc[l] # "offset"
                                            /\ asked[l][1][1] = Place(off[l], 0)
    /\ \A l \in Lookups : asked[l] = <<>> => i[l] = 0 /\ j[l] = 0 /\ pc[l] # "done"
    /\ Rotate => Spread(Turns, N, soffset % N)

\* With as many values of the counter as rounds of servers, its place survives
\* the wrap.
LEMMA NextPlace ==
    ASSUME Divides, NEW n \in Nat
    PROVE  /\ n % N \in 0..(N - 1)
           /\ ((n + 1) % 2^Width) % N = IF (n % N) + 1 = N THEN 0 ELSE (n % N) + 1
           /\ (n % 2^Width) % N = n % N
<1>1. PICK k \in Nat \ {0} : 2^Width = N * k
    BY DEF Divides
<1>2. N \in Nat \ {0} /\ n + 1 \in Nat
    BY LoopAssumption
<1>3. ((n + 1) % (N * k)) % N = (n + 1) % N /\ (n % (N * k)) % N = n % N
    <2> DEFINE m == n + 1
    <2>1. m \in Nat
        BY <1>2
    <2> HIDE DEF m
    <2>2. (m % (N * k)) % N = m % N /\ (n % (N * k)) % N = n % N
        BY <1>2, <2>1, ModWrap
    <2> QED
        BY <2>2 DEF m
<1>4. n % N \in 0..(N - 1) /\ (n + 1) % N = IF (n % N) + 1 = N THEN 0 ELSE (n % N) + 1
    BY <1>2, ModNext
<1> QED
    BY <1>1, <1>3, <1>4, Zenon

(* The initial states satisfy BeginInv.                                    *)
LEMMA BeginInit == Init => BeginInv
<1> SUFFICES ASSUME Init PROVE BeginInv
    OBVIOUS
<1>1. \A l \in Lookups : asked[l] = <<>> /\ pc[l] = "offset" /\ i[l] = 0 /\ j[l] = 0
    BY DEF Init
<1>2. \A s \in 0..(N - 1) : Turns[s] = 0
    <2>1. \A s : Begun(s) = {}
        BY <1>1 DEF Begun
    <2> QED
        BY <2>1, FS_EmptySet DEF Turns, Servers
<1>3. soffset % N \in 0..(N - 1) /\ N \in Nat \ {0}
    BY LoopInit, LoopAssumption, ModNext DEF LoopInv, LoopType
<1>4. Spread(Turns, N, soffset % N)
    BY <1>2, <1>3, SpreadStart
<1> QED
    BY <1>1, <1>4 DEF BeginInv

(* Taking the rotation offset keeps BeginInv.                              *)
LEMMA BeginOffset ==
    ASSUME IsFiniteSet(Lookups), LoopInv, Divides, BeginInv, NEW l \in Lookups, TakeOffset(l)
    PROVE  BeginInv'
<1>1. /\ pc[l] = "offset" /\ pc' = [pc EXCEPT ![l] = "ask"] /\ UNCHANGED <<i, j, asked>>
      /\ off' = [off EXCEPT ![l] = IF Rotate THEN soffset ELSE 0]
      /\ Rotate => soffset' = (soffset + 1) % 2^Width
    BY DEF TakeOffset
<1>2. /\ pc \in [Lookups -> {"offset", "ask", "done"}] /\ off \in [Lookups -> Nat]
      /\ soffset \in Nat /\ N \in Nat \ {0}
    BY LoopAssumption DEF LoopInv, LoopType
<1>3. asked[l] = <<>>
    BY <1>1 DEF BeginInv
<1>4. \A m \in Lookups :
          /\ asked'[m] # <<>> => /\ pc'[m] # "offset"
                                 /\ asked'[m][1][1] = Place(off'[m], 0)
          /\ asked'[m] = <<>> => i'[m] = 0 /\ j'[m] = 0 /\ pc'[m] # "done"
    BY <1>1, <1>2, <1>3 DEF BeginInv
<1>5. ASSUME Rotate PROVE Spread(Turns', N, soffset' % N)
    <2> DEFINE c == soffset % N
    <2>1. /\ c \in 0..(N - 1)
          /\ soffset' % N = IF c + 1 = N THEN 0 ELSE c + 1
        BY <1>1, <1>2, <1>5, NextPlace
    <2> HIDE DEF c
    <2>2. \A s \in Servers : Begun(s)' = IF s = c THEN Begun(s) \cup {l} ELSE Begun(s)
        <3>1. off'[l] % N = c /\ pc'[l] = "ask"
            BY <1>1, <1>2, <1>5 DEF c
        <3>2. \A m \in Lookups : m # l => off'[m] = off[m] /\ pc'[m] = pc[m]
            BY <1>1, <1>2
        <3> QED
            BY <1>1, <3>1, <3>2 DEF Begun
    <2>3. l \notin Begun(c)
        BY <1>1 DEF Begun
    <2>4. \A s : IsFiniteSet(Begun(s)) /\ Cardinality(Begun(s)) \in Nat
        <3>1. \A s : Begun(s) \in SUBSET Lookups
            BY DEF Begun
        <3> QED
            BY <3>1, FS_Subset, FS_CardinalityType
    <2>5. Cardinality(Begun(c) \cup {l}) = Cardinality(Begun(c)) + 1
        BY <2>3, <2>4, FS_AddElement
    <2>6. \A s \in 0..(N - 1) : Turns'[s] = IF s = c THEN Turns[s] + 1 ELSE Turns[s]
        BY <2>2, <2>5 DEF Turns, Servers
    <2>7. Spread(Turns, N, c)
        BY <1>5 DEF BeginInv, c
    <2>8. Spread(Turns', N, IF c + 1 = N THEN 0 ELSE c + 1)
        BY <1>2, <2>1, <2>6, <2>7, SpreadNext
    <2> QED
        BY <2>1, <2>8
<1> QED
    BY <1>4, <1>5 DEF BeginInv

(* Asking a server keeps BeginInv.                                         *)
LEMMA BeginAsk ==
    ASSUME LoopInv, BeginInv, NEW l \in Lookups, NEW o, Ask(l, o)
    PROVE  BeginInv'
<1> DEFINE x == <<Server(l), Judge(o)>>
<1>1. /\ pc[l] = "ask" /\ asked' = [asked EXCEPT ![l] = Append(@, x)]
      /\ soffset' = soffset /\ off' = off
    BY LoopControl
<1>2. /\ pc' \in {pc, [pc EXCEPT ![l] = "done"]}
      /\ \A m \in Lookups : m # l => i'[m] = i[m] /\ j'[m] = j[m]
    BY LoopControl DEF LoopInv, LoopType
<1>3. /\ pc \in [Lookups -> {"offset", "ask", "done"}]
      /\ asked \in [Lookups -> Seq(Servers \X (Failures \cup Conclusive))]
      /\ off \in [Lookups -> Nat]
    BY DEF LoopInv, LoopType
<1>4. \A s : Begun(s)' = Begun(s)
    BY <1>1, <1>2, <1>3 DEF Begun
<1>5. asked'[l] # <<>> /\ asked'[l][1][1] = Place(off[l], 0)
    <2>1. asked'[l] = Append(asked[l], x) /\ asked[l] \in Seq(Servers \X (Failures \cup Conclusive))
        BY <1>1, <1>3
    <2>2. CASE asked[l] = <<>>
        <3>1. x[1] = Place(off[l], 0)
            BY <2>2 DEF BeginInv, Server, Place
        <3>2. asked'[l] = <<x>>
            BY <2>1, <2>2
        <3> HIDE DEF x
        <3> QED
            BY <3>1, <3>2
    <2>3. CASE asked[l] # <<>>
        <3>1. asked'[l] # <<>> /\ asked'[l][1] = asked[l][1]
            <4> HIDE DEF x
            <4> QED
                BY <2>1, <2>3
        <3> QED
            BY <2>3, <3>1 DEF BeginInv
    <2> QED
        BY <2>2, <2>3
<1>6. \A m \in Lookups :
          /\ asked'[m] # <<>> => /\ pc'[m] # "offset"
                                 /\ asked'[m][1][1] = Place(off[m], 0)
          /\ asked'[m] = <<>> => i'[m] = 0 /\ j'[m] = 0 /\ pc'[m] # "done"
    <2> TAKE m \in Lookups
    <2>1. CASE m = l
        BY <1>1, <1>2, <1>3, <1>5, <2>1
    <2>2. CASE m # l
        <3>1. asked'[m] = asked[m] /\ pc'[m] = pc[m]
            BY <1>1, <1>2, <1>3, <2>2
        <3> QED
            BY <1>2, <2>2, <3>1 DEF BeginInv
    <2> QED
        BY <2>1, <2>2
<1> QED
    BY <1>1, <1>4, <1>6 DEF BeginInv, Turns

(* Every step of the loop keeps BeginInv.                                  *)
LEMMA BeginInductive ==
    ASSUME IsFiniteSet(Lookups), Divides, LoopInv, BeginInv, [Next]_vars PROVE BeginInv'
<1>1. CASE UNCHANGED vars
    BY <1>1 DEF vars, BeginInv, Turns, Begun
<1>2. CASE Done
    BY <1>1, <1>2 DEF Done
<1>3. ASSUME NEW l \in Lookups, TakeOffset(l) PROVE BeginInv'
    BY <1>3, BeginOffset
<1>4. ASSUME NEW l \in Lookups, NEW o \in Outcomes, Ask(l, o) PROVE BeginInv'
    BY <1>4, BeginAsk
<1> QED
    BY <1>1, <1>2, <1>3, <1>4 DEF Next, Step

(* BeginInv makes the servers that lookups begin with even.                *)
LEMMA BeginEnough ==
    ASSUME Divides, LoopInv, BeginInv PROVE RotationBalanced
<1> SUFFICES ASSUME Rotate, \A l \in Lookups : asked[l] # <<>>,
                    NEW s \in Servers, NEW t \in Servers
             PROVE  StartedAt(s) <= StartedAt(t) + 1
    BY DEF RotationBalanced
<1>1. \A l \in Lookups : asked[l][1][1] = off[l] % N /\ Len(asked[l]) > 0 /\ pc[l] # "offset"
    <2> TAKE l \in Lookups
    <2>1. off[l] \in Nat /\ off[l] + 0 = off[l]
        BY DEF LoopInv, LoopType
    <2>2. Place(off[l], 0) = off[l] % N
        BY <2>1, NextPlace DEF Place
    <2>3. Len(asked[l]) > 0
        BY DEF LoopInv, LoopType
    <2> QED
        BY <2>2, <2>3 DEF BeginInv
<1>2. \A u \in Servers : StartedAt(u) = Turns[u]
    <2> TAKE u \in Servers
    <2>1. Begun(u) = {l \in Lookups : Len(asked[l]) > 0 /\ asked[l][1][1] = u}
        BY <1>1 DEF Begun
    <2> QED
        BY <2>1 DEF StartedAt, Turns
<1>3. Turns[s] <= Turns[t] + 1
    BY LoopAssumption, SpreadEven DEF BeginInv, Servers
<1> QED
    BY <1>2, <1>3

(* Lookups that rotate spread over the servers, however many run at a time *)
(* and wherever the counter was, as long as a wrap does not break a round. *)
THEOREM StartsSpread ==
    ASSUME IsFiniteSet(Lookups), Divides PROVE Spec => []RotationBalanced
<1>1. Init => LoopInv /\ BeginInv
    BY LoopInit, BeginInit
<1>2. LoopInv /\ BeginInv /\ [Next]_vars => (LoopInv /\ BeginInv)'
    BY LoopInductive, BeginInductive DEF FullRounds
<1>3. LoopInv /\ BeginInv => RotationBalanced
    BY BeginEnough
<1> QED
    BY <1>1, <1>2, <1>3, PTL DEF Spec

-----------------------------------------------------------------------------
(* What the loop makes of a reply.                                         *)

Damage == {"bad", "short"}

\* A reply of any length.
Received ==
    [rcode : RCodes, aa : BOOLEAN, ra : BOOLEAN, answers : Seq(AnswerTypes), adds : Seq(Additionals)]

\* Place k is where a walk ends that stops at the elements of stop.
StopsAt(s, stop, k) ==
    /\ k \in 1..(Len(s) + 1) /\ Before(s, stop) = SubSeq(s, 1, k - 1)
    /\ \A n \in 1..(k - 1) : s[n] \notin stop
    /\ k <= Len(s) => s[k] \in stop

(* A walk ends at the first element it stops at, or after the last.        *)
LEMMA BeforeStops ==
    ASSUME NEW S, NEW s \in Seq(S), NEW stop
    PROVE  \E k \in 1..(Len(s) + 1) : StopsAt(s, stop, k)
<1> DEFINE I == {n \in 1..Len(s) : s[n] \in stop}
           k0 == IF I # {} THEN Min(I) ELSE 0
<1>1. Len(s) \in Nat
    BY LenProperties
<1>2. Before(s, stop) = IF k0 = 0 THEN s ELSE SubSeq(s, 1, k0 - 1)
    BY DEF Before, SelectInSeq
<1>3. CASE I = {}
    <2>1. SubSeq(s, 1, (Len(s) + 1) - 1) = s
        BY <1>1, SubSeqFull, (Len(s) + 1) - 1 = Len(s)
    <2>2. Before(s, stop) = s /\ \A n \in 1..Len(s) : s[n] \notin stop
        BY <1>2, <1>3
    <2>3. StopsAt(s, stop, Len(s) + 1)
        BY <1>1, <2>1, <2>2 DEF StopsAt
    <2> QED
        BY <1>1, <2>3
<1>4. CASE I # {}
    <2>1. PICK m \in I : \A n \in I : m <= n
        BY <1>4, LeastNatural, I \in SUBSET Nat
    <2>2. Min(I) = m
        BY <2>1 DEF Min
    <2>3. m \in 1..Len(s) /\ s[m] \in stop /\ \A n \in 1..(m - 1) : s[n] \notin stop
        BY <1>1, <2>1
    <2>4. Before(s, stop) = SubSeq(s, 1, m - 1)
        <3>1. k0 = m /\ m # 0
            BY <1>4, <2>2, <2>3
        <3> HIDE DEF k0
        <3> QED
            BY <1>2, <3>1
    <2>5. StopsAt(s, stop, m)
        BY <1>1, <2>3, <2>4 DEF StopsAt
    <2> QED
        BY <1>1, <2>3, <2>5
<1> QED
    BY <1>3, <1>4

(* What a walk has passed.                                                 *)
LEMMA BeforeShape ==
    ASSUME NEW S, NEW s \in Seq(S), NEW stop, NEW k, StopsAt(s, stop, k)
    PROVE  /\ Before(s, stop) \in Seq(S) /\ Len(Before(s, stop)) = k - 1
           /\ \A n \in 1..(k - 1) : Before(s, stop)[n] = s[n]
           /\ Before(s, stop) = s <=> k = Len(s) + 1
<1>1. Len(s) \in Nat /\ \A n \in 1..Len(s) : s[n] \in S
    BY LenProperties
<1>2. k \in 1..(Len(s) + 1) /\ k - 1 \in Int /\ 1 \in Int /\ \A n \in 1..(k - 1) : s[n] \in S
    BY <1>1 DEF StopsAt
<1>3. /\ SubSeq(s, 1, k - 1) \in Seq(S)
      /\ Len(SubSeq(s, 1, k - 1)) = IF 1 <= k - 1 THEN (k - 1) - 1 + 1 ELSE 0
      /\ \A n \in 1..((k - 1) - 1 + 1) : SubSeq(s, 1, k - 1)[n] = s[1 + n - 1]
    BY <1>2, SubSeqProperties
<1>4. Len(Before(s, stop)) = k - 1 /\ Before(s, stop) \in Seq(S)
    BY <1>1, <1>2, <1>3 DEF StopsAt
<1>5. \A n \in 1..(k - 1) : Before(s, stop)[n] = s[n]
    <2> SUFFICES ASSUME NEW n \in 1..(k - 1) PROVE SubSeq(s, 1, k - 1)[n] = s[n]
        BY DEF StopsAt
    <2>1. n \in 1..((k - 1) - 1 + 1) /\ 1 + n - 1 = n
        BY <1>2
    <2> QED
        BY <1>3, <2>1
<1>6. k = Len(s) + 1 => Before(s, stop) = s
    <2>1. (Len(s) + 1) - 1 = Len(s)
        BY <1>1
    <2> QED
        BY <2>1, SubSeqFull DEF StopsAt
<1>7. Before(s, stop) = s => k = Len(s) + 1
    BY <1>1, <1>2, <1>4
<1> QED
    BY <1>4, <1>5, <1>6, <1>7

(* The additional records the parser gets to are the first ones; it gets   *)
(* to them when no answer is damaged.                                      *)
LEMMA ReachedShape ==
    ASSUME NEW r \in Received
    PROVE  /\ Reached(r) \in Seq(Additionals) /\ Len(Reached(r)) \in Nat
           /\ Len(Reached(r)) <= Len(r.adds)
           /\ \A n \in 1..Len(Reached(r)) : Reached(r)[n] = r.adds[n]
           /\ /\ \A n \in DOMAIN r.answers : r.answers[n] \notin Damage
              /\ r.adds # <<>> /\ r.adds[1] # "bad"
              => Reached(r) # <<>>
<1>1. /\ r.answers \in Seq(AnswerTypes) /\ r.adds \in Seq(Additionals)
      /\ Len(r.answers) \in Nat /\ DOMAIN r.answers = 1..Len(r.answers) /\ Len(r.adds) \in Nat
    BY LenProperties DEF Received
<1>2. PICK a \in 1..(Len(r.answers) + 1) : StopsAt(r.answers, Damage, a)
    BY <1>1, BeforeStops
<1>3. PICK b \in 1..(Len(r.adds) + 1) : StopsAt(r.adds, {"bad"}, b)
    BY <1>1, BeforeStops
<1>4. Before(r.answers, Damage) = r.answers <=> a = Len(r.answers) + 1
    BY <1>1, <1>2, BeforeShape
<1>5. /\ Before(r.adds, {"bad"}) \in Seq(Additionals) /\ Len(Before(r.adds, {"bad"})) = b - 1
      /\ \A n \in 1..(b - 1) : Before(r.adds, {"bad"})[n] = r.adds[n]
    BY <1>1, <1>3, BeforeShape
<1>6. Reached(r) = IF a = Len(r.answers) + 1 THEN Before(r.adds, {"bad"}) ELSE <<>>
    BY <1>4 DEF Reached, Damage
<1>7. (\A n \in DOMAIN r.answers : r.answers[n] \notin Damage) => a = Len(r.answers) + 1
    <2>1. a <= Len(r.answers) => r.answers[a] \in Damage
        BY <1>2 DEF StopsAt
    <2>2. a <= Len(r.answers) => a \in DOMAIN r.answers
        BY <1>1
    <2> QED
        BY <1>1, <2>1, <2>2
<1>8. r.adds # <<>> /\ r.adds[1] # "bad" => b # 1
    <2>1. r.adds # <<>> => Len(r.adds) >= 1
        BY <1>1, EmptySeq
    <2> QED
        BY <1>1, <1>3, <2>1 DEF StopsAt
<1>9. CASE a = Len(r.answers) + 1
    <2>1. /\ Reached(r) \in Seq(Additionals) /\ Len(Reached(r)) = b - 1
          /\ \A n \in 1..(b - 1) : Reached(r)[n] = r.adds[n]
        BY <1>5, <1>6, <1>9
    <2>2. b # 1 => Reached(r) # <<>>
        BY <1>3, <2>1, EmptySeq
    <2> QED
        BY <1>1, <1>3, <1>8, <2>1, <2>2
<1>10. CASE a # Len(r.answers) + 1
    <2>1. Reached(r) = <<>>
        BY <1>6, <1>10
    <2>2. Reached(r) \in Seq(Additionals) /\ Len(Reached(r)) = 0
        BY <2>1, EmptySeq
    <2> QED
        BY <1>1, <1>7, <1>10, <2>2
<1> QED
    BY <1>9, <1>10

(* An OPT record raises the code when it is the first one and says so.     *)
LEMMA RaisedShape ==
    ASSUME NEW r \in Received
    PROVE  /\ Raised(r) => \E n \in 1..Len(Reached(r)) : Reached(r)[n] = "badvers"
           /\ Reached(r) # <<>> /\ Reached(r)[1] = "badvers" => Raised(r)
<1> DEFINE u == Reached(r)
           I == {n \in 1..Len(u) : u[n] \in {"opt", "badvers"}}
           k0 == IF I # {} THEN Min(I) ELSE 0
<1>1. u \in Seq(Additionals) /\ Len(u) \in Nat
    BY ReachedShape
<1>2. Raised(r) <=> k0 # 0 /\ u[k0] = "badvers"
    BY DEF Raised, SelectInSeq
<1>3. I # {} => Min(I) \in I /\ \A n \in I : Min(I) <= n
    <2> SUFFICES ASSUME I # {} PROVE Min(I) \in I /\ \A n \in I : Min(I) <= n
        OBVIOUS
    <2>1. PICK m \in I : \A n \in I : m <= n
        BY LeastNatural, I \in SUBSET Nat
    <2>2. Min(I) = m
        BY <2>1 DEF Min
    <2> QED
        BY <2>1, <2>2
<1>4. u # <<>> /\ u[1] = "badvers" => 1 \in I
    <2>1. u # <<>> => Len(u) >= 1
        BY <1>1, EmptySeq
    <2> QED
        BY <1>1, <2>1
<1> HIDE DEF u
<1>5. 1 \in I => Min(I) = 1
    BY <1>1, <1>3
<1> QED
    BY <1>2, <1>3, <1>4, <1>5 DEF u

\* No damage before place n.
Sound(r, n) == \A l \in 1..(n - 1) : r.answers[l] \notin Damage

(* A conclusive verdict is justified.                                      *)
LEMMA VerdictHolds ==
    ASSUME NEW r \in Received
    PROVE  /\ Verdict(r, QType) = "notfound" =>
                  \/ r.rcode = "nxdomain"
                  \/ /\ r.rcode = "success"
                     /\ \A n \in DOMAIN r.answers : r.answers[n] \notin {QType, "bad", "short"}
                     /\ r.aa \/ r.ra \/ r.answers # <<>> \/ r.adds # <<>>
           /\ Verdict(r, QType) = "ok" =>
                  /\ r.rcode = "success" /\ ~Raised(r)
                  /\ \E n \in DOMAIN r.answers : r.answers[n] = QType /\ Sound(r, n)
<1> DEFINE code == ExtendedRCode(r)
           skip == SkipToAnswer(r, QType)
           lame == ~r.aa /\ ~r.ra /\ r.answers = <<>> /\ ~HasAdditional(r)
<1>1. /\ r.answers \in Seq(AnswerTypes) /\ r.adds \in Seq(Additionals) /\ r.rcode \in RCodes
      /\ Len(r.answers) \in Nat /\ DOMAIN r.answers = 1..Len(r.answers) /\ Len(r.adds) \in Nat
    BY LenProperties DEF Received
<1>2. PICK k \in 1..(Len(r.answers) + 1) : StopsAt(r.answers, {QType, "bad", "short"}, k)
    BY <1>1, BeforeStops
<1>3. Len(Before(r.answers, {QType, "bad", "short"})) + 1 = k
    BY <1>1, <1>2, BeforeShape
<1>4. skip = IF k > Len(r.answers) THEN "notfound"
             ELSE IF r.answers[k] = QType THEN "ok" ELSE "unmarshal"
    BY <1>3 DEF SkipToAnswer
<1>5. skip = "notfound" => \A n \in DOMAIN r.answers : r.answers[n] \notin {QType, "bad", "short"}
    BY <1>1, <1>2, <1>4 DEF StopsAt
<1>6. skip = "ok" => \E n \in DOMAIN r.answers : r.answers[n] = QType /\ Sound(r, n)
    <2>1. skip = "ok" => k <= Len(r.answers) /\ r.answers[k] = QType
        BY <1>1, <1>2, <1>4
    <2>2. Sound(r, k)
        BY <1>2 DEF StopsAt, Sound, Damage
    <2> QED
        BY <1>1, <1>2, <2>1, <2>2
<1>7. code = IF Raised(r) THEN "badvers" ELSE r.rcode
    BY DEF ExtendedRCode
<1>8. /\ code = "nxdomain" => r.rcode = "nxdomain"
      /\ code = "success" => r.rcode = "success" /\ ~Raised(r)
    BY <1>7
<1>9. HasAdditional(r) => r.adds # <<>>
    <2>1. Reached(r) # <<>> => Len(Reached(r)) > 0
        BY ReachedShape, EmptySeq
    <2>2. r.adds = <<>> => Len(r.adds) = 0
        BY EmptySeq
    <2> QED
        BY <1>1, <2>1, <2>2, ReachedShape DEF HasAdditional
<1> HIDE DEF code, skip
<1>10. CheckHeader(r) =
           IF code = "nxdomain" THEN "notfound"
           ELSE IF FirstIsBad(r) THEN "unmarshal"
           ELSE CASE code = "success"   -> IF lame THEN "lame" ELSE "ok"
                  [] code = "servfail"  -> "temporary"
                  [] OTHER              -> "misbehaving"
    BY DEF CheckHeader, code
<1>11. CheckHeader(r) = "ok" => code = "success" /\ ~lame
    BY <1>10
<1>12. CheckHeader(r) = "notfound" => code = "nxdomain"
    BY <1>10
<1>13. Verdict(r, QType) = IF CheckHeader(r) = "ok" THEN skip ELSE CheckHeader(r)
    BY DEF Verdict, skip
<1> QED
    BY <1>5, <1>6, <1>8, <1>9, <1>11, <1>12, <1>13

(* An answer that comes before any damage is not passed over.              *)
LEMMA AnswerTaken ==
    ASSUME NEW r \in Received, r.rcode = "success",
           \A n \in DOMAIN r.adds : r.adds[n] # "badvers",
           NEW m \in DOMAIN r.answers, r.answers[m] = QType,
           \A n \in DOMAIN r.answers : r.answers[n] \in Damage => m < n
    PROVE  Verdict(r, QType) = "ok"
<1>1. /\ r.answers \in Seq(AnswerTypes) /\ r.adds \in Seq(Additionals)
      /\ Len(r.answers) \in Nat /\ DOMAIN r.answers = 1..Len(r.answers)
      /\ Len(r.adds) \in Nat /\ DOMAIN r.adds = 1..Len(r.adds)
    BY LenProperties DEF Received
<1>2. ~Raised(r)
    <2>1. \A n \in 1..Len(Reached(r)) : n \in DOMAIN r.adds /\ Reached(r)[n] = r.adds[n]
        BY <1>1, ReachedShape
    <2> QED
        BY <2>1, RaisedShape
<1>3. ExtendedRCode(r) = "success"
    BY <1>2 DEF ExtendedRCode
<1>4. m \in 1..Len(r.answers) /\ Len(r.answers) > 0 /\ r.answers # <<>>
    BY <1>1, EmptySeq
<1>5. ~FirstIsBad(r)
    <2>1. 1 \in DOMAIN r.answers /\ ~(m < 1)
        BY <1>1, <1>4
    <2> QED
        BY <2>1 DEF FirstIsBad, Damage
<1>6. CheckHeader(r) = "ok"
    BY <1>3, <1>4, <1>5 DEF CheckHeader
<1>7. PICK k \in 1..(Len(r.answers) + 1) : StopsAt(r.answers, {QType, "bad", "short"}, k)
    BY <1>1, BeforeStops
<1>8. Len(Before(r.answers, {QType, "bad", "short"})) + 1 = k
    BY <1>1, <1>7, BeforeShape
<1>9. k <= m
    BY <1>1, <1>4, <1>7 DEF StopsAt
<1>10. k \in DOMAIN r.answers /\ r.answers[k] \in {QType, "bad", "short"}
    BY <1>1, <1>4, <1>7, <1>9 DEF StopsAt
<1>11. r.answers[k] = QType
    <2>1. r.answers[k] \notin Damage
        BY <1>1, <1>4, <1>7, <1>9, <1>10
    <2> QED
        BY <1>10, <2>1 DEF Damage
<1>12. SkipToAnswer(r, QType) = "ok"
    BY <1>1, <1>4, <1>8, <1>9, <1>11 DEF SkipToAnswer
<1> QED
    BY <1>6, <1>12 DEF Verdict

-----------------------------------------------------------------------------
(* The walk over the answers.                                              *)

Unreadable == [ok |-> FALSE, records |-> <<>>]
Reading == [ok : BOOLEAN, records : Seq(Nat)]

\* One record more.
ReadNext(r, wanted, mangled, acc, n) ==
    CASE ~acc.ok \/ r.answers[n] \in {"bad", "short"}  -> Unreadable
      [] r.answers[n] \in wanted /\ n \in mangled      -> Unreadable
      [] OTHER -> IF r.answers[n] \in wanted
                  THEN [acc EXCEPT !.records = Append(@, n)] ELSE acc

\* F[k] is what a walk has read after k records.
WalkPath(F, r, wanted, mangled, start, n) ==
    /\ F[0] = [ok |-> TRUE, records |-> <<>>]
    /\ \A k \in 1..n : F[k] = ReadNext(r, wanted, mangled, F[k - 1], start + k - 1)

(* The walk, followed from its start to the last answer.                   *)
LEMMA WalkSteps ==
    ASSUME NEW r \in Received, NEW qtype, NEW wanted, NEW mangled,
           NEW start \in 1..(Len(r.answers) + 1), StopsAt(r.answers, {qtype}, start),
           NEW n, n = Len(r.answers) + 1 - start
    PROVE  \E F \in [0..n -> Reading] :
               F[n] = Walk(r, qtype, wanted, mangled) /\ WalkPath(F, r, wanted, mangled, start, n)
<1> DEFINE M == Len(r.answers) + 1 - start
           V == Reading
           base == [ok |-> TRUE, records |-> <<>>]
           s == [k \in 1..M |-> start + k - 1]
           Take(acc, x) == ReadNext(r, wanted, mangled, acc, x)
           step == [p \in V \X (1..M) |-> Take(p[1], s[p[2]])]
           IsFold(f) == f = [T \in SUBSET (1..M) |->
               IF T = {} THEN base ELSE Take(f[T \ {Max(T)}], s[Max(T)])]
           g == CHOOSE f : IsFold(f)
<1>1. Len(r.answers) \in Nat /\ M \in Nat /\ DOMAIN s = 1..M /\ \A k \in 1..M : s[k] \in Nat
    BY LenProperties DEF Received
<1>2. \A a \in V, x \in Nat : Take(a, x) \in V
    <2> SUFFICES ASSUME NEW a \in V, NEW x \in Nat PROVE Take(a, x) \in V
        OBVIOUS
    <2>1. <<>> \in Seq(Nat) /\ a.records \in Seq(Nat) /\ Append(a.records, x) \in Seq(Nat)
        BY EmptySeq, AppendProperties DEF Reading
    <2> QED
        BY <2>1 DEF ReadNext, Unreadable, Reading
<1>3. base \in V
    BY EmptySeq DEF Reading
<1> HIDE DEF V, base, Take
<1>4. step \in [V \X (1..M) -> V]
    BY <1>1, <1>2
<1>5. IsFold(g)
    <2>1. PICK f \in [SUBSET (1..M) -> V] : Table(f, M, base, step)
        <3> HIDE DEF step, M
        <3> QED
            BY <1>1, <1>3, <1>4, FoldExists
    <2>2. ASSUME NEW T \in SUBSET (1..M), T # {}
          PROVE  step[<<f[T \ {Max(T)}], Max(T)>>] = Take(f[T \ {Max(T)}], s[Max(T)])
        <3>1. Max(T) \in T
            BY <1>1, <2>2, MaxIsMember
        <3> QED
            BY <2>1, <3>1
    <2>3. IsFold(f)
        BY <2>1, <2>2 DEF Table
    <2> HIDE DEF IsFold
    <2> QED
        BY <2>3
<1>6. Walk(r, qtype, wanted, mangled) = g[1..M]
    <2>1. Len(Before(r.answers, {qtype})) + 1 = start
        BY BeforeShape DEF Received
    <2>2. Walk(r, qtype, wanted, mangled) = FoldLeft(Take, base, s)
        BY <2>1, Zenon DEF Walk, Take, ReadNext, Unreadable, base
    <2> QED
        BY <1>1, <2>2, Zenon DEF FoldLeft, MapThenFoldSet
<1>7. g[{}] = base
    BY <1>5
<1>8. ASSUME NEW k \in 1..M PROVE g[1..k] = Take(g[1..(k - 1)], s[k])
    <2> HIDE DEF g, M
    <2>1. 1..k \in SUBSET (1..M) /\ 1..k # {} /\ Max(1..k) = k /\ (1..k) \ {k} = 1..(k - 1)
        BY <1>1, MaxOfRange
    <2> QED
        BY <1>5, <2>1
<1>9. ASSUME NEW k \in 1..M, NEW a \in V PROVE step[<<a, k>>] = Take(a, s[k])
    OBVIOUS
<1>10. \A k \in 1..M : s[k] = start + k - 1
    OBVIOUS
<1> HIDE DEF g, M, step, s
<1>11. PICK F \in [0..M -> V] : F[M] = g[1..M] /\ Path(F, M, base, step)
    <2>1. \A k \in 1..M : g[1..(k - 1)] \in V => g[1..k] = step[<<g[1..(k - 1)], k>>]
        BY <1>8, <1>9
    <2>2. M \in Nat /\ base \in V /\ step \in [V \X (1..M) -> V] /\ g[{}] = base
        BY <1>1, <1>3, <1>4, <1>7
    <2> QED
        BY <2>1, <2>2, FoldAlong, ZenonT(60)
<1>12. \A k \in 1..M : F[k] = Take(F[k - 1], start + k - 1)
    <2> SUFFICES ASSUME NEW k \in 1..M PROVE F[k] = Take(F[k - 1], start + k - 1)
        OBVIOUS
    <2>1. F[k - 1] \in V
        BY <1>1, k - 1 \in 0..M
    <2> QED
        BY <2>1, <1>9, <1>10, <1>11 DEF Path
<1> QED
    BY <1>6, <1>11, <1>12 DEF Path, WalkPath, Take, M, V, base

\* Nothing up to place n of the walk is damaged in a way that matters.
Clean(r, wanted, mangled, start, n) ==
    \A x \in start..(start + n - 1) :
        r.answers[x] \notin {"bad", "short"} /\ ~(r.answers[x] \in wanted /\ x \in mangled)

\* The places of wanted records up to there, in order.
Holds(r, wanted, start, n, records) ==
    /\ records \in Seq(Nat)
    /\ ToSet(records) = {x \in start..(start + n - 1) : r.answers[x] \in wanted}
    /\ \A k, l \in DOMAIN records : k < l => records[k] < records[l]

(* A walk reads every wanted record from its start on, or nothing.         *)
LEMMA WalkWhole ==
    ASSUME NEW r \in Received, NEW qtype, NEW wanted, NEW mangled,
           NEW start \in 1..(Len(r.answers) + 1), StopsAt(r.answers, {qtype}, start),
           NEW M, M = Len(r.answers) + 1 - start
    PROVE  LET out == Walk(r, qtype, wanted, mangled)
           IN  /\ out.ok <=> Clean(r, wanted, mangled, start, M)
               /\ ~out.ok => out.records = <<>>
               /\ out.ok => Holds(r, wanted, start, M, out.records)
<1> DEFINE R(n, a) == /\ a.ok <=> Clean(r, wanted, mangled, start, n)
                      /\ ~a.ok => a.records = <<>>
                      /\ a.ok => Holds(r, wanted, start, n, a.records)
<1>1. Len(r.answers) \in Nat /\ M \in Nat
    BY LenProperties DEF Received
<1>2. PICK F \in [0..M -> Reading] :
          F[M] = Walk(r, qtype, wanted, mangled) /\ WalkPath(F, r, wanted, mangled, start, M)
    BY WalkSteps
<1> DEFINE G == {n \in 0..M : R(n, F[n])}
<1>3. 0 \in G
    <2>1. start..(start + 0 - 1) = {}
        OBVIOUS
    <2>2. <<>> \in Seq(Nat) /\ ToSet(<<>>) = {} /\ DOMAIN <<>> = {}
        BY EmptySeq, LenProperties DEF ToSet
    <2>3. Clean(r, wanted, mangled, start, 0) /\ Holds(r, wanted, start, 0, <<>>)
        BY <2>1, <2>2 DEF Clean, Holds
    <2>4. F[0].ok /\ F[0].records = <<>>
        BY <1>2 DEF WalkPath
    <2>5. R(0, F[0])
        BY <2>3, <2>4
    <2> QED
        BY <1>1, <2>5
<1>4. ASSUME NEW n \in 1..M, n - 1 \in G PROVE n \in G
    <2> DEFINE a == F[n - 1]
               x == start + n - 1
    <2>1. /\ n \in 0..M /\ n - 1 \in 0..M /\ x \in Nat /\ a \in Reading /\ R(n - 1, a)
          /\ F[n] = ReadNext(r, wanted, mangled, a, x)
        <3>1. n \in 0..M /\ n - 1 \in 0..M /\ x \in Nat
            BY <1>1
        <3>2. a \in Reading /\ F[n] = ReadNext(r, wanted, mangled, a, x)
            BY <1>2, <3>1 DEF WalkPath
        <3>3. R(n - 1, a)
            BY <1>4
        <3> QED
            BY <3>1, <3>2, <3>3
    <2>2. start..(start + n - 1) = (start..(start + (n - 1) - 1)) \cup {x}
        BY <1>1
    <2>3. \A y \in start..(start + (n - 1) - 1) : y < x
        BY <1>1
    <2> HIDE DEF a, x
    <2>4. R(n, ReadNext(r, wanted, mangled, a, x))
        <3>1. CASE ~a.ok \/ r.answers[x] \in {"bad", "short"}
            BY <2>1, <2>2, <3>1 DEF ReadNext, Unreadable, Clean
        <3>2. CASE r.answers[x] \in wanted /\ x \in mangled
            BY <2>1, <2>2, <3>2 DEF ReadNext, Unreadable, Clean
        <3>3. CASE a.ok /\ r.answers[x] \notin {"bad", "short"} /\ r.answers[x] \notin wanted
            BY <2>1, <2>2, <3>3 DEF ReadNext, Clean, Holds
        <3>4. CASE /\ a.ok /\ r.answers[x] \notin {"bad", "short"}
                   /\ r.answers[x] \in wanted /\ x \notin mangled
            <4> DEFINE b == Append(a.records, x)
            <4>1. /\ ReadNext(r, wanted, mangled, a, x).ok
                  /\ ReadNext(r, wanted, mangled, a, x).records = b
                BY <2>1, <3>4 DEF ReadNext, Reading
            <4>2. Clean(r, wanted, mangled, start, n)
                BY <2>1, <2>2, <3>4 DEF Clean
            <4>3. Holds(r, wanted, start, n - 1, a.records) /\ a.records \in Seq(Nat)
                BY <2>1, <3>4 DEF Holds
            <4>4. /\ b \in Seq(Nat) /\ ToSet(b) = ToSet(a.records) \cup {x}
                  /\ Len(a.records) \in Nat /\ DOMAIN a.records = 1..Len(a.records)
                  /\ DOMAIN b = 1..(Len(a.records) + 1) /\ b[Len(a.records) + 1] = x
                  /\ \A k \in 1..Len(a.records) : b[k] = a.records[k]
                <5>1. /\ b \in Seq(Nat) /\ Len(b) = Len(a.records) + 1 /\ b[Len(a.records) + 1] = x
                      /\ \A k \in 1..Len(a.records) : b[k] = a.records[k]
                    BY <2>1, <4>3, AppendProperties
                <5>2. Len(a.records) \in Nat /\ DOMAIN a.records = 1..Len(a.records)
                    BY <4>3, LenProperties
                <5>3. ToSet(b) = ToSet(a.records) \cup {x}
                    <6>1. x \in Nat /\ a.records \in Seq(Nat)
                        BY <2>1, <4>3
                    <6> QED
                        BY <6>1, ToSetOfAppend
                <5> HIDE DEF b
                <5>4. DOMAIN b = 1..Len(b)
                    BY <5>1, LenProperties
                <5> QED
                    BY <5>1, <5>2, <5>3, <5>4
            <4>5. \A k \in 1..Len(a.records) : a.records[k] < x
                BY <2>3, <4>3, <4>4 DEF Holds, ToSet
            <4>6. \A k, l \in DOMAIN b : k < l => b[k] < b[l]
                <5> SUFFICES ASSUME NEW k \in DOMAIN b, NEW l \in DOMAIN b, k < l PROVE b[k] < b[l]
                    OBVIOUS
                <5> HIDE DEF b
                <5>1. k \in 1..Len(a.records)
                    BY <4>4
                <5>2. l \in 1..Len(a.records) \/ l = Len(a.records) + 1
                    <6>1. Len(a.records) \in Nat /\ l \in 1..(Len(a.records) + 1)
                        BY <4>4
                    <6> QED
                        BY <6>1
                <5> QED
                    BY <4>3, <4>4, <4>5, <5>1, <5>2 DEF Holds
            <4>7. ToSet(b) = {y \in start..(start + n - 1) : r.answers[y] \in wanted}
                BY <2>2, <3>4, <4>3, <4>4 DEF Holds
            <4> HIDE DEF b
            <4>8. Holds(r, wanted, start, n, b)
                BY <4>4, <4>6, <4>7 DEF Holds
            <4> QED
                BY <4>1, <4>2, <4>8
        <3> QED
            BY <3>1, <3>2, <3>3, <3>4
    <2> QED
        BY <2>1, <2>4
<1> HIDE DEF G
<1>5. \A n \in 0..M : n \in G
    BY <1>1, <1>3, <1>4, AlongInduction
<1>6. R(M, F[M])
    BY <1>1, <1>5 DEF G
<1> QED
    BY <1>2, <1>6

-----------------------------------------------------------------------------
(* Replies of any length are what the judgement of MCReply goes through.   *)
LEMMA RepliesReceived == ReplySpec => [](reply \in Received)
<1>1. ASSUME NEW S, NEW n \in Nat, NEW s \in BoundedSeq(S, n) PROVE s \in Seq(S)
    BY <1>1, FunctionIsSeq DEF BoundedSeq, SeqOf
<1>2. ReplyInit => reply \in Received
    <2> SUFFICES ASSUME NEW r \in Replies PROVE r \in Received
        BY DEF ReplyInit
    <2>1. r.answers \in Seq(AnswerTypes) /\ r.adds \in Seq(Additionals)
        BY <1>1, ReplyAssumption DEF Replies
    <2> QED
        BY <2>1 DEF Replies, Received
<1>3. reply \in Received /\ [ReplyNext]_reply => (reply \in Received)'
    <2> SUFFICES ASSUME reply \in Received, NEW k \in DOMAIN reply.answers,
                        reply' = [reply EXCEPT !.answers = RemoveAt(@, k)]
                 PROVE  reply' \in Received
        BY DEF ReplyNext
    <2> DEFINE s == reply.answers
    <2>1. s \in Seq(AnswerTypes) /\ Len(s) \in Nat /\ k \in 1..Len(s) /\ \A n \in 1..Len(s) : s[n] \in AnswerTypes
        BY LenProperties DEF Received
    <2> HIDE DEF s
    <2>2. SubSeq(s, 1, k - 1) \in Seq(AnswerTypes) /\ SubSeq(s, k + 1, Len(s)) \in Seq(AnswerTypes)
        <3>1. \A n \in 1..(k - 1) : s[n] \in AnswerTypes
            BY <2>1
        <3>2. \A n \in (k + 1)..Len(s) : s[n] \in AnswerTypes
            BY <2>1
        <3> QED
            BY <2>1, <3>1, <3>2, SubSeqProperties
    <2>3. RemoveAt(s, k) \in Seq(AnswerTypes)
        BY <2>2, ConcatProperties DEF RemoveAt
    <2> QED
        BY <2>3 DEF s, Received
<1> QED
    BY <1>2, <1>3, PTL DEF ReplySpec

(* A verdict that ends the search is justified by what the reply says,     *)
(* whatever its length (checkHeader and skipToAnswer).                     *)
THEOREM JustifiedVerdicts == ReplySpec => []VerdictJustified
<1>1. reply \in Received => VerdictJustified
    <2> SUFFICES ASSUME reply \in Received PROVE VerdictJustified
        OBVIOUS
    <2>1. CASE Verdict(reply, QType) = "notfound"
        BY <2>1, VerdictHolds DEF VerdictJustified, Positions
    <2>2. CASE Verdict(reply, QType) = "ok"
        <3>1. reply.rcode = "success" /\ ~Raised(reply) /\ Positions(QType) # {}
            BY <2>2, VerdictHolds DEF Positions
        <3>2. ASSUME reply.adds # <<>>, Head(reply.adds) = "badvers",
                     Positions("bad") \cup Positions("short") = {}
              PROVE  FALSE
            <4>1. reply.adds \in Seq(Additionals) /\ reply.adds[1] = "badvers"
                BY <3>2, HeadTailProperties DEF Received
            <4>2. \A n \in DOMAIN reply.answers : reply.answers[n] \notin Damage
                BY <3>2 DEF Positions, Damage
            <4>3. Reached(reply) # <<>> /\ Len(Reached(reply)) \in Nat /\ Reached(reply) \in Seq(Additionals)
                BY <3>2, <4>1, <4>2, ReachedShape
            <4>4. Len(Reached(reply)) > 0
                BY <4>3, EmptySeq
            <4>5. Reached(reply)[1] = "badvers"
                BY <4>1, <4>3, <4>4, ReachedShape
            <4> QED
                BY <3>1, <4>3, <4>5, RaisedShape
        <3> QED
            BY <2>2, <3>1, <3>2 DEF VerdictJustified
    <2> QED
        BY <2>1, <2>2 DEF VerdictJustified
<1> QED
    BY <1>1, RepliesReceived, PTL

(* An address lookup tells the owner of its first address.                 *)
LEMMA FirstHeld ==
    ASSUME NEW r \in Received, NEW wanted, NEW start \in 1..Len(r.answers), NEW M \in Nat,
           NEW records, Holds(r, wanted, start, M, records), M # 0, r.answers[start] \in wanted
    PROVE  records # <<>> /\ records[1] = start
<1>1. /\ records \in Seq(Nat) /\ Len(records) \in Nat /\ DOMAIN records = 1..Len(records)
      /\ start \in Nat
    BY LenProperties DEF Holds, Received
<1>2. start \in ToSet(records)
    BY <1>1 DEF Holds
<1>3. PICK k \in DOMAIN records : records[k] = start
    BY <1>2 DEF ToSet
<1>4. 1 \in DOMAIN records /\ 1 <= k
    BY <1>1, <1>3
<1>5. records[1] \in start..(start + M - 1)
    BY <1>4 DEF Holds, ToSet
<1>6. 1 < k => records[1] < records[k]
    BY <1>3, <1>4 DEF Holds
<1> QED
    BY <1>1, <1>3, <1>4, <1>5, <1>6, EmptySeq

(* Every lookup returns all the answers of a reply or none (skipToAnswer   *)
(* and the loops over the answers).                                        *)
THEOREM WholeAnswers == ReplySpec => []AnswersAreWhole
<1>1. reply \in Received => AnswersAreWhole
    <2> SUFFICES ASSUME reply \in Received PROVE AnswersAreWhole
        OBVIOUS
    <2> DEFINE damaged == Positions("bad") \cup Positions("short")
               L == Len(reply.answers)
    <2>1. /\ reply.answers \in Seq(AnswerTypes) /\ L \in Nat /\ DOMAIN reply.answers = 1..L
          /\ QType \notin Damage /\ reply.adds \in Seq(Additionals)
        BY LenProperties, ReplyAssumption DEF Received, Damage
    <2>2. damaged = {n \in 1..L : reply.answers[n] \in Damage}
        BY <2>1 DEF Positions, Damage
    <2>3. Positions(QType) = {n \in 1..L : reply.answers[n] = QType}
        BY <2>1 DEF Positions
    <2> HIDE DEF damaged, L
    <2>4. ASSUME reply.rcode = "success", \A k \in DOMAIN reply.adds : reply.adds[k] # "badvers",
                 \E k \in Positions(QType) : \A l \in damaged : k < l
          PROVE  Verdict(reply, QType) = "ok"
        <3>1. PICK m \in Positions(QType) : \A l \in damaged : m < l
            BY <2>4
        <3>2. /\ m \in DOMAIN reply.answers /\ reply.answers[m] = QType
              /\ \A n \in DOMAIN reply.answers : reply.answers[n] \in Damage => m < n
            BY <2>1, <2>2, <2>3, <3>1
        <3> QED
            BY <2>4, <3>2, AnswerTaken
    <2>5. ASSUME Verdict(reply, QType) = "ok", NEW mangled \in SUBSET Positions(QType)
          PROVE  LET out  == goLookupTyped(reply, QType, mangled)
                     both == parseAddressAnswers(reply, QType, mangled)
                 IN  /\ out.ok <=> damaged \cup mangled = {}
                     /\ out.ok => /\ ToSet(out.records) = Positions(QType)
                                  /\ \A k, l \in DOMAIN out.records :
                                         k < l => out.records[k] < out.records[l]
                     /\ QType # "PTR" => parseGenericAnswers(reply, QType, mangled) = out
                     /\ QType \in Addresses /\ both.ok =>
                            /\ ToSet(out.records) \subseteq ToSet(both.records)
                            /\ (\E c \in Positions("CNAME") : c < both.records[1])
                               => CanonicalName(reply, QType, mangled) = <<"owner", both.records[1]>>
        <3> DEFINE out  == goLookupTyped(reply, QType, mangled)
                   both == parseAddressAnswers(reply, QType, mangled)
                   W    == Addresses \cup {"CNAME"}
        <3>1. PICK m \in 1..L : reply.answers[m] = QType /\ Sound(reply, m)
            BY <2>1, <2>5, VerdictHolds
        <3>2. PICK start \in 1..(L + 1) : StopsAt(reply.answers, {QType}, start)
            BY <2>1, BeforeStops DEF L
        <3>3. start <= m /\ start \in 1..L /\ reply.answers[start] = QType
            BY <2>1, <3>1, <3>2 DEF StopsAt, L
        <3>4. \A n \in 1..(start - 1) : reply.answers[n] # QType /\ reply.answers[n] \notin Damage
            BY <2>1, <3>1, <3>2, <3>3 DEF StopsAt, Sound
        <3> DEFINE M == L + 1 - start
        <3>5. M \in Nat /\ M # 0 /\ start + M - 1 = L /\ M = L + 1 - start
            BY <2>1, <3>3
        <3>6. /\ out.ok <=> Clean(reply, {QType}, mangled, start, M)
              /\ ~out.ok => out.records = <<>>
              /\ out.ok => Holds(reply, {QType}, start, M, out.records)
            BY <3>2, WalkWhole DEF goLookupTyped, L
        <3>7. both.ok => Holds(reply, W, start, M, both.records)
            BY <3>2, WalkWhole DEF parseAddressAnswers, L
        <3> HIDE DEF out, both, M, W
        <3>8. {x \in start..(start + M - 1) : reply.answers[x] \in {QType}} = Positions(QType)
            BY <2>1, <2>3, <3>3, <3>4, <3>5
        <3>9. Clean(reply, {QType}, mangled, start, M) <=> damaged \cup mangled = {}
            <4>1. Clean(reply, {QType}, mangled, start, M) <=>
                      \A x \in start..L : reply.answers[x] \notin Damage
                                        /\ ~(reply.answers[x] = QType /\ x \in mangled)
                BY <3>5 DEF Clean, Damage
            <4>2. damaged = {} <=> \A x \in start..L : reply.answers[x] \notin Damage
                BY <2>1, <2>2, <3>3, <3>4
            <4>3. mangled = {} <=> \A x \in start..L : ~(reply.answers[x] = QType /\ x \in mangled)
                BY <2>1, <2>3, <3>3, <3>4
            <4> QED
                BY <4>1, <4>2, <4>3
        <3>10. out.ok => /\ ToSet(out.records) = Positions(QType)
                         /\ \A k, l \in DOMAIN out.records :
                                k < l => out.records[k] < out.records[l]
            BY <3>6, <3>8 DEF Holds
        <3>11. QType # "PTR" => parseGenericAnswers(reply, QType, mangled) = out
            BY DEF parseGenericAnswers, goLookupTyped, out
        <3>12. ASSUME QType \in Addresses, both.ok
               PROVE  /\ ToSet(out.records) \subseteq ToSet(both.records)
                      /\ (\E c \in Positions("CNAME") : c < both.records[1])
                         => CanonicalName(reply, QType, mangled) = <<"owner", both.records[1]>>
            <4>1. QType \in W /\ QType # "CNAME"
                BY <3>12 DEF W, Addresses
            <4>2. ToSet(both.records) = {x \in start..(start + M - 1) : reply.answers[x] \in W}
                BY <3>7, <3>12 DEF Holds
            <4>3. Positions(QType) \subseteq ToSet(both.records)
                BY <3>8, <4>1, <4>2
            <4>4. ToSet(<<>>) = {}
                BY EmptySeq, LenProperties DEF ToSet
            <4>5. ToSet(out.records) \subseteq ToSet(both.records)
                BY <3>6, <3>10, <4>3, <4>4
            <4>6. both.records # <<>> /\ both.records[1] = start
                BY <3>3, <3>5, <3>7, <3>12, <4>1, FirstHeld DEF L
            <4>7. CanonicalName(reply, QType, mangled) = <<"owner", both.records[1]>>
                BY <3>3, <4>1, <4>6 DEF CanonicalName, both
            <4> QED
                BY <4>5, <4>7
        <3> QED
            BY <3>6, <3>9, <3>10, <3>11, <3>12 DEF out, both
    <2> QED
        BY <2>4, <2>5 DEF AnswersAreWhole, damaged
<1> QED
    BY <1>1, RepliesReceived, PTL
=============================================================================
