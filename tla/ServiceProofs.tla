----------------------------- MODULE ServiceProofs ----------------------------
(***************************************************************************)
(* The DNS service, whatever the number of RPCs and upstreams: the         *)
(* statistics and the balance of the upstream pool, in every server        *)
(* process of ServerMain; the end of these processes; and what the RPCs    *)
(* stream, for the steps of ResolverService.                               *)
(***************************************************************************)
EXTENDS ServerMain, Lemmas, FiniteSetTheorems

(* The pool: statistics and balance.                                       *)

\* Where an RPC can be in a server process.
Labels == {"start", "pick", "count", "probe", "run", "rdap", "done"}

PoolType ==
    /\ next \in Nat /\ rpcs \in [Upstreams -> Nat] /\ logged \in [Upstreams -> Nat]
    /\ pc \in [Rpcs -> Labels] /\ up \in [Rpcs -> 0..NUp]
    /\ logger \in {"wait", "swap", "gone"} /\ lu \in Nat

\* An RPC has an upstream from its pick on, and the stats goroutine a counter
\* in hand while it swaps.
RouteInv ==
    /\ \A r \in Rpcs : /\ pc[r] \in {"start", "pick"} => up[r] = NUp
                       /\ pc[r] = "count" => up[r] \in Upstreams
    /\ logger # "gone" => NUp > 0
    /\ logger = "swap" => lu \in Upstreams

Turns == [u \in Upstreams |-> Cardinality(Routed(u))]

PoolSpread == NUp > 0 => Spread(Turns, NUp, next % NUp)

PoolInv == PoolType /\ RouteInv /\ StatsConserved /\ PoolSpread

Counting(u) == {r \in Routed(u) : pc[r] = "count"}

(* The calls routed to an upstream, and those counting there, are finite.  *)
LEMMA Finite ==
    ASSUME NEW u
    PROVE  /\ IsFiniteSet(Routed(u)) /\ Cardinality(Routed(u)) \in Nat
           /\ IsFiniteSet(Counting(u)) /\ Cardinality(Counting(u)) \in Nat
<1>1. Routed(u) \in SUBSET Rpcs /\ Counting(u) \in SUBSET Rpcs
    BY DEF Routed, Counting
<1> QED
    BY <1>1, ServiceAssumption, FS_Subset, FS_CardinalityType

(* The initial states satisfy PoolInv.                                     *)
LEMMA PoolInit == MainInit => PoolInv
<1> SUFFICES ASSUME MainInit PROVE PoolInv
    OBVIOUS
<1> USE ServiceAssumption
<1>1. PoolType /\ RouteInv
    BY DEF MainInit, Init, PoolType, RouteInv, Labels, Upstreams, NoUpstream
<1>2. \A u \in Upstreams : Routed(u) = {} /\ Counting(u) = {}
    BY DEF MainInit, Init, Routed, Counting, Upstreams, NoUpstream
<1>3. \A u \in Upstreams : Cardinality(Routed(u)) = 0 /\ Cardinality(Counting(u)) = 0
    BY <1>2, FS_EmptySet
<1>4. StatsConserved
    BY <1>3 DEF MainInit, Init, StatsConserved, Counting
<1>5. PoolSpread
    <2> SUFFICES ASSUME NUp > 0 PROVE Spread(Turns, NUp, next % NUp)
        BY DEF PoolSpread
    <2>1. next % NUp \in 0..(NUp - 1)
        BY ModNext, <1>1 DEF PoolType
    <2>2. \A u \in 0..(NUp - 1) : Turns[u] = 0
        BY <1>3 DEF Turns, Upstreams
    <2> QED
        BY <2>1, <2>2, SpreadStart
<1> QED
    BY <1>1, <1>4, <1>5 DEF PoolInv

\* Steps that neither pick nor count leave the pool alone.
LEMMA Bystander ==
    ASSUME PoolInv, UNCHANGED <<next, rpcs, logger, lu, logged, up>>,
           pc' \in [Rpcs -> Labels],
           \A r \in Rpcs : /\ pc'[r] = "count" <=> pc[r] = "count"
                           /\ pc'[r] \in {"start", "pick"} => pc[r] \in {"start", "pick"}
    PROVE  PoolInv'
<1>1. \A u : Routed(u)' = Routed(u) /\ Counting(u)' = Counting(u)
    BY DEF Routed, Counting
<1>2. StatsConserved'
    BY <1>1 DEF PoolInv, StatsConserved, Counting
<1>3. PoolSpread'
    BY <1>1 DEF PoolInv, PoolSpread, Turns
<1>4. PoolType' /\ RouteInv'
    BY DEF PoolInv, PoolType, RouteInv
<1> QED
    BY <1>2, <1>3, <1>4 DEF PoolInv

\* Every step of an RPC but Pick and Count.
LEMMA RpcBystander ==
    ASSUME PoolInv, NEW r \in Rpcs, NEW l \in Labels \ {"start", "count"}, pc[r] # "count",
           l = "pick" => pc[r] = "start",
           Goto(r, l), UNCHANGED <<pool, stats, up>>
    PROVE  PoolInv'
<1>1. pc \in [Rpcs -> Labels] /\ pc' = [pc EXCEPT ![r] = l]
    BY DEF PoolInv, PoolType, Goto
<1>2. pc' \in [Rpcs -> Labels]
    BY <1>1
<1>3. \A x \in Rpcs : /\ pc'[x] = "count" <=> pc[x] = "count"
                      /\ pc'[x] \in {"start", "pick"} => pc[x] \in {"start", "pick"}
    BY <1>1
<1> QED
    BY <1>2, <1>3, Bystander DEF pool, stats

\* The cursor moves on, and the upstream it was at gets the RPC.
LEMMA PickSpreads ==
    ASSUME PoolInv, NUp > 0, NEW r \in Rpcs, pc[r] = "pick",
           up' = [up EXCEPT ![r] = next % NUp], next' = next + 1
    PROVE  PoolSpread'
<1> DEFINE c == next % NUp
           d == (next + 1) % NUp
<1> NUp \in Nat \ {0}
    BY ServiceAssumption
<1>1. c \in Upstreams /\ d = (IF c + 1 = NUp THEN 0 ELSE c + 1)
    <2>1. next \in Nat /\ NUp \in Nat \ {0}
        BY DEF PoolInv, PoolType
    <2>2. c \in 0..(NUp - 1) /\ d = (IF c + 1 = NUp THEN 0 ELSE c + 1)
        BY <2>1, ModNext
    <2> QED
        BY <2>2 DEF Upstreams
<1> HIDE DEF c, d
<1>2. \A u \in Upstreams : Routed(u)' = IF u = c THEN Routed(u) \cup {r} ELSE Routed(u)
    BY <1>1 DEF PoolInv, PoolType, RouteInv, Routed, Upstreams, c
<1>3. r \notin Routed(c)
    BY <1>1 DEF PoolInv, RouteInv, Routed, Upstreams
<1>4. \A u \in Upstreams : Cardinality(Routed(u))' =
          IF u = c THEN Cardinality(Routed(u)) + 1 ELSE Cardinality(Routed(u))
    <2> TAKE u \in Upstreams
    <2>1. CASE u = c
        <3>1. Cardinality(Routed(c) \cup {r}) = Cardinality(Routed(c)) + 1
            BY <1>3, Finite, FS_AddElement
        <3> QED
            BY <2>1, <3>1, <1>2
    <2>2. CASE u # c
        BY <2>2, <1>2
    <2> QED
        BY <2>1, <2>2
<1>5. /\ Spread(Turns, NUp, c)
      /\ \A u \in 0..(NUp - 1) : Turns'[u] = IF u = c THEN Turns[u] + 1 ELSE Turns[u]
    BY <1>4 DEF PoolInv, PoolSpread, Turns, Upstreams, c
<1>6. Spread(Turns', NUp, d)
    BY <1>1, <1>5, SpreadNext DEF Upstreams
<1> QED
    BY <1>6 DEF PoolSpread, d

(* Picking an upstream keeps PoolInv.                                      *)
LEMMA PickStep ==
    ASSUME PoolInv, NEW r \in Rpcs, Pick(r)
    PROVE  PoolInv'
<1> USE ServiceAssumption
<1>1. CASE NUp = 0
    <2>1. pc[r] = "pick" /\ Goto(r, "probe") /\ UNCHANGED <<pool, stats, up>>
        BY <1>1 DEF Pick, pool
    <2> QED
        BY <2>1, RpcBystander DEF Labels
<1>2. CASE NUp > 0
    <2>1. /\ pc[r] = "pick" /\ pc' = [pc EXCEPT ![r] = "count"]
          /\ up' = [up EXCEPT ![r] = next % NUp] /\ next' = next + 1
          /\ UNCHANGED <<rpcs, logger, lu, logged>>
        BY <1>2 DEF Pick, Goto, stats
    <2>2. next % NUp \in Upstreams
        <3>1. next \in Nat /\ NUp \in Nat \ {0}
            BY <1>2 DEF PoolInv, PoolType
        <3>2. next % NUp \in 0..(NUp - 1)
            BY <3>1, ModNext
        <3> QED
            BY <3>2 DEF Upstreams
    <2>3. PoolType' /\ RouteInv'
        BY <2>1, <2>2 DEF PoolInv, PoolType, RouteInv, Labels, Upstreams
    <2>4. PoolSpread'
        BY <1>2, <2>1, PickSpreads
    <2>5. StatsConserved'
        <3> SUFFICES ASSUME NEW u \in Upstreams
                     PROVE  logged[u]' + rpcs[u]' + Cardinality(Counting(u))' = Cardinality(Routed(u))'
            BY DEF StatsConserved, Counting
        <3>1. r \notin Routed(u) /\ r \notin Counting(u)
            BY <2>1 DEF PoolInv, RouteInv, Routed, Counting, Upstreams
        <3>2. CASE u = next % NUp
            <4>1. Routed(u)' = Routed(u) \cup {r} /\ Counting(u)' = Counting(u) \cup {r}
                BY <2>1, <3>2 DEF PoolInv, PoolType, Routed, Counting
            <4>2. /\ Cardinality(Routed(u))' = Cardinality(Routed(u)) + 1
                  /\ Cardinality(Counting(u))' = Cardinality(Counting(u)) + 1
                BY <4>1, <3>1, Finite, FS_AddElement
            <4>3. /\ logged[u]' = logged[u] /\ rpcs[u]' = rpcs[u]
                  /\ logged[u] \in Nat /\ rpcs[u] \in Nat
                BY <2>1 DEF PoolInv, PoolType
            <4>4. logged[u] + rpcs[u] + Cardinality(Counting(u)) = Cardinality(Routed(u))
                BY DEF PoolInv, StatsConserved, Counting
            <4> QED
                BY <4>2, <4>3, <4>4, Finite
        <3>3. CASE u # next % NUp
            <4>1. Routed(u)' = Routed(u) /\ Counting(u)' = Counting(u)
                BY <2>1, <3>1, <3>3 DEF PoolInv, PoolType, Routed, Counting
            <4> QED
                BY <4>1, <2>1 DEF PoolInv, StatsConserved, Counting
        <3> QED
            BY <3>2, <3>3
    <2> QED
        BY <2>3, <2>4, <2>5 DEF PoolInv
<1> QED
    BY <1>1, <1>2

\* The RPC leaves the set between the two additions for the counter.
LEMMA CountStep ==
    ASSUME PoolInv, NEW r \in Rpcs, Count(r)
    PROVE  PoolInv'
<1>1. /\ pc[r] = "count" /\ pc' = [pc EXCEPT ![r] = "probe"]
      /\ rpcs' = [rpcs EXCEPT ![up[r]] = @ + 1]
      /\ UNCHANGED <<next, logger, lu, logged, up>>
    BY DEF Count, Goto, stats
<1>2. up[r] \in Upstreams
    BY <1>1 DEF PoolInv, RouteInv
<1>3. PoolType' /\ RouteInv'
    BY <1>1, <1>2 DEF PoolInv, PoolType, RouteInv, Labels
<1>4. \A u : Routed(u)' = Routed(u)
    BY <1>1 DEF Routed
<1>5. PoolSpread'
    BY <1>1, <1>4 DEF PoolInv, PoolSpread, Turns
<1>6. StatsConserved'
    <2> SUFFICES ASSUME NEW u \in Upstreams
                 PROVE  logged[u]' + rpcs[u]' + Cardinality(Counting(u))' = Cardinality(Routed(u))'
        BY DEF StatsConserved, Counting
    <2>1. CASE u = up[r]
        <3>1. r \in Counting(u) /\ Counting(u)' = Counting(u) \ {r}
            BY <1>1, <2>1 DEF PoolInv, PoolType, Routed, Counting
        <3>2. Cardinality(Counting(u))' = Cardinality(Counting(u)) - 1
            BY <3>1, Finite, FS_RemoveElement
        <3>3. /\ logged[u]' = logged[u] /\ rpcs[u]' = rpcs[u] + 1
              /\ logged[u] \in Nat /\ rpcs[u] \in Nat
            BY <1>1, <2>1 DEF PoolInv, PoolType
        <3>4. logged[u] + rpcs[u] + Cardinality(Counting(u)) = Cardinality(Routed(u))
            BY DEF PoolInv, StatsConserved, Counting
        <3> QED
            BY <3>2, <3>3, <3>4, <1>4, Finite
    <2>2. CASE u # up[r]
        <3>1. Counting(u)' = Counting(u)
            BY <1>1, <2>2 DEF PoolInv, PoolType, Routed, Counting
        <3>2. rpcs[u]' = rpcs[u]
            BY <1>1, <2>2 DEF PoolInv, PoolType
        <3> QED
            BY <3>1, <3>2, <1>1, <1>4 DEF PoolInv, StatsConserved, Counting
    <2> QED
        BY <2>1, <2>2
<1> QED
    BY <1>3, <1>5, <1>6 DEF PoolInv

\* The stats goroutine: what leaves a counter is logged.
LEMMA StatisticsStep ==
    ASSUME PoolInv, Statistics
    PROVE  PoolInv'
<1> USE ServiceAssumption
<1>1. UNCHANGED <<next, pc, up>>
    BY DEF Statistics, StatsTick, StatsSwap, StatsStop, pool
<1>2. \A u : Routed(u)' = Routed(u) /\ Counting(u)' = Counting(u)
    BY <1>1 DEF Routed, Counting
<1>3. PoolSpread'
    BY <1>1, <1>2 DEF PoolInv, PoolSpread, Turns
<1>4. CASE StatsSwap
    <2>1. /\ lu \in Upstreams
          /\ logged' = [logged EXCEPT ![lu] = @ + rpcs[lu]] /\ rpcs' = [rpcs EXCEPT ![lu] = 0]
        BY <1>4 DEF StatsSwap, PoolInv, RouteInv
    <2>2. lu + 1 = NUp \/ (lu' = lu + 1 /\ lu' \in Upstreams)
        <3>1. lu + 1 = NUp \/ (lu + 1) % NUp = lu + 1
            BY <2>1, Z3T(30) DEF Upstreams
        <3> QED
            BY <3>1, <2>1, <1>4 DEF StatsSwap, Upstreams
    <2>3. lu' \in Nat
        BY <2>1, <1>4, NUp \in Nat \ {0}, lu + 1 \in Nat, ModNext DEF StatsSwap, Upstreams
    <2>4. logger' \in {"wait", "swap"} /\ (logger' = "swap" => lu + 1 # NUp) /\ NUp > 0
        BY <1>4, <2>1 DEF StatsSwap, Upstreams
    <2>5. PoolType' /\ RouteInv'
        BY <1>1, <2>1, <2>2, <2>3, <2>4 DEF PoolInv, PoolType, RouteInv
    <2>6. StatsConserved'
        <3> SUFFICES ASSUME NEW u \in Upstreams
                     PROVE  logged'[u] + rpcs'[u] = logged[u] + rpcs[u]
            BY <1>2 DEF PoolInv, StatsConserved, Counting
        <3> QED
            BY <2>1 DEF PoolInv, PoolType
    <2> QED
        BY <2>5, <2>6, <1>3 DEF PoolInv
<1>5. CASE StatsTick \/ StatsStop
    <2>1. PoolType' /\ RouteInv'
        BY <1>1, <1>5 DEF StatsTick, StatsStop, pool, PoolInv, PoolType, RouteInv, Upstreams
    <2>2. StatsConserved'
        BY <1>2, <1>5 DEF StatsTick, StatsStop, pool, PoolInv, StatsConserved, Counting
    <2> QED
        BY <2>1, <2>2, <1>3 DEF PoolInv
<1> QED
    BY <1>4, <1>5 DEF Statistics

\* The other steps of an RPC go on to a label where it is not counted.
LEMMA WorkStep ==
    ASSUME PoolInv, NEW r \in Rpcs, Work(r)
    PROVE  PoolInv'
<1>1. CASE Pick(r)
    BY <1>1, PickStep
<1>2. CASE Count(r)
    BY <1>2, CountStep
<1>3. CASE LookupIP(r)
    <2>1. pc[r] = "probe" /\ UNCHANGED <<pool, stats, up>> /\ (Goto(r, "done") \/ Goto(r, "run"))
        BY <1>3 DEF LookupIP, Finish
    <2> QED
        BY <2>1, RpcBystander DEF Labels
<1>4. CASE Lookup(r) \/ Send(r)
    <2>1. UNCHANGED <<pool, stats, up, pc>>
        BY <1>4 DEF Lookup, Send
    <2> QED
        BY <2>1, Bystander DEF pool, stats, PoolInv, PoolType
<1>5. CASE SendFails(r) \/ Return(r)
    <2>1. pc[r] = "run" /\ UNCHANGED <<pool, stats, up>> /\ Goto(r, "done")
        BY <1>5 DEF SendFails, Return, Finish
    <2> QED
        BY <2>1, RpcBystander DEF Labels
<1> QED
    BY <1>1, <1>2, <1>3, <1>4, <1>5 DEF Work

\* Arrivals, and the RPCs of the RDAP service.
LEMMA ArrivalStep ==
    ASSUME PoolInv, NEW r \in Rpcs, Accept(r) \/ AcceptRdap(r) \/ RdapReturns(r)
    PROVE  PoolInv'
<1>1. CASE Accept(r)
    <2>1. pc[r] = "start" /\ UNCHANGED <<pool, stats, up>> /\ (Goto(r, "done") \/ Goto(r, "pick"))
        BY <1>1 DEF Accept, Start, Finish
    <2> QED
        BY <2>1, RpcBystander DEF Labels
<1>2. CASE AcceptRdap(r)
    <2>1. pc[r] = "start" /\ UNCHANGED <<pool, stats, up>> /\ (Goto(r, "done") \/ Goto(r, "rdap"))
        BY <1>2 DEF AcceptRdap, Finish
    <2> QED
        BY <2>1, RpcBystander DEF Labels
<1>3. CASE RdapReturns(r)
    <2>1. pc[r] = "rdap" /\ UNCHANGED <<pool, stats, up>> /\ Goto(r, "done")
        BY <1>3 DEF RdapReturns, Finish
    <2> QED
        BY <2>1, RpcBystander DEF Labels
<1> QED
    BY <1>1, <1>2, <1>3

(* Every step of the program keeps PoolInv.                                *)
LEMMA PoolInductive == PoolInv /\ [MainNext]_allVars => PoolInv'
<1> SUFFICES ASSUME PoolInv, [MainNext]_allVars PROVE PoolInv'
    OBVIOUS
<1>1. ASSUME UNCHANGED <<next, rpcs, logger, lu, logged, up, pc>> PROVE PoolInv'
    BY <1>1, Bystander DEF PoolInv, PoolType
<1>2. CASE UNCHANGED allVars
    BY <1>1, <1>2 DEF allVars, vars, pool, stats
<1>3. CASE Main
    <2>1. UNCHANGED vars
        BY <1>3 DEF Main, Bootstrap, Listen, Setup, Serve, ServeReturns
    <2> QED
        BY <2>1, <1>1 DEF vars, pool, stats
<1>4. CASE Stopping
    <2>1. UNCHANGED <<pool, logger, lu, logged, up, pc>>
        BY <1>4 DEF Stopping, Notify, StopStats, Stop, GracefulStop, Drained, vars, stats
    <2> QED
        BY <2>1, <1>1 DEF pool
<1>5. CASE AcceptFails \/ Signal
    BY <1>1, <1>5 DEF AcceptFails, Signal, vars, pool, stats
<1>6. CASE Statistics
    BY <1>6, StatisticsStep
<1>7. ASSUME NEW r \in Rpcs,
             \/ Accept(r) \/ AcceptRdap(r) \/ Work(r) \/ RdapReturns(r)
             \/ ClientGone(r) /\ UNCHANGED process
      PROVE  PoolInv'
    <2>1. CASE ClientGone(r)
        BY <1>1, <2>1 DEF ClientGone, pool, stats
    <2> QED
        BY <1>7, <2>1, WorkStep, ArrivalStep
<1> QED
    BY <1>2, <1>3, <1>4, <1>5, <1>6, <1>7 DEF MainNext

(* No RPC is lost from the upstreams' statistics or counted twice: the two *)
(* atomic additions of pickResolver and the Swap of LogUpstreamStats may   *)
(* be interleaved in any way.                                              *)
THEOREM NoRpcLost == MainSpec => []StatsConserved
<1>1. PoolInv => StatsConserved
    BY DEF PoolInv
<1> QED
    BY <1>1, PoolInit, PoolInductive, PTL DEF MainSpec

(* Of two upstreams none gets two RPCs more than the other: the cursor     *)
(* pickResolver adds to goes round the pool, for any number of RPCs at a   *)
(* time and wherever it began.                                             *)
THEOREM EvenPool == MainSpec => []PoolBalanced
<1>1. PoolInv => PoolBalanced
    <2> SUFFICES ASSUME PoolInv, NEW u \in Upstreams, NEW v \in Upstreams
                 PROVE  Cardinality(Routed(u)) <= Cardinality(Routed(v)) + 1
        BY DEF PoolBalanced
    <2>1. NUp > 0
        BY ServiceAssumption DEF Upstreams
    <2>2. Spread(Turns, NUp, next % NUp)
        BY <2>1 DEF PoolInv, PoolSpread
    <2>3. Turns[u] <= Turns[v] + 1
        BY <2>2, SpreadEven, ServiceAssumption DEF Upstreams
    <2> QED
        BY <2>3 DEF Turns
<1> QED
    BY <1>1, PoolInit, PoolInductive, PTL DEF MainSpec

-----------------------------------------------------------------------------
(* The process: a server that exits with status 0 was told to stop, has    *)
(* cut off no RPC and, if it keeps statistics, has stopped them.               *)

\* No RPC is under way.
Quiet == \A r \in Rpcs : pc[r] \in {"start", "done"}

\* How far the signal goroutine has come bounds what the server can be doing.
StopOrder ==
    /\ phase \in {"boot", "listen", "setup"} => sig = "none"
    /\ srv \in {"new", "serving", "draining", "stopped"}
    /\ srv \in {"draining", "stopped"} => sig = "draining"
    /\ kind = "resolver" /\ sig \in {"graceful", "draining"} => stopped

\* A server that does not serve has no RPC in hand.
ServeInv ==
    /\ srv \in {"new", "stopped"} => Quiet
    /\ phase = "exit 0" => srv = "stopped"

ServerInv == StopOrder /\ ServeInv

(* The initial states satisfy ServerInv.                                   *)
LEMMA ServerInit == MainInit => ServerInv
BY DEF MainInit, Init, ServerInv, StopOrder, ServeInv, Quiet

\* Steps of the service alone do not wake a quiet server: they belong to an RPC
\* under way, or to the statistics, which have no part in it.
LEMMA WorkQuiet ==
    ASSUME NEW r \in Rpcs, Work(r)
    PROVE  Quiet => Quiet'
<1> SUFFICES ASSUME Quiet PROVE Quiet'
    OBVIOUS
<1>1. pc[r] \in {"start", "done"}
    BY DEF Quiet
<1>2. ~Pick(r) /\ ~Count(r) /\ ~LookupIP(r) /\ ~Lookup(r) /\ ~SendFails(r) /\ ~Return(r)
    BY <1>1 DEF Pick, Count, LookupIP, Lookup, SendFails, Return
<1>3. UNCHANGED pc
    BY <1>2 DEF Work, Send
<1> QED
    BY <1>3 DEF Quiet

(* The work inside a call leaves main's state alone.                       *)
LEMMA WorkKeeps ==
    ASSUME NEW r \in Rpcs, Work(r)
    PROVE  UNCHANGED <<stopped, process>>
BY DEF Work, Pick, Count, LookupIP, Lookup, Send, SendFails, Return, stats

(* Every step of main keeps ServerInv.                                     *)
LEMMA MainKeeps ==
    ASSUME ServerInv, ~Ended, Main
    PROVE  ServerInv'
<1>1. CASE Bootstrap
    BY <1>1 DEF Bootstrap, ServerInv, StopOrder, ServeInv, Quiet, vars, stats
<1>2. CASE Listen
    BY <1>2 DEF Listen, ServerInv, StopOrder, ServeInv, Quiet, vars, stats
<1>3. CASE Setup
    BY <1>3 DEF Setup, ServerInv, StopOrder, ServeInv, Quiet, vars, stats
<1>4. CASE Serve
    BY <1>4 DEF Serve, ServerInv, StopOrder, ServeInv, Quiet, vars, stats
<1>5. CASE ServeReturns
    BY <1>5 DEF ServeReturns, ServerInv, StopOrder, ServeInv, Quiet, vars, stats
<1> QED
    BY <1>1, <1>2, <1>3, <1>4, <1>5 DEF Main

\* The order of the goroutine's steps is what matters: the statistics stop
\* before the server, and the server stops only once it is quiet.
LEMMA StoppingKeeps ==
    ASSUME ServerInv, ~Ended, Stopping
    PROVE  ServerInv'
<1>1. CASE Notify
    BY <1>1 DEF Notify, ServerInv, StopOrder, ServeInv, Quiet, vars, stats
<1>2. CASE StopStats
    <2>1. kind = "resolver" => stopped'
        BY <1>2 DEF StopStats, Stop
    <2>2. UNCHANGED <<pc, kind, phase, srv>> /\ sig' = "graceful"
        BY <1>2 DEF StopStats, Stop, vars
    <2>3. srv \notin {"draining", "stopped"} /\ phase \notin {"boot", "listen", "setup"}
        BY <1>2 DEF ServerInv, StopOrder, StopStats
    <2> QED
        BY <2>1, <2>2, <2>3 DEF ServerInv, StopOrder, ServeInv, Quiet
<1>3. CASE GracefulStop
    <2>1. srv \in {"new", "serving"}
        BY <1>3 DEF GracefulStop, ServerInv, StopOrder
    <2> QED
        BY <1>3, <2>1 DEF GracefulStop, ServerInv, StopOrder, ServeInv, Quiet, vars, stats
<1>4. CASE Drained
    BY <1>4 DEF Drained, ServerInv, StopOrder, ServeInv, Quiet, vars, stats
<1> QED
    BY <1>1, <1>2, <1>3, <1>4 DEF Stopping

(* A step of a call keeps ServerInv while the process runs.                *)
LEMMA RpcKeeps ==
    ASSUME ServerInv, ~Ended, NEW r \in Rpcs,
           \/ Accept(r) \/ AcceptRdap(r) \/ Work(r) \/ RdapReturns(r)
           \/ ClientGone(r) /\ UNCHANGED process
    PROVE  ServerInv'
<1>1. CASE Accept(r)
    BY <1>1 DEF Accept, Start, process, ServerInv, StopOrder, ServeInv, Quiet, stats
<1>2. CASE AcceptRdap(r)
    BY <1>2 DEF AcceptRdap, process, ServerInv, StopOrder, ServeInv, Quiet, stats
<1>3. CASE Work(r)
    BY <1>3, WorkQuiet, WorkKeeps DEF process, ServerInv, StopOrder, ServeInv
<1>4. CASE RdapReturns(r)
    <2>1. ~Quiet
        BY <1>4 DEF RdapReturns, Quiet
    <2> QED
        BY <1>4, <2>1 DEF RdapReturns, process, ServerInv, StopOrder, ServeInv, stats
<1>5. CASE ClientGone(r) /\ UNCHANGED process
    BY <1>5 DEF ClientGone, process, ServerInv, StopOrder, ServeInv, Quiet, stats
<1> QED
    BY <1>1, <1>2, <1>3, <1>4, <1>5

(* Every step of the program keeps ServerInv.                              *)
LEMMA ServerInductive == ServerInv /\ [MainNext]_allVars => ServerInv'
<1> SUFFICES ASSUME ServerInv, [MainNext]_allVars PROVE ServerInv'
    OBVIOUS
<1>1. CASE UNCHANGED allVars
    BY <1>1 DEF allVars, vars, process, stats, ServerInv, StopOrder, ServeInv, Quiet
<1>2. CASE ~Ended /\ Main
    BY <1>2, MainKeeps
<1>3. CASE ~Ended /\ Stopping
    BY <1>3, StoppingKeeps
<1>4. CASE ~Ended /\ AcceptFails
    BY <1>4 DEF AcceptFails, vars, stats, ServerInv, StopOrder, ServeInv, Quiet
<1>5. CASE ~Ended /\ Signal
    BY <1>5 DEF Signal, vars, stats, ServerInv, StopOrder, ServeInv, Quiet
<1>6. CASE ~Ended /\ Statistics
    <2>1. UNCHANGED <<pc, stopped, process>>
        BY <1>6 DEF Statistics, StatsTick, StatsSwap, StatsStop
    <2> QED
        BY <2>1 DEF process, ServerInv, StopOrder, ServeInv, Quiet
<1>7. CASE ~Ended /\ \E r \in Rpcs :
              \/ Accept(r) \/ AcceptRdap(r) \/ Work(r) \/ RdapReturns(r)
              \/ ClientGone(r) /\ UNCHANGED process
    BY <1>7, RpcKeeps
<1> QED
    BY <1>1, <1>2, <1>3, <1>4, <1>5, <1>6, <1>7 DEF MainNext

(* A process that ends with status 0 has drained its RPCs, was told to     *)
(* stop and has stopped its statistics: GracefulStop in main comes last,   *)
(* and Serve returns nil only after it.                                    *)
THEOREM SafeExit == MainSpec => []DrainedBeforeExit
<1>1. ServerInv => DrainedBeforeExit
    BY DEF ServerInv, StopOrder, ServeInv, Quiet, DrainedBeforeExit
<1> QED
    BY <1>1, ServerInit, ServerInductive, PTL DEF MainSpec

-----------------------------------------------------------------------------
(* The streams: what was looked up, in order, with or without gaps.        *)

\* The types a stream may hold.
Kinds == {"A", "AAAA"} \cup ToSet(AllTypes)

\* What an RPC has sent and is about to send.
Stream(r) == sent[r] \o batch[r]

\* The types looked up after the probe and n more lookups, in the order of
\* resolveStream; which of them a name has that are streamed.
LookedUp(n) == <<"A", "AAAA">> \o SubSeq(LookupOrder, 1, n)

\* The records of a name that are streamed when they are looked up.
Present(z) == {t \in z.has : ~(t = "CNAME" /\ z.selfAlias)}

\* A stream without gaps after n lookups.
Found(z, n) == Only(LookedUp(n), Present(z))

\* One with gaps.
Fits(s, z, n) == s = Only(Found(z, n), ToSet(s))

HasAddress(z) == z.has \cap {"A", "AAAA"} # {}

StreamType ==
    /\ zone \in [Rpcs -> Zones] /\ pc \in [Rpcs -> {"start", "pick", "count", "probe", "run", "done"}]
    /\ k \in [Rpcs -> 0..Len(LookupOrder)] /\ status \in [Rpcs -> {"none", "ok", "error"}]
    /\ sent \in [Rpcs -> Seq(Kinds)] /\ batch \in [Rpcs -> Seq(Kinds)]
    /\ failed \in [Rpcs -> SUBSET Kinds]

\* What was sent and is about to be is some of what was looked up and is there,
\* in order; all of it if no lookup failed.
StreamOf(r) ==
    /\ batch[r] # <<>> => pc[r] = "run"
    /\ pc[r] # "done" => status[r] = "none"
    /\ pc[r] \in {"start", "pick", "count", "probe"} =>
           k[r] = 0 /\ Stream(r) = <<>> /\ failed[r] = {}
    /\ Fits(Stream(r), zone[r], k[r])
    /\ failed[r] = {} /\ pc[r] = "run" => Stream(r) = Found(zone[r], k[r])
    /\ status[r] = "ok" /\ failed[r] = {} /\ HasAddress(zone[r]) =>
           Stream(r) = Found(zone[r], Len(LookupOrder))

StreamInv == StreamType /\ \A r \in Rpcs : StreamOf(r)

\* The two types of the probe are a sequence.
LEMMA PairFacts ==
    ASSUME NEW S, NEW u \in S, NEW v \in S, u # v
    PROVE  <<u, v>> \in Seq(S) /\ ToSet(<<u, v>>) = {u, v} /\ Distinct(<<u, v>>)
BY DEF ToSet, Distinct

\* The lookups are distinct, and the addresses not among them.
LEMMA OrderFacts ==
    /\ LookupOrder \in Seq(Kinds) /\ Len(LookupOrder) \in Nat
    /\ DOMAIN LookupOrder = 1..Len(LookupOrder)
    /\ Distinct(LookupOrder) /\ "A" \notin ToSet(LookupOrder) /\ "AAAA" \notin ToSet(LookupOrder)
<1>1. "A" \notin ToSet(AllTypes) /\ "AAAA" \notin ToSet(AllTypes)
    <2>1. DOMAIN AllTypes = 1..17
        BY DEF AllTypes
    <2>2. \A i \in 1..17 : AllTypes[i] # "A"
        BY DEF AllTypes
    <2>3. \A i \in 1..17 : AllTypes[i] # "AAAA"
        BY DEF AllTypes
    <2> QED
        BY <2>1, <2>2, <2>3 DEF ToSet
<1>2. LookupOrder \in Seq(ToSet(AllTypes))
    BY ServiceAssumption
<1>3. Len(LookupOrder) \in Nat /\ DOMAIN LookupOrder = 1..Len(LookupOrder)
      /\ LookupOrder \in [1..Len(LookupOrder) -> ToSet(AllTypes)]
    BY <1>2, LenProperties
<1>4. ToSet(LookupOrder) \subseteq ToSet(AllTypes)
    BY <1>3 DEF ToSet
<1>5. LookupOrder \in Seq(Kinds)
    BY <1>2, SeqMonotonic DEF Kinds
<1>6. Distinct(LookupOrder)
    BY ServiceAssumption DEF Distinct
<1> QED
    BY <1>1, <1>3, <1>4, <1>5, <1>6

\* No type is looked up twice.
LEMMA AllDistinct ==
    Distinct(<<"A", "AAAA">> \o LookupOrder) /\ <<"A", "AAAA">> \o LookupOrder \in Seq(Kinds)
<1> DEFINE p == <<"A", "AAAA">>
           s == p \o LookupOrder
           N == Len(LookupOrder)
<1>1. p \in Seq(Kinds) /\ Len(p) = 2 /\ p[1] = "A" /\ p[2] = "AAAA"
    BY PairFacts DEF Kinds
<1> HIDE DEF p
<1>2. LookupOrder \in Seq(Kinds) /\ N \in Nat /\ DOMAIN LookupOrder = 1..N
    BY OrderFacts
<1>3. /\ s \in Seq(Kinds) /\ Len(s) = 2 + N
      /\ \A i \in 1..(2 + N) : s[i] = IF i <= 2 THEN p[i] ELSE LookupOrder[i - 2]
    <2>1. /\ s \in Seq(Kinds) /\ Len(s) = Len(p) + N
          /\ \A i \in 1..(Len(p) + N) : s[i] = IF i <= Len(p) THEN p[i] ELSE LookupOrder[i - Len(p)]
        BY <1>1, <1>2, ConcatProperties
    <2> QED
        BY <1>1, <2>1
<1>4. DOMAIN s = 1..(2 + N)
    BY <1>2, <1>3, LenProperties
<1> HIDE DEF s, N
<1>5. s[1] = "A" /\ s[2] = "AAAA" /\ \A i \in 3..(2 + N) : s[i] = LookupOrder[i - 2] /\ i - 2 \in 1..N
    BY <1>1, <1>2, <1>3
<1>6. \A i \in 3..(2 + N) : s[i] # "A" /\ s[i] # "AAAA"
    BY <1>2, <1>5, OrderFacts DEF ToSet
<1>7. ASSUME NEW i \in 1..(2 + N), NEW j \in 1..(2 + N), s[i] = s[j] PROVE i = j
    <2>1. CASE i \in 3..(2 + N) /\ j \in 3..(2 + N)
        <3>1. i - 2 = j - 2
            BY <1>2, <1>5, <1>7, <2>1, OrderFacts DEF Distinct
        <3> QED
            BY <3>1
    <2>2. CASE i \in 1..2 \/ j \in 1..2
        BY <1>2, <1>5, <1>6, <1>7, <2>2
    <2> QED
        BY <1>2, <2>1, <2>2
<1> QED
    BY <1>3, <1>4, <1>7 DEF Distinct, s, p

\* What was looked up is the beginning of all there is to look up.
LEMMA LookedUpShape ==
    ASSUME NEW n \in 0..Len(LookupOrder)
    PROVE  /\ LookedUp(n) \in Seq(Kinds) /\ Distinct(LookedUp(n))
           /\ \E rest \in Seq(Kinds) : /\ <<"A", "AAAA">> \o LookupOrder = LookedUp(n) \o rest
                                       /\ ToSet(LookedUp(n)) \cap ToSet(rest) = {}
           /\ n = Len(LookupOrder) => LookedUp(n) = <<"A", "AAAA">> \o LookupOrder
           /\ n = 0 => LookedUp(n) = <<"A", "AAAA">>
<1> DEFINE N == Len(LookupOrder)
           done == SubSeq(LookupOrder, 1, n)
           rest == SubSeq(LookupOrder, n + 1, N)
           probe == <<"A", "AAAA">>
<1>1. N \in Nat /\ n \in 0..N /\ LookupOrder \in Seq(Kinds) /\ \A i \in 1..N : LookupOrder[i] \in Kinds
    BY OrderFacts, LenProperties
<1>2. done \in Seq(Kinds) /\ rest \in Seq(Kinds)
    BY <1>1, SubSeqProperties
<1>3. probe \in Seq(Kinds)
    BY PairFacts DEF Kinds
<1>4. done \o rest = LookupOrder
    <2>1. 1 \in 1..(N + 1) /\ n \in (1 - 1)..N /\ N \in n..N
        BY <1>1
    <2>2. done \o rest = SubSeq(LookupOrder, 1, N)
        BY <1>1, <2>1, ConcatAdjacentSubSeq
    <2> QED
        BY <1>1, <2>2, SubSeqFull
<1>5. n = N => done = LookupOrder
    BY <1>1, SubSeqFull
<1>6. n = 0 => done = <<>>
    BY SubSeqEmpty
<1>7. LookedUp(n) = probe \o done
    BY DEF LookedUp
<1> HIDE DEF done, rest, probe
<1>8. probe \o LookupOrder = LookedUp(n) \o rest /\ LookedUp(n) \in Seq(Kinds)
    <2>1. probe \o (done \o rest) = (probe \o done) \o rest
        <3>1. \A s, t, u \in Seq(Kinds) : (s \o t) \o u = s \o (t \o u)
            BY ConcatAssociative
        <3> QED
            BY <1>2, <1>3, <3>1
    <2>2. probe \o done \in Seq(Kinds)
        BY <1>2, <1>3, ConcatProperties
    <2> QED
        BY <1>4, <1>7, <2>1, <2>2
<1>9. Distinct(probe \o LookupOrder)
    BY AllDistinct DEF probe
<1>10. Distinct(LookedUp(n)) /\ ToSet(LookedUp(n)) \cap ToSet(rest) = {}
    BY <1>2, <1>8, <1>9, DistinctConcat
<1>11. n = 0 => LookedUp(n) = probe
    BY <1>3, <1>6, <1>7, ConcatEmptySeq
<1> QED
    BY <1>2, <1>5, <1>7, <1>8, <1>10, <1>11 DEF probe

\* Each lookup is of a type that was not looked up before.
LEMMA LookedUpNext ==
    ASSUME NEW n \in 0..Len(LookupOrder), n < Len(LookupOrder)
    PROVE  LET t == LookupOrder[n + 1]
           IN  LookedUp(n + 1) = Append(LookedUp(n), t) /\ t \in Kinds /\ t \notin ToSet(LookedUp(n))
<1> DEFINE N == Len(LookupOrder)
           t == LookupOrder[n + 1]
           done == SubSeq(LookupOrder, 1, n)
           probe == <<"A", "AAAA">>
<1>1. N \in Nat /\ n + 1 \in 1..N /\ LookupOrder \in Seq(Kinds) /\ \A i \in 1..N : LookupOrder[i] \in Kinds
    BY OrderFacts, LenProperties
<1>2. done \in Seq(Kinds) /\ t \in Kinds /\ probe \in Seq(Kinds)
    BY <1>1, SubSeqProperties, PairFacts DEF Kinds
<1>3. SubSeq(LookupOrder, 1, n + 1) = Append(done, t)
    <2>1. 1 \in 1..N /\ n + 1 \in 1..N /\ (n + 1) - 1 = n
        BY <1>1
    <2>2. SubSeq(LookupOrder, 1, n + 1) = SubSeq(LookupOrder, 1, n) \o <<t>>
        BY <1>1, <2>1, SubSeqRecursiveSecond
    <2> QED
        BY <1>2, <2>2, AppendIsConcat
<1> HIDE DEF done, probe, t
<1>4. probe \o Append(done, t) = Append(probe \o done, t)
    BY <1>2, ConcatAppend
<1>5. LookedUp(n + 1) = Append(LookedUp(n), t)
    BY <1>3, <1>4 DEF LookedUp, probe, done
<1>6. Distinct(LookedUp(n + 1)) /\ LookedUp(n) \in Seq(Kinds)
    BY <1>1, LookedUpShape
<1> QED
    BY <1>2, <1>5, <1>6, DistinctAppend DEF t

\* A stream without gaps, and how it ends.
LEMMA FoundShape ==
    ASSUME NEW z, NEW n \in 0..Len(LookupOrder)
    PROVE  /\ Found(z, n) \in Seq(Kinds) /\ Distinct(Found(z, n))
           /\ ToSet(Found(z, n)) = ToSet(LookedUp(n)) \cap Present(z)
           /\ n = Len(LookupOrder) => Found(z, n) = Wanted(z)
BY LookedUpShape, OnlyType, DistinctOnly, OnlySet DEF Found, Wanted, Present

\* The probe's records.
LEMMA FitsProbe ==
    ASSUME NEW z, NEW F
    PROVE  LET s == Only(<<"A", "AAAA">>, z.has \ F)
           IN  s \in Seq(Kinds) /\ Fits(s, z, 0) /\ (F = {} => s = Found(z, 0))
<1> DEFINE p == <<"A", "AAAA">>
           s == Only(p, z.has \ F)
           P == Present(z)
<1>1. p \in Seq(Kinds) /\ ToSet(p) = {"A", "AAAA"}
    BY PairFacts DEF Kinds
<1>2. Found(z, 0) = Only(p, P)
    <2>1. 0 \in 0..Len(LookupOrder)
        BY OrderFacts
    <2>2. LookedUp(0) = p
        BY <2>1, LookedUpShape
    <2> QED
        BY <2>2 DEF Found
<1>3. ToSet(p) \cap P = ToSet(p) \cap z.has
    BY <1>1 DEF Present
<1> HIDE DEF p, P
<1>4. s \in Seq(Kinds) /\ ToSet(s) = ToSet(p) \cap (z.has \ F)
    BY <1>1, OnlyType, OnlySet
<1>5. Only(Found(z, 0), ToSet(s)) = Only(p, P \cap ToSet(s))
    <2> HIDE DEF s
    <2>1. Only(Only(p, P), ToSet(s)) = Only(p, P \cap ToSet(s))
        BY <1>1, OnlyOfOnly
    <2> QED
        BY <1>2, <2>1
<1>6. Only(p, P \cap ToSet(s)) = s
    <2>1. ToSet(p) \cap (P \cap ToSet(s)) = ToSet(p) \cap (z.has \ F)
        BY <1>3, <1>4
    <2> QED
        BY <1>1, <2>1, OnlySame
<1>7. F = {} => s = Found(z, 0)
    <2>1. F = {} => ToSet(p) \cap (z.has \ F) = ToSet(p) \cap P
        BY <1>3
    <2> QED
        BY <1>1, <1>2, <2>1, OnlySame
<1> QED
    BY <1>4, <1>5, <1>6, <1>7 DEF Fits, p

\* One more lookup.
LEMMA FitsNext ==
    ASSUME NEW z, NEW n \in 0..Len(LookupOrder), n < Len(LookupOrder),
           NEW s \in Seq(Kinds), Fits(s, z, n)
    PROVE  LET t == LookupOrder[n + 1]
           IN  /\ Fits(s, z, n + 1)
               /\ t \in Present(z) => Fits(Append(s, t), z, n + 1)
               /\ Found(z, n + 1) = IF t \in Present(z) THEN Append(Found(z, n), t) ELSE Found(z, n)
<1> DEFINE t == LookupOrder[n + 1]
           P == Present(z)
           f == Found(z, n)
<1>1. t \in Kinds /\ t \notin ToSet(LookedUp(n)) /\ LookedUp(n + 1) = Append(LookedUp(n), t)
    BY LookedUpNext
<1> HIDE DEF t
<1>2. f \in Seq(Kinds) /\ t \notin ToSet(f) /\ LookedUp(n) \in Seq(Kinds)
    BY <1>1, FoundShape, LookedUpShape
<1>3. Found(z, n + 1) = IF t \in P THEN Append(f, t) ELSE f
    BY <1>1, <1>2, OnlyOfAppend DEF Found
<1>4. s = Only(f, ToSet(s))
    BY DEF Fits
<1> HIDE DEF f, P
<1>5. ToSet(s) = ToSet(f) \cap ToSet(s)
    BY <1>2, <1>4, OnlySet
<1>6. t \notin ToSet(s)
    BY <1>2, <1>5
<1>7. Only(Append(f, t), ToSet(s)) = s
    BY <1>1, <1>2, <1>4, <1>6, OnlyOfAppend
<1>8. Only(Append(f, t), ToSet(Append(s, t))) = Append(s, t)
    <2>1. ToSet(Append(s, t)) = ToSet(s) \cup {t}
        BY <1>1, ToSetOfAppend
    <2>2. Only(f, ToSet(Append(s, t))) = Only(f, ToSet(s))
        <3>1. ToSet(f) \cap ToSet(Append(s, t)) = ToSet(f) \cap ToSet(s)
            BY <1>2, <2>1
        <3> QED
            BY <1>2, <3>1, OnlySame
    <2>3. t \in ToSet(Append(s, t))
        BY <2>1
    <2>4. Only(Append(f, t), ToSet(Append(s, t))) = Append(Only(f, ToSet(Append(s, t))), t)
        BY <1>1, <1>2, <2>3, OnlyOfAppend
    <2> QED
        BY <1>4, <2>2, <2>4
<1> QED
    BY <1>3, <1>4, <1>7, <1>8 DEF Fits, f, P, t

\* What was sent of a stream cut short.
LEMMA FitsCut ==
    ASSUME NEW z, NEW n \in 0..Len(LookupOrder),
           NEW s \in Seq(Kinds), NEW b \in Seq(Kinds), Fits(s \o b, z, n)
    PROVE  Fits(s, z, n)
<1> DEFINE f == Found(z, n)
           u == s \o b
<1>1. f \in Seq(Kinds) /\ Distinct(f)
    BY FoundShape
<1>2. u = Only(f, ToSet(u)) /\ u \in Seq(Kinds)
    BY ConcatProperties DEF Fits
<1>3. ToSet(u) = ToSet(s) \cup ToSet(b)
    BY ToSetOfConcat
<1>4. Only(u, ToSet(s)) = Only(s, ToSet(s)) \o Only(b, ToSet(s))
    BY OnlyOfConcat
<1>5. Distinct(s \o b)
    BY <1>1, <1>2, DistinctOnly
<1> HIDE DEF f, u
<1>6. ToSet(s) \cap ToSet(b) = {}
    BY <1>5, DistinctConcat
<1>7. Only(s, ToSet(s)) = s /\ Only(b, ToSet(s)) = <<>>
    BY <1>6, OnlyAll, OnlyNothing
<1>8. Only(u, ToSet(s)) = s
    BY <1>4, <1>7, ConcatEmptySeq
<1>9. Only(Only(f, ToSet(u)), ToSet(s)) = Only(f, ToSet(s))
    <2>1. ToSet(u) \cap ToSet(s) = ToSet(s)
        BY <1>3
    <2> QED
        BY <1>1, <2>1, OnlyOfOnly
<1> QED
    BY <1>2, <1>8, <1>9 DEF Fits, f

\* It is in order in the whole stream, too.
LEMMA FitsWanted ==
    ASSUME NEW z, NEW n \in 0..Len(LookupOrder), NEW s \in Seq(Kinds), Fits(s, z, n)
    PROVE  s = Only(Wanted(z), ToSet(s))
<1> DEFINE f == Found(z, n)
           P == Present(z)
           l == LookedUp(n)
<1>1. PICK rest \in Seq(Kinds) : /\ <<"A", "AAAA">> \o LookupOrder = l \o rest
                                 /\ ToSet(l) \cap ToSet(rest) = {}
    BY LookedUpShape
<1>2. l \in Seq(Kinds) /\ f \in Seq(Kinds) /\ ToSet(f) = ToSet(l) \cap P /\ f = Only(l, P)
    BY LookedUpShape, FoundShape DEF Found
<1>3. Wanted(z) = Only(l \o rest, P)
    BY <1>1 DEF Wanted, Present
<1>4. s = Only(f, ToSet(s))
    BY DEF Fits
<1> HIDE DEF f, P, l
<1>5. Wanted(z) = f \o Only(rest, P) /\ Only(rest, P) \in Seq(Kinds)
    <2>1. Only(l \o rest, P) = Only(l, P) \o Only(rest, P)
        <3>1. l \in Seq(Kinds) /\ rest \in Seq(Kinds)
            BY <1>2
        <3> QED
            BY <3>1, OnlyOfConcat
    <2> QED
        BY <1>2, <1>3, <2>1, OnlyType
<1>6. ToSet(s) = ToSet(f) \cap ToSet(s) /\ ToSet(Only(rest, P)) = ToSet(rest) \cap P
    BY <1>2, <1>4, OnlySet
<1>7. Only(Only(rest, P), ToSet(s)) = <<>>
    BY <1>1, <1>2, <1>5, <1>6, OnlyNothing
<1>8. Only(Wanted(z), ToSet(s)) = Only(f, ToSet(s)) \o Only(Only(rest, P), ToSet(s))
    <2> DEFINE o == Only(rest, P)
    <2>1. o \in Seq(Kinds) /\ Wanted(z) = f \o o
        BY <1>5
    <2> HIDE DEF o
    <2>2. \A K : Only(f \o o, K) = Only(f, K) \o Only(o, K)
        BY <1>2, <2>1, OnlyOfConcat
    <2> QED
        BY <2>1, <2>2 DEF o
<1> QED
    BY <1>4, <1>7, <1>8, ConcatEmptySeq

-----------------------------------------------------------------------------
\* What the streams consist of.
StreamVars == <<zone, pc, k, batch, sent, failed, status>>

\* Nothing is sent before an RPC starts.
LEMMA StreamInit == Init => StreamInv
<1> SUFFICES ASSUME Init PROVE StreamInv
    OBVIOUS
<1>1. StreamType
    BY OrderFacts, EmptySeq DEF Init, StreamType
<1>2. ASSUME NEW r \in Rpcs PROVE StreamOf(r)
    <2>1. Stream(r) = <<>>
        BY <1>2, EmptySeq, ConcatEmptySeq DEF Init, Stream
    <2>2. ToSet(<<>>) = {}
        BY DEF ToSet
    <2>3. Found(zone[r], 0) \in Seq(Kinds)
        <3>1. 0 \in 0..Len(LookupOrder)
            BY OrderFacts
        <3> QED
            BY <3>1, FoundShape
    <2>4. Fits(<<>>, zone[r], 0)
        BY <2>2, <2>3, OnlyNothing DEF Fits
    <2> QED
        BY <1>2, <2>1, <2>4 DEF Init, StreamOf
<1> QED
    BY <1>1, <1>2 DEF StreamInv

\* Steps that leave the stream of an RPC alone.
LEMMA StreamUnmoved ==
    ASSUME NEW r \in Rpcs, StreamOf(r),
           zone'[r] = zone[r], pc'[r] = pc[r], k'[r] = k[r], batch'[r] = batch[r],
           sent'[r] = sent[r], failed'[r] = failed[r], status'[r] = status[r]
    PROVE  StreamOf(r)'
<1>1. Stream(r)' = Stream(r)
    BY DEF Stream
<1> QED
    BY <1>1 DEF StreamOf

\* A step of one RPC concerns its own stream only.
LEMMA StreamStep ==
    ASSUME StreamInv, NEW r \in Rpcs, StreamType', UNCHANGED zone, StreamOf(r)',
           \A x \in Rpcs \ {r} :
               /\ pc'[x] = pc[x] /\ k'[x] = k[x] /\ batch'[x] = batch[x]
               /\ sent'[x] = sent[x] /\ failed'[x] = failed[x] /\ status'[x] = status[x]
    PROVE  StreamInv'
BY StreamUnmoved DEF StreamInv

\* Before the probe an RPC moves on, or ends in an error, with nothing sent.
LEMMA StreamBefore ==
    ASSUME StreamInv, NEW r \in Rpcs, pc[r] \in {"start", "pick", "count"},
           \/ \E l \in {"pick", "count", "probe"} : Goto(r, l) /\ UNCHANGED status
           \/ Finish(r, "error"),
           UNCHANGED <<zone, k, batch, sent, failed>>
    PROVE  StreamInv'
<1>1. StreamType'
    BY DEF StreamInv, StreamType, Goto, Finish
<1>2. Stream(r)' = Stream(r)
    BY DEF Stream
<1>3. \/ pc'[r] \in {"pick", "count", "probe"} /\ status'[r] = "none"
      \/ pc'[r] = "done" /\ status'[r] = "error"
    BY DEF StreamInv, StreamType, StreamOf, Goto, Finish
<1>4. batch[r] = <<>> /\ k[r] = 0 /\ failed[r] = {} /\ Stream(r) = <<>> /\ Fits(Stream(r), zone[r], k[r])
    BY DEF StreamInv, StreamOf
<1>5. StreamOf(r)'
    BY <1>2, <1>3, <1>4 DEF StreamOf
<1> QED
    BY <1>1, <1>5, StreamStep DEF StreamInv, StreamType, Goto, Finish

\* The probe: without a failure it says whether the name has an address.
LEMMA StreamProbe ==
    ASSUME StreamInv, NEW r \in Rpcs, LookupIP(r)
    PROVE  StreamInv'
<1> DEFINE z == zone[r]
           got == Only(<<"A", "AAAA">>, z.has \ failed'[r])
<1>1. /\ pc[r] = "probe" /\ k[r] = 0 /\ failed[r] = {} /\ batch[r] = <<>> /\ sent[r] = <<>>
      /\ status[r] = "none" /\ Stream(r) = <<>> /\ Fits(<<>>, z, 0)
    <2>1. sent[r] \in Seq(Kinds) /\ batch[r] \in Seq(Kinds) /\ sent[r] \o batch[r] = <<>>
        BY DEF LookupIP, StreamInv, StreamType, StreamOf, Stream
    <2>2. sent[r] = <<>> /\ batch[r] = <<>>
        BY <2>1, ConcatEqualIffEmpty DEF LookupIP, StreamInv, StreamOf
    <2> QED
        BY <2>2 DEF LookupIP, StreamInv, StreamOf, Stream
<1>2. PICK a \in Results(r, "A"), aaaa \in Results(r, "AAAA") :
          /\ failed' = [failed EXCEPT ![r] =
                @ \cup {t \in {"A", "AAAA"} : (IF t = "A" THEN a ELSE aaaa) \in Failures}]
          /\ batch' = [batch EXCEPT ![r] =
                IF Probe(a, aaaa) = "records" THEN got ELSE <<>>]
          /\ IF Probe(a, aaaa) = "notfound"
             THEN Finish(r, "ok")
             ELSE Goto(r, "run") /\ UNCHANGED status
    BY DEF LookupIP
<1>3. UNCHANGED <<zone, k, sent>>
    BY DEF LookupIP, given
<1>4. /\ got \in Seq(Kinds) /\ Fits(got, z, 0)
      /\ failed'[r] = {} => got = Found(z, 0)
    BY FitsProbe
<1> HIDE DEF got
<1>5. StreamType'
    BY <1>2, <1>3, <1>4, EmptySeq DEF StreamInv, StreamType, Finish, Goto, Kinds
<1>6. /\ sent'[r] = <<>> /\ k'[r] = 0 /\ zone'[r] = z
      /\ batch'[r] = IF Probe(a, aaaa) = "records" THEN got ELSE <<>>
      /\ IF Probe(a, aaaa) = "notfound" THEN pc'[r] = "done" /\ status'[r] = "ok"
                                        ELSE pc'[r] = "run" /\ status'[r] = "none"
      /\ failed'[r] = {t \in {"A", "AAAA"} : (IF t = "A" THEN a ELSE aaaa) \in Failures}
    BY <1>1, <1>2, <1>3 DEF StreamInv, StreamType, Finish, Goto
<1>7. Stream(r)' = batch'[r]
    BY <1>4, <1>6, EmptySeq, ConcatEmptySeq DEF Stream
\* Without a failure the probe sees what the name has.
<1>8. ASSUME failed'[r] = {}
      PROVE  /\ Probe(a, aaaa) \in {"records", "notfound"}
             /\ Probe(a, aaaa) = "records" <=> HasAddress(z)
    <2>1. a \notin Failures /\ aaaa \notin Failures
        BY <1>6, <1>8, ZenonT(60)
    <2>2. a = (IF "A" \in z.has THEN "records" ELSE "notfound")
        BY <2>1, <1>2 DEF Results, Failures
    <2>3. aaaa = (IF "AAAA" \in z.has THEN "records" ELSE "notfound")
        BY <2>1, <1>2 DEF Results, Failures
    <2> QED
        BY <2>2, <2>3 DEF Probe, HasAddress
<1>9. StreamOf(r)'
    <2>1. Fits(Stream(r)', z, 0)
        BY <1>1, <1>4, <1>6, <1>7
    <2>2. ASSUME failed'[r] = {}, pc'[r] = "run" PROVE Stream(r)' = Found(z, 0)
        BY <1>4, <1>6, <1>7, <1>8, <2>2
    <2>3. ASSUME failed'[r] = {}, status'[r] = "ok", HasAddress(z) PROVE FALSE
        BY <1>6, <1>8, <2>3
    <2>4. /\ batch'[r] # <<>> => pc'[r] = "run"
          /\ pc'[r] # "done" => status'[r] = "none"
          /\ pc'[r] \notin {"start", "pick", "count", "probe"}
        BY <1>6
    <2> QED
        BY <1>6, <2>1, <2>2, <2>3, <2>4 DEF StreamOf
<1> QED
    BY <1>2, <1>3, <1>5, <1>9, StreamStep DEF StreamInv, StreamType, Finish, Goto

\* A lookup: its record is new to the stream, whatever is missing from it.
LEMMA StreamLookup ==
    ASSUME StreamInv, NEW r \in Rpcs, Lookup(r)
    PROVE  StreamInv'
<1> DEFINE z == zone[r]
           n == k[r]
           t == LookupOrder[n + 1]
<1>1. /\ pc[r] = "run" /\ batch[r] = <<>> /\ n < Len(LookupOrder) /\ n \in 0..Len(LookupOrder)
      /\ UNCHANGED <<zone, pc, sent, status>> /\ k' = [k EXCEPT ![r] = n + 1]
      /\ status[r] = "none" /\ sent[r] \in Seq(Kinds)
    BY DEF Lookup, given, StreamInv, StreamType, StreamOf
<1>2. PICK o \in Results(r, t) :
          /\ failed' = [failed EXCEPT ![r] = IF o \in Failures THEN @ \cup {t} ELSE @]
          /\ batch' = [batch EXCEPT ![r] =
                IF o = "records" /\ ~(t = "CNAME" /\ z.selfAlias) THEN <<t>> ELSE <<>>]
    BY DEF Lookup
<1>3. Stream(r) = sent[r]
    BY <1>1, ConcatEmptySeq DEF Stream
<1>4. t \in Kinds /\ n + 1 \in 0..Len(LookupOrder)
    BY <1>1, LookedUpNext, OrderFacts
<1>5. /\ Fits(sent[r], z, n + 1)
      /\ t \in Present(z) => Fits(Append(sent[r], t), z, n + 1)
      /\ Found(z, n + 1) = IF t \in Present(z) THEN Append(Found(z, n), t) ELSE Found(z, n)
    BY <1>1, <1>3, FitsNext DEF StreamInv, StreamOf
<1> HIDE DEF t, n, z
<1>6. /\ batch'[r] = (IF o = "records" /\ ~(t = "CNAME" /\ z.selfAlias) THEN <<t>> ELSE <<>>)
      /\ failed'[r] = (IF o \in Failures THEN failed[r] \cup {t} ELSE failed[r])
      /\ k'[r] = n + 1 /\ pc'[r] = "run" /\ status'[r] = "none" /\ zone'[r] = z /\ sent'[r] = sent[r]
    BY <1>1, <1>2 DEF StreamInv, StreamType, z
<1>7. <<t>> \in Seq(Kinds)
    BY <1>4
<1>8. StreamType'
    BY <1>1, <1>2, <1>4, <1>7, EmptySeq DEF StreamInv, StreamType
<1>9. o = "records" => t \in z.has
    BY <1>2 DEF Results, z
<1>10. o = "records" \/ o \in Failures \/ t \notin z.has
    BY <1>2 DEF Results, Failures, z
<1>11. CASE o = "records" /\ ~(t = "CNAME" /\ z.selfAlias)
    <2>1. t \in Present(z)
        BY <1>9, <1>11 DEF Present
    <2>2. Stream(r)' = Append(sent[r], t)
        BY <1>1, <1>4, <1>6, <1>11, AppendIsConcat DEF Stream
    <2>3. failed'[r] = {} => failed[r] = {}
        BY <1>6
    <2>4. failed'[r] = {} => Stream(r)' = Found(z, n + 1)
        BY <1>1, <1>3, <1>5, <2>1, <2>2, <2>3 DEF StreamInv, StreamOf, z, n
    <2>5. Fits(Stream(r)', z, n + 1)
        BY <1>5, <2>1, <2>2
    <2>6. StreamOf(r)'
        BY <1>6, <2>4, <2>5 DEF StreamOf
    <2> QED
        BY <1>1, <1>2, <1>8, <2>6, StreamStep DEF StreamInv, StreamType
<1>12. CASE ~(o = "records" /\ ~(t = "CNAME" /\ z.selfAlias))
    <2>1. Stream(r)' = sent[r]
        BY <1>1, <1>6, <1>12, ConcatEmptySeq DEF Stream
    <2>2. failed'[r] = {} => failed[r] = {} /\ t \notin Present(z)
        BY <1>6, <1>10, <1>12 DEF Present
    <2>3. failed'[r] = {} => Stream(r)' = Found(z, n + 1)
        BY <1>1, <1>3, <1>5, <2>1, <2>2 DEF StreamInv, StreamOf, z, n
    <2>4. Fits(Stream(r)', z, n + 1)
        BY <1>5, <2>1
    <2>5. StreamOf(r)'
        BY <1>6, <1>12, <2>3, <2>4 DEF StreamOf
    <2> QED
        BY <1>1, <1>2, <1>8, <2>5, StreamStep DEF StreamInv, StreamType
<1> QED
    BY <1>11, <1>12

\* A record sent moves from one half of the stream to the other.
LEMMA StreamSend ==
    ASSUME StreamInv, NEW r \in Rpcs, Send(r)
    PROVE  StreamInv'
<1> DEFINE b == batch[r]
           s == sent[r]
<1>1. /\ b # <<>> /\ b \in Seq(Kinds) /\ s \in Seq(Kinds)
      /\ sent' = [sent EXCEPT ![r] = Append(s, Head(b))] /\ batch' = [batch EXCEPT ![r] = Tail(b)]
      /\ UNCHANGED <<zone, pc, k, failed, status>>
    BY DEF Send, given, StreamInv, StreamType
<1>2. Head(b) \in Kinds /\ Tail(b) \in Seq(Kinds) /\ b = <<Head(b)>> \o Tail(b) /\ <<Head(b)>> \in Seq(Kinds)
    <2>1. Head(b) \in Kinds /\ Tail(b) \in Seq(Kinds)
        BY <1>1, HeadTailProperties
    <2>2. b = <<Head(b)>> \o Tail(b)
        BY <1>1, ConcatSimplifications, HeadTailProperties
    <2> QED
        BY <2>1, <2>2
<1>3. sent'[r] = Append(s, Head(b)) /\ batch'[r] = Tail(b)
    BY <1>1 DEF StreamInv, StreamType
<1> HIDE DEF b, s
<1>4. Append(s, Head(b)) = s \o <<Head(b)>>
    BY <1>1, <1>2, AppendIsConcat
<1>5. (s \o <<Head(b)>>) \o Tail(b) = s \o b
    BY <1>1, <1>2, ConcatAssociative
<1>6. Stream(r)' = Stream(r)
    BY <1>3, <1>4, <1>5 DEF Stream, s, b
<1>7. StreamType'
    <2>1. Append(s, Head(b)) \in Seq(Kinds)
        BY <1>1, <1>2, AppendProperties
    <2> QED
        BY <1>1, <1>2, <2>1 DEF StreamInv, StreamType
<1>8. StreamOf(r)'
    BY <1>1, <1>6 DEF StreamInv, StreamOf, b
<1> QED
    BY <1>1, <1>7, <1>8, StreamStep DEF StreamInv, StreamType

\* A stream cut short, and one that is complete.
LEMMA StreamEnd ==
    ASSUME StreamInv, NEW r \in Rpcs, SendFails(r) \/ Return(r)
    PROVE  StreamInv'
<1> DEFINE s == sent[r]
           z == zone[r]
<1>1. /\ s \in Seq(Kinds) /\ batch[r] \in Seq(Kinds) /\ k[r] \in 0..Len(LookupOrder)
      /\ Fits(s \o batch[r], z, k[r])
    BY DEF StreamInv, StreamType, StreamOf, Stream
<1>2. CASE SendFails(r)
    <2>1. /\ pc' = [pc EXCEPT ![r] = "done"] /\ status' = [status EXCEPT ![r] = "error"]
          /\ batch' = [batch EXCEPT ![r] = <<>>] /\ UNCHANGED <<zone, k, sent, failed>>
        BY <1>2 DEF SendFails, Finish, Goto, given
    <2>2. /\ pc'[r] = "done" /\ status'[r] = "error" /\ batch'[r] = <<>> /\ sent'[r] = s
          /\ zone'[r] = z /\ k'[r] = k[r]
        BY <2>1 DEF StreamInv, StreamType
    <2>3. Stream(r)' = s
        BY <1>1, <2>2, ConcatEmptySeq DEF Stream
    <2>4. Fits(s, z, k[r])
        BY <1>1, FitsCut
    <2>5. StreamOf(r)'
        BY <2>2, <2>3, <2>4 DEF StreamOf
    <2>6. StreamType'
        BY <2>1, EmptySeq DEF StreamInv, StreamType
    <2> QED
        BY <2>1, <2>5, <2>6, StreamStep DEF StreamInv, StreamType
<1>3. CASE Return(r)
    <2>1. /\ pc[r] = "run" /\ batch[r] = <<>> /\ k[r] = Len(LookupOrder)
          /\ pc' = [pc EXCEPT ![r] = "done"] /\ status' = [status EXCEPT ![r] = "ok"]
          /\ UNCHANGED <<zone, k, batch, sent, failed>>
        BY <1>3 DEF Return, Finish, Goto, given
    <2>2. pc'[r] = "done" /\ status'[r] = "ok" /\ Stream(r)' = Stream(r)
        BY <2>1 DEF StreamInv, StreamType, Stream
    <2>3. failed[r] = {} => Stream(r) = Found(z, Len(LookupOrder))
        BY <2>1 DEF StreamInv, StreamOf
    <2>4. StreamOf(r)'
        BY <2>1, <2>2, <2>3 DEF StreamInv, StreamOf
    <2>5. StreamType'
        BY <2>1 DEF StreamInv, StreamType
    <2> QED
        BY <2>1, <2>4, <2>5, StreamStep DEF StreamInv, StreamType
<1> QED
    BY <1>2, <1>3

\* All the steps.
LEMMA StreamInductive == StreamInv /\ [Next]_vars => StreamInv'
<1> SUFFICES ASSUME StreamInv, [Next]_vars PROVE StreamInv'
    OBVIOUS
<1>1. ASSUME UNCHANGED StreamVars PROVE StreamInv'
    BY <1>1, StreamUnmoved DEF StreamVars, StreamInv, StreamType
<1>2. ASSUME NEW r \in Rpcs, Step(r) PROVE StreamInv'
    <2>1. CASE Start(r) \/ Pick(r) \/ Count(r)
        <3>1. /\ pc[r] \in {"start", "pick", "count"} /\ UNCHANGED <<zone, k, batch, sent, failed>>
              /\ \/ \E l \in {"pick", "count", "probe"} : Goto(r, l) /\ UNCHANGED status
                 \/ Finish(r, "error")
            BY <2>1 DEF Start, Pick, Count, given
        <3> QED
            BY <3>1, StreamBefore
    <2> QED
        BY <1>2, <2>1, StreamProbe, StreamLookup, StreamSend, StreamEnd DEF Step
<1>3. CASE UNCHANGED vars \/ StatsTick \/ StatsSwap \/ StatsStop \/ Stop \/ Idle
           \/ \E r \in Rpcs : ClientGone(r)
    <2>1. UNCHANGED StreamVars
        BY <1>3 DEF vars, given, StatsTick, StatsSwap, StatsStop, Stop, Idle, ClientGone, StreamVars
    <2> QED
        BY <1>1, <2>1
<1> QED
    BY <1>2, <1>3 DEF Next

(* What is streamed is a selection of what the name has, whatever failed ... *)
LEMMA OrderedStreams ==
    ASSUME StreamInv, NEW r \in Rpcs PROVE StreamInOrder(r)
<1>1. Stream(r) \in Seq(Kinds) /\ k[r] \in 0..Len(LookupOrder) /\ Fits(Stream(r), zone[r], k[r])
    BY ConcatProperties DEF StreamInv, StreamType, StreamOf, Stream
<1>2. Stream(r) = Only(Wanted(zone[r]), ToSet(Stream(r)))
    BY <1>1, FitsWanted
<1> QED
    BY <1>2 DEF StreamInOrder, Stream

(* ... and all of it if nothing did: no return of resolveStream but the    *)
(* one after the probe skips a lookup, and Send failures are errors.       *)
LEMMA CompleteStreams ==
    ASSUME StreamInv, NEW r \in Rpcs PROVE HealthyRpcIsComplete(r)
<1> SUFFICES ASSUME status[r] = "ok", failed[r] = {}, HasAddress(zone[r])
             PROVE  sent[r] = Wanted(zone[r])
    BY DEF HealthyRpcIsComplete, HasAddress
<1>1. Stream(r) = Found(zone[r], Len(LookupOrder)) /\ batch[r] = <<>> /\ sent[r] \in Seq(Kinds)
    BY DEF StreamInv, StreamType, StreamOf
<1>2. Stream(r) = sent[r]
    BY <1>1, ConcatEmptySeq DEF Stream
<1>3. Found(zone[r], Len(LookupOrder)) = Wanted(zone[r])
    <2>1. Len(LookupOrder) \in 0..Len(LookupOrder)
        BY OrderFacts
    <2> QED
        BY <2>1, FoundShape
<1> QED
    BY <1>1, <1>2, <1>3

(* StreamFaithful, for any number of RPCs, upstreams and lookups.  (emit   *)
(* and out.Send in resolveStream.)                                         *)
THEOREM FaithfulStreams == Spec => []StreamFaithful
<1>1. StreamInv => StreamFaithful
    BY OrderedStreams, CompleteStreams DEF StreamFaithful
<1> QED
    BY <1>1, StreamInit, StreamInductive, PTL DEF Spec
=============================================================================
