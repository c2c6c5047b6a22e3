--------------------------- MODULE ResolverService --------------------------
(***************************************************************************)
(* The gRPC service GetDNSRecords: internal/resolver/resolver.go.          *)
(*                                                                         *)
(* Each RPC picks an upstream from the pool, asks it for the addresses of  *)
(* the name, and unless that says the name does not exist asks for every   *)
(* other type in turn, streaming the records it gets.  RPCs run at the     *)
(* same time; they share the rotation cursor and the per-upstream counters *)
(* that the stats goroutine swaps out.  A lookup is one step here: what it *)
(* may return is what dns/golookup.go makes of what servers say of a name. *)
(***************************************************************************)
EXTENDS Naturals, FiniteSets, Sequences, SequencesExt, Filter

CONSTANTS
    Rpcs,         \* calls of GetDNSRecords
    NUp,          \* size of the pool; 0 stands for the system resolver
    Zones,        \* what may be true of a name, see Zone
    LookupOrder,  \* the lookups after the address probe, by type
    MaxFailures   \* an RPC's lookups fail only while fewer of them have failed

\* The order of the calls in resolveStream.
AllTypes ==
    <<"CNAME", "DNAME", "NS", "MX", "TXT", "SOA", "LOC", "HINFO", "RP", "AFSDB",
      "NAPTR", "KX", "SSHFP", "SVCB", "HTTPS", "CAA", "URI">>

\* The records of a name, one per type; its CNAME may point back to itself.
Zone == [exists : BOOLEAN, has : SUBSET ({"A", "AAAA"} \cup ToSet(AllTypes)),
         selfAlias : BOOLEAN]

ASSUME ServiceAssumption ==
    /\ IsFiniteSet(Rpcs) /\ NUp \in Nat /\ MaxFailures \in Nat
    /\ LookupOrder \in Seq(ToSet(AllTypes))
    /\ \A i, j \in DOMAIN LookupOrder : LookupOrder[i] = LookupOrder[j] => i = j
    /\ Zones \subseteq Zone
    /\ \A z \in Zones : z.has # {} => z.exists

Upstreams == 0..(NUp - 1)

NoUpstream == NUp

VARIABLES
    next,     \* the cursor s.next
    rpcs,     \* per upstream, the counter u.rpcs
    logger,   \* the stats goroutine: "wait", "swap" or "gone"
    lu,       \* its position in the pool
    logged,   \* history: per upstream, the sum of the values logged
    stopped,  \* the done channel is closed
    req,      \* per RPC, its Domain: "nil", "empty" or "named"
    zone,     \* per RPC, what is true of its name
    ctx,      \* per RPC, is the client still there
    pc,       \* per RPC: "start", "pick", "count", "probe", "run" or "done"
    up,       \* per RPC, the upstream picked
    k,        \* per RPC, how many of LookupOrder have been looked up
    batch,    \* per RPC, records looked up and not yet sent
    sent,     \* per RPC, the records sent
    failed,   \* history: per RPC, the types whose lookup failed
    status    \* per RPC: "none", "ok" or "error"

pool  == <<next, rpcs>>
stats == <<logger, lu, logged, stopped>>
given == <<req, zone>>
vars  == <<pool, stats, given, ctx, pc, up, k, batch, sent, failed, status>>

Init ==
    /\ next \in 0..NUp
    /\ rpcs = [u \in Upstreams |-> 0]
    /\ logger = (IF NUp = 0 THEN "gone" ELSE "wait")
    /\ lu = 0
    /\ logged = [u \in Upstreams |-> 0]
    /\ stopped = FALSE
    /\ req \in [Rpcs -> {"nil", "empty", "named"}]
    /\ zone \in [Rpcs -> Zones]
    /\ ctx = [r \in Rpcs |-> "live"]
    /\ pc = [r \in Rpcs |-> "start"]
    /\ up = [r \in Rpcs |-> NoUpstream]
    /\ k = [r \in Rpcs |-> 0]
    /\ batch = [r \in Rpcs |-> <<>>]
    /\ sent = [r \in Rpcs |-> <<>>]
    /\ failed = [r \in Rpcs |-> {}]
    /\ status = [r \in Rpcs |-> "none"]

Goto(r, label) == pc' = [pc EXCEPT ![r] = label]

Finish(r, s) == Goto(r, "done") /\ status' = [status EXCEPT ![r] = s]

-----------------------------------------------------------------------------
(* Which upstream: resolveStream's checks and pickResolver.                *)

Start(r) ==
    /\ pc[r] = "start"
    /\ IF req[r] = "named" THEN Goto(r, "pick") /\ UNCHANGED status ELSE Finish(r, "error")
    /\ UNCHANGED <<pool, stats, given, ctx, up, k, batch, sent, failed>>

\* s.next.Add(1)-1, modulo the pool.
Pick_byLoad(r) ==
    /\ pc[r] = "pick"
    /\ IF NUp = 0
       THEN Goto(r, "probe") /\ UNCHANGED up
       ELSE /\ \E u \in Upstreams : /\ \A v \in Upstreams : rpcs[u] <= rpcs[v]
                                    /\ up' = [up EXCEPT ![r] = u]
            /\ Goto(r, "count")
    /\ UNCHANGED <<pool, stats, given, ctx, k, batch, sent, failed, status>>
Pick(r) ==
    /\ pc[r] = "pick"
    /\ IF NUp = 0
       THEN Goto(r, "probe") /\ UNCHANGED <<next, up>>
       ELSE /\ up' = [up EXCEPT ![r] = next % NUp]
            /\ next' = next + 1
            /\ Goto(r, "count")
    /\ UNCHANGED <<rpcs, stats, given, ctx, k, batch, sent, failed, status>>

\* u.rpcs.Add(1), a second atomic step.
Count(r) ==
    /\ pc[r] = "count"
    /\ rpcs' = [rpcs EXCEPT ![up[r]] = @ + 1]
    /\ Goto(r, "probe")
    /\ UNCHANGED <<next, stats, given, ctx, up, k, batch, sent, failed, status>>

-----------------------------------------------------------------------------
(* Lookups.                                                                *)

\* What a lookup of type t may come to: its records; "no such host", for a
\* name that does not exist or has no record of the type; an answer that does
\* not parse; or any other failure (timeout, SERVFAIL, cancelled).
Results(r, t) ==
    {IF t \in zone[r].has THEN "records" ELSE "notfound"} \cup
    (IF Cardinality(failed[r]) < MaxFailures THEN {"garbled", "error"} ELSE {})

Failures == {"garbled", "error"}

\* goLookupIPCNAMEOrder on a rooted name: A, then AAAA.  A garbled answer
\* aborts it; otherwise records win, and of two errors the first is kept.
Probe(a, aaaa) ==
    IF "garbled" \in {a, aaaa} THEN "error"
    ELSE IF "records" \in {a, aaaa} THEN "records"
    ELSE a

\* The probe decides whether there is anything else to ask.
LookupIP(r) ==
    /\ pc[r] = "probe"
    /\ \E a \in Results(r, "A"), aaaa \in Results(r, "AAAA") :
          /\ failed' = [failed EXCEPT ![r] =
                @ \cup {t \in {"A", "AAAA"} : (IF t = "A" THEN a ELSE aaaa) \in Failures}]
          /\ batch' = [batch EXCEPT ![r] =
                IF Probe(a, aaaa) = "records"
                THEN Only(<<"A", "AAAA">>, zone[r].has \ failed'[r])
                ELSE <<>>]
          /\ IF Probe(a, aaaa) = "notfound"
             THEN Finish(r, "ok")
             ELSE Goto(r, "run") /\ UNCHANGED status
    /\ UNCHANGED <<pool, stats, given, ctx, up, k, sent>>

\* emit drops the error of a lookup; emitCNAME drops an alias to itself, too.
Lookup(r) ==
    /\ pc[r] = "run" /\ batch[r] = <<>> /\ k[r] < Len(LookupOrder)
    /\ LET t == LookupOrder[k[r] + 1]
       IN  \E o \in Results(r, t) :
              /\ failed' = [failed EXCEPT ![r] = IF o \in Failures THEN @ \cup {t} ELSE @]
              /\ batch' = [batch EXCEPT ![r] =
                    IF o = "records" /\ ~(t = "CNAME" /\ zone[r].selfAlias)
                    THEN <<t>> ELSE <<>>]
    /\ k' = [k EXCEPT ![r] = @ + 1]
    /\ UNCHANGED <<pool, stats, given, ctx, pc, up, sent, status>>

\* out.Send, one record at a time; it fails once the client is gone.
Send_firstOnly(r) ==
    /\ batch[r] # <<>>
    /\ sent' = [sent EXCEPT ![r] = Append(@, Head(batch[r]))]
    /\ batch' = [batch EXCEPT ![r] = <<>>]
    /\ UNCHANGED <<pool, stats, given, ctx, pc, up, k, failed, status>>
Send(r) ==
    /\ batch[r] # <<>> /\ ctx[r] = "live"
    /\ sent' = [sent EXCEPT ![r] = Append(@, Head(batch[r]))]
    /\ batch' = [batch EXCEPT ![r] = Tail(@)]
    /\ UNCHANGED <<pool, stats, given, ctx, pc, up, k, failed, status>>

SendFails_retry(r) ==
    /\ pc[r] = "run" /\ batch[r] # <<>> /\ ctx[r] = "gone"
    /\ UNCHANGED vars
SendFails(r) ==
    /\ pc[r] = "run" /\ batch[r] # <<>> /\ ctx[r] = "gone"
    /\ batch' = [batch EXCEPT ![r] = <<>>]
    /\ Finish(r, "error")
    /\ UNCHANGED <<pool, stats, given, ctx, up, k, sent, failed>>

Return(r) ==
    /\ pc[r] = "run" /\ batch[r] = <<>> /\ k[r] = Len(LookupOrder)
    /\ Finish(r, "ok")
    /\ UNCHANGED <<pool, stats, given, ctx, up, k, batch, sent, failed>>

-----------------------------------------------------------------------------
(* The stats goroutine and its stop function.                              *)

StatsTick ==
    /\ logger = "wait"
    /\ logger' = "swap"
    /\ lu' = 0
    /\ UNCHANGED <<pool, logged, stopped, given, ctx, pc, up, k, batch, sent, failed, status>>

\* u.rpcs.Swap(0), upstream by upstream.
StatsSwap_resetAll ==
    /\ logger = "swap"
    /\ logged' = [logged EXCEPT ![lu] = @ + rpcs[lu]]
    /\ rpcs' = IF lu + 1 = NUp THEN [u \in Upstreams |-> 0] ELSE rpcs
    /\ lu' = (lu + 1) % NUp
    /\ logger' = IF lu + 1 = NUp THEN "wait" ELSE "swap"
    /\ UNCHANGED <<next, stopped, given, ctx, pc, up, k, batch, sent, failed, status>>
StatsSwap ==
    /\ logger = "swap"
    /\ logged' = [logged EXCEPT ![lu] = @ + rpcs[lu]]
    /\ rpcs' = [rpcs EXCEPT ![lu] = 0]
    /\ lu' = (lu + 1) % NUp
    /\ logger' = IF lu + 1 = NUp THEN "wait" ELSE "swap"
    /\ UNCHANGED <<next, stopped, given, ctx, pc, up, k, batch, sent, failed, status>>

StatsStop ==
    /\ logger = "wait" /\ stopped
    /\ logger' = "gone"
    /\ UNCHANGED <<pool, lu, logged, stopped, given, ctx, pc, up, k, batch, sent, failed, status>>

Stop ==
    /\ ~stopped
    /\ stopped' = TRUE
    /\ UNCHANGED <<pool, logger, lu, logged, given, ctx, pc, up, k, batch, sent, failed, status>>

-----------------------------------------------------------------------------
\* The client cancels or its connection breaks.
ClientGone(r) ==
    /\ ctx[r] = "live" /\ pc[r] # "done"
    /\ ctx' = [ctx EXCEPT ![r] = "gone"]
    /\ UNCHANGED <<pool, stats, given, pc, up, k, batch, sent, failed, status>>

Step(r) ==
    \/ Start(r) \/ Pick(r) \/ Count(r) \/ LookupIP(r) \/ Lookup(r)
    \/ Send(r) \/ SendFails(r) \/ Return(r)

Idle == (\A r \in Rpcs : pc[r] = "done") /\ UNCHANGED vars

Next ==
    \/ \E r \in Rpcs : Step(r) \/ ClientGone(r)
    \/ StatsTick \/ StatsSwap \/ StatsStop \/ Stop \/ Idle

Spec == Init /\ [][Next]_vars

\* Every lookup returns, and handlers are scheduled.
FairSpec == Spec /\ \A r \in Rpcs : WF_vars(Step(r))

-----------------------------------------------------------------------------
Routed(u) == {r \in Rpcs : up[r] = u}

(* No RPC is lost from the statistics or counted twice, whatever RPCs the  *)
(* stats goroutine overlaps: what was logged, what is still in the counter *)
(* and the RPCs between their two atomic steps add up to the RPCs routed.  *)
StatsConserved ==
    \A u \in Upstreams :
        logged[u] + rpcs[u] + Cardinality({r \in Routed(u) : pc[r] = "count"})
            = Cardinality(Routed(u))

(* The pool is used evenly: concurrent RPCs included, no upstream gets two *)
(* more of them than another.                                              *)
PoolBalanced ==
    \A u, v \in Upstreams : Cardinality(Routed(u)) <= Cardinality(Routed(v)) + 1

\* What a complete stream of the name holds, in order.
Wanted(z) ==
    Only(<<"A", "AAAA">> \o LookupOrder, {t \in z.has : ~(t = "CNAME" /\ z.selfAlias)})

Skipped(r) == status[r] = "ok" /\ k[r] < Len(LookupOrder)

\* Failed lookups and clients that go away leave gaps, but the stream never
\* repeats a record, changes the order or makes one up.
StreamInOrder(r) ==
    LET s == sent[r] \o batch[r]
    IN  s = Only(Wanted(zone[r]), ToSet(s))

\* An RPC that returns OK, none of whose lookups failed, for a name with an
\* address has streamed every record of the name.
HealthyRpcIsComplete(r) ==
    status[r] = "ok" /\ failed[r] = {} /\ zone[r].has \cap {"A", "AAAA"} # {}
        => sent[r] = Wanted(zone[r])

(* Whatever lookups fail and whenever the client goes, a stream holds      *)
(* records of the name, each once and in order; without a failure, and if  *)
(* the name has an address, all of them.  (resolveStream.)                 *)
StreamFaithful == \A r \in Rpcs : StreamInOrder(r) /\ HealthyRpcIsComplete(r)

(* Every RPC returns, whatever its lookups come to.                        *)
RpcReturns == \A r \in Rpcs : <>(pc[r] = "done")

(* resolver.go:20-23 says of the probe: "if it returns NXDOMAIN, the name  *)
(* doesn't exist for any type (RFC 2308), so the remaining 17 lookups are  *)
(* skipped".  Lookups would be skipped only for a name that doesn't exist; *)
(* where one exists without a record to stream, skipping loses nothing.    *)
SkipMeansNoName ==
    \A r \in Rpcs : Skipped(r) /\ Wanted(zone[r]) # <<>> => ~zone[r].exists

=============================================================================
