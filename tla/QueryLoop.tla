----------------------------- MODULE QueryLoop ------------------------------
(***************************************************************************)
(* The query loop: tryOneName in dns/dnsclient_unix.go.  It asks the       *)
(* servers of one dnsConfig in turn, all of them attempts times, until one *)
(* answers or denies the name.  Lookups that share the config share its    *)
(* rotation counter soffset (serverOffset in dns/dnsconfig.go).            *)
(***************************************************************************)
EXTENDS Naturals, FiniteSets, Reply

CONSTANTS
    Lookups,   \* calls of tryOneName that share a config
    N,         \* number of servers
    Attempts,  \* cfg.attempts
    Rotate,    \* cfg.rotate
    Width,     \* width of the counter in bits: 32 in the code
    Outcomes   \* what exchange may return, see below

\* A network or protocol error, or a reply.  Socket-level errors are *net.OpError.
Exchanges ==
    [socket : BOOLEAN] \cup [reply : Replies]

ASSUME LoopAssumption ==
    /\ N \in Nat \ {0} /\ Attempts \in Nat \ {0} /\ Width \in Nat
    /\ Rotate \in BOOLEAN
    /\ Outcomes \subseteq Exchanges

Servers == 0..(N - 1)

Failures == {"temporary", "permanent"}

VARIABLES
    soffset,  \* cfg.soffset
    pc,       \* per lookup: "offset", "ask" or "done"
    off,      \* its serverOffset
    i, j,     \* its loop variables
    lastErr,  \* its lastErr
    res,      \* what it returned
    asked     \* history: the servers it asked, with what came of it

vars == <<soffset, pc, off, i, j, lastErr, res, asked>>

\* Other lookups have moved the counter before; it is a uint32 and wraps.
Init ==
    /\ soffset \in IF Rotate THEN 0..(2^Width - 1) ELSE {0}
    /\ pc = [l \in Lookups |-> "offset"]
    /\ off = [l \in Lookups |-> 0]
    /\ i = [l \in Lookups |-> 0]
    /\ j = [l \in Lookups |-> 0]
    /\ lastErr = [l \in Lookups |-> "none"]
    /\ res = [l \in Lookups |-> "none"]
    /\ asked = [l \in Lookups |-> <<>>]

\* atomic.AddUint32(&c.soffset, 1) - 1, when rotating.
TakeOffset_racy(l) ==
    /\ pc[l] = "offset"
    /\ \E o \in {soffset, (soffset + 2^Width - 1) % 2^Width} :
           off' = [off EXCEPT ![l] = IF Rotate THEN o ELSE 0]
    /\ soffset' = IF Rotate THEN (soffset + 1) % 2^Width ELSE soffset
    /\ pc' = [pc EXCEPT ![l] = "ask"]
    /\ UNCHANGED <<i, j, lastErr, res, asked>>
TakeOffset(l) ==
    /\ pc[l] = "offset"
    /\ off' = [off EXCEPT ![l] = IF Rotate THEN soffset ELSE 0]
    /\ soffset' = IF Rotate THEN (soffset + 1) % 2^Width ELSE soffset
    /\ pc' = [pc EXCEPT ![l] = "ask"]
    /\ UNCHANGED <<i, j, lastErr, res, asked>>

\* cfg.servers[(serverOffset+j)%sLen], in uint32 arithmetic.
Server(l) == ((off[l] + j[l]) % 2^Width) % N

\* How newDNSError and the loop sort an outcome: only socket-level errors and
\* a server's own SERVFAIL are temporary.
Judge(o) ==
    IF "socket" \in DOMAIN o THEN IF o.socket THEN "temporary" ELSE "permanent"
    ELSE LET v == Verdict(o.reply, QType)
         IN  IF v \in Conclusive \cup {"temporary"} THEN v ELSE "permanent"

Return(l, r) ==
    /\ res' = [res EXCEPT ![l] = r]
    /\ pc' = [pc EXCEPT ![l] = "done"]
    /\ UNCHANGED <<i, j>>

\* continue: the next server, the next round, or out of both loops.
Advance_once(l, err) ==
    IF j[l] + 1 < N
    THEN /\ j' = [j EXCEPT ![l] = @ + 1]
         /\ UNCHANGED <<i, pc, res>>
    ELSE Return(l, err)
Advance_early(l, err) ==
    CASE j[l] + 1 < N - 1 ->
            /\ j' = [j EXCEPT ![l] = @ + 1]
            /\ UNCHANGED <<i, pc, res>>
      [] j[l] + 1 >= N - 1 /\ i[l] + 1 < Attempts ->
            /\ i' = [i EXCEPT ![l] = @ + 1]
            /\ j' = [j EXCEPT ![l] = 0]
            /\ UNCHANGED <<pc, res>>
      [] OTHER -> Return(l, err)
Advance(l, err) ==
    CASE j[l] + 1 < N ->
            /\ j' = [j EXCEPT ![l] = @ + 1]
            /\ UNCHANGED <<i, pc, res>>
      [] j[l] + 1 = N /\ i[l] + 1 < Attempts ->
            /\ i' = [i EXCEPT ![l] = @ + 1]
            /\ j' = [j EXCEPT ![l] = 0]
            /\ UNCHANGED <<pc, res>>
      [] OTHER -> Return(l, err)

\* One exchange and what follows it in the loop body.
Ask(l, o) ==
    LET v == Judge(o)
    IN  /\ pc[l] = "ask"
        /\ asked' = [asked EXCEPT ![l] = Append(@, <<Server(l), v>>)]
        /\ IF v \in Conclusive
              THEN Return(l, v) /\ UNCHANGED lastErr
              ELSE lastErr' = [lastErr EXCEPT ![l] = v] /\ Advance(l, v)
        /\ UNCHANGED <<soffset, off>>

Step(l) == TakeOffset(l) \/ \E o \in Outcomes : Ask(l, o)

Done == (\A l \in Lookups : pc[l] = "done") /\ UNCHANGED vars

Next == (\E l \in Lookups : Step(l)) \/ Done

Spec == Init /\ [][Next]_vars

-----------------------------------------------------------------------------
(* The type invariant: the loop indices stay in the loops' bounds and the  *)
(* server index in the slice.                                              *)
TypeOK ==
    /\ soffset \in 0..(2^Width - 1)
    /\ pc \in [Lookups -> {"offset", "ask", "done"}]
    /\ off \in [Lookups -> 0..(2^Width - 1)]
    /\ i \in [Lookups -> 0..(Attempts - 1)] /\ j \in [Lookups -> Servers]
    /\ lastErr \in [Lookups -> Failures \cup {"none"}]
    /\ res \in [Lookups -> Failures \cup Conclusive \cup {"none"}]
    /\ asked \in [Lookups -> Seq(Servers \X (Failures \cup Conclusive))]
    /\ \A l \in Lookups : pc[l] = "done" <=> res[l] # "none"

Times(l, s) == Cardinality({k \in DOMAIN asked[l] : asked[l][k][1] = s})

(* A lookup that reports a failure has asked every server of the config,   *)
(* each of them attempts times, and every time in vain: one good server is *)
(* enough, wherever in the rotation the lookup began.  And it asks in      *)
(* rounds: none is asked again while another still waits for its turn, so  *)
(* a dead server costs each round one timeout.  tryOneName does so for a   *)
(* resolver with StrictErrors, too, although net_helpers.go:91-94 says     *)
(* that field makes it abort after a temporary error "instead of trying    *)
(* the next server": the loop does not read it.                            *)
EveryServerTried ==
    \A l \in Lookups :
        /\ res[l] \in Failures => \A s \in Servers : Times(l, s) = Attempts
        /\ \A s, t \in Servers : Times(l, s) <= Times(l, t) + 1

\* The lookups that began with server s.
StartedAt(s) ==
    Cardinality({l \in Lookups : Len(asked[l]) > 0 /\ asked[l][1][1] = s})

(* With rotate, lookups that run at the same time spread: once all have    *)
(* begun, no server was first in line for two more of them than another.   *)
RotationBalanced ==
    Rotate /\ (\A l \in Lookups : asked[l] # <<>>) =>
        \A s, t \in Servers : StartedAt(s) <= StartedAt(t) + 1

(* The loop keeps the promise of NameQuery: nothing is asked after a       *)
(* conclusive reply, and a failure is reported only when all have failed,  *)
(* of a resolver with StrictErrors as of any other (see EveryServerTried). *)
Promise ==
    INSTANCE NameQuery WITH heard <- [l \in Lookups |-> ToSet(asked[l])]

ImplementsNameQuery == Promise!Spec

=============================================================================
