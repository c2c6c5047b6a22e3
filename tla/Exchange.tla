------------------------------ MODULE Exchange ------------------------------
(***************************************************************************)
(* One query to one name server: exchange in dns/dnsclient_unix.go with    *)
(* the UDP and TCP round trips it drives.  A query goes out over UDP; a    *)
(* reply with the TC bit sends it again over TCP.  Each network has a      *)
(* deadline of its own, cut short by the caller's context.  What arrives   *)
(* on the socket is arbitrary: the server's reply, a late or duplicated    *)
(* one, a reply to something else, or bytes that do not parse.             *)
(***************************************************************************)
EXTENDS Naturals

CONSTANTS
    Ids,        \* message ids
    Questions,  \* questions (name, type and class)
    Timeout,    \* cfg.timeout, in ticks of the model's clock
    Budgets     \* how long the caller's context may have left at the start

ASSUME ExchangeAssumption ==
    /\ Timeout \in Nat \ {0}
    /\ Budgets \subseteq Nat

\* A datagram or a TCP message: does it parse, its header's QR and TC bits,
\* its id and first question, and whether a second question follows.
Replies == [parses : BOOLEAN, response : BOOLEAN, id : Ids, question : Questions,
            tc : BOOLEAN, extra : BOOLEAN]

Errors == {"marshal", "dial", "write", "read", "timeout", "unmarshal", "invalid"}

NoReply == [err |-> "none"]

VARIABLES
    useTCP,    \* cfg.useTCP
    id,        \* id of the request
    question,  \* its question
    network,   \* the network of the current iteration
    phase,     \* "dial", "write", "read" or "done"
    conn,      \* a connection is open
    ctx,       \* the caller's context: "live" or "cancelled"
    budget,    \* when the caller's context expires
    clock,     \* time since exchange was called
    deadline,  \* deadline of the current network
    accepted,  \* history: replies a round trip has returned, by network
    result     \* what exchange returned: a reply or [err |-> ...]

query == <<useTCP, id, question, budget>>
vars == <<query, network, phase, conn, ctx, clock, deadline, accepted, result>>

Earlier(a, b) == IF a < b THEN a ELSE b

Init ==
    /\ useTCP \in BOOLEAN
    /\ id \in Ids
    /\ question \in Questions
    /\ budget \in Budgets
    /\ network = IF useTCP THEN "tcp" ELSE "udp"
    /\ phase = "dial"
    /\ conn = FALSE
    /\ ctx = "live"
    /\ clock = 0
    /\ deadline = Earlier(Timeout, budget)
    /\ accepted = [n \in {"udp", "tcp"} |-> {}]
    /\ result = NoReply

Return(r) == phase' = "done" /\ result' = r

Fail(err) == Return([err |-> err])

\* checkResponse, after Start and Question have parsed the message.
Matches_anyQuestion(r) == r.parses /\ r.response /\ r.id = id
Matches(r) == r.parses /\ r.response /\ r.id = id /\ r.question = question

-----------------------------------------------------------------------------
\* newRequest cannot pack the question, one with an empty label say: the call
\* ends before its first dial.
RequestFails ==
    /\ phase = "dial" /\ network = (IF useTCP THEN "tcp" ELSE "udp")
    /\ Fail("marshal")
    /\ UNCHANGED <<query, network, conn, ctx, clock, deadline, accepted>>

\* A dial needs a live context with time left; c.SetDeadline follows it.
Dial ==
    /\ phase = "dial" /\ ctx = "live" /\ clock < deadline
    /\ phase' = "write"
    /\ conn' = TRUE
    /\ UNCHANGED <<query, network, ctx, clock, deadline, accepted, result>>

\* Refused or unreachable, cancelled, or out of time: no connection to close.
DialFails ==
    /\ phase = "dial"
    /\ Fail("dial")
    /\ UNCHANGED <<query, network, conn, ctx, clock, deadline, accepted>>

Write ==
    /\ phase = "write" /\ clock < deadline
    /\ phase' = "read"
    /\ UNCHANGED <<query, network, conn, ctx, clock, deadline, accepted, result>>

WriteFails ==
    /\ phase = "write"
    /\ conn' = FALSE
    /\ Fail("write")
    /\ UNCHANGED <<query, network, ctx, clock, deadline, accepted>>

\* c.Read fails: an ICMP refusal, a TCP reset or early end of stream.
ReadFails_leak ==
    /\ phase = "read"
    /\ Fail("read")
    /\ UNCHANGED <<query, network, conn, ctx, clock, deadline, accepted>>
ReadFails ==
    /\ phase = "read"
    /\ conn' = FALSE
    /\ Fail("read")
    /\ UNCHANGED <<query, network, ctx, clock, deadline, accepted>>

ReadTimeout_continue ==
    /\ phase = "read" /\ clock = deadline
    /\ UNCHANGED vars
ReadTimeout ==
    /\ phase = "read" /\ clock = deadline
    /\ conn' = FALSE
    /\ Fail("timeout")
    /\ UNCHANGED <<query, network, ctx, clock, deadline, accepted>>

\* Over UDP a message that is not the reply is ignored; the wait goes on.
IgnoreUDP_rearm(r) ==
    /\ phase = "read" /\ network = "udp" /\ clock < deadline /\ ~Matches(r)
    /\ deadline' = clock + Timeout
    /\ UNCHANGED <<query, network, phase, conn, ctx, clock, accepted, result>>
IgnoreUDP_trustTC(r) ==
    /\ phase = "read" /\ network = "udp" /\ clock < deadline /\ ~Matches(r)
    /\ IF r.tc
          THEN /\ network' = "tcp" /\ phase' = "dial" /\ conn' = FALSE
               /\ deadline' = Earlier(clock + Timeout, budget)
          ELSE UNCHANGED <<network, phase, conn, deadline>>
    /\ UNCHANGED <<query, ctx, clock, accepted, result>>
IgnoreUDP(r) ==
    /\ phase = "read" /\ network = "udp" /\ clock < deadline /\ ~Matches(r)
    /\ UNCHANGED vars

\* Over TCP it ends the exchange.
RejectTCP(r) ==
    /\ phase = "read" /\ network = "tcp" /\ clock < deadline /\ ~Matches(r)
    /\ conn' = FALSE
    /\ Fail(IF r.parses THEN "invalid" ELSE "unmarshal")
    /\ UNCHANGED <<query, network, ctx, clock, deadline, accepted>>

\* The round trip returned r: SkipQuestion must be at the end of the section,
\* and a truncated UDP reply starts the TCP iteration under a fresh deadline.
Accept(r) ==
    /\ phase = "read" /\ clock < deadline /\ Matches(r)
    /\ conn' = FALSE
    /\ accepted' = [accepted EXCEPT ![network] = @ \cup {r}]
    /\ IF ~r.extra /\ r.tc /\ network = "udp"
          THEN /\ phase' = "dial"
               /\ network' = "tcp"
               /\ deadline' = Earlier(clock + Timeout, budget)
               /\ UNCHANGED result
          ELSE /\ IF r.extra THEN Fail("invalid") ELSE Return(r)
               /\ UNCHANGED <<network, deadline>>
    /\ UNCHANGED <<query, ctx, clock>>

-----------------------------------------------------------------------------
\* Time passes only while the exchange runs; a deadline wakes it at once.
Tick ==
    /\ phase # "done" /\ clock < deadline
    /\ clock' = clock + 1
    /\ UNCHANGED <<query, network, phase, conn, ctx, deadline, accepted, result>>

\* The caller cancels.  Only the dial looks: the socket has the deadline alone.
Cancel ==
    /\ phase # "done" /\ ctx = "live"
    /\ ctx' = "cancelled"
    /\ UNCHANGED <<query, network, phase, conn, clock, deadline, accepted, result>>

Done == phase = "done" /\ UNCHANGED vars

Expired == DialFails \/ WriteFails \/ ReadTimeout

Next ==
    \/ RequestFails \/ Dial \/ DialFails \/ Write \/ WriteFails \/ ReadFails \/ ReadTimeout
    \/ \E r \in Replies : IgnoreUDP(r) \/ RejectTCP(r) \/ Accept(r)
    \/ Tick \/ Cancel \/ Done

Spec == Init /\ [][Next]_vars

\* The clock runs, and a call on an expired deadline returns.  No reply, and
\* no end to the messages that are not the reply, is assumed.
FairSpec == Spec /\ WF_vars(Tick) /\ WF_vars(clock = deadline /\ Expired)

-----------------------------------------------------------------------------
(* The type invariant.  There is a result exactly when exchange returned.  *)
TypeOK ==
    /\ useTCP \in BOOLEAN /\ id \in Ids /\ question \in Questions
    /\ network \in {"udp", "tcp"} /\ phase \in {"dial", "write", "read", "done"}
    /\ conn \in BOOLEAN /\ ctx \in {"live", "cancelled"}
    /\ budget \in Budgets /\ clock \in Nat /\ deadline \in Nat
    /\ accepted \in [{"udp", "tcp"} -> SUBSET Replies]
    /\ result \in Replies \cup [err : Errors \cup {"none"}]
    /\ phase = "done" <=> result # NoReply

(* What exchange returns answers this query and nothing else: its id, its  *)
(* question, one question only, and never a truncated reply that came over *)
(* UDP, whatever else arrived on the sockets before it.                    *)
ReplyIsAnswer ==
    phase = "done" /\ result \in Replies =>
        /\ result.response /\ result.id = id /\ result.question = question
        /\ ~result.extra
        /\ result \in accepted[network]
        /\ result.tc => network = "tcp"

(* TCP is used only when the config asks for it or after this query's own  *)
(* reply came truncated over UDP; a stray truncated datagram does not      *)
(* trigger it.                                                             *)
TCPForAReason ==
    network = "tcp" /\ ~useTCP =>
        \E r \in accepted["udp"] : r.tc /\ r.id = id /\ r.question = question

(* Every connection is closed by the time exchange returns or goes on to   *)
(* the next network, on each of its error paths.                           *)
ConnectionClosed == phase \in {"dial", "done"} => ~conn

(* However many unrelated messages arrive, the wait ends: at most one      *)
(* timeout for each network tried, and never past the caller's deadline.   *)
WaitBounded ==
    /\ clock <= budget
    /\ clock <= IF useTCP \/ network = "udp" THEN Timeout ELSE 2 * Timeout

(* exchange returns, also when the server is silent and the socket is      *)
(* flooded with messages that do not match.                                *)
Returns == <>(phase = "done")

=============================================================================
