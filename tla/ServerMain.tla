----------------------------- MODULE ServerMain ------------------------------
(***************************************************************************)
(* The life of a server process: cmd/server, cmd/rdap-server and a program *)
(* that composes both services with service.Register, around the RPCs and  *)
(* the statistics of ResolverService.                                      *)
(*                                                                         *)
(* Three goroutines meet here: main, which sets up and blocks in Serve;    *)
(* the one that waits for a signal, then stops the statistics and the gRPC *)
(* server; and the statistics.  grpc.Server is external: GracefulStop      *)
(* refuses new connections, lets the RPCs finish and ends Serve with nil;  *)
(* a Serve that comes after it returns ErrServerStopped.  The RPCs of the  *)
(* RDAPResolver are RdapLookup's and only run and return here.             *)
(***************************************************************************)
EXTENDS ResolverService

VARIABLES
    kind,  \* "resolver", "rdap" or "composed"
    phase, \* main: "boot", "listen", "setup", "serve", "serving", or how the process
           \* ended: "exit 0", "exit 1" or "killed"
    table, \* the RDAP bootstrap table is loaded
    sig,   \* the signal goroutine: "none", "spawned", "waiting", "stopping",
           \* "graceful" or "draining"
    srv    \* the grpc.Server: "new", "serving", "draining" or "stopped"

process == <<kind, phase, table, sig, srv>>
allVars == <<vars, process>>

Ended == phase \in {"exit 0", "exit 1", "killed"}

\* Goroutines run while the process does.
MainInit ==
    /\ Init
    /\ kind \in {"resolver", "rdap", "composed"}
    /\ phase = (IF kind = "resolver" THEN "listen" ELSE "boot")
    /\ table = FALSE /\ sig = "none" /\ srv = "new"

-----------------------------------------------------------------------------
(* main.                                                                   *)

\* NewBootstrap, within its timeout: rdap-server gives up without the table,
\* Register goes on without the RDAPResolver.
Bootstrap ==
    /\ phase = "boot"
    /\ \/ table' = TRUE /\ phase' = "listen"
       \/ table' = FALSE /\ phase' = IF kind = "rdap" THEN "exit 1" ELSE "listen"
    /\ UNCHANGED <<vars, kind, sig, srv>>

Listen ==
    /\ phase = "listen"
    /\ phase' \in {"setup", "exit 1"}
    /\ UNCHANGED <<vars, kind, table, sig, srv>>

\* The services are registered, the statistics start, the goroutine is spawned.
Setup ==
    /\ phase = "setup"
    /\ phase' = "serve" /\ sig' = "spawned"
    /\ UNCHANGED <<vars, kind, table, srv>>

Serve_anew ==
    /\ phase = "serve"
    /\ phase' = "serving" /\ srv' = "serving"
    /\ UNCHANGED <<vars, kind, table, sig>>
Serve ==
    /\ phase = "serve"
    /\ IF srv = "new" THEN phase' = "serving" /\ srv' = "serving"
                      ELSE phase' = "exit 1" /\ UNCHANGED srv
    /\ UNCHANGED <<vars, kind, table, sig>>

\* Serve returns an error of the listener, and log.Fatalf does not wait.
AcceptFails ==
    /\ phase = "serving" /\ srv = "serving"
    /\ phase' = "exit 1"
    /\ UNCHANGED <<vars, kind, table, sig, srv>>

ServeReturns ==
    /\ phase = "serving" /\ srv = "stopped"
    /\ phase' = "exit 0"
    /\ UNCHANGED <<vars, kind, table, sig, srv>>

-----------------------------------------------------------------------------
(* The signal goroutine.                                                   *)

Notify ==
    /\ sig = "spawned"
    /\ sig' = "waiting"
    /\ UNCHANGED <<vars, kind, phase, table, srv>>

\* SIGINT or SIGTERM: until signal.Notify it kills; a second one is ignored.
Signal ==
    /\ sig \in {"none", "spawned", "waiting"}
    /\ IF sig = "waiting" THEN sig' = "stopping" /\ UNCHANGED phase
                          ELSE phase' = "killed" /\ UNCHANGED sig
    /\ UNCHANGED <<vars, kind, table, srv>>

StopStats ==
    /\ sig = "stopping"
    /\ IF kind = "resolver" THEN Stop ELSE UNCHANGED vars
    /\ sig' = "graceful"
    /\ UNCHANGED <<kind, phase, table, srv>>

GracefulStop_atOnce ==
    /\ sig = "graceful"
    /\ sig' = "draining" /\ srv' = "stopped"
    /\ UNCHANGED <<vars, kind, phase, table>>
GracefulStop ==
    /\ sig = "graceful"
    /\ sig' = "draining"
    /\ srv' = IF srv = "serving" THEN "draining" ELSE "stopped"
    /\ UNCHANGED <<vars, kind, phase, table>>

Drained ==
    /\ srv = "draining" /\ \A r \in Rpcs : pc[r] \in {"start", "done"}
    /\ srv' = "stopped"
    /\ UNCHANGED <<vars, kind, phase, table, sig>>

-----------------------------------------------------------------------------
(* RPCs.  One may still arrive on an open connection while it drains.      *)

Accept(r) ==
    /\ srv \in {"serving", "draining"}
    /\ kind # "rdap" /\ Start(r)
    /\ UNCHANGED process

\* An RPC of the RDAPResolver: unimplemented where it is not registered.
AcceptRdap(r) ==
    /\ srv \in {"serving", "draining"} /\ kind # "resolver" /\ pc[r] = "start"
    /\ IF table THEN Goto(r, "rdap") /\ UNCHANGED status ELSE Finish(r, "error")
    /\ UNCHANGED <<pool, stats, given, ctx, up, k, batch, sent, failed, process>>

RdapReturns(r) ==
    /\ pc[r] = "rdap"
    /\ \E s \in {"ok", "error"} : Finish(r, s)
    /\ UNCHANGED <<pool, stats, given, ctx, up, k, batch, sent, failed, process>>

\* The steps of an RPC of the DNSResolver under way.
Work(r) ==
    /\ Pick(r) \/ Count(r) \/ LookupIP(r) \/ Lookup(r) \/ Send(r) \/ SendFails(r) \/ Return(r)
    /\ UNCHANGED process

Statistics ==
    /\ kind = "resolver" /\ phase \in {"serve", "serving"}
    /\ StatsTick \/ StatsSwap \/ StatsStop
    /\ UNCHANGED process

Main     == Bootstrap \/ Listen \/ Setup \/ Serve \/ ServeReturns
Stopping == Notify \/ StopStats \/ GracefulStop \/ Drained

MainNext ==
    \/ /\ ~Ended
       /\ \/ Main \/ AcceptFails \/ Stopping \/ Signal \/ Statistics
          \/ \E r \in Rpcs : \/ Accept(r) \/ AcceptRdap(r) \/ Work(r) \/ RdapReturns(r)
                              \/ (ClientGone(r) /\ UNCHANGED process)
    \/ Ended /\ UNCHANGED allVars

\* Goroutines are scheduled, the bootstrap fetch has its timeout, and the lookups
\* of a DNS RPC return.  An RDAP lookup has no timeout of its own.
MainSpec ==
    /\ MainInit /\ [][MainNext]_allVars
    /\ WF_allVars(~Ended /\ Main) /\ WF_allVars(~Ended /\ Stopping)
    /\ \A r \in Rpcs : WF_allVars(~Ended /\ Work(r))

-----------------------------------------------------------------------------
(* A process that ends with status 0 was asked to, has cut off no RPC it   *)
(* had accepted, and its statistics were stopped first.  (GracefulStop in  *)
(* main of cmd/server and cmd/rdap-server.)                                *)
DrainedBeforeExit ==
    phase = "exit 0" =>
        /\ \A r \in Rpcs : pc[r] \in {"start", "done"}
        /\ sig = "draining" /\ (kind = "resolver" => stopped)

(* A signal that does not kill the process ends it, DNS RPCs under way and *)
(* arriving late, a signal before Serve and failed startups included; only *)
(* an RDAP lookup that never comes back keeps it from ending.              *)
ShutsDown ==
    (\A r \in Rpcs : []<>(pc[r] # "rdap")) => (sig = "stopping" ~> Ended)
=============================================================================
