--------------------------- MODULE ResolverConfig ---------------------------
(***************************************************************************)
(* The cached /etc/resolv.conf of the DNS client: resolverConfig in        *)
(* dns/dnsclient_unix.go and the file reader in dns/dnsconfig_unix.go.     *)
(*                                                                         *)
(* Every lookup calls getSystemDNSConfig.  The first one parses the file   *)
(* under a sync.Once; later ones may re-check it, one at a time (a         *)
(* one-slot channel used as a try-lock) and at most once per five seconds, *)
(* and re-read it when its modification time differs from the cached one.  *)
(* Lookups run concurrently with each other, with the clock and with       *)
(* whoever edits the file.                                                 *)
(***************************************************************************)
EXTENDS Naturals

CONSTANTS
    Callers,      \* concurrent lookups
    Bodies,       \* parsed contents resolv.conf may have
    NoReload,     \* the bodies that hold "options no-reload"
    Defaults,     \* what dnsReadConfig returns when the file cannot be read
    Stamps,       \* modification times
    ZeroTime,     \* time.Time{}: no modification time
    Nil,          \* the atomic pointer before the first Store
    Recheck,      \* the five seconds, in ticks of the model's clock
    MaxFaults     \* bound on transient I/O failures of stat, open and read

ASSUME ConfigAssumption ==
    /\ Defaults \in Bodies
    /\ NoReload \subseteq Bodies \ {Defaults}
    /\ ZeroTime \notin Stamps
    /\ Recheck \in Nat \ {0}
    /\ MaxFaults \in Nat

\* A file, and a dnsConfig, are told apart by modification time and content.
Configs == [stamp : Stamps \cup {ZeroTime}, body : Bodies]

Absent == [stamp |-> ZeroTime, body |-> Defaults]

ASSUME NilAssumption == Nil \notin Configs

VARIABLES
    file,    \* resolv.conf on disk; Absent when there is none
    used,    \* modification times revisions of the file have carried
    reused,  \* history: two revisions have carried the same one
    once,    \* initOnce: "new", "running" or "done"
    sema,    \* conf.ch holds its one token
    age,     \* time since lastChecked, saturating at Recheck
    conf,    \* conf.dnsConfig, the atomic pointer
    opened,  \* per caller, the open file as fstat saw it; Absent when closed
    pc,      \* per caller, where it is in getSystemDNSConfig
    faults,  \* transient I/O failures so far
    quiet,   \* history: file untouched, and no failure, since the last check
    partial  \* history: reading the file for the config in force was cut short

disk == <<file, used, reused>>
vars == <<disk, once, sema, age, conf, partial, opened, pc, faults, quiet>>

caches == <<once, sema, age, conf, partial>>

Checking == {"check", "stat", "open", "scan", "release"}

Init ==
    /\ file \in [stamp : Stamps, body : Bodies] \cup {Absent}
    /\ used = {file.stamp} \ {ZeroTime}
    /\ reused = FALSE
    /\ once = "new"
    /\ sema = FALSE
    /\ age = 0
    /\ conf = Nil
    /\ opened = [c \in Callers |-> Absent]
    /\ pc = [c \in Callers |-> "idle"]
    /\ faults = 0
    /\ quiet = TRUE
    /\ partial = FALSE

Goto(c, label) == pc' = [pc EXCEPT ![c] = label]

Fault == faults < MaxFaults /\ faults' = faults + 1 /\ quiet' = FALSE

-----------------------------------------------------------------------------
(* getSystemDNSConfig and tryUpdate.                                       *)

Call(c) ==
    /\ pc[c] = "idle"
    /\ Goto(c, "once")
    /\ UNCHANGED <<disk, caches, opened, faults, quiet>>

\* initOnce.Do: the first caller runs init ...
OnceFirst(c) ==
    /\ pc[c] = "once" /\ once = "new"
    /\ once' = "running"
    /\ quiet' = TRUE
    /\ Goto(c, "open")
    /\ UNCHANGED <<disk, sema, age, conf, partial, opened, faults>>

\* ... and every other caller waits until init has returned.
OnceDone_flagOnly(c) ==
    /\ pc[c] = "once" /\ once # "new"
    /\ Goto(c, "reload")
    /\ UNCHANGED <<disk, caches, opened, faults, quiet>>
OnceDone(c) ==
    /\ pc[c] = "once" /\ once = "done"
    /\ Goto(c, "reload")
    /\ UNCHANGED <<disk, caches, opened, faults, quiet>>

ReloadAllowed(c) ==
    /\ pc[c] = "reload"
    /\ Goto(c, IF conf.body \in NoReload THEN "load" ELSE "acquire")
    /\ UNCHANGED <<disk, caches, opened, faults, quiet>>

TryAcquire_unguarded(c) ==
    /\ pc[c] = "acquire"
    /\ sema' = TRUE
    /\ Goto(c, "check")
    /\ UNCHANGED <<disk, once, age, conf, partial, opened, faults, quiet>>
TryAcquire_blocking(c) ==
    /\ pc[c] = "acquire" /\ ~sema
    /\ sema' = TRUE
    /\ Goto(c, "check")
    /\ UNCHANGED <<disk, once, age, conf, partial, opened, faults, quiet>>
TryAcquire(c) ==
    /\ pc[c] = "acquire"
    /\ sema' = TRUE
    /\ Goto(c, IF sema THEN "load" ELSE "check")
    /\ UNCHANGED <<disk, once, age, conf, partial, opened, faults, quiet>>

CheckAge_noRelease(c) ==
    /\ pc[c] = "check"
    /\ IF age < Recheck
          THEN Goto(c, "load") /\ UNCHANGED <<age, quiet>>
          ELSE Goto(c, "stat") /\ age' = 0 /\ quiet' = TRUE
    /\ UNCHANGED <<disk, once, sema, conf, partial, opened, faults>>
CheckAge(c) ==
    /\ pc[c] = "check"
    /\ IF age < Recheck
          THEN Goto(c, "release") /\ UNCHANGED <<age, quiet>>
          ELSE Goto(c, "stat") /\ age' = 0 /\ quiet' = TRUE
    /\ UNCHANGED <<disk, once, sema, conf, partial, opened, faults>>

\* os.Stat, whose failure leaves the zero time, and the comparison.
Stat(c) ==
    /\ pc[c] = "stat"
    /\ \/ /\ Goto(c, IF file.stamp = conf.stamp THEN "release" ELSE "open")
          /\ UNCHANGED <<faults, quiet>>
       \/ /\ Fault
          /\ Goto(c, IF ZeroTime = conf.stamp THEN "release" ELSE "open")
    /\ UNCHANGED <<disk, caches, opened>>

\* The deferred releaseSema.
Release(c) ==
    /\ pc[c] = "release"
    /\ sema' = FALSE
    /\ Goto(c, "load")
    /\ UNCHANGED <<disk, once, age, conf, partial, opened, faults, quiet>>

\* The lookup goes on with whatever the pointer holds now.
Load(c) ==
    /\ pc[c] = "load"
    /\ Goto(c, "idle")
    /\ UNCHANGED <<disk, caches, opened, faults, quiet>>

-----------------------------------------------------------------------------
(* dnsReadConfig, called by init and by tryUpdate, and the Store after it. *)

\* init also sets lastChecked and makes the channel before the Once is done.
Store(c, cfg, cut) ==
    /\ conf' = cfg
    /\ partial' = cut
    /\ IF once = "running"
          THEN once' = "done" /\ age' = 0 /\ Goto(c, "reload")
          ELSE UNCHANGED <<once, age>> /\ Goto(c, "release")
    /\ UNCHANGED sema

Open(c) ==
    /\ pc[c] = "open" /\ file.stamp # ZeroTime
    /\ opened' = [opened EXCEPT ![c] = file]
    /\ Goto(c, "scan")
    /\ UNCHANGED <<disk, caches, faults, quiet>>

OpenFails(c) ==
    /\ pc[c] = "open"
    /\ \/ file.stamp = ZeroTime /\ UNCHANGED <<faults, quiet>>
       \/ file.stamp # ZeroTime /\ Fault
    /\ Store(c, Absent, FALSE)
    /\ UNCHANGED <<disk, opened>>

\* The scan follows the fstat.  It reads the file fstat saw, also when that
\* was renamed over or removed since, or what an edit in place has put there.
Readable(c) ==
    {opened[c].body} \cup (IF file = Absent THEN {} ELSE {file.body})

Scan_fstatLast(c) ==
    /\ pc[c] = "scan"
    /\ opened' = [opened EXCEPT ![c] = Absent]
    /\ \E b \in Readable(c) : Store(c, [stamp |-> file.stamp, body |-> b], FALSE)
    /\ UNCHANGED <<disk, faults, quiet>>
Scan_noStamp(c) ==
    /\ pc[c] = "scan"
    /\ opened' = [opened EXCEPT ![c] = Absent]
    /\ \E b \in Readable(c) : Store(c, [stamp |-> ZeroTime, body |-> b], FALSE)
    /\ UNCHANGED <<disk, faults, quiet>>
Scan(c) ==
    /\ pc[c] = "scan"
    /\ opened' = [opened EXCEPT ![c] = Absent]
    /\ \E b \in Readable(c) : Store(c, [stamp |-> opened[c].stamp, body |-> b], FALSE)
    /\ UNCHANGED <<disk, faults, quiet>>

\* scanner.Err is not looked at: after a failed read the lines before it are
\* the config, in which a no-reload may be missing.
ScanCut(c) ==
    /\ pc[c] = "scan" /\ Fault
    /\ opened' = [opened EXCEPT ![c] = Absent]
    /\ \E b \in Readable(c) \cup (Bodies \ NoReload) :
          Store(c, [stamp |-> opened[c].stamp, body |-> b], TRUE)
    /\ UNCHANGED disk

-----------------------------------------------------------------------------
(* The environment: the clock and whoever edits the file.                  *)

Tick ==
    /\ once = "done" /\ age < Recheck
    /\ age' = age + 1
    /\ UNCHANGED <<disk, once, sema, conf, partial, opened, pc, faults, quiet>>

Write(b, s) ==
    /\ file' = [stamp |-> s, body |-> b]
    /\ used' = used \cup {s}
    /\ reused' = (reused \/ s \in used)
    /\ quiet' = FALSE
    /\ UNCHANGED <<caches, opened, pc, faults>>

Delete ==
    /\ file # Absent
    /\ file' = Absent
    /\ quiet' = FALSE
    /\ UNCHANGED <<used, reused, caches, opened, pc, faults>>

-----------------------------------------------------------------------------
Step(c) ==
    \/ OnceFirst(c) \/ OnceDone(c) \/ ReloadAllowed(c) \/ TryAcquire(c)
    \/ CheckAge(c) \/ Stat(c) \/ Open(c) \/ OpenFails(c) \/ Scan(c)
    \/ ScanCut(c) \/ Release(c) \/ Load(c)

Next ==
    \/ \E c \in Callers : Call(c) \/ Step(c)
    \/ \E b \in Bodies, s \in Stamps : Write(b, s)
    \/ Delete
    \/ Tick

Spec == Init /\ [][Next]_vars

\* Goroutines are scheduled, the clock runs and lookups keep arriving (an
\* idle server re-reads nothing); nobody has to edit the file.
Fairness ==
    /\ \A c \in Callers : WF_vars(Step(c)) /\ WF_vars(Call(c))
    /\ WF_vars(Tick)

FairSpec == Spec /\ Fairness

-----------------------------------------------------------------------------
(* The type invariant.  Once init has returned the pointer holds a config. *)
TypeOK ==
    /\ file \in Configs /\ used \subseteq Stamps /\ reused \in BOOLEAN
    /\ once \in {"new", "running", "done"}
    /\ sema \in BOOLEAN /\ age \in 0..Recheck
    /\ conf \in Configs \cup {Nil}
    /\ once = "done" => conf \in Configs
    /\ opened \in [Callers -> Configs]
    /\ pc \in [Callers -> {"idle", "once", "reload", "acquire", "load"} \cup Checking]
    /\ faults \in 0..MaxFaults /\ quiet \in BOOLEAN /\ partial \in BOOLEAN

(* After init at most one lookup is between the try-lock and its deferred  *)
(* release, and the token is in the channel exactly while one is:          *)
(* lastChecked and the re-read are never raced, and no path out of         *)
(* tryUpdate leaks the token.                                              *)
OneChecker ==
    /\ \A c, d \in Callers : pc[c] \in Checking /\ pc[d] \in Checking => c = d
    /\ once = "done" => (sema <=> \E c \in Callers : pc[c] \in Checking)

(* No lookup gets past initOnce.Do, to where the pointer is dereferenced,  *)
(* before the first config is stored and lastChecked is set.               *)
ConfigBeforeUse ==
    (\E c \in Callers : pc[c] \in {"reload", "acquire", "check", "stat", "release", "load"})
        => once = "done" /\ conf # Nil

(* The comparison of modification times is sound: while revisions of the   *)
(* file have different ones, a config read to the end that carries the     *)
(* file's current time also carries its current content, whatever was      *)
(* written between the fstat and the scan.                                 *)
StampSound ==
    ~reused /\ ~partial /\ conf # Nil /\ conf.stamp = file.stamp => conf.body = file.body

(* What a finished check leaves is current: if the file was not touched,   *)
(* and no call failed, since the last check began, the cached modification *)
(* time is the file's, so the next check will not parse it again.          *)
CheckedIsCurrent ==
    once = "done" /\ quiet /\ ~sema => conf.stamp = file.stamp

(* After init a lookup never waits for another: whatever the others are    *)
(* doing, one that is inside getSystemDNSConfig can take its next step.    *)
NeverBlocked ==
    once = "done" => \A c \in Callers : pc[c] # "idle" => ENABLED Step(c)

(* Edits are picked up: when the file is no longer edited and I/O works,   *)
(* the cached config ends up with the file's content and keeps it.  The    *)
(* exceptions: the config in force asks not to be reloaded, the file came  *)
(* back to a modification time it had before, or reading this very         *)
(* revision was cut short.                                                 *)
EventuallyFresh ==
    <>[](/\ conf # Nil
         /\ \/ conf.body = file.body \/ conf.body \in NoReload \/ reused
            \/ partial /\ conf.stamp = file.stamp)

(* dnsconfig.go:41 says of noReload: "do not check for config file         *)
(* updates".  A config that holds it would then stay in force.             *)
NoReloadSticks ==
    [][conf # Nil /\ conf.body \in NoReload => conf' = conf]_vars

=============================================================================
