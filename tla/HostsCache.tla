----------------------------- MODULE HostsCache -----------------------------
(***************************************************************************)
(* The parsed /etc/hosts that every address lookup consults first:         *)
(* dns/hosts.go.  One mutex covers the table and the reading of the file.  *)
(* A table with entries is trusted for five seconds; after that, and       *)
(* always while it is empty, the file's modification time and size are     *)
(* compared and the file is parsed again when they changed.                *)
(***************************************************************************)
EXTENDS Naturals

CONSTANTS
    Callers,    \* concurrent lookups
    Bodies,     \* parsed contents the file may have
    Empty,      \* the one without a single entry
    Stamps,     \* pairs of modification time and size
    ZeroStamp,  \* the pair statFile returns with an error
    MaxAge,     \* cacheMaxAge, in ticks of the model's clock
    Failures,   \* transient failures: "stat", "open", "denied" or "read"
    MaxFaults   \* bound on their number

ASSUME HostsAssumption ==
    /\ Empty \in Bodies
    /\ ZeroStamp \notin Stamps
    /\ MaxAge \in Nat \ {0}
    /\ Failures \subseteq {"stat", "open", "denied", "read"}
    /\ MaxFaults \in Nat

\* A file, and a parsed table, are told apart by stamp and content.
Tables == [stamp : Stamps \cup {ZeroStamp}, body : Bodies]

Absent == [stamp |-> ZeroStamp, body |-> Empty]

VARIABLES
    file,     \* the file on disk; Absent when there is none
    used,     \* stamps revisions of the file have carried
    locked,   \* hosts.Mutex
    table,    \* hosts.byName and byAddr with hosts.mtime and size
    left,     \* time until hosts.expire
    elapsed,  \* time since the mutex's holder read the clock
    stat,     \* the stamp it got from statFile
    opened,   \* the file it has open; Absent when none
    pc,       \* per caller, where it is in lookupStaticHost
    faults,   \* transient failures so far
    gone,     \* history: per content, how long it has not been on disk
    partial   \* history: the read that made the table was denied or cut short

disk == <<file, used, gone>>
vars == <<disk, locked, table, left, elapsed, stat, opened, pc, faults, partial>>

Reading == {"check", "stat", "open", "scan", "answer"}

Init ==
    /\ file \in [stamp : Stamps, body : Bodies] \cup {Absent}
    /\ used = {file.stamp} \ {ZeroStamp}
    /\ locked = FALSE
    /\ table = Absent
    /\ left = 0
    /\ elapsed = 0
    /\ stat = ZeroStamp
    /\ opened = Absent
    /\ pc = [c \in Callers |-> "idle"]
    /\ faults = 0
    /\ gone = [b \in Bodies |-> IF b = file.body THEN 0 ELSE MaxAge]
    /\ partial = FALSE

Goto(c, label) == pc' = [pc EXCEPT ![c] = label]

Fault(kind) == kind \in Failures /\ faults < MaxFaults /\ faults' = faults + 1

\* expire = now.Add(cacheMaxAge), with the now read before any I/O.
Extend_late == left' = MaxAge
Extend == left' = MaxAge - elapsed

Store(c, b, cut) ==
    /\ table' = [stamp |-> stat, body |-> b]
    /\ partial' = cut
    /\ Extend
    /\ opened' = Absent
    /\ Goto(c, "answer")

-----------------------------------------------------------------------------
Call(c) ==
    /\ pc[c] = "idle"
    /\ Goto(c, "lock")
    /\ UNCHANGED <<disk, locked, table, left, elapsed, stat, opened, faults, partial>>

Lock(c) ==
    /\ pc[c] = "lock" /\ ~locked
    /\ locked' = TRUE
    /\ Goto(c, "check")
    /\ UNCHANGED <<disk, table, left, elapsed, stat, opened, faults, partial>>

\* hosts.path is the file's path from the first parse on, and never before.
Check_keepLocked(c) ==
    /\ pc[c] = "check"
    /\ elapsed' = 0
    /\ Goto(c, IF left > 0 /\ table.body # Empty THEN "idle" ELSE "stat")
    /\ UNCHANGED <<disk, locked, table, left, stat, opened, faults, partial>>
Check(c) ==
    /\ pc[c] = "check"
    /\ elapsed' = 0
    /\ Goto(c, IF left > 0 /\ table.body # Empty THEN "answer" ELSE "stat")
    /\ UNCHANGED <<disk, locked, table, left, stat, opened, faults, partial>>

StatUnchanged(c) ==
    /\ pc[c] = "stat" /\ file # Absent /\ file.stamp = table.stamp
    /\ Extend
    /\ Goto(c, "answer")
    /\ UNCHANGED <<disk, locked, table, elapsed, stat, opened, faults, partial>>

\* The stamp differs, or statFile failed: parse the file either way.
StatChanged(c) ==
    /\ pc[c] = "stat"
    /\ \/ /\ file = Absent \/ file.stamp # table.stamp
          /\ stat' = file.stamp
          /\ UNCHANGED faults
       \/ Fault("stat") /\ stat' = ZeroStamp
    /\ Goto(c, "open")
    /\ UNCHANGED <<disk, locked, table, left, elapsed, opened, partial>>

Open(c) ==
    /\ pc[c] = "open" /\ file # Absent
    /\ opened' = file
    /\ Goto(c, "scan")
    /\ UNCHANGED <<disk, locked, table, left, elapsed, stat, faults, partial>>

\* ErrNotExist and ErrPermission: nothing to parse, and that is stored.
OpenNothing(c) ==
    /\ pc[c] = "open"
    /\ \/ file = Absent /\ UNCHANGED faults /\ Store(c, Empty, FALSE)
       \/ file # Absent /\ Fault("denied") /\ Store(c, Empty, TRUE)
    /\ UNCHANGED <<disk, locked, elapsed, stat>>

\* Any other error: the table stays as it is and so does its expiry.
OpenFails_stamp(c) ==
    /\ pc[c] = "open" /\ Fault("open")
    /\ table' = [table EXCEPT !.stamp = stat]
    /\ Goto(c, "answer")
    /\ UNCHANGED <<disk, locked, left, elapsed, stat, opened, partial>>
OpenFails(c) ==
    /\ pc[c] = "open" /\ Fault("open")
    /\ Goto(c, "answer")
    /\ UNCHANGED <<disk, locked, table, left, elapsed, stat, opened, partial>>

\* The scan reads the file that was opened, also when it was renamed over or
\* removed since, or what an edit in place has put there; scanner.Err is not
\* looked at, so after a failed read the lines before it are the table.
Scan_fstatLast(c) ==
    /\ pc[c] = "scan"
    /\ \E b \in {opened.body} \cup (IF file = Absent THEN {} ELSE {file.body}) :
          table' = [stamp |-> file.stamp, body |-> b]
    /\ partial' = FALSE
    /\ Extend
    /\ opened' = Absent
    /\ Goto(c, "answer")
    /\ UNCHANGED <<disk, locked, elapsed, stat, faults>>
Scan(c) ==
    /\ pc[c] = "scan"
    /\ \/ /\ \E b \in {opened.body} \cup (IF file = Absent THEN {} ELSE {file.body}) :
                Store(c, b, FALSE)
          /\ UNCHANGED faults
       \/ Fault("read") /\ \E b \in Bodies : Store(c, b, TRUE)
    /\ UNCHANGED <<disk, locked, elapsed, stat>>

\* The entries are copied out under the mutex, then it is released.
Answer(c) ==
    /\ pc[c] = "answer"
    /\ locked' = FALSE
    /\ Goto(c, "idle")
    /\ elapsed' = 0
    /\ stat' = ZeroStamp
    /\ UNCHANGED <<disk, table, left, opened, faults, partial>>

-----------------------------------------------------------------------------
(* The environment: the clock and whoever edits the file.                  *)

Tick ==
    /\ left' = IF left = 0 THEN 0 ELSE left - 1
    /\ elapsed' = IF locked /\ elapsed < MaxAge THEN elapsed + 1 ELSE elapsed
    /\ gone' = [b \in Bodies |-> IF b = file.body THEN 0
                                 ELSE IF gone[b] < MaxAge THEN gone[b] + 1 ELSE MaxAge]
    /\ UNCHANGED <<file, used, locked, table, stat, opened, pc, faults, partial>>

\* A revision has a modification time or a size of its own.
Write(b, s) ==
    /\ s \notin used
    /\ file' = [stamp |-> s, body |-> b]
    /\ used' = used \cup {s}
    /\ gone' = [gone EXCEPT ![b] = 0]
    /\ UNCHANGED <<locked, table, left, elapsed, stat, opened, pc, faults, partial>>

Delete ==
    /\ file # Absent
    /\ file' = Absent
    /\ gone' = [gone EXCEPT ![Empty] = 0]
    /\ UNCHANGED <<used, locked, table, left, elapsed, stat, opened, pc, faults, partial>>

-----------------------------------------------------------------------------
\* The steps of a lookup that holds the mutex.
Held(c) ==
    \/ Check(c) \/ StatUnchanged(c) \/ StatChanged(c) \/ Open(c)
    \/ OpenNothing(c) \/ OpenFails(c) \/ Scan(c) \/ Answer(c)

Next ==
    \/ \E c \in Callers : Call(c) \/ Lock(c) \/ Held(c)
    \/ \E b \in Bodies, s \in Stamps : Write(b, s)
    \/ Delete
    \/ Tick

Spec == Init /\ [][Next]_vars

\* Goroutines are scheduled, the clock runs, lookups keep arriving (nothing
\* else reads the file), and sync.Mutex hands itself to the longest waiter.
Fairness ==
    /\ \A c \in Callers : WF_vars(Call(c)) /\ SF_vars(Lock(c)) /\ WF_vars(Held(c))
    /\ WF_vars(Tick)

FairSpec == Spec /\ Fairness

-----------------------------------------------------------------------------
(* The type invariant.  The mutex is locked exactly while one lookup reads *)
(* or answers, so neither the table nor the file's state is shared.        *)
TypeOK ==
    /\ file \in Tables /\ used \subseteq Stamps
    /\ locked \in BOOLEAN /\ table \in Tables
    /\ left \in 0..MaxAge /\ elapsed \in 0..MaxAge
    /\ stat \in Stamps \cup {ZeroStamp} /\ opened \in Tables
    /\ pc \in [Callers -> {"idle", "lock"} \cup Reading]
    /\ faults \in 0..MaxFaults /\ gone \in [Bodies -> 0..MaxAge]
    /\ partial \in BOOLEAN
    /\ \A c, d \in Callers : pc[c] \in Reading /\ pc[d] \in Reading => c = d
    /\ locked <=> \E c \in Callers : pc[c] \in Reading

(* The comparison of stamps is sound: a table read to the end that carries *)
(* the stamp of the file on disk carries its content, although the file    *)
(* may be written, removed or renamed over between statFile, os.Open and   *)
(* the scan.                                                               *)
StampSound ==
    ~partial /\ file # Absent /\ table.stamp = file.stamp => table.body = file.body

(* The early return of readHosts is never too late: a table trusted        *)
(* without looking at the disk is one the disk held less than cacheMaxAge  *)
(* ago, however long the read that made it took and whatever failed since. *)
BoundedStale ==
    [][\A c \in Callers : pc[c] = "check" /\ pc'[c] = "answer" =>
          partial \/ gone[table.body] < MaxAge]_vars

(* Edits are picked up: when the file is no longer edited and the I/O      *)
(* works, the table ends up with its content and keeps it.  It recovers    *)
(* from every failure but one: reading this very revision was denied, or   *)
(* cut short, after statFile had its stamp.                                *)
EventuallyFresh ==
    <>[](table.body = file.body \/ (partial /\ table.stamp = file.stamp))

(* A lookup gets its answer, whatever the others are doing: no path out of *)
(* readHosts keeps the mutex.                                              *)
LookupAnswers == \A c \in Callers : pc[c] = "lock" ~> pc[c] = "answer"

(* golookup.go:39 says a lookup "first tries /etc/hosts; if no entries     *)
(* exist it issues A and AAAA queries".  A readable file that has entries  *)
(* would then, in the end, be the one lookups use.                         *)
HostsComeFirst == <>[](file.body # Empty => table.body = file.body)

=============================================================================
