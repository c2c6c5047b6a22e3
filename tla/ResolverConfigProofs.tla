------------------------ MODULE ResolverConfigProofs ------------------------
(***************************************************************************)
(* Proofs about ResolverConfig for any callers, file contents and          *)
(* modification times: the invariants the runs of MCResolverConfig check   *)
(* on small instances; and that what dnsReadConfig makes of any file can   *)
(* be used.                                                                *)
(***************************************************************************)
EXTENDS ResolverConfig, MCConfigFile, Lemmas

\* Until init returns, only the initialiser is past initOnce.Do, and it holds
\* no token: the channel does not exist yet.
OnceInv ==
    /\ once = "new" => \A c \in Callers : pc[c] \in {"idle", "once"}
    /\ once = "running" => \A c \in Callers : pc[c] \in {"idle", "once", "open", "scan"}
    /\ once # "done" => sema = FALSE

\* The token is held exactly by the caller between try-lock and release.
SemaInv ==
    /\ \A c, d \in Callers : pc[c] \in Checking /\ pc[d] \in Checking => c = d
    /\ once = "done" /\ sema => \E c \in Callers : pc[c] \in Checking
    /\ once = "done" /\ ~sema => \A c \in Callers : pc[c] \notin Checking

\* Everything needed for type correctness and mutual exclusion.
IInv == TypeOK /\ OnceInv /\ SemaInv

\* Times in the cache and in open descriptors have been used by the file, and
\* one that is still the file's goes with the file's content, unless the read
\* of it was cut short.
Known(cfg) ==
    /\ cfg.stamp \in used \cup {ZeroTime}
    /\ cfg.stamp = ZeroTime => cfg.body = Defaults

Current(cfg) == ~reused => (cfg.stamp = file.stamp => cfg.body = file.body)

Sound(cfg) == Known(cfg) /\ Current(cfg)

SoundInv ==
    /\ Sound(file)
    /\ conf # Nil => Known(conf) /\ (~partial => Current(conf))
    /\ \A c \in Callers : Sound(opened[c])
    /\ \A c \in Callers : pc[c] = "scan" => opened[c].stamp # ZeroTime

-----------------------------------------------------------------------------
(* The initial states satisfy the invariant.                               *)
LEMMA InitInv == Init => IInv
<1> USE ConfigAssumption DEF ConfigAssumption
<1> SUFFICES ASSUME Init PROVE IInv
    OBVIOUS
<1>1. Absent \in Configs
    BY DEF Absent, Configs
<1>2. TypeOK
  <2>1. file \in Configs /\ used \subseteq Stamps /\ reused \in BOOLEAN
      BY <1>1 DEF Init, Absent, Configs
  <2>2. /\ opened \in [Callers -> Configs]
        /\ pc \in [Callers -> {"idle", "once", "reload", "acquire", "load"} \cup Checking]
      BY <1>1 DEF Init
  <2>3. once \in {"new", "running", "done"} /\ conf \in Configs \cup {Nil} /\ once # "done"
      BY DEF Init
  <2>4. age \in 0..Recheck /\ faults \in 0..MaxFaults
      BY DEF Init
  <2>5. sema \in BOOLEAN /\ quiet \in BOOLEAN /\ partial \in BOOLEAN
      BY DEF Init
  <2> QED
      BY <2>1, <2>2, <2>3, <2>4, <2>5 DEF TypeOK
<1>3. OnceInv /\ SemaInv
    BY DEF Init, OnceInv, SemaInv, Checking
<1> QED
    BY <1>2, <1>3 DEF IInv

\* Store is the last step of both uses of dnsReadConfig: init, which no other
\* caller can overlap, and a re-read under the token.
LEMMA StoreInv ==
    ASSUME IInv, NEW c \in Callers, pc[c] \in {"open", "scan"},
           NEW cfg \in Configs, NEW cut \in BOOLEAN, Store(c, cfg, cut)
    PROVE  /\ partial' \in BOOLEAN
           /\ conf' \in Configs /\ once' = "done" /\ age' \in 0..Recheck
           /\ pc' \in [Callers -> {"idle", "once", "reload", "acquire", "load"} \cup Checking]
           /\ OnceInv' /\ SemaInv'
<1> USE ConfigAssumption DEF ConfigAssumption, IInv, TypeOK
<1>1. CASE once = "running"
    BY <1>1 DEF Store, Goto, OnceInv, SemaInv, Checking
<1>2. CASE once = "done"
    BY <1>2 DEF Store, Goto, OnceInv, SemaInv, Checking
<1>3. once # "new"
    BY DEF OnceInv
<1> QED
    BY <1>1, <1>2, <1>3

(* Every step keeps the invariant.                                         *)
LEMMA StepInv == IInv /\ [Next]_vars => IInv'
<1> USE ConfigAssumption DEF ConfigAssumption, disk
<1> SUFFICES ASSUME IInv, [Next]_vars PROVE IInv'
    OBVIOUS
<1> USE DEF IInv
<1>0. Absent \in Configs
    BY DEF Absent, Configs
<1>1. ASSUME NEW c \in Callers, Call(c) PROVE IInv'
    BY <1>1 DEF Call, Goto, caches, TypeOK, OnceInv, SemaInv, Checking
<1>2. ASSUME NEW c \in Callers, OnceFirst(c) PROVE IInv'
    BY <1>2 DEF OnceFirst, Goto, TypeOK, OnceInv, SemaInv, Checking
<1>3. ASSUME NEW c \in Callers, OnceDone(c) PROVE IInv'
    BY <1>3 DEF OnceDone, Goto, caches, TypeOK, OnceInv, SemaInv, Checking
<1>4. ASSUME NEW c \in Callers, ReloadAllowed(c) PROVE IInv'
    BY <1>4 DEF ReloadAllowed, Goto, caches, TypeOK, OnceInv, SemaInv, Checking
<1>5. ASSUME NEW c \in Callers, TryAcquire(c) PROVE IInv'
  <2>1. CASE sema
      BY <1>5, <2>1 DEF TryAcquire, Goto, TypeOK, OnceInv, SemaInv, Checking
  <2>2. CASE ~sema
      BY <1>5, <2>2 DEF TryAcquire, Goto, TypeOK, OnceInv, SemaInv, Checking
  <2> QED
      BY <2>1, <2>2
<1>6. ASSUME NEW c \in Callers, CheckAge(c) PROVE IInv'
  <2>1. /\ pc[c] = "check" /\ pc' \in {[pc EXCEPT ![c] = "release"], [pc EXCEPT ![c] = "stat"]}
        /\ UNCHANGED <<disk, once, sema, conf, partial, opened, faults>>
        /\ age' \in {age, 0} /\ quiet' \in {quiet, TRUE}
      BY <1>6 DEF CheckAge, Goto
  <2>2. age' \in 0..Recheck
      BY <2>1 DEF TypeOK
  <2>3. quiet' \in BOOLEAN
      BY <2>1 DEF TypeOK
  <2>4. pc' \in [Callers -> {"idle", "once", "reload", "acquire", "load"} \cup Checking]
      BY <2>1 DEF TypeOK, Checking
  <2>5. TypeOK'
      BY <2>1, <2>4, <2>2, <2>3 DEF TypeOK
  <2>6. OnceInv' /\ SemaInv'
      BY <2>1 DEF TypeOK, OnceInv, SemaInv, Checking
  <2> QED
      BY <2>5, <2>6
<1>7. ASSUME NEW c \in Callers, Stat(c) PROVE IInv'
  <2>1. /\ pc[c] = "stat" /\ pc' \in {[pc EXCEPT ![c] = "release"], [pc EXCEPT ![c] = "open"]}
        /\ UNCHANGED <<disk, caches, opened>>
        /\ UNCHANGED <<faults, quiet>> \/ Fault
      BY <1>7 DEF Stat, Goto
  <2>2. faults' \in 0..MaxFaults
      BY <2>1 DEF Fault, TypeOK
  <2>3. quiet' \in BOOLEAN
      BY <2>1 DEF Fault, TypeOK
  <2>4. pc' \in [Callers -> {"idle", "once", "reload", "acquire", "load"} \cup Checking]
      BY <2>1 DEF TypeOK, Checking
  <2>5. TypeOK'
      BY <2>1, <2>4, <2>2, <2>3 DEF caches, TypeOK
  <2>6. OnceInv' /\ SemaInv'
      BY <2>1 DEF caches, TypeOK, OnceInv, SemaInv, Checking
  <2> QED
      BY <2>5, <2>6
<1>8. ASSUME NEW c \in Callers, Open(c) PROVE IInv'
    BY <1>8 DEF Open, Goto, caches, TypeOK, OnceInv, SemaInv, Checking
<1>9. ASSUME NEW c \in Callers, OpenFails(c) PROVE IInv'
  <2>1. Store(c, Absent, FALSE) /\ pc[c] = "open" /\ UNCHANGED <<disk, sema, opened>>
      BY <1>9 DEF OpenFails, Store
  <2>2. UNCHANGED <<faults, quiet>> \/ Fault
      BY <1>9 DEF OpenFails
  <2>3. faults' \in 0..MaxFaults
      BY <2>2 DEF Fault, TypeOK
  <2>4. quiet' \in BOOLEAN
      BY <2>2 DEF Fault, TypeOK
  <2>5. /\ partial' \in BOOLEAN
        /\ conf' \in Configs /\ once' = "done" /\ age' \in 0..Recheck
        /\ pc' \in [Callers -> {"idle", "once", "reload", "acquire", "load"} \cup Checking]
        /\ OnceInv' /\ SemaInv'
      BY <1>0, <2>1, StoreInv
  <2> QED
      BY <2>1, <2>5, <2>3, <2>4 DEF TypeOK
<1>10. ASSUME NEW c \in Callers, Scan(c) PROVE IInv'
  <2>1. PICK b \in Readable(c) : Store(c, [stamp |-> opened[c].stamp, body |-> b], FALSE)
      BY <1>10 DEF Scan
  <2>2. [stamp |-> opened[c].stamp, body |-> b] \in Configs
      BY DEF Readable, TypeOK, Configs
  <2>3. /\ pc[c] = "scan" /\ UNCHANGED <<disk, sema, faults, quiet>>
        /\ opened' \in [Callers -> Configs]
      BY <1>0, <1>10, <2>1 DEF Scan, Store, TypeOK
  <2> QED
      BY <2>1, <2>2, <2>3, StoreInv DEF TypeOK
<1>11. ASSUME NEW c \in Callers, ScanCut(c) PROVE IInv'
  <2>1. PICK b \in Readable(c) \cup (Bodies \ NoReload) :
            Store(c, [stamp |-> opened[c].stamp, body |-> b], TRUE)
      BY <1>11 DEF ScanCut
  <2>2. [stamp |-> opened[c].stamp, body |-> b] \in Configs
      BY DEF Readable, TypeOK, Configs
  <2>3. /\ pc[c] = "scan" /\ UNCHANGED <<disk, sema>>
        /\ opened' \in [Callers -> Configs]
      BY <1>0, <1>11, <2>1 DEF ScanCut, Store, TypeOK
  <2>4. faults' \in 0..MaxFaults
      BY <1>11 DEF ScanCut, Fault, TypeOK
  <2>5. quiet' \in BOOLEAN
      BY <1>11 DEF ScanCut, Fault
  <2> QED
      BY <2>1, <2>2, <2>3, <2>4, <2>5, StoreInv DEF TypeOK
<1>12. ASSUME NEW c \in Callers, Release(c) PROVE IInv'
    BY <1>12 DEF Release, Goto, TypeOK, OnceInv, SemaInv, Checking
<1>13. ASSUME NEW c \in Callers, Load(c) PROVE IInv'
    BY <1>13 DEF Load, Goto, caches, TypeOK, OnceInv, SemaInv, Checking
<1>14. ASSUME NEW b \in Bodies, NEW s \in Stamps, Write(b, s) PROVE IInv'
    BY <1>14 DEF Write, caches, TypeOK, Configs, OnceInv, SemaInv
<1>15. CASE Delete
    BY <1>0, <1>15 DEF Delete, caches, TypeOK, OnceInv, SemaInv
<1>16. CASE Tick
    BY <1>16 DEF Tick, TypeOK, OnceInv, SemaInv
<1>17. CASE UNCHANGED vars
    BY <1>17 DEF vars, TypeOK, OnceInv, SemaInv
<1> QED
    BY <1>1, <1>2, <1>3, <1>4, <1>5, <1>6, <1>7, <1>8, <1>9, <1>10, <1>11,
       <1>12, <1>13, <1>14, <1>15, <1>16, <1>17 DEF Next, Step

-----------------------------------------------------------------------------
(* Every reachable state is type correct, whatever the lookups, the clock  *)
(* and the editor of resolv.conf do.                                       *)
THEOREM TypeCorrect == Spec => []TypeOK
<1>1. IInv => TypeOK
    BY DEF IInv
<1> QED
    BY <1>1, InitInv, StepInv, PTL DEF Spec

(* The semaphore excludes: for any number of concurrent lookups at most    *)
(* one re-checks resolv.conf, and the token is never leaked (tryUpdate).   *)
THEOREM MutualExclusion == Spec => []OneChecker
<1>1. IInv => OneChecker
    BY DEF IInv, SemaInv, OneChecker, TypeOK
<1> QED
    BY <1>1, InitInv, StepInv, PTL DEF Spec

(* initOnce.Do orders the first Store before every use of the pointer.     *)
THEOREM NoNilConfig == Spec => []ConfigBeforeUse
<1>1. IInv => ConfigBeforeUse
    BY NilAssumption DEF NilAssumption, IInv, OnceInv, TypeOK, ConfigBeforeUse
<1> QED
    BY <1>1, InitInv, StepInv, PTL DEF Spec

-----------------------------------------------------------------------------
(* The initial states satisfy SoundInv.                                    *)
LEMMA InitSound == Init => SoundInv
<1> SUFFICES ASSUME Init PROVE SoundInv
    OBVIOUS
<1>1. file.stamp \in Stamps \/ file = Absent
    BY DEF Init
<1> QED
    BY <1>1, ConfigAssumption DEF ConfigAssumption, Init, SoundInv, Sound, Known, Current, Absent

(* Every step keeps SoundInv, given the invariant.                         *)
LEMMA StepSound == IInv /\ SoundInv /\ [Next]_vars => SoundInv'
<1> USE ConfigAssumption, NilAssumption DEF ConfigAssumption, NilAssumption, disk
<1> SUFFICES ASSUME IInv, SoundInv, [Next]_vars PROVE SoundInv'
    OBVIOUS
<1> USE DEF IInv, SoundInv, Sound, Known, Current
<1>1. Absent \in Configs /\ Absent.stamp = ZeroTime /\ Absent.body = Defaults
    BY DEF Absent, Configs
\* Steps that touch neither the file, nor the cache, nor a descriptor.
<1>2. ASSUME UNCHANGED <<disk, conf, partial, opened>>,
             \A c \in Callers : pc'[c] = "scan" => pc[c] = "scan"
      PROVE  SoundInv'
    BY <1>2
<1>3. ASSUME NEW c \in Callers,
             \/ Call(c) \/ OnceFirst(c) \/ OnceDone(c) \/ ReloadAllowed(c)
             \/ TryAcquire(c) \/ CheckAge(c) \/ Stat(c) \/ Release(c) \/ Load(c)
      PROVE  SoundInv'
  <2>1. UNCHANGED <<disk, conf, partial, opened>>
      BY <1>3 DEF Call, OnceFirst, OnceDone, ReloadAllowed, TryAcquire, CheckAge,
                  Stat, Release, Load, caches
  <2>2. \E l \in {"once", "open", "reload", "load", "acquire", "check", "release",
                  "stat", "idle"} : Goto(c, l)
      BY <1>3 DEF Call, OnceFirst, OnceDone, ReloadAllowed, TryAcquire, CheckAge,
                  Stat, Release, Load
  <2>3. \A d \in Callers : pc'[d] = "scan" => pc[d] = "scan"
      BY <2>2 DEF Goto, TypeOK
  <2> QED
      BY <1>2, <2>1, <2>3
<1>4. ASSUME NEW c \in Callers, Open(c) PROVE SoundInv'
    BY <1>4 DEF Open, Goto, caches, TypeOK
<1>5. ASSUME NEW c \in Callers, OpenFails(c) PROVE SoundInv'
  <2>1. conf' = Absent /\ UNCHANGED <<disk, opened>>
      BY <1>5 DEF OpenFails, Store
  <2>2. \A d \in Callers : pc'[d] = "scan" => pc[d] = "scan"
      BY <1>5 DEF OpenFails, Store, Goto, TypeOK
  <2>3. Sound(conf)'
      BY <1>1, <2>1
  <2> QED
      BY <2>1, <2>2, <2>3
<1>6. ASSUME NEW c \in Callers, Scan(c) PROVE SoundInv'
  <2>1. PICK b \in Readable(c) : conf' = [stamp |-> opened[c].stamp, body |-> b]
      BY <1>6 DEF Scan, Store
  <2>2. UNCHANGED disk /\ opened' = [opened EXCEPT ![c] = Absent]
      BY <1>6 DEF Scan
  <2>3. \A d \in Callers : pc'[d] = "scan" => pc[d] = "scan" /\ d # c
      BY <1>6 DEF Scan, Store, Goto, TypeOK
  <2>4. Sound(conf)'
    <3>1. opened[c].stamp # ZeroTime /\ pc[c] = "scan"
        BY <1>6 DEF Scan
    <3>2. conf'.stamp = opened[c].stamp /\ conf'.body = b
        BY <2>1
    <3>3. ~reused /\ opened[c].stamp = file.stamp => b = file.body
        BY DEF Readable
    <3> QED
        BY <2>2, <3>1, <3>2, <3>3
  <2>5. \A d \in Callers : Sound(opened[d])'
      BY <1>1, <2>2 DEF TypeOK
  <2> QED
      BY <2>2, <2>3, <2>4, <2>5 DEF TypeOK
<1>7. ASSUME NEW c \in Callers, ScanCut(c) PROVE SoundInv'
  <2>1. PICK b \in Readable(c) \cup (Bodies \ NoReload) :
            conf' = [stamp |-> opened[c].stamp, body |-> b] /\ partial' = TRUE
      BY <1>7 DEF ScanCut, Store
  <2>2. UNCHANGED disk /\ opened' = [opened EXCEPT ![c] = Absent]
      BY <1>7 DEF ScanCut
  <2>3. \A d \in Callers : pc'[d] = "scan" => pc[d] = "scan" /\ d # c
      BY <1>7 DEF ScanCut, Store, Goto, TypeOK
  <2>4. Known(conf)'
    <3>1. opened[c].stamp # ZeroTime /\ opened[c].stamp \in used
        BY <1>7 DEF ScanCut
    <3> QED
        BY <2>1, <2>2, <3>1
  <2>5. \A d \in Callers : Sound(opened[d])'
      BY <1>1, <2>2 DEF TypeOK
  <2>6. Sound(file)'
      BY <2>2
  <2> QED
      BY <2>1, <2>2, <2>3, <2>4, <2>5, <2>6 DEF TypeOK
<1>8. ASSUME NEW b \in Bodies, NEW s \in Stamps, Write(b, s) PROVE SoundInv'
  <2>1. /\ file' = [stamp |-> s, body |-> b] /\ used' = used \cup {s}
        /\ UNCHANGED <<conf, partial, opened, pc>>
        /\ reused' = (reused \/ s \in used)
      BY <1>8 DEF Write, caches
  <2>2. ASSUME NEW cfg, Sound(cfg), cfg = cfg' PROVE Sound(cfg)'
      BY <2>1, <2>2
  <2>3. Sound(file)'
      BY <2>1
  <2> QED
      BY <2>1, <2>2, <2>3
<1>9. CASE Delete
  <2>1. file' = Absent /\ UNCHANGED <<used, reused, conf, partial, opened, pc>>
      BY <1>9 DEF Delete, caches
  <2> QED
      BY <1>1, <2>1
<1>10. CASE Tick
    BY <1>2, <1>10 DEF Tick
<1>11. CASE UNCHANGED vars
    BY <1>2, <1>11 DEF vars
<1> QED
    BY <1>3, <1>4, <1>5, <1>6, <1>7, <1>8, <1>9, <1>10, <1>11 DEF Next, Step

(* Comparing modification times is enough: when revisions of the file have *)
(* different ones, a cached config with the file's time has its content.   *)
(* It rests on dnsReadConfig taking the time before it scans the lines.    *)
THEOREM StampSoundness == Spec => []StampSound
<1>1. SoundInv => StampSound
    BY DEF SoundInv, Current, StampSound
<1>2. Init => IInv /\ SoundInv
    BY InitInv, InitSound
<1>3. IInv /\ SoundInv /\ [Next]_vars => (IInv /\ SoundInv)'
    BY StepInv, StepSound
<1> QED
    BY <1>1, <1>2, <1>3, PTL DEF Spec

-----------------------------------------------------------------------------
\* While nothing has happened to the file or to a call since the check began,
\* the open descriptor is of the current revision, and so is the cached config
\* unless the check is still at it.
Reading == \E c \in Callers : pc[c] \in {"stat", "open", "scan"}

QuietInv ==
    quiet =>
        /\ \A c \in Callers : pc[c] = "scan" => opened[c].stamp = file.stamp
        /\ once = "done" /\ ~Reading => conf.stamp = file.stamp

(* The initial states satisfy QuietInv.                                    *)
LEMMA InitQuiet == Init => QuietInv
BY DEF Init, QuietInv

\* After a step that ends the reading of the one caller that reads nobody does.
LEMMA LastReader ==
    ASSUME IInv, NEW c \in Callers, pc[c] \in {"stat", "open", "scan"},
           NEW label, Goto(c, label), label \notin {"stat", "open", "scan"}
    PROVE  \A d \in Callers : pc'[d] \notin {"stat", "open", "scan"}
<1>1. \A d \in Callers : pc[d] \in {"stat", "open", "scan"} => d = c
    BY DEF IInv, OnceInv, SemaInv, Checking
<1> QED
    BY <1>1 DEF Goto, IInv, TypeOK

(* Every step keeps QuietInv, given the invariant.                         *)
LEMMA StepQuiet == IInv /\ QuietInv /\ [Next]_vars => QuietInv'
<1> USE DEF disk
<1> SUFFICES ASSUME IInv, QuietInv, [Next]_vars PROVE QuietInv'
    OBVIOUS
\* Steps that touch no file, cache or descriptor, and no reading.
<1>1. ASSUME UNCHANGED <<file, conf, opened, quiet>>, once' = "done" => once = "done",
             \A c \in Callers : /\ pc'[c] = "scan" => pc[c] = "scan"
                                /\ pc[c] \in {"stat", "open", "scan"} =>
                                       pc'[c] \in {"stat", "open", "scan"}
      PROVE  QuietInv'
    BY <1>1 DEF QuietInv, Reading
<1>2. ASSUME NEW c \in Callers,
             \/ Call(c) \/ OnceDone(c) \/ ReloadAllowed(c) \/ TryAcquire(c)
             \/ Release(c) \/ Load(c)
      PROVE  QuietInv'
  <2>1. UNCHANGED <<file, conf, opened, quiet, once>>
      BY <1>2 DEF Call, OnceDone, ReloadAllowed, TryAcquire, Release, Load, caches
  <2>2. /\ pc[c] \notin {"stat", "open", "scan"}
        /\ \E l \in {"once", "reload", "load", "acquire", "check", "idle"} : Goto(c, l)
      BY <1>2 DEF Call, OnceDone, ReloadAllowed, TryAcquire, Release, Load
  <2> QED
      BY <1>1, <2>1, <2>2 DEF Goto, IInv, TypeOK
<1>3. ASSUME NEW c \in Callers, OnceFirst(c) PROVE QuietInv'
  <2>1. once' = "running" /\ Goto(c, "open")
      BY <1>3 DEF OnceFirst
  <2>2. \A d \in Callers : pc[d] # "scan"
      BY <1>3 DEF OnceFirst, IInv, OnceInv
  <2> QED
      BY <2>1, <2>2 DEF QuietInv, Goto, IInv, TypeOK
<1>4. ASSUME NEW c \in Callers, CheckAge(c) PROVE QuietInv'
  <2>1. pc[c] = "check" /\ UNCHANGED <<file, conf, opened, once>>
      BY <1>4 DEF CheckAge
  <2>2. CASE age < Recheck
      BY <1>1, <1>4, <2>1, <2>2 DEF CheckAge, Goto, IInv, TypeOK
  <2>3. CASE ~(age < Recheck)
    <3>1. Goto(c, "stat")
        BY <1>4, <2>3 DEF CheckAge
    <3>2. pc'[c] = "stat"
        BY <3>1 DEF Goto, IInv, TypeOK
    <3>3. \A d \in Callers : pc'[d] # "scan"
        BY <2>1, <3>1 DEF Goto, IInv, TypeOK, OnceInv, SemaInv, Checking
    <3> QED
        BY <3>2, <3>3 DEF QuietInv, Reading
  <2> QED
      BY <2>2, <2>3
<1>5. ASSUME NEW c \in Callers, Stat(c) PROVE QuietInv'
  <2>1. pc[c] = "stat" /\ UNCHANGED <<file, conf, opened, once>>
      BY <1>5 DEF Stat, caches
  <2>2. CASE Fault
      BY <2>2 DEF Fault, QuietInv
  <2>3. CASE ~Fault /\ file.stamp = conf.stamp
    <3>1. Goto(c, "release")
        BY <1>5, <2>3 DEF Stat
    <3>2. \A d \in Callers : pc'[d] \notin {"stat", "open", "scan"}
        BY <2>1, <3>1, LastReader
    <3> QED
        BY <2>1, <2>3, <3>2 DEF QuietInv
  <2>4. CASE ~Fault /\ file.stamp # conf.stamp
    <3>1. Goto(c, "open") /\ UNCHANGED quiet
        BY <1>5, <2>4 DEF Stat
    <3> QED
        BY <1>1, <2>1, <3>1 DEF Goto, IInv, TypeOK
  <2> QED
      BY <2>2, <2>3, <2>4
<1>6. ASSUME NEW c \in Callers, Open(c) PROVE QuietInv'
  <2>1. /\ UNCHANGED <<file, conf, once, quiet>> /\ Goto(c, "scan")
        /\ opened' = [opened EXCEPT ![c] = file]
      BY <1>6 DEF Open, caches
  <2>2. pc'[c] = "scan" /\ opened'[c] = file
      BY <2>1 DEF Goto, IInv, TypeOK
  <2>3. \A d \in Callers : d # c => pc'[d] = pc[d] /\ opened'[d] = opened[d]
      BY <2>1 DEF Goto, IInv, TypeOK
  <2> QED
      BY <2>1, <2>2, <2>3 DEF QuietInv, Reading
\* What init and tryUpdate store when the file was not touched meanwhile.
<1>7. ASSUME NEW c \in Callers, pc[c] \in {"open", "scan"}, NEW cfg, NEW cut,
             Store(c, cfg, cut), quiet' => cfg.stamp = file'.stamp
      PROVE  QuietInv'
  <2>1. conf' = cfg /\ (Goto(c, "reload") \/ Goto(c, "release"))
      BY <1>7 DEF Store
  <2>2. \A d \in Callers : pc'[d] \notin {"stat", "open", "scan"}
      BY <1>7, <2>1, LastReader
  <2> QED
      BY <1>7, <2>1, <2>2 DEF QuietInv
<1>8. ASSUME NEW c \in Callers, OpenFails(c) PROVE QuietInv'
  <2>1. Store(c, Absent, FALSE) /\ pc[c] = "open" /\ UNCHANGED file
      BY <1>8 DEF OpenFails
  <2>2. quiet' => Absent.stamp = file'.stamp
      BY <1>8, <2>1 DEF OpenFails, Fault, Absent
  <2> QED
      BY <1>7, <2>1, <2>2
<1>9. ASSUME NEW c \in Callers, Scan(c) PROVE QuietInv'
  <2>1. PICK b \in Readable(c) : Store(c, [stamp |-> opened[c].stamp, body |-> b], FALSE)
      BY <1>9 DEF Scan
  <2>2. pc[c] = "scan" /\ UNCHANGED <<file, quiet>>
      BY <1>9 DEF Scan
  <2>3. quiet' => opened[c].stamp = file'.stamp
      BY <2>2 DEF QuietInv
  <2> QED
      BY <1>7, <2>1, <2>2, <2>3
<1>10. ASSUME NEW c \in Callers, ScanCut(c) PROVE QuietInv'
    BY <1>10 DEF ScanCut, Fault, QuietInv
<1>11. CASE \/ Delete \/ \E b \in Bodies, s \in Stamps : Write(b, s)
    BY <1>11 DEF Delete, Write, QuietInv
<1>12. CASE Tick
    BY <1>1, <1>12 DEF Tick
<1>13. CASE UNCHANGED vars
    BY <1>1, <1>13 DEF vars
<1> QED
    BY <1>2, <1>3, <1>4, <1>5, <1>6, <1>8, <1>9, <1>10, <1>11, <1>12, <1>13 DEF Next, Step

(* A finished check of an untouched file leaves its modification time in   *)
(* the cache, for any number of lookups: the loser of the try-lock leaves  *)
(* no trace, and only a touched file or a failed call undoes it.           *)
THEOREM CurrentAfterCheck == Spec => []CheckedIsCurrent
<1>1. IInv /\ QuietInv => CheckedIsCurrent
    BY DEF IInv, SemaInv, Checking, QuietInv, Reading, CheckedIsCurrent
<1>2. Init => IInv /\ QuietInv
    BY InitInv, InitQuiet
<1>3. IInv /\ QuietInv /\ [Next]_vars => (IInv /\ QuietInv)'
    BY StepInv, StepQuiet
<1> QED
    BY <1>1, <1>2, <1>3, PTL DEF Spec
-----------------------------------------------------------------------------
(* What dnsReadConfig makes of a file.                                     *)

Words == UNION {ToSet(line) : line \in Lines}

Flags == {"rotate", "singleRequest", "useTCP", "trustAD", "noReload", "unknownOpt"}

\* The configurations a text may lead to.
Usable(text) ==
    {cfg \in [servers : Seq(Addrs), search : Seq(Words), ndots : 0..15, timeout : Int,
              attempts : Nat \ {0}, flags : SUBSET Flags] :
        /\ Len(cfg.servers) <= 3
        /\ cfg.timeout >= Second \/ AsksTooLong(text)
        /\ "." \in ToSet(cfg.search) => NamesRoot(text)}

(* An int in range is its own value; a product of a number of seconds that *)
(* does not wrap is at least one.                                          *)
LEMMA WrappedSame ==
    ASSUME NEW n \in 0..MaxInt PROVE Wrapped(n) = n
<1> DEFINE w == 2 * MaxInt + 2
           a == n + MaxInt + 1
<1>1. w \in Nat \ {0} /\ a \in Nat /\ a \in 0..(w - 1)
    BY ConfigFileAssumption
<1>2. a = w * (a \div w) + (a % w) /\ a \div w \in Nat /\ a % w \in 0..(w - 1)
    <2> HIDE DEF a, w
    <2> QED
        BY <1>1, Z3T(30)
<1>3. w * 0 + a = w * (a \div w) + (a % w)
    BY <1>1, <1>2
<1>4. a = a % w
    <2> HIDE DEF a, w
    <2> QED
        BY <1>1, <1>2, <1>3, ModUnique
<1> QED
    BY <1>4, ConfigFileAssumption DEF Wrapped

(* The value of an int is one.                                             *)
LEMMA WrappedType == ASSUME NEW n \in Int PROVE Wrapped(n) \in Int
<1> DEFINE w == 2 * MaxInt + 2
           a == n + MaxInt + 1
<1>1. w \in Nat \ {0} /\ a \in Int
    BY ConfigFileAssumption
<1>2. a % w \in Int
    <2> HIDE DEF a, w
    <2> QED
        BY <1>1, Z3T(30)
<1> QED
    BY <1>2, ConfigFileAssumption DEF Wrapped

(* A timeout an option sets is at least a second unless it is more than a  *)
(* Duration can hold.                                                      *)
LEMMA TimeoutFits ==
    ASSUME NEW n \in Int, NEW t, t = Wrapped(AtLeast(1, Atoi(n)) * Second)
    PROVE  t \in Int /\ (t >= Second \/ n * Second > MaxInt)
<1> DEFINE m == AtLeast(1, Atoi(n))
           p == m * Second
<1>1. m \in Nat /\ m >= 1 /\ (m > 1 => m <= n)
    BY ConfigFileAssumption DEF AtLeast, AtMost, Atoi
<1>2. ASSUME NEW a \in Int, NEW b \in Int, a <= b PROVE a * Second <= b * Second
    <2>1. PICK d \in Nat : b = a + d
        BY <1>2, b - a \in Nat /\ b = a + (b - a)
    <2>2. d * Second >= 0 /\ b * Second = a * Second + d * Second
        BY <2>1, ConfigFileAssumption, Z3T(30)
    <2> QED
        BY <2>2, ConfigFileAssumption, Z3T(30)
<1> HIDE DEF m
<1>3. p \in Nat /\ p >= Second /\ n * Second \in Int /\ Second <= MaxInt /\ Second \in Nat /\ MaxInt \in Nat
    <2>1. 1 * Second <= m * Second
        BY <1>1, <1>2
    <2> QED
        BY <1>1, <2>1, ConfigFileAssumption, Z3T(30)
<1>4. CASE p <= MaxInt
    <2>1. t = p
        BY <1>3, <1>4, WrappedSame DEF m
    <2> QED
        BY <1>3, <2>1
<1>5. CASE p > MaxInt
    <2>1. m # 1
        BY <1>3, <1>5
    <2>2. m <= n /\ m * Second <= n * Second
        BY <1>1, <1>2, <2>1
    <2>3. t \in Int
        BY <1>3, WrappedType DEF m
    <2> QED
        BY <1>3, <1>5, <2>2, <2>3
<1> QED
    BY <1>3, <1>4, <1>5

(* The words of a line, and those after its first, are a sequence.         *)
LEMMA LineIsSeq ==
    ASSUME NEW line \in Lines
    PROVE  /\ line \in Seq(Words) /\ line # <<>> /\ Len(line) \in Nat /\ Len(line) >= 1
           /\ Tail(line) \in Seq(Words) /\ ToSet(Tail(line)) \subseteq Words
           /\ Tail(line) # <<>> => Tail(line)[1] = line[2] /\ line[2] \in Words
<1>1. Len(line) \in Nat /\ line = [k \in 1..Len(line) |-> line[k]] /\ line # <<>>
    BY LinesAssumption DEF IsSeq
<1>2. DOMAIN line = 1..Len(line)
    BY <1>1
<1>3. \A k \in 1..Len(line) : line[k] \in ToSet(line)
    BY <1>2 DEF ToSet
<1>4. ToSet(line) \subseteq Words
    BY DEF Words
<1>5. [k \in 1..Len(line) |-> line[k]] \in [1..Len(line) -> Words]
    BY <1>3, <1>4
<1>6. line \in Seq(Words)
    BY <1>1, <1>5, FunctionIsSeq
<1>7. Tail(line) \in Seq(Words) /\ Len(Tail(line)) = Len(line) - 1
      /\ \A k \in 1..Len(Tail(line)) : Tail(line)[k] = line[k + 1]
    BY <1>1, <1>6, HeadTailProperties
<1>8. ToSet(Tail(line)) \subseteq Words
    BY <1>7, LenProperties DEF ToSet
<1>9. Tail(line) # <<>> => Len(Tail(line)) >= 1 /\ Tail(line)[1] \in Words
    <2> DEFINE q == Tail(line)
    <2>1. q \in Seq(Words)
        BY <1>7
    <2> HIDE DEF q
    <2>2. q # <<>> => Len(q) \in Nat /\ Len(q) >= 1 /\ q[1] \in Words
        BY <2>1, EmptySeq, LenProperties
    <2> QED
        BY <2>2 DEF q
<1>10. Len(line) >= 1
    BY <1>1, <1>6, EmptySeq
<1> QED
    BY <1>1, <1>6, <1>7, <1>8, <1>9, <1>10

(* One word of an "options" line keeps a configuration usable.             *)
LEMMA OptionUsable ==
    ASSUME NEW text, NEW line \in Lines, line \in ToSet(text), line[1] = "options",
           NEW opt \in ToSet(Tail(line)), NEW cfg \in Usable(text)
    PROVE  Option(cfg, opt) \in Usable(text)
<1>1. opt[1] \in STRING /\ (opt[1] \in Numbered => opt[2] \in Int)
    BY LinesAssumption
<1> DEFINE new == Option(cfg, opt)
<1>2. CASE opt[1] = "ndots:"
    <2>1. AtMost(15, AtLeast(0, Atoi(opt[2]))) \in 0..15
        BY <1>1, <1>2, ConfigFileAssumption DEF AtMost, AtLeast, Atoi, Numbered
    <2>2. new = [cfg EXCEPT !.ndots = AtMost(15, AtLeast(0, Atoi(opt[2])))]
        BY <1>2 DEF Option
    <2> QED
        BY <2>1, <2>2 DEF Usable
<1>3. CASE opt[1] = "timeout:"
    <2> DEFINE t == Wrapped(AtLeast(1, Atoi(opt[2])) * Second)
    <2>1. new = [cfg EXCEPT !.timeout = t]
        BY <1>3 DEF Option
    <2>2. opt[2] \in Int
        BY <1>1, <1>3 DEF Numbered
    <2> HIDE DEF t
    <2>3. t \in Int /\ (t >= Second \/ opt[2] * Second > MaxInt)
        BY <2>2, TimeoutFits DEF t
    <2>4. t >= Second \/ AsksTooLong(text)
        BY <1>3, <2>3 DEF AsksTooLong
    <2> QED
        BY <2>1, <2>3, <2>4 DEF Usable
<1>4. CASE opt[1] = "attempts:"
    <2>1. AtLeast(1, Atoi(opt[2])) \in Nat \ {0}
        BY <1>1, <1>4, ConfigFileAssumption DEF AtMost, AtLeast, Atoi, Numbered
    <2>2. new = [cfg EXCEPT !.attempts = AtLeast(1, Atoi(opt[2]))]
        BY <1>4 DEF Option
    <2> QED
        BY <2>1, <2>2 DEF Usable
<1>5. CASE opt[1] \notin Numbered
    <2>1. Flag(opt[1]) \in SUBSET Flags
        <3> DEFINE x == opt[1]
        <3>1. CASE x \in {"rotate", "single-request", "single-request-reopen"}
            BY <3>1 DEF Flag, Flags
        <3>2. CASE x \in {"use-vc", "usevc", "tcp", "trust-ad"}
            BY <3>2 DEF Flag, Flags
        <3>3. CASE x \in {"edns0", "no-reload"}
            BY <3>3 DEF Flag, Flags
        <3>4. CASE x \notin {"rotate", "single-request", "single-request-reopen", "use-vc",
                             "usevc", "tcp", "trust-ad", "edns0", "no-reload"}
            BY <3>4 DEF Flag, Flags
        <3> HIDE DEF x
        <3> QED
            BY <3>1, <3>2, <3>3, <3>4 DEF x
    <2>2. new = [cfg EXCEPT !.flags = @ \cup Flag(opt[1])]
        BY <1>5 DEF Option, Numbered
    <2>3. cfg.flags \cup Flag(opt[1]) \in SUBSET Flags
        BY <2>1 DEF Usable
    <2> QED
        BY <2>2, <2>3 DEF Usable
<1> QED
    BY <1>2, <1>3, <1>4, <1>5 DEF Numbered

(* What no option leads out of, no list of options leads out of.           *)
LEMMA OptionsInto ==
    ASSUME NEW V, NEW base \in V, NEW S, NEW s \in Seq(S),
           \A v \in V : \A n \in 1..Len(s) : Option(v, s[n]) \in V
    PROVE  FoldLeft(Option, base, s) \in V
<1> DEFINE N == Len(s)
           step == [p \in V \X (1..N) |-> Option(p[1], s[p[2]])]
           IsFold(f) == f = [T \in SUBSET (1..N) |->
               IF T = {} THEN base ELSE Option(f[T \ {Max(T)}], s[Max(T)])]
           g == CHOOSE f : IsFold(f)
<1>1. N \in Nat /\ DOMAIN s = 1..N
    BY LenProperties
<1>2. base \in V /\ step \in [V \X (1..N) -> V]
    OBVIOUS
<1>3. IsFold(g)
    <2>1. PICK f \in [SUBSET (1..N) -> V] : Table(f, N, base, step)
        <3> HIDE DEF step, N
        <3> QED
            BY <1>1, <1>2, FoldExists
    <2>2. ASSUME NEW T \in SUBSET (1..N), T # {}
          PROVE  step[<<f[T \ {Max(T)}], Max(T)>>] = Option(f[T \ {Max(T)}], s[Max(T)])
        <3>1. Max(T) \in T
            BY <1>1, <2>2, MaxIsMember
        <3> QED
            BY <2>1, <3>1
    <2>3. IsFold(f)
        BY <2>1, <2>2 DEF Table
    <2> HIDE DEF IsFold
    <2> QED
        BY <2>3
<1>4. FoldLeft(Option, base, s) = g[1..N]
    BY <1>1, Zenon DEF FoldLeft, MapThenFoldSet
<1>5. g[{}] = base
    BY <1>3
<1>6. ASSUME NEW n \in 1..N PROVE g[1..n] = Option(g[1..(n - 1)], s[n])
    <2>1. 1..n \in SUBSET (1..N) /\ 1..n # {} /\ Max(1..n) = n /\ (1..n) \ {n} = 1..(n - 1)
        BY <1>1, MaxOfRange
    <2> HIDE DEF g, N
    <2> QED
        BY <1>3, <2>1
<1>7. ASSUME NEW n \in 1..N, NEW a \in V PROVE step[<<a, n>>] = Option(a, s[n])
    OBVIOUS
<1> HIDE DEF g, N, step
<1>8. PICK F \in [0..N -> V] : F[N] = g[1..N] /\ Path(F, N, base, step)
    <2>1. \A n \in 1..N : g[1..(n - 1)] \in V => g[1..n] = step[<<g[1..(n - 1)], n>>]
        BY <1>6, <1>7
    <2>2. N \in Nat /\ base \in V /\ step \in [V \X (1..N) -> V] /\ g[{}] = base
        BY <1>1, <1>2, <1>5
    <2> QED
        BY <2>1, <2>2, FoldAlong, ZenonT(60)
<1>9. F[N] \in V
    BY <1>1
<1> QED
    BY <1>4, <1>8, <1>9

(* So do all the words of the line.                                        *)
LEMMA OptionsUsable ==
    ASSUME NEW text, NEW line \in Lines, line \in ToSet(text), line[1] = "options",
           NEW cfg \in Usable(text)
    PROVE  FoldLeft(Option, cfg, Tail(line)) \in Usable(text)
<1> DEFINE s == Tail(line)
           V == Usable(text)
<1>1. s \in Seq(Words)
    BY LineIsSeq
<1>2. \A n \in 1..Len(s) : s[n] \in ToSet(s)
    BY <1>1, LenProperties DEF ToSet
<1>3. \A v \in V : \A n \in 1..Len(s) : Option(v, s[n]) \in V
    BY <1>2, OptionUsable
<1> HIDE DEF s, V
<1>4. cfg \in V
    BY DEF V
<1>5. FoldLeft(Option, cfg, s) \in V
    BY <1>1, <1>3, <1>4, OptionsInto
<1> QED
    BY <1>5 DEF s, V

(* One line keeps a configuration usable.                                  *)
LEMMA DirectiveUsable ==
    ASSUME NEW text, NEW line \in Lines, line \in ToSet(text), NEW cfg \in Usable(text)
    PROVE  Directive(cfg, line) \in Usable(text)
<1> DEFINE args == Tail(line)
           new == Directive(cfg, line)
<1>1. /\ args \in Seq(Words) /\ ToSet(args) \subseteq Words
      /\ args # <<>> => args[1] = line[2] /\ args[1] \in Words
    BY LineIsSeq
<1>2. CASE line[1] = "nameserver"
    <2>1. CASE args # <<>> /\ Len(cfg.servers) < 3 /\ args[1] \in Addrs
        <3>1. new = [cfg EXCEPT !.servers = Append(@, args[1])]
            BY <1>2, <2>1 DEF Directive
        <3>2. cfg.servers \in Seq(Addrs)
            BY DEF Usable
        <3>3. /\ Append(cfg.servers, args[1]) \in Seq(Addrs)
              /\ Len(Append(cfg.servers, args[1])) <= 3
            BY <2>1, <3>2, AppendProperties, LenProperties
        <3> QED
            BY <3>1, <3>3 DEF Usable
    <2>2. CASE ~(args # <<>> /\ Len(cfg.servers) < 3 /\ args[1] \in Addrs)
        <3>1. new = cfg
            BY <1>2, <2>2 DEF Directive
        <3> QED
            BY <3>1
    <2> QED
        BY <2>1, <2>2
<1>3. CASE line[1] = "domain"
    <2>1. CASE args = <<>>
        <3>1. new = cfg
            BY <1>3, <2>1 DEF Directive
        <3> QED
            BY <3>1
    <2>2. CASE args # <<>>
        <3> DEFINE d == <<args[1]>>
        <3>1. new = [cfg EXCEPT !.search = d]
            BY <1>3, <2>2 DEF Directive
        <3>2. args[1] = line[2] /\ args[1] \in Words
            BY <1>1, <2>2
        <3>3. d \in Seq(Words) /\ ToSet(d) = {args[1]}
            <4> DEFINE w == args[1]
            <4>1. w \in Words /\ d = <<w>>
                BY <3>2
            <4> HIDE DEF w, d
            <4>2. d \in Seq(Words) /\ DOMAIN d = {1} /\ d[1] = w
                BY <4>1
            <4> QED
                BY <4>2 DEF ToSet, w
        <3>4. "." \in ToSet(d) => NamesRoot(text)
            BY <1>3, <2>2, <3>2, <3>3 DEF NamesRoot
        <3> HIDE DEF d
        <3> QED
            BY <3>1, <3>3, <3>4 DEF Usable
    <2> QED
        BY <2>1, <2>2
<1>4. CASE line[1] = "search"
    <2> DEFINE d == Only(args, ToSet(args) \ {"."})
    <2>1. new = [cfg EXCEPT !.search = d]
        BY <1>4 DEF Directive
    <2>2. d \in Seq(Words) /\ "." \notin ToSet(d)
        <3> DEFINE K == ToSet(args) \ {"."}
        <3>1. "." \notin K
            OBVIOUS
        <3> HIDE DEF K, args
        <3>2. Only(args, K) \in Seq(Words) /\ ToSet(Only(args, K)) = ToSet(args) \cap K
            BY <1>1, OnlyType, OnlySet
        <3> QED
            BY <3>1, <3>2 DEF K
    <2> HIDE DEF d
    <2> QED
        BY <2>1, <2>2 DEF Usable
<1>5. CASE line[1] = "options"
    <2>1. new = FoldLeft(Option, cfg, args)
        BY <1>5, Zenon DEF Directive
    <2> QED
        BY <1>5, <2>1, OptionsUsable
<1>6. CASE line[1] = "lookup"
    <2>1. new = cfg
        BY <1>6 DEF Directive
    <2> QED
        BY <2>1
<1>7. CASE line[1] \notin {"nameserver", "domain", "search", "options", "lookup"}
    <2>1. new = [cfg EXCEPT !.flags = @ \cup {"unknownOpt"}]
        BY <1>7 DEF Directive
    <2>2. cfg.flags \cup {"unknownOpt"} \in SUBSET Flags
        BY DEF Usable, Flags
    <2> QED
        BY <2>1, <2>2 DEF Usable
<1> QED
    BY <1>2, <1>3, <1>4, <1>5, <1>6, <1>7

(* Nor does a list of lines lead out of what no line leads out of.         *)
LEMMA DirectivesInto ==
    ASSUME NEW V, NEW base \in V, NEW S, NEW s \in Seq(S),
           \A v \in V : \A n \in 1..Len(s) : Directive(v, s[n]) \in V
    PROVE  FoldLeft(Directive, base, s) \in V
<1> DEFINE N == Len(s)
           step == [p \in V \X (1..N) |-> Directive(p[1], s[p[2]])]
           IsFold(f) == f = [T \in SUBSET (1..N) |->
               IF T = {} THEN base ELSE Directive(f[T \ {Max(T)}], s[Max(T)])]
           g == CHOOSE f : IsFold(f)
<1>1. N \in Nat /\ DOMAIN s = 1..N
    BY LenProperties
<1>2. base \in V /\ step \in [V \X (1..N) -> V]
    OBVIOUS
<1>3. IsFold(g)
    <2>1. PICK f \in [SUBSET (1..N) -> V] : Table(f, N, base, step)
        <3> HIDE DEF step, N
        <3> QED
            BY <1>1, <1>2, FoldExists
    <2>2. ASSUME NEW T \in SUBSET (1..N), T # {}
          PROVE  step[<<f[T \ {Max(T)}], Max(T)>>] = Directive(f[T \ {Max(T)}], s[Max(T)])
        <3>1. Max(T) \in T
            BY <1>1, <2>2, MaxIsMember
        <3> QED
            BY <2>1, <3>1
    <2>3. IsFold(f)
        BY <2>1, <2>2 DEF Table
    <2> HIDE DEF IsFold
    <2> QED
        BY <2>3
<1>4. FoldLeft(Directive, base, s) = g[1..N]
    BY <1>1, Zenon DEF FoldLeft, MapThenFoldSet
<1>5. g[{}] = base
    BY <1>3
<1>6. ASSUME NEW n \in 1..N PROVE g[1..n] = Directive(g[1..(n - 1)], s[n])
    <2>1. 1..n \in SUBSET (1..N) /\ 1..n # {} /\ Max(1..n) = n /\ (1..n) \ {n} = 1..(n - 1)
        BY <1>1, MaxOfRange
    <2> HIDE DEF g, N
    <2> QED
        BY <1>3, <2>1
<1>7. ASSUME NEW n \in 1..N, NEW a \in V PROVE step[<<a, n>>] = Directive(a, s[n])
    OBVIOUS
<1> HIDE DEF g, N, step
<1>8. PICK F \in [0..N -> V] : F[N] = g[1..N] /\ Path(F, N, base, step)
    <2>1. \A n \in 1..N : g[1..(n - 1)] \in V => g[1..n] = step[<<g[1..(n - 1)], n>>]
        BY <1>6, <1>7
    <2>2. N \in Nat /\ base \in V /\ step \in [V \X (1..N) -> V] /\ g[{}] = base
        BY <1>1, <1>2, <1>5
    <2> QED
        BY <2>1, <2>2, FoldAlong, ZenonT(60)
<1>9. F[N] \in V
    BY <1>1
<1> QED
    BY <1>4, <1>8, <1>9

(* What is scanned of a file.                                              *)
LEMMA ScannedShape ==
    ASSUME NEW text \in Seq(Lines) PROVE Scanned(text) \in Seq(Lines)
<1> DEFINE k == SelectInSeq(text, LAMBDA line : line = <<"huge">>)
<1>1. Len(text) \in Nat /\ DOMAIN text = 1..Len(text)
    BY LenProperties
<1>2. k = 0 \/ k \in 1..Len(text)
    <2> DEFINE I == {n \in 1..Len(text) : text[n] = <<"huge">>}
    <2>1. k = IF I # {} THEN Min(I) ELSE 0
        BY DEF SelectInSeq
    <2>2. I \subseteq 1..Len(text) /\ I \in SUBSET Nat
        BY <1>1
    <2> HIDE DEF I, k
    <2>3. ASSUME I # {} PROVE Min(I) \in I
        <3>1. PICK m \in I : \A n \in I : m <= n
            BY <2>2, <2>3, LeastNatural
        <3> QED
            BY <3>1 DEF Min
    <2> QED
        BY <2>1, <2>2, <2>3
<1>3. Scanned(text) = IF k = 0 THEN text ELSE SubSeq(text, 1, k - 1)
    BY DEF Scanned
<1> HIDE DEF k
<1>4. k # 0 => SubSeq(text, 1, k - 1) \in Seq(Lines)
    <2> SUFFICES ASSUME k \in 1..Len(text) PROVE SubSeq(text, 1, k - 1) \in Seq(Lines)
        BY <1>2
    <2>1. \A n \in 1..(k - 1) : text[n] \in Lines
        BY <1>1
    <2> QED
        BY <2>1, <1>1, SubSeqProperties
<1> QED
    BY <1>3, <1>4

(* Whatever is scanned, the configuration is usable.                       *)
LEMMA ReadUsable ==
    ASSUME NEW text \in Seq(Lines)
    PROVE  FoldLeft(Directive, Default, text) \in Usable(text)
<1> DEFINE V == Usable(text)
<1>1. Default \in V
    <2>1. Wrapped(5 * Second) = 5 * Second
        BY ConfigFileAssumption, WrappedSame
    <2>2. <<>> \in Seq(Addrs) /\ <<>> \in Seq(Words) /\ ToSet(<<>>) = {} /\ Len(<<>>) = 0
        BY EmptySeq DEF ToSet
    <2> QED
        BY <2>1, <2>2, ConfigFileAssumption DEF Default, Usable
<1>2. \A n \in 1..Len(text) : text[n] \in Lines /\ text[n] \in ToSet(text)
    BY LenProperties DEF ToSet
<1>3. \A v \in V : \A n \in 1..Len(text) : Directive(v, text[n]) \in V
    BY <1>2, DirectiveUsable
<1> HIDE DEF V
<1>4. FoldLeft(Directive, Default, text) \in V
    BY <1>1, <1>3, DirectivesInto
<1> QED
    BY <1>4 DEF V

(* Every file the run reads is one of lines.                               *)
LEMMA FilesOfLines == FileSpec => [](lines \in Seq(Lines))
<1>1. FileInit => lines \in Seq(Lines)
    BY LinesAssumption, FunctionIsSeq DEF FileInit
<1>2. lines \in Seq(Lines) /\ [FileNext]_lines => (lines \in Seq(Lines))'
    <2> SUFFICES ASSUME lines \in Seq(Lines), NEW k \in DOMAIN lines, lines' = RemoveAt(lines, k)
                 PROVE  lines' \in Seq(Lines)
        BY DEF FileNext
    <2>1. Len(lines) \in Nat /\ k \in 1..Len(lines) /\ \A n \in 1..Len(lines) : lines[n] \in Lines
        BY LenProperties
    <2>2. SubSeq(lines, 1, k - 1) \in Seq(Lines) /\ SubSeq(lines, k + 1, Len(lines)) \in Seq(Lines)
        <3>1. \A n \in 1..(k - 1) : lines[n] \in Lines
            BY <2>1
        <3>2. \A n \in (k + 1)..Len(lines) : lines[n] \in Lines
            BY <2>1
        <3> QED
            BY <2>1, <3>1, <3>2, SubSeqProperties
    <2> QED
        BY <2>2, ConcatProperties DEF RemoveAt
<1> QED
    BY <1>1, <1>2, PTL DEF FileSpec

(* Whatever resolv.conf holds, the configuration read from it can be used: *)
(* dnsReadConfig leaves no list of servers empty or too long, no attempts, *)
(* ndots or timeout outside their range unless the file asks for a timeout *)
(* that does not fit, and no root among the suffixes unasked.              *)
THEOREM AnyFileUsable == FileSpec => []ConfUsable
<1>1. lines \in Seq(Lines) => ConfUsable
    <2> SUFFICES ASSUME lines \in Seq(Lines) PROVE ConfUsable
        OBVIOUS
    <2> DEFINE text == Scanned(lines)
               cfg == FoldLeft(Directive, Default, text)
               read == dnsReadConfig(lines)
    <2>1. text \in Seq(Lines)
        BY ScannedShape
    <2>2. cfg \in Usable(text)
        BY <2>1, ReadUsable
    <2>3. read = [cfg EXCEPT !.servers = OrDefault(cfg.servers, defaultNS),
                             !.search  = OrDefault(cfg.search, dnsDefaultSearch)]
        BY DEF dnsReadConfig
    <2> HIDE DEF text, cfg, read
    <2>4. /\ read.servers = OrDefault(cfg.servers, defaultNS)
          /\ read.search = OrDefault(cfg.search, HostDomain)
          /\ read.timeout = cfg.timeout /\ read.attempts = cfg.attempts /\ read.ndots = cfg.ndots
        BY <2>2, <2>3 DEF Usable, dnsDefaultSearch
    <2>5. /\ cfg.servers \in Seq(Addrs) /\ Len(cfg.servers) <= 3 
          /\ cfg.servers # <<>> => Len(cfg.servers) \in 1..3 /\ ToSet(cfg.servers) \subseteq Addrs
        <3>1. cfg.servers \in Seq(Addrs) /\ Len(cfg.servers) <= 3
            BY <2>2 DEF Usable
        <3> DEFINE s == cfg.servers
        <3> HIDE DEF s
        <3>2. s \in Seq(Addrs) /\ Len(s) <= 3
            BY <3>1 DEF s
        <3>3. s # <<>> => Len(s) \in 1..3
            <4>1. Len(s) \in Nat
                BY <3>2, LenProperties
            <4>2. s # <<>> => Len(s) # 0
                BY <3>2, EmptySeq
            <4>3. ASSUME NEW n \in Nat, n <= 3, n # 0 PROVE n \in 1..3
                BY <4>3
            <4>4. Len(s) <= 3
                BY <3>2
            <4> QED
                BY <4>1, <4>2, <4>3, <4>4
        <3>4. ToSet(s) \subseteq Addrs
            BY <3>2, LenProperties DEF ToSet
        <3>5. s \in Seq(Addrs) /\ Len(s) <= 3 /\ (s # <<>> => Len(s) \in 1..3 /\ ToSet(s) \subseteq Addrs)
            BY <3>2, <3>3, <3>4
        <3> QED
            BY <3>5, Zenon DEF s
    <2>6. Len(read.servers) \in 1..3 /\ ToSet(read.servers) \subseteq Addrs \cup ToSet(defaultNS)
        BY <2>4, <2>5, ConfigFileAssumption DEF OrDefault
    <2>7. "." \in ToSet(read.search) => NamesRoot(text)
        BY <2>2, <2>4 DEF OrDefault, Usable, NamesRoot
    <2>8. read.attempts >= 1 /\ read.ndots \in 0..15 /\ (read.timeout >= Second \/ AsksTooLong(text))
        BY <2>2, <2>4 DEF Usable
    <2> QED
        BY <2>6, <2>7, <2>8 DEF ConfUsable, read, text
<1> QED
    BY <1>1, FilesOfLines, PTL
=============================================================================
