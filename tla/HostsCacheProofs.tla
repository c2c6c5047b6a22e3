-------------------------- MODULE HostsCacheProofs --------------------------
(***************************************************************************)
(* Proofs about HostsCache for any lookups, contents and stamps, any       *)
(* cacheMaxAge and any number of failures of any kind.                     *)
(***************************************************************************)
EXTENDS HostsCache, MCHostsFile, Lemmas

\* TypeOK without the mutex: the invariant proved first.
Types ==
    /\ file \in Tables /\ used \subseteq Stamps
    /\ table \in Tables
    /\ left \in 0..MaxAge /\ elapsed \in 0..MaxAge
    /\ stat \in Stamps \cup {ZeroStamp} /\ opened \in Tables
    /\ pc \in [Callers -> {"idle", "lock"} \cup Reading]
    /\ faults \in 0..MaxFaults /\ gone \in [Bodies -> 0..MaxAge]

Flags == locked \in BOOLEAN /\ partial \in BOOLEAN

\* The mutex is held exactly by the lookup that reads or answers.
Mutex ==
    /\ \A c, d \in Callers : pc[c] \in Reading /\ pc[d] \in Reading => c = d
    /\ locked => \E c \in Callers : pc[c] \in Reading
    /\ ~locked => \A c \in Callers : pc[c] \notin Reading

\* Every stamp in memory has been the file's, and one that still is goes with
\* the file's content: for the table, when it was read to the end, and for the
\* open file under the stamp taken before it was opened.
Stamped ==
    /\ {file.stamp, table.stamp, stat} \subseteq used \cup {ZeroStamp}
    /\ file.stamp = ZeroStamp => file = Absent
    /\ StampSound
    /\ \A c \in Callers : pc[c] = "scan" =>
          (file # Absent /\ stat = file.stamp => opened.body = file.body)

\* A content has been off the disk for no longer than what is missing from its
\* table's five seconds, or than the read in progress has taken.
Aged ==
    /\ gone[file.body] = 0
    /\ ~partial /\ left > 0 /\ table.body # Empty => gone[table.body] + left <= MaxAge
    /\ \A c \in Callers : pc[c] = "scan" => gone[opened.body] <= elapsed

IInv == Types /\ Flags /\ Mutex /\ Stamped /\ Aged

-----------------------------------------------------------------------------
(* An absent file is one of the tables: no stamp, and nothing in it.       *)
LEMMA AbsentFacts ==
    Absent \in Tables /\ Absent.stamp = ZeroStamp /\ Absent.body = Empty
BY HostsAssumption DEF HostsAssumption, Absent, Tables

(* The initial states satisfy the invariant.                               *)
LEMMA InitInv == Init => IInv
<1> USE HostsAssumption, AbsentFacts DEF HostsAssumption
<1> SUFFICES ASSUME Init PROVE IInv
    OBVIOUS
<1>1. file \in Tables /\ (file.stamp = ZeroStamp => file = Absent)
      /\ used \subseteq Stamps /\ file.stamp \in used \cup {ZeroStamp}
    BY DEF Init, Tables
<1>2. Types
  <2>1. gone \in [Bodies -> 0..MaxAge]
      BY DEF Init
  <2>2. pc \in [Callers -> {"idle", "lock"} \cup Reading]
      BY DEF Init
  <2> QED
      BY <1>1, <2>1, <2>2 DEF Init, Types
<1>3. Flags /\ Mutex
    BY DEF Init, Flags, Mutex, Reading
<1>4. Stamped
  <2>1. file # Absent => file.stamp # ZeroStamp
      BY <1>1
  <2> QED
      BY <1>1, <2>1 DEF Init, Stamped, StampSound
<1>5. Aged
    BY <1>1 DEF Init, Aged, Tables
<1> QED
    BY <1>2, <1>3, <1>4, <1>5 DEF IInv

\* The steps of a lookup, by what they do to the mutex.
LEMMA StepMutex == Types /\ Flags /\ Mutex /\ [Next]_vars => Flags' /\ Mutex'
<1> SUFFICES ASSUME Types, Flags, Mutex, [Next]_vars PROVE Flags' /\ Mutex'
    OBVIOUS
<1> USE DEF Mutex
<1>1. pc \in [Callers -> {"idle", "lock"} \cup Reading] /\ locked \in BOOLEAN
      /\ partial \in BOOLEAN
    BY DEF Types, Flags
<1>2. ASSUME NEW c \in Callers, Call(c) PROVE Flags' /\ Mutex'
    BY <1>1, <1>2 DEF Call, Goto, Reading, Flags
<1>3. ASSUME NEW c \in Callers, Lock(c) PROVE Flags' /\ Mutex'
    BY <1>1, <1>3 DEF Lock, Goto, Reading, Flags
<1>4. ASSUME NEW c \in Callers,
             \/ Check(c) \/ StatUnchanged(c) \/ StatChanged(c) \/ Open(c)
             \/ OpenNothing(c) \/ OpenFails(c) \/ Scan(c)
      PROVE  Flags' /\ Mutex'
  <2>1. pc[c] \in Reading /\ UNCHANGED locked /\ \E l \in Reading : pc' = [pc EXCEPT ![c] = l]
      BY <1>4 DEF Check, StatUnchanged, StatChanged, Open, OpenNothing, OpenFails, Scan,
                  Store, Goto, Reading
  <2>2. partial' \in BOOLEAN
      BY <1>1, <1>4 DEF Check, StatUnchanged, StatChanged, Open, OpenNothing, OpenFails, Scan,
                        Store
  <2>3. Mutex'
      BY <1>1, <2>1
  <2> QED
      BY <1>1, <2>1, <2>2, <2>3 DEF Flags
<1>5. ASSUME NEW c \in Callers, Answer(c) PROVE Flags' /\ Mutex'
  <2>1. pc[c] \in Reading /\ locked' = FALSE /\ pc' = [pc EXCEPT ![c] = "idle"]
        /\ UNCHANGED partial
      BY <1>5 DEF Answer, Goto, Reading
  <2>2. \A d \in Callers : pc'[d] \notin Reading
      BY <1>1, <2>1 DEF Reading
  <2> QED
      BY <1>1, <2>1, <2>2 DEF Flags
<1>6. CASE UNCHANGED <<pc, locked, partial>>
    BY <1>1, <1>6 DEF Flags
<1> QED
    BY <1>2, <1>3, <1>4, <1>5, <1>6 DEF Next, Held, Write, Delete, Tick, vars

(* Storing a reading of the file keeps the types.                          *)
LEMMA StoreTypes ==
    ASSUME Types, NEW c \in Callers, NEW b \in Bodies, NEW cut \in BOOLEAN,
           Store(c, b, cut)
    PROVE  /\ table' \in Tables /\ left' \in 0..MaxAge /\ opened' \in Tables
           /\ pc' \in [Callers -> {"idle", "lock"} \cup Reading]
BY HostsAssumption, AbsentFacts
   DEF HostsAssumption, Types, Store, Extend, Goto, Tables, Reading

(* Every step keeps the types.                                             *)
LEMMA StepTypes == Types /\ [Next]_vars => Types'
<1> USE HostsAssumption, AbsentFacts DEF HostsAssumption
<1> SUFFICES ASSUME Types, [Next]_vars PROVE Types'
    OBVIOUS
<1>1. ASSUME NEW c \in Callers, Call(c) \/ Lock(c) \/ Check(c) \/ Answer(c) PROVE Types'
    BY <1>1 DEF Call, Lock, Check, Answer, Goto, disk, Types, Reading
<1>2. ASSUME NEW c \in Callers, StatUnchanged(c) PROVE Types'
    BY <1>2 DEF StatUnchanged, Extend, Goto, disk, Types, Reading
<1>3. ASSUME NEW c \in Callers, StatChanged(c) PROVE Types'
  <2>1. stat' \in Stamps \cup {ZeroStamp} /\ faults' \in 0..MaxFaults
      BY <1>3 DEF StatChanged, Fault, Types, Tables
  <2> QED
      BY <1>3, <2>1 DEF StatChanged, Goto, disk, Types, Reading
<1>4. ASSUME NEW c \in Callers, Open(c) PROVE Types'
    BY <1>4 DEF Open, Goto, disk, Types, Reading
<1>5. ASSUME NEW c \in Callers, OpenNothing(c) PROVE Types'
  <2>1. PICK cut \in BOOLEAN : Store(c, Empty, cut)
      BY <1>5 DEF OpenNothing
  <2>2. UNCHANGED <<disk, elapsed, stat>> /\ (UNCHANGED faults \/ \E kind \in Failures : Fault(kind))
      BY <1>5 DEF OpenNothing, Fault
  <2>3. faults' \in 0..MaxFaults
      BY <2>2 DEF Fault, Types
  <2>4. /\ table' \in Tables /\ left' \in 0..MaxAge /\ opened' \in Tables
        /\ pc' \in [Callers -> {"idle", "lock"} \cup Reading]
      BY <2>1, StoreTypes
  <2> QED
      BY <2>2, <2>3, <2>4 DEF disk, Types
<1>6. ASSUME NEW c \in Callers, OpenFails(c) PROVE Types'
    BY <1>6 DEF OpenFails, Fault, Goto, disk, Types, Reading
<1>7. ASSUME NEW c \in Callers, Scan(c) PROVE Types'
  <2>1. PICK b \in Bodies, cut \in BOOLEAN : Store(c, b, cut)
      BY <1>7 DEF Scan, Types, Tables
  <2>2. UNCHANGED <<disk, elapsed, stat>> /\ (UNCHANGED faults \/ \E kind \in Failures : Fault(kind))
      BY <1>7 DEF Scan, Fault
  <2>3. faults' \in 0..MaxFaults
      BY <2>2 DEF Fault, Types
  <2>4. /\ table' \in Tables /\ left' \in 0..MaxAge /\ opened' \in Tables
        /\ pc' \in [Callers -> {"idle", "lock"} \cup Reading]
      BY <2>1, StoreTypes
  <2> QED
      BY <2>2, <2>3, <2>4 DEF disk, Types
<1>8. CASE Tick
    BY <1>8 DEF Tick, Types
<1>9. ASSUME NEW b \in Bodies, NEW s \in Stamps, Write(b, s) PROVE Types'
    BY <1>9 DEF Write, Types, Tables
<1>10. CASE Delete
    BY <1>10 DEF Delete, Types
<1>11. CASE UNCHANGED vars
    BY <1>11 DEF vars, disk, Types
<1> QED
    BY <1>1, <1>2, <1>3, <1>4, <1>5, <1>6, <1>7, <1>8, <1>9, <1>10, <1>11 DEF Next, Held

-----------------------------------------------------------------------------
\* While one lookup is past the lock no other is in its scan.
LEMMA ScanAlone ==
    ASSUME Mutex, NEW c \in Callers, pc[c] \in Reading, NEW d \in Callers, d # c
    PROVE  pc[d] # "scan"
BY DEF Mutex, Reading

\* A step of lookup c that leaves the disk, the table and the stamp alone.
LEMMA StampedKept ==
    ASSUME Types, Stamped, NEW c \in Callers, NEW l, l # "scan", Goto(c, l),
           UNCHANGED <<disk, table, partial, stat, opened>>
    PROVE  Stamped'
BY DEF Types, Stamped, StampSound, Goto, disk

(* Every step keeps stamps sound.                                          *)
LEMMA StepStamped == Types /\ Mutex /\ Stamped /\ [Next]_vars => Stamped'
<1> USE HostsAssumption, AbsentFacts DEF HostsAssumption
<1> SUFFICES ASSUME Types, Mutex, Stamped, [Next]_vars PROVE Stamped'
    OBVIOUS
<1>1. ASSUME NEW c \in Callers,
             \/ Call(c) \/ Lock(c) \/ Check(c) \/ StatUnchanged(c) \/ OpenFails(c)
      PROVE  Stamped'
  <2>1. UNCHANGED <<disk, table, partial, stat, opened>>
      BY <1>1 DEF Call, Lock, Check, StatUnchanged, OpenFails
  <2>2. \E l \in {"lock", "check", "answer", "stat"} : Goto(c, l)
      BY <1>1 DEF Call, Lock, Check, StatUnchanged, OpenFails
  <2> QED
      BY <2>1, <2>2, StampedKept
<1>2. ASSUME NEW c \in Callers, StatChanged(c) \/ Answer(c) PROVE Stamped'
  <2>1. /\ pc[c] \in Reading /\ stat' \in {file.stamp, ZeroStamp}
        /\ UNCHANGED <<disk, table, partial, opened>>
      BY <1>2 DEF StatChanged, Answer, Reading
  <2>2. \E l \in {"open", "idle"} : Goto(c, l)
      BY <1>2 DEF StatChanged, Answer
  <2>3. \A d \in Callers : pc'[d] # "scan"
      BY <2>1, <2>2, ScanAlone DEF Goto, Types
  <2> QED
      BY <2>1, <2>3 DEF Stamped, StampSound, disk
<1>3. ASSUME NEW c \in Callers, Open(c) PROVE Stamped'
  <2>1. pc[c] \in Reading /\ opened' = file /\ UNCHANGED <<disk, table, partial, stat>>
      BY <1>3 DEF Open, Reading
  <2>2. \A d \in Callers : pc'[d] = "scan" => d = c
      BY <1>3, <2>1, ScanAlone DEF Open, Goto, Types
  <2> QED
      BY <2>1, <2>2 DEF Stamped, StampSound, disk
\* What OpenNothing and Scan store: the stamp of the stat, and the file's
\* content if that is still the file's stamp.
<1>4. ASSUME NEW c \in Callers, OpenNothing(c) \/ Scan(c) PROVE Stamped'
  <2>1. pc[c] \in Reading /\ UNCHANGED <<disk, stat>> /\ Goto(c, "answer")
      BY <1>4 DEF OpenNothing, Scan, Store, Reading
  <2>2. \A d \in Callers : pc'[d] # "scan"
      BY <2>1, ScanAlone DEF Goto, Types
  <2>3. PICK b \in Bodies, cut \in BOOLEAN :
            /\ table' = [stamp |-> stat, body |-> b] /\ partial' = cut
            /\ ~cut /\ file # Absent /\ stat = file.stamp => b = file.body
    <3>1. CASE OpenNothing(c)
        BY <3>1 DEF OpenNothing, Store
    <3>2. CASE Scan(c)
        BY <3>2 DEF Scan, Store, Stamped, Types, Tables
    <3> QED
        BY <1>4, <3>1, <3>2
  <2> QED
      BY <2>1, <2>2, <2>3 DEF Stamped, StampSound, disk
<1>5. CASE Tick
    BY <1>5 DEF Tick, Stamped, StampSound
<1>6. ASSUME NEW b \in Bodies, NEW s \in Stamps, Write(b, s) PROVE Stamped'
  <2>1. /\ s \notin used \cup {ZeroStamp} /\ used' = used \cup {s}
        /\ file' = [stamp |-> s, body |-> b]
        /\ UNCHANGED <<table, partial, stat, opened, pc>>
      BY <1>6 DEF Write
  <2>2. table.stamp # s /\ stat # s
      BY <2>1 DEF Stamped
  <2> QED
      BY <2>1, <2>2 DEF Stamped, StampSound
<1>7. CASE Delete
    BY <1>7 DEF Delete, Stamped, StampSound
<1>8. CASE UNCHANGED vars
    BY <1>8 DEF vars, disk, Stamped, StampSound
<1> QED
    BY <1>1, <1>2, <1>3, <1>4, <1>5, <1>6, <1>7, <1>8 DEF Next, Held

-----------------------------------------------------------------------------
\* A step that leaves the disk, the table and all times alone.
LEMMA AgedKept ==
    ASSUME Types, Aged, UNCHANGED <<disk, table, partial, left, elapsed, opened>>,
           \A c \in Callers : pc'[c] = "scan" => pc[c] = "scan"
    PROVE  Aged'
BY DEF Aged, disk

\* A table stored, or confirmed, while the disk has held its content no longer
\* ago than the read began.
LEMMA AgedExtended ==
    ASSUME Types, Aged, Extend, UNCHANGED disk,
           \A c \in Callers : pc'[c] # "scan",
           ~partial' /\ table'.body # Empty => gone[table'.body] <= elapsed,
           table' \in Tables
    PROVE  Aged'
<1>1. /\ left' = MaxAge - elapsed /\ elapsed \in 0..MaxAge /\ MaxAge \in Nat
      /\ gone[table'.body] \in 0..MaxAge
    BY HostsAssumption DEF HostsAssumption, Extend, Types, Tables
<1>2. gone[table'.body] <= elapsed => gone[table'.body] + left' <= MaxAge
    BY <1>1
<1>3. gone' = gone /\ gone'[file'.body] = 0
    BY DEF disk, Aged
<1> QED
    BY <1>2, <1>3 DEF Aged

(* Every step keeps bounded the age of what the table serves.              *)
LEMMA StepAged == Types /\ Mutex /\ Stamped /\ Aged /\ [Next]_vars => Aged'
<1> USE HostsAssumption, AbsentFacts DEF HostsAssumption
<1> SUFFICES ASSUME Types, Mutex, Stamped, Aged, [Next]_vars PROVE Aged'
    OBVIOUS
<1>0. /\ left \in 0..MaxAge /\ elapsed \in 0..MaxAge /\ MaxAge \in Nat
      /\ gone \in [Bodies -> 0..MaxAge] /\ table.body \in Bodies
      /\ opened.body \in Bodies /\ file.body \in Bodies
    BY DEF Types, Tables
<1>1. ASSUME NEW c \in Callers, Call(c) \/ Lock(c) \/ StatChanged(c) \/ OpenFails(c)
      PROVE  Aged'
  <2>1. UNCHANGED <<disk, table, partial, left, elapsed, opened>>
      BY <1>1 DEF Call, Lock, StatChanged, OpenFails
  <2>2. \E l \in {"lock", "check", "open", "answer"} : Goto(c, l)
      BY <1>1 DEF Call, Lock, StatChanged, OpenFails
  <2>3. \A d \in Callers : pc'[d] = "scan" => pc[d] = "scan"
      BY <2>2 DEF Goto, Types
  <2> QED
      BY <2>1, <2>3, AgedKept
\* Whoever resets elapsed holds the mutex, so that nobody is scanning.
<1>2. ASSUME NEW c \in Callers, Check(c) \/ Answer(c) PROVE Aged'
  <2>1. pc[c] \in Reading /\ UNCHANGED <<disk, table, partial, left, opened>>
      BY <1>2 DEF Check, Answer, Reading
  <2>2. \E l \in {"answer", "stat", "idle"} : Goto(c, l)
      BY <1>2 DEF Check, Answer
  <2>3. \A d \in Callers : pc'[d] # "scan"
      BY <2>1, <2>2, ScanAlone DEF Goto, Types
  <2> QED
      BY <2>1, <2>3 DEF Aged, disk
<1>3. ASSUME NEW c \in Callers, StatUnchanged(c) PROVE Aged'
  <2>1. /\ pc[c] \in Reading /\ UNCHANGED <<disk, table, partial>> /\ Extend
        /\ file # Absent /\ file.stamp = table.stamp /\ Goto(c, "answer")
      BY <1>3 DEF StatUnchanged, Reading
  <2>2. \A d \in Callers : pc'[d] # "scan"
      BY <2>1, ScanAlone DEF Goto, Types
  <2>3. ~partial => table.body = file.body
      BY <2>1 DEF Stamped, StampSound
  <2>4. gone[file.body] = 0
      BY DEF Aged
  <2>5. ~partial => gone[table.body] <= elapsed
      BY <1>0, <2>3, <2>4
  <2>6. table \in Tables
      BY DEF Types
  <2> QED
      BY <2>1, <2>2, <2>5, <2>6, AgedExtended
<1>4. ASSUME NEW c \in Callers, Open(c) PROVE Aged'
  <2>1. pc[c] \in Reading /\ opened' = file
        /\ UNCHANGED <<disk, table, partial, left, elapsed>>
      BY <1>4 DEF Open, Reading
  <2>2. gone[file.body] = 0 /\ gone[file.body] <= elapsed
      BY <1>0 DEF Aged
  <2> QED
      BY <2>1, <2>2 DEF Aged, disk
<1>5. ASSUME NEW c \in Callers, OpenNothing(c) PROVE Aged'
  <2>1. /\ pc[c] \in Reading /\ UNCHANGED disk /\ Extend /\ Goto(c, "answer")
        /\ table' = [stamp |-> stat, body |-> Empty]
      BY <1>5 DEF OpenNothing, Store, Reading
  <2>2. \A d \in Callers : pc'[d] # "scan"
      BY <2>1, ScanAlone DEF Goto, Types
  <2>3. table' \in Tables /\ table'.body = Empty
      BY <2>1 DEF Types, Tables
  <2> QED
      BY <2>1, <2>2, <2>3, AgedExtended
<1>6. ASSUME NEW c \in Callers, Scan(c) PROVE Aged'
  <2>1. /\ pc[c] = "scan" /\ UNCHANGED disk /\ Extend /\ Goto(c, "answer")
        /\ \E b \in Bodies : table' = [stamp |-> stat, body |-> b]
        /\ ~partial' => table'.body \in {opened.body, file.body}
      BY <1>0, <1>6 DEF Scan, Store
  <2>2. \A d \in Callers : pc'[d] # "scan"
      BY <2>1, ScanAlone DEF Goto, Types, Reading
  <2>3. table' \in Tables
      BY <2>1 DEF Types, Tables
  <2>4. gone[opened.body] <= elapsed
      BY <2>1 DEF Aged
  <2>5. gone[file.body] <= elapsed
      BY <1>0 DEF Aged
  <2> QED
      BY <2>1, <2>2, <2>3, <2>4, <2>5, AgedExtended
<1>7. CASE Tick
  <2>1. /\ UNCHANGED <<file, table, partial, opened, pc>>
        /\ left' = IF left = 0 THEN 0 ELSE left - 1
        /\ elapsed' = IF locked /\ elapsed < MaxAge THEN elapsed + 1 ELSE elapsed
        /\ gone' = [b \in Bodies |-> IF b = file.body THEN 0
                                     ELSE IF gone[b] < MaxAge THEN gone[b] + 1 ELSE MaxAge]
      BY <1>7 DEF Tick
  <2>2. gone'[file'.body] = 0
      BY <1>0, <2>1
  <2>3. \A b \in Bodies : gone'[b] \in 0..MaxAge /\ gone'[b] <= gone[b] + 1
      BY <1>0, <2>1
  <2>4. left > 0 /\ gone[table.body] + left <= MaxAge =>
            gone'[table.body] + left' <= MaxAge
      BY <1>0, <2>1, <2>3
  <2>5. left' > 0 => left > 0
      BY <1>0, <2>1
  <2>6. ASSUME NEW c \in Callers, pc[c] = "scan" PROVE gone'[opened.body] <= elapsed'
    <3>1. locked
        BY <2>6 DEF Mutex, Reading
    <3>2. elapsed' = IF elapsed < MaxAge THEN elapsed + 1 ELSE elapsed
        BY <2>1, <3>1
    <3>3. gone[opened.body] <= elapsed
        BY <2>6 DEF Aged
    <3> QED
        BY <1>0, <2>3, <3>2, <3>3
  <2> QED
      BY <2>1, <2>2, <2>4, <2>5, <2>6 DEF Aged
<1>8. ASSUME NEW b \in Bodies, NEW s \in Stamps, Write(b, s) PROVE Aged'
  <2>1. /\ file'.body = b /\ gone' = [gone EXCEPT ![b] = 0]
        /\ UNCHANGED <<table, partial, left, elapsed, opened, pc>>
      BY <1>8 DEF Write
  <2>2. gone'[b] = 0 /\ \A d \in Bodies : gone'[d] \in 0..MaxAge /\ gone'[d] <= gone[d]
      BY <1>0, <2>1
  <2>3. gone[table.body] + left <= MaxAge => gone'[table.body] + left' <= MaxAge
      BY <1>0, <2>1, <2>2
  <2>4. gone[opened.body] <= elapsed => gone'[opened.body] <= elapsed'
      BY <1>0, <2>1, <2>2
  <2> QED
      BY <2>1, <2>2, <2>3, <2>4 DEF Aged
<1>9. CASE Delete
  <2>1. /\ file'.body = Empty /\ gone' = [gone EXCEPT ![Empty] = 0]
        /\ UNCHANGED <<table, partial, left, elapsed, opened, pc>>
      BY <1>9 DEF Delete
  <2>2. gone'[Empty] = 0 /\ \A d \in Bodies : gone'[d] \in 0..MaxAge /\ gone'[d] <= gone[d]
      BY <1>0, <2>1
  <2>3. gone[table.body] + left <= MaxAge => gone'[table.body] + left' <= MaxAge
      BY <1>0, <2>1, <2>2
  <2>4. gone[opened.body] <= elapsed => gone'[opened.body] <= elapsed'
      BY <1>0, <2>1, <2>2
  <2> QED
      BY <2>1, <2>2, <2>3, <2>4 DEF Aged
<1>10. CASE UNCHANGED vars
    BY <1>10, AgedKept DEF vars
<1> QED
    BY <1>1, <1>2, <1>3, <1>4, <1>5, <1>6, <1>7, <1>8, <1>9, <1>10 DEF Next, Held

(* Every step keeps the invariant.                                         *)
LEMMA StepInv == IInv /\ [Next]_vars => IInv'
BY StepTypes, StepMutex, StepStamped, StepAged DEF IInv

-----------------------------------------------------------------------------
(* The state is type correct and the mutex is held exactly while one       *)
(* lookup is in readHosts or copies its answer.                            *)
THEOREM TypeCorrect == Spec => []TypeOK
<1>1. IInv => TypeOK
    BY DEF IInv, Types, Flags, Mutex, TypeOK
<1> QED
    BY <1>1, InitInv, StepInv, PTL DEF Spec

(* Comparing the modification time and the size is enough to find every    *)
(* edit, because statFile runs before the file is opened and scanned.      *)
THEOREM StampSoundness == Spec => []StampSound
<1>1. IInv => StampSound
    BY DEF IInv, Stamped, StampSound
<1> QED
    BY <1>1, InitInv, StepInv, PTL DEF Spec

(* The early return of readHosts trusts a table for less than cacheMaxAge  *)
(* after the disk last held its content, however slow the read was.        *)
THEOREM TrustBounded == Spec => BoundedStale
<1>1. ASSUME IInv, [Next]_vars, NEW c \in Callers, pc[c] = "check", pc'[c] = "answer"
      PROVE  partial \/ gone[table.body] < MaxAge
  <2>1. left > 0 /\ table.body # Empty
    <3>1. ASSUME NEW d \in Callers, d # c, Call(d) \/ Lock(d) \/ Held(d)
          PROVE  FALSE
      <4>1. \E l \in {"lock", "idle"} \cup Reading : Goto(d, l)
          BY <3>1 DEF Call, Lock, Held, Check, StatUnchanged, StatChanged, Open, OpenNothing,
                      OpenFails, Scan, Answer, Store, Reading
      <4> QED
          BY <1>1, <3>1, <4>1 DEF Goto, IInv, Types
    <3>2. ~(Tick \/ Delete \/ UNCHANGED vars)
          /\ \A b \in Bodies, s \in Stamps : ~Write(b, s)
        BY <1>1 DEF Tick, Delete, Write, vars
    <3>3. ~(Call(c) \/ Lock(c) \/ StatUnchanged(c) \/ StatChanged(c) \/ Open(c)
            \/ OpenNothing(c) \/ OpenFails(c) \/ Scan(c) \/ Answer(c))
        BY <1>1 DEF Call, Lock, StatUnchanged, StatChanged, Open, OpenNothing, OpenFails,
                    Scan, Answer
    <3>4. Check(c)
        BY <1>1, <3>1, <3>2, <3>3 DEF Next, Held
    <3> QED
        BY <1>1, <3>4 DEF Check, Goto, IInv, Types
  <2>2. ~partial => gone[table.body] + left <= MaxAge
      BY <1>1, <2>1 DEF IInv, Aged
  <2>3. gone[table.body] \in 0..MaxAge /\ left \in 0..MaxAge /\ MaxAge \in Nat
      BY <1>1, HostsAssumption DEF HostsAssumption, IInv, Types, Tables
  <2>4. gone[table.body] + left <= MaxAge => gone[table.body] < MaxAge
      BY <2>1, <2>3
  <2> QED
      BY <2>2, <2>4
<1>2. IInv /\ [Next]_vars =>
          [\A c \in Callers : pc[c] = "check" /\ pc'[c] = "answer" =>
              partial \/ gone[table.body] < MaxAge]_vars
    BY <1>1
<1> QED
    BY <1>2, InitInv, StepInv, PTL DEF Spec, BoundedStale

-----------------------------------------------------------------------------
(* What readHosts makes of a file.                                         *)

KnownAddrs == {Value[a] : a \in DOMAIN Value}
HostKeys == {Key(n) : n \in HostNames}
PrintedNames == {absDomainName(n) : n \in HostNames}

NameEntries == [addrs : Seq(KnownAddrs), canonical : HostKeys]

HostMaps ==
    [byName : UNION {[D -> NameEntries] : D \in SUBSET HostKeys},
     byAddr : UNION {[D -> Seq(PrintedNames)] : D \in SUBSET KnownAddrs}]

AddrsOf(maps, key) == IF key \in DOMAIN maps.byName THEN maps.byName[key].addrs ELSE <<>>
NamesAt(maps, addr) == IF addr \in DOMAIN maps.byAddr THEN maps.byAddr[addr] ELSE <<>>

\* The maps mention each other as often.
Mutual(maps) ==
    \A k \in HostKeys : \A a \in KnownAddrs :
        Mentions(AddrsOf(maps, k), {a}) = Mentions(NamesAt(maps, a), Printed(k))

\* The key has an entry with the address.
Settled(maps, key, addr) ==
    key \in DOMAIN maps.byName /\ addr \in ToSet(maps.byName[key].addrs)

Canonical(maps) ==
    \A k \in DOMAIN maps.byName :
        \E a \in ToSet(maps.byName[k].addrs) : Settled(maps, maps.byName[k].canonical, a)

Agreeing(maps) == maps \in HostMaps /\ Mutual(maps) /\ Canonical(maps)

\* What the one says of canonical names, the other says too.
Keeps(before, maps) ==
    \A k \in DOMAIN before.byName :
        k \in DOMAIN maps.byName /\ maps.byName[k].canonical = before.byName[k].canonical

(* A name printed has the key of the name, and no other key.               *)
LEMMA KeyOfPrinted ==
    ASSUME NEW n \in HostNames
    PROVE  /\ Key(absDomainName(n)) = Key(n) /\ Key(n) \in HostKeys
           /\ absDomainName(n) \in PrintedNames
           /\ \A k \in HostKeys : absDomainName(n) \in Printed(k) <=> k = Key(n)
<1>1. n \in [base : {m.base : m \in HostNames}, dots : BOOLEAN, rooted : BOOLEAN, upper : BOOLEAN]
    BY SpellingsAssumption
<1>2. Key(absDomainName(n)) = Key(n)
    BY <1>1 DEF Key, absDomainName
<1>3. Key(n) \in HostKeys /\ absDomainName(n) \in PrintedNames
    BY DEF HostKeys, PrintedNames
<1>4. \A k \in HostKeys : absDomainName(n) \in Printed(k) <=> k = Key(n)
    BY <1>2 DEF Printed
<1> QED
    BY <1>2, <1>3, <1>4

(* A mention more, or not.                                                 *)
LEMMA MentionsNext ==
    ASSUME NEW S, NEW s \in Seq(S), NEW x \in S, NEW K
    PROVE  Mentions(Append(s, x), K) = IF x \in K THEN Mentions(s, K) + 1 ELSE Mentions(s, K)
<1>1. Only(s, K) \in Seq(S)
    BY OnlyType
<1>2. Len(Append(Only(s, K), x)) = Len(Only(s, K)) + 1
    BY <1>1, AppendProperties
<1> QED
    BY <1>2, OnlyOfAppend DEF Mentions

(* The maps after one name: its address is one more of its key, its name   *)
(* one more of its address, and everything else as before.                 *)
LEMMA AddNameShape ==
    ASSUME NEW maps \in HostMaps, NEW addr \in KnownAddrs, NEW name \in HostNames,
           NEW canonical \in HostKeys, NEW new, new = AddName(maps, addr, name, canonical)
    PROVE  /\ new \in HostMaps
           /\ DOMAIN new.byName = DOMAIN maps.byName \cup {Key(name)}
           /\ \A k \in HostKeys : AddrsOf(new, k) =
                  IF k = Key(name) THEN Append(AddrsOf(maps, k), addr) ELSE AddrsOf(maps, k)
           /\ \A a \in KnownAddrs : NamesAt(new, a) =
                  IF a = addr THEN Append(NamesAt(maps, a), absDomainName(name)) ELSE NamesAt(maps, a)
           /\ \A k \in DOMAIN new.byName : new.byName[k].canonical =
                  IF k \in DOMAIN maps.byName THEN maps.byName[k].canonical ELSE canonical
<1> DEFINE key == Key(name)
           printed == absDomainName(name)
           D == DOMAIN maps.byName \cup {key}
           E == DOMAIN maps.byAddr \cup {addr}
           entry == [addrs |-> Append(AddrsOf(maps, key), addr),
                     canonical |-> IF key \in DOMAIN maps.byName THEN maps.byName[key].canonical
                                   ELSE canonical]
           names == Append(NamesAt(maps, addr), printed)
           byName == [k \in D |-> IF k # key THEN maps.byName[k] ELSE entry]
           byAddr == [a \in E |-> IF a # addr THEN maps.byAddr[a] ELSE names]
<1>1. key \in HostKeys /\ printed \in PrintedNames
    BY KeyOfPrinted
<1>2. /\ DOMAIN maps.byName \subseteq HostKeys /\ DOMAIN maps.byAddr \subseteq KnownAddrs
      /\ \A k \in DOMAIN maps.byName : maps.byName[k] \in NameEntries
      /\ \A a \in DOMAIN maps.byAddr : maps.byAddr[a] \in Seq(PrintedNames)
    BY DEF HostMaps
<1>3. AddrsOf(maps, key) \in Seq(KnownAddrs) /\ NamesAt(maps, addr) \in Seq(PrintedNames)
    BY <1>2 DEF AddrsOf, NamesAt, NameEntries
<1>4. names \in Seq(PrintedNames) /\ entry \in NameEntries
    BY <1>1, <1>2, <1>3, AppendProperties DEF NameEntries
<1>5. new = [byName |-> byName, byAddr |-> byAddr]
    <2>1. names = NamesAt(maps, addr) \o <<printed>>
        BY <1>1, <1>3, AppendIsConcat
    <2>2. CASE key \in DOMAIN maps.byName
        <3>1. \A r \in [addrs : Seq(KnownAddrs), canonical : HostKeys] :
                  [r EXCEPT !.addrs = Append(@, addr)] =
                      [addrs |-> Append(r.addrs, addr), canonical |-> r.canonical]
            BY Z3T(30)
        <3>2. [maps.byName[key] EXCEPT !.addrs = Append(@, addr)] = entry
            <4> DEFINE r == maps.byName[key]
            <4>1. r \in [addrs : Seq(KnownAddrs), canonical : HostKeys]
                BY <1>2, <2>2 DEF NameEntries
            <4>2. entry = [addrs |-> Append(r.addrs, addr), canonical |-> r.canonical]
                BY <2>2 DEF AddrsOf
            <4> HIDE DEF r, entry
            <4>3. [r EXCEPT !.addrs = Append(@, addr)] = entry
                BY <3>1, <4>1, <4>2
            <4> QED
                BY <4>3 DEF r
        <3> QED
            BY <2>1, <2>2, <3>2 DEF AddName, NamesAt
    <2>3. CASE key \notin DOMAIN maps.byName
        <3>1. [addrs |-> <<addr>>, canonical |-> canonical] = entry
            BY <2>3 DEF AddrsOf
        <3> QED
            BY <2>1, <2>3, <3>1 DEF AddName, NamesAt
    <2> QED
        BY <2>2, <2>3
<1> HIDE DEF key, printed, entry, names
<1>6. byName \in [D -> NameEntries] /\ D \in SUBSET HostKeys
    BY <1>1, <1>2, <1>4
<1>7. byAddr \in [E -> Seq(PrintedNames)] /\ E \in SUBSET KnownAddrs
    BY <1>2, <1>4
<1>8. new.byName = byName /\ new.byAddr = byAddr
    BY <1>5
<1>9. new \in HostMaps
    <2>1. byName \in UNION {[C -> NameEntries] : C \in SUBSET HostKeys}
        <3> HIDE DEF byName, D
        <3> QED
            BY <1>6
    <2>2. byAddr \in UNION {[C -> Seq(PrintedNames)] : C \in SUBSET KnownAddrs}
        <3> HIDE DEF byAddr, E
        <3> QED
            BY <1>7
    <2> HIDE DEF byName, byAddr
    <2> QED
        BY <1>5, <2>1, <2>2 DEF HostMaps
<1>10. DOMAIN new.byName = D
    BY <1>8
<1>11. \A k \in HostKeys : AddrsOf(new, k) =
           IF k = key THEN Append(AddrsOf(maps, k), addr) ELSE AddrsOf(maps, k)
    BY <1>8 DEF AddrsOf, entry
<1>12. \A a \in KnownAddrs : NamesAt(new, a) =
           IF a = addr THEN Append(NamesAt(maps, a), printed) ELSE NamesAt(maps, a)
    BY <1>8 DEF NamesAt, names
<1>13. \A k \in DOMAIN new.byName : new.byName[k].canonical =
           IF k \in DOMAIN maps.byName THEN maps.byName[k].canonical ELSE canonical
    BY <1>8 DEF entry
<1> QED
    BY <1>9, <1>10, <1>11, <1>12, <1>13 DEF key, printed

(* The types of what the maps say.                                         *)
LEMMA EntryTypes ==
    ASSUME NEW maps \in HostMaps
    PROVE  /\ DOMAIN maps.byName \subseteq HostKeys
           /\ \A k \in DOMAIN maps.byName :
                  maps.byName[k].addrs = AddrsOf(maps, k) /\ maps.byName[k].canonical \in HostKeys
           /\ \A k \in HostKeys : AddrsOf(maps, k) \in Seq(KnownAddrs)
           /\ \A a \in KnownAddrs : NamesAt(maps, a) \in Seq(PrintedNames)
<1>1. /\ DOMAIN maps.byName \subseteq HostKeys /\ DOMAIN maps.byAddr \subseteq KnownAddrs
      /\ \A k \in DOMAIN maps.byName : maps.byName[k] \in NameEntries
      /\ \A a \in DOMAIN maps.byAddr : maps.byAddr[a] \in Seq(PrintedNames)
    BY DEF HostMaps
<1> QED
    BY <1>1 DEF AddrsOf, NamesAt, NameEntries

(* One name keeps the maps in agreement, if the canonical name is settled  *)
(* or it is the name itself; after it, the canonical name is settled.      *)
LEMMA AddNameAgrees ==
    ASSUME NEW maps, Agreeing(maps), NEW addr \in KnownAddrs, NEW name \in HostNames,
           NEW canonical \in HostKeys, NEW new, new = AddName(maps, addr, name, canonical),
           canonical = Key(name) \/ Settled(maps, canonical, addr)
    PROVE  Agreeing(new) /\ Settled(new, canonical, addr) /\ Keeps(maps, new)
<1> DEFINE key == Key(name)
           printed == absDomainName(name)
<1>1. maps \in HostMaps /\ Mutual(maps) /\ Canonical(maps)
    BY DEF Agreeing
<1>2. /\ new \in HostMaps
      /\ DOMAIN new.byName = DOMAIN maps.byName \cup {key}
      /\ \A k \in HostKeys : AddrsOf(new, k) =
             IF k = key THEN Append(AddrsOf(maps, k), addr) ELSE AddrsOf(maps, k)
      /\ \A a \in KnownAddrs : NamesAt(new, a) =
             IF a = addr THEN Append(NamesAt(maps, a), printed) ELSE NamesAt(maps, a)
      /\ \A k \in DOMAIN new.byName : new.byName[k].canonical =
             IF k \in DOMAIN maps.byName THEN maps.byName[k].canonical ELSE canonical
    BY <1>1, AddNameShape
<1>3. /\ key \in HostKeys /\ printed \in PrintedNames
      /\ \A k \in HostKeys : printed \in Printed(k) <=> k = key
    BY KeyOfPrinted
<1> HIDE DEF key, printed
<1>4. /\ \A k \in HostKeys : AddrsOf(maps, k) \in Seq(KnownAddrs)
      /\ \A a \in KnownAddrs : NamesAt(maps, a) \in Seq(PrintedNames)
      /\ DOMAIN maps.byName \subseteq HostKeys
      /\ \A k \in DOMAIN maps.byName :
             maps.byName[k].addrs = AddrsOf(maps, k) /\ maps.byName[k].canonical \in HostKeys
    BY <1>1, EntryTypes
<1>5. \A k \in DOMAIN new.byName : new.byName[k].addrs = AddrsOf(new, k)
    BY <1>2, EntryTypes
<1>6. Mutual(new)
    <2> SUFFICES ASSUME NEW k \in HostKeys, NEW a \in KnownAddrs
                 PROVE  Mentions(AddrsOf(new, k), {a}) = Mentions(NamesAt(new, a), Printed(k))
        BY DEF Mutual
    <2> DEFINE s == AddrsOf(maps, k)
               t == NamesAt(maps, a)
    <2>1. s \in Seq(KnownAddrs) /\ t \in Seq(PrintedNames)
        BY <1>4
    <2>2. Mentions(s, {a}) = Mentions(t, Printed(k))
        BY <1>1 DEF Mutual
    <2>3. AddrsOf(new, k) = IF k = key THEN Append(s, addr) ELSE s
        BY <1>2
    <2>4. NamesAt(new, a) = IF a = addr THEN Append(t, printed) ELSE t
        BY <1>2
    <2> HIDE DEF s, t
    <2>5. Mentions(Append(s, addr), {a}) =
              IF a = addr THEN Mentions(s, {a}) + 1 ELSE Mentions(s, {a})
        BY <2>1, MentionsNext
    <2>6. Mentions(Append(t, printed), Printed(k)) =
              IF k = key THEN Mentions(t, Printed(k)) + 1 ELSE Mentions(t, Printed(k))
        BY <1>3, <2>1, MentionsNext
    <2> QED
        BY <2>2, <2>3, <2>4, <2>5, <2>6
<1>7. \A k \in DOMAIN maps.byName : ToSet(AddrsOf(maps, k)) \subseteq ToSet(AddrsOf(new, k))
    <2> SUFFICES ASSUME NEW k \in DOMAIN maps.byName
                 PROVE  ToSet(AddrsOf(maps, k)) \subseteq ToSet(AddrsOf(new, k))
        OBVIOUS
    <2> DEFINE s == AddrsOf(maps, k)
    <2>1. k \in HostKeys /\ s \in Seq(KnownAddrs)
        BY <1>4
    <2>2. AddrsOf(new, k) = Append(s, addr) \/ AddrsOf(new, k) = s
        BY <1>2, <2>1
    <2> HIDE DEF s
    <2>3. ToSet(Append(s, addr)) = ToSet(s) \cup {addr}
        BY <2>1, ToSetOfAppend
    <2> QED
        BY <2>2, <2>3 DEF s
<1>8. addr \in ToSet(AddrsOf(new, key))
    <2> DEFINE s == AddrsOf(maps, key)
    <2>1. s \in Seq(KnownAddrs) /\ AddrsOf(new, key) = Append(s, addr)
        BY <1>2, <1>3, <1>4
    <2> HIDE DEF s
    <2> QED
        BY <2>1, ToSetOfAppend
<1>9. \A k, a : Settled(maps, k, a) => Settled(new, k, a)
    BY <1>2, <1>4, <1>5, <1>7 DEF Settled
<1>10. Settled(new, key, addr)
    BY <1>2, <1>5, <1>8 DEF Settled
<1>11. Settled(new, canonical, addr)
    BY <1>9, <1>10 DEF key
<1>12. Canonical(new)
    <2> SUFFICES ASSUME NEW k \in DOMAIN new.byName
                 PROVE  \E a \in ToSet(new.byName[k].addrs) : Settled(new, new.byName[k].canonical, a)
        BY DEF Canonical
    <2>1. CASE k \in DOMAIN maps.byName
        <3>1. PICK a \in ToSet(maps.byName[k].addrs) : Settled(maps, maps.byName[k].canonical, a)
            BY <1>1, <2>1 DEF Canonical
        <3>2. a \in ToSet(new.byName[k].addrs)
            BY <1>4, <1>5, <1>7, <2>1, <3>1
        <3>3. Settled(new, new.byName[k].canonical, a)
            BY <1>2, <1>9, <2>1, <3>1
        <3> QED
            BY <3>2, <3>3
    <2>2. CASE k \notin DOMAIN maps.byName
        <3>1. k = key /\ new.byName[k].canonical = canonical
            BY <1>2, <2>2
        <3>2. addr \in ToSet(new.byName[k].addrs)
            BY <1>5, <1>8, <3>1
        <3> QED
            BY <1>11, <3>1, <3>2
    <2> QED
        BY <2>1, <2>2
<1>13. Keeps(maps, new)
    BY <1>2 DEF Keeps
<1> QED
    BY <1>2, <1>6, <1>11, <1>12, <1>13 DEF Agreeing

\* F follows the names of a line.
Added(F, s, maps, addr, canonical) ==
    /\ F[0] = maps
    /\ F[Len(s)] = AddNames(maps, addr, s, canonical)
    /\ \A n \in 1..Len(s) : F[n] = AddName(F[n - 1], addr, s[n], canonical)

(* The loop over the names of a line adds one at a time.                   *)
LEMMA AddNameSteps ==
    ASSUME NEW maps \in HostMaps, NEW s \in Seq(HostNames), NEW addr \in KnownAddrs,
           NEW canonical \in HostKeys
    PROVE  \E F \in [0..Len(s) -> HostMaps] : Added(F, s, maps, addr, canonical)
<1> DEFINE N == Len(s)
           V == HostMaps
           base == maps
           Take(m, name) == AddName(m, addr, name, canonical)
           step == [p \in V \X (1..N) |-> Take(p[1], s[p[2]])]
           IsFold(f) == f = [T \in SUBSET (1..N) |->
               IF T = {} THEN base ELSE Take(f[T \ {Max(T)}], s[Max(T)])]
           g == CHOOSE f : IsFold(f)
<1>1. N \in Nat /\ DOMAIN s = 1..N /\ \A n \in 1..N : s[n] \in HostNames
    BY LenProperties
<1>2. base \in V /\ step \in [V \X (1..N) -> V]
    <2>1. \A m \in V : \A n \in 1..N : Take(m, s[n]) \in V
        BY <1>1, AddNameShape
    <2> HIDE DEF V, N, Take
    <2> QED
        BY <2>1 DEF V
<1>3. IsFold(g)
    <2>1. PICK f \in [SUBSET (1..N) -> V] : Table(f, N, base, step)
        <3> HIDE DEF step, N, V, base
        <3> QED
            BY <1>1, <1>2, FoldExists
    <2>2. ASSUME NEW T \in SUBSET (1..N), T # {}
          PROVE  step[<<f[T \ {Max(T)}], Max(T)>>] = Take(f[T \ {Max(T)}], s[Max(T)])
        <3>1. Max(T) \in T
            BY <1>1, <2>2, MaxIsMember
        <3> HIDE DEF Take, V
        <3> QED
            BY <2>1, <3>1
    <2>3. IsFold(f)
        <3> HIDE DEF Take, step
        <3> QED
            BY <2>1, <2>2 DEF Table
    <2> HIDE DEF IsFold
    <2> QED
        BY <2>3
<1>4. AddNames(maps, addr, s, canonical) = g[1..N]
    BY <1>1, Zenon DEF AddNames, FoldLeft, MapThenFoldSet
<1>5. g[{}] = base
    <2> HIDE DEF Take
    <2> QED
        BY <1>3
<1>6. ASSUME NEW n \in 1..N PROVE g[1..n] = Take(g[1..(n - 1)], s[n])
    <2>1. 1..n \in SUBSET (1..N) /\ 1..n # {} /\ Max(1..n) = n /\ (1..n) \ {n} = 1..(n - 1)
        BY <1>1, MaxOfRange
    <2> HIDE DEF g, N, Take
    <2> QED
        BY <1>3, <2>1
<1>7. ASSUME NEW n \in 1..N, NEW a \in V PROVE step[<<a, n>>] = Take(a, s[n])
    <2> HIDE DEF Take, V
    <2> QED
        OBVIOUS
<1> HIDE DEF g, Take, N, step, V, base
<1>8. PICK F \in [0..N -> V] : F[N] = g[1..N] /\ Path(F, N, base, step)
    <2>1. \A n \in 1..N : g[1..(n - 1)] \in V => g[1..n] = step[<<g[1..(n - 1)], n>>]
        BY <1>6, <1>7
    <2>2. N \in Nat /\ base \in V /\ step \in [V \X (1..N) -> V] /\ g[{}] = base
        BY <1>1, <1>2, <1>5
    <2> QED
        BY <2>1, <2>2, FoldAlong, ZenonT(60)
<1>9. \A n \in 1..N : F[n] = Take(F[n - 1], s[n])
    <2> SUFFICES ASSUME NEW n \in 1..N PROVE F[n] = Take(F[n - 1], s[n])
        OBVIOUS
    <2>1. n - 1 \in 0..N
        BY <1>1
    <2>2. F[n - 1] \in V
        BY <2>1
    <2> QED
        BY <2>2, <1>7, <1>8 DEF Path
<1> QED
    BY <1>4, <1>8, <1>9 DEF Added, Path, Take, N, V, base

HostLines == [addr : Spellings, names : Seq(HostNames)]

(* A line that is not passed over: its address and its canonical name.     *)
LEMMA LineShape ==
    ASSUME NEW maps, NEW line \in HostLines
    PROVE  \/ AddLine(maps, line) = maps
           \/ \E addr \in KnownAddrs :
                  /\ line.names \in Seq(HostNames) /\ Len(line.names) \in Nat /\ Len(line.names) >= 1
                  /\ line.names[1] \in HostNames
                  /\ AddLine(maps, line) = AddNames(maps, addr, line.names, Key(line.names[1]))
<1> DEFINE addr == parseLiteralIP(line.addr)
           s == line.names
<1>1. CASE s = <<>> \/ addr = ""
    BY <1>1 DEF AddLine
<1>2. CASE s # <<>> /\ addr # ""
    <2>1. addr \in KnownAddrs
        BY <1>2 DEF parseLiteralIP, KnownAddrs
    <2>2. s \in Seq(HostNames)
        BY DEF HostLines
    <2>3. Len(s) \in Nat /\ Len(s) >= 1 /\ s[1] \in HostNames
        <3> HIDE DEF s
        <3>1. Len(s) \in Nat /\ Len(s) # 0
            BY <1>2, <2>2, EmptySeq, LenProperties
        <3>2. 1 \in 1..Len(s)
            BY <3>1
        <3>3. s[1] \in HostNames
            BY <2>2, <3>2, LenProperties
        <3> QED
            BY <3>1, <3>3
    <2>4. AddLine(maps, line) = AddNames(maps, addr, line.names, Key(line.names[1]))
        BY <1>2 DEF AddLine
    <2> HIDE DEF addr
    <2> QED
        BY <2>1, <2>2, <2>3, <2>4
<1> QED
    BY <1>1, <1>2

(* One line keeps the maps in agreement, and the canonical names.          *)
LEMMA LineAgrees ==
    ASSUME NEW maps, Agreeing(maps), NEW line \in HostLines
    PROVE  Agreeing(AddLine(maps, line)) /\ Keeps(maps, AddLine(maps, line))
<1> DEFINE s == line.names
           new == AddLine(maps, line)
           N == Len(s)
           c == Key(s[1])
<1>1. CASE new = maps
    BY <1>1 DEF Keeps
<1>2. ASSUME NEW addr \in KnownAddrs, s \in Seq(HostNames), N \in Nat, N >= 1, s[1] \in HostNames,
             new = AddNames(maps, addr, s, c)
      PROVE  Agreeing(new) /\ Keeps(maps, new)
    <2>0. maps \in HostMaps
        BY DEF Agreeing
    <2>1. c \in HostKeys /\ \A n \in 1..N : s[n] \in HostNames
        BY <1>2, KeyOfPrinted, LenProperties
    <2> HIDE DEF s, c, new
    <2>2. PICK F \in [0..N -> HostMaps] : Added(F, s, maps, addr, c)
        BY <1>2, <2>0, <2>1, AddNameSteps
    <2> HIDE DEF N
    <2> DEFINE Ok(n) == /\ Agreeing(F[n]) /\ Keeps(maps, F[n])
                        /\ n >= 1 => Settled(F[n], c, addr)
               G == {n \in 0..N : Ok(n)}
    <2>3. 0 \in G
        <3>1. F[0] = maps /\ Keeps(maps, maps)
            BY <2>2 DEF Added, Keeps
        <3>2. Agreeing(F[0]) /\ Keeps(maps, F[0])
            BY <3>1
        <3>3. Ok(0) /\ 0 \in 0..N
            BY <1>2, <3>2
        <3> HIDE DEF Ok
        <3> QED
            BY <3>3
    <2>4. ASSUME NEW n \in 1..N, n - 1 \in G PROVE n \in G
        <3>1. F[n] = AddName(F[n - 1], addr, s[n], c) /\ s[n] \in HostNames
            BY <2>1, <2>2 DEF Added, N
        <3>2. Agreeing(F[n - 1]) /\ Keeps(maps, F[n - 1]) /\ (n - 1 >= 1 => Settled(F[n - 1], c, addr))
            BY <2>4
        <3>3. c = Key(s[n]) \/ Settled(F[n - 1], c, addr)
            <4>1. CASE n = 1
                BY <4>1 DEF c
            <4>2. CASE n # 1
                BY <3>2, <4>2
            <4> QED
                BY <4>1, <4>2
        <3>4. Agreeing(F[n]) /\ Settled(F[n], c, addr) /\ Keeps(F[n - 1], F[n])
            BY <2>1, <3>1, <3>2, <3>3, AddNameAgrees
        <3>5. Keeps(maps, F[n])
            BY <3>2, <3>4 DEF Keeps
        <3> QED
            BY <3>4, <3>5
    <2> HIDE DEF G
    <2>5. N \in G
        <3>1. N \in Nat /\ 0 \in G /\ \A n \in 1..N : n - 1 \in G => n \in G
            BY <1>2, <2>3, <2>4
        <3>2. \A n \in 0..N : n \in G
            BY <3>1, AlongInduction, Zenon
        <3> QED
            BY <3>1, <3>2
    <2>6. F[N] = new
        BY <1>2, <2>2 DEF Added, N
    <2> QED
        BY <2>5, <2>6 DEF G
<1> QED
    <2> HIDE DEF new
    <2>1. \/ new = maps
          \/ \E addr \in KnownAddrs :
                  /\ s \in Seq(HostNames) /\ N \in Nat /\ N >= 1 /\ s[1] \in HostNames
                  /\ new = AddNames(maps, addr, s, c)
        BY LineShape DEF new
    <2> HIDE DEF s, N, c
    <2> QED
        BY <1>1, <1>2, <2>1 DEF new

(* One line keeps the types of the maps.                                   *)
LEMMA LineType ==
    ASSUME NEW maps \in HostMaps, NEW line \in HostLines PROVE AddLine(maps, line) \in HostMaps
<1> DEFINE s == line.names
           c == Key(s[1])
           new == AddLine(maps, line)
<1>1. CASE new = maps
    BY <1>1
<1>2. ASSUME NEW addr \in KnownAddrs, s \in Seq(HostNames), Len(s) \in Nat, s[1] \in HostNames,
             new = AddNames(maps, addr, s, c)
      PROVE  new \in HostMaps
    <2>1. c \in HostKeys
        BY <1>2, KeyOfPrinted
    <2> HIDE DEF s, c, new
    <2>2. PICK F \in [0..Len(s) -> HostMaps] : Added(F, s, maps, addr, c)
        BY <1>2, <2>1, AddNameSteps
    <2> QED
        BY <1>2, <2>2 DEF Added
<1> QED
    <2> HIDE DEF new
    <2>1. \/ new = maps
          \/ \E addr \in KnownAddrs :
                  /\ s \in Seq(HostNames) /\ Len(s) \in Nat /\ s[1] \in HostNames
                  /\ new = AddNames(maps, addr, s, c)
        BY LineShape DEF new
    <2> HIDE DEF s, c
    <2> QED
        BY <1>1, <1>2, <2>1 DEF new

\* F follows the lines of a file.
Followed(F, s) ==
    /\ F[0] = NoEntries /\ F[Len(s)] = readHosts(s)
    /\ \A n \in 1..Len(s) : F[n] = AddLine(F[n - 1], s[n])

(* Maps without an entry agree.                                            *)
LEMMA NoEntriesAgree == Agreeing(NoEntries)
<1>1. NoEntries \in HostMaps
    <2>1. <<>> \in [{} -> NameEntries] /\ <<>> \in [{} -> Seq(PrintedNames)]
        OBVIOUS
    <2>2. {} \in SUBSET HostKeys /\ {} \in SUBSET KnownAddrs
        OBVIOUS
    <2>3. <<>> \in UNION {[D -> NameEntries] : D \in SUBSET HostKeys}
        BY <2>1, <2>2
    <2>4. <<>> \in UNION {[D -> Seq(PrintedNames)] : D \in SUBSET KnownAddrs}
        BY <2>1, <2>2
    <2> QED
        BY <2>3, <2>4 DEF HostMaps, NoEntries
<1>2. Mutual(NoEntries)
    <2>1. \A k \in HostKeys : AddrsOf(NoEntries, k) = <<>>
        BY DEF AddrsOf, NoEntries
    <2>2. \A a \in KnownAddrs : NamesAt(NoEntries, a) = <<>>
        BY DEF NamesAt, NoEntries
    <2> QED
        BY <2>1, <2>2, OnlyOfNone DEF Mutual, Mentions
<1>3. Canonical(NoEntries)
    BY DEF Canonical, NoEntries
<1> QED
    BY <1>1, <1>2, <1>3 DEF Agreeing

(* The loop over the lines adds one at a time.                             *)
LEMMA LineSteps ==
    ASSUME NEW s \in Seq(HostLines)
    PROVE  \E F \in [0..Len(s) -> HostMaps] : Followed(F, s)
<1> DEFINE N == Len(s)
           V == HostMaps
           base == NoEntries
           step == [p \in V \X (1..N) |-> AddLine(p[1], s[p[2]])]
           IsFold(f) == f = [T \in SUBSET (1..N) |->
               IF T = {} THEN base ELSE AddLine(f[T \ {Max(T)}], s[Max(T)])]
           g == CHOOSE f : IsFold(f)
<1>1. N \in Nat /\ DOMAIN s = 1..N /\ \A n \in 1..N : s[n] \in HostLines
    BY LenProperties
<1>2. base \in V /\ step \in [V \X (1..N) -> V]
    <2>1. \A m \in V : \A n \in 1..N : AddLine(m, s[n]) \in V
        BY <1>1, LineType
    <2>2. base \in V
        BY NoEntriesAgree DEF Agreeing
    <2> HIDE DEF V, N, base
    <2> QED
        BY <2>1, <2>2
<1>3. IsFold(g)
    <2>1. PICK f \in [SUBSET (1..N) -> V] : Table(f, N, base, step)
        <3> HIDE DEF step, N, V, base
        <3> QED
            BY <1>1, <1>2, FoldExists
    <2>2. ASSUME NEW T \in SUBSET (1..N), T # {}
          PROVE  step[<<f[T \ {Max(T)}], Max(T)>>] = AddLine(f[T \ {Max(T)}], s[Max(T)])
        <3>1. Max(T) \in T
            BY <1>1, <2>2, MaxIsMember
        <3> HIDE DEF V
        <3> QED
            BY <2>1, <3>1
    <2>3. IsFold(f)
        <3> HIDE DEF step
        <3> QED
            BY <2>1, <2>2 DEF Table
    <2> HIDE DEF IsFold
    <2> QED
        BY <2>3
<1>4. readHosts(s) = g[1..N]
    BY <1>1, Zenon DEF readHosts, FoldLeft, MapThenFoldSet
<1>5. g[{}] = base
    BY <1>3
<1>6. ASSUME NEW n \in 1..N PROVE g[1..n] = AddLine(g[1..(n - 1)], s[n])
    <2>1. 1..n \in SUBSET (1..N) /\ 1..n # {} /\ Max(1..n) = n /\ (1..n) \ {n} = 1..(n - 1)
        BY <1>1, MaxOfRange
    <2> HIDE DEF g, N
    <2> QED
        BY <1>3, <2>1
<1>7. ASSUME NEW n \in 1..N, NEW a \in V PROVE step[<<a, n>>] = AddLine(a, s[n])
    <2> HIDE DEF V
    <2> QED
        OBVIOUS
<1> HIDE DEF g, N, step, V, base
<1>8. PICK F \in [0..N -> V] : F[N] = g[1..N] /\ Path(F, N, base, step)
    <2>1. \A n \in 1..N : g[1..(n - 1)] \in V => g[1..n] = step[<<g[1..(n - 1)], n>>]
        BY <1>6, <1>7
    <2>2. N \in Nat /\ base \in V /\ step \in [V \X (1..N) -> V] /\ g[{}] = base
        BY <1>1, <1>2, <1>5
    <2> QED
        BY <2>1, <2>2, FoldAlong, ZenonT(60)
<1>9. \A n \in 1..N : F[n] = AddLine(F[n - 1], s[n])
    <2> SUFFICES ASSUME NEW n \in 1..N PROVE F[n] = AddLine(F[n - 1], s[n])
        OBVIOUS
    <2>1. n - 1 \in 0..N
        BY <1>1
    <2>2. F[n - 1] \in V
        BY <2>1
    <2> QED
        BY <2>2, <1>7, <1>8 DEF Path
<1> QED
    BY <1>4, <1>8, <1>9 DEF Followed, Path, N, V, base

(* The maps of a file agree.                                               *)
LEMMA FileAgrees ==
    ASSUME NEW s \in Seq(HostLines) PROVE Agreeing(readHosts(s))
<1>1. PICK F : Followed(F, s)
    BY LineSteps
<1> DEFINE N == Len(s)
           G == {n \in 0..N : Agreeing(F[n])}
<1>2. N \in Nat /\ \A n \in 1..N : s[n] \in HostLines
    BY LenProperties
<1>3. 0 \in G
    BY <1>1, <1>2, NoEntriesAgree DEF Followed
<1>4. ASSUME NEW n \in 1..N, n - 1 \in G PROVE n \in G
    BY <1>1, <1>2, <1>4, LineAgrees DEF Followed
<1> HIDE DEF N, G
<1>5. N \in G
    <2>1. N \in Nat /\ 0 \in G /\ \A n \in 1..N : n - 1 \in G => n \in G
        BY <1>2, <1>3, <1>4
    <2>2. \A n \in 0..N : n \in G
        BY <2>1, AlongInduction, Zenon
    <2> QED
        BY <2>1, <2>2
<1> QED
    BY <1>1, <1>5 DEF Followed, G, N

(* The maps of a longer file are those of the file and a line.             *)
LEMMA FileNextLine ==
    ASSUME NEW s \in Seq(HostLines), NEW line \in HostLines
    PROVE  readHosts(Append(s, line)) = AddLine(readHosts(s), line)
<1> DEFINE t == Append(s, line)
           N == Len(s)
<1>1. /\ t \in Seq(HostLines) /\ N \in Nat /\ Len(t) = N + 1
      /\ t[N + 1] = line /\ \A n \in 1..N : t[n] = s[n]
    BY AppendProperties, LenProperties
<1> HIDE DEF t
<1>2. PICK F : Followed(F, s)
    BY LineSteps
<1>3. PICK E : Followed(E, t)
    BY <1>1, LineSteps
<1> HIDE DEF N
<1> DEFINE G == {n \in 0..N : E[n] = F[n]}
<1>4. 0 \in G
    BY <1>1, <1>2, <1>3 DEF Followed
<1>5. ASSUME NEW n \in 1..N, n - 1 \in G PROVE n \in G
    <2>1. n \in 1..Len(t) /\ n \in 1..Len(s) /\ t[n] = s[n]
        BY <1>1 DEF N
    <2>2. E[n] = AddLine(E[n - 1], t[n]) /\ F[n] = AddLine(F[n - 1], s[n])
        BY <1>2, <1>3, <2>1 DEF Followed
    <2> QED
        BY <1>5, <2>1, <2>2
<1> HIDE DEF G
<1>6. N \in G
    <2>1. N \in Nat /\ 0 \in G /\ \A n \in 1..N : n - 1 \in G => n \in G
        BY <1>1, <1>4, <1>5
    <2>2. \A n \in 0..N : n \in G
        BY <2>1, AlongInduction, Zenon
    <2> QED
        BY <2>1, <2>2
<1>7. E[N] = readHosts(s)
    BY <1>2, <1>6 DEF Followed, G, N
<1>8. N + 1 \in 1..Len(t) /\ (N + 1) - 1 = N
    BY <1>1
<1>9. E[N + 1] = AddLine(E[N], line)
    BY <1>1, <1>3, <1>8 DEF Followed
<1> QED
    BY <1>1, <1>3, <1>7, <1>9 DEF Followed, t

(* Every file the run reads is one of lines.                               *)
LEMMA HostsOfLines == HostsSpec => [](hosts \in Seq(HostLines))
<1>1. HostsInit => hosts \in Seq(HostLines)
    <2>1. ASSUME NEW n \in Nat, NEW q \in BoundedSeq(HostNames, n) PROVE q \in Seq(HostNames)
        BY <2>1, FunctionIsSeq DEF BoundedSeq, SeqOf
    <2>2. [addr : Spellings, names : BoundedSeq(HostNames, MaxNames)] \subseteq HostLines
        BY <2>1, SpellingsAssumption DEF HostLines
    <2>3. ASSUME NEW q \in [1..MaxHosts -> [addr : Spellings, names : BoundedSeq(HostNames, MaxNames)]]
          PROVE  q \in Seq(HostLines)
        <3>1. q \in [1..MaxHosts -> HostLines]
            BY <2>2
        <3> QED
            BY <3>1, SpellingsAssumption, FunctionIsSeq
    <2> QED
        BY <2>3 DEF HostsInit
<1>2. hosts \in Seq(HostLines) /\ [HostsNext]_hosts => (hosts \in Seq(HostLines))'
    <2> SUFFICES ASSUME hosts \in Seq(HostLines), NEW k \in DOMAIN hosts, hosts' = RemoveAt(hosts, k)
                 PROVE  hosts' \in Seq(HostLines)
        BY DEF HostsNext
    <2>1. Len(hosts) \in Nat /\ k \in 1..Len(hosts) /\ \A n \in 1..Len(hosts) : hosts[n] \in HostLines
        BY LenProperties
    <2>2. SubSeq(hosts, 1, k - 1) \in Seq(HostLines) /\ SubSeq(hosts, k + 1, Len(hosts)) \in Seq(HostLines)
        <3>1. \A n \in 1..(k - 1) : hosts[n] \in HostLines
            BY <2>1
        <3>2. \A n \in (k + 1)..Len(hosts) : hosts[n] \in HostLines
            BY <2>1
        <3> QED
            BY <2>1, <3>1, <3>2, SubSeqProperties
    <2> QED
        BY <2>2, ConcatProperties DEF RemoveAt
<1> QED
    BY <1>1, <1>2, PTL DEF HostsSpec

(* Whatever /etc/hosts holds, the two maps readHosts makes of it mention   *)
(* each other as often, each canonical name has an entry and an address    *)
(* with the names it is for, and no later line changes it.                 *)
THEOREM AnyHostsMutual == HostsSpec => []HostsMutual
<1>1. hosts \in Seq(HostLines) => HostsMutual
    <2> SUFFICES ASSUME hosts \in Seq(HostLines) PROVE HostsMutual
        OBVIOUS
    <2> DEFINE maps == readHosts(hosts)
               before == readHosts(SubSeq(hosts, 1, Len(hosts) - 1))
    <2>1. Agreeing(maps)
        BY FileAgrees
    <2>2. Keeps(before, maps)
        <3>1. CASE hosts = <<>>
            <4>1. SubSeq(hosts, 1, Len(hosts) - 1) = hosts
                BY <3>1, EmptySeq, SubSeqEmpty
            <4> QED
                BY <4>1 DEF Keeps
        <3>2. CASE hosts # <<>>
            <4>1. PICK s \in Seq(HostLines), line \in HostLines : hosts = Append(s, line)
                BY <3>2, SequenceEmptyOrAppend
            <4>2. Len(s) \in Nat /\ Len(hosts) = Len(s) + 1
                BY <4>1, AppendProperties, LenProperties
            <4>3. SubSeq(hosts, 1, Len(hosts) - 1) = s
                <5>1. Len(s) \in 0..Len(s) /\ Len(hosts) - 1 = Len(s)
                    BY <4>2
                <5> QED
                    BY <4>1, <5>1, SubSeqOfAppend, SubSeqFull
            <4>4. Agreeing(readHosts(s)) /\ maps = AddLine(readHosts(s), line)
                BY <4>1, FileAgrees, FileNextLine
            <4> QED
                BY <4>3, <4>4, LineAgrees
        <3> QED
            BY <3>1, <3>2
    <2> HIDE DEF maps, before
    <2>3. maps \in HostMaps /\ Mutual(maps) /\ Canonical(maps)
        BY <2>1 DEF Agreeing
    <2>4. ASSUME NEW n \in HostNames, NEW a \in DOMAIN Value
          PROVE  Mentions(lookupStaticHost(maps, n).addrs, {Value[a]})
                 = Mentions(lookupStaticAddr(maps, a), Printed(Key(n)))
        <3>1. lookupStaticHost(maps, n).addrs = AddrsOf(maps, Key(n))
            BY DEF lookupStaticHost, AddrsOf
        <3>2. lookupStaticAddr(maps, a) = NamesAt(maps, Value[a])
            BY DEF lookupStaticAddr, NamesAt, parseLiteralIP
        <3>3. Key(n) \in HostKeys /\ Value[a] \in KnownAddrs
            BY DEF HostKeys, KnownAddrs
        <3> QED
            BY <2>3, <3>1, <3>2, <3>3 DEF Mutual
    <2>5. ASSUME NEW k \in DOMAIN maps.byName, NEW c, c = maps.byName[k].canonical
          PROVE  /\ c \in DOMAIN maps.byName
                 /\ ToSet(maps.byName[c].addrs) \cap ToSet(maps.byName[k].addrs) # {}
        BY <2>3, <2>5 DEF Canonical, Settled
    <2> QED
        BY <2>2, <2>4, <2>5 DEF HostsMutual, Keeps, maps, before
<1> QED
    BY <1>1, HostsOfLines, PTL
=============================================================================
