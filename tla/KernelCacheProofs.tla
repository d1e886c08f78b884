------------------------- MODULE KernelCacheProofs -------------------------
(***************************************************************************)
(* Proofs about KernelCache, for any processes, keys, stages and bounds.   *)
(*                                                                         *)
(*   Shapes   the types of the variables;                                  *)
(*   Phases   what a process has at each point of its program: a lock, a   *)
(*            descriptor, a victim, an artifact to write;                  *)
(*   Flocked  no inode has a shared and an exclusive holder, and a         *)
(*            directory that does not exist holds nothing;                 *)
(*   Kept     what a compilation relies on is in its entry, as long as     *)
(*            nobody locked the entry for removal;                         *)
(*   Current  the descriptors refer to the `.lock` that the entry has.     *)
(*   Passes   what a pass of the eviction has in its list, has removed and *)
(*            counts, when one process uses the cache.                     *)
(***************************************************************************)
EXTENDS KernelCache, Sums, FiniteSetTheorems, SequenceTheorems, TLAPS

Names == {TextStages[n] : n \in 1..Len(TextStages)} \cup {"so"}
Entries == [dir : Nat, recent : BOOLEAN, lock : Nat,
            marker : {"none", "old", "fresh"}, files : SUBSET FileNames]
Continuations == {"idle", "touch", "lookup", "clang", "launch"}

Removing == {"ropen", "rflock", "rlist", "runlink"}
Pruning == {"prune", "scan", "evict"} \cup Removing

FsShape == fs \in [Keys -> Entries]

PcShape == pc \in [Procs -> PC]

LocalShape ==
  /\ key \in [Compilers -> Keys \cup {NoKey}]
  /\ attempt \in [Compilers -> 0..Attempts]
  /\ lockIno \in [Compilers -> Nat]
  /\ lockHeld \in [Compilers -> BOOLEAN]
  /\ stage \in [Compilers -> 1..(Len(TextStages) + 1)]
  /\ file \in [Compilers -> Names]
  /\ cont \in [Compilers -> Continuations]

ScanEntries == [key : Keys, fresh : BOOLEAN, size : Nat]
Scans == [entries : SUBSET ScanEntries, total : Int]
Victims == [key : Keys \cup {NoKey}, size : Nat, ino : Nat, held : BOOLEAN, dir : Nat,
            names : SUBSET (FileNames \cup {Lock, Marker})]

ScanShape ==
  /\ toScan \in [Procs -> SUBSET Keys]
  /\ scanned \in [Compilers -> Scans]

VictimShape == victim \in [Procs -> Victims]

CallsShape ==
  calls \in [compile : Nat, clear : Nat, crash : Nat, age : Nat,
             procs : SUBSET Procs, keys : SUBSET Keys, removed : SUBSET Keys]

Shapes == FsShape /\ PcShape /\ LocalShape /\ ScanShape /\ VictimShape /\ CallsShape

CompilerPhase(p) ==
  /\ pc[p] # "clear"
  /\ pc[p] = "idle" \/ key[p] \in calls.keys
  /\ pc[p] \in {"mkdir", "isdir", "open", "flock", "validate"} => attempt[p] < Attempts
  /\ lockHeld[p] <=> pc[p] = "validate" \/ InUse(p)
  /\ lockIno[p] # 0 <=> pc[p] \in {"flock", "validate"} \/ InUse(p)
  /\ pc[p] = "read" => stage[p] <= Len(TextStages)
  /\ pc[p] = "write" => cont[p] \in {"lookup", "clang"}
  /\ pc[p] = "rename" => cont[p] \in {"lookup", "clang", "launch"}
  /\ pc[p] \in Pruning => cont[p] # "idle"
  /\ pc[p] \in {"write", "rename"} /\ cont[p] = "clang" => file[p] = Last
  /\ pc[p] = "rename" /\ cont[p] = "launch" => file[p] = "so"

ClearerPhase(p) == pc[p] \in {"idle", "clear"} \cup Removing

VictimPhase(r) ==
  /\ pc[r] \in Removing => victim[r].key \in Keys
  /\ pc[r] \notin Removing => victim[r] = NoVictim
  /\ victim[r].ino # 0 <=> pc[r] \in {"rflock", "rlist", "runlink"}
  /\ victim[r].held <=> pc[r] \in {"rlist", "runlink"}
  /\ victim[r].held => victim[r].key \in calls.removed

Phases ==
  /\ \A p \in Compilers : CompilerPhase(p)
  /\ \A p \in Clearers : ClearerPhase(p)
  /\ \A r \in Procs : VictimPhase(r)

Flocked ==
  /\ \A k \in Keys : ~Exists(k) => fs[k] = NoEntry
  /\ \A r \in Procs, p \in Compilers :
       victim[r].held /\ lockHeld[p] /\ key[p] = victim[r].key => lockIno[p] # victim[r].ino

IInv == Shapes /\ Phases /\ Flocked

-----------------------------------------------------------------------------
(***************************************************************************)
(* Identities.                                                             *)
(***************************************************************************)

\* There are fewer identities in use than numbers to choose from.
LEMMA UnusedIsUnused ==
  ASSUME NEW S, IsFiniteSet(S)
  PROVE  Unused(S) \in Nat \ {0} /\ Unused(S) \notin S
<1> DEFINE n == Cardinality(S) + 1
<1>1. n \in Nat \ {0} /\ IsFiniteSet(1..n) /\ Cardinality(1..n) = n
  <2>1. Cardinality(S) \in Nat
    BY FS_CardinalityType
  <2>2. n \in Nat \ {0}
    BY <2>1
  <2> HIDE DEF n
  <2>3. 1 \in Int /\ n \in Int /\ ~(1 > n) /\ n - 1 + 1 = n
    BY <2>2
  <2> QED BY <2>2, <2>3, FS_Interval
<1>2. ~ (1..n \subseteq S)
  <2> HIDE DEF n
  <2>1. 1..n \subseteq S => Cardinality(1..n) <= Cardinality(S)
    BY FS_Subset
  <2>2. Cardinality(S) \in Nat
    BY FS_CardinalityType
  <2> QED BY <1>1, <2>1, <2>2 DEF n
<1>3. Unused(S) \in 1..n /\ Unused(S) \notin S
  <2>1. \E i \in 1..n : i \notin S
    BY <1>2
  <2> QED BY <2>1 DEF Unused
<1> QED BY <1>1, <1>3

\* The processes are finitely many, and so is what they refer to.
LEMMA FinitelyMany ==
  ASSUME NEW S \in SUBSET Procs, NEW f, f = [p \in S |-> f[p]]
  PROVE  IsFiniteSet({f[p] : p \in S})
<1>1. IsFiniteSet(Procs)
  BY CacheAssumption, FS_Union DEF Procs
<1>2. IsFiniteSet(S)
  BY <1>1, FS_Subset
<1>3. f \in Surjection(S, {f[p] : p \in S})
  BY DEF Surjection
<1> QED BY <1>2, <1>3, FS_Surjection

\* A new inode or directory is told from those of the entry and of its users.
LEMMA NewIdentities ==
  ASSUME NEW k \in Keys
  PROVE  /\ NewIno(k) \in Nat \ {0} /\ NewIno(k) # fs[k].lock
         /\ \A p \in Compilers : key[p] = k => NewIno(k) # lockIno[p]
         /\ \A r \in Procs : victim[r].key = k => NewIno(k) # victim[r].ino
         /\ NewDir(k) \in Nat \ {0} /\ NewDir(k) # fs[k].dir
         /\ \A r \in Procs : victim[r].key = k => NewDir(k) # victim[r].dir
<1> DEFINE C == {c \in Compilers : key[c] = k}
           R == {r \in Procs : victim[r].key = k}
           inos == [p \in C |-> lockIno[p]]
           vinos == [r \in R |-> victim[r].ino]
           vdirs == [r \in R |-> victim[r].dir]
<1>1. C \in SUBSET Procs /\ R \in SUBSET Procs
  BY DEF Procs
<1>2. IsFiniteSet({inos[p] : p \in C}) /\ IsFiniteSet({vinos[r] : r \in R}) /\ IsFiniteSet({vdirs[r] : r \in R})
  <2> HIDE DEF C, R
  <2>1. inos = [p \in C |-> inos[p]] /\ vinos = [p \in R |-> vinos[p]] /\ vdirs = [p \in R |-> vdirs[p]]
    OBVIOUS
  <2> HIDE DEF inos, vinos, vdirs
  <2> QED BY <1>1, <2>1, FinitelyMany
<1>3. /\ {inos[p] : p \in C} = {lockIno[p] : p \in C}
      /\ {vinos[r] : r \in R} = {victim[r].ino : r \in R}
      /\ {vdirs[r] : r \in R} = {victim[r].dir : r \in R}
  <2> HIDE DEF C, R
  <2> QED OBVIOUS
<1> DEFINE I == {fs[k].lock} \cup {lockIno[p] : p \in C} \cup {victim[r].ino : r \in R}
           D == {fs[k].dir} \cup {victim[r].dir : r \in R}
<1>4. IsFiniteSet(I) /\ IsFiniteSet(D)
  <2> HIDE DEF C, R, inos, vinos, vdirs
  <2>1. IsFiniteSet({fs[k].lock}) /\ IsFiniteSet({fs[k].dir})
    BY FS_Singleton
  <2> QED BY <1>2, <1>3, <2>1, FS_Union
<1>5. Unused(I) \in Nat \ {0} /\ Unused(I) \notin I /\ Unused(D) \in Nat \ {0} /\ Unused(D) \notin D
  <2> HIDE DEF I, D
  <2> QED BY <1>4, UnusedIsUnused
<1>6. NewIno(k) = Unused(I) /\ NewDir(k) = Unused(D)
  BY DEF NewIno, NewDir
<1> HIDE DEF inos, vinos, vdirs
<1> QED BY <1>5, <1>6

-----------------------------------------------------------------------------
(***************************************************************************)
(* The types.                                                              *)
(***************************************************************************)

\* What the calls make of an entry is an entry.
LEMMA EntryUpdates ==
  ASSUME NEW e \in Entries
  PROVE  /\ NoEntry \in Entries
         /\ \A d \in Nat : [[NoEntry EXCEPT !.dir = d] EXCEPT !.recent = TRUE] \in Entries
         /\ \A i \in Nat : [[e EXCEPT !.lock = i] EXCEPT !.recent = TRUE] \in Entries
         /\ [[e EXCEPT !.marker = "none"] EXCEPT !.recent = TRUE] \in Entries
         /\ \A S \in SUBSET FileNames : [[e EXCEPT !.files = S] EXCEPT !.recent = TRUE] \in Entries
         /\ \A m \in {"none", "old", "fresh"}, b \in BOOLEAN :
              [e EXCEPT !.marker = m, !.recent = b] \in Entries
BY DEF Entries, NoEntry

\* A process in a call works on a key, and a remover on one.
LEMMA Targets ==
  ASSUME Shapes, Phases
  PROVE  /\ \A p \in Compilers : pc[p] # "idle" => key[p] \in Keys
         /\ \A r \in Procs : pc[r] \in Removing => victim[r].key \in Keys
BY DEF Shapes, CallsShape, Phases, CompilerPhase, VictimPhase

\* An artifact, or a scratch file of a compiler, is a file of an entry.
LEMMA FileTypes ==
  ASSUME NEW f \in Names
  PROVE  Artifact(f) \in FileNames /\ \A p \in Compilers : Scratch(p, f) \in FileNames
BY DEF Names, FileNames, Artifact, Scratch

\* _touch keeps the types of the entries.
LEMMA TouchShape ==
  ASSUME FsShape, NEW k \in Keys, TouchEntry(k)
  PROVE  FsShape'
<1>1. fs[k] \in Entries
  BY DEF FsShape
<1>2. \/ fs' = fs
      \/ \E b \in BOOLEAN : fs' = [fs EXCEPT ![k] = [fs[k] EXCEPT !.marker = "fresh", !.recent = b]]
  <2>1. CASE Exists(k)
    BY <2>1 DEF TouchEntry
  <2>2. CASE ~Exists(k)
    BY <2>2 DEF TouchEntry
  <2> QED BY <2>1, <2>2
<1> QED BY <1>1, <1>2, EntryUpdates DEF FsShape

LEMMA FsShapeStep ==
  ASSUME Shapes, Phases, Next
  PROVE  FsShape'
<1> USE DEF Shapes
<1>1. ASSUME NEW p \in Compilers, Mkdir(p) PROVE FsShape'
  <2>1. key[p] \in Keys /\ fs[key[p]] \in Entries /\ NewDir(key[p]) \in Nat
    BY <1>1, Targets, NewIdentities DEF FsShape, Mkdir
  <2>2. fs' = fs \/ fs' = [fs EXCEPT ![key[p]] = [[NoEntry EXCEPT !.dir = NewDir(key[p])] EXCEPT !.recent = TRUE]]
    BY <1>1 DEF Mkdir, Write
  <2> QED BY <2>1, <2>2, EntryUpdates DEF FsShape
<1>2. ASSUME NEW p \in Procs, NEW k \in Keys, OpenLock(k) PROVE FsShape'
  <2>1. fs[k] \in Entries /\ NewIno(k) \in Nat
    BY NewIdentities DEF FsShape
  <2>2. fs' = fs \/ fs' = [fs EXCEPT ![k] = [[fs[k] EXCEPT !.lock = NewIno(k)] EXCEPT !.recent = TRUE]]
    BY <1>2 DEF OpenLock, Write
  <2> QED BY <2>1, <2>2, EntryUpdates DEF FsShape
<1>3. ASSUME NEW p \in Compilers, Open(p) PROVE FsShape'
  BY <1>2, <1>3, Targets DEF Open, Procs, FsShape
<1>4. ASSUME NEW p \in Procs, ROpen(p) PROVE FsShape'
  BY <1>2, <1>4, Targets DEF ROpen, Removing, FsShape
<1>5. ASSUME NEW p \in Compilers, Touch(p) \/ Hit(p) PROVE FsShape'
  BY <1>5, Targets, TouchShape DEF Touch, Hit
<1>6. ASSUME NEW p \in Compilers, WriteScratch(p) \/ Clang(p) \/ Rename(p) PROVE FsShape'
  <2>1. key[p] \in Keys /\ fs[key[p]] \in Entries /\ fs[key[p]].files \in SUBSET FileNames
    BY <1>6, Targets DEF FsShape, Entries, WriteScratch, Clang, Rename
  <2>2. file[p] \in Names /\ "so" \in Names
    BY DEF LocalShape, Names
  <2>3. \/ fs' = fs
        \/ \E S \in SUBSET FileNames :
             fs' = [fs EXCEPT ![key[p]] = [[fs[key[p]] EXCEPT !.files = S] EXCEPT !.recent = TRUE]]
    <3>1. CASE WriteScratch(p)
      <4>1. fs[key[p]].files \cup {Scratch(p, file[p])} \in SUBSET FileNames
        BY <2>1, <2>2, FileTypes
      <4> QED BY <3>1, <4>1 DEF WriteScratch, Write
    <3>2. CASE Clang(p)
      <4>1. fs[key[p]].files \cup {Scratch(p, "so")} \in SUBSET FileNames
        BY <2>1, <2>2, FileTypes
      <4> QED BY <3>2, <4>1 DEF Clang, Write
    <3>3. CASE Rename(p)
      <4>1. (fs[key[p]].files \ {Scratch(p, file[p])}) \cup {Artifact(file[p])} \in SUBSET FileNames
        BY <2>1, <2>2, FileTypes
      <4> QED BY <3>3, <4>1 DEF Rename, Write
    <3> QED BY <1>6, <3>1, <3>2, <3>3
  <2> QED BY <2>1, <2>3, EntryUpdates DEF FsShape
<1>7. ASSUME NEW p \in Procs, NEW n \in victim[p].names, RUnlink(p, n) PROVE FsShape'
  <2> DEFINE k == victim[p].key
  <2>1. k \in Keys /\ fs[k] \in Entries
    BY <1>7, Targets DEF FsShape, RUnlink, Removing
  <2>2. fs' = [fs EXCEPT ![k] = [Unlinked(fs[k], n) EXCEPT !.recent = TRUE]]
    BY <1>7 DEF RUnlink, Write
  <2>3. [Unlinked(fs[k], n) EXCEPT !.recent = TRUE] \in Entries
    <3>1. 0 \in Nat /\ fs[k].files \ {n} \in SUBSET FileNames
      BY <2>1 DEF Entries
    <3> HIDE DEF k
    <3> QED BY <2>1, <3>1, EntryUpdates DEF Unlinked
  <2> QED BY <2>1, <2>2, <2>3 DEF FsShape
<1>8. ASSUME NEW p \in Procs, RRmdir(p) PROVE FsShape'
  <2>1. victim[p].key \in Keys /\ fs[victim[p].key] \in Entries
    BY <1>8, Targets DEF FsShape, RRmdir, Removing
  <2>2. fs' = fs \/ fs' = [fs EXCEPT ![victim[p].key] = NoEntry]
    BY <1>8 DEF RRmdir
  <2> QED BY <2>1, <2>2, EntryUpdates DEF FsShape
<1>9. ASSUME NEW k \in Keys, Age(k) PROVE FsShape'
  <2>1. fs[k] \in Entries
    BY DEF FsShape
  <2>2. \E m \in {"none", "old", "fresh"} :
          fs' = [fs EXCEPT ![k] = [fs[k] EXCEPT !.marker = m, !.recent = FALSE]]
    BY <2>1, <1>9 DEF Age, Entries
  <2> QED BY <2>1, <2>2, EntryUpdates DEF FsShape
<1>10. ASSUME UNCHANGED fs PROVE FsShape'
  BY <1>10 DEF FsShape
<1>11. ASSUME NEW p \in Compilers,
              \/ \E k \in Keys, e \in Lookups : Start(p, k, e)
              \/ IsDir(p) \/ FlockShared(p) \/ Validate(p) \/ Lookup(p) \/ Read(p) \/ Launch(p)
              \/ PruneStep(p)
       PROVE  UNCHANGED fs
  BY <1>11 DEF Start, IsDir, FlockShared, Validate, Lookup, Read, Launch,
               PruneStep, SkipPrune, StartPrune, Evict, Scan
<1>12. ASSUME NEW p \in Clearers, StartClear(p) \/ ClearStep(p) PROVE UNCHANGED fs
  BY <1>12 DEF StartClear, ClearStep, EndClear, ClearEntry
<1>13. ASSUME NEW p \in Procs,
              RFlock(p) \/ RList(p) \/ Crash(p) \/ \E n \in victim[p].names : RVanished(p, n)
       PROVE  UNCHANGED fs
  BY <1>13 DEF RFlock, RList, RVanished, Crash
<1> QED
  BY <1>1, <1>3, <1>4, <1>5, <1>6, <1>7, <1>8, <1>9, <1>10, <1>11, <1>12, <1>13
  DEF Next, ProcStep, CompileStep, RemoveStep

LEMMA PcShapeStep ==
  ASSUME Shapes, Phases, Next
  PROVE  PcShape'
<1>1. PcShape /\ cont \in [Compilers -> Continuations]
  BY DEF Shapes, LocalShape
<1>2. ASSUME NEW p \in Procs, NEW l \in PC, Goto(p, l) PROVE PcShape'
  BY <1>1, <1>2 DEF PcShape, Goto
<1> DEFINE Written == {"mkdir", "isdir", "open", "exists", "gaveup", "flock", "validate", "prune",
                       "lookup", "hit", "read", "launch", "write", "rename", "broken", "idle", "scan",
                       "evict", "ropen", "clear", "rflock", "rlist", "runlink"} \cup Continuations
<1>3. Written \subseteq PC
  BY DEF PC, Finished, Continuations
<1>4. ASSUME NEW p \in Compilers, CompileStep(p) \/ \E k \in Keys, e \in Lookups : Start(p, k, e)
      PROVE  \E l \in Written : Goto(p, l)
  <2>1. CASE \E k \in Keys, e \in Lookups : Start(p, k, e)
    BY <2>1 DEF Start
  <2>2. CASE Mkdir(p) \/ IsDir(p) \/ Open(p)
    BY <2>2 DEF Mkdir, IsDir, Open, Retry
  <2>3. CASE FlockShared(p) \/ Validate(p) \/ Touch(p) \/ Lookup(p) \/ Hit(p) \/ Read(p)
    BY <2>3 DEF FlockShared, Validate, Retry, Touch, Lookup, Hit, Read
  <2>4. CASE WriteScratch(p) \/ Clang(p) \/ Rename(p) \/ Launch(p)
    BY <2>4 DEF WriteScratch, Clang, Rename, Launch, Fail
  <2> QED BY <1>4, <2>1, <2>2, <2>3, <2>4 DEF CompileStep
<1>5. ASSUME NEW p \in Compilers, PruneStep(p)
      PROVE  UNCHANGED pc \/ \E l \in Written : Goto(p, l)
  <2>1. cont[p] \in Written
    BY <1>1
  <2> HIDE DEF Written
  <2>2. {"scan", "ropen"} \subseteq Written
    BY DEF Written
  <2> QED BY <1>5, <2>1, <2>2 DEF PruneStep, SkipPrune, StartPrune, Evict, Scan
<1>6. ASSUME NEW p \in Clearers, StartClear(p) \/ ClearStep(p)
      PROVE  UNCHANGED pc \/ \E l \in Written : Goto(p, l)
  BY <1>6 DEF StartClear, ClearStep, EndClear, ClearEntry
<1>7. ASSUME NEW p \in Procs, RemoveStep(p) \/ Crash(p)
      PROVE  UNCHANGED pc \/ \E l \in Written : Goto(p, l)
  BY <1>7 DEF RemoveStep, ROpen, RFlock, Granted, RList, RRmdir, RUnlink, RVanished, NextVictim, Crash
<1>8. ASSUME NEW k \in Keys, Age(k) PROVE UNCHANGED pc
  BY <1>8 DEF Age
<1>9. Compilers \subseteq Procs /\ Clearers \subseteq Procs
  BY DEF Procs
<1>10. UNCHANGED pc => PcShape'
  BY <1>1 DEF PcShape
<1> HIDE DEF Written
<1> QED BY <1>2, <1>3, <1>4, <1>5, <1>6, <1>7, <1>8, <1>9, <1>10 DEF Next, ProcStep

LEMMA LocalShapeStep ==
  ASSUME Shapes, Phases, Next
  PROVE  LocalShape'
<1>1. LocalShape
  BY DEF Shapes
<1>2. ASSUME UNCHANGED compileVars PROVE LocalShape'
  BY <1>1, <1>2 DEF LocalShape, compileVars
<1>3. ASSUME NEW p \in Compilers, Retry(p), attempt[p] < Attempts PROVE attempt' \in [Compilers -> 0..Attempts]
  <2>1. attempt \in [Compilers -> 0..Attempts]
    BY <1>1 DEF LocalShape
  <2>2. attempt[p] \in 0..Attempts
    BY <2>1
  <2>3. attempt[p] + 1 \in 0..Attempts
    BY <1>3, <2>2 DEF Attempts
  <2> QED BY <2>1, <2>3, <1>3 DEF Retry
<1>4. ASSUME NEW p \in Compilers, CloseLock(p)
      PROVE  lockIno' \in [Compilers -> Nat] /\ lockHeld' \in [Compilers -> BOOLEAN]
  BY <1>1, <1>4 DEF LocalShape, CloseLock
<1>5. ASSUME NEW p \in Compilers, NEW k \in Keys, NEW e \in Lookups, Start(p, k, e) PROVE LocalShape'
  <2>1. Len(TextStages) \in Nat \ {0}
    BY CacheAssumption, EmptySeq
  <2>2. 0 \in 0..Attempts /\ 1 \in 1..(Len(TextStages) + 1)
    BY <2>1 DEF Attempts
  <2> QED BY <1>1, <1>5, <2>2 DEF LocalShape, Start
<1>6. ASSUME NEW p \in Compilers, Open(p) PROVE LocalShape'
  <2>1. key[p] \in Keys /\ attempt[p] < Attempts
    BY <1>6, Targets DEF Phases, CompilerPhase, Open
  <2>2. OpenedIno(key[p]) \in Nat
    BY <2>1, NewIdentities DEF Shapes, FsShape, Entries, OpenedIno
  <2> QED BY <1>1, <1>3, <1>6, <2>1, <2>2 DEF LocalShape, Open
<1>7. ASSUME NEW p \in Compilers, FlockShared(p) PROVE LocalShape'
  BY <1>1, <1>7 DEF LocalShape, FlockShared
<1>8. ASSUME NEW p \in Compilers, Validate(p) PROVE LocalShape'
  <2>1. attempt[p] < Attempts
    BY <1>8 DEF Phases, CompilerPhase, Validate
  <2>2. cont' \in [Compilers -> Continuations]
    BY <1>1, <1>8 DEF LocalShape, Validate, Continuations
  <2> QED BY <1>1, <1>3, <1>4, <1>8, <2>1, <2>2 DEF LocalShape, Validate
<1>9. ASSUME NEW p \in Compilers, Lookup(p) \/ Read(p) PROVE LocalShape'
  <2>1. Len(TextStages) \in Nat \ {0}
    BY CacheAssumption, EmptySeq
  <2>2. stage[p] \in 1..(Len(TextStages) + 1) /\ (Read(p) => stage[p] <= Len(TextStages))
    BY <1>1 DEF LocalShape, Phases, CompilerPhase, Read
  <2>3. stage[p] <= Len(TextStages) =>
          stage[p] + 1 \in 1..(Len(TextStages) + 1) /\ TextStages[stage[p]] \in Names
    BY <2>1, <2>2 DEF Names
  <2>4. Last \in Names /\ "so" \in Names
    BY <2>1 DEF Names, Last
  <2>5. /\ UNCHANGED <<key, attempt, lockIno, lockHeld>>
        /\ UNCHANGED stage \/ (stage[p] <= Len(TextStages) /\ stage' = [stage EXCEPT ![p] = @ + 1])
        /\ UNCHANGED file \/ file' = [file EXCEPT ![p] = Last]
             \/ (stage[p] <= Len(TextStages) /\ file' = [file EXCEPT ![p] = TextStages[stage[p]]])
        /\ UNCHANGED cont \/ cont' = [cont EXCEPT ![p] = "lookup"] \/ cont' = [cont EXCEPT ![p] = "clang"]
    <3>1. CASE Read(p)
      BY <2>2, <3>1 DEF Read
    <3>2. CASE Lookup(p)
      <4>1. stage' = [stage EXCEPT ![p] = stage[p]] => stage' = stage
        BY <1>1 DEF LocalShape
      <4> QED BY <3>2, <4>1 DEF Lookup
    <3> QED BY <1>9, <3>1, <3>2
  <2> QED BY <1>1, <2>2, <2>3, <2>4, <2>5 DEF LocalShape, Continuations
<1>10. ASSUME NEW p \in Compilers, WriteScratch(p) \/ Rename(p) \/ Launch(p) PROVE LocalShape'
  BY <1>1, <1>4, <1>10 DEF LocalShape, WriteScratch, Rename, Launch, Fail
<1>11. ASSUME NEW p \in Compilers, Clang(p) PROVE LocalShape'
  BY <1>1, <1>4, <1>11 DEF LocalShape, Clang, Fail, Names, Continuations
<1>12. ASSUME NEW p \in Procs, Crash(p) PROVE LocalShape'
  BY <1>1, <1>4, <1>12 DEF LocalShape, Crash
<1>13. ASSUME NEW p \in Compilers, Mkdir(p) \/ IsDir(p) \/ Touch(p) \/ Hit(p) \/ PruneStep(p)
       PROVE  UNCHANGED compileVars
  BY <1>13 DEF Mkdir, IsDir, Touch, Hit, PruneStep, SkipPrune, StartPrune, Evict, Scan
<1>14. ASSUME NEW p \in Clearers, StartClear(p) \/ ClearStep(p) PROVE UNCHANGED compileVars
  BY <1>14 DEF StartClear, ClearStep, EndClear, ClearEntry
<1>15. ASSUME NEW p \in Procs, RemoveStep(p) PROVE UNCHANGED compileVars
  BY <1>15 DEF RemoveStep, ROpen, RFlock, RList, RRmdir, RUnlink, RVanished
<1>16. ASSUME NEW k \in Keys, Age(k) PROVE UNCHANGED compileVars
  BY <1>16 DEF Age
<1> QED
  BY <1>2, <1>5, <1>6, <1>7, <1>8, <1>9, <1>10, <1>11, <1>12, <1>13, <1>14, <1>15, <1>16
  DEF Next, ProcStep, CompileStep

\* Few names make few files: the size of an entry is a number.
LEMMA FilesFinite ==
  ASSUME NEW S \in SUBSET FileNames
  PROVE  Cardinality(S) \in Nat
<1> DEFINE text == [n \in 1..Len(TextStages) |-> TextStages[n]]
           T == {TextStages[n] : n \in 1..Len(TextStages)}
           B == Compilers \cup {Published}
           F == [t \in Names \X B |-> [name |-> t[1], by |-> t[2]]]
<1>1. IsFiniteSet(T)
  <2>1. Len(TextStages) \in Int /\ 1 \in Int
    BY CacheAssumption
  <2>2. text \in Surjection(1..Len(TextStages), T)
    BY DEF Surjection
  <2> HIDE DEF text, T
  <2> QED BY <2>1, <2>2, FS_Interval, FS_Surjection
<1>2. IsFiniteSet(Names) /\ IsFiniteSet(B)
  <2>1. IsFiniteSet({"so"}) /\ IsFiniteSet({Published})
    BY FS_Singleton
  <2> HIDE DEF T
  <2>2. IsFiniteSet(T \cup {"so"})
    BY <1>1, <2>1, FS_Union
  <2> QED BY <2>1, <2>2, CacheAssumption, FS_Union DEF Names, T
<1>3. F \in Surjection(Names \X B, FileNames)
  <2>1. FileNames = [name : Names, by : B]
    BY DEF FileNames, Names
  <2>2. F \in [Names \X B -> FileNames]
    BY <2>1
  <2>3. ASSUME NEW f \in FileNames PROVE \E t \in Names \X B : F[t] = f
    <3>1. f = [name |-> f.name, by |-> f.by] /\ f.name \in Names /\ f.by \in B
      BY <2>1
    <3>2. <<f.name, f.by>> \in Names \X B /\ F[<<f.name, f.by>>] = f
      BY <3>1
    <3> QED BY <3>2
  <2> QED BY <2>2, <2>3 DEF Surjection
<1>4. IsFiniteSet(FileNames)
  <2> HIDE DEF F, B
  <2>1. IsFiniteSet(Names \X B)
    BY <1>2, FS_Product
  <2> QED BY <1>3, <2>1, FS_Surjection
<1> QED BY <1>4, FS_Subset, FS_CardinalityType

LEMMA ScanShapeStep ==
  ASSUME Shapes, Phases, Next
  PROVE  ScanShape'
<1>1. ScanShape
  BY DEF Shapes
<1>2. toScan' \in [Procs -> SUBSET Keys]
  <2>1. toScan \in [Procs -> SUBSET Keys]
    BY <1>1 DEF ScanShape
  <2>2. ASSUME NEW p \in Compilers, NEW k \in Keys,
               StartPrune(p) \/ Scan(p, k)
        PROVE  toScan' \in [Procs -> SUBSET Keys]
    BY <2>1, <2>2 DEF StartPrune, Scan, Children
  <2>3. ASSUME NEW p \in Clearers, NEW k \in Keys, StartClear(p) \/ ClearEntry(p, k)
        PROVE  toScan' \in [Procs -> SUBSET Keys]
    BY <2>1, <2>3 DEF StartClear, ClearEntry, Children
  <2>4. ASSUME NEW p \in Procs, Crash(p) PROVE toScan' \in [Procs -> SUBSET Keys]
    BY <2>1, <2>4 DEF Crash
  <2>5. ASSUME NEW p \in Compilers,
               \/ \E k \in Keys, e \in Lookups : Start(p, k, e)
               \/ CompileStep(p) \/ SkipPrune(p) \/ Evict(p)
        PROVE  UNCHANGED toScan
    BY <2>5 DEF Start, CompileStep, Mkdir, IsDir, Open, FlockShared, Validate, Touch, Lookup, Hit,
                Read, WriteScratch, Clang, Rename, Launch, SkipPrune, Evict, removeVars
  <2>6. ASSUME NEW p \in Procs, RemoveStep(p) \/ EndClear(p) PROVE UNCHANGED toScan
    BY <2>6 DEF RemoveStep, ROpen, RFlock, RList, RRmdir, RUnlink, RVanished, EndClear, removeVars
  <2>7. ASSUME NEW k \in Keys, Age(k) PROVE UNCHANGED toScan
    BY <2>7 DEF Age, removeVars
  <2>8. ASSUME NEW p \in Compilers, StartPrune(p) PROVE toScan' \in [Procs -> SUBSET Keys]
    BY <2>1, <2>8 DEF StartPrune, Children
  <2>9. ASSUME NEW p \in Clearers, StartClear(p) PROVE toScan' \in [Procs -> SUBSET Keys]
    BY <2>1, <2>9 DEF StartClear, Children
  <2> QED
    BY <2>1, <2>2, <2>3, <2>4, <2>5, <2>6, <2>7, <2>8, <2>9
    DEF Next, ProcStep, PruneStep, ClearStep, Procs
<1>3. scanned' \in [Compilers -> Scans]
  <2>1. scanned \in [Compilers -> Scans]
    BY <1>1 DEF ScanShape
  <2>2. [entries |-> {}, total |-> 0] \in Scans
    BY DEF Scans
  <2>3. ASSUME NEW p \in Compilers, StartPrune(p) PROVE scanned' \in [Compilers -> Scans]
    BY <2>1, <2>2, <2>3 DEF StartPrune
  <2>4. ASSUME NEW p \in Compilers, NEW k \in Keys, Scan(p, k) PROVE scanned' \in [Compilers -> Scans]
    <3> DEFINE size == Cardinality(fs[k].files)
               fresh == IF fs[k].marker = "none" THEN fs[k].recent ELSE fs[k].marker = "fresh"
               seen == [key |-> k, fresh |-> fresh, size |-> size]
    <3>1. fs[k].files \in SUBSET FileNames /\ fs[k].recent \in BOOLEAN
      BY DEF Shapes, FsShape, Entries
    <3>2. size \in Nat /\ fresh \in BOOLEAN
      BY <3>1, FilesFinite
    <3>3. seen \in ScanEntries
      <4> HIDE DEF size, fresh
      <4> QED BY <3>2 DEF ScanEntries
    <3>4. \/ UNCHANGED scanned
          \/ scanned' = [scanned EXCEPT ![p] = [entries |-> scanned[p].entries \cup {seen},
                                                total |-> scanned[p].total + size]]
      BY <2>4 DEF Scan
    <3> HIDE DEF size, seen
    <3>5. scanned[p].entries \in SUBSET ScanEntries /\ scanned[p].total + size \in Int
      BY <2>1, <3>2 DEF Scans
    <3>6. [entries |-> scanned[p].entries \cup {seen}, total |-> scanned[p].total + size] \in Scans
      BY <3>3, <3>5 DEF Scans
    <3> QED BY <2>1, <3>4, <3>6
  <2>5. ASSUME NEW p \in Compilers, Evict(p) PROVE scanned' \in [Compilers -> Scans]
    <3>1. CASE scanned' = [scanned EXCEPT ![p] = [entries |-> {}, total |-> 0]]
      BY <2>1, <2>2, <3>1
    <3>2. CASE \E e \in scanned[p].entries : scanned' = [scanned EXCEPT ![p].entries = @ \ {e}]
      BY <2>1, <3>2 DEF Scans
    <3> QED BY <2>5, <3>1, <3>2 DEF Evict
  <2>6. ASSUME NEW p \in Procs, RRmdir(p) PROVE scanned' \in [Compilers -> Scans]
    <3>1. p \in Compilers => scanned[p].total - victim[p].size \in Int
      BY <2>1 DEF Scans, Shapes, VictimShape, Victims
    <3>2. UNCHANGED scanned \/ (p \in Compilers /\ scanned' = [scanned EXCEPT ![p].total = @ - victim[p].size])
      BY <2>6 DEF RRmdir
    <3> QED BY <2>1, <3>1, <3>2 DEF Scans
  <2>7. ASSUME NEW p \in Compilers,
               \/ \E k \in Keys, e \in Lookups : Start(p, k, e)
               \/ CompileStep(p) \/ SkipPrune(p)
        PROVE  UNCHANGED scanned
    BY <2>7 DEF Start, CompileStep, Mkdir, IsDir, Open, FlockShared, Validate, Touch, Lookup, Hit,
                Read, WriteScratch, Clang, Rename, Launch, SkipPrune, removeVars
  <2>8. ASSUME NEW p \in Clearers, StartClear(p) \/ ClearStep(p) PROVE UNCHANGED scanned
    BY <2>8 DEF StartClear, ClearStep, EndClear, ClearEntry, removeVars
  <2>9. ASSUME NEW p \in Procs,
               ROpen(p) \/ RFlock(p) \/ RList(p) \/ Crash(p) \/
               \E n \in victim[p].names : RUnlink(p, n) \/ RVanished(p, n)
        PROVE  UNCHANGED scanned
    BY <2>9 DEF ROpen, RFlock, RList, RUnlink, RVanished, Crash
  <2>10. ASSUME NEW k \in Keys, Age(k) PROVE UNCHANGED scanned
    BY <2>10 DEF Age, removeVars
  <2> QED
    BY <2>1, <2>3, <2>4, <2>5, <2>6, <2>7, <2>8, <2>9, <2>10
    DEF Next, ProcStep, PruneStep, RemoveStep
<1> QED BY <1>2, <1>3 DEF ScanShape

\* A victim stays one through the calls of a removal.
LEMMA VictimUpdates ==
  ASSUME NEW v \in Victims
  PROVE  /\ NoVictim \in Victims
         /\ \A k \in Keys : [NoVictim EXCEPT !.key = k] \in Victims
         /\ \A e \in ScanEntries : [NoVictim EXCEPT !.key = e.key, !.size = e.size] \in Victims
         /\ \A i \in Nat : [v EXCEPT !.ino = i] \in Victims
         /\ [v EXCEPT !.held = TRUE] \in Victims
         /\ \A d \in Nat, N \in SUBSET (FileNames \cup {Lock, Marker}) :
              [v EXCEPT !.dir = d, !.names = N] \in Victims
         /\ \A n : [v EXCEPT !.names = v.names \ {n}] \in Victims
BY DEF Victims, NoVictim, ScanEntries

LEMMA VictimShapeStep ==
  ASSUME Shapes, Phases, Next
  PROVE  VictimShape'
<1>1. victim \in [Procs -> Victims]
  BY DEF Shapes, VictimShape
<1>2. ASSUME NEW p \in Procs, NEW v \in Victims, victim' = [victim EXCEPT ![p] = v] PROVE VictimShape'
  BY <1>1, <1>2 DEF VictimShape
<1>3. ASSUME NEW p \in Procs, NextVictim(p) PROVE VictimShape'
  BY <1>1, <1>2, <1>3, VictimUpdates DEF NextVictim
<1>4. ASSUME NEW p \in Compilers, Evict(p) PROVE VictimShape'
  <2>1. p \in Procs /\ scanned[p].entries \subseteq ScanEntries
    BY DEF Procs, Shapes, ScanShape, Scans
  <2>2. UNCHANGED victim \/ \E e \in ScanEntries :
          victim' = [victim EXCEPT ![p] = [NoVictim EXCEPT !.key = e.key, !.size = e.size]]
    BY <1>4, <2>1 DEF Evict
  <2> QED BY <1>1, <1>2, <2>1, <2>2, VictimUpdates DEF VictimShape
<1>5. ASSUME NEW p \in Clearers, NEW k \in Keys, ClearEntry(p, k) PROVE VictimShape'
  <2>1. p \in Procs
    BY DEF Procs
  <2>2. UNCHANGED victim \/ victim' = [victim EXCEPT ![p] = [NoVictim EXCEPT !.key = k]]
    BY <1>5 DEF ClearEntry
  <2> QED BY <1>1, <1>2, <2>1, <2>2, VictimUpdates DEF VictimShape
<1>6. ASSUME NEW p \in Procs, ROpen(p) PROVE VictimShape'
  <2>1. victim[p].key \in Keys
    BY <1>6, Targets DEF ROpen, Removing
  <2>2. OpenedIno(victim[p].key) \in Nat
    BY <2>1, NewIdentities DEF OpenedIno, Shapes, FsShape, Entries
  <2>3. NextVictim(p) \/ victim' = [victim EXCEPT ![p] = [victim[p] EXCEPT !.ino = OpenedIno(victim[p].key)]]
    BY <1>6 DEF ROpen
  <2> QED BY <1>1, <1>2, <1>3, <2>2, <2>3, VictimUpdates
<1>7. ASSUME NEW p \in Procs, RFlock(p) PROVE VictimShape'
  <2>1. NextVictim(p) \/ victim' = [victim EXCEPT ![p] = [victim[p] EXCEPT !.held = TRUE]]
    BY <1>7 DEF RFlock, Granted
  <2> QED BY <1>1, <1>2, <1>3, <2>1, VictimUpdates
<1>8. ASSUME NEW p \in Procs, RList(p) PROVE VictimShape'
  <2> DEFINE k == victim[p].key
  <2>1. fs[k].dir \in Nat /\ Listing(k) \in SUBSET (FileNames \cup {Lock, Marker})
    BY <1>8, Targets DEF RList, Removing, Listing, Shapes, FsShape, Entries
  <2>2. \/ NextVictim(p)
        \/ victim' = [victim EXCEPT ![p] = [victim[p] EXCEPT !.dir = fs[k].dir, !.names = Listing(k)]]
    BY <1>8 DEF RList
  <2> HIDE DEF k
  <2> QED BY <1>1, <1>2, <1>3, <2>1, <2>2, VictimUpdates
<1>9. ASSUME NEW p \in Procs, NEW n \in victim[p].names, RUnlink(p, n) \/ RVanished(p, n) PROVE VictimShape'
  <2>1. NextVictim(p) \/ victim' = [victim EXCEPT ![p] = [victim[p] EXCEPT !.names = victim[p].names \ {n}]]
    BY <1>9 DEF RUnlink, RVanished
  <2> QED BY <1>1, <1>2, <1>3, <2>1, VictimUpdates
<1>10. ASSUME NEW p \in Procs, RRmdir(p) \/ Crash(p) PROVE VictimShape'
  BY <1>1, <1>2, <1>3, <1>10, VictimUpdates DEF RRmdir, Crash
<1>11. ASSUME NEW p \in Compilers,
              \/ \E k \in Keys, e \in Lookups : Start(p, k, e)
              \/ CompileStep(p) \/ SkipPrune(p) \/ StartPrune(p) \/ \E k \in Keys : Scan(p, k)
       PROVE  UNCHANGED victim
  BY <1>11 DEF Start, CompileStep, Mkdir, IsDir, Open, FlockShared, Validate, Touch, Lookup, Hit,
               Read, WriteScratch, Clang, Rename, Launch, SkipPrune, StartPrune, Scan, removeVars
<1>12. ASSUME NEW p \in Clearers, StartClear(p) \/ EndClear(p) PROVE UNCHANGED victim
  BY <1>12 DEF StartClear, EndClear, removeVars
<1>13. ASSUME NEW k \in Keys, Age(k) PROVE UNCHANGED victim
  BY <1>13 DEF Age, removeVars
<1>14. UNCHANGED victim => VictimShape'
  BY <1>1 DEF VictimShape
<1> QED
  BY <1>4, <1>5, <1>6, <1>7, <1>8, <1>9, <1>10, <1>11, <1>12, <1>13, <1>14
  DEF Next, ProcStep, PruneStep, ClearStep, RemoveStep

\* The history only grows.
LEMMA CallsStep ==
  ASSUME Shapes, Phases, Next
  PROVE  /\ CallsShape'
         /\ calls.procs \subseteq calls'.procs
         /\ calls.keys \subseteq calls'.keys /\ calls.removed \subseteq calls'.removed
         /\ calls.clear <= calls'.clear
<1> DEFINE Grown == /\ CallsShape'
                    /\ calls.procs \subseteq calls'.procs
                    /\ calls.keys \subseteq calls'.keys /\ calls.removed \subseteq calls'.removed
                    /\ calls.clear <= calls'.clear
<1>1. CallsShape
  BY DEF Shapes
<1>2. ASSUME NEW p \in Compilers, NEW k \in Keys, NEW e \in Lookups, Start(p, k, e) PROVE Grown
  <2>1. /\ calls.compile + 1 \in Nat /\ calls.keys \cup {k} \in SUBSET Keys
        /\ calls.procs \cup {p} \in SUBSET Procs
    BY <1>1 DEF CallsShape, Procs
  <2>2. calls' = [calls EXCEPT !.compile = calls.compile + 1, !.procs = calls.procs \cup {p},
                               !.keys = calls.keys \cup {k}]
    BY <1>2 DEF Start
  <2>3. CallsShape'
    BY <1>1, <2>1, <2>2 DEF CallsShape
  <2>4. /\ calls'.procs = calls.procs \cup {p} /\ calls'.keys = calls.keys \cup {k}
        /\ calls'.removed = calls.removed /\ calls'.clear = calls.clear
    BY <1>1, <2>2 DEF CallsShape
  <2>5. calls.clear \in Nat
    BY <1>1 DEF CallsShape
  <2> QED BY <2>3, <2>4, <2>5
<1>3. ASSUME NEW p \in Clearers, StartClear(p) PROVE Grown
  <2>1. /\ calls.clear \in Nat /\ calls.clear + 1 \in Nat
        /\ calls.procs \cup {p} \in SUBSET Procs
    BY <1>1 DEF CallsShape, Procs
  <2>2. calls' = [calls EXCEPT !.clear = calls.clear + 1, !.procs = calls.procs \cup {p}]
    BY <1>3 DEF StartClear
  <2>3. CallsShape'
    BY <1>1, <2>1, <2>2 DEF CallsShape
  <2>4. /\ calls'.procs = calls.procs \cup {p} /\ calls'.keys = calls.keys
        /\ calls'.removed = calls.removed /\ calls'.clear = calls.clear + 1
    BY <1>1, <2>2 DEF CallsShape
  <2> QED BY <2>1, <2>3, <2>4
<1>4. ASSUME NEW p \in Procs, RFlock(p) PROVE Grown
  <2>1. victim[p].key \in Keys
    BY <1>4, Targets DEF RFlock, Removing
  <2> QED BY <1>1, <1>4, <2>1 DEF CallsShape, RFlock, Granted
<1>5. ASSUME NEW p \in Procs, Crash(p) PROVE Grown
  BY <1>1, <1>5 DEF CallsShape, Crash
<1>6. ASSUME NEW k \in Keys, Age(k) PROVE Grown
  BY <1>1, <1>6 DEF CallsShape, Age
<1>7. ASSUME NEW p \in Compilers, CompileStep(p) \/ PruneStep(p) PROVE UNCHANGED calls
  BY <1>7 DEF CompileStep, Mkdir, IsDir, Open, FlockShared, Validate, Touch, Lookup, Hit, Read,
              WriteScratch, Clang, Rename, Launch, PruneStep, SkipPrune, StartPrune, Evict, Scan
<1>8. ASSUME NEW p \in Clearers, ClearStep(p) PROVE UNCHANGED calls
  BY <1>8 DEF ClearStep, EndClear, ClearEntry
<1>9. ASSUME NEW p \in Procs,
             ROpen(p) \/ RList(p) \/ RRmdir(p) \/ \E n \in victim[p].names : RUnlink(p, n) \/ RVanished(p, n)
      PROVE  UNCHANGED calls
  BY <1>9 DEF ROpen, RList, RRmdir, RUnlink, RVanished
<1>10. UNCHANGED calls => Grown
  BY <1>1 DEF CallsShape
<1> HIDE DEF Grown
<1>11. Grown
  BY <1>2, <1>3, <1>4, <1>5, <1>6, <1>7, <1>8, <1>9, <1>10 DEF Next, ProcStep, RemoveStep
<1> QED BY <1>11 DEF Grown

LEMMA ShapesStep ==
  ASSUME Shapes, Phases, Next
  PROVE  Shapes'
BY FsShapeStep, PcShapeStep, LocalShapeStep, ScanShapeStep, VictimShapeStep, CallsStep DEF Shapes

-----------------------------------------------------------------------------
(***************************************************************************)
(* The phases.                                                             *)
(***************************************************************************)

\* The steps of one process.
StepOf(p) ==
  \/ p \in Compilers /\ \E k \in Keys, e \in Lookups : Start(p, k, e)
  \/ p \in Clearers /\ StartClear(p)
  \/ ProcStep(p)
  \/ Crash(p)

LEMMA StepIsNext ==
  /\ \A p \in Procs : StepOf(p) => Next
  /\ Next => (\E p \in Procs : StepOf(p)) \/ \E k \in Keys : Age(k)
BY DEF StepOf, Next, Procs

\* q is left alone: its program counter, its descriptors and its victim.
Still(q) ==
  /\ pc'[q] = pc[q] /\ victim'[q] = victim[q]
  /\ q \in Compilers =>
       /\ key'[q] = key[q] /\ attempt'[q] = attempt[q]
       /\ lockIno'[q] = lockIno[q] /\ lockHeld'[q] = lockHeld[q]
       /\ stage'[q] = stage[q] /\ file'[q] = file[q] /\ cont'[q] = cont[q]

\* A step of a process leaves the others alone.
LEMMA OthersStill ==
  ASSUME Shapes, NEW p \in Procs, NEW q \in Procs, p # q, StepOf(p)
  PROVE  Still(q)
<1>1. /\ pc \in [Procs -> PC] /\ victim \in [Procs -> Victims]
      /\ lockIno \in [Compilers -> Nat] /\ lockHeld \in [Compilers -> BOOLEAN]
      /\ attempt \in [Compilers -> 0..Attempts] /\ stage \in [Compilers -> 1..(Len(TextStages) + 1)]
      /\ key \in [Compilers -> Keys \cup {NoKey}]
      /\ file \in [Compilers -> Names] /\ cont \in [Compilers -> Continuations]
  BY DEF Shapes, PcShape, VictimShape, LocalShape
<1>2. ASSUME NEW l, Goto(p, l) PROVE pc'[q] = pc[q]
  BY <1>1, <1>2 DEF Goto
<1>3. ASSUME UNCHANGED compileVars, UNCHANGED victim \/ (\E v : victim' = [victim EXCEPT ![p] = v]),
             UNCHANGED pc \/ \E l : Goto(p, l)
      PROVE  Still(q)
  BY <1>1, <1>2, <1>3 DEF Still, compileVars
<1>4. ASSUME p \in Compilers, \E k \in Keys, e \in Lookups : Start(p, k, e) PROVE Still(q)
  BY <1>1, <1>4 DEF Start, Still, Goto, removeVars
<1>5. ASSUME p \in Compilers, Open(p) PROVE Still(q)
  BY <1>1, <1>5 DEF Open, Retry, Still, Goto, removeVars
<1>6. ASSUME p \in Compilers, FlockShared(p) PROVE Still(q)
  BY <1>1, <1>6 DEF FlockShared, Still, Goto, removeVars
<1>7. ASSUME p \in Compilers, Validate(p) PROVE Still(q)
  BY <1>1, <1>7 DEF Validate, CloseLock, Retry, Still, Goto, removeVars
<1>8. ASSUME p \in Compilers, Lookup(p) PROVE Still(q)
  BY <1>1, <1>8 DEF Lookup, Still, Goto, removeVars
<1>9. ASSUME p \in Compilers, Read(p) PROVE Still(q)
  BY <1>1, <1>9 DEF Read, Still, Goto, removeVars
<1>10. ASSUME p \in Compilers, WriteScratch(p) \/ Rename(p) \/ Launch(p) PROVE Still(q)
  BY <1>1, <1>10 DEF WriteScratch, Rename, Launch, Fail, CloseLock, Still, Goto, removeVars
<1>11. ASSUME p \in Compilers, Clang(p) PROVE Still(q)
  BY <1>1, <1>11 DEF Clang, Fail, CloseLock, Still, Goto, removeVars
<1>12. ASSUME Crash(p) PROVE Still(q)
  BY <1>1, <1>12 DEF Crash, CloseLock, Still, Goto
<1>13. ASSUME p \in Compilers, Mkdir(p) \/ IsDir(p) \/ Touch(p) \/ Hit(p) \/ PruneStep(p) PROVE Still(q)
  <2>1. UNCHANGED compileVars /\ (UNCHANGED pc \/ \E l : Goto(p, l))
    BY <1>13 DEF Mkdir, IsDir, Touch, Hit, PruneStep, SkipPrune, StartPrune, Evict, Scan
  <2>2. UNCHANGED victim \/ \E v : victim' = [victim EXCEPT ![p] = v]
    BY <1>13 DEF Mkdir, IsDir, Touch, Hit, PruneStep, SkipPrune, StartPrune, Evict, Scan, removeVars
  <2> QED BY <1>3, <2>1, <2>2
<1>14. ASSUME p \in Clearers, StartClear(p) \/ ClearStep(p) PROVE Still(q)
  <2>1. UNCHANGED compileVars /\ (UNCHANGED pc \/ \E l : Goto(p, l))
    BY <1>14 DEF StartClear, ClearStep, EndClear, ClearEntry
  <2>2. UNCHANGED victim \/ \E v : victim' = [victim EXCEPT ![p] = v]
    BY <1>14 DEF StartClear, ClearStep, EndClear, ClearEntry, removeVars
  <2> QED BY <1>3, <2>1, <2>2
<1>15. ASSUME RemoveStep(p) PROVE Still(q)
  <2>1. UNCHANGED compileVars
    BY <1>15 DEF RemoveStep, ROpen, RFlock, RList, RRmdir, RUnlink, RVanished
  <2>2. UNCHANGED pc \/ \E l : Goto(p, l)
    BY <1>15 DEF RemoveStep, ROpen, RFlock, Granted, RList, RRmdir, RUnlink, RVanished, NextVictim
  <2>3. victim'[q] = victim[q]
    BY <1>1, <1>15 DEF RemoveStep, ROpen, RFlock, Granted, RList, RRmdir, RUnlink, RVanished, NextVictim
  <2> QED BY <1>2, <2>1, <2>2, <2>3 DEF Still, compileVars
<1> QED
  BY <1>4, <1>5, <1>6, <1>7, <1>8, <1>9, <1>10, <1>11, <1>12, <1>13, <1>14, <1>15
  DEF StepOf, ProcStep, CompileStep

\* Each call leaves its own compiler in a phase of its program.
LEMMA CompilerPhaseStep ==
  ASSUME Shapes, Phases, NEW p \in Compilers, StepOf(p), CallsShape'
  PROVE  CompilerPhase(p)'
<1>1. /\ p \in Procs /\ p \notin Clearers /\ pc \in [Procs -> PC]
      /\ key \in [Compilers -> Keys \cup {NoKey}] /\ attempt \in [Compilers -> 0..Attempts]
      /\ lockIno \in [Compilers -> Nat] /\ lockHeld \in [Compilers -> BOOLEAN]
      /\ stage \in [Compilers -> 1..(Len(TextStages) + 1)]
      /\ file \in [Compilers -> Names] /\ cont \in [Compilers -> Continuations]
  BY CacheAssumption DEF Shapes, PcShape, LocalShape, Procs
<1>2. CompilerPhase(p)
  BY DEF Phases
<1>3. calls.keys \subseteq calls'.keys
  BY CallsStep, StepIsNext DEF Procs
<1>4. ASSUME \E k \in Keys, e \in Lookups : Start(p, k, e) PROVE CompilerPhase(p)'
  BY <1>1, <1>2, <1>4 DEF Start, Goto, CompilerPhase, InUse, Finished, Attempts, Pruning, Removing, Shapes, CallsShape
<1>5. ASSUME Mkdir(p) \/ IsDir(p) PROVE CompilerPhase(p)'
  BY <1>1, <1>2, <1>3, <1>5 DEF Mkdir, IsDir, Goto, compileVars, CompilerPhase, InUse, Finished, Pruning, Removing
<1>6. ASSUME Open(p) PROVE CompilerPhase(p)'
  <2>1. OpenedIno(key[p]) # 0
    BY <1>6, Targets, NewIdentities DEF Open, OpenedIno
  <2> QED BY <1>1, <1>2, <1>3, <1>6, <2>1 DEF Open, Retry, Goto, CompilerPhase, InUse, Finished, Pruning, Removing
<1>7. ASSUME FlockShared(p) PROVE CompilerPhase(p)'
  BY <1>1, <1>2, <1>3, <1>7 DEF FlockShared, Goto, CompilerPhase, InUse, Finished, Pruning, Removing
<1>8. ASSUME Validate(p) PROVE CompilerPhase(p)'
  BY <1>1, <1>2, <1>3, <1>8 DEF Validate, CloseLock, Retry, Goto, CompilerPhase, InUse, Finished, Pruning, Removing
<1>9. ASSUME Touch(p) \/ Hit(p) PROVE CompilerPhase(p)'
  BY <1>1, <1>2, <1>3, <1>9 DEF Touch, Hit, Goto, compileVars, CompilerPhase, InUse, Finished, Pruning, Removing
<1>10. ASSUME Lookup(p) PROVE CompilerPhase(p)'
  BY <1>1, <1>2, <1>3, <1>10 DEF Lookup, Goto, CompilerPhase, InUse, Finished, Pruning, Removing
<1>11. ASSUME Read(p) PROVE CompilerPhase(p)'
  BY <1>1, <1>2, <1>3, <1>11 DEF Read, Goto, CompilerPhase, InUse, Finished, Pruning, Removing
<1>12. ASSUME WriteScratch(p) PROVE CompilerPhase(p)'
  BY <1>1, <1>2, <1>3, <1>12 DEF WriteScratch, Fail, CloseLock, Goto, CompilerPhase, InUse, Finished, Pruning, Removing
<1>13. ASSUME Clang(p) PROVE CompilerPhase(p)'
  BY <1>1, <1>2, <1>3, <1>13 DEF Clang, Fail, CloseLock, Goto, CompilerPhase, InUse, Finished, Pruning, Removing
<1>14. ASSUME Rename(p) PROVE CompilerPhase(p)'
  BY <1>1, <1>2, <1>3, <1>14 DEF Rename, Fail, CloseLock, Goto, CompilerPhase, InUse, Finished, Pruning, Removing
<1>15. ASSUME Launch(p) PROVE CompilerPhase(p)'
  BY <1>1, <1>2, <1>3, <1>15 DEF Launch, CloseLock, Goto, CompilerPhase, InUse, Finished, Pruning, Removing
<1>16. ASSUME PruneStep(p) PROVE CompilerPhase(p)'
  <2>1. /\ UNCHANGED compileVars /\ pc[p] \in Pruning \ Removing
        /\ UNCHANGED pc \/ Goto(p, "scan") \/ Goto(p, "ropen") \/ Goto(p, cont[p])
    BY <1>16 DEF PruneStep, SkipPrune, StartPrune, Evict, Scan, Pruning, Removing
  <2> QED BY <1>1, <1>2, <1>3, <2>1 DEF Goto, compileVars, CompilerPhase, InUse, Finished, Pruning, Removing, Continuations
<1>17. ASSUME RemoveStep(p) PROVE CompilerPhase(p)'
  <2>1. /\ UNCHANGED compileVars /\ pc[p] \in Removing
        /\ UNCHANGED pc \/ \E l \in Removing \cup {"evict"} : Goto(p, l)
    BY <1>1, <1>17 DEF RemoveStep, ROpen, RFlock, Granted, RList, RRmdir, RUnlink, RVanished, NextVictim, Removing
  <2> QED BY <1>1, <1>2, <1>3, <2>1 DEF Goto, compileVars, CompilerPhase, InUse, Finished, Pruning, Removing
<1>18. ASSUME Crash(p) PROVE CompilerPhase(p)'
  BY <1>1, <1>2, <1>3, <1>18 DEF Crash, CloseLock, Goto, CompilerPhase, InUse, Finished, Pruning, Removing
<1> QED
  BY <1>1, <1>4, <1>5, <1>6, <1>7, <1>8, <1>9, <1>10, <1>11, <1>12, <1>13, <1>14, <1>15, <1>16, <1>17, <1>18
  DEF StepOf, ProcStep, CompileStep

LEMMA ClearerPhaseStep ==
  ASSUME Shapes, Phases, NEW p \in Clearers, StepOf(p)
  PROVE  ClearerPhase(p)'
<1>1. p \in Procs /\ p \notin Compilers /\ pc \in [Procs -> PC]
  BY CacheAssumption DEF Shapes, PcShape, Procs
<1>2. ClearerPhase(p)
  BY DEF Phases
<1>3. UNCHANGED pc \/ \E l \in {"idle", "clear"} \cup Removing : Goto(p, l)
  <2>1. CASE StartClear(p) \/ ClearStep(p) \/ Crash(p)
    BY <2>1 DEF StartClear, ClearStep, EndClear, ClearEntry, Crash, Removing
  <2>2. CASE RemoveStep(p)
    BY <1>1, <2>2 DEF RemoveStep, ROpen, RFlock, Granted, RList, RRmdir, RUnlink, RVanished, NextVictim, Removing
  <2> QED BY <1>1, <2>1, <2>2 DEF StepOf, ProcStep
<1> QED BY <1>1, <1>2, <1>3 DEF Goto, ClearerPhase

\* Each call of a removal leaves the remover with what its phase has.
LEMMA VictimPhaseStep ==
  ASSUME Shapes, Phases, NEW p \in Procs, StepOf(p)
  PROVE  VictimPhase(p)'
<1>1. pc \in [Procs -> PC] /\ victim \in [Procs -> Victims] /\ victim[p] \in Victims /\ CallsShape
  BY DEF Shapes, PcShape, VictimShape
<1>2. VictimPhase(p)
  BY DEF Phases
<1>3. calls.removed \subseteq calls'.removed
  BY CallsStep, StepIsNext
<1>4. NoVictim.ino = 0 /\ ~NoVictim.held
  BY DEF NoVictim
<1>5. ASSUME victim'[p] = NoVictim, pc'[p] \notin Removing PROVE VictimPhase(p)'
  BY <1>4, <1>5 DEF VictimPhase, Removing
<1>6. ASSUME NextVictim(p) PROVE VictimPhase(p)'
  BY <1>1, <1>5, <1>6 DEF NextVictim, Goto, Removing
<1>7. ASSUME p \in Compilers,
             CompileStep(p) \/ \E k \in Keys, e \in Lookups : Start(p, k, e)
      PROVE  VictimPhase(p)'
  <2>1. UNCHANGED victim
    BY <1>7 DEF Start, CompileStep, Mkdir, IsDir, Open, FlockShared, Validate, Touch, Lookup, Hit,
                Read, WriteScratch, Clang, Rename, Launch, removeVars
  <2>2. pc[p] \notin Removing
    BY <1>7 DEF Start, CompileStep, Mkdir, IsDir, Open, FlockShared, Validate, Touch, Lookup, Hit,
                Read, WriteScratch, Clang, Rename, Launch, Removing, Finished
  <2>3. pc'[p] \notin Removing
    <3>1. CASE \E k \in Keys, e \in Lookups : Start(p, k, e)
      BY <1>1, <3>1 DEF Start, Goto, Removing
    <3>2. CASE Mkdir(p) \/ IsDir(p) \/ Open(p) \/ FlockShared(p) \/ Validate(p) \/ Touch(p)
      BY <1>1, <3>2 DEF Mkdir, IsDir, Open, FlockShared, Validate, Touch, Retry, Goto, Removing
    <3>3. CASE Lookup(p) \/ Hit(p) \/ Read(p)
      BY <1>1, <3>3 DEF Lookup, Hit, Read, Goto, Removing
    <3>4. CASE WriteScratch(p) \/ Clang(p) \/ Rename(p) \/ Launch(p)
      BY <1>1, <3>4 DEF WriteScratch, Clang, Rename, Launch, Fail, Goto, Removing
    <3> QED BY <1>7, <3>1, <3>2, <3>3, <3>4 DEF CompileStep
  <2> QED BY <1>2, <1>5, <2>1, <2>2, <2>3 DEF VictimPhase
<1>8. ASSUME p \in Compilers, SkipPrune(p) \/ StartPrune(p) \/ \E k \in Keys : Scan(p, k)
      PROVE  VictimPhase(p)'
  <2>1. UNCHANGED victim /\ pc[p] \notin Removing
    BY <1>8 DEF SkipPrune, StartPrune, Scan, removeVars, Removing
  <2>2. cont[p] \notin Removing
    BY <1>8 DEF Shapes, LocalShape, Continuations, Removing
  <2>3. pc'[p] \notin Removing
    BY <1>1, <1>8, <2>1, <2>2 DEF SkipPrune, StartPrune, Scan, Goto, Removing
  <2> QED BY <1>2, <1>5, <2>1, <2>3 DEF VictimPhase
<1>9. ASSUME p \in Compilers, Evict(p) PROVE VictimPhase(p)'
  <2>1. pc[p] \notin Removing /\ cont[p] \notin Removing
    BY <1>9 DEF Evict, Removing, Shapes, LocalShape, Continuations
  <2>2. CASE UNCHANGED victim /\ Goto(p, cont[p])
    BY <1>1, <1>2, <1>5, <2>1, <2>2 DEF VictimPhase, Goto
  <2>3. CASE \E e \in scanned[p].entries :
               /\ victim' = [victim EXCEPT ![p] = [NoVictim EXCEPT !.key = e.key, !.size = e.size]]
               /\ Goto(p, "ropen")
    <3>1. PICK e \in ScanEntries :
            /\ victim' = [victim EXCEPT ![p] = [NoVictim EXCEPT !.key = e.key, !.size = e.size]]
            /\ Goto(p, "ropen")
      BY <1>9, <2>3 DEF Shapes, ScanShape, Scans
    <3>2. victim'[p].key \in Keys /\ victim'[p].ino = 0 /\ ~victim'[p].held
      BY <1>1, <3>1 DEF NoVictim, ScanEntries
    <3> QED BY <1>1, <3>1, <3>2 DEF VictimPhase, Goto, Removing
  <2> QED BY <1>9, <2>2, <2>3 DEF Evict
<1>10. ASSUME p \in Clearers, StartClear(p) \/ EndClear(p) PROVE VictimPhase(p)'
  BY <1>1, <1>2, <1>5, <1>10 DEF StartClear, EndClear, removeVars, VictimPhase, Goto, Removing
<1>11. ASSUME p \in Clearers, NEW k \in Keys, ClearEntry(p, k) PROVE VictimPhase(p)'
  <2>1. CASE UNCHANGED <<pc, victim>>
    BY <1>2, <1>3, <2>1 DEF VictimPhase
  <2>2. CASE victim' = [victim EXCEPT ![p] = [NoVictim EXCEPT !.key = k]] /\ Goto(p, "ropen")
    <3>1. victim'[p].key \in Keys /\ victim'[p].ino = 0 /\ ~victim'[p].held
      BY <1>1, <2>2 DEF NoVictim
    <3> QED BY <1>1, <2>2, <3>1 DEF VictimPhase, Goto, Removing
  <2> QED BY <1>11, <2>1, <2>2 DEF ClearEntry
<1>12. ASSUME ROpen(p) PROVE VictimPhase(p)'
  <2>1. victim[p].key \in Keys
    BY <1>12, Targets DEF ROpen, Removing
  <2>2. OpenedIno(victim[p].key) # 0
    BY <2>1, NewIdentities DEF OpenedIno
  <2>3. CASE victim' = [victim EXCEPT ![p].ino = OpenedIno(victim[p].key)] /\ Goto(p, "rflock")
    BY <1>1, <1>2, <1>12, <2>1, <2>2, <2>3 DEF VictimPhase, Goto, Removing, ROpen, Victims
  <2> QED BY <1>6, <1>12, <2>3 DEF ROpen
<1>13. ASSUME RFlock(p) PROVE VictimPhase(p)'
  <2>1. CASE Granted(p)
    BY <1>1, <1>2, <1>13, <2>1 DEF VictimPhase, Goto, Removing, RFlock, Granted, Victims, CallsShape
  <2> QED BY <1>6, <1>13, <2>1 DEF RFlock
<1>14. ASSUME RList(p) PROVE VictimPhase(p)'
  <2>1. CASE /\ victim' = [victim EXCEPT ![p].dir = fs[victim[p].key].dir, ![p].names = Listing(victim[p].key)]
             /\ Goto(p, "runlink")
    <3>1. victim' = [victim EXCEPT ![p] = [victim[p] EXCEPT !.dir = fs[victim[p].key].dir,
                                                            !.names = Listing(victim[p].key)]]
      BY <2>1
    <3>2. \A d, N : LET v == [victim[p] EXCEPT !.dir = d, !.names = N]
                   IN  v.key = victim[p].key /\ v.ino = victim[p].ino /\ v.held = victim[p].held
      BY <1>1 DEF Victims
    <3>3. victim'[p].key = victim[p].key /\ victim'[p].ino = victim[p].ino /\ victim'[p].held = victim[p].held
      BY <1>1, <3>1, <3>2
    <3>4. pc[p] = "rlist" /\ pc'[p] = "runlink"
      <4>1. Goto(p, "runlink")
        BY <2>1
      <4> QED BY <1>1, <1>14, <4>1 DEF RList, Goto
    <3> QED BY <1>2, <1>3, <3>3, <3>4 DEF VictimPhase, Removing
  <2> QED BY <1>6, <1>14, <2>1 DEF RList
<1>15. ASSUME NEW n \in victim[p].names, RUnlink(p, n) \/ RVanished(p, n) PROVE VictimPhase(p)'
  <2>1. CASE victim' = [victim EXCEPT ![p].names = @ \ {n}] /\ UNCHANGED pc
    <3>1. victim'[p].key = victim[p].key /\ victim'[p].ino = victim[p].ino /\ victim'[p].held = victim[p].held
      BY <1>1, <2>1 DEF Victims
    <3>2. pc'[p] = pc[p]
      BY <2>1
    <3>3. pc[p] = "runlink"
      BY <1>15 DEF RUnlink, RVanished
    <3> QED BY <1>2, <1>3, <3>1, <3>2, <3>3 DEF VictimPhase, Removing
  <2> QED BY <1>6, <1>15, <2>1 DEF RUnlink, RVanished
<1>16. ASSUME RRmdir(p) PROVE VictimPhase(p)'
  BY <1>6, <1>16 DEF RRmdir
<1>17. ASSUME Crash(p) PROVE VictimPhase(p)'
  BY <1>1, <1>5, <1>17 DEF Crash, Goto, Removing
<1> QED
  BY <1>7, <1>8, <1>9, <1>10, <1>11, <1>12, <1>13, <1>14, <1>15, <1>16, <1>17
  DEF StepOf, ProcStep, PruneStep, ClearStep, RemoveStep

LEMMA PhasesStep ==
  ASSUME Shapes, Phases, Next
  PROVE  Phases'
<1>1. CallsShape' /\ calls.keys \subseteq calls'.keys /\ calls.removed \subseteq calls'.removed
  BY CallsStep
<1>2. ASSUME NEW p \in Procs, StepOf(p) PROVE Phases'
  <2>1. ASSUME NEW q \in Compilers PROVE CompilerPhase(q)'
    <3>1. CASE q = p
      BY <1>1, <1>2, <3>1, CompilerPhaseStep
    <3>2. CASE q # p
      <4>1. Still(q) /\ CompilerPhase(q)
        BY <1>2, <3>2, OthersStill DEF Phases, Procs
      <4> QED BY <1>1, <4>1 DEF Still, CompilerPhase, InUse
    <3> QED BY <3>1, <3>2
  <2>2. ASSUME NEW q \in Clearers PROVE ClearerPhase(q)'
    <3>1. CASE q = p
      BY <1>2, <3>1, ClearerPhaseStep
    <3>2. CASE q # p
      BY <1>2, <3>2, OthersStill DEF Phases, Procs, Still, ClearerPhase
    <3> QED BY <3>1, <3>2
  <2>3. ASSUME NEW q \in Procs PROVE VictimPhase(q)'
    <3>1. CASE q = p
      BY <1>2, <3>1, VictimPhaseStep
    <3>2. CASE q # p
      <4>1. Still(q) /\ VictimPhase(q)
        BY <1>2, <3>2, OthersStill DEF Phases
      <4> QED BY <1>1, <4>1 DEF Still, VictimPhase
    <3> QED BY <3>1, <3>2
  <2> QED BY <2>1, <2>2, <2>3 DEF Phases
<1>3. ASSUME NEW k \in Keys, Age(k) PROVE Phases'
  <2>1. UNCHANGED <<pc, compileVars, removeVars>>
    BY <1>3 DEF Age
  <2>2. \A q \in Compilers : CompilerPhase(q)'
    BY <1>1, <2>1 DEF Phases, CompilerPhase, InUse, compileVars
  <2>3. \A q \in Clearers : ClearerPhase(q)'
    BY <2>1 DEF Phases, ClearerPhase
  <2>4. \A q \in Procs : VictimPhase(q)'
    BY <1>1, <2>1 DEF Phases, VictimPhase, removeVars
  <2> QED BY <2>2, <2>3, <2>4 DEF Phases
<1> QED BY <1>2, <1>3, StepIsNext

-----------------------------------------------------------------------------
(***************************************************************************)
(* Directories that do not exist, and flock.                               *)
(***************************************************************************)

\* What a step does to an entry: nothing, or one of five kinds of write, each
\* with the process that makes it.
Created(k) == ~Exists(k) /\ fs'[k] = [[NoEntry EXCEPT !.dir = NewDir(k)] EXCEPT !.recent = TRUE]
Locked(k) == Exists(k) /\ fs[k].lock = 0 /\ fs'[k] = [[fs[k] EXCEPT !.lock = NewIno(k)] EXCEPT !.recent = TRUE]
Filed(p, k) == /\ Exists(k) /\ p \in Compilers /\ key[p] = k
               /\ fs'[k].dir = fs[k].dir /\ fs'[k].lock = fs[k].lock /\ fs'[k].marker = fs[k].marker
               /\ \/ WriteScratch(p) /\ fs'[k].files = fs[k].files \cup {Scratch(p, file[p])}
                  \/ Clang(p) /\ fs'[k].files = fs[k].files \cup {Scratch(p, "so")}
                  \/ /\ Rename(p) /\ Scratch(p, file[p]) \in fs[k].files
                     /\ fs'[k].files = (fs[k].files \ {Scratch(p, file[p])}) \cup {Artifact(file[p])}
Touched(k) == /\ Exists(k) /\ fs'[k].dir = fs[k].dir /\ fs'[k].lock = fs[k].lock
              /\ fs'[k].files = fs[k].files
Removed(p, k) == /\ Exists(k) /\ pc[p] = "runlink" /\ victim[p].key = k
                 /\ \/ \E n \in victim[p].names :
                         /\ RUnlink(p, n) /\ fs[k].dir = victim[p].dir
                         /\ fs'[k] = [Unlinked(fs[k], n) EXCEPT !.recent = TRUE]
                    \/ RRmdir(p) /\ Listing(k) = {} /\ fs'[k] = NoEntry

LEMMA EntryChanges ==
  ASSUME IInv, Next, NEW k \in Keys, fs'[k] # fs[k]
  PROVE  \/ Created(k) \/ Locked(k) \/ Touched(k)
         \/ \E p \in Procs : Filed(p, k) \/ Removed(p, k)
<1> USE DEF IInv
<1> DEFINE Change(p) == Created(k) \/ Locked(k) \/ Filed(p, k) \/ Touched(k) \/ Removed(p, k)
<1>1. fs \in [Keys -> Entries] /\ fs[k] \in Entries
  BY DEF Shapes, FsShape
<1>2. ASSUME NEW p \in Compilers, Mkdir(p) PROVE Change(p)
  <2>1. ~Exists(key[p]) /\ fs' = [fs EXCEPT ![key[p]] = [[NoEntry EXCEPT !.dir = NewDir(key[p])] EXCEPT !.recent = TRUE]]
    BY <1>2 DEF Mkdir, Write
  <2> QED BY <1>1, <2>1 DEF Created
<1>3. ASSUME NEW p \in Procs, NEW l \in Keys, Exists(l), OpenLock(l) PROVE Change(p)
  <2>1. /\ fs[l].lock = 0
        /\ fs' = [fs EXCEPT ![l] = [[fs[l] EXCEPT !.lock = NewIno(l)] EXCEPT !.recent = TRUE]]
    BY <1>3 DEF OpenLock, Write
  <2> QED BY <1>1, <1>3, <2>1 DEF Locked
<1>4. ASSUME NEW p \in Compilers, Open(p) PROVE Change(p)
  <2>1. key[p] \in Keys /\ p \in Procs
    BY <1>4, Targets DEF Open, Procs
  <2> QED BY <1>3, <1>4, <2>1 DEF Open
<1>5. ASSUME NEW p \in Procs, ROpen(p) PROVE Change(p)
  <2>1. victim[p].key \in Keys
    BY <1>5, Targets DEF ROpen, Removing
  <2> QED BY <1>3, <1>5, <2>1 DEF ROpen
<1>6. ASSUME NEW p \in Compilers, Touch(p) \/ Hit(p) PROVE Change(p)
  <2>1. Exists(key[p]) /\ fs' = [fs EXCEPT ![key[p]] = [fs[key[p]] EXCEPT !.marker = "fresh",
                                   !.recent = fs[key[p]].recent \/ fs[key[p]].marker = "none"]]
    BY <1>6 DEF Touch, Hit, TouchEntry
  <2>2. fs'[k] = [fs[k] EXCEPT !.marker = "fresh", !.recent = fs[k].recent \/ fs[k].marker = "none"] /\ k = key[p]
    BY <1>1, <2>1
  <2> QED BY <1>1, <2>1, <2>2 DEF Touched, Entries
<1>7. ASSUME NEW p \in Compilers, NEW S,
             Exists(key[p]), fs' = [fs EXCEPT ![key[p]] = [[fs[key[p]] EXCEPT !.files = S] EXCEPT !.recent = TRUE]]
      PROVE  /\ key[p] = k /\ fs'[k].dir = fs[k].dir /\ fs'[k].lock = fs[k].lock
             /\ fs'[k].marker = fs[k].marker /\ fs'[k].files = S
  <2>1. key[p] = k /\ fs'[k] = [[fs[k] EXCEPT !.files = S] EXCEPT !.recent = TRUE]
    BY <1>1, <1>7
  <2> QED BY <1>1, <2>1 DEF Entries
<1>8. ASSUME NEW p \in Compilers, WriteScratch(p) PROVE Change(p)
  <2>1. Exists(key[p]) /\ fs' = [fs EXCEPT ![key[p]] = [[fs[key[p]] EXCEPT !.files = fs[key[p]].files \cup {Scratch(p, file[p])}]
                                                     EXCEPT !.recent = TRUE]]
    BY <1>8 DEF WriteScratch, Write
  <2> QED BY <1>7, <1>8, <2>1 DEF Filed
<1>9. ASSUME NEW p \in Compilers, Clang(p) PROVE Change(p)
  <2>1. Has(key[p], Last) /\ fs' = [fs EXCEPT ![key[p]] = [[fs[key[p]] EXCEPT !.files = fs[key[p]].files \cup {Scratch(p, "so")}]
                                                     EXCEPT !.recent = TRUE]]
    BY <1>9 DEF Clang, Write
  <2>2. Exists(key[p])
    BY <1>9, <2>1, Targets DEF Flocked, Has, Clang, NoEntry
  <2> QED BY <1>7, <1>9, <2>1, <2>2 DEF Filed
<1>10. ASSUME NEW p \in Compilers, Rename(p) PROVE Change(p)
  <2>1. /\ Scratch(p, file[p]) \in fs[key[p]].files
        /\ fs' = [fs EXCEPT ![key[p]] = [[fs[key[p]] EXCEPT !.files = (fs[key[p]].files \ {Scratch(p, file[p])})
                                             \cup {Artifact(file[p])}] EXCEPT !.recent = TRUE]]
    BY <1>10 DEF Rename, Write
  <2>2. Exists(key[p])
    BY <1>10, <2>1, Targets DEF Flocked, Rename, NoEntry
  <2> QED BY <1>7, <1>10, <2>1, <2>2 DEF Filed
<1>11. ASSUME NEW p \in Procs, NEW n \in victim[p].names, RUnlink(p, n) PROVE Change(p)
  <2>1. /\ fs[victim[p].key].dir = victim[p].dir /\ n \in Listing(victim[p].key) /\ pc[p] = "runlink"
        /\ fs' = [fs EXCEPT ![victim[p].key] = [Unlinked(fs[victim[p].key], n) EXCEPT !.recent = TRUE]]
    BY <1>11 DEF RUnlink, Write
  <2>2. k = victim[p].key /\ fs'[k] = [Unlinked(fs[k], n) EXCEPT !.recent = TRUE]
    BY <1>1, <2>1
  <2>3. Exists(k)
    BY <2>1, <2>2 DEF Flocked, Listing, NoEntry
  <2> QED BY <1>11, <2>1, <2>2, <2>3 DEF Removed
<1>12. ASSUME NEW p \in Procs, RRmdir(p) PROVE Change(p)
  <2>1. /\ Exists(victim[p].key) /\ Listing(victim[p].key) = {} /\ pc[p] = "runlink"
        /\ fs' = [fs EXCEPT ![victim[p].key] = NoEntry]
    BY <1>12 DEF RRmdir
  <2>2. k = victim[p].key /\ fs'[k] = NoEntry
    BY <1>1, <2>1
  <2> QED BY <1>12, <2>1, <2>2 DEF Removed
<1>13. ASSUME NEW l \in Keys, Age(l) PROVE Touched(k)
  <2>1. fs' = [fs EXCEPT ![l] = [fs[l] EXCEPT !.marker = IF fs[l].marker = "fresh" THEN "old" ELSE fs[l].marker,
                                              !.recent = FALSE]]
    BY <1>13 DEF Age
  <2>2. k = l /\ fs'[k] = [fs[k] EXCEPT !.marker = IF fs[l].marker = "fresh" THEN "old" ELSE fs[l].marker, !.recent = FALSE]
    BY <1>1, <2>1
  <2>3. Exists(k)
    BY <1>13, <2>2 DEF Age, Flocked, NoEntry
  <2> QED BY <1>1, <2>2, <2>3 DEF Touched, Entries
<1>14. ASSUME NEW p \in Compilers,
              \/ \E l \in Keys, e \in Lookups : Start(p, l, e)
              \/ IsDir(p) \/ FlockShared(p) \/ Validate(p) \/ Lookup(p) \/ Read(p) \/ Launch(p)
              \/ PruneStep(p)
       PROVE  FALSE
  BY <1>14 DEF Start, IsDir, FlockShared, Validate, Lookup, Read, Launch,
               PruneStep, SkipPrune, StartPrune, Evict, Scan
<1>15. ASSUME NEW p \in Clearers, StartClear(p) \/ ClearStep(p) PROVE FALSE
  BY <1>15 DEF StartClear, ClearStep, EndClear, ClearEntry
<1>16. ASSUME NEW p \in Procs,
              RFlock(p) \/ RList(p) \/ Crash(p) \/ \E n \in victim[p].names : RVanished(p, n)
       PROVE  FALSE
  BY <1>16 DEF RFlock, RList, RVanished, Crash
<1>17. Compilers \subseteq Procs
  BY DEF Procs
<1>18. ASSUME NEW p \in Procs, Change(p)
       PROVE  Created(k) \/ Locked(k) \/ Touched(k) \/ \E q \in Procs : Filed(q, k) \/ Removed(q, k)
  BY <1>18
<1> HIDE DEF Change
<1> QED
  BY <1>2, <1>4, <1>5, <1>6, <1>8, <1>9, <1>10, <1>11, <1>12, <1>13, <1>14, <1>15, <1>16, <1>17, <1>18
  DEF Next, ProcStep, CompileStep, RemoveStep

\* Who gets a lock: LOCK_SH is what FlockShared gives, LOCK_EX what RFlock does,
\* and the descriptor of a holder is not opened again.
LEMMA LockChanges ==
  ASSUME IInv, Next
  PROVE  /\ \A p \in Compilers : lockHeld'[p] =>
              /\ key'[p] = key[p] /\ lockIno'[p] = lockIno[p]
              /\ lockHeld[p] \/ FlockShared(p)
         /\ \A r \in Procs : victim'[r].held =>
              /\ victim'[r].key = victim[r].key /\ victim'[r].ino = victim[r].ino
              /\ victim[r].held \/ (RFlock(r) /\ Granted(r))
<1>1. /\ pc \in [Procs -> PC] /\ victim \in [Procs -> Victims]
      /\ lockIno \in [Compilers -> Nat] /\ lockHeld \in [Compilers -> BOOLEAN]
      /\ key \in [Compilers -> Keys \cup {NoKey}] /\ Compilers \subseteq Procs /\ Clearers \subseteq Procs
  BY DEF IInv, Shapes, PcShape, VictimShape, LocalShape, Procs
<1> DEFINE Shared(p) == lockHeld'[p] => /\ key'[p] = key[p] /\ lockIno'[p] = lockIno[p]
                                        /\ lockHeld[p] \/ FlockShared(p)
           Exclusive(r) == victim'[r].held => /\ victim'[r].key = victim[r].key /\ victim'[r].ino = victim[r].ino
                                              /\ victim[r].held \/ (RFlock(r) /\ Granted(r))
<1>2. ASSUME NEW p \in Compilers, Still(p) PROVE Shared(p)
  BY <1>2 DEF Still
<1>3. ASSUME NEW r \in Procs, Still(r) PROVE Exclusive(r)
  BY <1>3 DEF Still
<1>4. ASSUME NEW p \in Compilers, StepOf(p) PROVE Shared(p)
  <2>1. CompilerPhase(p)
    BY DEF IInv, Phases
  <2>2. CASE \E k \in Keys, e \in Lookups : Start(p, k, e)
    BY <1>1, <2>1, <2>2 DEF Start, CompilerPhase, InUse, Finished
  <2>3. CASE CompileStep(p)
    <3>1. CASE Mkdir(p) \/ IsDir(p) \/ Touch(p) \/ Hit(p)
      BY <1>1, <3>1 DEF Mkdir, IsDir, Touch, Hit, compileVars
    <3>2. CASE Open(p)
      BY <1>1, <2>1, <3>2 DEF Open, CompilerPhase, InUse
    <3>3. CASE FlockShared(p)
      BY <1>1, <3>3 DEF FlockShared
    <3>4. CASE Validate(p)
      BY <1>1, <3>4 DEF Validate, CloseLock
    <3>5. CASE Lookup(p) \/ Read(p)
      BY <1>1, <3>5 DEF Lookup, Read
    <3>6. CASE WriteScratch(p) \/ Clang(p) \/ Rename(p) \/ Launch(p)
      BY <1>1, <3>6 DEF WriteScratch, Clang, Rename, Launch, Fail, CloseLock
    <3> QED BY <2>3, <3>1, <3>2, <3>3, <3>4, <3>5, <3>6 DEF CompileStep
  <2>4. CASE PruneStep(p) \/ RemoveStep(p)
    <3>1. UNCHANGED compileVars
      BY <2>4 DEF PruneStep, SkipPrune, StartPrune, Evict, Scan,
                  RemoveStep, ROpen, RFlock, RList, RRmdir, RUnlink, RVanished
    <3> QED BY <3>1 DEF compileVars
  <2>5. CASE Crash(p)
    BY <1>1, <2>5 DEF Crash, CloseLock
  <2> QED BY <1>4, <2>2, <2>3, <2>4, <2>5, CacheAssumption DEF StepOf, ProcStep
<1>5. ASSUME NEW r \in Procs, StepOf(r) PROVE Exclusive(r)
  <2>1. VictimPhase(r) /\ VictimPhase(r)'
    BY <1>5, VictimPhaseStep DEF IInv, Phases
  <2>2. CASE NextVictim(r) \/ Crash(r)
    BY <1>1, <2>2 DEF NextVictim, Crash, NoVictim
  <2>3. CASE ROpen(r)
    BY <1>1, <2>1, <2>2, <2>3 DEF ROpen, VictimPhase, Victims
  <2>4. CASE RFlock(r)
    BY <1>1, <2>2, <2>4 DEF RFlock, Granted, Victims
  <2>5. CASE RList(r)
    <3>1. CASE victim' = [victim EXCEPT ![r].dir = fs[victim[r].key].dir, ![r].names = Listing(victim[r].key)]
      <4>1. victim' = [victim EXCEPT ![r] = [victim[r] EXCEPT !.dir = fs[victim[r].key].dir,
                                                              !.names = Listing(victim[r].key)]]
        BY <3>1
      <4>2. \A d, N : LET v == [victim[r] EXCEPT !.dir = d, !.names = N]
                     IN  v.key = victim[r].key /\ v.ino = victim[r].ino /\ v.held = victim[r].held
        BY <1>1 DEF Victims
      <4> QED BY <1>1, <4>1, <4>2
    <3> QED BY <2>2, <2>5, <3>1 DEF RList
  <2>6. CASE \E n \in victim[r].names : RUnlink(r, n) \/ RVanished(r, n)
    <3>1. CASE \E n : victim' = [victim EXCEPT ![r].names = @ \ {n}]
      BY <1>1, <3>1 DEF Victims
    <3> QED BY <2>2, <2>6, <3>1 DEF RUnlink, RVanished
  <2>7. CASE RRmdir(r)
    BY <2>2, <2>7 DEF RRmdir
  <2>8. CASE \/ r \in Compilers /\ \/ CompileStep(r) \/ PruneStep(r)
                                   \/ \E k \in Keys, e \in Lookups : Start(r, k, e)
             \/ r \in Clearers /\ (StartClear(r) \/ ClearStep(r))
    <3>1. pc[r] \notin {"rflock", "rlist", "runlink"}
      BY <2>8 DEF Start, CompileStep, Mkdir, IsDir, Open, FlockShared, Validate, Touch, Lookup, Hit,
                  Read, WriteScratch, Clang, Rename, Launch, PruneStep, SkipPrune, StartPrune, Evict, Scan,
                  StartClear, ClearStep, EndClear, ClearEntry, Finished
    <3>2. pc'[r] \notin {"rlist", "runlink"}
      <4>1. CASE r \in Compilers
        <5>1. cont[r] \notin {"rlist", "runlink"}
          BY <4>1 DEF IInv, Shapes, LocalShape, Continuations
        <5>2. CASE \E k \in Keys, e \in Lookups : Start(r, k, e)
          BY <1>1, <5>2 DEF Start, Goto
        <5>3. CASE PruneStep(r)
          BY <1>1, <3>1, <5>1, <5>3 DEF PruneStep, SkipPrune, StartPrune, Evict, Scan, Goto
        <5>4. CASE Mkdir(r) \/ IsDir(r) \/ Open(r) \/ FlockShared(r) \/ Validate(r) \/ Touch(r)
          BY <1>1, <5>4 DEF Mkdir, IsDir, Open, FlockShared, Validate, Touch, Retry, Goto
        <5>5. CASE Lookup(r) \/ Hit(r) \/ Read(r)
          BY <1>1, <5>5 DEF Lookup, Hit, Read, Goto
        <5>6. CASE WriteScratch(r) \/ Clang(r) \/ Rename(r) \/ Launch(r)
          BY <1>1, <5>6 DEF WriteScratch, Clang, Rename, Launch, Fail, Goto
        <5> QED BY <2>8, <4>1, <5>2, <5>3, <5>4, <5>5, <5>6, CacheAssumption DEF CompileStep
      <4>2. CASE r \in Clearers
        BY <1>1, <2>8, <3>1, <4>2, CacheAssumption DEF StartClear, ClearStep, EndClear, ClearEntry, Goto
      <4> QED BY <4>1, <4>2 DEF Procs
    <3> QED BY <2>1, <3>2 DEF VictimPhase
  <2> QED
    BY <1>5, <2>2, <2>3, <2>4, <2>5, <2>6, <2>7, <2>8
    DEF StepOf, ProcStep, RemoveStep
<1>6. ASSUME NEW k \in Keys, Age(k), NEW r \in Procs PROVE Still(r)
  BY <1>6 DEF Age, compileVars, removeVars, Still
<1>7. (\E r \in Procs : StepOf(r)) \/ \E k \in Keys : Age(k)
  BY StepIsNext
<1>8. ASSUME NEW p \in Procs, StepOf(p), NEW q \in Procs, p # q PROVE Still(q)
  BY <1>8, OthersStill DEF IInv
<1> HIDE DEF Shared, Exclusive
<1>9. \A p \in Compilers : Shared(p)
  BY <1>1, <1>2, <1>4, <1>6, <1>7, <1>8
<1>10. \A r \in Procs : Exclusive(r)
  BY <1>3, <1>5, <1>6, <1>7, <1>8
<1> QED BY <1>9, <1>10 DEF Shared, Exclusive

LEMMA FlockedStep ==
  ASSUME IInv, Next
  PROVE  Flocked'
<1>1. ASSUME NEW k \in Keys, ~Exists(k)' PROVE fs'[k] = NoEntry
  <2>1. CASE fs'[k] = fs[k]
    BY <1>1, <2>1 DEF IInv, Flocked, Exists
  <2>2. CASE fs'[k] # fs[k]
    <3>1. fs[k] \in Entries /\ NewDir(k) # 0
      BY NewIdentities DEF IInv, Shapes, FsShape
    <3>2. \A n : Unlinked(fs[k], n).dir = fs[k].dir /\ [Unlinked(fs[k], n) EXCEPT !.recent = TRUE].dir = fs[k].dir
      BY <3>1 DEF Unlinked, Entries
    <3>3. ~Created(k) /\ ~Locked(k) /\ ~Touched(k) /\ \A p \in Procs : ~Filed(p, k)
      BY <1>1, <3>1 DEF Created, Locked, Touched, Filed, Exists, NoEntry, Entries
    <3>4. PICK p \in Procs : Removed(p, k)
      BY <2>2, <3>3, EntryChanges
    <3>5. Exists(k)
      BY <3>4 DEF Removed
    <3>6. ASSUME NEW n, fs'[k] = [Unlinked(fs[k], n) EXCEPT !.recent = TRUE] PROVE FALSE
      BY <1>1, <3>2, <3>5, <3>6 DEF Exists
    <3> QED BY <3>4, <3>6 DEF Removed
  <2> QED BY <2>1, <2>2
<1>2. ASSUME NEW r \in Procs, NEW p \in Compilers, victim'[r].held, lockHeld'[p], key'[p] = victim'[r].key
      PROVE  lockIno'[p] # victim'[r].ino
  <2>1. /\ key'[p] = key[p] /\ lockIno'[p] = lockIno[p] /\ (lockHeld[p] \/ FlockShared(p))
        /\ victim'[r].key = victim[r].key /\ victim'[r].ino = victim[r].ino
        /\ victim[r].held \/ (RFlock(r) /\ Granted(r))
    BY <1>2, LockChanges
  <2>2. CASE victim[r].held /\ lockHeld[p]
    BY <1>2, <2>1, <2>2 DEF IInv, Flocked
  <2>3. CASE victim[r].held /\ FlockShared(p)
    BY <1>2, <2>1, <2>3 DEF FlockShared, HeldExclusive
  <2>4. CASE lockHeld[p] /\ RFlock(r) /\ Granted(r) /\ ~victim[r].held
    <3>1. HeldShared(victim[r].key, victim[r].ino) => NextVictim(r)
      BY <2>4 DEF RFlock
    <3>2. ~NextVictim(r)
      BY <1>2 DEF NextVictim, NoVictim, IInv, Shapes, VictimShape
    <3> QED BY <1>2, <2>1, <2>4, <3>1, <3>2 DEF HeldShared
  <2>5. CASE FlockShared(p) /\ RFlock(r) /\ Granted(r) /\ ~victim[r].held
    BY <1>2, <2>5 DEF FlockShared, Granted, IInv, Shapes, VictimShape, removeVars, Victims
  <2> QED BY <2>1, <2>2, <2>3, <2>4, <2>5
<1> QED BY <1>1, <1>2 DEF Flocked

-----------------------------------------------------------------------------
\* A cache left by earlier processes, and nobody in a call.
LEMMA InitIInv == Init => IInv
<1> SUFFICES ASSUME Init PROVE IInv
  OBVIOUS
<1>1. Len(TextStages) \in Nat \ {0}
  BY CacheAssumption, EmptySeq
<1>2. WarmEntry \in Entries /\ NoEntry \in Entries
  <2>1. {Artifact(TextStages[n]) : n \in 1..Len(TextStages)} \cup {Artifact("so")} \in SUBSET FileNames
    BY FileTypes DEF Names
  <2> QED BY <2>1 DEF WarmEntry, NoEntry, Entries
<1>3. /\ pc = [p \in Procs |-> "idle"] /\ key = [p \in Compilers |-> NoKey]
      /\ attempt = [p \in Compilers |-> 0] /\ lockIno = [p \in Compilers |-> 0]
      /\ lockHeld = [p \in Compilers |-> FALSE] /\ stage = [p \in Compilers |-> 1]
      /\ file = [p \in Compilers |-> "so"] /\ cont = [p \in Compilers |-> "idle"]
      /\ victim = [p \in Procs |-> NoVictim]
      /\ calls = [compile |-> 0, clear |-> 0, crash |-> 0, age |-> 0,
                   procs |-> {}, keys |-> {}, removed |-> {}]
      /\ Compilers \subseteq Procs
  BY DEF Init, Procs
<1>4. FsShape /\ PcShape /\ CallsShape
  BY <1>2, <1>3 DEF Init, FsShape, PcShape, PC, Finished, CallsShape
<1>5. LocalShape
  BY <1>1, <1>3 DEF LocalShape, Attempts, Names, Continuations
<1>6. ScanShape
  <2>1. [entries |-> {}, total |-> 0] \in Scans
    BY DEF Scans
  <2> QED BY <2>1 DEF Init, ScanShape
<1>7. VictimShape
  <2>1. NoVictim \in Victims
    BY DEF NoVictim, Victims
  <2> QED BY <1>3, <2>1 DEF VictimShape
<1>8. Phases
  <2>1. \A p \in Compilers : CompilerPhase(p)
    BY <1>3 DEF CompilerPhase, InUse, Finished, Pruning, Removing
  <2>2. \A p \in Clearers : ClearerPhase(p)
    BY <1>3 DEF ClearerPhase, Procs
  <2>3. \A r \in Procs : VictimPhase(r)
    BY <1>3 DEF VictimPhase, NoVictim, Removing
  <2> QED BY <2>1, <2>2, <2>3 DEF Phases
<1>9. Flocked
  <2>1. \A k \in Keys : ~Exists(k) => fs[k] = NoEntry
    BY DEF Init, Exists, WarmEntry
  <2>2. \A p \in Compilers : ~lockHeld[p]
    BY <1>3
  <2> QED BY <2>1, <2>2 DEF Flocked
<1> QED BY <1>4, <1>5, <1>6, <1>7, <1>8, <1>9 DEF IInv, Shapes

LEMMA StutterIInv ==
  ASSUME IInv, UNCHANGED vars
  PROVE  IInv'
<1>1. UNCHANGED <<fs, pc, compileVars, removeVars, calls>>
  BY DEF vars, compileVars, removeVars
<1>2. FsShape' /\ PcShape' /\ LocalShape' /\ ScanShape' /\ VictimShape' /\ CallsShape'
  BY <1>1 DEF IInv, Shapes, FsShape, PcShape, LocalShape, ScanShape, VictimShape, CallsShape,
              compileVars, removeVars
<1>3. Phases'
  BY <1>1 DEF IInv, Phases, CompilerPhase, ClearerPhase, VictimPhase, InUse, compileVars, removeVars
<1>4. Flocked'
  BY <1>1 DEF IInv, Flocked, Exists, compileVars, removeVars
<1> QED BY <1>2, <1>3, <1>4 DEF IInv, Shapes

LEMMA StepIInv ==
  ASSUME IInv, [Next]_vars
  PROVE  IInv'
BY ShapesStep, PhasesStep, FlockedStep, StutterIInv DEF IInv

LEMMA Invariant == Spec => []IInv
BY InitIInv, StepIInv, PTL DEF Spec

\* The invariant says all that TypeOK does.
LEMMA IInvTypeOK == IInv => TypeOK
<1> SUFFICES ASSUME IInv PROVE TypeOK
  OBVIOUS
<1>1. fs \in [Keys -> Entries]
  BY DEF IInv, Shapes, FsShape
<1>2. /\ pc \in [Procs -> PC] /\ key \in [Compilers -> Keys \cup {NoKey}]
      /\ attempt \in [Compilers -> 0..Attempts]
      /\ lockHeld \in [Compilers -> BOOLEAN] /\ lockIno \in [Compilers -> Nat]
  BY DEF IInv, Shapes, PcShape, LocalShape
<1>3. \A p \in Procs : victim[p].names \subseteq FileNames \cup {Lock, Marker}
  BY DEF IInv, Shapes, VictimShape, Victims
<1>4. \A k \in Keys : ~Exists(k) => Listing(k) = {}
  BY DEF IInv, Flocked, Listing, NoEntry
<1>5. \A k \in Keys, p \in Procs :
        victim[p].key = k /\ victim[p].held => ~HeldShared(k, victim[p].ino)
  BY DEF IInv, Flocked, HeldShared
<1> QED BY <1>1, <1>2, <1>3, <1>4, <1>5 DEF TypeOK, Entries

\* Whatever processes compile, evict, clear and crash: the variables have their
\* types, a directory that is gone holds nothing, and no `.lock` inode has shared
\* and exclusive holders (cache.py's use of mkdir, flock and rmtree).
THEOREM Types == Spec => []TypeOK
BY Invariant, IInvTypeOK, PTL

-----------------------------------------------------------------------------
(***************************************************************************)
(* Compilations whose entry nobody locked for removal.                     *)
(***************************************************************************)

\* What the program counter says of the entry, as long as nobody removes it.
Undisturbed(p) ==
  /\ pc[p] \notin {"exists", "gaveup", "broken"}
  /\ pc[p] \notin {"idle", "mkdir"} => Exists(key[p])
  /\ lockIno[p] # 0 => fs[key[p]].lock = lockIno[p]
  /\ pc[p] = "rename" => Scratch(p, file[p]) \in fs[key[p]].files
  /\ pc[p] = "clang" \/ (pc[p] \in Pruning /\ cont[p] = "clang") => Has(key[p], Last)
  /\ \/ pc[p] = "launch"
     \/ pc[p] \in Pruning /\ cont[p] = "launch"
     \/ pc[p] = "hit" /\ stage[p] > Len(TextStages)
     => Has(key[p], "so")

OneKernel == calls.clear = 0 /\ \A j, k \in calls.keys : j = k

Kept ==
  /\ \A p \in Compilers : key[p] \notin calls.removed => Undisturbed(p)
  /\ \A r \in Procs : victim[r].ino # 0 /\ victim[r].key \notin calls.removed =>
       fs[victim[r].key].lock = victim[r].ino
  /\ calls.clear = 0 => \A r \in Clearers : pc[r] = "idle"
  /\ calls.clear = 0 /\ calls.keys = {} => calls.removed = {}
  /\ OneKernel => calls.keys \cap calls.removed = {}

\* An entry that is not being removed only grows: its directory, its lock and its
\* artifacts stay, and a scratch file is its writer's.
LEMMA EntryGrows ==
  ASSUME IInv, Next, NEW k \in Keys, k \notin calls.removed
  PROVE  /\ Exists(k) => Exists(k)'
         /\ fs[k].lock # 0 => fs'[k].lock = fs[k].lock
         /\ \A f : Has(k, f) => Has(k, f)'
         /\ \A p \in Compilers, f \in Names :
              Scratch(p, f) \in fs[k].files /\ ~Rename(p) => Scratch(p, f) \in fs'[k].files
<1>1. CASE fs'[k] = fs[k]
  BY <1>1 DEF Exists, Has
<1>2. CASE fs'[k] # fs[k]
  <2>1. \A p \in Procs : ~Removed(p, k)
    BY DEF Removed, IInv, Phases, VictimPhase
  <2>2. fs[k] \in Entries /\ (~Exists(k) => fs[k].lock = 0 /\ fs[k].files = {})
    BY DEF IInv, Shapes, FsShape, Flocked, NoEntry
  <2>3. Created(k) \/ Locked(k) \/ Touched(k) \/ \E q \in Procs : Filed(q, k)
    BY <1>2, <2>1, EntryChanges
  <2>4. CASE Created(k)
    BY <2>2, <2>4 DEF Created, Exists, Has
  <2>5. CASE Locked(k) \/ Touched(k)
    BY <2>2, <2>5 DEF Locked, Touched, Exists, Has, Entries
  <2>6. CASE \E q \in Procs : Filed(q, k)
    <3>1. PICK q \in Procs : Filed(q, k)
      BY <2>6
    <3>2. q \in Compilers /\ q # Published
      BY <3>1, CacheAssumption DEF Filed
    <3>3. fs'[k].dir = fs[k].dir /\ fs'[k].lock = fs[k].lock
      BY <3>1 DEF Filed
    <3>4. CASE fs[k].files \subseteq fs'[k].files
      BY <3>3, <3>4 DEF Exists, Has
    <3>5. CASE /\ Rename(q)
               /\ fs'[k].files = (fs[k].files \ {Scratch(q, file[q])}) \cup {Artifact(file[q])}
      <4>1. \A f : Artifact(f) # Scratch(q, file[q])
        BY <3>2 DEF Artifact, Scratch
      <4>2. \A p \in Compilers : \A f : p # q => Scratch(p, f) # Scratch(q, file[q])
        BY DEF Scratch
      <4> QED BY <3>3, <3>5, <4>1, <4>2 DEF Exists, Has
    <3> QED BY <3>1, <3>4, <3>5 DEF Filed
  <2> QED BY <2>3, <2>4, <2>5, <2>6
<1> QED BY <1>1, <1>2

\* A compiler that does not step: what its phase relies on is still there.
LEMMA StillUndisturbed ==
  ASSUME IInv, Next, NEW q \in Compilers, Still(q), ~Rename(q), key[q] \notin calls.removed, Undisturbed(q)
  PROVE  Undisturbed(q)'
<1>1. CASE pc[q] = "idle"
  <2>1. lockIno[q] = 0
    BY <1>1 DEF IInv, Phases, CompilerPhase, InUse, Finished
  <2> QED BY <1>1, <2>1 DEF Undisturbed, Still, Pruning, Removing
<1>2. CASE pc[q] # "idle"
  <2>1. key[q] \in Keys /\ file[q] \in Names
    BY <1>2, Targets DEF IInv, Shapes, LocalShape
  <2>2. /\ Exists(key[q]) => Exists(key[q])'
        /\ fs[key[q]].lock # 0 => fs'[key[q]].lock = fs[key[q]].lock
        /\ Has(key[q], Last) => Has(key[q], Last)'
        /\ Has(key[q], "so") => Has(key[q], "so")'
        /\ Scratch(q, file[q]) \in fs[key[q]].files => Scratch(q, file[q]) \in fs'[key[q]].files
    <3>1. \A k \in Keys : key[q] = k => /\ key'[q] = k
                                        /\ Exists(k) => Exists(k)'
                                        /\ fs[k].lock # 0 => fs'[k].lock = fs[k].lock
                                        /\ Has(k, Last) => Has(k, Last)'
                                        /\ Has(k, "so") => Has(k, "so")'
                                        /\ Scratch(q, file[q]) \in fs[k].files => Scratch(q, file[q]) \in fs'[k].files
      BY <2>1, EntryGrows DEF Still
    <3> QED BY <2>1, <3>1 DEF Exists, Has
  <2> QED BY <2>2 DEF Undisturbed, Still, Exists, Has
<1> QED BY <1>1, <1>2

\* An open of `.lock` finds the inode of the entry, or gives it one.
LEMMA OpenedLock ==
  ASSUME IInv, NEW k \in Keys, OpenLock(k)
  PROVE  fs'[k].lock = OpenedIno(k)
<1>1. fs \in [Keys -> Entries] /\ fs[k] \in Entries
  BY DEF IInv, Shapes, FsShape
<1>2. CASE fs[k].lock # 0
  BY <1>2 DEF OpenLock, OpenedIno
<1>3. CASE fs[k].lock = 0
  <2>1. fs'[k] = [[fs[k] EXCEPT !.lock = NewIno(k)] EXCEPT !.recent = TRUE]
    BY <1>1, <1>3 DEF OpenLock, Write
  <2> QED BY <1>1, <1>3, <2>1 DEF OpenedIno, Entries
<1> QED BY <1>2, <1>3

\* The descriptor of a remover is the one that ROpen gave it.
LEMMA DescriptorStep ==
  ASSUME IInv, Next, NEW r \in Procs, victim'[r].ino # 0
  PROVE  \/ /\ victim'[r].key = victim[r].key /\ victim'[r].ino = victim[r].ino
            /\ victim[r].held => victim'[r].held
         \/ /\ ROpen(r) /\ Exists(victim[r].key) /\ OpenLock(victim[r].key)
            /\ victim'[r].key = victim[r].key /\ victim'[r].ino = OpenedIno(victim[r].key)
<1> DEFINE Kept1 == /\ victim'[r].key = victim[r].key /\ victim'[r].ino = victim[r].ino
                    /\ victim[r].held => victim'[r].held
           Opens == /\ ROpen(r) /\ Exists(victim[r].key) /\ OpenLock(victim[r].key)
                    /\ victim'[r].key = victim[r].key /\ victim'[r].ino = OpenedIno(victim[r].key)
<1>1. victim \in [Procs -> Victims] /\ victim[r] \in Victims
  BY DEF IInv, Shapes, VictimShape
<1>2. ASSUME Still(r) \/ UNCHANGED victim PROVE Kept1
  BY <1>2 DEF Still
<1>3. ~NextVictim(r) /\ ~Crash(r)
  BY <1>1 DEF NextVictim, Crash, NoVictim
<1>4. ASSUME ROpen(r) PROVE Opens
  <2>1. /\ Exists(victim[r].key) /\ OpenLock(victim[r].key)
        /\ victim' = [victim EXCEPT ![r] = [victim[r] EXCEPT !.ino = OpenedIno(victim[r].key)]]
    BY <1>3, <1>4 DEF ROpen
  <2>2. \A i : [victim[r] EXCEPT !.ino = i].key = victim[r].key /\ [victim[r] EXCEPT !.ino = i].ino = i
    BY <1>1 DEF Victims
  <2> QED BY <1>1, <1>4, <2>1, <2>2
<1>5. ASSUME RFlock(r) PROVE Kept1
  BY <1>1, <1>3, <1>5 DEF RFlock, Granted, Victims
<1>6. ASSUME RList(r) PROVE Kept1
  <2>1. victim' = [victim EXCEPT ![r] = [victim[r] EXCEPT !.dir = fs[victim[r].key].dir,
                                                          !.names = Listing(victim[r].key)]]
    BY <1>3, <1>6 DEF RList
  <2>2. \A d, N : LET v == [victim[r] EXCEPT !.dir = d, !.names = N]
                 IN  v.key = victim[r].key /\ v.ino = victim[r].ino /\ v.held = victim[r].held
    BY <1>1 DEF Victims
  <2> QED BY <1>1, <2>1, <2>2
<1>7. ASSUME NEW n, RUnlink(r, n) \/ RVanished(r, n) PROVE Kept1
  <2>1. victim' = [victim EXCEPT ![r].names = victim[r].names \ {n}]
    BY <1>3, <1>7 DEF RUnlink, RVanished
  <2> QED BY <1>1, <2>1 DEF Victims
<1>8. ~RRmdir(r)
  BY <1>3 DEF RRmdir
<1>9. ASSUME \/ r \in Compilers /\ \/ CompileStep(r) \/ PruneStep(r)
                                   \/ \E k \in Keys, e \in Lookups : Start(r, k, e)
             \/ r \in Clearers /\ (StartClear(r) \/ ClearStep(r))
      PROVE  UNCHANGED victim
  <2>1. \A k, n : [NoVictim EXCEPT !.key = k, !.size = n].ino = 0 /\ [NoVictim EXCEPT !.key = k].ino = 0
    BY DEF NoVictim
  <2>2. UNCHANGED victim \/ \E k, n : victim' = [victim EXCEPT ![r] = [NoVictim EXCEPT !.key = k, !.size = n]]
                         \/ \E l : victim' = [victim EXCEPT ![r] = [NoVictim EXCEPT !.key = l]]
    BY <1>9 DEF Start, CompileStep, Mkdir, IsDir, Open, FlockShared, Validate, Touch, Lookup, Hit,
                Read, WriteScratch, Clang, Rename, Launch, PruneStep, SkipPrune, StartPrune, Evict, Scan,
                StartClear, ClearStep, EndClear, ClearEntry, removeVars
  <2>3. UNCHANGED victim \/ \E v : v.ino = 0 /\ victim' = [victim EXCEPT ![r] = v]
    BY <2>1, <2>2
  <2> QED BY <1>1, <2>3
<1>10. \/ Still(r) \/ StepOf(r)
  <2>1. ASSUME NEW k \in Keys, Age(k) PROVE Still(r)
    BY <2>1 DEF Age, compileVars, removeVars, Still
  <2> QED BY <2>1, StepIsNext, OthersStill DEF IInv
<1> HIDE DEF Kept1, Opens
<1>11. Kept1 \/ Opens
  BY <1>2, <1>3, <1>4, <1>5, <1>6, <1>7, <1>8, <1>9, <1>10 DEF StepOf, ProcStep, RemoveStep
<1> QED BY <1>11 DEF Kept1, Opens

\* Each call of a compilation finds what the one before left.
LEMMA UndisturbedStep ==
  ASSUME IInv, Next, NEW p \in Compilers, StepOf(p), key'[p] \notin calls'.removed,
         key[p] \notin calls.removed => Undisturbed(p)
  PROVE  Undisturbed(p)'
<1>1. /\ p \in Procs /\ p \notin Clearers /\ pc \in [Procs -> PC]
      /\ key \in [Compilers -> Keys \cup {NoKey}] /\ attempt \in [Compilers -> 0..Attempts]
      /\ lockIno \in [Compilers -> Nat] /\ lockHeld \in [Compilers -> BOOLEAN]
      /\ stage \in [Compilers -> 1..(Len(TextStages) + 1)]
      /\ file \in [Compilers -> Names] /\ cont \in [Compilers -> Continuations]
  BY CacheAssumption DEF IInv, Shapes, PcShape, LocalShape, Procs
<1>2. CompilerPhase(p) /\ CompilerPhase(p)'
  BY CompilerPhaseStep, CallsStep DEF IInv, Phases
<1>3. calls.removed \subseteq calls'.removed
  BY CallsStep DEF IInv
<1> DEFINE k == key[p]
<1>4. ASSUME \E l \in Keys, e \in Lookups : Start(p, l, e) PROVE Undisturbed(p)'
  <2>1. pc'[p] = "mkdir"
    BY <1>1, <1>4 DEF Start, Goto
  <2>2. ~ (lockIno'[p] # 0)
    BY <1>2, <2>1 DEF CompilerPhase, InUse
  <2> QED BY <2>1, <2>2 DEF Undisturbed, Pruning, Removing
<1>5. ASSUME Crash(p) PROVE Undisturbed(p)'
  <2>1. pc'[p] = "idle"
    BY <1>1, <1>5 DEF Crash, Goto
  <2>2. ~ (lockIno'[p] # 0)
    BY <1>2, <2>1 DEF CompilerPhase, InUse, Finished
  <2> QED BY <2>1, <2>2 DEF Undisturbed, Pruning, Removing
<1>6. ASSUME CompileStep(p) \/ PruneStep(p) \/ RemoveStep(p) PROVE key'[p] = k /\ k \in Keys
  <2>1. UNCHANGED key
    BY <1>6 DEF CompileStep, Mkdir, IsDir, Open, FlockShared, Validate, Touch, Lookup, Hit, Read,
                WriteScratch, Clang, Rename, Launch, PruneStep, SkipPrune, StartPrune, Evict, Scan,
                RemoveStep, ROpen, RFlock, RList, RRmdir, RUnlink, RVanished, compileVars
  <2>2. pc[p] # "idle"
    BY <1>6 DEF CompileStep, Mkdir, IsDir, Open, FlockShared, Validate, Touch, Lookup, Hit, Read,
                WriteScratch, Clang, Rename, Launch, PruneStep, SkipPrune, StartPrune, Evict, Scan,
                RemoveStep, ROpen, RFlock, RList, RRmdir, RUnlink, RVanished
  <2> QED BY <2>1, <2>2, Targets DEF IInv
<1>7. ASSUME CompileStep(p) \/ PruneStep(p) \/ RemoveStep(p)
      PROVE  /\ Undisturbed(p) /\ k \in Keys /\ key'[p] = k /\ fs[k] \in Entries
             /\ Exists(k) => Exists(k)'
             /\ fs[k].lock # 0 => fs'[k].lock = fs[k].lock
             /\ Has(k, Last) => Has(k, Last)'
             /\ Has(k, "so") => Has(k, "so")'
  <2>1. k \in Keys /\ key'[p] = k /\ k \notin calls.removed
    BY <1>3, <1>6, <1>7
  <2> HIDE DEF k
  <2>2. fs[k] \in Entries
    BY <2>1 DEF IInv, Shapes, FsShape
  <2> QED BY <2>1, <2>2, EntryGrows DEF k
<1>8. ASSUME Mkdir(p) \/ IsDir(p) PROVE Undisturbed(p)'
  <2>1. Undisturbed(p) /\ k \in Keys /\ key'[p] = k /\ (Exists(k) => Exists(k)')
    BY <1>7, <1>8 DEF CompileStep
  <2>2. pc'[p] \in {"isdir", "open"} /\ Exists(k)'
    <3>1. CASE IsDir(p)
      BY <1>1, <2>1, <3>1 DEF IsDir, Goto, Undisturbed
    <3>2. CASE Mkdir(p) /\ Exists(k)
      BY <1>1, <2>1, <3>2 DEF Mkdir, Goto
    <3>3. CASE Mkdir(p) /\ ~Exists(k)
      <4>1. NewDir(k) # 0 /\ fs \in [Keys -> Entries]
        BY <2>1, NewIdentities DEF IInv, Shapes, FsShape
      <4>2. Goto(p, "open") /\ fs' = [fs EXCEPT ![k] = [[NoEntry EXCEPT !.dir = NewDir(k)] EXCEPT !.recent = TRUE]]
        BY <3>3 DEF Mkdir, Write
      <4>3. fs'[k].dir = NewDir(k)
        <5> HIDE DEF k
        <5>1. fs'[k] = [[NoEntry EXCEPT !.dir = NewDir(k)] EXCEPT !.recent = TRUE]
          BY <2>1, <4>1, <4>2
        <5> QED BY <5>1 DEF NoEntry
      <4> QED BY <1>1, <2>1, <4>1, <4>2, <4>3 DEF Goto, Exists
    <3> QED BY <1>8, <3>1, <3>2, <3>3
  <2>3. ~ (lockIno'[p] # 0)
    BY <1>2, <2>2 DEF CompilerPhase, InUse
  <2> QED BY <2>1, <2>2, <2>3 DEF Undisturbed, Exists, Pruning, Removing
<1>9. ASSUME Open(p) PROVE Undisturbed(p)'
  <2>1. Undisturbed(p) /\ k \in Keys /\ key'[p] = k /\ (Exists(k) => Exists(k)') /\ fs[k] \in Entries
    BY <1>7, <1>9 DEF CompileStep
  <2>2. Exists(k)
    BY <1>9, <2>1 DEF Open, Undisturbed
  <2>3. pc'[p] = "flock" /\ lockIno'[p] = OpenedIno(k)
    BY <1>1, <1>9, <2>2 DEF Open, Goto
  <2>4. fs'[k].lock = OpenedIno(k)
    <3>1. OpenLock(k)
      BY <1>9, <2>2 DEF Open
    <3> QED BY <2>1, <3>1, OpenedLock
  <2> QED BY <2>1, <2>2, <2>3, <2>4 DEF Undisturbed, Exists, Pruning, Removing
<1> DEFINE Same == /\ lockIno'[p] = lockIno[p] /\ key'[p] = k /\ Undisturbed(p) /\ lockIno[p] # 0
                   /\ Exists(k)' /\ fs'[k].lock = lockIno[p]
                   /\ Has(k, Last) => Has(k, Last)'
                   /\ Has(k, "so") => Has(k, "so")'
<1>10. ASSUME CompileStep(p) \/ PruneStep(p) \/ RemoveStep(p), lockIno[p] # 0, lockIno'[p] = lockIno[p]
       PROVE  Same
  <2>1. pc[p] \notin {"idle", "mkdir"}
    BY <1>2, <1>10 DEF CompilerPhase, InUse, Finished
  <2> QED BY <1>7, <1>10, <2>1 DEF Undisturbed
<1>11. ASSUME FlockShared(p) \/ Validate(p) \/ Touch(p) \/ Lookup(p) \/ Hit(p) \/ Read(p) \/ PruneStep(p)
       PROVE  /\ lockIno[p] # 0 /\ Undisturbed(p)
              /\ Validate(p) => SameStat(p)
  <2>1. lockIno[p] # 0
    BY <1>2, <1>11 DEF FlockShared, Validate, Touch, Lookup, Hit, Read, PruneStep, SkipPrune, StartPrune,
                       Evict, Scan, CompilerPhase, InUse, Finished
  <2> QED BY <1>7, <1>11, <2>1 DEF CompileStep, Undisturbed, SameStat
<1>12. ASSUME FlockShared(p) \/ Validate(p) \/ Touch(p) PROVE Undisturbed(p)'
  <2>1. /\ UNCHANGED <<lockIno, file, stage>>
        /\ \/ pc'[p] \in {"validate", "lookup"}
           \/ pc'[p] = "prune" /\ cont'[p] = "touch"
    BY <1>1, <1>11, <1>12 DEF FlockShared, Validate, Touch, Goto, compileVars
  <2>2. Same
    BY <1>10, <1>11, <1>12, <2>1 DEF CompileStep
  <2> QED BY <2>1, <2>2 DEF Undisturbed, Exists, Pruning, Removing
<1>13. ASSUME Lookup(p) PROVE Undisturbed(p)'
  <2>1. Same /\ UNCHANGED fs
    BY <1>10, <1>11, <1>13 DEF CompileStep, Lookup
  <2>2. CASE pc'[p] = "hit" /\ UNCHANGED stage
    <3>1. stage[p] > Len(TextStages) => Has(k, "so")
      BY <1>1, <1>13, <2>2 DEF Lookup, Goto
    <3> QED BY <2>1, <2>2, <3>1 DEF Undisturbed, Exists, Has, Pruning, Removing
  <2>3. CASE pc'[p] = "write"
    BY <2>1, <2>3 DEF Undisturbed, Exists, Pruning, Removing
  <2> QED BY <1>1, <1>13, <2>2, <2>3 DEF Lookup, Goto
<1>14. ASSUME Hit(p) PROVE Undisturbed(p)'
  <2>1. Same /\ UNCHANGED stage
    BY <1>10, <1>11, <1>14 DEF CompileStep, Hit, compileVars
  <2>2. CASE pc'[p] = "read"
    BY <2>1, <2>2 DEF Undisturbed, Exists, Pruning, Removing
  <2>3. CASE pc'[p] = "launch" /\ pc[p] = "hit" /\ stage[p] > Len(TextStages)
    BY <2>1, <2>3 DEF Undisturbed, Exists, Has, Pruning, Removing
  <2>4. Len(TextStages) \in Nat
    BY CacheAssumption
  <2> QED BY <1>1, <1>14, <2>2, <2>3, <2>4 DEF Hit, Goto
<1>15. ASSUME Read(p) PROVE Undisturbed(p)'
  <2>1. Same /\ pc'[p] \in {"lookup", "write"}
    BY <1>1, <1>10, <1>11, <1>15 DEF CompileStep, Read, Goto
  <2> QED BY <2>1 DEF Undisturbed, Exists, Pruning, Removing
<1>16. ASSUME WriteScratch(p) \/ Clang(p) \/ Rename(p) \/ Launch(p)
       PROVE  Undisturbed(p) /\ lockIno[p] # 0 /\ k \in Keys /\ fs \in [Keys -> Entries] /\ Exists(k)
  <2>1. lockIno[p] # 0
    BY <1>2, <1>16 DEF WriteScratch, Clang, Rename, Launch, CompilerPhase, InUse, Finished
  <2>2. Undisturbed(p) /\ k \in Keys /\ fs \in [Keys -> Entries]
    BY <1>7, <1>16 DEF CompileStep, IInv, Shapes, FsShape
  <2> QED BY <1>16, <2>1, <2>2 DEF Undisturbed, WriteScratch, Clang, Rename, Launch
<1>17. ASSUME WriteScratch(p) PROVE Undisturbed(p)'
  <2>1. Exists(k)
    BY <1>16, <1>17
  <2>2. /\ UNCHANGED <<lockIno, file>> /\ Goto(p, "rename")
        /\ fs' = [fs EXCEPT ![k] = [[fs[k] EXCEPT !.files = fs[k].files \cup {Scratch(p, file[p])}] EXCEPT !.recent = TRUE]]
    BY <1>17, <2>1 DEF WriteScratch, Write
  <2>3. Scratch(p, file[p]) \in fs'[k].files
    <3> HIDE DEF k
    <3> QED BY <1>16, <1>17, <2>2 DEF Entries
  <2>4. Same /\ pc'[p] = "rename"
    BY <1>1, <1>10, <1>16, <1>17, <2>2 DEF CompileStep, Goto
  <2> QED BY <2>2, <2>3, <2>4 DEF Undisturbed, Exists, Pruning, Removing
<1>18. ASSUME Clang(p) PROVE Undisturbed(p)'
  <2>1. Has(k, Last)
    BY <1>16, <1>18 DEF Undisturbed, Clang
  <2>2. /\ UNCHANGED lockIno /\ file' = [file EXCEPT ![p] = "so"] /\ Goto(p, "rename")
        /\ fs' = [fs EXCEPT ![k] = [[fs[k] EXCEPT !.files = fs[k].files \cup {Scratch(p, "so")}] EXCEPT !.recent = TRUE]]
    BY <1>18, <2>1 DEF Clang, Write
  <2>3. Scratch(p, "so") \in fs'[k].files /\ file'[p] = "so"
    <3> HIDE DEF k
    <3> QED BY <1>1, <1>16, <1>18, <2>2 DEF Entries
  <2>4. Same /\ pc'[p] = "rename"
    BY <1>1, <1>10, <1>16, <1>18, <2>2 DEF CompileStep, Goto
  <2> QED BY <2>3, <2>4 DEF Undisturbed, Exists, Pruning, Removing
<1>19. ASSUME Rename(p) PROVE Undisturbed(p)'
  <2>1. Scratch(p, file[p]) \in fs[k].files
    BY <1>16, <1>19 DEF Undisturbed, Rename
  <2>2. /\ UNCHANGED <<lockIno, cont>> /\ Goto(p, "prune")
        /\ fs' = [fs EXCEPT ![k] = [[fs[k] EXCEPT !.files = (fs[k].files \ {Scratch(p, file[p])}) \cup {Artifact(file[p])}]
                                     EXCEPT !.recent = TRUE]]
    BY <1>19, <2>1 DEF Rename, Write
  <2>3. Has(k, file[p])' /\ UNCHANGED file
    <3>1. Artifact(file[p]) \in fs'[k].files
      <4> HIDE DEF k
      <4> QED BY <1>16, <1>19, <2>2 DEF Entries
    <3>2. UNCHANGED file /\ key'[p] = k
      BY <1>7, <1>19 DEF CompileStep, Rename
    <3> QED BY <3>1, <3>2 DEF Has, Artifact
  <2>4. Same /\ pc'[p] = "prune"
    BY <1>1, <1>10, <1>16, <1>19, <2>2 DEF CompileStep, Goto
  <2>5. (cont[p] = "clang" => file[p] = Last) /\ (cont[p] = "launch" => file[p] = "so")
    BY <1>2, <1>19 DEF CompilerPhase, Rename
  <2>6. cont'[p] = "clang" => Has(k, Last)'
    BY <2>2, <2>3, <2>5 DEF Has
  <2>7. cont'[p] = "launch" => Has(k, "so")'
    BY <2>2, <2>3, <2>5 DEF Has
  <2> QED BY <2>4, <2>6, <2>7 DEF Undisturbed, Exists, Has, Pruning, Removing
<1>20. ASSUME Launch(p) PROVE Undisturbed(p)'
  <2>1. Has(k, "so")
    BY <1>16, <1>20 DEF Undisturbed, Launch
  <2>2. pc'[p] = "idle" /\ lockIno'[p] = 0
    BY <1>1, <1>20, <2>1 DEF Launch, CloseLock, Goto
  <2> QED BY <2>2 DEF Undisturbed, Pruning, Removing
<1>21. ASSUME PruneStep(p) PROVE Undisturbed(p)'
  <2>1. /\ UNCHANGED <<lockIno, cont, fs>> /\ pc[p] \in Pruning
        /\ UNCHANGED pc \/ Goto(p, "scan") \/ Goto(p, "ropen") \/ Goto(p, cont[p])
    BY <1>21 DEF PruneStep, SkipPrune, StartPrune, Evict, Scan, compileVars, Pruning
  <2>2. pc'[p] \in Pruning \/ pc'[p] = cont[p]
    BY <1>1, <2>1 DEF Goto, Pruning, Removing
  <2>3. Same /\ cont[p] \in {"touch", "lookup", "clang", "launch"}
    BY <1>1, <1>2, <1>10, <1>11, <1>21, <2>1 DEF CompilerPhase, Continuations
  <2>4. pc'[p] \notin {"exists", "gaveup", "broken", "rename", "hit"}
    BY <2>2, <2>3 DEF Pruning, Removing
  <2>5. pc'[p] = "clang" \/ (pc'[p] \in Pruning /\ cont'[p] = "clang") => Has(k, Last)
    BY <2>1, <2>2, <2>3 DEF Undisturbed, Pruning, Removing
  <2>6. pc'[p] = "launch" \/ (pc'[p] \in Pruning /\ cont'[p] = "launch") => Has(k, "so")
    BY <2>1, <2>2, <2>3 DEF Undisturbed, Pruning, Removing
  <2> QED BY <2>3, <2>4, <2>5, <2>6 DEF Undisturbed, Exists, Has
<1>22. ASSUME RemoveStep(p) PROVE Undisturbed(p)'
  <2>1. /\ UNCHANGED <<lockIno, cont>> /\ pc[p] \in Pruning
        /\ UNCHANGED pc \/ \E l \in Removing \cup {"evict"} : Goto(p, l)
    BY <1>1, <1>22 DEF RemoveStep, ROpen, RFlock, Granted, RList, RRmdir, RUnlink, RVanished, NextVictim,
                       compileVars, Pruning, Removing
  <2>2. pc'[p] \in Pruning
    BY <1>1, <2>1 DEF Goto, Pruning, Removing
  <2>3. lockIno[p] # 0
    BY <1>2, <1>22 DEF RemoveStep, ROpen, RFlock, RList, RRmdir, RUnlink, RVanished,
                       CompilerPhase, InUse, Finished
  <2>4. Same
    BY <1>10, <1>22, <2>1, <2>3
  <2> QED BY <2>1, <2>2, <2>4 DEF Undisturbed, Exists, Has, Pruning, Removing
<1> QED
  BY <1>1, <1>4, <1>5, <1>8, <1>9, <1>12, <1>13, <1>14, <1>15, <1>17, <1>18, <1>19, <1>20, <1>21, <1>22
  DEF StepOf, ProcStep, CompileStep

\* The keys that are compiled come with Start, and those locked for removal with
\* the exclusive lock.
LEMMA HistoryStep ==
  ASSUME IInv, Next
  PROVE  \/ UNCHANGED <<calls.keys, calls.removed>>
         \/ \E p \in Compilers, k \in Keys :
              calls'.keys = calls.keys \cup {k} /\ calls'.removed = calls.removed
         \/ \E r \in Procs : /\ RFlock(r) /\ Granted(r) /\ ~NextVictim(r)
                             /\ calls'.keys = calls.keys
                             /\ calls'.removed = calls.removed \cup {victim[r].key}
<1> DEFINE Grown == \/ UNCHANGED <<calls.keys, calls.removed>>
                    \/ \E p \in Compilers, k \in Keys :
                         calls'.keys = calls.keys \cup {k} /\ calls'.removed = calls.removed
                    \/ \E r \in Procs : /\ RFlock(r) /\ Granted(r) /\ ~NextVictim(r)
                                        /\ calls'.keys = calls.keys
                                        /\ calls'.removed = calls.removed \cup {victim[r].key}
<1>1. CallsShape /\ victim \in [Procs -> Victims]
  BY DEF IInv, Shapes, VictimShape
<1>2. ASSUME NEW p \in Compilers, NEW k \in Keys, NEW e \in Lookups, Start(p, k, e) PROVE Grown
  BY <1>1, <1>2 DEF CallsShape, Start
<1>3. ASSUME NEW p \in Clearers, StartClear(p) PROVE UNCHANGED <<calls.keys, calls.removed>>
  BY <1>1, <1>3 DEF CallsShape, StartClear
<1>4. ASSUME NEW r \in Procs, RFlock(r) PROVE Grown
  <2>1. CASE Granted(r)
    <3>1. calls'.keys = calls.keys /\ calls'.removed = calls.removed \cup {victim[r].key}
      BY <1>1, <2>1 DEF CallsShape, Granted
    <3>2. ~NextVictim(r)
      BY <1>1, <2>1 DEF Granted, NextVictim, NoVictim, Victims
    <3> QED BY <1>4, <2>1, <3>1, <3>2
  <2> QED BY <1>4, <2>1 DEF RFlock
<1>5. ASSUME NEW p \in Procs, Crash(p) PROVE UNCHANGED <<calls.keys, calls.removed>>
  BY <1>1, <1>5 DEF CallsShape, Crash
<1>6. ASSUME NEW k \in Keys, Age(k) PROVE UNCHANGED <<calls.keys, calls.removed>>
  BY <1>1, <1>6 DEF CallsShape, Age
<1>7. ASSUME NEW p \in Compilers, CompileStep(p) \/ PruneStep(p) PROVE UNCHANGED calls
  BY <1>7 DEF CompileStep, Mkdir, IsDir, Open, FlockShared, Validate, Touch, Lookup, Hit, Read,
              WriteScratch, Clang, Rename, Launch, PruneStep, SkipPrune, StartPrune, Evict, Scan
<1>8. ASSUME NEW p \in Clearers, ClearStep(p) PROVE UNCHANGED calls
  BY <1>8 DEF ClearStep, EndClear, ClearEntry
<1>9. ASSUME NEW p \in Procs,
             ROpen(p) \/ RList(p) \/ RRmdir(p) \/ \E n \in victim[p].names : RUnlink(p, n) \/ RVanished(p, n)
      PROVE  UNCHANGED calls
  BY <1>9 DEF ROpen, RList, RRmdir, RUnlink, RVanished
<1>10. UNCHANGED calls \/ UNCHANGED <<calls.keys, calls.removed>> => Grown
  OBVIOUS
<1> HIDE DEF Grown
<1>11. Grown
  BY <1>2, <1>3, <1>4, <1>5, <1>6, <1>7, <1>8, <1>9, <1>10 DEF Next, ProcStep, RemoveStep
<1> QED BY <1>11 DEF Grown

\* A clearer starts only with a clear_cache() call.
LEMMA ClearersIdle ==
  ASSUME IInv, Next, calls'.clear = 0, NEW r \in Clearers, pc[r] = "idle"
  PROVE  pc'[r] = "idle"
<1>1. calls.clear \in Nat /\ r \in Procs /\ r \notin Compilers
  BY CacheAssumption DEF IInv, Shapes, CallsShape, Procs
<1>2. ~StartClear(r)
  <2> SUFFICES ASSUME StartClear(r) PROVE FALSE
    OBVIOUS
  <2>1. calls'.clear = calls.clear + 1
    BY DEF StartClear, IInv, Shapes, CallsShape
  <2> QED BY <1>1, <2>1
<1>3. ~StepOf(r)
  BY <1>1, <1>2 DEF StepOf, ProcStep, ClearStep, EndClear, ClearEntry, RemoveStep, ROpen, RFlock, RList,
                    RRmdir, RUnlink, RVanished, Crash, Finished
<1>4. ASSUME NEW k \in Keys, Age(k) PROVE pc'[r] = pc[r]
  BY <1>4 DEF Age
<1>5. ASSUME NEW p \in Procs, StepOf(p) PROVE pc'[r] = pc[r]
  BY <1>1, <1>3, <1>5, OthersStill DEF IInv, Still
<1> QED BY <1>4, <1>5, StepIsNext

\* An eviction that gets the exclusive lock of a compiled entry is one of another
\* kernel: of its own it holds the shared one.
LEMMA OwnIsShared ==
  ASSUME IInv, Kept, NEW r \in Compilers, pc[r] = "rflock", victim[r].key = key[r],
         key[r] \notin calls.removed
  PROVE  HeldShared(victim[r].key, victim[r].ino)
<1>1. victim[r].ino # 0 /\ lockHeld[r] /\ lockIno[r] # 0
  BY DEF IInv, Phases, VictimPhase, CompilerPhase, InUse, Finished, Procs
<1>2. fs[key[r]].lock = lockIno[r] /\ fs[victim[r].key].lock = victim[r].ino
  BY <1>1 DEF Kept, Undisturbed, Procs
<1> QED BY <1>1, <1>2 DEF HeldShared

LEMMA KeptStep ==
  ASSUME IInv, Kept, Next, IInv'
  PROVE  Kept'
<1>1. /\ calls.keys \subseteq calls'.keys /\ calls.removed \subseteq calls'.removed
      /\ calls'.clear = 0 => calls.clear = 0
  BY CallsStep DEF IInv, Shapes, CallsShape
<1>2. ASSUME NEW p \in Compilers, key'[p] \notin calls'.removed PROVE Undisturbed(p)'
  <2>1. key[p] \notin calls.removed => Undisturbed(p)
    BY DEF Kept
  <2>2. CASE StepOf(p)
    BY <1>2, <2>1, <2>2, UndisturbedStep
  <2>3. CASE Still(p)
    <3>1. ~Rename(p)
      BY <2>3 DEF Still, Rename, Goto, Fail, IInv, Shapes, PcShape, Procs
    <3>2. key[p] \notin calls.removed
      BY <1>1, <1>2, <2>3 DEF Still
    <3> QED BY <2>1, <2>3, <3>1, <3>2, StillUndisturbed
  <2>4. ASSUME NEW k \in Keys, Age(k) PROVE Still(p)
    BY <2>4 DEF Age, compileVars, removeVars, Still
  <2> QED BY <2>2, <2>3, <2>4, StepIsNext, OthersStill DEF IInv, Procs
<1>3. ASSUME NEW r \in Procs, victim'[r].ino # 0, victim'[r].key \notin calls'.removed
      PROVE  fs'[victim'[r].key].lock = victim'[r].ino
  <2>1. victim'[r].key \in Keys
    BY <1>3 DEF IInv, Phases, VictimPhase, Removing
  <2>2. CASE victim'[r].key = victim[r].key /\ victim'[r].ino = victim[r].ino
    <3>1. fs[victim[r].key].lock = victim[r].ino /\ victim[r].key \notin calls.removed
      BY <1>1, <1>3, <2>2 DEF Kept
    <3> QED BY <1>3, <2>1, <2>2, <3>1, EntryGrows
  <2>3. CASE /\ OpenLock(victim[r].key) /\ victim'[r].key = victim[r].key
             /\ victim'[r].ino = OpenedIno(victim[r].key)
    BY <2>1, <2>3, OpenedLock
  <2> QED BY <1>3, <2>2, <2>3, DescriptorStep
<1>4. calls'.clear = 0 => \A r \in Clearers : pc'[r] = "idle"
  BY <1>1, ClearersIdle DEF Kept
<1>5. ASSUME NEW r \in Procs, RFlock(r), Granted(r), ~NextVictim(r), calls.clear = 0
      PROVE  /\ r \in Compilers /\ key[r] \in calls.keys /\ pc[r] = "rflock"
             /\ ~HeldShared(victim[r].key, victim[r].ino)
  <2>1. r \in Compilers /\ pc[r] = "rflock"
    BY <1>5 DEF Kept, RFlock, Procs
  <2>2. key[r] \in calls.keys
    BY <2>1 DEF IInv, Phases, CompilerPhase
  <2> QED BY <1>5, <2>1, <2>2 DEF RFlock
<1>6. calls'.clear = 0 /\ calls'.keys = {} => calls'.removed = {}
  BY <1>1, <1>5, HistoryStep DEF Kept
<1>7. ASSUME OneKernel' PROVE calls'.keys \cap calls'.removed = {}
  <2>1. OneKernel /\ calls.keys \cap calls.removed = {}
    BY <1>1, <1>7 DEF OneKernel, Kept
  <2>2. CASE UNCHANGED <<calls.keys, calls.removed>>
    BY <2>1, <2>2
  <2>3. ASSUME NEW k \in Keys, calls'.keys = calls.keys \cup {k}, calls'.removed = calls.removed
        PROVE  calls'.keys \cap calls'.removed = {}
    <3>1. CASE calls.keys = {}
      BY <2>1, <2>3, <3>1 DEF OneKernel, Kept
    <3>2. CASE calls.keys # {}
      BY <1>7, <2>1, <2>3, <3>2 DEF OneKernel
    <3> QED BY <3>1, <3>2
  <2>4. ASSUME NEW r \in Procs, RFlock(r), Granted(r), ~NextVictim(r),
               calls'.keys = calls.keys, calls'.removed = calls.removed \cup {victim[r].key}
        PROVE  calls'.keys \cap calls'.removed = {}
    <3>1. /\ r \in Compilers /\ key[r] \in calls.keys /\ pc[r] = "rflock"
          /\ ~HeldShared(victim[r].key, victim[r].ino)
      BY <1>5, <2>1, <2>4 DEF OneKernel
    <3>2. ASSUME victim[r].key \in calls.keys PROVE FALSE
      <4>1. victim[r].key = key[r] /\ key[r] \notin calls.removed
        BY <2>1, <3>1, <3>2 DEF OneKernel
      <4> QED BY <3>1, <4>1, OwnIsShared
    <3> QED BY <2>1, <2>4, <3>2
  <2> QED BY <2>2, <2>3, <2>4, HistoryStep
<1> QED BY <1>2, <1>3, <1>4, <1>6, <1>7 DEF Kept

LEMMA InitKept ==
  ASSUME Init, IInv
  PROVE  Kept
<1>1. /\ \A p \in Compilers : pc[p] = "idle" /\ lockIno[p] = 0
      /\ \A r \in Procs : pc[r] = "idle" /\ victim[r].ino = 0
      /\ calls.keys = {} /\ calls.removed = {}
  BY DEF Init, Procs, NoVictim
<1> QED BY <1>1 DEF Kept, Undisturbed, Pruning, Removing, Procs

LEMMA StutterKept ==
  ASSUME Kept, UNCHANGED vars
  PROVE  Kept'
BY DEF Kept, Undisturbed, OneKernel, Exists, Has, vars

LEMMA KeptAlways == Spec => [](IInv /\ Kept)
<1>1. Init => IInv /\ Kept
  BY InitIInv, InitKept
<1>2. IInv /\ Kept /\ [Next]_vars => (IInv /\ Kept)'
  BY StepIInv, KeptStep, StutterKept
<1> QED BY <1>1, <1>2, PTL DEF Spec

\* A compile() fails only when somebody got the exclusive lock of its entry, and
\* if one kernel is compiled and nobody calls clear_cache, nobody gets that lock,
\* for any number of compilations, crashes and passes of the eviction (write_text,
\* publish, _open_locked and _prune_lru of cache.py).
THEOREM Sharing == Spec => []SharersSucceed
<1>1. IInv /\ Kept => SharersSucceed
  BY DEF Kept, Undisturbed, OneKernel, SharersSucceed
<1> QED BY <1>1, KeptAlways, PTL

-----------------------------------------------------------------------------
(***************************************************************************)
(* The lock of a compilation stays the one of its entry, unless processes  *)
(* race to remove the entry.                                               *)
(***************************************************************************)

\* While one process removes an entry, no other one has the entry's `.lock` open
\* to remove it, except the eviction of a compilation of that very entry.
NoRemovalRace ==
  \A r, s \in Procs :
    r # s /\ victim[r].held /\ victim[s].ino # 0 /\ victim[s].key = victim[r].key =>
      s \in Compilers /\ key[s] = victim[s].key

\* A remover opened, and then locked, the `.lock` that the entry has.
Opened(r) == pc[r] = "rflock" => fs[victim[r].key].lock = victim[r].ino
Unlinks(r) ==
  \/ pc[r] = "rlist"
  \/ pc[r] = "runlink" /\ Lock \in victim[r].names /\ fs[victim[r].key].dir = victim[r].dir
RemovesLocked(r) == Unlinks(r) => fs[victim[r].key].lock = victim[r].ino

\* A compilation has the lock that its entry has, and does not remove the entry.
HasCurrent(p) == InUse(p) => fs[key[p]].lock = lockIno[p]
SparesOwn(p) == victim[p].held => victim[p].key # key[p]

Current ==
  /\ \A r \in Procs : Opened(r) /\ RemovesLocked(r)
  /\ \A p \in Compilers : HasCurrent(p) /\ SparesOwn(p)

\* Only the holder of the exclusive lock unlinks `.lock`.
LEMMA LockRemoval ==
  ASSUME IInv, Next, NEW k \in Keys, fs[k].lock # 0, fs'[k].lock # fs[k].lock
  PROVE  \E s \in Procs : /\ victim[s].held /\ victim[s].key = k
                          /\ RUnlink(s, Lock) /\ Unlinks(s)
<1>1. fs[k] \in Entries /\ Exists(k) /\ Listing(k) # {}
  BY DEF IInv, Shapes, FsShape, Flocked, NoEntry, Listing
<1>2. ~Created(k) /\ ~Locked(k) /\ ~Touched(k) /\ \A p \in Procs : ~Filed(p, k)
  BY <1>1 DEF Created, Locked, Touched, Filed
<1>3. PICK s \in Procs : Removed(s, k)
  BY <1>2, EntryChanges
<1>4. PICK n \in victim[s].names : /\ RUnlink(s, n) /\ fs[k].dir = victim[s].dir
                                   /\ fs'[k] = [Unlinked(fs[k], n) EXCEPT !.recent = TRUE]
  BY <1>1, <1>3 DEF Removed
<1>5. n = Lock
  <2>1. n # Lock => Unlinked(fs[k], n).lock = fs[k].lock /\ Unlinked(fs[k], n) \in Entries
    BY <1>1 DEF Unlinked, Entries, Lock, Marker, Artifact
  <2> QED BY <1>4, <2>1 DEF Entries
<1>6. victim[s].key = k /\ pc[s] = "runlink" /\ victim[s].held
  BY <1>3 DEF Removed, IInv, Phases, VictimPhase
<1> QED BY <1>4, <1>5, <1>6 DEF Unlinks

\* A name gets another directory when it is made, and loses it to its remover.
LEMMA DirChange ==
  ASSUME IInv, Next, NEW k \in Keys, fs'[k].dir # fs[k].dir
  PROVE  \/ fs'[k].dir = NewDir(k)
         \/ \E s \in Procs : victim[s].held /\ victim[s].key = k /\ RRmdir(s)
<1>1. fs[k] \in Entries /\ NewDir(k) \in Nat
  BY NewIdentities DEF IInv, Shapes, FsShape
<1>2. ~Locked(k) /\ ~Touched(k) /\ \A p \in Procs : ~Filed(p, k)
  BY <1>1 DEF Locked, Touched, Filed, Entries
<1>3. CASE Created(k)
  BY <1>1, <1>3 DEF Created, NoEntry
<1>4. ASSUME NEW s \in Procs, Removed(s, k) PROVE victim[s].held /\ victim[s].key = k /\ RRmdir(s)
  <2>1. \A n : [Unlinked(fs[k], n) EXCEPT !.recent = TRUE].dir = fs[k].dir
    BY <1>1 DEF Unlinked, Entries
  <2>2. pc[s] = "runlink" /\ victim[s].key = k
    BY <1>4 DEF Removed
  <2>3. ~\E n \in victim[s].names : fs'[k] = [Unlinked(fs[k], n) EXCEPT !.recent = TRUE]
    BY <2>1
  <2>4. RRmdir(s)
    BY <1>4, <2>3 DEF Removed
  <2>5. victim[s].held
    BY <2>2 DEF IInv, Phases, VictimPhase
  <2> QED BY <2>2, <2>4, <2>5
<1> QED BY <1>2, <1>3, <1>4, EntryChanges

\* The names that a remover has still to unlink are some of those it has read.
LEMMA NamesStep ==
  ASSUME IInv, Next, NEW r \in Procs, victim[r].held, victim'[r].held
  PROVE  \/ pc[r] = "rlist" /\ ~RUnlink(r, Lock)
         \/ /\ pc[r] = "runlink" /\ pc'[r] = "runlink"
            /\ victim'[r].names \subseteq victim[r].names /\ victim'[r].dir = victim[r].dir
            /\ RUnlink(r, Lock) => Lock \notin victim'[r].names
<1>1. /\ pc \in [Procs -> PC] /\ victim \in [Procs -> Victims] /\ victim[r] \in Victims
      /\ pc[r] \in {"rlist", "runlink"}
  BY DEF IInv, Shapes, PcShape, VictimShape, Phases, VictimPhase
<1>2. CASE pc[r] = "rlist"
  BY <1>2 DEF RUnlink
<1>3. CASE pc[r] = "runlink"
  <2>1. ~NextVictim(r) /\ ~Crash(r)
    BY <1>1 DEF NextVictim, Crash, NoVictim
  <2>2. ASSUME NEW n, RUnlink(r, n) \/ RVanished(r, n)
        PROVE  /\ pc'[r] = pc[r] /\ victim'[r].dir = victim[r].dir
               /\ victim'[r].names = victim[r].names \ {n}
    <3>1. /\ victim' = [victim EXCEPT ![r].names = victim[r].names \ {n}]
          /\ UNCHANGED pc
      BY <2>1, <2>2 DEF RUnlink, RVanished
    <3> QED BY <1>1, <3>1 DEF Victims
  <2>3. CASE Still(r)
    <3>1. ASSUME RUnlink(r, Lock) PROVE Lock \notin victim'[r].names
      BY <2>2, <3>1
    <3> QED BY <1>3, <2>3, <3>1 DEF Still
  <2>4. CASE StepOf(r)
    <3>1. \E n \in victim[r].names : RUnlink(r, n) \/ RVanished(r, n)
      BY <1>3, <2>1, <2>4
      DEF StepOf, ProcStep, CompileStep, PruneStep, ClearStep, RemoveStep, Start, Mkdir, IsDir, Open,
          FlockShared, Validate, Touch, Lookup, Hit, Read, WriteScratch, Clang, Rename, Launch,
          SkipPrune, StartPrune, Evict, Scan, StartClear, EndClear, ClearEntry, ROpen, RFlock, RList,
          RRmdir, Finished
    <3>2. RUnlink(r, Lock) => Lock \notin victim'[r].names
      BY <2>2
    <3> QED BY <1>3, <2>2, <3>1, <3>2
  <2>5. ASSUME NEW k \in Keys, Age(k) PROVE Still(r)
    BY <2>5 DEF Age, compileVars, removeVars, Still
  <2> QED BY <2>3, <2>4, <2>5, StepIsNext, OthersStill DEF IInv
<1> QED BY <1>1, <1>2, <1>3

\* A compilation that comes into use has just compared its inode with the entry's.
LEMMA UseStep ==
  ASSUME IInv, Next, NEW p \in Compilers, InUse(p)'
  PROVE  /\ key'[p] = key[p] /\ lockIno'[p] = lockIno[p] /\ lockHeld[p]
         /\ InUse(p) \/ fs'[key[p]].lock = lockIno[p]
<1>1. /\ p \in Procs /\ pc \in [Procs -> PC] /\ lockHeld'[p]
      /\ pc'[p] \notin {"validate", "idle", "mkdir", "gaveup"}
  BY CallsStep, ShapesStep, PhasesStep
  DEF IInv, Shapes, PcShape, Procs, Phases, CompilerPhase, InUse, Finished
<1>2. key'[p] = key[p] /\ lockIno'[p] = lockIno[p] /\ (lockHeld[p] \/ FlockShared(p))
  BY <1>1, LockChanges
<1>3. lockHeld[p]
  BY <1>1, <1>2 DEF FlockShared, Goto
<1>4. CASE pc[p] = "validate"
  <2>1. ~Still(p)
    BY <1>1, <1>4 DEF Still
  <2>2. StepOf(p)
    <3>1. ASSUME NEW k \in Keys, Age(k) PROVE Still(p)
      BY <3>1 DEF Age, compileVars, removeVars, Still
    <3> QED BY <1>1, <2>1, <3>1, StepIsNext, OthersStill DEF IInv
  <2>3. Validate(p)
    BY <1>1, <1>4, <2>2, CacheAssumption
    DEF StepOf, ProcStep, CompileStep, PruneStep, ClearStep, RemoveStep, Start, Mkdir, IsDir, Open,
        FlockShared, Touch, Lookup, Hit, Read, WriteScratch, Clang, Rename, Launch,
        SkipPrune, StartPrune, Evict, Scan, ROpen, RFlock, RList, RRmdir, RUnlink, RVanished,
        Finished, Crash, Goto
  <2>4. SameStat(p) /\ UNCHANGED fs
    BY <1>1, <2>3 DEF Validate, Retry, Goto
  <2> QED BY <1>2, <1>3, <2>4 DEF SameStat
<1>5. CASE InUse(p)
  BY <1>2, <1>3, <1>5
<1> QED BY <1>3, <1>4, <1>5 DEF IInv, Phases, CompilerPhase

LEMMA CurrentStep ==
  ASSUME IInv, Current, NoRemovalRace, Next, IInv'
  PROVE  Current'
<1>1. \A r \in Procs : VictimPhase(r) /\ VictimPhase(r)'
  BY DEF IInv, Phases
<1>2. ASSUME NEW r \in Procs, NEW s \in Procs, r # s, victim[r].held, victim[s].held,
             victim[r].key = victim[s].key
      PROVE  FALSE
  BY <1>1, <1>2 DEF NoRemovalRace, Current, SparesOwn, VictimPhase
<1>3. ASSUME NEW s \in Procs, NEW p \in Compilers, InUse(p), victim[s].held,
             victim[s].key = key[p], Unlinks(s)
      PROVE  FALSE
  <2>1. fs[key[p]].lock = lockIno[p] /\ fs[key[p]].lock = victim[s].ino /\ lockHeld[p]
    BY <1>3 DEF Current, HasCurrent, RemovesLocked, IInv, Phases, CompilerPhase
  <2> QED BY <1>3, <2>1 DEF IInv, Flocked
<1>4. ASSUME NEW p \in Compilers PROVE HasCurrent(p)'
  <2> SUFFICES ASSUME InUse(p)' PROVE fs'[key'[p]].lock = lockIno'[p]
    BY DEF HasCurrent
  <2>1. /\ key'[p] = key[p] /\ lockIno'[p] = lockIno[p] /\ lockHeld[p]
        /\ InUse(p) \/ fs'[key[p]].lock = lockIno[p]
    BY UseStep
  <2>2. CASE InUse(p) /\ fs'[key[p]].lock # fs[key[p]].lock
    <3>1. fs[key[p]].lock # 0 /\ key[p] \in Keys
      BY <2>2, Targets DEF Current, HasCurrent, IInv, Phases, CompilerPhase, InUse, Finished
    <3> QED BY <1>3, <2>2, <3>1, LockRemoval
  <2> QED BY <2>1, <2>2 DEF Current, HasCurrent
<1>5. ASSUME NEW p \in Compilers PROVE SparesOwn(p)'
  <2> SUFFICES ASSUME victim'[p].held PROVE victim'[p].key # key'[p]
    BY DEF SparesOwn
  <2>1. p \in Procs /\ pc'[p] \in {"rlist", "runlink"}
    BY <1>1 DEF VictimPhase, Procs
  <2>2. InUse(p)'
    BY <2>1 DEF InUse, Finished
  <2>3. key'[p] = key[p] /\ lockHeld[p]
    BY <2>2, UseStep
  <2>4. /\ victim'[p].key = victim[p].key
        /\ victim[p].held \/ (RFlock(p) /\ Granted(p))
    BY <2>1, LockChanges
  <2>5. CASE victim[p].held
    BY <2>3, <2>4, <2>5 DEF Current, SparesOwn
  <2>6. CASE RFlock(p) /\ Granted(p)
    <3>1. ~NextVictim(p)
      BY <2>1 DEF NextVictim, NoVictim, IInv, Shapes, VictimShape
    <3>2. pc[p] = "rflock" /\ ~HeldShared(victim[p].key, victim[p].ino)
      BY <2>6, <3>1 DEF RFlock
    <3>3. fs[victim[p].key].lock = victim[p].ino /\ fs[key[p]].lock = lockIno[p]
      BY <2>1, <3>2 DEF Current, Opened, HasCurrent, InUse, Finished
    <3> QED BY <2>3, <2>4, <3>2, <3>3 DEF HeldShared
  <2> QED BY <2>4, <2>5, <2>6
<1>6. ASSUME NEW r \in Procs PROVE Opened(r)'
  <2> SUFFICES ASSUME pc'[r] = "rflock" PROVE fs'[victim'[r].key].lock = victim'[r].ino
    BY DEF Opened
  <2>1. victim'[r].ino # 0 /\ ~victim'[r].held /\ victim'[r].key \in Keys
    BY <1>1 DEF VictimPhase, Removing, IInv, Shapes, VictimShape, Victims
  <2>2. CASE /\ victim'[r].key = victim[r].key /\ victim'[r].ino = victim[r].ino
             /\ victim[r].held => victim'[r].held
    <3>1. pc[r] = "rflock" /\ ~victim[r].held /\ victim[r].key \in Keys
      BY <1>1, <2>1, <2>2 DEF VictimPhase
    <3>2. fs[victim[r].key].lock = victim[r].ino
      BY <3>1 DEF Current, Opened
    <3>3. ASSUME fs'[victim[r].key].lock # fs[victim[r].key].lock PROVE FALSE
      <4>1. PICK s \in Procs : victim[s].held /\ victim[s].key = victim[r].key /\ Unlinks(s)
        BY <2>1, <2>2, <3>1, <3>2, <3>3, LockRemoval
      <4>2. r \in Compilers /\ key[r] = victim[s].key /\ InUse(r)
        BY <2>1, <2>2, <3>1, <4>1 DEF NoRemovalRace, InUse, Finished
      <4> QED BY <1>3, <4>1, <4>2
    <3> QED BY <2>2, <3>2, <3>3
  <2>3. CASE /\ OpenLock(victim[r].key) /\ victim'[r].key = victim[r].key
             /\ victim'[r].ino = OpenedIno(victim[r].key)
    BY <2>1, <2>3, OpenedLock
  <2> QED BY <2>1, <2>2, <2>3, DescriptorStep
<1>7. ASSUME NEW r \in Procs PROVE RemovesLocked(r)'
  <2> SUFFICES ASSUME Unlinks(r)' PROVE fs'[victim'[r].key].lock = victim'[r].ino
    BY DEF RemovesLocked
  <2>1. victim'[r].held
    BY <1>1 DEF Unlinks, VictimPhase
  <2>2. /\ victim'[r].key = victim[r].key /\ victim'[r].ino = victim[r].ino
        /\ victim[r].held \/ (RFlock(r) /\ Granted(r))
    BY <2>1, LockChanges
  <2>3. CASE ~victim[r].held
    <3>1. pc[r] = "rflock" /\ UNCHANGED fs
      BY <2>2, <2>3 DEF RFlock
    <3> QED BY <2>2, <3>1 DEF Current, Opened
  <2>4. CASE victim[r].held
    <3> DEFINE k == victim[r].key
    <3>1. k \in Keys /\ victim[r].ino # 0 /\ pc[r] \in {"rlist", "runlink"}
      BY <1>1, <2>4 DEF VictimPhase, Removing
    <3>2. Unlinks(r)
      <4>1. CASE pc[r] = "rlist"
        BY <4>1 DEF Unlinks
      <4>2. CASE pc[r] = "runlink"
        <5>1. pc'[r] = "runlink" /\ Lock \in victim[r].names /\ fs'[k].dir = victim[r].dir
          BY <2>1, <2>2, <2>4, <4>2, NamesStep DEF Unlinks
        <5>2. ASSUME fs'[k].dir # fs[k].dir PROVE FALSE
          <6>1. fs'[k].dir # NewDir(k)
            BY <3>1, <5>1, NewIdentities
          <6>2. PICK s \in Procs : victim[s].held /\ victim[s].key = k /\ RRmdir(s)
            BY <3>1, <5>2, <6>1, DirChange
          <6>3. s # r
            BY <2>1, <6>2 DEF RRmdir, NextVictim, NoVictim, IInv, Shapes, VictimShape
          <6> QED BY <1>2, <2>4, <6>2, <6>3
        <5> QED BY <4>2, <5>1, <5>2 DEF Unlinks
      <4> QED BY <3>1, <4>1, <4>2
    <3>3. fs[k].lock = victim[r].ino
      BY <3>2 DEF Current, RemovesLocked
    <3>4. ASSUME fs'[k].lock # fs[k].lock PROVE FALSE
      <4>1. PICK s \in Procs : victim[s].held /\ victim[s].key = k /\ RUnlink(s, Lock)
        BY <3>1, <3>3, <3>4, LockRemoval
      <4>2. s = r
        BY <1>2, <2>4, <4>1
      <4>3. pc'[r] = "runlink" /\ Lock \notin victim'[r].names
        BY <2>1, <2>4, <4>1, <4>2, NamesStep
      <4> QED BY <4>3 DEF Unlinks
    <3> QED BY <2>2, <3>3, <3>4
  <2> QED BY <2>3, <2>4
<1> QED BY <1>4, <1>5, <1>6, <1>7 DEF Current

LEMMA InitCurrent ==
  ASSUME Init
  PROVE  Current
<1>1. \A p \in Procs : pc[p] = "idle" /\ victim[p].held = FALSE
  BY DEF Init, NoVictim
<1> QED BY <1>1 DEF Current, Opened, RemovesLocked, Unlinks, HasCurrent, SparesOwn, InUse, Finished, Procs

LEMMA StutterCurrent ==
  ASSUME Current, UNCHANGED vars
  PROVE  Current'
BY DEF Current, Opened, RemovesLocked, Unlinks, HasCurrent, SparesOwn, InUse, vars

\* Unless processes race to remove an entry, a compilation holds the shared lock of
\* the `.lock` that its entry has now, however often the entry was removed and made
\* again before, by crashed removers too (the revalidation in _open_locked).
THEOREM Revalidated == Spec /\ []NoRemovalRace => []LockCurrent
<1>1. Init => IInv /\ Current
  BY InitIInv, InitCurrent
<1>2. IInv /\ Current /\ NoRemovalRace /\ [Next]_vars => (IInv /\ Current)'
  BY StepIInv, CurrentStep, StutterCurrent
<1>3. IInv /\ Current => LockCurrent
  BY DEF IInv, Phases, CompilerPhase, InUse, Current, HasCurrent, LockCurrent
<1> QED BY <1>1, <1>2, <1>3, PTL DEF Spec

-----------------------------------------------------------------------------
(***************************************************************************)
(* A pass of the eviction in a cache that one process uses.                *)
(***************************************************************************)

\* Who never called is not in a call.
Callers == \A q \in Procs : q \notin calls.procs => pc[q] = "idle"

Alone(p) == calls.procs \subseteq {p}

\* The entries that a pass has looked at, and what it counts for each entry.
Seen(p) == Children \ toScan[p]
Counted(p) == [k \in Keys |-> IF k \in toScan[p] THEN 0
                              ELSE IF k = victim[p].key THEN victim[p].size
                              ELSE Cardinality(fs[k].files)]

\* The entry it removes is there, with the names and the size that it read.
Aims(p) ==
  /\ pc[p] \in Removing => Exists(victim[p].key)
  /\ pc[p] \in {"ropen", "rflock", "rlist"} =>
       victim[p].size = Cardinality(fs[victim[p].key].files)
  /\ pc[p] = "runlink" => /\ fs[victim[p].key].dir = victim[p].dir
                          /\ victim[p].names = Listing(victim[p].key)

\* What it has in its list is there, once and with its size; an entry it has looked
\* at and has no longer in the list is its victim or locked; and it counts them all.
Lists(p) ==
  /\ toScan[p] \subseteq Children /\ (pc[p] # "scan" => toScan[p] = {})
  /\ \A e \in scanned[p].entries : /\ e.key \in Seen(p) /\ e.key # victim[p].key
                                   /\ e.size = Cardinality(fs[e.key].files)
  /\ \A e, f \in scanned[p].entries : e.key = f.key => e = f

Covers(p) ==
  \A k \in Seen(p) : \/ k = victim[p].key \/ HeldShared(k, fs[k].lock)
                     \/ \E e \in scanned[p].entries : e.key = k

Totals(p) == scanned[p].total = SumFunction(Counted(p))

InPass(p) == pc[p] \in {"scan", "evict"} \cup Removing

Pass(p) == Aims(p) /\ (InPass(p) => Lists(p) /\ Covers(p) /\ Totals(p))

Passes == Callers /\ \A p \in Compilers : Alone(p) => Current /\ Pass(p)

\* A process that is in no call makes a step only by calling.
LEMMA IdleCalls ==
  ASSUME IInv, NEW q \in Procs, pc[q] = "idle", StepOf(q)
  PROVE  q \in calls'.procs
<1>1. CallsShape
  BY DEF IInv, Shapes
<1>2. (\E k \in Keys, e \in Lookups : Start(q, k, e)) \/ StartClear(q)
  BY DEF StepOf, ProcStep, CompileStep, Mkdir, IsDir, Open, FlockShared, Validate, Touch, Lookup, Hit,
         Read, WriteScratch, Clang, Rename, Launch, PruneStep, SkipPrune, StartPrune, Evict, Scan,
         ClearStep, EndClear, ClearEntry, RemoveStep, ROpen, RFlock, RList, RRmdir, RUnlink, RVanished,
         Crash, Finished
<1>3. calls'.procs = calls.procs \cup {q}
  BY <1>1, <1>2 DEF CallsShape, Start, StartClear
<1> QED BY <1>3

LEMMA CallersStep ==
  ASSUME IInv, Callers, Next
  PROVE  Callers'
<1> SUFFICES ASSUME NEW q \in Procs, q \notin calls'.procs PROVE pc'[q] = "idle"
  BY DEF Callers
<1>1. pc[q] = "idle"
  BY CallsStep DEF Callers, IInv
<1>2. ~StepOf(q)
  BY <1>1, IdleCalls
<1>3. ASSUME NEW k \in Keys, Age(k) PROVE pc' = pc
  BY <1>3 DEF Age
<1> QED BY <1>1, <1>2, <1>3, StepIsNext, OthersStill DEF Still, IInv

\* The others hold nothing, so nobody races with the process.
LEMMA AloneHolds ==
  ASSUME IInv, Callers, NEW p \in Compilers, Alone(p)
  PROVE  /\ \A q \in Procs \ {p} : victim[q] = NoVictim /\ (q \in Compilers => ~lockHeld[q])
         /\ NoRemovalRace
<1>1. ASSUME NEW q \in Procs \ {p} PROVE victim[q] = NoVictim /\ (q \in Compilers => ~lockHeld[q])
  <2>1. pc[q] = "idle"
    BY DEF Callers, Alone
  <2> QED BY <2>1 DEF IInv, Phases, VictimPhase, CompilerPhase, InUse, Finished, Removing
<1>2. NoRemovalRace
  BY <1>1 DEF NoRemovalRace, NoVictim
<1> QED BY <1>1, <1>2

LEMMA AloneStep ==
  ASSUME IInv, Callers, Next, NEW p \in Compilers, Alone(p)'
  PROVE  Alone(p) /\ (StepOf(p) \/ \E k \in Keys : Age(k))
<1>1. Alone(p)
  BY CallsStep DEF Alone, IInv
<1>2. ASSUME NEW q \in Procs, q # p, StepOf(q) PROVE FALSE
  <2>1. pc[q] = "idle"
    BY <1>1, <1>2 DEF Callers, Alone
  <2> QED BY <1>2, <2>1, IdleCalls DEF Alone
<1> QED BY <1>1, <1>2, StepIsNext

\* The sizes are numbers, and so is what a pass counts.
LEMMA Sizes ==
  ASSUME IInv, NEW p \in Compilers
  PROVE  /\ p \in Procs /\ victim[p] \in Victims /\ scanned[p] \in Scans /\ toScan[p] \in SUBSET Keys
         /\ \A k \in Keys : fs[k] \in Entries /\ Cardinality(fs[k].files) \in Nat
         /\ \A k \in Keys : ~Exists(k) => Cardinality(fs[k].files) = 0
         /\ Counted(p) \in [Keys -> Nat]
<1>1. p \in Procs /\ victim[p] \in Victims /\ scanned[p] \in Scans /\ toScan[p] \in SUBSET Keys
  BY DEF Procs, IInv, Shapes, VictimShape, ScanShape
<1>2. ASSUME NEW k \in Keys PROVE fs[k] \in Entries /\ Cardinality(fs[k].files) \in Nat
  BY FilesFinite DEF IInv, Shapes, FsShape, Entries
<1>3. ASSUME NEW k \in Keys, ~Exists(k) PROVE Cardinality(fs[k].files) = 0
  <2>1. fs[k].files = {}
    BY <1>3 DEF IInv, Flocked, NoEntry
  <2> QED BY <2>1, FS_EmptySet
<1>4. Counted(p) \in [Keys -> Nat]
  BY <1>1, <1>2 DEF Counted, Victims
<1> QED BY <1>1, <1>2, <1>3, <1>4

\* Between two removals there is no victim.
LEMMA NoVictimOutside ==
  ASSUME IInv, NEW p \in Compilers, pc[p] \notin Removing
  PROVE  victim[p] = NoVictim /\ victim[p].key = NoKey
<1>1. victim[p] = NoVictim
  BY DEF IInv, Phases, VictimPhase, Procs
<1> QED BY <1>1 DEF NoVictim

\* What happens to the victim's entry, and the aging of another one, leaves the rest
\* of the pass as it was.
LEMMA PassGoesOn ==
  ASSUME NEW p \in Compilers, Lists(p), Covers(p), Totals(p),
         toScan'[p] = toScan[p], scanned'[p] = scanned[p], pc'[p] # "scan" => pc[p] # "scan",
         victim'[p].key = victim[p].key, victim'[p].size = victim[p].size,
         UNCHANGED <<key, lockHeld, lockIno>>,
         \A k \in Keys : Exists(k)' <=> Exists(k),
         \A k \in Keys : k # victim[p].key =>
           fs'[k].files = fs[k].files /\ fs'[k].lock = fs[k].lock
  PROVE  Lists(p)' /\ Covers(p)' /\ Totals(p)'
<1>1. Children' = Children /\ Seen(p)' = Seen(p) /\ Seen(p) \subseteq Keys
  BY DEF Children, Seen
<1>2. Lists(p)'
  BY <1>1 DEF Lists
<1>3. \A k, i : HeldShared(k, i)' <=> HeldShared(k, i)
  BY DEF HeldShared
<1>4. Covers(p)'
  BY <1>1, <1>3 DEF Covers
<1>5. Counted(p)' = Counted(p)
  BY DEF Counted
<1> QED BY <1>2, <1>4, <1>5 DEF Totals

\* The root is listed, and nothing of it looked at.
LEMMA StartPass ==
  ASSUME IInv, NEW p \in Compilers, StartPrune(p)
  PROVE  Pass(p)'
<1>1. /\ pc'[p] = "scan" /\ UNCHANGED <<fs, victim>> /\ toScan'[p] = Children
      /\ scanned'[p].entries = {} /\ scanned'[p].total = 0
      /\ pc[p] \notin Removing
  BY Sizes DEF StartPrune, Goto, IInv, Shapes, PcShape, ScanShape, Removing
<1>a. victim[p].key = NoKey
  BY <1>1, NoVictimOutside
<1>2. Children' = Children /\ Seen(p)' = {}
  BY <1>1 DEF Children, Exists, Seen
<1>3. Lists(p)' /\ Covers(p)'
  BY <1>1, <1>2 DEF Lists, Covers
<1>4. Totals(p)'
  <2>1. Counted(p)' \in [Keys -> Nat] /\ \A k \in Keys : Counted(p)'[k] = 0
    BY <1>1, <1>a, Sizes, CacheAssumption DEF Counted, Children
  <2> QED BY <1>1, <2>1, SumOfZeros, CacheAssumption DEF Totals
<1> QED BY <1>1, <1>3, <1>4 DEF Pass, Aims, Removing

\* One entry of the listing is looked at.
LEMMA ScanPass ==
  ASSUME IInv, NEW p \in Compilers, Pass(p), NEW k \in Keys, Scan(p, k)
  PROVE  Pass(p)'
<1> DEFINE size == Cardinality(fs[k].files)
           fresh == IF fs[k].marker = "none" THEN fs[k].recent ELSE fs[k].marker = "fresh"
           e == [key |-> k, fresh |-> fresh, size |-> size]
<1>1. /\ pc[p] = "scan" /\ UNCHANGED <<fs, pc, victim, compileVars>> /\ k \in toScan[p]
      /\ toScan'[p] = toScan[p] \ {k} /\ victim[p].key = NoKey
      /\ Lists(p) /\ Covers(p) /\ Totals(p)
  <2>1. /\ pc[p] = "scan" /\ UNCHANGED <<fs, pc, victim, compileVars>> /\ k \in toScan[p]
        /\ toScan' = [toScan EXCEPT ![p] = @ \ {k}]
    BY DEF Scan
  <2>2. toScan'[p] = toScan[p] \ {k}
    BY <2>1, Sizes DEF IInv, Shapes, ScanShape
  <2>3. Lists(p) /\ Covers(p) /\ Totals(p)
    BY <2>1 DEF Pass, InPass
  <2>4. victim[p].key = NoKey
    BY <2>1, NoVictimOutside DEF Removing
  <2> QED BY <2>1, <2>2, <2>3, <2>4
<1>2. Exists(k) /\ toScan[p] \subseteq Children
  BY <1>1 DEF Lists, Children
<1>3. /\ scanned'[p].entries = scanned[p].entries \cup {e}
      /\ scanned'[p].total = scanned[p].total + size
  BY <1>2 DEF Scan, IInv, Shapes, ScanShape
<1> HIDE DEF fresh, size
<1>4. e.key = k /\ e.size = Cardinality(fs[k].files) /\ size = Cardinality(fs[k].files)
  BY DEF size
<1> HIDE DEF e
<1>5. Children' = Children /\ Seen(p)' = Seen(p) \cup {k} /\ k \notin Seen(p)
  BY <1>1, <1>2 DEF Children, Exists, Seen
<1>6. Lists(p)'
  BY <1>1, <1>3, <1>4, <1>5, CacheAssumption DEF Lists
<1>7. Covers(p)'
  BY <1>1, <1>3, <1>4, <1>5 DEF Covers, HeldShared, compileVars
<1>8. Totals(p)'
  <2>1. /\ Counted(p) \in [Keys -> Nat] /\ Counted(p)' \in [Keys -> Nat] /\ size \in Nat
        /\ \A j \in Keys \ {k} : Counted(p)'[j] = Counted(p)[j]
        /\ Counted(p)[k] = 0 /\ Counted(p)'[k] = size
    <3>1. Counted(p)' = [j \in Keys |-> IF j \in toScan[p] \ {k} THEN 0
                                        ELSE IF j = NoKey THEN victim[p].size
                                        ELSE Cardinality(fs[j].files)]
      BY <1>1 DEF Counted
    <3>2. victim[p].size \in Nat /\ k # NoKey
      BY Sizes, CacheAssumption DEF Victims
    <3> QED BY <1>1, <1>4, <3>1, <3>2, Sizes DEF Counted
  <2>2. /\ SumFunction(Counted(p)) \in Nat
        /\ SumFunction(Counted(p)') = SumFunction(Counted(p)) - Counted(p)[k] + Counted(p)'[k]
    <3> DEFINE w == Counted(p)
               v == Counted(p)'
    <3>1. w \in [Keys -> Nat] /\ v \in [Keys -> Nat] /\ \A j \in Keys \ {k} : v[j] = w[j]
      BY <2>1
    <3> HIDE DEF w, v
    <3>2. SumFunction(w) \in Nat /\ SumFunction(v) = SumFunction(w) - w[k] + v[k]
      BY <3>1, SumChange, CacheAssumption
    <3> QED BY <3>2 DEF w, v
  <2>3. SumFunction(Counted(p)') = scanned[p].total + size
    BY <1>1, <2>1, <2>2 DEF Totals
  <2> QED BY <1>3, <2>3 DEF Totals
<1> QED BY <1>1, <1>6, <1>7, <1>8 DEF Pass, Aims, Removing

\* The oldest entry is taken out of the list; what is counted stays.
LEMMA EvictPass ==
  ASSUME IInv, NEW p \in Compilers, Pass(p), Evict(p)
  PROVE  Pass(p)'
<1>1. /\ pc[p] \in {"scan", "evict"} /\ UNCHANGED <<fs, compileVars, toScan>> /\ toScan[p] = {}
      /\ Lists(p) /\ Covers(p) /\ Totals(p) /\ pc \in [Procs -> PC] /\ p \in Procs
  BY DEF Evict, Pass, InPass, Lists, IInv, Shapes, PcShape, Procs
<1>2. victim[p].key = NoKey
  BY <1>1, NoVictimOutside DEF Removing
<1>3. CASE Goto(p, cont[p])
  <2>1. cont[p] \in {"touch", "lookup", "clang", "launch"} /\ pc'[p] = cont[p]
    BY <1>1, <1>3 DEF Goto, IInv, Shapes, LocalShape, Continuations, Phases, CompilerPhase, Pruning
  <2> QED BY <2>1 DEF Pass, Aims, InPass, Removing
<1>4. ASSUME NEW e \in scanned[p].entries, Goto(p, "ropen"),
             scanned' = [scanned EXCEPT ![p].entries = @ \ {e}],
             victim' = [victim EXCEPT ![p] = [NoVictim EXCEPT !.key = e.key, !.size = e.size]]
      PROVE  Pass(p)'
  <2>1. /\ pc'[p] = "ropen" /\ victim'[p].key = e.key /\ victim'[p].size = e.size
        /\ scanned'[p].entries = scanned[p].entries \ {e} /\ scanned'[p].total = scanned[p].total
    BY <1>1, <1>4, Sizes DEF Goto, NoVictim, IInv, Shapes, ScanShape, VictimShape, Scans
  <2>2. Children' = Children /\ Seen(p)' = Seen(p) /\ Seen(p) = Children
    BY <1>1 DEF Children, Exists, Seen
  <2>3. e.key \in Children /\ e.size = Cardinality(fs[e.key].files) /\ toScan'[p] = {}
    BY <1>1, <2>2 DEF Lists
  <2>4. Lists(p)'
    BY <1>1, <2>1, <2>2, <2>3 DEF Lists
  <2>5. Covers(p)'
    <3>1. ASSUME NEW k \in Seen(p)
          PROVE  k = e.key \/ HeldShared(k, fs[k].lock) \/ \E f \in scanned'[p].entries : f.key = k
      <4>1. k # NoKey
        BY CacheAssumption DEF Seen, Children
      <4> QED BY <1>1, <1>2, <2>1, <4>1 DEF Covers
    <3> QED BY <1>1, <2>1, <2>2, <3>1 DEF Covers, HeldShared, compileVars
  <2>6. Counted(p)' = Counted(p)
    BY <1>1, <1>2, <2>1, <2>3, CacheAssumption DEF Counted
  <2>7. Totals(p)'
    BY <1>1, <2>1, <2>6 DEF Totals
  <2>8. Aims(p)'
    BY <1>1, <2>1, <2>3 DEF Aims, Children, Exists
  <2> QED BY <2>4, <2>5, <2>7, <2>8 DEF Pass
<1> QED BY <1>3, <1>4 DEF Evict

\* What opening the lock does to the entries.
LEMMA LockOpened ==
  ASSUME IInv, NEW k \in Keys, OpenLock(k)
  PROVE  /\ \A j \in Keys : fs'[j].dir = fs[j].dir /\ fs'[j].files = fs[j].files
         /\ \A j \in Keys : j # k => fs'[j].lock = fs[j].lock
<1>1. fs \in [Keys -> Entries] /\ fs[k] \in Entries
  BY DEF IInv, Shapes, FsShape
<1>2. CASE UNCHANGED fs
  BY <1>2
<1>3. CASE Write(k, [fs[k] EXCEPT !.lock = NewIno(k)])
  <2>1. fs' = [fs EXCEPT ![k] = [[fs[k] EXCEPT !.lock = NewIno(k)] EXCEPT !.recent = TRUE]]
    BY <1>3 DEF Write
  <2>2. \A j \in Keys : j # k => fs'[j] = fs[j]
    BY <1>1, <2>1
  <2>3. fs'[k].dir = fs[k].dir /\ fs'[k].files = fs[k].files
    BY <1>1, <2>1 DEF Entries
  <2> QED BY <2>2, <2>3
<1> QED BY <1>2, <1>3 DEF OpenLock

LEMMA OpenPass ==
  ASSUME IInv, NEW p \in Compilers, Pass(p), ROpen(p)
  PROVE  Pass(p)'
<1> DEFINE k == victim[p].key
<1>1. /\ pc[p] = "ropen" /\ k \in Keys /\ Exists(k) /\ p \in Procs
      /\ Lists(p) /\ Covers(p) /\ Totals(p)
      /\ victim[p].size = Cardinality(fs[k].files)
  BY Targets DEF ROpen, Pass, Aims, InPass, Removing, IInv, Procs
<1>2. /\ OpenLock(k) /\ victim' = [victim EXCEPT ![p].ino = OpenedIno(k)] /\ Goto(p, "rflock")
      /\ UNCHANGED <<compileVars, toScan, scanned>>
  BY <1>1 DEF ROpen
<1>3. victim'[p].key = victim[p].key /\ victim'[p].size = victim[p].size /\ pc'[p] = "rflock"
  BY <1>1, <1>2, Sizes DEF Goto, IInv, Shapes, PcShape, VictimShape, Victims
<1>4. /\ \A j \in Keys : fs'[j].dir = fs[j].dir /\ fs'[j].files = fs[j].files
      /\ \A j \in Keys : j # k => fs'[j].lock = fs[j].lock
  BY <1>1, <1>2, LockOpened
<1>5. Lists(p)' /\ Covers(p)' /\ Totals(p)'
  <2>1. /\ UNCHANGED <<key, lockHeld, lockIno>> /\ toScan'[p] = toScan[p] /\ scanned'[p] = scanned[p]
        /\ pc[p] # "scan" /\ \A j \in Keys : Exists(j)' <=> Exists(j)
    BY <1>1, <1>2, <1>4 DEF compileVars, Exists
  <2>2. \A j \in Keys : j # victim[p].key => fs'[j].files = fs[j].files /\ fs'[j].lock = fs[j].lock
    BY <1>4
  <2> HIDE DEF k
  <2> QED BY <1>1, <1>3, <2>1, <2>2, PassGoesOn
<1>6. Aims(p)'
  BY <1>1, <1>3, <1>4 DEF Aims, Exists
<1> QED BY <1>5, <1>6 DEF Pass

\* A lock that is held means an entry in use, which the pass leaves; otherwise the
\* entry is the pass's.
LEMMA FlockPass ==
  ASSUME IInv, Callers, NEW p \in Compilers, Alone(p), Current, Pass(p), RFlock(p)
  PROVE  Pass(p)'
<1> DEFINE k == victim[p].key
<1>1. /\ pc[p] = "rflock" /\ k \in Keys /\ Exists(k) /\ p \in Procs
      /\ Lists(p) /\ Covers(p) /\ Totals(p)
      /\ victim[p].size = Cardinality(fs[k].files) /\ fs[k].lock = victim[p].ino
      /\ UNCHANGED <<fs, compileVars, toScan, scanned>>
  BY Targets DEF RFlock, Pass, Aims, InPass, Removing, IInv, Procs, Current, Opened
<1>2. CASE Granted(p)
  <2>1. /\ victim'[p].key = victim[p].key /\ victim'[p].size = victim[p].size /\ pc'[p] = "rlist"
    BY <1>1, <1>2, Sizes DEF Granted, Goto, IInv, Shapes, PcShape, VictimShape, Victims
  <2>2. Lists(p)' /\ Covers(p)' /\ Totals(p)'
    BY <1>1, <2>1, PassGoesOn DEF compileVars, Exists
  <2>3. Aims(p)'
    BY <1>1, <2>1 DEF Aims, Exists
  <2> QED BY <2>2, <2>3 DEF Pass
<1>3. CASE /\ HeldShared(k, victim[p].ino) \/ HeldExclusive(k, victim[p].ino)
           /\ NextVictim(p)
  <2>1. ~HeldExclusive(k, victim[p].ino)
    <3>1. ~victim[p].held
      BY <1>1 DEF IInv, Phases, VictimPhase
    <3>2. \A q \in Procs : ~victim[q].held
      BY <3>1, AloneHolds DEF NoVictim
    <3> QED BY <3>2 DEF HeldExclusive
  <2>2. HeldShared(k, fs[k].lock)
    BY <1>1, <1>3, <2>1
  <2>3. pc'[p] = "evict" /\ victim'[p].key = NoKey
    BY <1>1, <1>3, CacheAssumption
    DEF NextVictim, Goto, NoVictim, IInv, Shapes, PcShape, VictimShape
  <2>4. Children' = Children /\ Seen(p)' = Seen(p) /\ Seen(p) \subseteq Keys /\ toScan'[p] = {}
    BY <1>1 DEF Children, Exists, Seen, Lists
  <2>5. Lists(p)'
    BY <1>1, <2>3, <2>4, CacheAssumption DEF Lists
  <2>6. Covers(p)'
    BY <1>1, <2>2, <2>4 DEF Covers, HeldShared, compileVars
  <2>7. Counted(p)' = Counted(p)
    BY <1>1, <2>3, <2>4, CacheAssumption DEF Counted
  <2>8. Totals(p)'
    BY <1>1, <2>7 DEF Totals
  <2>9. Aims(p)'
    BY <2>3 DEF Aims, Removing
  <2> QED BY <2>5, <2>6, <2>8, <2>9 DEF Pass
<1> QED BY <1>2, <1>3 DEF RFlock

LEMMA ListPass ==
  ASSUME IInv, NEW p \in Compilers, Pass(p), RList(p)
  PROVE  Pass(p)'
<1> DEFINE k == victim[p].key
<1>1. /\ pc[p] = "rlist" /\ k \in Keys /\ Exists(k) /\ p \in Procs
      /\ Lists(p) /\ Covers(p) /\ Totals(p)
      /\ UNCHANGED <<fs, compileVars, toScan, scanned>>
  BY Targets DEF RList, Pass, Aims, InPass, Removing, IInv, Procs
<1>2. /\ victim' = [victim EXCEPT ![p].dir = fs[k].dir, ![p].names = Listing(k)]
      /\ Goto(p, "runlink")
  BY <1>1 DEF RList
<1>3. /\ victim'[p] = [victim[p] EXCEPT !.dir = fs[k].dir, !.names = Listing(k)]
      /\ pc'[p] = "runlink"
  BY <1>1, <1>2 DEF Goto, IInv, Shapes, PcShape, VictimShape
<1>4. /\ victim'[p].key = k /\ victim'[p].size = victim[p].size
      /\ victim'[p].dir = fs[k].dir /\ victim'[p].names = Listing(k)
  BY <1>3, Sizes DEF Victims
<1>5. Lists(p)' /\ Covers(p)' /\ Totals(p)'
  BY <1>1, <1>3, <1>4, PassGoesOn DEF compileVars, Exists
<1>6. Aims(p)'
  BY <1>1, <1>3, <1>4 DEF Aims, Exists, Listing
<1> QED BY <1>5, <1>6 DEF Pass

\* Unlinking one of its names leaves the others in a directory.  No artifact has
\* the name of the lock or of the access marker.
LEMMA OneNameLess ==
  ASSUME NEW e \in Entries, NEW n
  PROVE  LET L(x) == x.files \cup (IF x.lock # 0 THEN {Lock} ELSE {})
                            \cup (IF x.marker # "none" THEN {Marker} ELSE {})
             d == [Unlinked(e, n) EXCEPT !.recent = TRUE]
         IN  d.dir = e.dir /\ L(d) = L(e) \ {n}
<1>1. Lock # Marker
  BY DEF Lock, Marker, Artifact
<1>2. \A f \in FileNames : f # Lock /\ f # Marker
  <2>1. ASSUME NEW f \in FileNames PROVE f.name # ".lock" /\ f.name # ".accessed"
    BY CacheAssumption DEF FileNames
  <2> QED BY <2>1 DEF Lock, Marker, Artifact
<1>3. e.files \subseteq FileNames
  BY DEF Entries
<1>4. CASE n = Lock
  <2>1. LET d == [Unlinked(e, n) EXCEPT !.recent = TRUE]
        IN  d.dir = e.dir /\ d.files = e.files /\ d.lock = 0 /\ d.marker = e.marker
    BY <1>4 DEF Unlinked, Entries
  <2> QED BY <1>1, <1>2, <1>3, <1>4, <2>1
<1>5. CASE n # Lock /\ n = Marker
  <2>1. LET d == [Unlinked(e, n) EXCEPT !.recent = TRUE]
        IN  d.dir = e.dir /\ d.files = e.files /\ d.lock = e.lock /\ d.marker = "none"
    BY <1>5 DEF Unlinked, Entries
  <2> QED BY <1>1, <1>2, <1>3, <1>5, <2>1
<1>6. CASE n # Lock /\ n # Marker
  <2>1. LET d == [Unlinked(e, n) EXCEPT !.recent = TRUE]
        IN  d.dir = e.dir /\ d.files = e.files \ {n} /\ d.lock = e.lock /\ d.marker = e.marker
    BY <1>6 DEF Unlinked, Entries
  <2> QED BY <1>6, <2>1
<1> QED BY <1>4, <1>5, <1>6

LEMMA UnlinkPass ==
  ASSUME IInv, NEW p \in Compilers, Pass(p), NEW n, RUnlink(p, n)
  PROVE  Pass(p)'
<1>k. PICK k \in Keys : k = victim[p].key
  BY Targets, Sizes DEF RUnlink, Removing, IInv
<1>1. /\ pc[p] = "runlink" /\ Exists(k) /\ p \in Procs /\ fs[k] \in Entries
      /\ Lists(p) /\ Covers(p) /\ Totals(p)
      /\ fs[k].dir = victim[p].dir /\ victim[p].names = Listing(k)
      /\ UNCHANGED <<pc, compileVars, toScan, scanned>>
  BY <1>k, Sizes DEF RUnlink, Pass, Aims, InPass, Removing, IInv, Procs
<1>2. /\ victim'[p].key = k /\ victim'[p].size = victim[p].size
      /\ victim'[p].dir = victim[p].dir /\ victim'[p].names = victim[p].names \ {n}
  <2>1. victim' = [victim EXCEPT ![p].names = @ \ {n}]
    BY DEF RUnlink
  <2> QED BY <1>k, <1>1, <2>1, Sizes DEF IInv, Shapes, VictimShape, Victims
<1>3. /\ fs'[k] = [Unlinked(fs[k], n) EXCEPT !.recent = TRUE]
      /\ \A j \in Keys : j # k => fs'[j] = fs[j]
  <2>1. fs' = [fs EXCEPT ![k] = [Unlinked(fs[k], n) EXCEPT !.recent = TRUE]]
    BY <1>k DEF RUnlink, Write
  <2> QED BY <1>1, <2>1 DEF IInv, Shapes, FsShape
<1>4. fs'[k].dir = fs[k].dir /\ Listing(k)' = Listing(k) \ {n}
  BY <1>1, <1>3, OneNameLess DEF Listing
<1>5. Lists(p)' /\ Covers(p)' /\ Totals(p)'
  <2>1. \A j \in Keys : Exists(j)' <=> Exists(j)
    BY <1>3, <1>4 DEF Exists
  <2>2. \A j \in Keys : j # victim[p].key => fs'[j].files = fs[j].files /\ fs'[j].lock = fs[j].lock
    BY <1>k, <1>3
  <2> QED BY <1>k, <1>1, <1>2, <2>1, <2>2, PassGoesOn DEF compileVars
<1>6. Aims(p)'
  <2>1. /\ pc'[p] = "runlink" /\ victim'[p].key = k /\ fs'[k].dir = fs[k].dir /\ fs[k].dir # 0
        /\ victim'[p].dir = fs[k].dir /\ victim'[p].names = Listing(k)'
    BY <1>1, <1>2, <1>4 DEF Exists
  <2> QED BY <2>1 DEF Aims, Exists, Listing
<1> QED BY <1>5, <1>6 DEF Pass

\* Nobody else touches the entry: its directory goes, and its size with it.
LEMMA RmdirPass ==
  ASSUME IInv, NEW p \in Compilers, Pass(p), RRmdir(p)
  PROVE  Pass(p)'
<1>1. PICK k \in Keys : k = victim[p].key
  BY Targets, Sizes DEF RRmdir, Removing, IInv
<1>2. /\ pc[p] = "runlink" /\ victim[p].names = {} /\ Exists(k) /\ Listing(k) = {}
      /\ Lists(p) /\ Covers(p) /\ Totals(p) /\ toScan[p] = {} /\ k # NoKey
      /\ UNCHANGED <<compileVars, toScan>> /\ NextVictim(p)
  BY <1>1, CacheAssumption DEF RRmdir, Pass, Aims, InPass, Removing, Lists
<1>3. /\ fs'[k] = NoEntry /\ \A j \in Keys : j # k => fs'[j] = fs[j]
      /\ scanned'[p].total = scanned[p].total - victim[p].size
      /\ scanned'[p].entries = scanned[p].entries
  <2>1. /\ fs' = [fs EXCEPT ![k] = NoEntry]
        /\ scanned' = [scanned EXCEPT ![p].total = @ - victim[p].size]
    BY <1>1, <1>2 DEF RRmdir
  <2> QED BY <2>1, Sizes DEF IInv, Shapes, FsShape, ScanShape, Scans
<1>4. pc'[p] = "evict" /\ victim'[p].key = NoKey
  BY <1>2, Sizes, CacheAssumption
  DEF NextVictim, Goto, NoVictim, IInv, Shapes, PcShape, VictimShape
<1>5. /\ ~Exists(k)' /\ \A j \in Keys : j # k => (Exists(j)' <=> Exists(j))
      /\ toScan'[p] = {} /\ fs'[k].files = {}
  BY <1>2, <1>3 DEF Exists, NoEntry
<1>6. Seen(p) \subseteq Keys /\ Seen(p)' = Seen(p) \ {k}
  BY <1>2, <1>5 DEF Seen, Children
<1>7. Lists(p)'
  BY <1>1, <1>2, <1>3, <1>4, <1>5, <1>6, CacheAssumption DEF Lists
<1>8. Covers(p)'
  BY <1>1, <1>2, <1>3, <1>6 DEF Covers, HeldShared, compileVars
<1>9. Totals(p)'
  <2> DEFINE w == Counted(p)
             v == [j \in Keys |-> Cardinality(fs'[j].files)]
  <2>1. w \in [Keys -> Nat] /\ w[k] = victim[p].size /\ victim[p].size \in Nat
    BY <1>1, <1>2, Sizes DEF Counted, Victims
  <2>2. \A j \in Keys \ {k} : v[j] = w[j]
    BY <1>1, <1>2, <1>3 DEF Counted
  <2>3. v[k] = 0
    BY <1>5, FS_EmptySet
  <2>4. Counted(p)' = v
    BY <1>4, <1>5, CacheAssumption DEF Counted
  <2>5. v \in [Keys -> Nat]
    <3>1. \A j \in Keys : v[j] \in Nat
      BY <2>1, <2>2, <2>3
    <3> QED BY <3>1
  <2>6. SumFunction(w) = scanned[p].total
    BY <1>2 DEF Totals
  <2> HIDE DEF w, v
  <2>7. SumFunction(w) \in Nat /\ SumFunction(v) = SumFunction(w) - w[k] + v[k]
    BY <2>1, <2>2, <2>5, SumChange, CacheAssumption
  <2>8. SumFunction(v) = scanned[p].total - victim[p].size
    BY <2>1, <2>3, <2>6, <2>7
  <2> QED BY <1>3, <2>4, <2>8 DEF Totals
<1> QED BY <1>4, <1>7, <1>8, <1>9 DEF Pass, Aims, Removing

\* No other step of the process is in a pass, or none vanishes under it.
LEMMA PassStep ==
  ASSUME IInv, Callers, NEW p \in Compilers, Alone(p), Current, Pass(p), StepOf(p)
  PROVE  Pass(p)'
<1>1. p \in Procs /\ p \notin Clearers /\ pc \in [Procs -> PC]
  BY CacheAssumption DEF Procs, IInv, Shapes, PcShape
<1>2. ASSUME pc'[p] \notin {"scan", "evict", "ropen", "rflock", "rlist", "runlink"} PROVE Pass(p)'
  BY <1>2 DEF Pass, Aims, InPass, Removing
<1>3. CASE CompileStep(p)
  <2>1. pc'[p] \notin {"scan", "evict", "ropen", "rflock", "rlist", "runlink"}
    BY <1>1, <1>3 DEF CompileStep, Mkdir, IsDir, Open, FlockShared, Validate, Touch, Lookup, Hit, Read,
                      WriteScratch, Clang, Rename, Launch, Retry, Fail, Goto
  <2> QED BY <1>2, <2>1
<1>4. CASE SkipPrune(p)
  <2>1. cont[p] \in {"touch", "lookup", "clang", "launch"} /\ pc'[p] = cont[p]
    BY <1>1, <1>4 DEF SkipPrune, Goto, IInv, Shapes, LocalShape, Continuations, Phases, CompilerPhase, Pruning
  <2> QED BY <1>2, <2>1
<1>5. CASE Crash(p) \/ \E k \in Keys, e \in Lookups : Start(p, k, e)
  <2>1. pc'[p] \in {"idle", "mkdir"}
    BY <1>1, <1>5 DEF Crash, Start, Goto
  <2> QED BY <1>2, <2>1
<1>6. ASSUME NEW n \in victim[p].names, RVanished(p, n) PROVE FALSE
  BY <1>6 DEF RVanished, Pass, Aims
<1>7. CASE StartPrune(p) \/ Evict(p) \/ \E k \in Keys : Scan(p, k)
  BY <1>7, StartPass, EvictPass, ScanPass
<1>8. CASE RemoveStep(p)
  BY <1>6, <1>8, OpenPass, FlockPass, ListPass, UnlinkPass, RmdirPass DEF RemoveStep
<1> QED BY <1>1, <1>3, <1>4, <1>5, <1>7, <1>8 DEF StepOf, ProcStep, PruneStep

LEMMA AgePass ==
  ASSUME IInv, NEW p \in Compilers, Pass(p), NEW k \in Keys, Age(k)
  PROVE  Pass(p)'
<1>1. UNCHANGED <<pc, compileVars, removeVars>>
  BY DEF Age
<1>a. ASSUME NEW j \in Keys
      PROVE  /\ fs'[j].dir = fs[j].dir /\ fs'[j].files = fs[j].files /\ fs'[j].lock = fs[j].lock
             /\ (fs'[j].marker = "none") <=> (fs[j].marker = "none")
  <2>1. fs \in [Keys -> Entries] /\ fs[k] \in Entries
    BY DEF IInv, Shapes, FsShape
  <2>2. PICK m \in {"none", "old"} :
          /\ m = "none" <=> fs[k].marker = "none"
          /\ fs' = [fs EXCEPT ![k] = [fs[k] EXCEPT !.marker = m, !.recent = FALSE]]
    BY <2>1 DEF Age, Entries
  <2>3. \A i \in Keys : i # k => fs'[i] = fs[i]
    BY <2>1, <2>2
  <2>4. /\ fs'[k].dir = fs[k].dir /\ fs'[k].files = fs[k].files /\ fs'[k].lock = fs[k].lock
        /\ fs'[k].marker = m
    BY <2>1, <2>2 DEF Entries
  <2> QED BY <2>2, <2>3, <2>4
<1>2. ASSUME NEW j \in Keys PROVE (Exists(j)' <=> Exists(j)) /\ Listing(j)' = Listing(j)
  <2>1. /\ fs'[j].dir = fs[j].dir /\ fs'[j].files = fs[j].files /\ fs'[j].lock = fs[j].lock
        /\ (fs'[j].marker = "none") <=> (fs[j].marker = "none")
    BY <1>a
  <2>2. (IF fs'[j].marker # "none" THEN {Marker} ELSE {}) = (IF fs[j].marker # "none" THEN {Marker} ELSE {})
    BY <2>1
  <2>3. Exists(j)' <=> Exists(j)
    BY <2>1 DEF Exists
  <2> QED BY <2>1, <2>2, <2>3 DEF Listing
<1>3. InPass(p)' => Lists(p)' /\ Covers(p)' /\ Totals(p)'
  <2>1. ASSUME InPass(p) PROVE Lists(p)' /\ Covers(p)' /\ Totals(p)'
    <3>1. Lists(p) /\ Covers(p) /\ Totals(p)
      BY <2>1 DEF Pass
    <3>2. /\ UNCHANGED <<pc, key, lockHeld, lockIno, toScan, scanned, victim>>
          /\ \A j \in Keys : Exists(j)' <=> Exists(j)
      BY <1>1, <1>2 DEF compileVars, removeVars
    <3>3. \A j \in Keys : j # victim[p].key => fs'[j].files = fs[j].files /\ fs'[j].lock = fs[j].lock
      BY <1>a
    <3> QED BY <3>1, <3>2, <3>3, PassGoesOn
  <2>2. InPass(p)' => InPass(p)
    BY <1>1 DEF InPass
  <2> QED BY <2>1, <2>2
<1>4. Aims(p)'
  <2>1. pc'[p] = pc[p] /\ victim'[p] = victim[p]
    BY <1>1 DEF removeVars
  <2>2. pc[p] \in Removing => victim[p].key \in Keys
    BY Targets DEF IInv, Procs
  <2>3. \A j \in Keys : Listing(j)' = fs'[j].files \cup (IF fs'[j].lock # 0 THEN {Lock} ELSE {})
                                       \cup (IF fs'[j].marker # "none" THEN {Marker} ELSE {})
    BY DEF Listing
  <2>4. CASE pc[p] \in Removing
    <3>1. PICK j \in Keys : j = victim[p].key
      BY <2>2, <2>4
    <3>2. fs'[j].dir = fs[j].dir /\ fs'[j].files = fs[j].files /\ Listing(j)' = Listing(j)
      BY <1>a, <1>2
    <3>4. fs[j].dir # 0
      BY <2>4, <3>1 DEF Pass, Aims, Exists
    <3>3. Aims(p)' <=> /\ pc[p] \in Removing => fs'[j].dir # 0
                       /\ pc[p] \in {"ropen", "rflock", "rlist"} =>
                            victim[p].size = Cardinality(fs'[j].files)
                       /\ pc[p] = "runlink" => fs'[j].dir = victim[p].dir /\ victim[p].names = Listing(j)'
      BY <2>1, <3>1 DEF Aims, Exists, Removing, Listing
    <3> QED BY <3>1, <3>2, <3>3, <3>4 DEF Pass, Aims
  <2>5. CASE pc[p] \notin Removing
    BY <2>1, <2>5 DEF Aims, Removing
  <2> QED BY <2>4, <2>5
<1> QED BY <1>3, <1>4 DEF Pass

LEMMA PassesStep ==
  ASSUME IInv, Passes, Next, IInv'
  PROVE  Passes'
<1>1. Callers'
  BY CallersStep DEF Passes
<1>2. ASSUME NEW p \in Compilers, Alone(p)' PROVE Current' /\ Pass(p)'
  <2>1. Alone(p) /\ (StepOf(p) \/ \E k \in Keys : Age(k)) /\ Callers
    BY <1>2, AloneStep DEF Passes
  <2>2. Current /\ Pass(p)
    BY <2>1 DEF Passes
  <2>3. Current'
    BY <2>1, <2>2, AloneHolds, CurrentStep
  <2>4. Pass(p)'
    BY <2>1, <2>2, PassStep, AgePass
  <2> QED BY <2>3, <2>4
<1> QED BY <1>1, <1>2 DEF Passes

LEMMA InitPasses ==
  ASSUME Init
  PROVE  Passes
<1>1. \A p \in Procs : pc[p] = "idle"
  BY DEF Init
<1>2. Current
  BY InitCurrent
<1> QED BY <1>1, <1>2 DEF Passes, Callers, Pass, Aims, InPass, Removing, Procs

LEMMA StutterPasses ==
  ASSUME Passes, UNCHANGED vars
  PROVE  Passes'
<1>1. Callers' /\ \A p \in Compilers : Alone(p)' <=> Alone(p)
  BY DEF Passes, Callers, Alone, vars
<1>2. Current => Current'
  BY StutterCurrent
<1>3. ASSUME NEW p \in Compilers, Pass(p) PROVE Pass(p)'
  BY <1>3 DEF Pass, Aims, InPass, Lists, Covers, Totals, Seen, Counted, Children, Exists, Listing,
              HeldShared, vars
<1> QED BY <1>1, <1>2, <1>3 DEF Passes

\* Where the loop of _prune_lru stops: the total is what the cache holds, or no old
\* entry is left in the list.
LEMMA PassEnds ==
  ASSUME IInv, NEW p \in Compilers, Pass(p), Evict(p), pc'[p] = cont[p]
  PROVE  \/ CacheSize <= MaxSize
         \/ \A k \in Children : \/ HeldShared(k, fs[k].lock)
                                \/ \E e \in scanned[p].entries : e.key = k /\ e.fresh
<1>1. /\ pc[p] \in {"scan", "evict"} /\ toScan[p] = {} /\ Covers(p) /\ Totals(p)
      /\ p \in Procs /\ pc \in [Procs -> PC] /\ cont[p] # "ropen"
  BY DEF Evict, Pass, InPass, Lists, IInv, Shapes, PcShape, LocalShape, Continuations, Procs
<1>2. victim[p].key = NoKey
  BY <1>1, NoVictimOutside DEF Removing
<1>3. scanned[p].total <= MaxSize \/ {e \in scanned[p].entries : ~e.fresh} = {}
  BY <1>1 DEF Evict, Goto
<1>4. scanned[p].total = CacheSize
  <2>1. Counted(p) = [k \in Keys |-> Cardinality(fs[k].files)]
    BY <1>1, <1>2, CacheAssumption DEF Counted
  <2> QED BY <1>1, <2>1 DEF Totals, CacheSize
<1>5. ASSUME NEW k \in Children
      PROVE  HeldShared(k, fs[k].lock) \/ \E e \in scanned[p].entries : e.key = k
  BY <1>1, <1>2, CacheAssumption DEF Covers, Seen, Children
<1> QED BY <1>3, <1>4, <1>5

\* In a cache that one process uses, whatever it compiled before, and however often
\* it was killed while it removed an entry, a pass of _prune_lru ends with a cache
\* that fits, or with one whose every entry is locked or was fresh.
THEOREM PassesBound == Spec => PruneBounds
<1>1. Init => IInv /\ Passes
  BY InitIInv, InitPasses
<1>2. IInv /\ Passes /\ [Next]_vars => (IInv /\ Passes)'
  BY StepIInv, PassesStep, StutterPasses
<1>3. IInv /\ Passes =>
        \A p \in Compilers : calls.procs \subseteq {p} /\ Evict(p) /\ pc'[p] = cont[p] =>
          \/ CacheSize <= MaxSize
          \/ \A k \in Children : \/ HeldShared(k, fs[k].lock)
                                 \/ \E e \in scanned[p].entries : e.key = k /\ e.fresh
  BY PassEnds DEF Passes, Alone
<1> QED BY <1>1, <1>2, <1>3, PTL DEF Spec, PruneBounds
=============================================================================
