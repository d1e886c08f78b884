----------------------------- MODULE KernelCache -----------------------------
(***************************************************************************)
(* The on-disk artifact cache (python/sar/compiler/cache.py) shared by     *)
(* processes that compile through it (compiler/__init__.py with the stages *)
(* of the CPU backend) and processes that call clear_cache().              *)
(*                                                                         *)
(* One action is one file-system call, or a few that touch the same name.  *)
(* An entry is a directory; `.lock` and directories have identities,       *)
(* because a path can be unlinked and created again while a descriptor     *)
(* still refers to the old inode.  flock() locks inodes, not paths.        *)
(* Ages are two classes: "fresh" is within _PRUNE_GRACE_SECONDS.           *)
(***************************************************************************)
EXTENDS Naturals, FiniteSets, Sequences, Functions

CONSTANTS
  Compilers,    \* processes that call compile()
  Clearers,     \* processes that call clear_cache()
  Keys,
  TextStages,   \* the artifacts of the cached_stage calls, in order
  Lookups,      \* values of `enabled`: lookups may be disabled by the environment
  MaxSize,      \* SAR_DSL_CACHE_MAX_SIZE, in files
  MaxCompiles,  \* bound: compile() calls in a behaviour
  MaxClears,    \* bound: clear_cache() calls in a behaviour
  MaxCrashes,   \* bound: processes killed in a behaviour
  MaxAges,      \* bound: times an entry leaves the grace window
  NoKey,
  Published     \* "by" of an artifact under its final name

ASSUME CacheAssumption ==
  /\ IsFiniteSet(Compilers) /\ IsFiniteSet(Clearers) /\ Compilers \cap Clearers = {}
  /\ Published \notin Compilers
  /\ TextStages \in Seq(STRING) /\ TextStages # <<>>
  /\ \A n \in 1..Len(TextStages) : TextStages[n] \notin {".lock", ".accessed"}
  /\ Lookups \subseteq BOOLEAN
  /\ MaxSize \in Nat \ {0} /\ MaxCompiles \in Nat /\ MaxClears \in Nat
  /\ MaxCrashes \in Nat /\ MaxAges \in Nat
  /\ IsFiniteSet(Keys) /\ NoKey \notin Keys

Procs == Compilers \cup Clearers

VARIABLES
  fs,         \* the entry of each key
  pc,
  key,        \* the entry each compiler works on
  attempt,    \* its iteration of the loop of _open_locked
  lockIno,    \* the inode its `.lock` descriptor refers to, 0 when closed
  lockHeld,   \* it holds LOCK_SH on that inode
  enabled,    \* SAR_DSL_DISABLE_CACHE is not set
  stage,      \* the text stage it is in
  file,       \* the artifact it is writing
  cont,       \* where it goes on after _prune_lru
  toScan,     \* keys listed and not looked at yet (_prune_lru, clear_cache)
  scanned,    \* entries and total of _prune_lru
  victim,     \* the entry being removed, the descriptors and names held for it
  calls       \* how often each bounded event has happened; the processes that
              \* called, the keys that were compiled and those whose entry was
              \* locked for removal

vars == <<fs, pc, key, attempt, lockIno, lockHeld, enabled, stage, file, cont,
          toScan, scanned, victim, calls>>
compileVars == <<key, attempt, lockIno, lockHeld, enabled, stage, file, cont>>
removeVars == <<toScan, scanned, victim>>

-----------------------------------------------------------------------------
(***************************************************************************)
(* Files.                                                                  *)
(***************************************************************************)

Artifact(f) == [name |-> f, by |-> Published]

\* Mutated form: a scratch name without the unique suffix.
SharedScratch(p, f) == [name |-> f, by |-> CHOOSE c \in Compilers : TRUE]

Scratch(p, f) == [name |-> f, by |-> p]

Lock == Artifact(".lock")
Marker == Artifact(".accessed")

NoEntry == [dir |-> 0, recent |-> FALSE, lock |-> 0, marker |-> "none", files |-> {}]
NoVictim == [key |-> NoKey, size |-> 0, ino |-> 0, held |-> FALSE,
             dir |-> 0, names |-> {}]

Exists(k) == fs[k].dir # 0
Has(k, f) == Artifact(f) \in fs[k].files
Listing(k) == fs[k].files \cup (IF fs[k].lock # 0 THEN {Lock} ELSE {})
                          \cup (IF fs[k].marker # "none" THEN {Marker} ELSE {})

\* Identities still referred to are not given out again.
Unused(S) == CHOOSE i \in 1..(Cardinality(S) + 1) : i \notin S
NewIno(k) == Unused({fs[k].lock} \cup {lockIno[p] : p \in {c \in Compilers : key[c] = k}}
                     \cup {victim[p].ino : p \in {r \in Procs : victim[r].key = k}})
NewDir(k) == Unused({fs[k].dir} \cup {victim[p].dir : p \in {r \in Procs : victim[r].key = k}})

\* An entry written in: its directory's mtime is now.
Write(k, entry) == fs' = [fs EXCEPT ![k] = [entry EXCEPT !.recent = TRUE]]

Unlinked(entry, n) ==
  IF n = Lock THEN [entry EXCEPT !.lock = 0]
  ELSE IF n = Marker THEN [entry EXCEPT !.marker = "none"]
  ELSE [entry EXCEPT !.files = @ \ {n}]

\* open(".lock", "a+") in an existing directory creates the file if need be.
OpenedIno(k) == IF fs[k].lock # 0 THEN fs[k].lock ELSE NewIno(k)
OpenLock(k) == IF fs[k].lock # 0 THEN UNCHANGED fs ELSE Write(k, [fs[k] EXCEPT !.lock = NewIno(k)])

HeldShared(k, i) == \E c \in Compilers : key[c] = k /\ lockHeld[c] /\ lockIno[c] = i
HeldExclusive(k, i) == \E r \in Procs : victim[r].key = k /\ victim[r].held /\ victim[r].ino = i

Goto(p, l) == pc' = [pc EXCEPT ![p] = l]

-----------------------------------------------------------------------------
WarmEntry == [dir |-> 1, recent |-> FALSE, lock |-> 1, marker |-> "old",
              files |-> {Artifact(TextStages[n]) : n \in 1..Len(TextStages)} \cup {Artifact("so")}]

\* A cache left by earlier processes: some keys are compiled and long unused.
Init ==
  /\ fs \in [Keys -> {NoEntry, WarmEntry}]
  /\ pc = [p \in Procs |-> "idle"]
  /\ key = [p \in Compilers |-> NoKey]
  /\ attempt = [p \in Compilers |-> 0]
  /\ lockIno = [p \in Compilers |-> 0]
  /\ lockHeld = [p \in Compilers |-> FALSE]
  /\ enabled = [p \in Compilers |-> TRUE]
  /\ stage = [p \in Compilers |-> 1]
  /\ file = [p \in Compilers |-> "so"]
  /\ cont = [p \in Compilers |-> "idle"]
  /\ toScan = [p \in Procs |-> {}]
  /\ scanned = [p \in Compilers |-> [entries |-> {}, total |-> 0]]
  /\ victim = [p \in Procs |-> NoVictim]
  /\ calls = [compile |-> 0, clear |-> 0, crash |-> 0, age |-> 0,
              procs |-> {}, keys |-> {}, removed |-> {}]

-----------------------------------------------------------------------------
(***************************************************************************)
(* KernelCache.__init__: _open_locked, _prune_lru, _touch.                 *)
(***************************************************************************)

Finished == {"idle", "exists", "gaveup", "broken"}

\* compile() begins: the key is computed and the constructor called.
Start(p, k, e) ==
  /\ pc[p] \in Finished
  /\ calls.compile < MaxCompiles
  /\ calls' = [calls EXCEPT !.compile = @ + 1, !.procs = @ \cup {p}, !.keys = @ \cup {k}]
  /\ key' = [key EXCEPT ![p] = k]
  /\ enabled' = [enabled EXCEPT ![p] = e]
  /\ attempt' = [attempt EXCEPT ![p] = 0]
  /\ stage' = [stage EXCEPT ![p] = 1]
  /\ Goto(p, "mkdir")
  /\ UNCHANGED <<fs, lockIno, lockHeld, file, cont, removeVars>>

\* Path.mkdir(exist_ok=True) is os.mkdir, and is_dir when that finds the name.
Mkdir(p) ==
  /\ pc[p] = "mkdir"
  /\ IF Exists(key[p])
     THEN Goto(p, "isdir") /\ UNCHANGED fs
     ELSE Goto(p, "open") /\ Write(key[p], [NoEntry EXCEPT !.dir = NewDir(key[p])])
  /\ UNCHANGED <<compileVars, removeVars, calls>>

\* The directory may be gone by then: FileExistsError leaves the constructor.
IsDir(p) ==
  /\ pc[p] = "isdir"
  /\ Goto(p, IF Exists(key[p]) THEN "open" ELSE "exists")
  /\ UNCHANGED <<fs, compileVars, removeVars, calls>>

Attempts == 3

\* The next iteration of the loop, or the FileNotFoundError after the last.
Retry(p) ==
  /\ attempt' = [attempt EXCEPT ![p] = @ + 1]
  /\ Goto(p, IF attempt[p] + 1 < Attempts THEN "mkdir" ELSE "gaveup")

Open(p) ==
  /\ pc[p] = "open"
  /\ IF Exists(key[p])
     THEN /\ OpenLock(key[p])
          /\ lockIno' = [lockIno EXCEPT ![p] = OpenedIno(key[p])]
          /\ Goto(p, "flock")
          /\ UNCHANGED attempt
     ELSE Retry(p) /\ UNCHANGED <<fs, lockIno>>
  /\ UNCHANGED <<key, lockHeld, enabled, stage, file, cont, removeVars, calls>>

FlockShared(p) ==
  /\ pc[p] = "flock"
  /\ ~HeldExclusive(key[p], lockIno[p])
  /\ lockHeld' = [lockHeld EXCEPT ![p] = TRUE]
  /\ Goto(p, "validate")
  /\ UNCHANGED <<fs, key, attempt, lockIno, enabled, stage, file, cont, removeVars, calls>>

CloseLock(p) ==
  /\ lockIno' = [lockIno EXCEPT ![p] = 0]
  /\ lockHeld' = [lockHeld EXCEPT ![p] = FALSE]

\* Mutated form: the descriptor is trusted.
NotRevalidated(p) == TRUE

SameStat(p) == fs[key[p]].lock = lockIno[p]

Validate(p) ==
  /\ pc[p] = "validate"
  /\ IF SameStat(p)
     THEN /\ Goto(p, "prune")
          /\ cont' = [cont EXCEPT ![p] = "touch"]
          /\ UNCHANGED <<lockIno, lockHeld, attempt>>
     ELSE CloseLock(p) /\ Retry(p) /\ UNCHANGED cont
  /\ UNCHANGED <<fs, key, enabled, stage, file, removeVars, calls>>

\* _touch: an OSError (the entry is gone) is swallowed.
TouchEntry(k) ==
  IF Exists(k)
  THEN fs' = [fs EXCEPT ![k] = [@ EXCEPT !.marker = "fresh",
                                          !.recent = fs[k].recent \/ fs[k].marker = "none"]]
  ELSE UNCHANGED fs

Touch(p) ==
  /\ pc[p] = "touch"
  /\ TouchEntry(key[p])
  /\ Goto(p, "lookup")
  /\ UNCHANGED <<compileVars, removeVars, calls>>

-----------------------------------------------------------------------------
(***************************************************************************)
(* The stages: cached_stage for each text, then the shared library.        *)
(***************************************************************************)

Last == TextStages[Len(TextStages)]

\* has() of the stage's text; in the last stage has() of kernel.so, whose miss
\* writes kernel.ll again for clang.
Lookup(p) ==
  /\ pc[p] = "lookup"
  /\ LET text == stage[p] <= Len(TextStages)
         f == IF text THEN TextStages[stage[p]] ELSE "so"
     IN  IF enabled[p] /\ Has(key[p], f)
         THEN Goto(p, "hit") /\ UNCHANGED <<file, cont, stage>>
         ELSE /\ Goto(p, "write")
              /\ file' = [file EXCEPT ![p] = IF text THEN f ELSE Last]
              /\ cont' = [cont EXCEPT ![p] = IF text THEN "lookup" ELSE "clang"]
              /\ stage' = [stage EXCEPT ![p] = IF text THEN @ + 1 ELSE @]
  /\ UNCHANGED <<fs, key, attempt, lockIno, lockHeld, enabled, removeVars, calls>>

\* The _touch of has().
Hit(p) ==
  /\ pc[p] = "hit"
  /\ TouchEntry(key[p])
  /\ Goto(p, IF stage[p] <= Len(TextStages) THEN "read" ELSE "launch")
  /\ UNCHANGED <<compileVars, removeVars, calls>>

\* read_if_cached: a hit whose read fails is a miss.
Read(p) ==
  /\ pc[p] = "read"
  /\ LET f == TextStages[stage[p]]
     IN  IF Has(key[p], f)
         THEN Goto(p, "lookup") /\ UNCHANGED <<file, cont>>
         ELSE /\ Goto(p, "write")
              /\ file' = [file EXCEPT ![p] = f]
              /\ cont' = [cont EXCEPT ![p] = "lookup"]
  /\ stage' = [stage EXCEPT ![p] = @ + 1]
  /\ UNCHANGED <<fs, key, attempt, lockIno, lockHeld, enabled, removeVars, calls>>

\* An exception leaves the `with cache` block, which closes the lock.
Fail(p) == CloseLock(p) /\ Goto(p, "broken")

\* write_text: the temporary file, in a directory that must exist.
WriteScratch(p) ==
  /\ pc[p] = "write"
  /\ IF Exists(key[p])
     THEN /\ Write(key[p], [fs[key[p]] EXCEPT !.files = @ \cup {Scratch(p, file[p])}])
          /\ Goto(p, "rename")
          /\ UNCHANGED <<lockIno, lockHeld>>
     ELSE Fail(p) /\ UNCHANGED fs
  /\ UNCHANGED <<key, attempt, enabled, stage, file, cont, removeVars, calls>>

\* clang reads kernel.ll by its path and writes the scratch library.
Clang(p) ==
  /\ pc[p] = "clang"
  /\ IF Has(key[p], Last)
     THEN /\ Write(key[p], [fs[key[p]] EXCEPT !.files = @ \cup {Scratch(p, "so")}])
          /\ file' = [file EXCEPT ![p] = "so"]
          /\ cont' = [cont EXCEPT ![p] = "launch"]
          /\ Goto(p, "rename")
          /\ UNCHANGED <<lockIno, lockHeld>>
     ELSE Fail(p) /\ UNCHANGED <<fs, file, cont>>
  /\ UNCHANGED <<key, attempt, enabled, stage, removeVars, calls>>

\* os.replace, in write_text and publish; both prune afterwards.
Rename(p) ==
  /\ pc[p] = "rename"
  /\ LET tmp == Scratch(p, file[p])
     IN  IF tmp \in fs[key[p]].files
         THEN /\ Write(key[p], [fs[key[p]] EXCEPT !.files = (@ \ {tmp}) \cup {Artifact(file[p])}])
              /\ Goto(p, "prune")
              /\ UNCHANGED <<lockIno, lockHeld>>
         ELSE Fail(p) /\ UNCHANGED fs
  /\ UNCHANGED <<key, attempt, enabled, stage, file, cont, removeVars, calls>>

\* make_launcher opens kernel.so (ctypes.CDLL); then the lock is released.
Launch(p) ==
  /\ pc[p] = "launch"
  /\ CloseLock(p)
  /\ Goto(p, IF Has(key[p], "so") THEN "idle" ELSE "broken")
  /\ UNCHANGED <<fs, key, attempt, enabled, stage, file, cont, removeVars, calls>>

-----------------------------------------------------------------------------
(***************************************************************************)
(* _prune_lru                                                              *)
(***************************************************************************)

Children == {k \in Keys : Exists(k)}

\* Throttled: this process scanned the root less than 30 seconds ago.
SkipPrune(p) ==
  /\ pc[p] = "prune"
  /\ Goto(p, cont[p])
  /\ UNCHANGED <<fs, compileVars, removeVars, calls>>

StartPrune(p) ==
  /\ pc[p] = "prune"
  /\ toScan' = [toScan EXCEPT ![p] = Children]
  /\ scanned' = [scanned EXCEPT ![p] = [entries |-> {}, total |-> 0]]
  /\ Goto(p, "scan")
  /\ UNCHANGED <<fs, compileVars, victim, calls>>

\* Age and size of one listed entry; one that is gone is skipped.
Scan(p, k) ==
  /\ pc[p] = "scan"
  /\ k \in toScan[p]
  /\ toScan' = [toScan EXCEPT ![p] = @ \ {k}]
  /\ LET size == Cardinality(fs[k].files)
         fresh == IF fs[k].marker = "none" THEN fs[k].recent ELSE fs[k].marker = "fresh"
     IN  IF Exists(k)
         THEN scanned' = [scanned EXCEPT ![p] =
                [entries |-> @.entries \cup {[key |-> k, fresh |-> fresh, size |-> size]},
                 total |-> @.total + size]]
         ELSE UNCHANGED scanned
  /\ UNCHANGED <<fs, pc, compileVars, victim, calls>>

\* The oldest entry not yet considered, unless the cache fits or it is fresh.
Evict(p) ==
  /\ \/ pc[p] = "scan" /\ toScan[p] = {}
     \/ pc[p] = "evict"
  /\ LET old == {e \in scanned[p].entries : ~e.fresh}
     IN  IF scanned[p].total <= MaxSize \/ old = {}
         THEN /\ Goto(p, cont[p])
              /\ scanned' = [scanned EXCEPT ![p] = [entries |-> {}, total |-> 0]]
              /\ UNCHANGED victim
         ELSE \E e \in old :
                /\ scanned' = [scanned EXCEPT ![p].entries = @ \ {e}]
                /\ victim' = [victim EXCEPT ![p] = [NoVictim EXCEPT !.key = e.key, !.size = e.size]]
                /\ Goto(p, "ropen")
  /\ UNCHANGED <<fs, compileVars, toScan, calls>>

-----------------------------------------------------------------------------
(***************************************************************************)
(* clear_cache                                                             *)
(***************************************************************************)

StartClear(p) ==
  /\ pc[p] = "idle"
  /\ calls.clear < MaxClears
  /\ calls' = [calls EXCEPT !.clear = @ + 1, !.procs = @ \cup {p}]
  /\ toScan' = [toScan EXCEPT ![p] = Children]
  /\ Goto(p, "clear")
  /\ UNCHANGED <<fs, compileVars, scanned, victim>>

\* A markerless fresh directory is a construction in flight: retained.
ClearEntry(p, k) ==
  /\ pc[p] = "clear"
  /\ k \in toScan[p]
  /\ toScan' = [toScan EXCEPT ![p] = @ \ {k}]
  /\ IF ~Exists(k) \/ (fs[k].marker = "none" /\ fs[k].recent)
     THEN UNCHANGED <<pc, victim>>
     ELSE /\ victim' = [victim EXCEPT ![p] = [NoVictim EXCEPT !.key = k]]
          /\ Goto(p, "ropen")
  /\ UNCHANGED <<fs, compileVars, scanned, calls>>

EndClear(p) ==
  /\ pc[p] = "clear"
  /\ toScan[p] = {}
  /\ Goto(p, "idle")
  /\ UNCHANGED <<fs, compileVars, removeVars, calls>>

-----------------------------------------------------------------------------
(***************************************************************************)
(* Removing one entry: open `.lock`, LOCK_EX | LOCK_NB, shutil.rmtree.     *)
(***************************************************************************)

\* The descriptor is closed and the loop goes on with the next entry.
NextVictim(p) ==
  /\ victim' = [victim EXCEPT ![p] = NoVictim]
  /\ Goto(p, IF p \in Clearers THEN "clear" ELSE "evict")

ROpen(p) ==
  /\ pc[p] = "ropen"
  /\ LET k == victim[p].key
     IN  IF Exists(k)
         THEN /\ OpenLock(k)
              /\ victim' = [victim EXCEPT ![p].ino = OpenedIno(k)]
              /\ Goto(p, "rflock")
         ELSE NextVictim(p) /\ UNCHANGED fs
  /\ UNCHANGED <<compileVars, toScan, scanned, calls>>

\* The exclusive lock is the remover's.
Granted(p) ==
  /\ victim' = [victim EXCEPT ![p].held = TRUE]
  /\ calls' = [calls EXCEPT !.removed = @ \cup {victim[p].key}]
  /\ Goto(p, "rlist")

\* Mutated form: the lock is waited for.
RFlockWaits(p) ==
  /\ pc[p] = "rflock"
  /\ ~HeldShared(victim[p].key, victim[p].ino) /\ ~HeldExclusive(victim[p].key, victim[p].ino)
  /\ Granted(p)
  /\ UNCHANGED <<fs, compileVars, toScan, scanned>>

\* Mutated form: no lock is asked for.
RFlockForced(p) ==
  /\ pc[p] = "rflock"
  /\ Granted(p)
  /\ UNCHANGED <<fs, compileVars, toScan, scanned>>

\* Mutated form: the size is subtracted whether or not the entry goes.
RFlockCounts(p) ==
  /\ pc[p] = "rflock"
  /\ IF HeldShared(victim[p].key, victim[p].ino) \/ HeldExclusive(victim[p].key, victim[p].ino)
     THEN /\ NextVictim(p)
          /\ scanned' = IF p \in Compilers
                        THEN [scanned EXCEPT ![p].total = @ - victim[p].size]
                        ELSE scanned
          /\ UNCHANGED calls
     ELSE Granted(p) /\ UNCHANGED scanned
  /\ UNCHANGED <<fs, compileVars, toScan>>

RFlock(p) ==
  /\ pc[p] = "rflock"
  /\ IF HeldShared(victim[p].key, victim[p].ino) \/ HeldExclusive(victim[p].key, victim[p].ino)
     THEN NextVictim(p) /\ UNCHANGED calls
     ELSE Granted(p)
  /\ UNCHANGED <<fs, compileVars, toScan, scanned>>

\* rmtree opens the directory and reads all its names.
RList(p) ==
  /\ pc[p] = "rlist"
  /\ LET k == victim[p].key
     IN  IF Exists(k)
         THEN /\ victim' = [victim EXCEPT ![p].dir = fs[k].dir, ![p].names = Listing(k)]
              /\ Goto(p, "runlink")
         ELSE NextVictim(p)
  /\ UNCHANGED <<fs, compileVars, toScan, scanned, calls>>

\* The names are unlinked in the order of the directory, which may be any.
RUnlink(p, n) ==
  /\ pc[p] = "runlink"
  /\ n \in victim[p].names
  /\ fs[victim[p].key].dir = victim[p].dir
  /\ n \in Listing(victim[p].key)
  /\ Write(victim[p].key, Unlinked(fs[victim[p].key], n))
  /\ victim' = [victim EXCEPT ![p].names = @ \ {n}]
  /\ UNCHANGED <<pc, compileVars, toScan, scanned, calls>>

\* A name that vanished ends rmtree with FileNotFoundError before Python 3.13
\* and is skipped since.
RVanished(p, n) ==
  /\ pc[p] = "runlink"
  /\ n \in victim[p].names
  /\ fs[victim[p].key].dir = victim[p].dir => n \notin Listing(victim[p].key)
  /\ \/ victim' = [victim EXCEPT ![p].names = @ \ {n}] /\ UNCHANGED pc
     \/ NextVictim(p)
  /\ UNCHANGED <<fs, compileVars, toScan, scanned, calls>>

\* The rmdir at the end fails when something was created meanwhile.
RRmdir(p) ==
  /\ pc[p] = "runlink"
  /\ victim[p].names = {}
  /\ LET k == victim[p].key
     IN  IF Exists(k) /\ Listing(k) = {}
         THEN /\ fs' = [fs EXCEPT ![k] = NoEntry]
              /\ scanned' = IF p \in Compilers
                            THEN [scanned EXCEPT ![p].total = @ - victim[p].size]
                            ELSE scanned
         ELSE UNCHANGED <<fs, scanned>>
  /\ NextVictim(p)
  /\ UNCHANGED <<compileVars, toScan, calls>>

-----------------------------------------------------------------------------
\* Ten minutes pass without the entry being touched.
Age(k) ==
  /\ fs[k].marker = "fresh" \/ fs[k].recent
  /\ calls.age < MaxAges
  /\ calls' = [calls EXCEPT !.age = @ + 1]
  /\ LET marker == IF fs[k].marker = "fresh" THEN "old" ELSE fs[k].marker
     IN  fs' = [fs EXCEPT ![k] = [@ EXCEPT !.marker = marker, !.recent = FALSE]]
  /\ UNCHANGED <<pc, compileVars, removeVars>>

\* A process is killed: the kernel closes its descriptors, its scratch files and
\* an entry it has half removed stay.
Crash(p) ==
  /\ pc[p] \notin Finished
  /\ calls.crash < MaxCrashes
  /\ calls' = [calls EXCEPT !.crash = @ + 1]
  /\ Goto(p, "idle")
  /\ IF p \in Compilers THEN CloseLock(p) ELSE UNCHANGED <<lockIno, lockHeld>>
  /\ toScan' = [toScan EXCEPT ![p] = {}]
  /\ victim' = [victim EXCEPT ![p] = NoVictim]
  /\ UNCHANGED <<fs, key, attempt, enabled, stage, file, cont, scanned>>

CompileStep(p) ==
  \/ Mkdir(p) \/ IsDir(p) \/ Open(p) \/ FlockShared(p) \/ Validate(p) \/ Touch(p)
  \/ Lookup(p) \/ Hit(p) \/ Read(p) \/ WriteScratch(p) \/ Clang(p) \/ Rename(p) \/ Launch(p)

PruneStep(p) ==
  \/ SkipPrune(p) \/ StartPrune(p) \/ Evict(p)
  \/ \E k \in Keys : Scan(p, k)

ClearStep(p) == EndClear(p) \/ \E k \in Keys : ClearEntry(p, k)

RemoveStep(p) ==
  \/ ROpen(p) \/ RFlock(p) \/ RList(p) \/ RRmdir(p)
  \/ \E n \in victim[p].names : RUnlink(p, n) \/ RVanished(p, n)

ProcStep(p) ==
  \/ p \in Compilers /\ (CompileStep(p) \/ PruneStep(p))
  \/ p \in Clearers /\ ClearStep(p)
  \/ RemoveStep(p)

Next ==
  \/ \E p \in Compilers, k \in Keys, e \in Lookups : Start(p, k, e)
  \/ \E p \in Clearers : StartClear(p)
  \/ \E p \in Procs : ProcStep(p) \/ Crash(p)
  \/ \E k \in Keys : Age(k)

Spec == Init /\ [][Next]_vars

-----------------------------------------------------------------------------
(***************************************************************************)
(* Properties                                                              *)
(***************************************************************************)

\* The constructor has returned and close() has not been called.
InUse(p) == pc[p] \notin Finished \cup {"mkdir", "isdir", "open", "flock", "validate"}

FileNames == [name : {TextStages[n] : n \in 1..Len(TextStages)} \cup {"so"},
              by : Compilers \cup {Published}]
PC == Finished \cup
  {"mkdir", "isdir", "open", "flock", "validate", "touch", "lookup", "hit", "read", "write",
   "rename", "clang", "launch", "prune", "scan", "evict", "clear", "ropen", "rflock",
   "rlist", "runlink"}

\* Entries, locks and program counters have their shapes, a directory that does
\* not exist holds nothing, and flock's exclusion holds on every inode.
TypeOK ==
  /\ fs \in [Keys -> [dir : Nat, recent : BOOLEAN, lock : Nat,
                      marker : {"none", "old", "fresh"}, files : SUBSET FileNames]]
  /\ pc \in [Procs -> PC]
  /\ key \in [Compilers -> Keys \cup {NoKey}]
  /\ attempt \in [Compilers -> 0..Attempts]
  /\ lockHeld \in [Compilers -> BOOLEAN] /\ lockIno \in [Compilers -> Nat]
  /\ \A p \in Procs : victim[p].names \subseteq FileNames \cup {Lock, Marker}
  /\ \A k \in Keys : ~Exists(k) => Listing(k) = {}
  /\ \A k \in Keys, p \in Procs :
       victim[p].key = k /\ victim[p].held => ~HeldShared(k, victim[p].ino)

\* A constructed KernelCache holds its shared lock on the `.lock` that its entry
\* has now: whoever wants to remove the entry meets it (_open_locked).
LockCurrent ==
  \A p \in Compilers : InUse(p) =>
    lockHeld[p] /\ lockIno[p] # 0 /\ fs[key[p]].lock = lockIno[p]

\* "Removes unlocked cache entries" (clear_cache): no artifact is unlinked from
\* an entry that a compilation has locked.  False: see the README.
RemovesUnlocked ==
  [][ \A r \in Procs : \A n \in victim[r].names : RUnlink(r, n) /\ n \notin {Lock, Marker} =>
        \A p \in Compilers : InUse(p) => key[p] # victim[r].key ]_vars

\* A compile() fails only when somebody got the exclusive lock of its entry: not
\* because of the other compilations of the kernel, of crashed ones or of a skipped
\* eviction (write_text, publish, _open_locked).  And if one kernel is compiled and
\* nobody clears the cache, nobody gets that lock: the LRU eviction meets the
\* shared lock of its own process.
SharersSucceed ==
  /\ \A p \in Compilers :
       key[p] \notin calls.removed => pc[p] \notin {"exists", "gaveup", "broken"}
  /\ calls.clear = 0 /\ (\A j, k \in calls.keys : j = k) =>
       calls.keys \cap calls.removed = {}

\* The constructor survives a removal between its mkdir and its flock.  False:
\* see the README.
SurvivesRemoval == \A p \in Compilers : pc[p] # "exists"

CacheSize == SumFunction([k \in Keys |-> Cardinality(fs[k].files)])

\* In a cache that one process uses, a pass of _prune_lru ends with a cache that
\* fits, or with one whose every entry is locked or was fresh when it was scanned.
PruneBounds ==
  [][ \A p \in Compilers : calls.procs \subseteq {p} /\ Evict(p) /\ pc'[p] = cont[p] =>
        \/ CacheSize <= MaxSize
        \/ \A k \in Children : \/ HeldShared(k, fs[k].lock)
                               \/ \E e \in scanned[p].entries : e.key = k /\ e.fresh ]_vars
=============================================================================
