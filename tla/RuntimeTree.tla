----------------------------- MODULE RuntimeTree -----------------------------
(***************************************************************************)
(* The runtime tree on disk, the build that writes it and the container    *)
(* entry that decides whether to build (scripts/build_runtime.py,          *)
(* docker/engine-entry.sh).                                                *)
(*                                                                         *)
(* A build writes the Chain and the Summary of each day, then the Payoff   *)
(* artifact over every strike the tree holds, then the manifest.  Each     *)
(* file is written in place: opening it truncates what was there, and a    *)
(* process killed before it closes leaves a file no reader can open.       *)
(* Builds run one at a time.                                               *)
(***************************************************************************)
EXTENDS Integers, FiniteSets, FiniteSetsExt

CONSTANTS
  Days,          \* the (date, Expiry) pairs the dataset holds
  Strikes,       \* the strikes that occur in it
  Quoted,        \* Quoted[v][d]: the strikes version v of the code derives for d
  MaxVersion,    \* bound: versions of the code
  MaxHandBuilds, \* bound: builds started by hand
  MaxCrashes     \* bound: times a process is killed

Versions == 1 .. MaxVersion

ASSUME DaysAssumption == IsFiniteSet(Days) /\ Days # {}
ASSUME StrikesAssumption == Strikes \subseteq Nat
ASSUME BoundsAssumption == MaxVersion \in Nat \ {0} /\ MaxHandBuilds \in Nat /\ MaxCrashes \in Nat
ASSUME QuotedAssumption == Quoted \in [Versions -> [Days -> (SUBSET Strikes) \ {{}}]]

\* A partition file holds what one version of the code derived, or is not
\* there, or was opened and never closed.
None == 0
Torn == -1

\* An unpartitioned dataset also has a directory, made before its file.
FileStatus == {"none", "empty", "torn", "whole"}

VARIABLES
  chain,        \* the Chain's partition of each day
  summary,      \* the Summary's
  payoff,       \* the Payoff artifact: the strikes it covers, the domain's high end
  manifest,     \* the manifest: the days it lists, the high end it publishes
  build,        \* the build process
  engine,       \* the engine's container: "down", in its entry script, or "up"
  runtimeCheck, \* is RUNTIME_CHECK=1 in the container's environment?
  code,         \* the version of the code in the checkout
  crashes, handBuilds,
  done,         \* history: the last build to finish, until the next one starts
  covered,      \* history: every strike a finished Payoff artifact has covered
  rebuilt       \* history: was a build ever started by hand?

tree == <<chain, summary, payoff, manifest>>
history == <<done, covered, rebuilt>>
bounds == <<code, crashes, handBuilds>>
vars == <<tree, build, engine, runtimeCheck, bounds, history>>

Partition == {None, Torn} \cup Versions

\* `FAR_TAIL * max(strike)`.
FarTail(keys) == 2 * Max(keys)

Highs == {0} \cup {FarTail(keys) : keys \in (SUBSET Strikes) \ {{}}}

\* Where main() is: choosing a day, inside or between the two files of one,
\* before, inside or past the Payoff's file, and before or inside the manifest's.
Phases == {"idle", "days", "chain", "between", "summary", "payoff", "payoffFile",
           "tree", "manifest", "manifestFile"}

NoBuild == [dates |-> {}, version |-> None]

Idle == [phase |-> "idle", dates |-> {}, todo |-> {}, doing |-> {},
         version |-> None, keys |-> {}]

TypeOK ==
  /\ chain \in [Days -> Partition]
  /\ summary \in [Days -> Partition]
  /\ payoff \in [status : FileStatus, keys : SUBSET Strikes, high : Highs]
  /\ manifest \in [status : FileStatus, days : SUBSET Days, high : Highs]
  /\ build \in [phase : Phases, dates : SUBSET Days, todo : SUBSET Days,
                doing : SUBSET Days, version : Versions \cup {None},
                keys : SUBSET Strikes]
  /\ engine \in {"down", "building", "checking", "up"}
  /\ runtimeCheck \in BOOLEAN
  /\ code \in Versions
  /\ crashes \in 0 .. MaxCrashes
  /\ handBuilds \in 0 .. MaxHandBuilds
  /\ done \in [dates : SUBSET Days, version : Versions \cup {None}]
  /\ covered \in SUBSET Strikes
  /\ rebuilt \in BOOLEAN

Init ==
  /\ chain = [d \in Days |-> None]
  /\ summary = [d \in Days |-> None]
  /\ payoff = [status |-> "none", keys |-> {}, high |-> 0]
  /\ manifest = [status |-> "none", days |-> {}, high |-> 0]
  /\ build = Idle
  /\ engine = "down"
  /\ runtimeCheck \in BOOLEAN
  /\ code = 1
  /\ crashes = 0
  /\ handBuilds = 0
  /\ done = NoBuild
  /\ covered = {}
  /\ rebuilt = FALSE

------------------------------------------------------------------------------
\* What a reader finds.  Scanning a dataset opens every file of it, so one that
\* was never closed fails the scan.
Stored(dataset) == {d \in Days : dataset[d] # None}

Readable(dataset) == \A d \in Days : dataset[d] # Torn

\* Both sides of a strike are covered together, so a strike stands for both.
chain_keys == UNION {Quoted[chain[d]][d] : d \in Stored(chain)}

\* stored_keys asks whether the directory is there and then scans it: a
\* directory with no readable file in it is an error.
PayoffReadable == payoff.status \in {"none", "whole"}

------------------------------------------------------------------------------
(* The build, one file operation at a time. *)

Begin(dates) ==
  /\ build' = [Idle EXCEPT !.phase = "days", !.dates = dates, !.todo = dates,
                           !.version = code]
  /\ done' = NoBuild

\* The bug of an incremental build: whatever is in a partition is left there.
OpenChain_skipsWhatIsThere(d) ==
  /\ build.phase = "days"
  /\ d \in build.todo
  /\ chain' = [chain EXCEPT ![d] = IF @ = None THEN Torn ELSE @]
  /\ build' = IF chain[d] = None
                THEN [build EXCEPT !.phase = "chain", !.doing = {d}, !.todo = @ \ {d}]
                ELSE [build EXCEPT !.todo = @ \ {d}]
  /\ UNCHANGED <<summary, payoff, manifest>>

OpenChain(d) ==
  /\ build.phase = "days"
  /\ d \in build.todo
  /\ chain' = [chain EXCEPT ![d] = Torn]
  /\ build' = [build EXCEPT !.phase = "chain", !.doing = {d}, !.todo = @ \ {d}]
  /\ UNCHANGED <<summary, payoff, manifest>>

\* The bug of saving work: a Summary that is there already is left as it was.
CloseChain_keepsTheSummary(d) ==
  /\ build.phase = "chain"
  /\ d \in build.doing
  /\ chain' = [chain EXCEPT ![d] = build.version]
  /\ build' = IF summary[d] \in Versions
                THEN [build EXCEPT !.phase = "days", !.doing = {}]
                ELSE [build EXCEPT !.phase = "between"]
  /\ UNCHANGED <<summary, payoff, manifest>>

CloseChain(d) ==
  /\ build.phase = "chain"
  /\ d \in build.doing
  /\ chain' = [chain EXCEPT ![d] = build.version]
  /\ build' = [build EXCEPT !.phase = "between"]
  /\ UNCHANGED <<summary, payoff, manifest>>

OpenSummary(d) ==
  /\ build.phase = "between"
  /\ d \in build.doing
  /\ summary' = [summary EXCEPT ![d] = Torn]
  /\ build' = [build EXCEPT !.phase = "summary"]
  /\ UNCHANGED <<chain, payoff, manifest>>

CloseSummary(d) ==
  /\ build.phase = "summary"
  /\ d \in build.doing
  /\ summary' = [summary EXCEPT ![d] = build.version]
  /\ build' = [build EXCEPT !.phase = "days", !.doing = {}]
  /\ UNCHANGED <<chain, payoff, manifest>>

\* The bug of replacing: this build's strikes only.
ReadKeys_replaces ==
  /\ build.phase = "days"
  /\ build.todo = {}
  /\ Readable(chain)
  /\ build' = [build EXCEPT !.phase = "payoff", !.keys = chain_keys]
  /\ payoff' = IF payoff.status = "none" THEN [payoff EXCEPT !.status = "empty"] ELSE payoff
  /\ UNCHANGED <<chain, summary, manifest>>

\* The bug of keeping: an artifact that is there already is written as it was.
ReadKeys_keepsTheStored ==
  /\ build.phase = "days"
  /\ build.todo = {}
  /\ Readable(chain)
  /\ PayoffReadable
  /\ build' = [build EXCEPT !.phase = "payoff",
                            !.keys = IF payoff.status = "whole" THEN payoff.keys ELSE chain_keys]
  /\ payoff' = IF payoff.status = "none" THEN [payoff EXCEPT !.status = "empty"] ELSE payoff
  /\ UNCHANGED <<chain, summary, manifest>>

\* write_payoff reads the keys of the Chain and its own, then makes its directory.
ReadKeys ==
  /\ build.phase = "days"
  /\ build.todo = {}
  /\ Readable(chain)
  /\ PayoffReadable
  /\ build' = [build EXCEPT !.phase = "payoff", !.keys = chain_keys \cup payoff.keys]
  /\ payoff' = IF payoff.status = "none" THEN [payoff EXCEPT !.status = "empty"] ELSE payoff
  /\ UNCHANGED <<chain, summary, manifest>>

OpenPayoff ==
  /\ build.phase = "payoff"
  /\ payoff' = [status |-> "torn", keys |-> {}, high |-> 0]
  /\ build' = [build EXCEPT !.phase = "payoffFile"]
  /\ UNCHANGED <<chain, summary, manifest>>

ClosePayoff ==
  /\ build.phase = "payoffFile"
  /\ payoff' = [status |-> "whole", keys |-> build.keys, high |-> FarTail(build.keys)]
  /\ build' = [build EXCEPT !.phase = "tree"]
  /\ UNCHANGED <<chain, summary, manifest>>

\* write_manifest reads the domain and the pairs off the tree.
ReadTree ==
  /\ build.phase = "tree"
  /\ Readable(chain)
  /\ Readable(summary)
  /\ build' = [build EXCEPT !.phase = "manifest"]
  /\ manifest' = IF manifest.status = "none"
                   THEN [manifest EXCEPT !.status = "empty"] ELSE manifest
  /\ UNCHANGED <<chain, summary, payoff>>

OpenManifest ==
  /\ build.phase = "manifest"
  /\ manifest' = [status |-> "torn", days |-> {}, high |-> 0]
  /\ build' = [build EXCEPT !.phase = "manifestFile"]
  /\ UNCHANGED <<chain, summary, payoff>>

CloseManifest ==
  /\ build.phase = "manifestFile"
  /\ manifest' = [status |-> "whole", days |-> Stored(chain) \cap Stored(summary),
                  high |-> payoff.high]
  /\ build' = Idle
  /\ UNCHANGED <<chain, summary, payoff>>

\* A scan that raises ends the build where it stands.
Raise ==
  /\ \/ build.phase = "days" /\ build.todo = {} /\ ~(Readable(chain) /\ PayoffReadable)
     \/ build.phase = "tree" /\ ~(Readable(chain) /\ Readable(summary))
  /\ build' = Idle
  /\ UNCHANGED tree

WriteStep ==
  \/ \E d \in Days : OpenChain(d) \/ CloseChain(d) \/ OpenSummary(d) \/ CloseSummary(d)
  \/ ReadKeys \/ OpenPayoff \/ ClosePayoff
  \/ ReadTree \/ OpenManifest

\* What a build ending means to the container, if it is the entry script's:
\* `set -e` ends the container with it, or the script goes on.
Build ==
  /\ \/ /\ WriteStep
        /\ UNCHANGED <<engine, done>>
     \/ /\ CloseManifest
        /\ engine' = IF engine = "building" THEN "checking" ELSE engine
        /\ done' = [dates |-> build.dates, version |-> build.version]
     \/ /\ Raise
        /\ engine' = IF engine = "building" THEN "down" ELSE engine
        /\ UNCHANGED done
  /\ covered' = covered \cup payoff'.keys
  /\ UNCHANGED <<runtimeCheck, bounds, rebuilt>>

------------------------------------------------------------------------------
(* The container, its entry script and the people around it. *)

\* The bug of resuming: the days a killed build wrote are not built again.
Start_resumes ==
  /\ engine = "down"
  /\ IF manifest.status \in {"none", "empty"}
       THEN engine' = "building" /\ Begin(Days \ Stored(chain))
       ELSE engine' = "checking" /\ UNCHANGED <<build, done>>
  /\ UNCHANGED <<tree, runtimeCheck, bounds, covered, rebuilt>>

\* The entry script tests for the manifest's file and builds every date when
\* it is not there.
Start ==
  /\ engine = "down"
  /\ IF manifest.status \in {"none", "empty"}
       THEN engine' = "building" /\ Begin(Days)
       ELSE engine' = "checking" /\ UNCHANGED <<build, done>>
  /\ UNCHANGED <<tree, runtimeCheck, bounds, covered, rebuilt>>

\* check(): is every stored day what this code derives now?
Reconciles == \A d \in Days : chain[d] = code /\ summary[d] = code

Check ==
  /\ engine = "checking"
  /\ engine' = IF runtimeCheck => Reconciles THEN "up" ELSE "down"
  /\ UNCHANGED <<tree, build, runtimeCheck, bounds, history>>

\* `python scripts/build_runtime.py [--dates=...]` beside a running engine.
HandBuild(dates) ==
  /\ engine = "up"
  /\ build.phase = "idle"
  /\ dates # {}
  /\ handBuilds < MaxHandBuilds
  /\ handBuilds' = handBuilds + 1
  /\ rebuilt' = TRUE
  /\ Begin(dates)
  /\ UNCHANGED <<tree, engine, runtimeCheck, code, crashes, covered>>

\* `docker compose stop`: uvicorn has replaced the script and ends by itself.
Stop ==
  /\ engine = "up"
  /\ build.phase = "idle"
  /\ engine' = "down"
  /\ UNCHANGED <<tree, build, runtimeCheck, bounds, history>>

\* The container is killed, and whatever runs in it.
Crash ==
  /\ engine # "down"
  /\ crashes < MaxCrashes
  /\ crashes' = crashes + 1
  /\ engine' = "down"
  /\ build' = Idle
  /\ UNCHANGED <<tree, runtimeCheck, code, handBuilds, history>>

\* A build started by hand is interrupted and the engine runs on.
Interrupt ==
  /\ engine = "up"
  /\ build.phase # "idle"
  /\ crashes < MaxCrashes
  /\ crashes' = crashes + 1
  /\ build' = Idle
  /\ UNCHANGED <<tree, engine, runtimeCheck, code, handBuilds, history>>

EditCode ==
  /\ code < MaxVersion
  /\ code' = code + 1
  /\ UNCHANGED <<tree, build, engine, runtimeCheck, crashes, handBuilds, history>>

Next ==
  \/ Build
  \/ Start
  \/ Check
  \/ \E dates \in SUBSET Days : HandBuild(dates)
  \/ Stop
  \/ Crash
  \/ Interrupt
  \/ EditCode

\* A process that is running goes on, and a container that has stopped is
\* started again.
Fairness == WF_vars(Build) /\ WF_vars(Check) /\ WF_vars(Start)

Spec == Init /\ [][Next]_vars

FairSpec == Spec /\ Fairness

------------------------------------------------------------------------------
\* What comes before the manifest is written: no file torn, and corners for
\* every strike any stored Chain quotes.
Derived ==
  /\ payoff.status = "whole"
  /\ Readable(chain) /\ Readable(summary)
  /\ chain_keys \subseteq payoff.keys

\* The four artifacts describe one tree: the manifest lists exactly the days
\* both partitioned datasets hold, and the domain the corners were written on.
Coherent ==
  /\ Derived
  /\ manifest.status = "whole"
  /\ manifest.days = Stored(chain) \cap Stored(summary)
  /\ manifest.high = payoff.high

OneVersion(v) == \A d \in Days : chain[d] = v /\ summary[d] = v

\* A build that finished has left a coherent tree, whichever dates it was asked
\* for and whatever earlier builds were killed in the middle of; and a build of
\* every date has left header and table from one derivation on every day
\* (build_runtime.py, main and write_manifest).
FinishedIsCoherent ==
  done # NoBuild =>
    /\ Coherent
    /\ done.dates = Days => OneVersion(done.version)

\* On a tree no one rebuilt by hand, the manifest's file means what the entry
\* script takes its mere existence to mean, through any number of crashes and
\* restarts: everything else is written, by one version of the code.  The file
\* itself may be torn, and one that can be read is true
\* (docker/engine-entry.sh:6).
ManifestMeansFinished ==
  (~rebuilt /\ manifest.status \in {"torn", "whole"}) =>
    /\ Derived
    /\ manifest.status = "whole" => Coherent
    /\ \E v \in Versions : OneVersion(v)

\* A day's Chain and its Summary are of two derivations, or one of them is not
\* there or cannot be read.
Parted(d) == chain[d] # summary[d] \/ chain[d] = Torn

\* A day is written whole before the next is begun, so however many days a
\* build rewrites and under whichever code, each kill parts the header and the
\* table of one day at most (build_runtime.py, write_day).
AKillPartsOneDay == Cardinality({d \in Days \ build.doing : Parted(d)}) <= crashes

\* A strike once covered is never dropped by a later, narrower build, even one
\* by newer code that no longer quotes it (build_runtime.py, stored_keys).
PayoffNeverNarrows == payoff.status = "whole" => covered \subseteq payoff.keys

\* Killing a build is survivable: however often it happens, the container is
\* eventually up again, unless the kill hit the Payoff artifact.
HealsUnlessPayoffUnreadable ==
  []<>(engine = "up" \/ runtimeCheck \/ ~PayoffReadable)

\* "Runtime tree half-written: Manifest absent (it is written last), so the tree
\* is rebuilt" (2026-08-31-dockerize-dev-environment-design.md:204), read for
\* progress: a half-written tree is rebuilt, so the container comes up however
\* a build was killed.
HalfWrittenHeals == []<>(engine = "up" \/ runtimeCheck)
==============================================================================
