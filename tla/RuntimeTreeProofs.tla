-------------------------- MODULE RuntimeTreeProofs --------------------------
(***************************************************************************)
(* What a build leaves on disk, for every set of days and strikes, every   *)
(* number of crashes, hand builds and versions of the code.                *)
(*                                                                         *)
(* The inductive invariant follows a build through its phases: what it has *)
(* already written is of its own version, what it has read off the tree is *)
(* still what the tree holds, and nothing but a build in progress or a     *)
(* killed one is ever half-written.                                        *)
(***************************************************************************)
EXTENDS RuntimeTree, FiniteSetTheorems, TLAPS

BetweenFiles == {"chain", "between", "summary"}
PayoffPhases == {"payoff", "payoffFile"}
PayoffWritten == {"tree", "manifest", "manifestFile"}
ManifestPhases == {"manifest", "manifestFile"}

\* The build's own bookkeeping.
BuildShape ==
  /\ build.phase = "idle" => build = Idle
  /\ build.phase # "idle" => build.version \in Versions /\ build.dates # {}
  /\ build.todo \subseteq build.dates
  /\ build.phase \in BetweenFiles => \E d \in build.dates : build.doing = {d}
  /\ build.phase \notin BetweenFiles => build.doing = {}
  /\ build.phase \in PayoffPhases \cup PayoffWritten => build.todo = {}

\* The days a running build is past are of its version in both datasets.
DaysWritten ==
  build.phase # "idle" =>
    /\ \A d \in build.dates \ (build.todo \cup build.doing) :
         chain[d] = build.version /\ summary[d] = build.version
    /\ build.phase \in {"between", "summary"} =>
         \A d \in build.doing : chain[d] = build.version

\* What the Payoff artifact holds, or will hold when its file is closed.
PayoffHolds ==
  /\ payoff.status # "whole" => payoff.keys = {}
  /\ payoff.status \in {"none", "empty"} => covered = {}
  /\ payoff.status = "whole" => covered \subseteq payoff.keys
  /\ build.phase \in PayoffPhases =>
       /\ Readable(chain)
       /\ chain_keys \subseteq build.keys
       /\ covered \subseteq build.keys
       /\ build.keys # {}
  /\ build.phase \in PayoffWritten =>
       /\ Readable(chain)
       /\ payoff.status = "whole"
       /\ chain_keys \subseteq payoff.keys
  /\ build.phase \in ManifestPhases => Readable(summary)

\* Who runs a build: the entry script builds every date, a running engine has
\* one beside it only when someone started it by hand.
WhoBuilds ==
  /\ engine = "building" => build.phase # "idle" /\ build.dates = Days
  /\ engine \in {"down", "checking"} => build.phase = "idle"
  /\ (engine = "up" /\ build.phase # "idle") => rebuilt

Finished ==
  /\ done # NoBuild => build.phase = "idle" /\ Coherent
  /\ (done # NoBuild /\ done.dates = Days) => OneVersion(done.version)

\* The manifest's file exists on a tree no one rebuilt by hand only while it is
\* being written, or once everything else is.
Marker ==
  (~rebuilt /\ manifest.status \in {"torn", "whole"}) =>
    /\ build.phase \in {"idle", "manifestFile"}
    /\ Derived
    /\ manifest.status = "whole" => build.phase = "idle" /\ Coherent
    /\ \E v \in Versions : OneVersion(v)

IInv ==
  /\ TypeOK
  /\ BuildShape
  /\ DaysWritten
  /\ PayoffHolds
  /\ WhoBuilds
  /\ Finished
  /\ Marker

------------------------------------------------------------------------------
LEMMA InitIInv == Init => IInv
<1> SUFFICES ASSUME Init PROVE IInv
  OBVIOUS
<1> USE DEF Init, Idle, NoBuild
<1>1. TypeOK
  <2>1. code \in Versions /\ crashes \in 0 .. MaxCrashes /\ handBuilds \in 0 .. MaxHandBuilds
    BY BoundsAssumption DEF Versions
  <2>2. chain \in [Days -> Partition] /\ summary \in [Days -> Partition]
    BY DEF Partition
  <2>3. payoff \in [status : FileStatus, keys : SUBSET Strikes, high : Highs]
    BY DEF FileStatus, Highs
  <2>4. manifest \in [status : FileStatus, days : SUBSET Days, high : Highs]
    BY DEF FileStatus, Highs
  <2>5. build \in [phase : Phases, dates : SUBSET Days, todo : SUBSET Days,
                   doing : SUBSET Days, version : Versions \cup {None},
                   keys : SUBSET Strikes]
    BY DEF Phases
  <2>. QED
    BY <2>1, <2>2, <2>3, <2>4, <2>5 DEF TypeOK
<1>2. BuildShape /\ DaysWritten /\ WhoBuilds /\ Finished /\ Marker
  BY DEF BuildShape, DaysWritten, WhoBuilds, Finished, Marker, BetweenFiles,
         PayoffPhases, PayoffWritten
<1>3. PayoffHolds
  BY DEF PayoffHolds, PayoffPhases, PayoffWritten, ManifestPhases
<1>. QED
  BY <1>1, <1>2, <1>3 DEF IInv

\* While a build runs no finished one is on record, and before its last file a
\* tree nobody rebuilt by hand has no manifest.
LEMMA Running ==
  ASSUME IInv, build.phase # "idle"
  PROVE  /\ done = NoBuild
         /\ (~rebuilt /\ build.phase # "manifestFile") =>
              manifest.status \notin {"torn", "whole"}
BY DEF IInv, Finished, Marker

\* A running build that leaves the manifest's file alone keeps what is said of
\* finished ones.
LEMMA StillRunning ==
  ASSUME IInv, build.phase \notin {"idle", "manifestFile"}, build'.phase # "idle",
         UNCHANGED <<engine, done, rebuilt>>, build'.dates = build.dates,
         manifest'.status \in {"torn", "whole"} => manifest'.status = manifest.status
  PROVE  WhoBuilds' /\ Finished' /\ Marker'
<1>1. done' = NoBuild /\ (~rebuilt' => manifest'.status \notin {"torn", "whole"})
  BY Running
<1>2. Finished' /\ Marker'
  BY <1>1 DEF Finished, Marker, NoBuild
<1>3. WhoBuilds'
  BY DEF IInv, WhoBuilds
<1>. QED
  BY <1>2, <1>3

\* What Build adds to each of its file operations.
Frame ==
  /\ covered' = covered \cup payoff'.keys
  /\ UNCHANGED <<runtimeCheck, code, crashes, handBuilds, rebuilt>>

LEMMA OpenChainIInv ==
  ASSUME IInv, NEW d \in Days, OpenChain(d), Frame, UNCHANGED <<engine, done>>
  PROVE  IInv'
<1> DEFINE D == {d}
<1>1. /\ build'.phase = "chain"
      /\ build'.doing = D
      /\ build'.todo = build.todo \ D
      /\ build'.dates = build.dates
      /\ build'.version = build.version
      /\ build'.keys = build.keys
  BY DEF IInv, TypeOK, OpenChain
<1>2. TypeOK'
  BY <1>1 DEF IInv, TypeOK, OpenChain, Frame, Partition, Phases
<1>3. BuildShape'
  BY <1>1 DEF IInv, TypeOK, BuildShape, OpenChain, BetweenFiles, PayoffPhases, PayoffWritten
<1>4. DaysWritten'
  BY <1>1 DEF IInv, TypeOK, BuildShape, DaysWritten, OpenChain, BetweenFiles
<1>5. PayoffHolds'
  BY <1>1 DEF IInv, PayoffHolds, OpenChain, Frame, PayoffPhases, PayoffWritten, ManifestPhases
<1>6. WhoBuilds' /\ Finished' /\ Marker'
  BY <1>1, StillRunning DEF OpenChain, Frame
<1>. QED
  BY <1>2, <1>3, <1>4, <1>5, <1>6 DEF IInv

LEMMA CloseChainIInv ==
  ASSUME IInv, NEW d \in Days, CloseChain(d), Frame, UNCHANGED <<engine, done>>
  PROVE  IInv'
<1>1. /\ build'.phase = "between"
      /\ build'.doing = build.doing
      /\ build'.todo = build.todo
      /\ build'.dates = build.dates
      /\ build'.version = build.version
      /\ build'.keys = build.keys
  BY DEF IInv, TypeOK, CloseChain
<1>2. build.doing = {d} /\ build.version \in Versions
  BY DEF IInv, BuildShape, CloseChain, BetweenFiles
<1>3. TypeOK'
  BY <1>1, <1>2 DEF IInv, TypeOK, CloseChain, Frame, Partition, Phases
<1>4. BuildShape'
  BY <1>1 DEF IInv, TypeOK, BuildShape, CloseChain, BetweenFiles, PayoffPhases, PayoffWritten
<1>5. DaysWritten'
  BY <1>1, <1>2 DEF IInv, TypeOK, BuildShape, DaysWritten, CloseChain, BetweenFiles
<1>6. PayoffHolds'
  BY <1>1 DEF IInv, PayoffHolds, CloseChain, Frame, PayoffPhases, PayoffWritten, ManifestPhases
<1>7. WhoBuilds' /\ Finished' /\ Marker'
  BY <1>1, StillRunning DEF CloseChain, Frame
<1>. QED
  BY <1>3, <1>4, <1>5, <1>6, <1>7 DEF IInv

LEMMA OpenSummaryIInv ==
  ASSUME IInv, NEW d \in Days, OpenSummary(d), Frame, UNCHANGED <<engine, done>>
  PROVE  IInv'
<1>1. /\ build'.phase = "summary"
      /\ build'.doing = build.doing
      /\ build'.todo = build.todo
      /\ build'.dates = build.dates
      /\ build'.version = build.version
      /\ build'.keys = build.keys
  BY DEF IInv, TypeOK, OpenSummary
<1>2. build.doing = {d}
  BY DEF IInv, BuildShape, OpenSummary, BetweenFiles
<1>3. TypeOK'
  BY <1>1 DEF IInv, TypeOK, OpenSummary, Frame, Partition, Phases
<1>4. BuildShape'
  BY <1>1 DEF IInv, TypeOK, BuildShape, OpenSummary, BetweenFiles, PayoffPhases, PayoffWritten
<1>5. DaysWritten'
  BY <1>1, <1>2 DEF IInv, TypeOK, BuildShape, DaysWritten, OpenSummary, BetweenFiles
<1>6. PayoffHolds'
  BY <1>1 DEF IInv, PayoffHolds, OpenSummary, Frame, PayoffPhases, PayoffWritten, ManifestPhases
<1>7. WhoBuilds' /\ Finished' /\ Marker'
  BY <1>1, StillRunning DEF OpenSummary, Frame
<1>. QED
  BY <1>3, <1>4, <1>5, <1>6, <1>7 DEF IInv

LEMMA CloseSummaryIInv ==
  ASSUME IInv, NEW d \in Days, CloseSummary(d), Frame, UNCHANGED <<engine, done>>
  PROVE  IInv'
<1>1. /\ build'.phase = "days"
      /\ build'.doing = {}
      /\ build'.todo = build.todo
      /\ build'.dates = build.dates
      /\ build'.version = build.version
      /\ build'.keys = build.keys
  BY DEF IInv, TypeOK, CloseSummary
<1>2. build.doing = {d} /\ build.version \in Versions
  BY DEF IInv, BuildShape, CloseSummary, BetweenFiles
<1>3. TypeOK'
  BY <1>1, <1>2 DEF IInv, TypeOK, CloseSummary, Frame, Partition, Phases
<1>4. BuildShape'
  BY <1>1 DEF IInv, TypeOK, BuildShape, CloseSummary, BetweenFiles, PayoffPhases, PayoffWritten
<1>5. DaysWritten'
  BY <1>1, <1>2 DEF IInv, TypeOK, BuildShape, DaysWritten, CloseSummary, BetweenFiles
<1>6. PayoffHolds'
  BY <1>1 DEF IInv, PayoffHolds, CloseSummary, Frame, PayoffPhases, PayoffWritten, ManifestPhases
<1>7. WhoBuilds' /\ Finished' /\ Marker'
  BY <1>1, StillRunning DEF CloseSummary, Frame
<1>. QED
  BY <1>3, <1>4, <1>5, <1>6, <1>7 DEF IInv

\* The strikes of a readable Chain are strikes of the dataset.
LEMMA ChainKeysType ==
  ASSUME chain \in [Days -> Partition], Readable(chain)
  PROVE  chain_keys \subseteq Strikes
BY QuotedAssumption DEF chain_keys, Stored, Readable, Partition

\* A build that has written its days has strikes to cover.
LEMMA KeysExist ==
  ASSUME TypeOK, BuildShape, DaysWritten, build.phase = "days", build.todo = {}
  PROVE  chain_keys # {}
<1>1. build.version \in Versions /\ build.doing = {} /\ build.dates # {}
  BY DEF BuildShape, BetweenFiles
<1>2. PICK d \in build.dates : chain[d] = build.version
  BY <1>1 DEF DaysWritten
<1>3. d \in Days /\ chain[d] \in Versions
  BY <1>1, <1>2 DEF TypeOK
<1>4. chain[d] # None
  BY <1>3, BoundsAssumption DEF Versions, None
<1>5. d \in Stored(chain)
  BY <1>3, <1>4 DEF Stored
<1>6. Quoted[chain[d]][d] # {}
  BY <1>3, QuotedAssumption
<1>. QED
  BY <1>5, <1>6 DEF chain_keys

LEMMA ReadKeysIInv ==
  ASSUME IInv, ReadKeys, Frame, UNCHANGED <<engine, done>>
  PROVE  IInv'
<1>1. /\ build'.phase = "payoff"
      /\ build'.doing = build.doing
      /\ build'.todo = build.todo
      /\ build'.dates = build.dates
      /\ build'.version = build.version
      /\ build'.keys = chain_keys \cup payoff.keys
  BY DEF IInv, TypeOK, ReadKeys
<1>2. /\ payoff'.keys = payoff.keys
      /\ payoff'.high = payoff.high
      /\ payoff'.status = IF payoff.status = "none" THEN "empty" ELSE payoff.status
  BY DEF IInv, TypeOK, ReadKeys
<1>3. chain_keys \subseteq Strikes
  BY ChainKeysType DEF IInv, TypeOK, ReadKeys
<1>4. chain_keys # {}
  BY KeysExist DEF IInv, ReadKeys
<1>5. payoff' \in [status : FileStatus, keys : SUBSET Strikes, high : Highs]
  BY <1>2 DEF IInv, TypeOK, ReadKeys, FileStatus
<1>6. build' \in [phase : Phases, dates : SUBSET Days, todo : SUBSET Days,
                  doing : SUBSET Days, version : Versions \cup {None},
                  keys : SUBSET Strikes]
  BY <1>3 DEF IInv, TypeOK, ReadKeys, Phases
<1>7. covered \subseteq payoff.keys
  BY DEF IInv, PayoffHolds, ReadKeys, PayoffReadable
<1>8. TypeOK'
  BY <1>5, <1>6, <1>7 DEF IInv, TypeOK, ReadKeys, Frame
<1>9. BuildShape'
  BY <1>1 DEF IInv, TypeOK, BuildShape, ReadKeys, BetweenFiles, PayoffPhases, PayoffWritten
<1>10. DaysWritten'
  BY <1>1 DEF IInv, TypeOK, BuildShape, DaysWritten, ReadKeys, BetweenFiles
<1>11. chain_keys' = chain_keys /\ Readable(chain)'
  BY DEF ReadKeys, chain_keys, Stored, Readable
<1>12. covered' = covered \cup payoff.keys
  BY <1>2 DEF Frame
<1>13. PayoffHolds'
  BY <1>1, <1>2, <1>4, <1>7, <1>11, <1>12
     DEF IInv, PayoffHolds, ReadKeys, PayoffReadable, PayoffPhases, PayoffWritten, ManifestPhases
<1>14. WhoBuilds' /\ Finished' /\ Marker'
  BY <1>1, StillRunning DEF ReadKeys, Frame
<1>. QED
  BY <1>8, <1>9, <1>10, <1>13, <1>14 DEF IInv

LEMMA OpenPayoffIInv ==
  ASSUME IInv, OpenPayoff, Frame, UNCHANGED <<engine, done>>
  PROVE  IInv'
<1>1. /\ build'.phase = "payoffFile"
      /\ build'.doing = build.doing
      /\ build'.todo = build.todo
      /\ build'.dates = build.dates
      /\ build'.version = build.version
      /\ build'.keys = build.keys
  BY DEF IInv, TypeOK, OpenPayoff
<1>2. payoff'.status = "torn" /\ payoff'.keys = {} /\ payoff'.high = 0
  BY DEF OpenPayoff
<1>3. payoff' \in [status : FileStatus, keys : SUBSET Strikes, high : Highs]
  BY DEF OpenPayoff, FileStatus, Highs
<1>4. covered' = covered
  BY <1>2 DEF Frame
<1>5. TypeOK'
  BY <1>1, <1>3, <1>4 DEF IInv, TypeOK, OpenPayoff, Frame, Phases
<1>6. BuildShape'
  BY <1>1 DEF IInv, TypeOK, BuildShape, OpenPayoff, BetweenFiles, PayoffPhases, PayoffWritten
<1>7. DaysWritten'
  BY <1>1 DEF IInv, TypeOK, BuildShape, DaysWritten, OpenPayoff, BetweenFiles
<1>8. chain_keys' = chain_keys /\ Readable(chain)' = Readable(chain)
  BY DEF OpenPayoff, chain_keys, Stored, Readable
<1>9. PayoffHolds'
  BY <1>1, <1>2, <1>4, <1>8
     DEF IInv, PayoffHolds, OpenPayoff, PayoffPhases, PayoffWritten, ManifestPhases
<1>10. WhoBuilds' /\ Finished' /\ Marker'
  BY <1>1, StillRunning DEF OpenPayoff, Frame
<1>. QED
  BY <1>5, <1>6, <1>7, <1>9, <1>10 DEF IInv

LEMMA ClosePayoffIInv ==
  ASSUME IInv, ClosePayoff, Frame, UNCHANGED <<engine, done>>
  PROVE  IInv'
<1>1. /\ build'.phase = "tree"
      /\ build'.doing = build.doing
      /\ build'.todo = build.todo
      /\ build'.dates = build.dates
      /\ build'.version = build.version
      /\ build'.keys = build.keys
  BY DEF IInv, TypeOK, ClosePayoff
<1>2. payoff'.status = "whole" /\ payoff'.keys = build.keys /\ payoff'.high = FarTail(build.keys)
  BY DEF ClosePayoff
<1>3. /\ Readable(chain)
      /\ chain_keys \subseteq build.keys
      /\ covered \subseteq build.keys
      /\ build.keys # {}
      /\ build.keys \subseteq Strikes
  BY DEF IInv, TypeOK, PayoffHolds, ClosePayoff, PayoffPhases
<1>4. FarTail(build.keys) \in Highs
  BY <1>3 DEF Highs
<1>5. payoff' \in [status : FileStatus, keys : SUBSET Strikes, high : Highs]
  BY <1>3, <1>4 DEF ClosePayoff, FileStatus
<1>6. covered' = covered \cup build.keys
  BY <1>2 DEF Frame
<1>7. TypeOK'
  BY <1>1, <1>3, <1>5, <1>6 DEF IInv, TypeOK, ClosePayoff, Frame, Phases
<1>8. BuildShape'
  BY <1>1 DEF IInv, TypeOK, BuildShape, ClosePayoff, BetweenFiles, PayoffPhases, PayoffWritten
<1>9. DaysWritten'
  BY <1>1 DEF IInv, TypeOK, BuildShape, DaysWritten, ClosePayoff, BetweenFiles
<1>10. chain_keys' = chain_keys /\ Readable(chain)' = Readable(chain)
  BY DEF ClosePayoff, chain_keys, Stored, Readable
<1>11. PayoffHolds'
  BY <1>1, <1>2, <1>3, <1>6, <1>10 DEF PayoffHolds, PayoffPhases, PayoffWritten, ManifestPhases
<1>12. WhoBuilds' /\ Finished' /\ Marker'
  BY <1>1, StillRunning DEF ClosePayoff, Frame
<1>. QED
  BY <1>7, <1>8, <1>9, <1>11, <1>12 DEF IInv

LEMMA ReadTreeIInv ==
  ASSUME IInv, ReadTree, Frame, UNCHANGED <<engine, done>>
  PROVE  IInv'
<1>1. /\ build'.phase = "manifest"
      /\ build'.doing = build.doing
      /\ build'.todo = build.todo
      /\ build'.dates = build.dates
      /\ build'.version = build.version
      /\ build'.keys = build.keys
  BY DEF IInv, TypeOK, ReadTree
<1>2. /\ manifest'.days = manifest.days
      /\ manifest'.high = manifest.high
      /\ manifest'.status = IF manifest.status = "none" THEN "empty" ELSE manifest.status
  BY DEF IInv, TypeOK, ReadTree
<1>3. manifest' \in [status : FileStatus, days : SUBSET Days, high : Highs]
  BY <1>2 DEF IInv, TypeOK, ReadTree, FileStatus
<1>4. payoff.status = "whole" /\ covered \subseteq payoff.keys
  BY DEF IInv, PayoffHolds, ReadTree, PayoffWritten
<1>5. covered' = covered \cup payoff.keys
  BY DEF Frame, ReadTree
<1>6. TypeOK'
  BY <1>1, <1>3, <1>5 DEF IInv, TypeOK, ReadTree, Frame, Phases
<1>7. BuildShape'
  BY <1>1 DEF IInv, TypeOK, BuildShape, ReadTree, BetweenFiles, PayoffPhases, PayoffWritten
<1>8. DaysWritten'
  BY <1>1 DEF IInv, TypeOK, BuildShape, DaysWritten, ReadTree, BetweenFiles
<1>9. /\ chain_keys' = chain_keys
      /\ Readable(chain)' = Readable(chain)
      /\ Readable(summary)'
      /\ payoff' = payoff
  BY DEF ReadTree, chain_keys, Stored, Readable
<1>10. PayoffHolds'
  BY <1>1, <1>4, <1>5, <1>9
     DEF IInv, PayoffHolds, ReadTree, PayoffPhases, PayoffWritten, ManifestPhases
<1>11. WhoBuilds' /\ Finished' /\ Marker'
  BY <1>1, <1>2, StillRunning DEF ReadTree, Frame
<1>. QED
  BY <1>6, <1>7, <1>8, <1>10, <1>11 DEF IInv

LEMMA OpenManifestIInv ==
  ASSUME IInv, OpenManifest, Frame, UNCHANGED <<engine, done>>
  PROVE  IInv'
<1>1. /\ build'.phase = "manifestFile"
      /\ build'.doing = build.doing
      /\ build'.todo = build.todo
      /\ build'.dates = build.dates
      /\ build'.version = build.version
      /\ build'.keys = build.keys
  BY DEF IInv, TypeOK, OpenManifest
<1>2. manifest'.status = "torn"
  BY DEF OpenManifest
<1>3. manifest' \in [status : FileStatus, days : SUBSET Days, high : Highs]
  BY DEF OpenManifest, FileStatus, Highs
<1>4. covered' = covered \cup payoff.keys /\ payoff' = payoff
  BY DEF Frame, OpenManifest
<1>5. TypeOK'
  BY <1>1, <1>3, <1>4 DEF IInv, TypeOK, OpenManifest, Frame, Phases
<1>6. BuildShape'
  BY <1>1 DEF IInv, TypeOK, BuildShape, OpenManifest, BetweenFiles, PayoffPhases, PayoffWritten
<1>7. DaysWritten'
  BY <1>1 DEF IInv, TypeOK, BuildShape, DaysWritten, OpenManifest, BetweenFiles
<1>8. /\ chain_keys' = chain_keys
      /\ Readable(chain)' = Readable(chain)
      /\ Readable(summary)' = Readable(summary)
  BY DEF OpenManifest, chain_keys, Stored, Readable
<1>9. PayoffHolds'
  BY <1>1, <1>4, <1>8
     DEF IInv, PayoffHolds, OpenManifest, PayoffPhases, PayoffWritten, ManifestPhases
<1>10. WhoBuilds' /\ Finished'
  <2>1. done' = NoBuild
    BY Running DEF OpenManifest
  <2>. QED
    BY <1>1, <2>1 DEF IInv, WhoBuilds, Finished, OpenManifest, Frame, NoBuild
<1>11. Derived'
  BY <1>4, <1>8 DEF IInv, PayoffHolds, OpenManifest, Derived, PayoffWritten, ManifestPhases
<1>12. ASSUME ~rebuilt PROVE \E v \in Versions : OneVersion(v)'
  <2>1. build.dates = Days
    BY <1>12 DEF IInv, TypeOK, WhoBuilds, OpenManifest
  <2>2. build.todo = {} /\ build.doing = {} /\ build.version \in Versions
    BY DEF IInv, BuildShape, OpenManifest, BetweenFiles, PayoffWritten
  <2>3. \A d \in Days : chain[d] = build.version /\ summary[d] = build.version
    BY <2>1, <2>2 DEF IInv, DaysWritten, OpenManifest
  <2>4. OneVersion(build.version)'
    BY <1>1, <2>3 DEF OneVersion, OpenManifest
  <2>. QED
    BY <1>1, <2>2, <2>4
<1>13. Marker'
  BY <1>1, <1>2, <1>11, <1>12 DEF Marker, Frame
<1>. QED
  BY <1>5, <1>6, <1>7, <1>9, <1>10, <1>13 DEF IInv

\* The build comes to its end, and with it the tree is coherent.
LEMMA CloseManifestIInv ==
  ASSUME IInv, CloseManifest, Frame,
         engine' = IF engine = "building" THEN "checking" ELSE engine,
         done' = [dates |-> build.dates, version |-> build.version]
  PROVE  IInv'
<1>1. build' = Idle /\ UNCHANGED <<chain, summary, payoff>>
  BY DEF CloseManifest
<1>2. /\ manifest'.status = "whole"
      /\ manifest'.days = Stored(chain) \cap Stored(summary)
      /\ manifest'.high = payoff.high
  BY DEF CloseManifest
<1>3. manifest' \in [status : FileStatus, days : SUBSET Days, high : Highs]
  BY DEF IInv, TypeOK, CloseManifest, FileStatus, Stored
<1>4. /\ build.version \in Versions
      /\ build.dates # {}
      /\ build.todo = {}
      /\ build.doing = {}
  BY DEF IInv, BuildShape, CloseManifest, BetweenFiles, PayoffWritten
<1>5. \A d \in build.dates : chain[d] = build.version /\ summary[d] = build.version
  BY <1>4 DEF IInv, DaysWritten, CloseManifest
<1>6. /\ Readable(chain)
      /\ Readable(summary)
      /\ payoff.status = "whole"
      /\ chain_keys \subseteq payoff.keys
      /\ covered \subseteq payoff.keys
  BY DEF IInv, PayoffHolds, CloseManifest, PayoffWritten, ManifestPhases
<1>7. covered' = covered \cup payoff.keys
  BY <1>1 DEF Frame
<1>8. build' \in [phase : Phases, dates : SUBSET Days, todo : SUBSET Days,
                  doing : SUBSET Days, version : Versions \cup {None},
                  keys : SUBSET Strikes]
  BY <1>1 DEF Idle, Phases
<1>9. done' \in [dates : SUBSET Days, version : Versions \cup {None}]
  BY <1>4 DEF IInv, TypeOK
<1>10. TypeOK'
  BY <1>1, <1>3, <1>7, <1>8, <1>9 DEF IInv, TypeOK, Frame
<1>11. BuildShape' /\ DaysWritten'
  BY <1>1 DEF BuildShape, DaysWritten, Idle, BetweenFiles, PayoffPhases, PayoffWritten
<1>12. /\ chain_keys' = chain_keys
       /\ Readable(chain)' = Readable(chain)
       /\ Readable(summary)' = Readable(summary)
       /\ (Stored(chain) \cap Stored(summary))' = Stored(chain) \cap Stored(summary)
  BY <1>1 DEF chain_keys, Stored, Readable
<1>13. PayoffHolds'
  BY <1>1, <1>6, <1>7 DEF PayoffHolds, Idle, PayoffPhases, PayoffWritten, ManifestPhases
<1>14. WhoBuilds'
  BY <1>1 DEF IInv, TypeOK, WhoBuilds, Idle, CloseManifest, Frame
<1>15. Derived' /\ Coherent'
  BY <1>1, <1>2, <1>6, <1>12 DEF Coherent, Derived
<1>16. build.dates = Days => \A d \in Days : chain'[d] = build.version /\ summary'[d] = build.version
  BY <1>1, <1>5
<1>17. Finished'
  <2>1. done'.dates = build.dates /\ done'.version = build.version /\ build'.phase = "idle"
    BY <1>1 DEF Idle
  <2>2. done'.dates = Days => OneVersion(done.version)'
    BY <1>16, <2>1 DEF OneVersion
  <2>. QED
    BY <1>15, <2>1, <2>2 DEF Finished
<1>18. ~rebuilt => build.dates = Days
  BY DEF IInv, TypeOK, WhoBuilds, CloseManifest
<1>19. Marker'
  <2>1. ~rebuilt' => \E v \in Versions : OneVersion(v)'
    BY <1>4, <1>16, <1>18 DEF Frame, OneVersion
  <2>2. build'.phase = "idle"
    BY <1>1 DEF Idle
  <2>. QED
    BY <1>15, <2>1, <2>2 DEF Marker
<1>. QED
  BY <1>10, <1>11, <1>13, <1>14, <1>17, <1>19 DEF IInv

\* A build that ends without finishing leaves the tree as it stands: what is
\* said of the tree outside a build does not rest on the build.
LEMMA BuildDies ==
  ASSUME IInv, build' = Idle, UNCHANGED <<tree, done, rebuilt>>,
         covered' \subseteq covered \cup payoff.keys, engine' \in {"down", "up"}
  PROVE  BuildShape' /\ DaysWritten' /\ PayoffHolds' /\ WhoBuilds' /\ Finished' /\ Marker'
<1>1. UNCHANGED <<chain, summary, payoff, manifest, done, rebuilt>>
  BY DEF tree
<1>2. BuildShape' /\ DaysWritten' /\ WhoBuilds'
  BY DEF BuildShape, DaysWritten, WhoBuilds, Idle, BetweenFiles, PayoffPhases, PayoffWritten
<1>3. PayoffHolds'
  BY <1>1 DEF IInv, PayoffHolds, Idle, PayoffPhases, PayoffWritten, ManifestPhases
<1>4. /\ chain_keys' = chain_keys
      /\ Readable(chain)' = Readable(chain)
      /\ Readable(summary)' = Readable(summary)
      /\ (Stored(chain) \cap Stored(summary))' = Stored(chain) \cap Stored(summary)
  BY <1>1 DEF chain_keys, Stored, Readable
<1>5. Derived' = Derived /\ Coherent' = Coherent
  BY <1>1, <1>4 DEF Coherent, Derived
<1>6. /\ OneVersion(done.version) => OneVersion(done.version)'
      /\ \A v \in Versions : OneVersion(v) => OneVersion(v)'
  BY <1>1 DEF OneVersion
<1>7. Finished'
  <2>1. build' = Idle /\ Idle.phase = "idle"
    BY DEF Idle
  <2>. QED
    BY <1>1, <1>5, <1>6, <2>1 DEF IInv, Finished
<1>8. Marker'
  <2>1. build' = Idle /\ Idle.phase = "idle"
    BY DEF Idle
  <2>. QED
    BY <1>1, <1>5, <1>6, <2>1 DEF IInv, Marker
<1>. QED
  BY <1>2, <1>3, <1>7, <1>8

LEMMA IdleType ==
  Idle \in [phase : Phases, dates : SUBSET Days, todo : SUBSET Days,
            doing : SUBSET Days, version : Versions \cup {None}, keys : SUBSET Strikes]
BY DEF Idle, Phases

LEMMA RaiseIInv ==
  ASSUME IInv, Raise, Frame, UNCHANGED done,
         engine' = IF engine = "building" THEN "down" ELSE engine
  PROVE  IInv'
<1>1. build' = Idle /\ UNCHANGED tree
  BY DEF Raise
<1>2. engine' \in {"down", "up"}
  BY DEF IInv, TypeOK, WhoBuilds, Raise
<1>3. covered' = covered \cup payoff.keys
  BY <1>1 DEF Frame, tree
<1>4. TypeOK'
  BY <1>1, <1>2, <1>3, IdleType DEF IInv, TypeOK, Frame, tree
<1>. QED
  BY <1>1, <1>2, <1>3, <1>4, BuildDies DEF IInv, Frame

LEMMA BuildIInv == IInv /\ Build => IInv'
<1> SUFFICES ASSUME IInv, Build PROVE IInv'
  OBVIOUS
<1>1. Frame
  BY DEF Build, Frame, bounds
<1>2. CASE WriteStep /\ UNCHANGED <<engine, done>>
  BY <1>1, <1>2, OpenChainIInv, CloseChainIInv, OpenSummaryIInv, CloseSummaryIInv,
     ReadKeysIInv, OpenPayoffIInv, ClosePayoffIInv, ReadTreeIInv, OpenManifestIInv
     DEF WriteStep
<1>3. CASE /\ CloseManifest
           /\ engine' = IF engine = "building" THEN "checking" ELSE engine
           /\ done' = [dates |-> build.dates, version |-> build.version]
  BY <1>1, <1>3, CloseManifestIInv
<1>4. CASE /\ Raise
           /\ engine' = IF engine = "building" THEN "down" ELSE engine
           /\ UNCHANGED done
  BY <1>1, <1>4, RaiseIInv
<1>. QED
  BY <1>2, <1>3, <1>4 DEF Build

\* A build that begins has written nothing yet, and nothing is finished.
LEMMA BuildBegins ==
  ASSUME IInv, NEW dates \in SUBSET Days, dates # {}, build.phase = "idle", Begin(dates),
         UNCHANGED <<tree, covered>>,
         \/ engine' = "building" /\ dates = Days
         \/ engine' = "up" /\ rebuilt',
         ~rebuilt' => ~rebuilt /\ manifest.status \notin {"torn", "whole"}
  PROVE  BuildShape' /\ DaysWritten' /\ PayoffHolds' /\ WhoBuilds' /\ Finished' /\ Marker'
<1>1. /\ build'.phase = "days"
      /\ build'.dates = dates
      /\ build'.todo = dates
      /\ build'.doing = {}
      /\ build'.version = code
      /\ done' = NoBuild
      /\ UNCHANGED <<chain, summary, payoff, manifest, covered>>
  BY DEF Begin, Idle, tree
<1>2. BuildShape'
  BY <1>1 DEF IInv, TypeOK, BuildShape, BetweenFiles, PayoffPhases, PayoffWritten
<1>3. DaysWritten' /\ WhoBuilds' /\ Finished'
  BY <1>1 DEF DaysWritten, WhoBuilds, Finished, NoBuild
<1>4. PayoffHolds'
  BY <1>1 DEF IInv, PayoffHolds, PayoffPhases, PayoffWritten, ManifestPhases
<1>5. Marker'
  BY <1>1 DEF Marker
<1>. QED
  BY <1>2, <1>3, <1>4, <1>5

LEMMA BeginType ==
  ASSUME TypeOK, NEW dates \in SUBSET Days, Begin(dates)
  PROVE  /\ build' \in [phase : Phases, dates : SUBSET Days, todo : SUBSET Days,
                        doing : SUBSET Days, version : Versions \cup {None},
                        keys : SUBSET Strikes]
         /\ done' \in [dates : SUBSET Days, version : Versions \cup {None}]
BY DEF TypeOK, Begin, Idle, NoBuild, Phases

\* What no step outside a build touches.
LEMMA Untouched ==
  ASSUME IInv, UNCHANGED <<tree, build, history>>,
         \/ engine' = engine
         \/ build.phase = "idle" /\ engine' \in {"down", "checking", "up"}
  PROVE  BuildShape' /\ DaysWritten' /\ PayoffHolds' /\ WhoBuilds' /\ Finished' /\ Marker'
<1>1. UNCHANGED <<chain, summary, payoff, manifest, build, done, covered, rebuilt>>
  BY DEF tree, history
<1>2. BuildShape' /\ DaysWritten'
  BY <1>1 DEF IInv, BuildShape, DaysWritten
<1>3. /\ chain_keys' = chain_keys
      /\ Readable(chain)' = Readable(chain)
      /\ Readable(summary)' = Readable(summary)
      /\ (Stored(chain) \cap Stored(summary))' = Stored(chain) \cap Stored(summary)
  BY <1>1 DEF chain_keys, Stored, Readable
<1>4. PayoffHolds'
  BY <1>1, <1>3 DEF IInv, PayoffHolds
<1>5. WhoBuilds'
  BY <1>1 DEF IInv, WhoBuilds
<1>6. Derived' = Derived /\ Coherent' = Coherent
  BY <1>1, <1>3 DEF Coherent, Derived
<1>7. /\ OneVersion(done.version) => OneVersion(done.version)'
      /\ \A v \in Versions : OneVersion(v) => OneVersion(v)'
  BY <1>1 DEF OneVersion
<1>8. Finished'
  BY <1>1, <1>6, <1>7 DEF IInv, Finished
<1>9. Marker'
  BY <1>1, <1>6, <1>7 DEF IInv, Marker
<1>. QED
  BY <1>2, <1>4, <1>5, <1>8, <1>9

LEMMA StartIInv == IInv /\ Start => IInv'
<1> SUFFICES ASSUME IInv, Start PROVE IInv'
  OBVIOUS
<1>1. build.phase = "idle" /\ build' \in {build, build'}
  BY DEF IInv, WhoBuilds, Start
<1>2. CASE manifest.status \in {"none", "empty"}
  <2>1. engine' = "building" /\ Begin(Days)
    BY <1>2 DEF Start
  <2>2. TypeOK'
    BY <2>1, BeginType DEF IInv, TypeOK, Start, tree, bounds
  <2>3. Days # {} /\ UNCHANGED <<tree, covered, rebuilt>>
    BY DaysAssumption DEF Start
  <2>. QED
    BY <1>1, <1>2, <2>1, <2>2, <2>3, BuildBegins DEF IInv
<1>3. CASE manifest.status \notin {"none", "empty"}
  <2>1. engine' = "checking" /\ UNCHANGED <<tree, build, history>>
    BY <1>3 DEF Start, history
  <2>2. TypeOK'
    BY <2>1 DEF IInv, TypeOK, Start, tree, bounds, history
  <2>. QED
    BY <1>1, <2>1, <2>2, Untouched DEF IInv
<1>. QED
  BY <1>2, <1>3

LEMMA CheckIInv == IInv /\ Check => IInv'
<1> SUFFICES ASSUME IInv, Check PROVE IInv'
  OBVIOUS
<1>1. build.phase = "idle" /\ engine' \in {"up", "down"}
  BY DEF IInv, WhoBuilds, Check
<1>2. TypeOK'
  BY <1>1 DEF IInv, TypeOK, Check, tree, bounds, history
<1>. QED
  BY <1>1, <1>2, Untouched DEF IInv, Check

LEMMA StopIInv == IInv /\ Stop => IInv'
<1> SUFFICES ASSUME IInv, Stop PROVE IInv'
  OBVIOUS
<1>1. TypeOK'
  BY DEF IInv, TypeOK, Stop, tree, bounds, history
<1>. QED
  BY <1>1, Untouched DEF IInv, Stop

LEMMA HandBuildIInv ==
  ASSUME IInv, NEW dates \in SUBSET Days, HandBuild(dates)
  PROVE  IInv'
<1>1. handBuilds + 1 \in 0 .. MaxHandBuilds
  BY BoundsAssumption DEF IInv, TypeOK, HandBuild
<1>2. TypeOK'
  BY <1>1, BeginType DEF IInv, TypeOK, HandBuild, tree
<1>. QED
  BY <1>2, BuildBegins DEF IInv, HandBuild

LEMMA CrashIInv == IInv /\ (Crash \/ Interrupt) => IInv'
<1> SUFFICES ASSUME IInv, Crash \/ Interrupt PROVE IInv'
  OBVIOUS
<1>1. crashes + 1 \in 0 .. MaxCrashes
  BY BoundsAssumption DEF IInv, TypeOK, Crash, Interrupt
<1>2. /\ build' = Idle
      /\ UNCHANGED <<tree, runtimeCheck, code, handBuilds, history>>
      /\ crashes' = crashes + 1
      /\ engine' \in {"down", "up"}
  BY DEF Crash, Interrupt
<1>3. TypeOK'
  BY <1>1, <1>2, IdleType DEF IInv, TypeOK, tree, history
<1>. QED
  BY <1>2, <1>3, BuildDies DEF IInv, history

LEMMA EditCodeIInv == IInv /\ EditCode => IInv'
<1> SUFFICES ASSUME IInv, EditCode PROVE IInv'
  OBVIOUS
<1>1. code + 1 \in Versions
  BY BoundsAssumption DEF IInv, TypeOK, EditCode, Versions
<1>2. TypeOK'
  BY <1>1 DEF IInv, TypeOK, EditCode, tree, history
<1>. QED
  BY <1>2, Untouched DEF IInv, EditCode

LEMMA StutterIInv == IInv /\ UNCHANGED vars => IInv'
<1> SUFFICES ASSUME IInv, UNCHANGED vars PROVE IInv'
  OBVIOUS
<1>1. UNCHANGED <<tree, build, engine, history>>
  BY DEF vars
<1>2. TypeOK'
  BY DEF IInv, TypeOK, vars, tree, bounds, history
<1>. QED
  BY <1>1, <1>2, Untouched DEF IInv

------------------------------------------------------------------------------
LEMMA NextIInv == IInv /\ [Next]_vars => IInv'
<1> SUFFICES ASSUME IInv, [Next]_vars PROVE IInv'
  OBVIOUS
<1>1. CASE Build
  BY <1>1, BuildIInv
<1>2. CASE Start
  BY <1>2, StartIInv
<1>3. CASE Check
  BY <1>3, CheckIInv
<1>4. CASE \E dates \in SUBSET Days : HandBuild(dates)
  BY <1>4, HandBuildIInv
<1>5. CASE Stop
  BY <1>5, StopIInv
<1>6. CASE Crash \/ Interrupt
  BY <1>6, CrashIInv
<1>7. CASE EditCode
  BY <1>7, EditCodeIInv
<1>8. CASE UNCHANGED vars
  BY <1>8, StutterIInv
<1>. QED
  BY <1>1, <1>2, <1>3, <1>4, <1>5, <1>6, <1>7, <1>8 DEF Next

\* A kill adds one day at most to those whose two files are not of one
\* derivation; a build adds none but the one it is writing.
PartedDays == {d \in Days \ build.doing : Parted(d)}

LEMMA PartedFinite == IsFiniteSet(PartedDays)
BY DaysAssumption, FS_Subset DEF PartedDays

LEMMA FewerParted ==
  ASSUME TypeOK, AKillPartsOneDay, PartedDays' \subseteq PartedDays, UNCHANGED crashes
  PROVE  AKillPartsOneDay'
<1>1. IsFiniteSet(PartedDays) /\ IsFiniteSet(PartedDays')
  BY PartedFinite, FS_Subset
<1>2. Cardinality(PartedDays') <= Cardinality(PartedDays)
  BY <1>1, FS_Subset
<1>3. Cardinality(PartedDays) \in Nat /\ Cardinality(PartedDays') \in Nat
  BY <1>1, FS_CardinalityType
<1>. QED
  BY <1>2, <1>3 DEF TypeOK, AKillPartsOneDay, PartedDays

LEMMA BuildParts ==
  ASSUME IInv, Build
  PROVE  PartedDays' \subseteq PartedDays
<1>1. ASSUME NEW d \in Days, OpenChain(d) \/ CloseChain(d) \/ OpenSummary(d)
      PROVE  PartedDays' \subseteq PartedDays
  <2>1. build'.doing = {d}
    BY <1>1 DEF IInv, TypeOK, BuildShape, BetweenFiles, OpenChain, CloseChain, OpenSummary
  <2>2. build.doing \subseteq {d}
    BY <1>1 DEF IInv, BuildShape, BetweenFiles, OpenChain, CloseChain, OpenSummary
  <2>3. \A e \in Days \ {d} : chain'[e] = chain[e] /\ summary'[e] = summary[e]
    BY <1>1 DEF IInv, TypeOK, OpenChain, CloseChain, OpenSummary
  <2>. QED
    BY <2>1, <2>2, <2>3 DEF PartedDays, Parted
<1>2. ASSUME NEW d \in Days, CloseSummary(d)
      PROVE  PartedDays' \subseteq PartedDays
  <2>1. build.doing = {d} /\ build.version \in Versions
    BY <1>2 DEF IInv, BuildShape, BetweenFiles, CloseSummary
  <2>2. chain'[d] = build.version /\ summary'[d] = build.version
    BY <1>2, <2>1 DEF IInv, TypeOK, DaysWritten, CloseSummary
  <2>3. build.version # Torn
    BY <2>1, BoundsAssumption DEF Versions, Torn
  <2>4. \A e \in Days \ {d} : chain'[e] = chain[e] /\ summary'[e] = summary[e]
    BY <1>2 DEF IInv, TypeOK, CloseSummary
  <2>. QED
    BY <2>1, <2>2, <2>3, <2>4 DEF PartedDays, Parted
<1>3. ASSUME ReadKeys \/ OpenPayoff \/ ClosePayoff \/ ReadTree \/ OpenManifest
             \/ CloseManifest \/ Raise
      PROVE  PartedDays' \subseteq PartedDays
  <2>1. build.doing = {}
    BY <1>3 DEF IInv, BuildShape, BetweenFiles, ReadKeys, OpenPayoff, ClosePayoff, ReadTree,
                OpenManifest, CloseManifest, Raise
  <2>2. UNCHANGED <<chain, summary>>
    BY <1>3 DEF ReadKeys, OpenPayoff, ClosePayoff, ReadTree, OpenManifest, CloseManifest,
                Raise, tree
  <2>. QED
    BY <2>1, <2>2 DEF PartedDays, Parted
<1>. QED
  BY <1>1, <1>2, <1>3 DEF Build, WriteStep

LEMMA KillParts ==
  ASSUME IInv, AKillPartsOneDay, Crash \/ Interrupt
  PROVE  AKillPartsOneDay'
<1>1. build' = Idle /\ crashes' = crashes + 1 /\ UNCHANGED <<chain, summary>>
  BY DEF Crash, Interrupt, tree
<1>2. PICK d : build.doing \subseteq {d}
  BY DEF IInv, BuildShape
<1>3. PartedDays' \subseteq PartedDays \cup {d}
  BY <1>1, <1>2 DEF PartedDays, Parted, Idle
<1>4. /\ IsFiniteSet(PartedDays \cup {d})
      /\ Cardinality(PartedDays \cup {d}) <= Cardinality(PartedDays) + 1
  <2>1. IsFiniteSet(PartedDays)
    BY PartedFinite
  <2>2. Cardinality(PartedDays) \in Nat
    BY <2>1, FS_CardinalityType
  <2>3. /\ IsFiniteSet(PartedDays \cup {d})
        /\ \/ Cardinality(PartedDays \cup {d}) = Cardinality(PartedDays)
           \/ Cardinality(PartedDays \cup {d}) = Cardinality(PartedDays) + 1
    BY <2>1, FS_AddElement, Zenon
  <2>. QED
    BY <2>2, <2>3
<1>5. Cardinality(PartedDays') <= Cardinality(PartedDays \cup {d})
  BY <1>3, <1>4, FS_Subset
<1>6. /\ Cardinality(PartedDays) \in Nat
      /\ Cardinality(PartedDays \cup {d}) \in Nat
      /\ Cardinality(PartedDays') \in Nat
  BY <1>3, <1>4, PartedFinite, FS_Subset, FS_CardinalityType
<1>. QED
  BY <1>1, <1>4, <1>5, <1>6 DEF IInv, TypeOK, AKillPartsOneDay, PartedDays

LEMMA NextParts == IInv /\ AKillPartsOneDay /\ [Next]_vars => AKillPartsOneDay'
<1> SUFFICES ASSUME IInv, AKillPartsOneDay, [Next]_vars PROVE AKillPartsOneDay'
  OBVIOUS
<1>1. CASE Build
  BY <1>1, BuildParts, FewerParted DEF IInv, Build, bounds
<1>2. CASE Crash \/ Interrupt
  BY <1>2, KillParts
<1>3. CASE Start \/ \E dates \in SUBSET Days : HandBuild(dates)
  <2>1. build.phase = "idle"
    BY <1>3 DEF IInv, WhoBuilds, Start, HandBuild
  <2>2. build' = build \/ build'.doing = {}
    BY <1>3 DEF Start, HandBuild, Begin, Idle
  <2>3. UNCHANGED <<chain, summary, crashes>>
    BY <1>3 DEF Start, HandBuild, tree, bounds
  <2>4. build.doing = {}
    BY <2>1 DEF IInv, BuildShape, BetweenFiles
  <2>5. PartedDays' \subseteq PartedDays
    BY <2>2, <2>3, <2>4 DEF PartedDays, Parted
  <2>. QED
    BY <2>3, <2>5, FewerParted DEF IInv
<1>4. CASE Check \/ Stop \/ EditCode \/ UNCHANGED vars
  <2>1. UNCHANGED <<chain, summary, build, crashes>>
    BY <1>4 DEF Check, Stop, EditCode, vars, tree, bounds
  <2>2. PartedDays' \subseteq PartedDays
    BY <2>1 DEF PartedDays, Parted
  <2>. QED
    BY <2>1, <2>2, FewerParted DEF IInv
<1>. QED
  BY <1>1, <1>2, <1>3, <1>4 DEF Next

LEMMA InitParts == Init => AKillPartsOneDay
<1> SUFFICES ASSUME Init PROVE AKillPartsOneDay
  OBVIOUS
<1>1. PartedDays = {}
  BY DEF Init, PartedDays, Parted, None, Torn
<1>. QED
  BY <1>1, FS_EmptySet DEF Init, AKillPartsOneDay, PartedDays

\* The inductive invariant holds throughout.
THEOREM Invariance == Spec => []IInv
BY InitIInv, NextIInv, PTL DEF Spec

\* Every variable keeps its type, whatever the dataset and however often a
\* build is killed (scripts/build_runtime.py).
THEOREM TypeCorrect == Spec => []TypeOK
<1>1. IInv => TypeOK
  BY DEF IInv
<1>. QED
  BY <1>1, Invariance, PTL

\* A build that finished has left a coherent tree, for any dates, any earlier
\* tree and any crashes before it (build_runtime.py, main).
THEOREM FinishedAlwaysCoherent == Spec => []FinishedIsCoherent
<1>1. IInv => FinishedIsCoherent
  BY DEF IInv, Finished, FinishedIsCoherent
<1>. QED
  BY <1>1, Invariance, PTL

\* Writing the manifest last is enough: on a tree no one rebuilt by hand, its
\* file exists only when everything else is written (docker/engine-entry.sh).
THEOREM ManifestAlwaysMeansFinished == Spec => []ManifestMeansFinished
<1>1. IInv => ManifestMeansFinished
  BY DEF IInv, Marker, ManifestMeansFinished
<1>. QED
  BY <1>1, Invariance, PTL

\* Writing a day whole before the next is enough: header and table are parted
\* on one day at most for each kill, for any number of days and of builds by any
\* versions of the code (build_runtime.py, write_day).
THEOREM AKillAlwaysPartsOneDay == Spec => []AKillPartsOneDay
BY InitParts, NextParts, Invariance, PTL DEF Spec

\* Reading the stored keys first is enough: no build drops a strike an earlier
\* one covered (build_runtime.py, stored_keys).
THEOREM PayoffNeverEverNarrows == Spec => []PayoffNeverNarrows
<1>1. IInv => PayoffNeverNarrows
  BY DEF IInv, PayoffHolds, PayoffNeverNarrows
<1>. QED
  BY <1>1, Invariance, PTL
==============================================================================
