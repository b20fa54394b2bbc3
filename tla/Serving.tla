------------------------------- MODULE Serving -------------------------------
(***************************************************************************)
(* What a serving process remembers: the mirror of an S3 tree that         *)
(* outlives it (src/payoff/store.py), and the caches that do not           *)
(* (catalog.pairs, strategy.corner_points and forward_domain, and chain's  *)
(* reads of a day).                                                        *)
(*                                                                         *)
(* A file is the generation of the build that wrote it; each generation    *)
(* lists a day more than the last, while there are days.  Requests are     *)
(* handled on threads of their own.  A cache runs the function it wraps    *)
(* outside any lock: two threads that miss both read, and the first to     *)
(* finish is remembered.  One (date, Expiry) pair stands for a day, and    *)
(* one minute of it for the minutes.                                       *)
(***************************************************************************)
EXTENDS Integers, Sequences, SequencesExt

CONSTANTS
  Requests,       \* the threads
  LastDay,        \* bound: days the dataset holds
  MaxGeneration,  \* bound: builds
  Uploads,        \* bound: objects put into a bucket at a time
  MaxFaults       \* bound: kills of the process and failures of a download

ASSUME BoundsAssumption ==
  /\ LastDay \in Nat \ {0} /\ MaxGeneration \in Nat \ {0}
  /\ Uploads \in Nat \ {0} /\ MaxFaults \in Nat

Days == 1..LastDay
None == 0
Torn == -1
Generations == 1..MaxGeneration

\* The days a generation's manifest lists.
Listed(generation) == {d \in Days : d <= generation}

\* The objects of a tree, in the order a bucket lists them.
Listing == [d \in Days |-> <<"chain", d>>]
           \o <<<<"manifest", 0>>, <<"payoff", 0>>>> \o [d \in Days |-> <<"summary", d>>]
Objects == ToSet(Listing)

\* The files of a build, in the order it writes them (scripts/build_runtime.py).
Written ==
  [generation \in Generations |->
     [i \in 1..(2 * Cardinality(Listed(generation))) |->
        <<IF i % 2 = 1 THEN "chain" ELSE "summary", (i + 1) \div 2>>]
     \o <<<<"payoff", 0>>, <<"manifest", 0>>>>]

\* What each cache is a reading of.
ReadingOf(key) ==
  CASE key[1] = "slice" -> <<"chain", key[2]>>
    [] key[1] = "header" -> <<"summary", key[2]>>
    [] key[1] = "corners" -> <<"payoff", 0>>
    [] OTHER -> <<"manifest", 0>>

Partitioned == {"slice", "header"} \X Days
Keys == Partitioned \cup {<<"pairs", 0>>, <<"domain", 0>>, <<"corners", 0>>}

VARIABLES
  remote,   \* does PAYOFF_RUNTIME name a bucket?
  source,   \* the tree it names
  build,    \* the build being written there: its generation, and the files left
  mirror,   \* CACHE_ROOT
  cleared,  \* history: the build in the bucket when the mirror was last cleared,
            \* or None if one was under way
  up, root, \* is the process up, and runtime_root remembered?
  cache,    \* what it remembers of each key, or None
  ask,      \* what each thread is doing
  atStart,  \* history: the last build that was whole when the process started
  beside,   \* history: was the tree written to while it was read into the process?
            \* A directory, since the process started; a bucket, before a download
            \* into a mirror that was not cleared after it.
  faults

vars == <<remote, source, build, mirror, cleared, up, root, cache, ask, atStart, beside, faults>>

Idle == [at |-> "idle", day |-> 0, todo |-> <<>>, got |-> {}, value |-> None,
         listed |-> {}, next |-> 1]

TypeOK ==
  /\ remote \in BOOLEAN /\ beside \in BOOLEAN
  /\ cleared \in {None} \cup Generations /\ atStart \in Generations
  /\ up \in BOOLEAN /\ root \in BOOLEAN
  /\ source \in [Objects -> {None, Torn} \cup Generations]
  /\ build.generation \in Generations /\ build.left \in Seq(Objects)
  /\ mirror \in [Objects -> {None} \cup Generations]
  /\ cache \in [Keys -> {None} \cup Generations]
  /\ \A r \in Requests :
       /\ ask[r].at \in {"idle", "list", "fetch", "load", "read", "miss", "insert",
                         "done", "unknown", "refused"}
       /\ ask[r].day \in {0} \cup Days
       /\ ask[r].todo \in Seq(Keys)
       /\ ask[r].got \subseteq Keys \X Generations
       /\ ask[r].value \in {None} \cup Generations
       /\ ask[r].listed \subseteq Objects
       /\ ask[r].next \in 1..(Len(Listing) + 1)
  /\ faults \in 0..MaxFaults

Init ==
  /\ remote \in BOOLEAN
  /\ source = [o \in Objects |-> IF o \in ToSet(Written[1]) THEN 1 ELSE None]
  /\ build = [generation |-> 1, left |-> <<>>]
  /\ mirror = [o \in Objects |-> None]
  /\ cleared = 1 /\ atStart = 1 /\ beside = FALSE
  /\ up = FALSE /\ root = FALSE
  /\ cache = [k \in Keys |-> None]
  /\ ask = [r \in Requests |-> Idle]
  /\ faults = 0

------------------------------------------------------------------------------
(* The tree and who writes it. *)

\* The bug of scanning the bucket itself once it has been mirrored.
tree_scannedRemotely == source

tree == IF remote THEN mirror ELSE source

\* The last build that is whole.
Complete == IF build.left = <<>> THEN build.generation ELSE build.generation - 1

\* Nothing but its operator keeps a tree from being rebuilt while it is read.
StartBuild ==
  /\ build.left = <<>> /\ build.generation < MaxGeneration
  /\ build' = [generation |-> build.generation + 1, left |-> Written[build.generation + 1]]
  /\ beside' = (beside \/ (up /\ ~remote))
  /\ UNCHANGED <<remote, source, mirror, cleared, up, root, cache, ask, atStart, faults>>

OpenFile ==
  /\ ~remote /\ build.left # <<>> /\ source[Head(build.left)] # Torn
  /\ source' = [source EXCEPT ![Head(build.left)] = Torn]
  /\ UNCHANGED <<remote, build, mirror, cleared, up, root, cache, ask, atStart, beside, faults>>

CloseFile ==
  /\ ~remote /\ build.left # <<>> /\ source[Head(build.left)] = Torn
  /\ source' = [source EXCEPT ![Head(build.left)] = build.generation]
  /\ build' = [build EXCEPT !.left = Tail(@)]
  /\ UNCHANGED <<remote, mirror, cleared, up, root, cache, ask, atStart, beside, faults>>

\* An object of a bucket is replaced whole, and some are put at a time.
PutObject ==
  /\ remote
  /\ \E i \in DOMAIN build.left :
       /\ i <= Uploads
       /\ source' = [source EXCEPT ![build.left[i]] = build.generation]
       /\ build' = [build EXCEPT !.left = RemoveAt(@, i)]
  /\ UNCHANGED <<remote, mirror, cleared, up, root, cache, ask, atStart, beside, faults>>

\* "If the bucket is rebuilt the cache is cleared, which is a deployment step":
\* taken between two processes, when the operator takes it.
Clear ==
  /\ remote /\ ~up
  /\ mirror' = [o \in Objects |-> None]
  /\ cleared' = IF build.left = <<>> THEN build.generation ELSE None
  /\ beside' = FALSE
  /\ UNCHANGED <<remote, source, build, up, root, cache, ask, atStart, faults>>

Start ==
  /\ ~up
  /\ up' = TRUE
  /\ atStart' = Complete
  /\ beside' = IF remote THEN beside ELSE build.left # <<>>
  /\ UNCHANGED <<remote, source, build, mirror, cleared, root, cache, ask, faults>>

Kill ==
  /\ up /\ faults < MaxFaults
  /\ up' = FALSE /\ root' = FALSE
  /\ cache' = [k \in Keys |-> None]
  /\ ask' = [r \in Requests |-> Idle]
  /\ faults' = faults + 1
  /\ UNCHANGED <<remote, source, build, mirror, cleared, atStart, beside>>

------------------------------------------------------------------------------
(* A request, a read at a time. *)

\* The bug of the corners read before the bounds they are laid between.
reads_cornersFirst(d) ==
  <<<<"pairs", 0>>, <<"slice", d>>, <<"header", d>>, <<"corners", 0>>, <<"domain", 0>>>>

\* What /analyse reads, in its order.  (/chain and /summary read part of it, and
\* /session the same files through caches of its own.)
reads(d) ==
  <<<<"pairs", 0>>, <<"slice", d>>, <<"header", d>>, <<"domain", 0>>, <<"corners", 0>>>>

\* Which day is asked for is of no account before the root is known.
Begins(r) ==
  \E d \in Days : ask' = [ask EXCEPT ![r] = [Idle EXCEPT !.at = "read", !.day = d, !.todo = reads(d)]]

\* The bug of a root that is remembered while it is still being fetched.
Ask_remembersTheRoot(r) ==
  /\ up /\ ask[r].at = "idle"
  /\ IF root \/ ~remote THEN Begins(r) ELSE ask' = [ask EXCEPT ![r] = [Idle EXCEPT !.at = "list"]]
  /\ root' = TRUE
  /\ UNCHANGED <<remote, source, build, mirror, cleared, up, cache, atStart, beside, faults>>

\* A request comes in, and asks runtime_root first.
Ask(r) ==
  /\ up /\ ask[r].at = "idle"
  /\ IF root \/ ~remote THEN Begins(r) ELSE ask' = [ask EXCEPT ![r] = [Idle EXCEPT !.at = "list"]]
  /\ root' = (root \/ ~remote)
  /\ UNCHANGED <<remote, source, build, mirror, cleared, up, cache, atStart, beside, faults>>

\* The bucket is listed once, before anything is downloaded.
ListObjects(r) ==
  /\ ask[r].at = "list"
  /\ ask' = [ask EXCEPT ![r] = [@ EXCEPT !.at = "fetch", !.listed = {o \in Objects : source[o] # None}]]
  /\ UNCHANGED <<remote, source, build, mirror, cleared, up, root, cache, atStart, beside, faults>>

\* fetch's loop: an object that is here already is not fetched again, and the
\* others as they are by then, not as they were listed.
Fetch(r) ==
  /\ ask[r].at = "fetch" /\ ask[r].next <= Len(Listing)
  /\ LET o == Listing[ask[r].next]
     IN  IF o \notin ask[r].listed \/ mirror[o] # None
           THEN /\ ask' = [ask EXCEPT ![r].next = @ + 1]
                /\ UNCHANGED beside
           ELSE /\ ask' = [ask EXCEPT ![r] = [@ EXCEPT !.at = "load", !.value = source[o]]]
                /\ beside' = (beside \/ cleared # build.generation)
  /\ UNCHANGED <<remote, source, build, mirror, cleared, up, root, cache, atStart, faults>>

\* download_file writes beside and renames: nothing half downloaded is there.
Load(r) ==
  /\ ask[r].at = "load"
  /\ mirror' = [mirror EXCEPT ![Listing[ask[r].next]] = ask[r].value]
  /\ ask' = [ask EXCEPT ![r] = [@ EXCEPT !.at = "fetch", !.value = None,
                                               !.next = ask[r].next + 1]]
  /\ UNCHANGED <<remote, source, build, cleared, up, root, cache, atStart, beside, faults>>

LoadFails(r) ==
  /\ ask[r].at = "load" /\ faults < MaxFaults
  /\ ask' = [ask EXCEPT ![r] = [Idle EXCEPT !.at = "refused"]]
  /\ faults' = faults + 1
  /\ UNCHANGED <<remote, source, build, mirror, cleared, up, root, cache, atStart, beside>>

Fetched(r) ==
  /\ ask[r].at = "fetch" /\ ask[r].next > Len(Listing)
  /\ root' = TRUE
  /\ Begins(r)
  /\ UNCHANGED <<remote, source, build, mirror, cleared, up, cache, atStart, beside, faults>>

\* What a thread has once it holds a key's value.
Took(record, value) ==
  [record EXCEPT !.at = IF Len(record.todo) = 1 THEN "done" ELSE "read",
                 !.todo = Tail(@), !.got = @ \cup {<<Head(record.todo), value>>},
                 !.value = None]

\* catalog.require, over the manifest this process remembers.
required(record) ==
  Head(record.todo) \in Partitioned =>
    \A pair \in record.got : pair[1] = <<"pairs", 0>> => record.day \in Listed(pair[2])

Remembered(r) ==
  /\ ask[r].at = "read" /\ required(ask[r]) /\ cache[Head(ask[r].todo)] # None
  /\ ask' = [ask EXCEPT ![r] = Took(@, cache[Head(ask[r].todo)])]
  /\ UNCHANGED <<remote, source, build, mirror, cleared, up, root, cache, atStart, beside, faults>>

\* NotStored: a 404 naming what there is.
Unknown(r) ==
  /\ ask[r].at = "read" /\ ~required(ask[r])
  /\ ask' = [ask EXCEPT ![r] = [Idle EXCEPT !.at = "unknown"]]
  /\ UNCHANGED <<remote, source, build, mirror, cleared, up, root, cache, atStart, beside, faults>>

missing(r) == tree[ReadingOf(Head(ask[r].todo))] \in {None, Torn}

\* A day's reads are a bounded number of entries: one may have been dropped.
Miss(r) ==
  /\ ask[r].at = "read" /\ required(ask[r])
  /\ cache[Head(ask[r].todo)] = None \/ Head(ask[r].todo) \in Partitioned
  /\ cache' = [cache EXCEPT ![Head(ask[r].todo)] = None]
  /\ ask' = [ask EXCEPT ![r].at = "miss"]
  /\ UNCHANGED <<remote, source, build, mirror, cleared, up, root, atStart, beside, faults>>

\* The bug of a cache that remembers what was not there.
Read_remembersTheRefusal(r) ==
  /\ ask[r].at = "miss"
  /\ IF missing(r)
       THEN /\ ask' = [ask EXCEPT ![r] = [Idle EXCEPT !.at = "refused"]]
            /\ cache' = [cache EXCEPT ![Head(ask[r].todo)] = Torn]
       ELSE /\ ask' = [ask EXCEPT ![r] = [@ EXCEPT !.at = "insert",
                                                   !.value = tree[ReadingOf(Head(ask[r].todo))]]]
            /\ UNCHANGED cache
  /\ UNCHANGED <<remote, source, build, mirror, cleared, up, root, atStart, beside, faults>>

\* A file that is not there, or not whole, raises; nothing remembers it.
Read(r) ==
  /\ ask[r].at = "miss"
  /\ ask' = [ask EXCEPT ![r] =
               IF missing(r) THEN [Idle EXCEPT !.at = "refused"]
               ELSE [@ EXCEPT !.at = "insert", !.value = tree[ReadingOf(Head(ask[r].todo))]]]
  /\ UNCHANGED <<remote, source, build, mirror, cleared, up, root, cache, atStart, beside, faults>>

Insert(r) ==
  /\ ask[r].at = "insert"
  /\ \/ cache' = [cache EXCEPT ![Head(ask[r].todo)] = IF @ = None THEN ask[r].value ELSE @]
     \/ Head(ask[r].todo) \in Partitioned /\ cache' = [cache EXCEPT ![Head(ask[r].todo)] = ask[r].value]
  /\ ask' = [ask EXCEPT ![r] = Took(@, ask[r].value)]
  /\ UNCHANGED <<remote, source, build, mirror, cleared, up, root, atStart, beside, faults>>

Deliver(r) ==
  /\ ask[r].at \in {"done", "unknown", "refused"}
  /\ ask' = [ask EXCEPT ![r] = Idle]
  /\ UNCHANGED <<remote, source, build, mirror, cleared, up, root, cache, atStart, beside, faults>>

Handle(r) ==
  \/ ListObjects(r) \/ Fetch(r) \/ Load(r) \/ Fetched(r)
  \/ Remembered(r) \/ Unknown(r) \/ Miss(r) \/ Read(r) \/ Insert(r) \/ Deliver(r)

Writes == OpenFile \/ CloseFile \/ PutObject

Next ==
  \/ StartBuild \/ Writes \/ Clear \/ Start \/ Kill
  \/ \E r \in Requests : Ask(r) \/ LoadFails(r) \/ Handle(r)

Spec == Init /\ [][Next]_vars

------------------------------------------------------------------------------
\* The tree named is one generation, whole.
Whole ==
  /\ build.left = <<>>
  /\ \A i \in DOMAIN Written[build.generation] :
       source[Written[build.generation][i]] = build.generation

\* "The store is immutable for the life of the process" (catalog.pairs,
\* minute_slice): every answer is of one build, whatever was mirrored before a
\* crash, evicted or remembered, unless the tree was written to while it was
\* read into the process.  A bucket rebuilt under a process that has mirrored it
\* changes none of its answers, nor does one rebuilt before a process that finds
\* all it lists mirrored already, or a mirror that was cleared.  And a restart is
\* all a directory needs: rebuilt at whatever time, nothing of an answer is older
\* than the build that was whole when the process started.
AnswersAreOfOneBuild ==
  \A r \in Requests : ask[r].at = "done" =>
    /\ ~beside => \A one, other \in ask[r].got : one[2] = other[2]
    /\ ~remote => \A one \in ask[r].got : atStart <= one[2]

\* The reader never interpolates past the outermost stored corner
\* (forward_domain: "a smooth, plausible line rather than an exception"): even
\* where a build widened the domain of a directory while it was read, the
\* corners a process remembers are no older than the bounds it remembers.
CornersSpanTheDomain ==
  /\ ~(remote /\ beside)
  /\ cache[<<"domain", 0>>] # None /\ cache[<<"corners", 0>>] # None
  => cache[<<"domain", 0>>] <= cache[<<"corners", 0>>]

\* Nothing is called missing because the mirror is not complete yet, nor because
\* it was missing once (MissingManifest: "re-running the build is the fix").  Of
\* a directory, a request is refused for a file only while the tree itself is
\* not whole; of a bucket, only where it was rebuilt while it was mirrored.  And
\* a day is said not to be built only where the tree did not list it when the
\* process started.
NothingMissingIsInvented ==
  [][\A r \in Requests :
       /\ ask[r].at = "miss" /\ ask'[r].at = "refused" => IF remote THEN beside ELSE ~Whole
       /\ ask[r].at = "read" /\ ask'[r].at = "unknown" =>
            (remote /\ beside) \/ ask[r].day \notin Listed(atStart)]_vars
==============================================================================
