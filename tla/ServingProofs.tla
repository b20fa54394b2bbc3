---------------------------- MODULE ServingProofs ----------------------------
(***************************************************************************)
(* Theorems about Serving, for any threads, any number of days, builds,    *)
(* uploads and faults: an answer is of one build unless the tree was       *)
(* written to while it was read into the process, the corners span the     *)
(* domain, and nothing is called missing that the process should find.     *)
(***************************************************************************)
EXTENDS Serving, SequenceTheorems, FiniteSetTheorems, TLAPS

USE BoundsAssumption

manifest == <<"manifest", 0>>
payoff == <<"payoff", 0>>

\* What a build leaves in the tree.
Files(generation) == ToSet(Written[generation])

------------------------------------------------------------------------------
(* The tree's objects and a build's files. *)

\* A generation lists the first days, at least one.
LEMMA ListedDays ==
  ASSUME NEW generation \in Generations
  PROVE  /\ Cardinality(Listed(generation)) \in Nat \ {0}
         /\ Listed(generation) = 1..Cardinality(Listed(generation))
<1>. DEFINE n == IF generation <= LastDay THEN generation ELSE LastDay
<1>1. n \in Nat \ {0} /\ generation \in Nat
  BY DEF Generations
<1>2. Listed(generation) = 1..n
  BY <1>1 DEF Listed, Days
<1>. HIDE DEF n
<1>3. Cardinality(1..n) = n
  BY <1>1, FS_Interval
<1>. QED
  BY <1>1, <1>2, <1>3

\* What is written after something else follows it.
LEMMA Joined ==
  ASSUME NEW S, NEW s \in Seq(S), NEW t \in Seq(S)
  PROVE  /\ s \o t \in Seq(S) /\ Len(s \o t) = Len(s) + Len(t)
         /\ \A i \in 1..Len(s) : (s \o t)[i] = s[i]
         /\ \A i \in 1..Len(t) : (s \o t)[Len(s) + i] = t[i]
         /\ ToSet(s \o t) = ToSet(s) \cup ToSet(t)
<1>1. /\ s \o t \in Seq(S) /\ Len(s \o t) = Len(s) + Len(t)
      /\ \A i \in 1..(Len(s) + Len(t)) :
           (s \o t)[i] = IF i <= Len(s) THEN s[i] ELSE t[i - Len(s)]
  BY ConcatProperties
<1>2. /\ Len(s) \in Nat /\ Len(t) \in Nat
      /\ DOMAIN s = 1..Len(s) /\ DOMAIN t = 1..Len(t) /\ DOMAIN (s \o t) = 1..(Len(s) + Len(t))
  BY <1>1
<1>3. \A i \in 1..Len(s) : i \in 1..(Len(s) + Len(t)) /\ (s \o t)[i] = s[i]
  BY <1>1, <1>2
<1>4. ASSUME NEW i \in 1..Len(t)
      PROVE  Len(s) + i \in 1..(Len(s) + Len(t)) /\ (s \o t)[Len(s) + i] = t[i]
  <2>1. /\ Len(s) + i \in 1..(Len(s) + Len(t)) /\ ~(Len(s) + i <= Len(s))
        /\ (Len(s) + i) - Len(s) = i
    BY <1>2
  <2>. QED
    BY <1>1, <2>1
<1>5. \A i \in 1..(Len(s) + Len(t)) :
        i \in 1..Len(s) \/ (i - Len(s) \in 1..Len(t) /\ i = Len(s) + (i - Len(s)))
  BY <1>2
<1>6. ToSet(s \o t) = ToSet(s) \cup ToSet(t)
  BY <1>2, <1>3, <1>4, <1>5 DEF ToSet
<1>. QED
  BY <1>1, <1>3, <1>4, <1>6

\* A sequence is left with the elements it had, in their order, when one is
\* taken out.
LEMMA Removed ==
  ASSUME NEW S, NEW s \in Seq(S), NEW at \in 1..Len(s)
  PROVE  /\ RemoveAt(s, at) \in Seq(S)
         /\ Len(RemoveAt(s, at)) = Len(s) - 1
         /\ \A i \in 1..(Len(s) - 1) : RemoveAt(s, at)[i] = s[IF i < at THEN i ELSE i + 1]
<1>. DEFINE before == SubSeq(s, 1, at - 1)
            after == SubSeq(s, at + 1, Len(s))
<1>1. /\ before \in Seq(S) /\ Len(before) = at - 1
      /\ \A i \in 1..(at - 1) : before[i] = s[i]
      /\ after \in Seq(S) /\ Len(after) = Len(s) - at
      /\ \A i \in 1..(Len(s) - at) : after[i] = s[at + i]
  <2>1. \A i \in 1..(at - 1) : s[i] \in S
    OBVIOUS
  <2>2. \A i \in (at + 1)..Len(s) : s[i] \in S
    OBVIOUS
  <2>. QED
    BY <2>1, <2>2, SubSeqProperties
<1>2. RemoveAt(s, at) = before \o after
  BY DEF RemoveAt
<1>. HIDE DEF before, after
<1>3. /\ before \o after \in Seq(S) /\ Len(before \o after) = Len(before) + Len(after)
      /\ \A i \in 1..(Len(before) + Len(after)) :
           (before \o after)[i] = IF i <= Len(before) THEN before[i] ELSE after[i - Len(before)]
  BY <1>1, ConcatProperties
<1>4. ASSUME NEW i \in 1..(Len(s) - 1), ~(i < at)
      PROVE  after[i - (at - 1)] = s[i + 1]
  <2>1. i - (at - 1) \in 1..(Len(s) - at) /\ at + (i - (at - 1)) = i + 1
    BY <1>4
  <2>. QED
    BY <1>1, <2>1
<1>5. Len(before) = at - 1 /\ Len(before) + Len(after) = Len(s) - 1
  BY <1>1
<1>. QED
  BY <1>1, <1>2, <1>3, <1>4, <1>5

\* A function of the first naturals is a sequence of its values.
LEMMA Tabulated ==
  ASSUME NEW n \in Nat, NEW S, NEW f \in [1..n -> S]
  PROVE  f \in Seq(S) /\ Len(f) = n /\ DOMAIN f = 1..n
OBVIOUS

\* A bucket lists the three kinds of object.
LEMMA ObjectsOfATree ==
  /\ Listing \in Seq(Objects)
  /\ Objects = {<<"chain", d>> : d \in Days} \cup {<<"summary", d>> : d \in Days}
               \cup {payoff, manifest}
<1>. DEFINE chains == [d \in Days |-> <<"chain", d>>]
            singles == <<<<"manifest", 0>>, <<"payoff", 0>>>>
            summaries == [d \in Days |-> <<"summary", d>>]
            C == {<<"chain", d>> : d \in Days}
            S == {<<"summary", d>> : d \in Days}
            M == {manifest, payoff}
            anything == C \cup S \cup M
<1>1. chains \in Seq(anything) /\ ToSet(chains) = C
  <2>1. chains \in [1..LastDay -> anything]
    BY DEF Days
  <2>2. {chains[i] : i \in 1..LastDay} = C
    BY DEF Days
  <2>. HIDE DEF chains, anything, C
  <2>3. chains \in Seq(anything) /\ DOMAIN chains = 1..LastDay
    BY <2>1, Tabulated
  <2>. QED
    BY <2>2, <2>3 DEF ToSet
<1>2. summaries \in Seq(anything) /\ ToSet(summaries) = S
  <2>1. summaries \in [1..LastDay -> anything]
    BY DEF Days
  <2>2. {summaries[i] : i \in 1..LastDay} = S
    BY DEF Days
  <2>. HIDE DEF summaries, anything, S
  <2>3. summaries \in Seq(anything) /\ DOMAIN summaries = 1..LastDay
    BY <2>1, Tabulated
  <2>. QED
    BY <2>2, <2>3 DEF ToSet
<1>3. singles \in Seq(anything) /\ ToSet(singles) = M
  BY DEF manifest, payoff, ToSet
<1>4. Listing = (chains \o singles) \o summaries
  BY DEF Listing
<1>. HIDE DEF chains, singles, summaries, C, S, M, anything
<1>5. chains \o singles \in Seq(anything) /\ ToSet(chains \o singles) = C \cup M
  BY <1>1, <1>3, Joined
<1>6. Listing \in Seq(anything) /\ ToSet(Listing) = (C \cup M) \cup S
  <2>. DEFINE first == chains \o singles
  <2>. HIDE DEF first
  <2>1. Listing = first \o summaries /\ first \in Seq(anything) /\ ToSet(first) = C \cup M
    BY <1>4, <1>5 DEF first
  <2>. QED
    BY <1>2, <2>1, Joined
<1>7. Objects = anything
  BY <1>6 DEF Objects, anything
<1>. QED
  BY <1>6, <1>7 DEF anything, C, S, M

\* A build writes its days, then payoff, then the manifest, which nothing
\* comes after.
LEMMA FilesOfABuild ==
  ASSUME NEW generation \in Generations
  PROVE  /\ Written[generation] \in Seq(Objects) /\ Written[generation] # <<>>
         /\ Files(generation) = {<<"chain", d>> : d \in Listed(generation)}
                                \cup {<<"summary", d>> : d \in Listed(generation)}
                                \cup {payoff, manifest}
         /\ \A i \in 1..(Len(Written[generation]) - 1) : Written[generation][i] # manifest
<1>. DEFINE n == Cardinality(Listed(generation))
            name(i) == <<IF i % 2 = 1 THEN "chain" ELSE "summary", (i + 1) \div 2>>
            days == [i \in 1..(2 * n) |-> name(i)]
            ends == <<<<"payoff", 0>>, <<"manifest", 0>>>>
            dated == {<<"chain", d>> : d \in Listed(generation)}
                     \cup {<<"summary", d>> : d \in Listed(generation)}
<1>1. n \in Nat \ {0} /\ Listed(generation) = 1..n /\ Listed(generation) \subseteq Days
  BY ListedDays DEF Listed
<1>2. Written[generation] = days \o ends
  BY DEF Written
<1>. HIDE DEF n
<1>3. 2 * n \in Nat
  BY <1>1
<1>4. \A i \in 1..(2 * n) : name(i) \in dated
  <2>1. \A i \in 1..(2 * n) : (i + 1) \div 2 \in 1..n
    BY <1>1
  <2>. QED
    BY <1>1, <2>1
<1>5. \A x \in dated : \E i \in 1..(2 * n) : name(i) = x
  <2>1. \A d \in 1..n : /\ 2 * d - 1 \in 1..(2 * n) /\ name(2 * d - 1) = <<"chain", d>>
                        /\ 2 * d \in 1..(2 * n) /\ name(2 * d) = <<"summary", d>>
    BY <1>1
  <2>2. \A d \in 1..n : (\E i \in 1..(2 * n) : name(i) = <<"chain", d>>)
                      /\ (\E i \in 1..(2 * n) : name(i) = <<"summary", d>>)
    <3>. HIDE DEF name
    <3>. QED
      BY <2>1
  <2>3. \A x \in dated : \E d \in 1..n : x = <<"chain", d>> \/ x = <<"summary", d>>
    BY <1>1
  <2>. HIDE DEF name, dated
  <2>. QED
    BY <2>2, <2>3
<1>6. dated \subseteq Objects /\ manifest \notin dated
  BY <1>1, ObjectsOfATree DEF manifest
<1>7. ends \in Seq(Objects) /\ Len(ends) = 2 /\ ends[1] = payoff /\ ToSet(ends) = {payoff, manifest}
  BY ObjectsOfATree DEF payoff, manifest, ToSet
<1>8. payoff # manifest
  BY DEF payoff, manifest
<1>. HIDE DEF name, dated, ends
<1>9. /\ days \in Seq(Objects) /\ Len(days) = 2 * n
      /\ ToSet(days) = dated /\ \A i \in 1..(2 * n) : days[i] \in dated
  <2>1. days \in [1..(2 * n) -> Objects] /\ \A i \in 1..(2 * n) : days[i] = name(i)
    BY <1>4, <1>6
  <2>2. {days[i] : i \in 1..(2 * n)} = dated
    BY <1>4, <1>5, <2>1
  <2>. HIDE DEF days
  <2>3. days \in Seq(Objects) /\ Len(days) = 2 * n /\ DOMAIN days = 1..(2 * n)
    BY <1>3, <2>1, Tabulated
  <2>. QED
    BY <1>4, <2>1, <2>2, <2>3 DEF ToSet
<1>. HIDE DEF days
<1>10. /\ Written[generation] \in Seq(Objects) /\ Len(Written[generation]) = 2 * n + 2
       /\ \A i \in 1..(2 * n) : Written[generation][i] = days[i]
       /\ \A i \in 1..2 : Written[generation][2 * n + i] = ends[i]
       /\ ToSet(Written[generation]) = dated \cup {payoff, manifest}
  <2>1. /\ days \o ends \in Seq(Objects) /\ Len(days \o ends) = Len(days) + Len(ends)
        /\ \A i \in 1..Len(days) : (days \o ends)[i] = days[i]
        /\ \A i \in 1..Len(ends) : (days \o ends)[Len(days) + i] = ends[i]
        /\ ToSet(days \o ends) = ToSet(days) \cup ToSet(ends)
    <3>1. days \in Seq(Objects) /\ ends \in Seq(Objects)
      BY <1>7, <1>9
    <3>. QED
      BY <3>1, Joined
  <2>. QED
    BY <1>2, <1>7, <1>9, <2>1
<1>11. Written[generation][2 * n + 1] = payoff
  BY <1>7, <1>10
<1>12. \A i \in 1..(Len(Written[generation]) - 1) : i \in 1..(2 * n) \/ i = 2 * n + 1
  BY <1>1, <1>10
<1>13. ASSUME NEW i \in 1..(Len(Written[generation]) - 1)
       PROVE  Written[generation][i] # manifest
  <2>1. CASE i = 2 * n + 1
    BY <1>8, <1>11, <2>1
  <2>2. CASE i \in 1..(2 * n)
    BY <1>6, <1>9, <1>10, <2>2
  <2>. QED
    BY <1>12, <2>1, <2>2
<1>14. Written[generation] # <<>>
  BY <1>1, <1>10
<1>. QED
  BY <1>10, <1>13, <1>14 DEF Files, dated

\* A later build writes at least what an earlier one did.
LEMMA FilesGrow ==
  ASSUME NEW generation \in Generations, NEW later \in Generations, generation <= later
  PROVE  Files(generation) \subseteq Files(later)
<1>1. Listed(generation) \subseteq Listed(later)
  BY DEF Listed, Days, Generations
<1>. QED
  BY <1>1, FilesOfABuild

\* Whatever a build lists is among the objects of the tree.
LEMMA FilesAreObjects ==
  ASSUME NEW generation \in Generations
  PROVE  /\ Files(generation) \subseteq Objects
         /\ payoff \in Files(generation) /\ manifest \in Files(generation)
<1>1. Listed(generation) \subseteq Days
  BY DEF Listed
<1>. QED
  BY <1>1, FilesOfABuild, ObjectsOfATree

------------------------------------------------------------------------------
(* The inductive invariant. *)

Phases == {"idle", "list", "fetch", "load", "read", "miss", "insert", "done", "unknown", "refused"}

Thread == [at : Phases, day : {0} \cup Days, todo : Seq(Keys), got : SUBSET (Keys \X Generations),
           value : {None} \cup Generations, listed : SUBSET Objects, next : 1..(Len(Listing) + 1)]

Typed ==
  /\ remote \in BOOLEAN /\ beside \in BOOLEAN
  /\ cleared \in {None} \cup Generations /\ atStart \in Generations
  /\ up \in BOOLEAN /\ root \in BOOLEAN
  /\ source \in [Objects -> {None, Torn} \cup Generations]
  /\ build \in [generation : Generations, left : Seq(Objects)]
  /\ mirror \in [Objects -> {None} \cup Generations]
  /\ cache \in [Keys -> {None} \cup Generations]
  /\ ask \in [Requests -> Thread]
  /\ faults \in 0..MaxFaults

\* The build the process serves: the one its mirror was cleared for, or the
\* tree's own.
served == IF remote THEN cleared ELSE build.generation

\* A file of the build is either written or still to write, over the last
\* build's where that wrote it, and on a disk the manifest is the last of them.
SourceInv ==
  /\ \A o \in Objects :
       /\ source[o] <= build.generation
       /\ o \notin Files(build.generation) => source[o] = None
       /\ o \in Files(build.generation) =>
            source[o] = build.generation \/ \E i \in DOMAIN build.left : build.left[i] = o
       /\ o \in Files(Complete) => source[o] # None
       /\ remote => source[o] # Torn
       /\ source[o] \in {None, Torn, build.generation - 1, build.generation}
  /\ \A i \in DOMAIN build.left : build.left[i] \in Files(build.generation)
  /\ build.left # <<>> => build.generation > 1
  /\ source[payoff] \in {Torn, build.generation - 1, build.generation}
  /\ ~remote => source[manifest] \in {Torn, Complete}
  /\ ~remote => \A i \in 1..(Len(build.left) - 1) : build.left[i] # manifest

\* A mirror nothing was downloaded into beside a rebuild holds files of the one
\* build it was cleared for, and every file the tree had when the process
\* started once the root is remembered.
MirrorInv ==
  /\ cleared <= Complete
  /\ cleared = build.generation => build.left = <<>>
  /\ up => cleared <= atStart /\ atStart <= Complete
  /\ \A o \in Objects : mirror[o] <= build.generation
  /\ remote /\ ~beside =>
       \A o \in Objects : mirror[o] # None => mirror[o] = cleared /\ o \in Files(cleared)
  /\ remote /\ root => \A o \in Files(atStart) : mirror[o] # None

\* A process that has just started remembers nothing, and what it remembers is
\* of the build it serves while nothing is built beside it.
CacheInv ==
  /\ ~up => ~root
  /\ up /\ ~remote /\ ~beside => build.left = <<>>
  /\ \A key \in Keys : cache[key] <= build.generation
  /\ ~root => \A key \in Keys : cache[key] = None
  /\ root /\ ~beside => \A key \in Keys : cache[key] \in {None, served}
  /\ cache[<<"corners", 0>>] # None => cache[<<"domain", 0>>] # None
  /\ ~remote => cache[<<"domain", 0>>] <= Complete
  /\ ~remote /\ cache[<<"corners", 0>>] # None => cache[<<"domain", 0>>] <= cache[<<"corners", 0>>]
  /\ ~remote => \A key \in Keys : cache[key] # None => atStart <= cache[key]

\* A thread that mirrors lists all the tree had when the process started, has
\* passed nothing of it that is not here, and brings no other build into a
\* mirror nothing else was brought into.
Fetching(record) ==
  /\ record.at \in {"list", "fetch", "load"} => remote
  /\ record.at = "list" => record.next = 1
  /\ record.at \in {"fetch", "load"} =>
       /\ Files(atStart) \subseteq record.listed
       /\ \A o \in record.listed : source[o] # None
       /\ \A i \in 1..(record.next - 1) : Listing[i] \in Files(atStart) => mirror[Listing[i]] # None
  /\ record.at = "load" =>
       /\ record.next <= Len(Listing)
       /\ record.value # None /\ record.value <= build.generation
       /\ ~beside => record.value = cleared /\ Listing[record.next] \in Files(cleared)

\* The reads of a day are left from the i-th on, and past the first of them the
\* thread has what the manifest lists.
At(record, i) ==
  /\ Len(record.todo) = 6 - i
  /\ \A j \in 1..(6 - i) : record.todo[j] = reads(record.day)[(i - 1) + j]
  /\ i # 1 => \E pair \in record.got : pair[1] = <<"pairs", 0>>

Reading(record) ==
  /\ record.at \in {"idle", "list", "fetch", "load", "unknown", "refused"} => record.got = {}
  /\ record.at \in {"read", "miss", "insert"} => \E i \in 1..5 : At(record, i)
  /\ record.at \in {"read", "miss", "insert", "done"} => record.day \in Days /\ root
  /\ record.at \in {"miss", "insert"} => required(record)
  /\ record.at = "insert" => record.value # None /\ record.value <= build.generation
  /\ \A pair \in record.got : pair[2] <= build.generation

\* What a thread holds is of the build the process serves, and of a tree on disk
\* nothing is older than the process.
Steady(record) ==
  /\ root /\ ~beside => /\ \A pair \in record.got : pair[2] = served
                        /\ record.at = "insert" => record.value = served
  /\ ~remote => /\ \A pair \in record.got : atStart <= pair[2]
                /\ record.at = "insert" => atStart <= record.value

\* A thread at the corners has read the bounds they are laid between.
Spanning(record) ==
  /\ record.at \in {"read", "miss", "insert"} /\ Head(record.todo) = <<"corners", 0>> =>
       cache[<<"domain", 0>>] # None
  /\ ~remote /\ record.at = "insert" =>
       /\ Head(record.todo) = <<"domain", 0>> => record.value <= Complete
       /\ Head(record.todo) = <<"corners", 0>> => cache[<<"domain", 0>>] <= record.value

ThreadInv(record) ==
  /\ ~up => record = Idle
  /\ Fetching(record) /\ Reading(record) /\ Steady(record) /\ Spanning(record)

IInv == Typed /\ SourceInv /\ MirrorInv /\ CacheInv /\ \A r \in Requests : ThreadInv(ask[r])

\* The invariant's types are TypeOK's.
LEMMA TypedIsTypeOK == Typed => TypeOK
BY DEF Typed, TypeOK, Thread, Phases

\* The reads of a day are of what the caches hold.
LEMMA ReadsOfADay ==
  ASSUME NEW d \in Days
  PROVE  /\ reads(d) \in Seq(Keys) /\ Len(reads(d)) = 5
         /\ reads(d)[1] = <<"pairs", 0>> /\ reads(d)[2] = <<"slice", d>>
         /\ reads(d)[3] = <<"header", d>> /\ reads(d)[4] = <<"domain", 0>>
         /\ reads(d)[5] = <<"corners", 0>>
BY DEF reads, Keys, Partitioned

\* What the next read is of.
LEMMA NextRead ==
  ASSUME NEW record \in Thread, record.day \in Days, NEW i \in 1..5, At(record, i)
  PROVE  /\ record.todo # <<>> /\ Head(record.todo) = reads(record.day)[i]
         /\ Head(record.todo) \in Keys
         /\ Tail(record.todo) \in Seq(Keys) /\ Len(Tail(record.todo)) = 5 - i
         /\ \A j \in 1..(5 - i) : Tail(record.todo)[j] = reads(record.day)[i + j]
<1>1. /\ record.todo \in Seq(Keys) /\ Len(record.todo) = 6 - i
      /\ \A j \in 1..(6 - i) : record.todo[j] = reads(record.day)[(i - 1) + j]
  BY DEF At, Thread
<1>2. record.todo # <<>> /\ Head(record.todo) = record.todo[1]
  BY <1>1
<1>3. record.todo[1] = reads(record.day)[(i - 1) + 1] /\ (i - 1) + 1 = i
  BY <1>1
<1>4. /\ Head(record.todo) \in Keys
      /\ Tail(record.todo) \in Seq(Keys) /\ Len(Tail(record.todo)) = Len(record.todo) - 1
      /\ \A j \in 1..Len(Tail(record.todo)) : Tail(record.todo)[j] = record.todo[j + 1]
  BY <1>1, <1>2, HeadTailProperties
<1>5. ASSUME NEW j \in 1..(5 - i)
      PROVE  Tail(record.todo)[j] = reads(record.day)[i + j]
  <2>1. j \in 1..Len(Tail(record.todo)) /\ j + 1 \in 1..(6 - i) /\ (i - 1) + (j + 1) = i + j
    BY <1>1, <1>4
  <2>. QED
    BY <1>1, <1>4, <2>1
<1>. QED
  BY <1>1, <1>2, <1>3, <1>4, <1>5

\* A thread that has nothing yet, or nothing any more, is in any process that
\* is up.
LEMMA Resting ==
  ASSUME NEW r \in Requests, up',
         ask'[r].at \in {"idle", "unknown", "refused"}, ask'[r].got = {}
  PROVE  ThreadInv(ask[r])'
BY DEF ThreadInv, Fetching, Reading, Steady, Spanning

\* What the rest of the system may do under a thread.
Kept ==
  /\ up /\ up' /\ UNCHANGED <<remote, cleared, atStart>>
  /\ (root => root') /\ (beside => beside')
  /\ build.generation <= build'.generation /\ Complete <= Complete'
  /\ \A o \in Objects : /\ mirror[o] # None => mirror'[o] # None
                        /\ source[o] # None => source'[o] # None
  /\ root /\ (remote \/ ~beside') => served' = served
  /\ cache[<<"domain", 0>>] # None => cache'[<<"domain", 0>>] = cache[<<"domain", 0>>]

\* A thread goes on undisturbed by what the others do.
LEMMA Undisturbed ==
  ASSUME IInv, Kept, Complete' \in Int, build'.generation \in Int,
         NEW r \in Requests, ask'[r] = ask[r]
  PROVE  ThreadInv(ask[r])'
<1>1. /\ ThreadInv(ask[r]) /\ ask[r] \in Thread /\ remote \in BOOLEAN /\ root \in BOOLEAN
      /\ beside \in BOOLEAN /\ build.generation \in Nat
      /\ Complete \in Int
      /\ cache[<<"domain", 0>>] \in Nat
  <2>1. <<"domain", 0>> \in Keys
    BY DEF Keys
  <2>. QED
    BY <2>1 DEF IInv, Typed, Complete, None, Generations
<1>2. /\ ask[r].value \in Nat /\ ask[r].next \in Nat /\ ask[r].next <= Len(Listing) + 1
      /\ \A pair \in ask[r].got : pair[2] \in Nat
      /\ Len(Listing) \in Nat /\ \A i \in 1..Len(Listing) : Listing[i] \in Objects
  BY <1>1, ObjectsOfATree DEF Thread, None, Generations
<1>3. Fetching(ask[r])'
  <2>1. Fetching(ask[r])
    BY <1>1 DEF ThreadInv
  <2>2. \A i \in 1..(ask[r].next - 1) : Listing[i] \in Objects
    BY <1>2
  <2>3. UNCHANGED <<remote, cleared, atStart>> /\ (beside => beside') 
    BY DEF Kept
  <2>4. ask[r].at \in {"fetch", "load"} =>
          \A i \in 1..(ask[r].next - 1) : Listing[i] \in Files(atStart) => mirror'[Listing[i]] # None
    <3>1. ask[r].at \in {"fetch", "load"} =>
            \A i \in 1..(ask[r].next - 1) : Listing[i] \in Files(atStart) => mirror[Listing[i]] # None
      BY <2>1 DEF Fetching
    <3>2. \A o \in Objects : mirror[o] # None => mirror'[o] # None
      BY DEF Kept
    <3>. QED
      BY <2>2, <3>1, <3>2
  <2>5. ask[r].at = "load" => ask[r].value <= build'.generation
    BY <1>1, <1>2, <2>1 DEF Kept, Fetching
  <2>6. ask[r].at \in {"fetch", "load"} => \A o \in ask[r].listed : source'[o] # None
    <3>1. ask[r].at \in {"fetch", "load"} => \A o \in ask[r].listed : source[o] # None
      BY <2>1 DEF Fetching
    <3>2. \A o \in Objects : source[o] # None => source'[o] # None
      BY DEF Kept
    <3>3. ask[r].listed \subseteq Objects
      BY <1>1 DEF Thread
    <3>. QED
      BY <3>1, <3>2, <3>3
  <2>. QED
    BY <2>1, <2>3, <2>4, <2>5, <2>6 DEF Fetching
<1>4. Reading(ask[r])'
  <2>1. Reading(ask[r])
    BY <1>1 DEF ThreadInv
  <2>2. \A i \in 1..5 : At(ask[r], i)' <=> At(ask[r], i)
    BY DEF At
  <2>3. required(ask[r])' <=> required(ask[r])
    BY DEF required
  <2>. QED
    BY <1>1, <1>2, <2>1, <2>2, <2>3 DEF Kept, Reading
<1>5. Steady(ask[r])'
  <2>1. ask[r].at \in Phases
    BY <1>1 DEF Thread
  <2>. QED
    BY <1>1, <1>2, <2>1 DEF Kept, ThreadInv, Steady, Reading, Phases
<1>6. Spanning(ask[r])'
  BY <1>1, <1>2 DEF Kept, ThreadInv, Spanning
<1>. QED
  BY <1>3, <1>4, <1>5, <1>6 DEF Kept, ThreadInv

------------------------------------------------------------------------------
(* Steps that change nothing but the thread that takes them. *)

\* What the proofs read off the invariant of a thread.
LEMMA OfAThread ==
  ASSUME IInv, NEW r \in Requests
  PROVE  /\ ask \in [Requests -> Thread] /\ ask[r] \in Thread
         /\ Fetching(ask[r]) /\ Reading(ask[r]) /\ Steady(ask[r]) /\ Spanning(ask[r])
         /\ ask[r].at # "idle" => up
         /\ atStart \in Generations /\ cleared \in {None} \cup Generations
         /\ build.generation \in Generations /\ faults \in 0..MaxFaults
         /\ Len(Listing) \in Nat /\ \A i \in 1..Len(Listing) : Listing[i] \in Objects
         /\ \A o \in Objects : source[o] \in {None, Torn} \cup Generations
         /\ \A o \in Objects : mirror[o] \in {None} \cup Generations
         /\ \A key \in Keys : cache[key] \in {None} \cup Generations
         /\ ask[r].at \in Phases /\ ask[r].next \in 1..(Len(Listing) + 1)
<1>1. ask[r] \in Thread /\ ThreadInv(ask[r])
  BY DEF IInv, Typed
<1>2. ask[r].at # "idle" => up
  BY <1>1 DEF ThreadInv, Idle
<1>3. ask[r].at \in Phases /\ ask[r].next \in 1..(Len(Listing) + 1)
  BY <1>1 DEF Thread
<1>. QED
  BY <1>1, <1>2, <1>3, ObjectsOfATree DEF IInv, Typed, ThreadInv

\* A thread that is done with its request is a thread.
LEMMA IdleIsAThread ==
  ASSUME NEW at \in Phases
  PROVE  [Idle EXCEPT !.at = at] \in Thread /\ Idle \in Thread
<1>1. 1 \in 1..(Len(Listing) + 1) /\ <<>> \in Seq(Keys) /\ {} \in SUBSET (Keys \X Generations)
  BY ObjectsOfATree
<1>2. Idle \in Thread
  BY <1>1 DEF Idle, Thread, Phases
<1>3. [Idle EXCEPT !.at = at] \in Thread
  <2>. HIDE DEF Idle
  <2>. QED
    BY <1>2 DEF Thread
<1>. QED
  BY <1>2, <1>3

\* A thread's own step is one of the system where it leaves the thread sound.
LEMMA OnlyTheThread ==
  ASSUME IInv, up, NEW r \in Requests,
         UNCHANGED <<remote, source, build, mirror, cleared, up, root, cache, atStart, beside>>,
         faults' \in 0..MaxFaults,
         ask' = [ask EXCEPT ![r] = ask'[r]], ask'[r] \in Thread, ThreadInv(ask[r])'
  PROVE  IInv'
<1>1. Typed'
  BY DEF IInv, Typed
<1>2. SourceInv'
  BY DEF IInv, SourceInv, Complete
<1>3. served' = served /\ Complete' = Complete
  BY DEF served, Complete
<1>4. MirrorInv'
  BY <1>3 DEF IInv, MirrorInv
<1>5. CacheInv'
  BY <1>3 DEF IInv, CacheInv
<1>6. Kept /\ Complete' \in Int /\ build'.generation \in Int
  <2>1. build.generation \in Nat
    BY DEF IInv, Typed, Generations
  <2>2. Complete \in Int
    BY <2>1 DEF Complete
  <2>. QED
    BY <1>3, <2>1, <2>2 DEF Kept
<1>7. ASSUME NEW q \in Requests, q # r
      PROVE  ThreadInv(ask[q])'
  <2>1. ask'[q] = ask[q]
    BY <1>7 DEF IInv, Typed
  <2>. QED
    BY <1>6, <2>1, Undisturbed
<1>. QED
  BY <1>1, <1>2, <1>4, <1>5, <1>7 DEF IInv

\* The last whole build is one, and the tree has all it had when the process
\* started.
LEMMA FilesAtStart ==
  ASSUME IInv
  PROVE  /\ Complete \in Generations
         /\ up => \A o \in Files(atStart) : o \in Objects /\ source[o] # None
<1>1. build.generation \in Generations /\ atStart \in Generations
  BY DEF IInv, Typed
<1>2. Complete \in Generations
  BY <1>1 DEF IInv, SourceInv, Complete, Generations
<1>3. up => Files(atStart) \subseteq Files(Complete)
  BY <1>1, <1>2, FilesGrow DEF IInv, MirrorInv
<1>4. Files(Complete) \subseteq Objects
  BY <1>2, FilesAreObjects
<1>. QED
  BY <1>2, <1>3, <1>4 DEF IInv, SourceInv

\* What is listed is all that a build whole by now wrote.
LEMMA ListObjectsKeeps ==
  ASSUME IInv, NEW r \in Requests, ListObjects(r)
  PROVE  IInv'
<1>. DEFINE now == [ask[r] EXCEPT !.at = "fetch", !.listed = {o \in Objects : source[o] # None}]
<1>1. /\ ask[r].at = "list" /\ ask' = [ask EXCEPT ![r] = now]
      /\ UNCHANGED <<remote, source, build, mirror, cleared, up, root, cache, atStart, beside, faults>>
  BY DEF ListObjects
<1>2. /\ ask \in [Requests -> Thread] /\ ask[r] \in Thread /\ up /\ remote
      /\ faults' \in 0..MaxFaults /\ ask'[r] = now
      /\ Reading(ask[r]) /\ ask[r].got = {}
  BY <1>1, OfAThread DEF Fetching, Reading
<1>3. now \in Thread
  BY <1>1, <1>2 DEF Thread, Phases
<1>4. /\ ask'[r].at = "fetch" /\ ask'[r].got = {} /\ ask'[r].next = ask[r].next
      /\ ask'[r].listed = {o \in Objects : source[o] # None}
  BY <1>2 DEF Thread
<1>5. \A o \in Files(atStart) : o \in Objects /\ source[o] # None
  BY <1>2, FilesAtStart
<1>6. Fetching(ask[r])'
  <2>1. ask'[r].next = 1
    BY <1>1, <1>4, OfAThread DEF Fetching
  <2>2. \A i \in 1..(ask'[r].next - 1) : FALSE
    BY <2>1
  <2>3. Files(atStart) \subseteq ask'[r].listed
    BY <1>4, <1>5
  <2>4. \A o \in ask'[r].listed : source[o] # None
    BY <1>4
  <2>. QED
    BY <1>1, <1>2, <1>4, <2>2, <2>3, <2>4 DEF Fetching
<1>7. ThreadInv(ask[r])'
  BY <1>1, <1>2, <1>4, <1>6 DEF ThreadInv, Reading, Steady, Spanning
<1>. QED
  BY <1>1, <1>2, <1>3, <1>7, OnlyTheThread

\* An object that is here, or was not listed, is passed.
LEMMA PassKeeps ==
  ASSUME IInv, NEW r \in Requests, Fetch(r),
         Listing[ask[r].next] \notin ask[r].listed \/ mirror[Listing[ask[r].next]] # None
  PROVE  IInv'
<1>. DEFINE o == Listing[ask[r].next]
            passed == [ask[r] EXCEPT !.next = ask[r].next + 1]
<1>1. /\ ask[r].at = "fetch" /\ ask[r].next \in 1..Len(Listing) /\ o \in Objects
      /\ UNCHANGED <<remote, source, build, mirror, cleared, up, root, cache, atStart, beside, faults>>
  <2>1. ask[r].at = "fetch" /\ ask[r].next \in 1..Len(Listing)
    BY OfAThread DEF Fetch
  <2>2. o \in Objects
    BY <2>1, OfAThread
  <2>3. UNCHANGED <<remote, source, build, mirror, cleared, up, root, cache, atStart, beside, faults>>
    BY DEF Fetch
  <2>. QED
    BY <2>1, <2>2, <2>3
<1>2. /\ remote /\ up /\ faults' \in 0..MaxFaults /\ ask[r] \in Thread /\ Fetching(ask[r])
      /\ Reading(ask[r]) /\ ask \in [Requests -> Thread]
  BY <1>1, OfAThread DEF Fetching
<1>3. ask' = [ask EXCEPT ![r] = passed] /\ ask'[r] = passed
  BY <1>2 DEF Fetch
<1>4. passed \in Thread
  <2>1. ask[r].next + 1 \in 1..(Len(Listing) + 1)
    BY <1>1, OfAThread
  <2>. QED
    BY <1>2, <2>1 DEF Thread
<1>5. /\ ask'[r].at = "fetch" /\ ask'[r].got = ask[r].got /\ ask'[r].listed = ask[r].listed
      /\ ask'[r].next = ask[r].next + 1 /\ ask[r].got = {}
  BY <1>1, <1>2, <1>3 DEF Thread, Reading
<1>6. o \in Files(atStart) => mirror[o] # None
  BY <1>1, <1>2 DEF Fetching
<1>7. Fetching(ask[r])'
  <2>1. \A i \in 1..(ask'[r].next - 1) : i \in 1..(ask[r].next - 1) \/ i = ask[r].next
    BY <1>1, <1>5
  <2>. QED
    BY <1>1, <1>2, <1>5, <1>6, <2>1 DEF Fetching
<1>8. ThreadInv(ask[r])'
  BY <1>1, <1>2, <1>5, <1>7 DEF ThreadInv, Reading, Steady, Spanning
<1>. QED
  BY <1>1, <1>2, <1>3, <1>4, <1>8, OnlyTheThread

\* Another is asked for, and is what the bucket's last build wrote unless the
\* bucket was rebuilt after the mirror was cleared.
LEMMA TakeKeeps ==
  ASSUME IInv, NEW r \in Requests, Fetch(r),
         ~(Listing[ask[r].next] \notin ask[r].listed \/ mirror[Listing[ask[r].next]] # None)
  PROVE  IInv'
<1>. DEFINE o == Listing[ask[r].next]
            taken == [ask[r] EXCEPT !.at = "load", !.value = source[o]]
<1>1. /\ ask[r].at = "fetch" /\ ask[r].next \in 1..Len(Listing) /\ o \in Objects
      /\ beside' = (beside \/ cleared # build.generation)
      /\ ask' = [ask EXCEPT ![r] = taken]
      /\ UNCHANGED <<remote, source, build, mirror, cleared, up, root, cache, atStart, faults>>
  <2>1. ask[r].at = "fetch" /\ ask[r].next \in 1..Len(Listing)
    BY OfAThread DEF Fetch
  <2>2. o \in Objects
    BY <2>1, OfAThread
  <2>3. /\ beside' = (beside \/ cleared # build.generation) /\ ask' = [ask EXCEPT ![r] = taken]
        /\ UNCHANGED <<remote, source, build, mirror, cleared, up, root, cache, atStart, faults>>
    BY DEF Fetch
  <2>. QED
    BY <2>1, <2>2, <2>3
<1>2. /\ remote /\ up /\ faults' \in 0..MaxFaults /\ ask[r] \in Thread /\ Fetching(ask[r])
      /\ Reading(ask[r]) /\ ask \in [Requests -> Thread] /\ beside \in BOOLEAN
      /\ build.generation \in Generations /\ cleared \in {None} \cup Generations
  BY <1>1, OfAThread DEF Fetching, IInv, Typed
<1>3. source[o] \in Generations /\ source[o] <= build.generation
  <2>1. source[o] # None
    BY <1>1, <1>2 DEF Fetching
  <2>. QED
    BY <1>1, <1>2, <2>1, OfAThread DEF IInv, SourceInv
<1>4. ~beside' => source[o] = cleared /\ o \in Files(cleared)
  <2>1. ~beside' => cleared = build.generation /\ build.left = <<>>
    BY <1>1 DEF IInv, MirrorInv
  <2>. QED
    BY <1>1, <1>3, <2>1 DEF IInv, SourceInv, Generations, None
<1>5. taken \in Thread /\ ask'[r] = taken
  BY <1>1, <1>2, <1>3 DEF Thread, Phases
<1>6. /\ ask'[r].at = "load" /\ ask'[r].got = {} /\ ask'[r].listed = ask[r].listed
      /\ ask'[r].next = ask[r].next /\ ask'[r].value = source[o]
  BY <1>1, <1>2, <1>5 DEF Thread, Reading
<1>7. ThreadInv(ask[r])'
  <2>1. Fetching(ask[r])'
    <3>1. source[o] # None
      BY <1>3 DEF Generations, None
    <3>. QED
      BY <1>1, <1>2, <1>3, <1>4, <1>6, <3>1 DEF Fetching
  <2>. QED
    BY <1>1, <1>2, <1>6, <2>1 DEF ThreadInv, Reading, Steady, Spanning
<1>8. served' = served /\ Complete' = Complete /\ Complete \in Int
  BY <1>1, <1>2 DEF served, Complete, Generations
<1>9. Typed' /\ SourceInv'
  <2>1. beside' \in BOOLEAN
    BY <1>1
  <2>. QED
    BY <1>1, <1>2, <1>5, <1>8, <2>1 DEF IInv, Typed, SourceInv
<1>10. MirrorInv' /\ CacheInv'
  BY <1>1, <1>2, <1>8 DEF IInv, MirrorInv, CacheInv
<1>11. Kept /\ Complete' \in Int /\ build'.generation \in Int
  BY <1>1, <1>2, <1>8 DEF Kept, Generations
<1>12. ASSUME NEW q \in Requests, q # r
       PROVE  ThreadInv(ask[q])'
  <2>1. ask'[q] = ask[q]
    BY <1>1, <1>2, <1>12
  <2>. QED
    BY <1>11, <2>1, Undisturbed
<1>. QED
  BY <1>7, <1>9, <1>10, <1>12 DEF IInv

LEMMA FetchKeeps ==
  ASSUME IInv, NEW r \in Requests, Fetch(r)
  PROVE  IInv'
BY PassKeeps, TakeKeeps

\* A download that fails ends its request.
LEMMA LoadFailsKeeps ==
  ASSUME IInv, NEW r \in Requests, LoadFails(r)
  PROVE  IInv'
<1>1. up /\ faults' \in 0..MaxFaults
  BY OfAThread DEF LoadFails
<1>2. /\ ask' = [ask EXCEPT ![r] = [Idle EXCEPT !.at = "refused"]]
      /\ ask'[r] = [Idle EXCEPT !.at = "refused"]
  BY OfAThread DEF LoadFails
<1>3. ask'[r] \in Thread
  BY <1>2, IdleIsAThread DEF Phases
<1>4. ThreadInv(ask[r])'
  BY <1>1, <1>2, Resting DEF Idle, LoadFails
<1>. QED
  BY <1>1, <1>2, <1>3, <1>4, OnlyTheThread DEF LoadFails

\* A request for a day the manifest does not list is answered at once.
LEMMA UnknownKeeps ==
  ASSUME IInv, NEW r \in Requests, Unknown(r)
  PROVE  IInv'
<1>1. up /\ faults' \in 0..MaxFaults
  BY OfAThread DEF Unknown
<1>2. /\ ask' = [ask EXCEPT ![r] = [Idle EXCEPT !.at = "unknown"]]
      /\ ask'[r] = [Idle EXCEPT !.at = "unknown"]
  BY OfAThread DEF Unknown
<1>3. ask'[r] \in Thread
  BY <1>2, IdleIsAThread DEF Phases
<1>4. ThreadInv(ask[r])'
  BY <1>1, <1>2, Resting DEF Idle, Unknown
<1>. QED
  BY <1>1, <1>2, <1>3, <1>4, OnlyTheThread DEF Unknown

\* An answered thread waits for the next request.
LEMMA DeliverKeeps ==
  ASSUME IInv, NEW r \in Requests, Deliver(r)
  PROVE  IInv'
<1>1. up /\ faults' \in 0..MaxFaults
  BY OfAThread DEF Deliver
<1>2. ask' = [ask EXCEPT ![r] = Idle] /\ ask'[r] = Idle
  BY OfAThread DEF Deliver
<1>3. ask'[r] \in Thread
  BY <1>2, IdleIsAThread DEF Phases
<1>4. ThreadInv(ask[r])'
  <2>1. ask'[r].at = "idle" /\ ask'[r].got = {} /\ up'
    BY <1>1, <1>2 DEF Idle, Deliver
  <2>. QED
    BY <2>1, Resting
<1>. QED
  BY <1>1, <1>2, <1>3, <1>4, OnlyTheThread DEF Deliver

\* A key that is not remembered, or was let go, is to be read; bounds and
\* corners are not let go.
LEMMA MissKeeps ==
  ASSUME IInv, NEW r \in Requests, Miss(r)
  PROVE  IInv'
<1>. DEFINE key == Head(ask[r].todo)
            now == [ask[r] EXCEPT !.at = "miss"]
<1>1. /\ ask[r].at = "read" /\ required(ask[r])
      /\ cache[key] = None \/ key \in Partitioned
      /\ cache' = [cache EXCEPT ![key] = None] /\ ask' = [ask EXCEPT ![r] = now]
      /\ UNCHANGED <<remote, source, build, mirror, cleared, up, root, atStart, beside, faults>>
  BY DEF Miss
<1>2. /\ ask \in [Requests -> Thread] /\ ask[r] \in Thread /\ up /\ faults' \in 0..MaxFaults
      /\ cache \in [Keys -> {None} \cup Generations]
      /\ Reading(ask[r]) /\ Steady(ask[r]) /\ Spanning(ask[r])
      /\ build.generation \in Generations /\ ask'[r] = now
  BY <1>1, OfAThread DEF IInv, Typed
<1>3. now \in Thread
  BY <1>1, <1>2 DEF Thread, Phases
<1>. HIDE DEF key
<1>4. /\ cache' \in [Keys -> {None} \cup Generations]
      /\ \A k \in Keys : cache'[k] = None \/ cache'[k] = cache[k]
      /\ cache'[<<"domain", 0>>] = cache[<<"domain", 0>>]
      /\ cache'[<<"corners", 0>>] = cache[<<"corners", 0>>]
      /\ cache'[<<"pairs", 0>>] = cache[<<"pairs", 0>>]
  <2>1. {<<"domain", 0>>, <<"corners", 0>>, <<"pairs", 0>>} \subseteq Keys \ Partitioned
    BY DEF Keys, Partitioned, Days
  <2>. QED
    BY <1>1, <1>2, <2>1
<1>5. served' = served /\ Complete' = Complete /\ Complete \in Int
  BY <1>1, <1>2 DEF served, Complete, Generations
<1>6. Typed' /\ SourceInv' /\ MirrorInv'
  BY <1>1, <1>2, <1>3, <1>4, <1>5 DEF IInv, Typed, SourceInv, MirrorInv
<1>7. CacheInv'
  <2>1. /\ \A k \in Keys : cache'[k] <= build.generation
        /\ ~root => \A k \in Keys : cache'[k] = None
        /\ root /\ ~beside => \A k \in Keys : cache'[k] \in {None, served}
    BY <1>2, <1>4 DEF IInv, CacheInv, Generations, None
  <2>. QED
    BY <1>1, <1>4, <1>5, <2>1 DEF IInv, CacheInv
<1>8. ThreadInv(ask[r])'
  <2>1. /\ ask'[r].at = "miss" /\ ask'[r].day = ask[r].day
        /\ ask'[r].todo = ask[r].todo /\ ask'[r].got = ask[r].got
    BY <1>2 DEF Thread
  <2>2. required(ask[r])' /\ \A i \in 1..5 : At(ask[r], i) => At(ask[r], i)'
    BY <1>1, <2>1 DEF required, At
  <2>3. Reading(ask[r])'
    BY <1>1, <1>2, <2>1, <2>2 DEF Reading
  <2>4. Fetching(ask[r])' /\ Steady(ask[r])' /\ Spanning(ask[r])'
    BY <1>1, <1>2, <1>4, <1>5, <2>1 DEF Fetching, Steady, Spanning
  <2>. QED
    BY <1>1, <1>2, <2>3, <2>4 DEF ThreadInv
<1>9. Kept /\ Complete' \in Int /\ build'.generation \in Int
  BY <1>1, <1>2, <1>4, <1>5 DEF Kept, Generations
<1>10. ASSUME NEW q \in Requests, q # r
       PROVE  ThreadInv(ask[q])'
  <2>1. ask'[q] = ask[q]
    BY <1>1, <1>2, <1>10
  <2>. QED
    BY <1>9, <2>1, Undisturbed
<1>. QED
  BY <1>6, <1>7, <1>8, <1>10 DEF IInv

------------------------------------------------------------------------------
(* A thread that takes what it asked for. *)

\* A thread that took the last read of its day is done, and another goes on to
\* the next.
LEMMA Taking ==
  ASSUME NEW record \in Thread, record.day \in Days, NEW i \in 1..5, At(record, i),
         NEW value \in Generations
  PROVE  /\ Took(record, value) \in Thread
         /\ Took(record, value).at = IF i = 5 THEN "done" ELSE "read"
         /\ Took(record, value).day = record.day
         /\ Took(record, value).got = record.got \cup {<<Head(record.todo), value>>}
         /\ i # 5 => /\ At(Took(record, value), i + 1)
                     /\ Head(Took(record, value).todo) = reads(record.day)[i + 1]
<1>. DEFINE now == Took(record, value)
<1>1. /\ Head(record.todo) = reads(record.day)[i] /\ Head(record.todo) \in Keys
      /\ Tail(record.todo) \in Seq(Keys) /\ Len(Tail(record.todo)) = 5 - i
      /\ \A j \in 1..(5 - i) : Tail(record.todo)[j] = reads(record.day)[i + j]
  BY NextRead
<1>2. Len(record.todo) = 6 - i /\ (Len(record.todo) = 1 <=> i = 5)
  BY DEF At
<1>3. /\ now.at = IF i = 5 THEN "done" ELSE "read"
      /\ now.day = record.day /\ now.todo = Tail(record.todo)
      /\ now.got = record.got \cup {<<Head(record.todo), value>>}
  BY <1>2 DEF Took, Thread
<1>4. now \in Thread
  <2>1. record.got \cup {<<Head(record.todo), value>>} \in SUBSET (Keys \X Generations)
    BY <1>1 DEF Thread
  <2>. QED
    BY <1>1, <2>1 DEF Took, Thread, Phases, None
<1>5. ASSUME i # 5
      PROVE  At(now, i + 1) /\ Head(now.todo) = reads(record.day)[i + 1]
  <2>1. Len(now.todo) = 6 - (i + 1)
    BY <1>1, <1>3
  <2>2. \A j \in 1..(6 - (i + 1)) : now.todo[j] = reads(now.day)[((i + 1) - 1) + j]
    <3>1. 6 - (i + 1) = 5 - i /\ (i + 1) - 1 = i
      OBVIOUS
    <3>. QED
      BY <1>1, <1>3, <3>1
  <2>3. \E pair \in now.got : pair[1] = <<"pairs", 0>>
    <3>1. CASE i = 1
      <4>1. Head(record.todo) = <<"pairs", 0>>
        BY <1>1, <3>1, ReadsOfADay
      <4>2. /\ <<Head(record.todo), value>> \in now.got
            /\ <<Head(record.todo), value>>[1] = <<"pairs", 0>>
        BY <1>3, <4>1
      <4>. QED
        BY <4>2
    <3>2. CASE i # 1
      BY <1>3, <3>2 DEF At
    <3>. QED
      BY <3>1, <3>2
  <2>4. At(now, i + 1)
    <3>. HIDE DEF now
    <3>. QED
      BY <2>1, <2>2, <2>3 DEF At
  <2>5. Head(now.todo) = now.todo[1]
    BY <1>1, <1>3, <1>5
  <2>. QED
    BY <1>1, <1>3, <1>5, <2>4, <2>5
<1>. QED
  BY <1>3, <1>4, <1>5

\* A thread that took what the process serves is sound.
LEMMA TakingKeeps ==
  ASSUME IInv, NEW r \in Requests, ask[r].at \in {"read", "insert"},
         NEW value \in Generations, value <= build.generation, ~beside => value = served,
         ~remote => atStart <= value,
         ask' = [ask EXCEPT ![r] = Took(ask[r], value)],
         UNCHANGED <<remote, source, build, mirror, cleared, up, root, atStart, beside>>,
         Head(ask[r].todo) = <<"domain", 0>> \/ cache[<<"domain", 0>>] # None
           => cache'[<<"domain", 0>>] # None
  PROVE  ask'[r] \in Thread /\ ThreadInv(ask[r])'
<1>1. /\ ask[r] \in Thread /\ Reading(ask[r]) /\ Steady(ask[r]) /\ up
      /\ ask'[r] = Took(ask[r], value)
  BY OfAThread
<1>2. ask[r].day \in Days /\ root
  BY <1>1 DEF Reading
<1>3. PICK i \in 1..5 : At(ask[r], i)
  BY <1>1 DEF Reading
<1>4. /\ ask'[r] \in Thread
      /\ ask'[r].at = IF i = 5 THEN "done" ELSE "read"
      /\ ask'[r].day = ask[r].day
      /\ ask'[r].got = ask[r].got \cup {<<Head(ask[r].todo), value>>}
      /\ i # 5 => /\ At(ask'[r], i + 1)
                  /\ Head(ask'[r].todo) = reads(ask[r].day)[i + 1]
  BY <1>1, <1>2, <1>3, Taking
<1>5. served' = served
  BY DEF served
<1>6. Fetching(ask[r])'
  BY <1>4 DEF Fetching
<1>7. Reading(ask[r])'
  <2>1. i # 5 => i + 1 \in 1..5 /\ At(ask[r], i + 1)'
    BY <1>4 DEF At
  <2>2. \A pair \in ask[r].got : pair[2] <= build.generation
    BY <1>1 DEF Reading
  <2>3. \A pair \in ask'[r].got : pair[2] <= build.generation
    BY <1>4, <2>2
  <2>4. i # 5 => \E k \in 1..5 : At(ask[r], k)'
    BY <2>1
  <2>. QED
    BY <1>2, <1>4, <2>3, <2>4 DEF Reading
<1>8. Steady(ask[r])'
  BY <1>1, <1>4, <1>5 DEF Steady
<1>9. Spanning(ask[r])'
  <2>1. ASSUME i # 5, Head(ask'[r].todo) = <<"corners", 0>>
        PROVE  i = 4
    BY <1>2, <1>4, <2>1, ReadsOfADay
  <2>2. i = 4 => Head(ask[r].todo) = <<"domain", 0>>
    BY <1>1, <1>2, <1>3, NextRead, ReadsOfADay
  <2>. QED
    BY <1>4, <2>1, <2>2 DEF Spanning
<1>. QED
  BY <1>1, <1>4, <1>6, <1>7, <1>8, <1>9 DEF ThreadInv

\* What a cache remembers is of the build the process serves.
LEMMA RememberedKeeps ==
  ASSUME IInv, NEW r \in Requests, Remembered(r)
  PROVE  IInv'
<1>. DEFINE key == Head(ask[r].todo)
<1>1. /\ ask[r].at = "read" /\ cache[key] # None
      /\ ask' = [ask EXCEPT ![r] = Took(ask[r], cache[key])]
      /\ UNCHANGED <<remote, source, build, mirror, cleared, up, root, cache, atStart, beside, faults>>
  BY DEF Remembered
<1>2. /\ ask \in [Requests -> Thread] /\ ask[r] \in Thread /\ Reading(ask[r]) /\ up
      /\ faults \in 0..MaxFaults
      /\ \A k \in Keys : cache[k] \in {None} \cup Generations
  BY <1>1, OfAThread
<1>3. key \in Keys /\ root
  BY <1>1, <1>2, NextRead DEF Reading
<1>4. /\ cache[key] \in Generations /\ cache[key] <= build.generation
      /\ ~beside => cache[key] = served
      /\ ~remote => atStart <= cache[key]
  BY <1>1, <1>2, <1>3 DEF IInv, CacheInv
<1>5. key = <<"domain", 0>> \/ cache[<<"domain", 0>>] # None => cache'[<<"domain", 0>>] # None
  BY <1>1
<1>. HIDE DEF key
<1>6. ask'[r] \in Thread /\ ThreadInv(ask[r])'
  BY <1>1, <1>4, <1>5, TakingKeeps DEF key
<1>7. ask' = [ask EXCEPT ![r] = ask'[r]]
  BY <1>1, <1>2
<1>. QED
  BY <1>1, <1>2, <1>6, <1>7, OnlyTheThread

------------------------------------------------------------------------------
(* The root, and what is read under it. *)

\* A mirror that is complete, and that nothing was downloaded into beside a
\* rebuild, holds the build it was cleared for, whole; and that lists all the
\* days the tree listed when the process started.
LEMMA MirroredBuild ==
  ASSUME IInv, remote, ~beside, root
  PROVE  /\ cleared \in Generations /\ cleared <= atStart
         /\ \A o \in Files(cleared) : o \in Objects /\ mirror[o] = cleared
         /\ Listed(atStart) \subseteq Listed(cleared)
<1>1. /\ up /\ atStart \in Generations /\ cleared \in {None} \cup Generations
      /\ mirror \in [Objects -> {None} \cup Generations]
  BY DEF IInv, Typed, CacheInv
<1>2. /\ \A o \in Files(atStart) : o \in Objects /\ mirror[o] # None
      /\ \A o \in Objects : mirror[o] # None => mirror[o] = cleared /\ o \in Files(cleared)
      /\ cleared <= atStart
  BY <1>1, FilesAreObjects DEF IInv, MirrorInv
<1>3. manifest \in Files(atStart)
  BY <1>1, FilesAreObjects
<1>4. cleared \in Generations
  BY <1>1, <1>2, <1>3
<1>5. Files(cleared) \subseteq Files(atStart)
  BY <1>1, <1>2, <1>4, FilesGrow
<1>6. ASSUME NEW d \in Listed(atStart)
      PROVE  d \in Listed(cleared)
  <2>1. <<"chain", d>> \in Files(atStart)
    BY <1>1, FilesOfABuild
  <2>2. <<"chain", d>> \in Files(cleared)
    BY <1>2, <2>1
  <2>. QED
    BY <1>4, <2>2, FilesOfABuild DEF payoff, manifest
<1>. QED
  BY <1>2, <1>4, <1>5, <1>6

\* What a read finds is there, and is of the build the process serves; in a
\* tree on disk its bounds are of a whole build and its corners no older.
LEMMA WhatIsRead ==
  ASSUME IInv, NEW r \in Requests, ask[r].at = "miss"
  PROVE  LET key == Head(ask[r].todo)
             file == ReadingOf(key)
         IN  /\ key \in Keys /\ file \in Objects
             /\ ~missing(r) => tree[file] \in Generations /\ tree[file] <= build.generation
             /\ ~beside => ~missing(r) /\ tree[file] = served
             /\ ~remote /\ ~missing(r) => atStart <= tree[file]
             /\ ~remote /\ ~missing(r) /\ key = <<"domain", 0>> => tree[file] <= Complete
             /\ ~remote /\ ~missing(r) /\ key = <<"corners", 0>> => Complete <= tree[file]
             /\ ~remote /\ Whole => ~missing(r)
<1>. DEFINE key == Head(ask[r].todo)
            file == ReadingOf(key)
<1>1. /\ ask[r] \in Thread /\ Reading(ask[r]) /\ Steady(ask[r]) /\ up
      /\ build.generation \in Generations
      /\ \A o \in Objects : source[o] \in {None, Torn} \cup Generations
      /\ \A o \in Objects : mirror[o] \in {None} \cup Generations
  BY OfAThread
<1>2. /\ ask[r].day \in Days /\ root /\ required(ask[r])
      /\ \A pair \in ask[r].got : pair[2] <= build.generation /\ pair[2] \in Generations
  BY <1>1 DEF Reading, Thread
<1>3. PICK i \in 1..5 : At(ask[r], i)
  BY <1>1 DEF Reading
<1>4. key = reads(ask[r].day)[i] /\ key \in Keys
  BY <1>1, <1>2, <1>3, NextRead
<1>5. \/ key = <<"pairs", 0>> /\ file = manifest
      \/ key = <<"domain", 0>> /\ file = manifest
      \/ key = <<"corners", 0>> /\ file = payoff
      \/ /\ key \in Partitioned /\ i # 1
         /\ file = <<"chain", ask[r].day>> \/ file = <<"summary", ask[r].day>>
  <2>1. /\ ReadingOf(<<"pairs", 0>>) = manifest /\ ReadingOf(<<"domain", 0>>) = manifest
        /\ ReadingOf(<<"corners", 0>>) = payoff
        /\ ReadingOf(<<"slice", ask[r].day>>) = <<"chain", ask[r].day>>
        /\ ReadingOf(<<"header", ask[r].day>>) = <<"summary", ask[r].day>>
    BY DEF ReadingOf, manifest, payoff
  <2>2. <<"slice", ask[r].day>> \in Partitioned /\ <<"header", ask[r].day>> \in Partitioned
    BY <1>2 DEF Partitioned
  <2>3. i = 1 \/ i = 2 \/ i = 3 \/ i = 4 \/ i = 5
    OBVIOUS
  <2>4. /\ i = 1 => key = <<"pairs", 0>>
        /\ i = 2 => key = <<"slice", ask[r].day>>
        /\ i = 3 => key = <<"header", ask[r].day>>
        /\ i = 4 => key = <<"domain", 0>>
        /\ i = 5 => key = <<"corners", 0>>
    BY <1>2, <1>4, ReadsOfADay
  <2>. QED
    BY <2>1, <2>2, <2>3, <2>4
<1>6. ASSUME NEW generation \in Generations,
             \A pair \in ask[r].got : pair[2] <= generation
      PROVE  file \in Files(generation)
  <2>1. CASE key \in Partitioned /\ i # 1
    <3>1. PICK pair \in ask[r].got : pair[1] = <<"pairs", 0>>
      BY <1>3, <2>1 DEF At
    <3>2. ask[r].day \in Listed(pair[2])
      BY <1>2, <2>1, <3>1 DEF required
    <3>3. ask[r].day \in Listed(generation)
      BY <1>2, <1>6, <3>2 DEF Listed, Days, Generations
    <3>. HIDE DEF key, file
    <3>. QED
      BY <1>5, <3>3, FilesOfABuild
  <2>2. CASE ~(key \in Partitioned /\ i # 1)
    BY <1>5, <2>2, FilesAreObjects
  <2>. QED
    BY <2>1, <2>2
<1>7. file \in Files(build.generation) /\ file \in Objects
  BY <1>1, <1>2, <1>6, FilesAreObjects
<1>8. missing(r) <=> tree[file] \in {None, Torn}
  BY DEF missing
<1>. HIDE DEF key, file
<1>9. CASE remote
  <2>1. tree = mirror
    BY <1>9 DEF tree
  <2>2. mirror[file] \in {None} \cup Generations /\ mirror[file] <= build.generation
    BY <1>1, <1>7 DEF IInv, MirrorInv
  <2>3. ~missing(r) => mirror[file] \in Generations
    BY <1>8, <2>1, <2>2 DEF Torn
  <2>4. ASSUME ~beside
        PROVE  mirror[file] = served /\ ~missing(r)
    <3>1. served = cleared /\ served \in Generations
      BY <1>1, <1>2, <1>9, <2>4, MirroredBuild DEF served
    <3>2. \A pair \in ask[r].got : pair[2] = served
      BY <1>1, <1>2, <2>4 DEF Steady
    <3>3. file \in Files(served)
      BY <1>2, <1>6, <3>1, <3>2 DEF Generations
    <3>4. mirror[file] = served
      BY <1>1, <1>2, <1>7, <1>9, <2>4, <3>1, <3>3, MirroredBuild
    <3>. QED
      BY <1>8, <2>1, <3>1, <3>4 DEF Generations, None, Torn
  <2>. QED
    BY <1>4, <1>7, <1>9, <2>1, <2>2, <2>3, <2>4 DEF key, file
<1>10. ~remote => source[manifest] \in {Torn, Complete}
  BY DEF IInv, SourceInv
<1>11. CASE ~remote
  <2>1. tree = source
    BY <1>11 DEF tree
  <2>2. source[file] <= build.generation /\ source[file] \in {None, Torn} \cup Generations
    BY <1>1, <1>7 DEF IInv, SourceInv
  <2>3. build.left = <<>> => source[file] = build.generation
    BY <1>7 DEF IInv, SourceInv
  <2>4. ~beside => build.left = <<>>
    BY <1>1, <1>11 DEF IInv, CacheInv
  <2>5. ~missing(r) => source[file] \in Generations
    BY <1>8, <2>1, <2>2
  <2>6. build.left = <<>> => ~missing(r)
    BY <1>1, <1>8, <2>1, <2>3 DEF Generations, None, Torn
  <2>7. ~missing(r) /\ key = <<"domain", 0>> => source[file] <= Complete
    <3>1. key = <<"domain", 0>> => file = manifest
      BY <1>5 DEF Partitioned
    <3>. QED
      BY <1>1, <1>8, <1>10, <1>11, <2>1, <3>1 DEF Complete, Generations
  <2>8. ~missing(r) /\ key = <<"corners", 0>> => Complete <= source[file]
    <3>1. key = <<"corners", 0>> => file = payoff
      BY <1>5 DEF Partitioned
    <3>2. source[payoff] \in {Torn, build.generation - 1, build.generation}
      BY DEF IInv, SourceInv
    <3>. QED
      BY <1>1, <1>8, <2>1, <2>3, <3>1, <3>2 DEF Complete, Generations
  <2>9. served = build.generation
    BY <1>11 DEF served
  <2>10. Whole => build.left = <<>>
    BY DEF Whole
  <2>11. ~missing(r) => atStart <= source[file]
    <3>1. source[file] \in {None, Torn, build.generation - 1, build.generation}
      BY <1>7 DEF IInv, SourceInv
    <3>2. ~missing(r) => Complete <= source[file]
      BY <1>1, <1>8, <2>1, <2>3, <3>1 DEF Complete, Generations
    <3>3. atStart <= Complete /\ atStart \in Int /\ Complete \in Int
      BY <1>1, OfAThread DEF IInv, MirrorInv, Complete, Generations
    <3>. QED
      BY <2>5, <3>2, <3>3 DEF Generations
  <2>. QED
    BY <1>4, <1>7, <1>11, <2>1, <2>2, <2>3, <2>4, <2>5, <2>6, <2>7, <2>8, <2>9, <2>10, <2>11
       DEF key, file
<1>. QED
  BY <1>9, <1>11

\* A read takes what it found, or ends its request.
LEMMA ReadKeeps ==
  ASSUME IInv, NEW r \in Requests, Read(r)
  PROVE  IInv'
<1>. DEFINE key == Head(ask[r].todo)
            found == tree[ReadingOf(key)]
            refused == [Idle EXCEPT !.at = "refused"]
            now == [ask[r] EXCEPT !.at = "insert", !.value = found]
<1>1. /\ ask[r].at = "miss"
      /\ UNCHANGED <<remote, source, build, mirror, cleared, up, root, cache, atStart, beside, faults>>
      /\ ask \in [Requests -> Thread] /\ ask[r] \in Thread /\ up /\ faults' \in 0..MaxFaults
      /\ Reading(ask[r]) /\ Steady(ask[r]) /\ Spanning(ask[r])
      /\ build.generation \in Generations
  BY OfAThread DEF Read
<1>2. CASE missing(r)
  <2>1. ask' = [ask EXCEPT ![r] = refused] /\ ask'[r] = refused
    BY <1>1, <1>2 DEF Read
  <2>2. ask'[r] \in Thread
    BY <2>1, IdleIsAThread DEF Phases
  <2>3. ask'[r].at = "refused" /\ ask'[r].got = {} /\ up'
    BY <1>1, <2>1 DEF Idle
  <2>4. ThreadInv(ask[r])'
    BY <2>3, Resting
  <2>. QED
    BY <1>1, <2>1, <2>2, <2>4, OnlyTheThread
<1>3. CASE ~missing(r)
  <2>1. ask' = [ask EXCEPT ![r] = now] /\ ask'[r] = now
    BY <1>1, <1>3 DEF Read
  <2>2. /\ key \in Keys /\ found \in Generations /\ found <= build.generation
        /\ ~beside => found = served
        /\ ~remote => atStart <= found
        /\ ~remote /\ key = <<"domain", 0>> => found <= Complete
        /\ ~remote /\ key = <<"corners", 0>> => Complete <= found
    BY <1>1, <1>3, WhatIsRead
  <2>. HIDE DEF found
  <2>3. now \in Thread
    BY <1>1, <2>2 DEF Thread, Phases
  <2>4. /\ ask'[r].at = "insert" /\ ask'[r].day = ask[r].day /\ ask'[r].todo = ask[r].todo
        /\ ask'[r].got = ask[r].got /\ ask'[r].value = found
    BY <1>1, <2>1 DEF Thread
  <2>5. Fetching(ask[r])'
    BY <2>4 DEF Fetching
  <2>6. Reading(ask[r])'
    <3>1. required(ask[r])' /\ \A i \in 1..5 : At(ask[r], i) => At(ask[r], i)'
      BY <1>1, <2>4 DEF required, At, Reading
    <3>. QED
      BY <1>1, <2>2, <2>4, <3>1 DEF Reading, Generations, None
  <2>7. Steady(ask[r])'
    <3>1. served' = served
      BY <1>1 DEF served
    <3>. QED
      BY <1>1, <2>2, <2>4, <3>1 DEF Steady, key
  <2>8. Spanning(ask[r])'
    <3>1. Complete' = Complete
      BY <1>1 DEF Complete
    <3>2. ~remote => cache[<<"domain", 0>>] <= Complete
      BY DEF IInv, CacheInv
    <3>3. cache[<<"domain", 0>>] \in Int /\ Complete \in Int /\ found \in Int
      BY <1>1, <2>2, OfAThread DEF Keys, Generations, None, Complete
    <3>. QED
      BY <1>1, <2>2, <2>4, <3>1, <3>2, <3>3 DEF Spanning, key
  <2>9. ThreadInv(ask[r])'
    BY <1>1, <2>5, <2>6, <2>7, <2>8 DEF ThreadInv
  <2>. QED
    BY <1>1, <2>1, <2>3, <2>9, OnlyTheThread
<1>. QED
  BY <1>2, <1>3

\* What is read is remembered unless another thread remembered it first.
LEMMA InsertKeeps ==
  ASSUME IInv, NEW r \in Requests, Insert(r)
  PROVE  IInv'
<1>. DEFINE key == Head(ask[r].todo)
            value == ask[r].value
            domain == <<"domain", 0>>
            corners == <<"corners", 0>>
<1>1. /\ ask[r].at = "insert"
      /\ \/ cache' = [cache EXCEPT ![key] = IF @ = None THEN value ELSE @]
         \/ key \in Partitioned /\ cache' = [cache EXCEPT ![key] = value]
      /\ ask' = [ask EXCEPT ![r] = Took(ask[r], value)]
      /\ UNCHANGED <<remote, source, build, mirror, cleared, up, root, atStart, beside, faults>>
  BY DEF Insert
<1>2. /\ ask \in [Requests -> Thread] /\ ask[r] \in Thread /\ up /\ faults' \in 0..MaxFaults
      /\ Reading(ask[r]) /\ Steady(ask[r]) /\ Spanning(ask[r])
      /\ build.generation \in Generations
      /\ \A k \in Keys : cache[k] \in {None} \cup Generations
      /\ cache \in [Keys -> {None} \cup Generations]
  BY <1>1, OfAThread DEF IInv, Typed
<1>3. /\ key \in Keys /\ root /\ value \in Generations /\ value <= build.generation
      /\ ~beside => value = served
      /\ ~remote => atStart <= value
  BY <1>1, <1>2, NextRead DEF Reading, Steady, Thread
<1>4. /\ cache' \in [Keys -> {None} \cup Generations]
      /\ \A k \in Keys : cache'[k] = cache[k] \/ (k = key /\ cache'[k] = value)
      /\ \A k \in Keys \ Partitioned :
           cache'[k] = IF k = key /\ cache[k] = None THEN value ELSE cache[k]
  BY <1>1, <1>2, <1>3
<1>5. /\ domain \in Keys \ Partitioned /\ corners \in Keys \ Partitioned
      /\ <<"pairs", 0>> \in Keys \ Partitioned
      /\ domain # corners /\ domain # <<"pairs", 0>>
  BY DEF Keys, Partitioned, Days
<1>6. value # None
  BY <1>3 DEF Generations, None
<1>7. \A k \in Keys \ Partitioned : /\ cache[k] # None => cache'[k] = cache[k]
                                    /\ k = key => cache'[k] # None
  BY <1>4, <1>6
<1>8. served' = served /\ Complete' = Complete /\ Complete \in Int
  BY <1>1, <1>2 DEF served, Complete, Generations
<1>. HIDE DEF key, value, domain, corners
<1>9. ask'[r] \in Thread /\ ThreadInv(ask[r])'
  <2>1. key = domain \/ cache[domain] # None => cache'[domain] # None
    BY <1>5, <1>7
  <2>. QED
    BY <1>1, <1>3, <2>1, TakingKeeps DEF key, value, domain
<1>10. Typed'
  BY <1>1, <1>2, <1>4, <1>9 DEF IInv, Typed
<1>11. SourceInv' /\ MirrorInv'
  BY <1>1, <1>8 DEF IInv, SourceInv, MirrorInv
<1>12. CacheInv'
  <2>1. /\ up /\ ~remote /\ ~beside => build.left = <<>>
        /\ \A k \in Keys : cache[k] <= build.generation
        /\ ~beside => \A k \in Keys : cache[k] \in {None, served}
        /\ cache[corners] # None => cache[domain] # None
        /\ ~remote => cache[domain] <= Complete
        /\ ~remote /\ cache[corners] # None => cache[domain] <= cache[corners]
        /\ ~remote => \A k \in Keys : cache[k] # None => atStart <= cache[k]
    BY <1>3 DEF IInv, CacheInv, domain, corners
  <2>2. \A k \in Keys : cache'[k] <= build.generation
    BY <1>3, <1>4, <2>1
  <2>3. ~beside => \A k \in Keys : cache'[k] \in {None, served}
    BY <1>3, <1>4, <2>1
  <2>4. key = corners => cache[domain] # None
    BY <1>1, <1>2 DEF Spanning, key, domain, corners
  <2>5. cache'[corners] # None => cache'[domain] # None
    BY <1>4, <1>5, <1>7, <2>1, <2>4
  <2>6. ~remote => cache'[domain] <= Complete
    <3>1. ~remote /\ key = domain => value <= Complete
      BY <1>1, <1>2 DEF Spanning, key, value, domain
    <3>. QED
      BY <1>4, <1>5, <2>1, <3>1
  <2>7. ~remote /\ cache'[corners] # None => cache'[domain] <= cache'[corners]
    <3>1. ~remote /\ key = corners => cache[domain] <= value
      BY <1>1, <1>2 DEF Spanning, key, value, domain, corners
    <3>2. key = corners => cache'[domain] = cache[domain]
      BY <1>5, <1>7, <2>4
    <3>3. key = corners => cache'[corners] = value \/ (cache[corners] # None /\ cache'[corners] = cache[corners])
      BY <1>4, <1>5
    <3>4. key # corners => cache'[corners] = cache[corners]
      BY <1>4, <1>5
    <3>5. cache[corners] # None => cache'[domain] = cache[domain]
      BY <1>5, <1>7, <2>1
    <3>. QED
      BY <2>1, <3>1, <3>2, <3>3, <3>4, <3>5
  <2>8. ~remote => \A k \in Keys : cache'[k] # None => atStart <= cache'[k]
    BY <1>3, <1>4, <2>1
  <2>. QED
    BY <1>1, <1>2, <1>3, <1>8, <2>1, <2>2, <2>3, <2>5, <2>6, <2>7, <2>8 DEF CacheInv, domain, corners
<1>13. Kept /\ Complete' \in Int /\ build'.generation \in Int
  BY <1>1, <1>2, <1>5, <1>7, <1>8 DEF Kept, Generations, domain
<1>14. ASSUME NEW q \in Requests, q # r
       PROVE  ThreadInv(ask[q])'
  <2>1. ask'[q] = ask[q]
    BY <1>1, <1>2, <1>14
  <2>. QED
    BY <1>13, <2>1, Undisturbed
<1>. QED
  BY <1>9, <1>10, <1>11, <1>12, <1>14 DEF IInv

\* A request whose root is known begins with the first of its reads.
LEMMA BeginsSoundly ==
  ASSUME IInv, NEW r \in Requests, up', root', Begins(r)
  PROVE  ask'[r] \in Thread /\ ThreadInv(ask[r])' /\ ask' = [ask EXCEPT ![r] = ask'[r]]
<1>1. PICK d \in Days :
        ask' = [ask EXCEPT ![r] = [Idle EXCEPT !.at = "read", !.day = d, !.todo = reads(d)]]
  BY DEF Begins
<1>. DEFINE now == [Idle EXCEPT !.at = "read", !.day = d, !.todo = reads(d)]
<1>2. ask \in [Requests -> Thread]
  BY DEF IInv, Typed
<1>3. ask'[r] = now /\ ask' = [ask EXCEPT ![r] = ask'[r]]
  BY <1>1, <1>2
<1>4. reads(d) \in Seq(Keys) /\ Idle \in Thread /\ Idle.got = {}
  <2>1. Idle \in Thread
    BY IdleIsAThread DEF Phases
  <2>. QED
    BY <2>1, ReadsOfADay DEF Idle
<1>5. now \in Thread /\ now.at = "read" /\ now.day = d /\ now.todo = reads(d) /\ now.got = {}
  <2>. HIDE DEF Idle
  <2>. QED
    BY <1>4 DEF Thread, Phases
<1>. HIDE DEF now
<1>6. At(ask[r], 1)'
  BY <1>3, <1>5, ReadsOfADay DEF At
<1>7. Head(ask'[r].todo) = <<"pairs", 0>>
  BY <1>3, <1>5 DEF reads
<1>8. Reading(ask[r])'
  <2>1. 1 \in 1..5
    OBVIOUS
  <2>. QED
    BY <1>3, <1>5, <1>6, <2>1 DEF Reading
<1>9. Fetching(ask[r])' /\ Steady(ask[r])' /\ Spanning(ask[r])'
  BY <1>3, <1>5, <1>7 DEF Fetching, Steady, Spanning
<1>. QED
  BY <1>3, <1>5, <1>8, <1>9 DEF ThreadInv

\* A request that comes in finds the root, is the first to look at a tree on
\* disk, or goes to fetch the bucket.
LEMMA AskKeeps ==
  ASSUME IInv, NEW r \in Requests, Ask(r)
  PROVE  IInv'
<1>1. /\ up /\ root' = (root \/ ~remote)
      /\ UNCHANGED <<remote, source, build, mirror, cleared, up, cache, atStart, beside, faults>>
      /\ ask \in [Requests -> Thread] /\ build.generation \in Generations
      /\ root \in BOOLEAN /\ remote \in BOOLEAN
  BY DEF Ask, IInv, Typed
<1>2. /\ ask'[r] \in Thread /\ ThreadInv(ask[r])'
      /\ ask' = [ask EXCEPT ![r] = ask'[r]]
  <2>1. CASE root \/ ~remote
    <3>1. up' /\ root'
      BY <1>1, <2>1
    <3>2. Begins(r)
      BY <2>1 DEF Ask
    <3>. QED
      BY <3>1, <3>2, BeginsSoundly
  <2>2. CASE ~(root \/ ~remote)
    <3>1. ask' = [ask EXCEPT ![r] = [Idle EXCEPT !.at = "list"]] /\ ask'[r] = [Idle EXCEPT !.at = "list"]
      BY <1>1, <2>2 DEF Ask
    <3>2. ask'[r] \in Thread
      BY <3>1, IdleIsAThread DEF Phases
    <3>3. ask'[r].at = "list" /\ ask'[r].got = {} /\ ask'[r].next = 1
      BY <3>1 DEF Idle
    <3>. QED
      BY <1>1, <2>2, <3>1, <3>2, <3>3 DEF ThreadInv, Fetching, Reading, Steady, Spanning
  <2>. QED
    BY <2>1, <2>2
<1>3. served' = served /\ Complete' = Complete /\ Complete \in Int
  BY <1>1 DEF served, Complete, Generations
<1>4. Typed'
  BY <1>1, <1>2 DEF IInv, Typed
<1>5. SourceInv'
  BY <1>1, <1>3 DEF IInv, SourceInv
<1>6. MirrorInv'
  BY <1>1, <1>3 DEF IInv, MirrorInv
<1>7. CacheInv'
  BY <1>1, <1>3 DEF IInv, CacheInv
<1>8. Kept /\ Complete' \in Int /\ build'.generation \in Int
  BY <1>1, <1>3 DEF Kept, Generations
<1>9. ASSUME NEW q \in Requests, q # r
      PROVE  ThreadInv(ask[q])'
  <2>1. ask'[q] = ask[q]
    BY <1>1, <1>2, <1>9
  <2>. QED
    BY <1>8, <2>1, Undisturbed
<1>. QED
  BY <1>2, <1>4, <1>5, <1>6, <1>7, <1>9 DEF IInv

------------------------------------------------------------------------------
(* The mirror. *)

\* What is downloaded is of the build the mirror was cleared for, unless the
\* tree was written to meanwhile.
LEMMA LoadKeeps ==
  ASSUME IInv, NEW r \in Requests, Load(r)
  PROVE  IInv'
<1>. DEFINE o == Listing[ask[r].next]
            value == ask[r].value
            now == [ask[r] EXCEPT !.at = "fetch", !.value = None, !.next = ask[r].next + 1]
<1>1. /\ ask[r].at = "load"
      /\ mirror' = [mirror EXCEPT ![o] = value]
      /\ ask' = [ask EXCEPT ![r] = now]
      /\ UNCHANGED <<remote, source, build, cleared, up, root, cache, atStart, beside, faults>>
  BY DEF Load
<1>2. /\ ask \in [Requests -> Thread] /\ ask[r] \in Thread /\ up /\ faults \in 0..MaxFaults
      /\ Fetching(ask[r]) /\ Reading(ask[r])
      /\ build.generation \in Generations /\ atStart \in Generations
      /\ mirror \in [Objects -> {None} \cup Generations]
      /\ Len(Listing) \in Nat /\ ask[r].next \in 1..(Len(Listing) + 1)
      /\ \A i \in 1..Len(Listing) : Listing[i] \in Objects
      /\ remote \in BOOLEAN /\ root \in BOOLEAN
  BY <1>1, OfAThread DEF IInv, Typed
<1>3. /\ remote /\ ask[r].next \in 1..Len(Listing) /\ o \in Objects
      /\ value \in Generations /\ value <= build.generation
      /\ ~beside => value = cleared /\ o \in Files(cleared)
  <2>1. value \in {None} \cup Generations
    BY <1>2 DEF Thread
  <2>. QED
    BY <1>1, <1>2, <2>1 DEF Fetching
<1>4. now \in Thread /\ ask'[r] = now
  <2>1. ask[r].next + 1 \in 1..(Len(Listing) + 1)
    BY <1>2, <1>3
  <2>. QED
    BY <1>1, <1>2, <2>1 DEF Thread, Phases, None
<1>5. /\ ask'[r].at = "fetch" /\ ask'[r].day = ask[r].day /\ ask'[r].todo = ask[r].todo
      /\ ask'[r].got = ask[r].got /\ ask'[r].next = ask[r].next + 1
      /\ ask'[r].listed = ask[r].listed
  BY <1>2, <1>4 DEF Thread
<1>. HIDE DEF o, value, now
<1>6. /\ mirror' \in [Objects -> {None} \cup Generations]
      /\ \A other \in Objects : mirror'[other] = IF other = o THEN value ELSE mirror[other]
  BY <1>1, <1>2, <1>3
<1>7. value # None
  BY <1>3 DEF Generations, None
<1>8. /\ served' = served /\ Complete' = Complete /\ Complete \in Int
      /\ \A other \in Objects : mirror[other] # None => mirror'[other] # None
  BY <1>1, <1>2, <1>6, <1>7 DEF served, Complete, Generations
<1>9. Typed'
  BY <1>1, <1>2, <1>4, <1>6 DEF IInv, Typed
<1>10. SourceInv'
  BY <1>1, <1>8 DEF IInv, SourceInv
<1>11. MirrorInv'
  <2>1. \A other \in Objects : mirror'[other] <= build.generation
    BY <1>3, <1>6 DEF IInv, MirrorInv
  <2>2. ~beside => \A other \in Objects :
                     mirror'[other] # None => mirror'[other] = cleared /\ other \in Files(cleared)
    BY <1>3, <1>6 DEF IInv, MirrorInv
  <2>3. root => \A other \in Files(atStart) : mirror'[other] # None
    BY <1>2, <1>3, <1>8, FilesAreObjects DEF IInv, MirrorInv
  <2>. QED
    BY <1>1, <1>8, <2>1, <2>2, <2>3 DEF IInv, MirrorInv
<1>12. CacheInv'
  BY <1>1, <1>8 DEF IInv, CacheInv
<1>13. Kept /\ Complete' \in Int /\ build'.generation \in Int
  BY <1>1, <1>2, <1>8 DEF Kept, Generations
<1>14. ThreadInv(ask[r])'
  <2>1. Fetching(ask[r])'
    <3>1. \A i \in 1..(ask'[r].next - 1) : i \in 1..(ask[r].next - 1) \/ i = ask[r].next
      BY <1>2, <1>5
    <3>2. mirror'[o] # None
      BY <1>3, <1>6, <1>7
    <3>3. \A i \in 1..(ask[r].next - 1) : mirror[Listing[i]] # None => mirror'[Listing[i]] # None
      BY <1>2, <1>6, <1>7
    <3>. QED
      BY <1>1, <1>2, <1>3, <1>5, <3>1, <3>2, <3>3 DEF Fetching, o
  <2>2. Reading(ask[r])'
    BY <1>1, <1>2, <1>5 DEF Reading, At
  <2>3. Steady(ask[r])' /\ Spanning(ask[r])'
    BY <1>1, <1>2, <1>3, <1>5 DEF Reading, Steady, Spanning
  <2>. QED
    BY <1>1, <1>2, <2>1, <2>2, <2>3 DEF ThreadInv
<1>15. ASSUME NEW q \in Requests, q # r
       PROVE  ThreadInv(ask[q])'
  <2>1. ask'[q] = ask[q]
    BY <1>1, <1>2, <1>15
  <2>. QED
    BY <1>13, <2>1, Undisturbed
<1>. QED
  BY <1>9, <1>10, <1>11, <1>12, <1>14, <1>15 DEF IInv

\* The root is remembered once everything the bucket listed is here.
LEMMA FetchedKeeps ==
  ASSUME IInv, NEW r \in Requests, Fetched(r)
  PROVE  IInv'
<1>1. /\ ask[r].at = "fetch" /\ ask[r].next > Len(Listing) /\ root' = TRUE
      /\ Begins(r)
      /\ UNCHANGED <<remote, source, build, mirror, cleared, up, cache, atStart, beside, faults>>
  BY DEF Fetched
<1>2. /\ ask \in [Requests -> Thread] /\ up /\ faults \in 0..MaxFaults
      /\ Fetching(ask[r]) /\ remote /\ atStart \in Generations
      /\ build.generation \in Generations
      /\ Len(Listing) \in Nat /\ ask[r].next \in 1..(Len(Listing) + 1)
  BY <1>1, OfAThread DEF Fetching
<1>3. /\ ask'[r] \in Thread /\ ThreadInv(ask[r])'
      /\ ask' = [ask EXCEPT ![r] = ask'[r]]
  BY <1>1, <1>2, BeginsSoundly
<1>4. served' = served /\ Complete' = Complete /\ Complete \in Int
  BY <1>1, <1>2 DEF served, Complete, Generations
<1>5. ASSUME NEW o \in Files(atStart)
      PROVE  mirror[o] # None
  <2>1. o \in Objects
    BY <1>2, FilesAreObjects
  <2>2. PICK i \in 1..Len(Listing) : Listing[i] = o
    <3>1. DOMAIN Listing = 1..Len(Listing)
      BY ObjectsOfATree
    <3>. QED
      BY <2>1, <3>1 DEF Objects, ToSet
  <2>3. i \in 1..(ask[r].next - 1)
    BY <1>1, <1>2
  <2>. QED
    BY <1>1, <1>2, <2>2, <2>3 DEF Fetching
<1>6. Typed'
  BY <1>1, <1>2, <1>3 DEF IInv, Typed
<1>7. SourceInv'
  BY <1>1, <1>4 DEF IInv, SourceInv
<1>8. MirrorInv'
  BY <1>1, <1>4, <1>5 DEF IInv, MirrorInv
<1>9. CacheInv'
  <2>1. root \/ \A key \in Keys : cache[key] = None
    BY DEF IInv, CacheInv
  <2>. QED
    BY <1>1, <1>2, <1>4, <2>1 DEF IInv, CacheInv
<1>10. Kept /\ Complete' \in Int /\ build'.generation \in Int
  BY <1>1, <1>2, <1>4 DEF Kept, Generations
<1>11. ASSUME NEW q \in Requests, q # r
       PROVE  ThreadInv(ask[q])'
  <2>1. ask'[q] = ask[q]
    BY <1>2, <1>3, <1>11
  <2>. QED
    BY <1>10, <2>1, Undisturbed
<1>. QED
  BY <1>3, <1>6, <1>7, <1>8, <1>9, <1>11 DEF IInv

------------------------------------------------------------------------------
(* The builds, and the life of the process. *)

\* A thread that waits for a request is sound whatever the process is.
LEMMA Waiting ==
  ASSUME NEW r \in Requests, ask'[r] = Idle
  PROVE  ThreadInv(ask[r])'
<1>1. Idle.at = "idle" /\ Idle.got = {}
  BY DEF Idle
<1>. QED
  BY <1>1 DEF ThreadInv, Fetching, Reading, Steady, Spanning

\* A build goes on under every thread, or under none.
LEMMA Background ==
  ASSUME IInv, UNCHANGED <<up, ask>>, up => Kept, Complete' \in Int, build'.generation \in Int,
         NEW r \in Requests
  PROVE  ThreadInv(ask[r])'
<1>1. CASE up
  BY <1>1, Undisturbed
<1>2. CASE ~up
  <2>1. ask'[r] = Idle
    BY <1>2 DEF IInv, ThreadInv
  <2>. QED
    BY <2>1, Waiting
<1>. QED
  BY <1>1, <1>2

\* The types the builds' proofs read off the invariant.
LEMMA OfTheTree ==
  ASSUME IInv
  PROVE  /\ build \in [generation : Generations, left : Seq(Objects)]
         /\ build.generation \in Generations /\ build.left \in Seq(Objects)
         /\ build.generation \in Nat /\ build.generation # 0
         /\ source \in [Objects -> {None, Torn} \cup Generations]
         /\ payoff \in Objects /\ manifest \in Objects /\ payoff # manifest
         /\ payoff \in Files(build.generation) /\ manifest \in Files(build.generation)
         /\ Files(build.generation) \subseteq Objects
         /\ Complete \in Generations /\ Complete \in Int
         /\ Files(Complete) \subseteq Files(build.generation)
         /\ remote \in BOOLEAN /\ up \in BOOLEAN /\ root \in BOOLEAN /\ beside \in BOOLEAN
         /\ cleared \in {None} \cup Generations /\ atStart \in Generations
<1>1. /\ build \in [generation : Generations, left : Seq(Objects)]
      /\ build.generation \in Generations /\ build.left \in Seq(Objects)
  BY DEF IInv, Typed
<1>2. build.generation \in Nat /\ build.generation # 0
  BY <1>1 DEF Generations
<1>3. payoff # manifest
  BY DEF payoff, manifest
<1>4. Complete \in Generations /\ Complete \in Int /\ Complete <= build.generation
  BY <1>1, FilesAtStart DEF Complete, Generations
<1>5. Files(Complete) \subseteq Files(build.generation)
  BY <1>1, <1>4, FilesGrow
<1>. QED
  BY <1>1, <1>2, <1>3, <1>4, <1>5, FilesAreObjects, ObjectsOfATree DEF IInv, Typed

\* A build starts where the last one is whole, under a process or under none.
LEMMA StartBuildKeeps ==
  ASSUME IInv, StartBuild
  PROVE  IInv'
<1>. DEFINE g == build.generation
            written == Written[g + 1]
<1>1. /\ build.left = <<>> /\ g < MaxGeneration
      /\ build' = [generation |-> g + 1, left |-> written]
      /\ beside' = (beside \/ (up /\ ~remote))
      /\ UNCHANGED <<remote, source, mirror, cleared, up, root, cache, ask, atStart, faults>>
  BY DEF StartBuild
<1>2. g \in Generations /\ g + 1 \in Generations /\ g \in Nat /\ g # 0
  BY <1>1, OfTheTree DEF Generations
<1>3. /\ written \in Seq(Objects) /\ written # <<>>
      /\ Files(g + 1) = {written[i] : i \in DOMAIN written}
      /\ \A i \in 1..(Len(written) - 1) : written[i] # manifest
      /\ Files(g) \subseteq Files(g + 1)
  <2>1. g <= g + 1
    BY <1>2
  <2>. QED
    BY <1>2, <2>1, FilesOfABuild, FilesGrow DEF Files, ToSet
<1>. HIDE DEF written
<1>4. build'.generation = g + 1 /\ build'.left = written
  BY <1>1
<1>5. Typed'
  <2>1. build' \in [generation : Generations, left : Seq(Objects)]
    BY <1>1, <1>2, <1>3
  <2>2. beside' \in BOOLEAN
    BY <1>1
  <2>. QED
    BY <1>1, <2>1, <2>2 DEF IInv, Typed
<1>6. Complete' = g /\ Complete = g
  BY <1>1, <1>2, <1>3, <1>4 DEF Complete
<1>7. SourceInv'
  <2>1. ASSUME NEW o \in Objects
        PROVE  /\ source[o] <= g + 1 /\ (remote => source[o] # Torn)
               /\ o \notin Files(g + 1) => source[o] = None
               /\ o \in Files(g + 1) => \E i \in DOMAIN written : written[i] = o
               /\ o \in Files(g) => source[o] # None
               /\ source[o] \in {None, g}
    <3>1. /\ source[o] <= g /\ (o \notin Files(g) => source[o] = None) /\ (remote => source[o] # Torn)
          /\ o \in Files(g) => source[o] # None
      BY <1>6 DEF IInv, SourceInv
    <3>2. source[o] \in Int
      BY OfTheTree DEF None, Torn, Generations
    <3>3. source[o] \in {None, g}
      BY <1>1 DEF IInv, SourceInv
    <3>. QED
      BY <1>2, <1>3, <3>1, <3>2, <3>3
  <2>2. source[payoff] = g /\ source[manifest] = g
    BY <1>1, OfTheTree DEF IInv, SourceInv
  <2>3. g + 1 > 1 /\ g = (g + 1) - 1
    BY <1>2
  <2>4. \A i \in DOMAIN written : written[i] \in Files(g + 1)
    BY <1>3
  <2>. QED
    BY <1>1, <1>3, <1>4, <1>6, <2>1, <2>2, <2>3, <2>4 DEF SourceInv
<1>8. remote => served' = served
  BY <1>1 DEF served
<1>9. MirrorInv'
  <2>1. \A o \in Objects : mirror[o] <= g + 1
    BY <1>2 DEF IInv, Typed, MirrorInv, None, Generations
  <2>2. cleared <= g /\ cleared # g + 1
    BY <1>2, <1>6, OfTheTree DEF IInv, MirrorInv, Generations, None
  <2>3. remote => beside' = beside
    BY <1>1, OfTheTree
  <2>. QED
    BY <1>1, <1>4, <1>6, <2>1, <2>2, <2>3 DEF IInv, MirrorInv
<1>10. up /\ ~remote => beside'
  BY <1>1
<1>11. CacheInv'
  <2>1. \A key \in Keys : cache[key] <= g + 1
    BY <1>2 DEF IInv, Typed, CacheInv, None, Generations
  <2>2. root => up
    BY DEF IInv, CacheInv
  <2>3. remote => beside' = beside
    BY <1>1, OfTheTree
  <2>. QED
    BY <1>1, <1>4, <1>6, <1>8, <1>10, <2>1, <2>2, <2>3, OfTheTree DEF IInv, CacheInv
<1>12. up => Kept
  <2>1. (beside => beside') /\ (up => up')
    BY <1>1, OfTheTree
  <2>2. g <= build'.generation /\ Complete <= Complete'
    BY <1>2, <1>4, <1>6
  <2>3. UNCHANGED <<remote, cleared, atStart, source, mirror, up, root, cache>>
    BY <1>1
  <2>. QED
    BY <1>8, <1>10, <2>1, <2>2, <2>3 DEF Kept
<1>13. \A r \in Requests : ThreadInv(ask[r])'
  BY <1>1, <1>2, <1>4, <1>6, <1>12, Background
<1>. QED
  BY <1>5, <1>7, <1>9, <1>11, <1>13 DEF IInv

\* A file that is opened is torn, and is still to write.
LEMMA OpenFileKeeps ==
  ASSUME IInv, OpenFile
  PROVE  IInv'
<1>. DEFINE o == Head(build.left)
<1>1. /\ ~remote /\ build.left # <<>>
      /\ source' = [source EXCEPT ![o] = Torn]
      /\ UNCHANGED <<remote, build, mirror, cleared, up, root, cache, ask, atStart, beside, faults>>
  BY DEF OpenFile
<1>2. o = build.left[1] /\ 1 \in DOMAIN build.left /\ o \in Objects
  BY <1>1, OfTheTree
<1>. HIDE DEF o
<1>3. /\ source' \in [Objects -> {None, Torn} \cup Generations]
      /\ \A other \in Objects : source'[other] = IF other = o THEN Torn ELSE source[other]
  BY <1>1, <1>2, OfTheTree
<1>4. served' = served /\ Complete' = Complete
  BY <1>1 DEF served, Complete
<1>5. Typed'
  BY <1>1, <1>3 DEF IInv, Typed
<1>6. SourceInv'
  <2>1. o \in Files(build.generation)
    BY <1>2 DEF IInv, SourceInv
  <2>2. Torn <= build.generation /\ Torn # build.generation /\ Torn # None
    BY OfTheTree DEF Torn, None
  <2>. QED
    BY <1>1, <1>2, <1>3, <1>4, <2>1, <2>2, OfTheTree DEF IInv, SourceInv
<1>7. MirrorInv' /\ CacheInv'
  BY <1>1, <1>4 DEF IInv, MirrorInv, CacheInv
<1>8. up => Kept
  <2>1. \A other \in Objects : source[other] # None => source'[other] # None
    BY <1>3 DEF None, Torn
  <2>. QED
    BY <1>1, <1>4, <2>1, OfTheTree DEF Kept
<1>9. \A r \in Requests : ThreadInv(ask[r])'
  BY <1>1, <1>4, <1>8, OfTheTree, Background
<1>. QED
  BY <1>5, <1>6, <1>7, <1>9 DEF IInv

\* A file that is closed is of the build, which ends with its manifest.
LEMMA CloseFileKeeps ==
  ASSUME IInv, CloseFile
  PROVE  IInv'
<1>. DEFINE g == build.generation
            left == build.left
            o == Head(left)
<1>1. /\ ~remote /\ left # <<>>
      /\ source' = [source EXCEPT ![o] = g]
      /\ build' = [build EXCEPT !.left = Tail(@)]
      /\ UNCHANGED <<remote, mirror, cleared, up, root, cache, ask, atStart, beside, faults>>
  BY DEF CloseFile
<1>2. left \in Seq(Objects) /\ g \in Generations /\ g \in Nat /\ Len(left) \in Nat \ {0}
  BY <1>1, OfTheTree
<1>3. /\ o = left[1] /\ o \in Objects /\ DOMAIN left = 1..Len(left)
      /\ Tail(left) \in Seq(Objects) /\ Len(Tail(left)) = Len(left) - 1
      /\ DOMAIN Tail(left) = 1..(Len(left) - 1)
      /\ \A i \in 1..(Len(left) - 1) : Tail(left)[i] = left[i + 1]
  BY <1>1, <1>2, HeadTailProperties
<1>4. build'.generation = g /\ build'.left = Tail(left)
      /\ build' \in [generation : Generations, left : Seq(Objects)]
  BY <1>1, <1>3, OfTheTree
<1>. HIDE DEF o, g, left
<1>5. /\ source' \in [Objects -> {None, Torn} \cup Generations]
      /\ \A other \in Objects : source'[other] = IF other = o THEN g ELSE source[other]
  BY <1>1, <1>2, <1>3, OfTheTree
<1>6. Typed'
  BY <1>1, <1>4, <1>5 DEF IInv, Typed
<1>7. /\ \A other \in Objects :
           /\ source[other] <= g
           /\ other \notin Files(g) => source[other] = None
           /\ other \in Files(g) => source[other] = g \/ \E i \in 1..Len(left) : left[i] = other
           /\ other \in Files(Complete) => source[other] # None
           /\ source[other] \in {None, Torn, g - 1, g}
      /\ \A i \in 1..Len(left) : left[i] \in Files(g)
      /\ source[payoff] \in {Torn, g - 1, g} /\ g > 1
      /\ source[manifest] \in {Torn, Complete}
      /\ \A i \in 1..(Len(left) - 1) : left[i] # manifest
  BY <1>1, <1>3 DEF IInv, SourceInv, g, left
<1>8. SourceInv'
  <2>1. o \in Files(g)
    BY <1>2, <1>3, <1>7
  <2>2. ASSUME NEW other \in Objects, other \in Files(g), other # o, source[other] # g
        PROVE  \E i \in 1..(Len(left) - 1) : Tail(left)[i] = other
    <3>1. PICK i \in 1..Len(left) : left[i] = other
      BY <1>7, <2>2
    <3>2. i - 1 \in 1..(Len(left) - 1) /\ (i - 1) + 1 = i
      BY <1>2, <1>3, <2>2, <3>1
    <3>. QED
      BY <1>3, <3>1, <3>2
  <2>3. \A i \in 1..(Len(left) - 1) : i + 1 \in 1..Len(left) /\ Tail(left)[i] \in Files(g)
    BY <1>2, <1>3, <1>7
  <2>4. source'[manifest] \in {Torn, Complete'}
    <3>1. Complete = g - 1 /\ Complete' = IF Tail(left) = <<>> THEN g ELSE g - 1
      BY <1>1, <1>4 DEF Complete, g, left
    <3>2. CASE Tail(left) # <<>>
      <4>1. 1 \in 1..(Len(left) - 1)
        BY <1>2, <1>3, <3>2
      <4>2. o # manifest
        BY <1>3, <1>7, <4>1
      <4>. QED
        BY <1>5, <1>7, <3>1, <3>2, <4>2, OfTheTree
    <3>3. CASE Tail(left) = <<>>
      <4>1. Len(left) = 1
        <5>1. Len(<<>>) = 0
          OBVIOUS
        <5>2. Len(Tail(left)) = 0
          BY <3>3, <5>1
        <5>3. Len(Tail(left)) = Len(left) - 1
          BY <1>3
        <5>. QED
          BY <1>2, <5>2, <5>3
      <4>2. source[manifest] # g
        BY <1>2, <1>7, <3>1 DEF Torn
      <4>3. o = manifest
        BY <1>3, <1>7, <4>1, <4>2, OfTheTree DEF g
      <4>. QED
        BY <1>5, <3>1, <3>3, <4>3, OfTheTree
    <3>. QED
      BY <3>2, <3>3
  <2>5. \A i \in 1..(Len(Tail(left)) - 1) : Tail(left)[i] # manifest
    <3>1. \A i \in 1..(Len(Tail(left)) - 1) : i + 1 \in 1..(Len(left) - 1) /\ i \in 1..(Len(left) - 1)
      BY <1>2, <1>3
    <3>. QED
      BY <1>3, <1>7, <3>1
  <2>6. \A other \in Objects :
          /\ source'[other] <= g
          /\ other \notin Files(g) => source'[other] = None
          /\ other \in Files(g) => source'[other] = g \/ \E i \in 1..(Len(left) - 1) : Tail(left)[i] = other
          /\ source'[other] \in {None, Torn, g - 1, g}
    BY <1>2, <1>5, <1>7, <2>1, <2>2
  <2>7. source'[payoff] \in {Torn, g - 1, g}
    BY <1>5, <1>7, OfTheTree
  <2>8. \A other \in Objects : other \in Files(Complete') => source'[other] # None
    <3>1. Complete' = g \/ Complete' = Complete
      BY <1>1, <1>4 DEF Complete, g, left
    <3>2. Complete' = g => Tail(left) = <<>>
      BY <1>2, <1>4 DEF Complete
    <3>3. g # None
      BY <1>2 DEF None, Generations
    <3>4. Tail(left) = <<>> => 1..(Len(left) - 1) = {}
      <4>1. Len(<<>>) = 0
        OBVIOUS
      <4>. QED
        BY <1>2, <1>3, <4>1
    <3>5. CASE Complete' = g
      <4>1. \A other \in Objects : other \in Files(g) => source'[other] = g
        BY <2>6, <3>2, <3>4, <3>5
      <4>. QED
        BY <3>3, <3>5, <4>1
    <3>6. CASE Complete' = Complete
      <4>1. \A other \in Objects : other \in Files(Complete) => source[other] # None
        BY <1>7
      <4>. QED
        BY <1>5, <3>3, <3>6, <4>1
    <3>. QED
      BY <3>1, <3>5, <3>6
  <2>9. source'[payoff] \in {Torn, build'.generation - 1, build'.generation}
    BY <1>4, <2>7
  <2>10. \A other \in Objects :
           /\ source'[other] <= build'.generation
           /\ other \notin Files(build'.generation) => source'[other] = None
           /\ other \in Files(build'.generation) =>
                source'[other] = build'.generation \/ \E i \in DOMAIN build'.left : build'.left[i] = other
           /\ source'[other] \in {None, Torn, build'.generation - 1, build'.generation}
    BY <1>3, <1>4, <2>6
  <2>11. \A i \in DOMAIN build'.left : build'.left[i] \in Files(build'.generation)
    BY <1>3, <1>4, <2>3
  <2>12. build'.generation > 1 /\ ~remote'
    BY <1>1, <1>4, <1>7
  <2>13. \A i \in 1..(Len(build'.left) - 1) : build'.left[i] # manifest
    BY <1>4, <2>5
  <2>. QED
    BY <2>4, <2>8, <2>9, <2>10, <2>11, <2>12, <2>13 DEF SourceInv
<1>9. served' = served /\ Complete <= Complete' /\ Complete' \in Int /\ Complete \in Int
  BY <1>1, <1>2, <1>4 DEF served, Complete, g
<1>10. MirrorInv'
  <2>1. cleared # g
    BY <1>1 DEF IInv, MirrorInv, g, left
  <2>2. cleared \in Int /\ atStart \in Int
    BY OfTheTree DEF Generations, None
  <2>. QED
    BY <1>1, <1>4, <1>9, <2>1, <2>2 DEF IInv, MirrorInv, g
<1>11. CacheInv'
  <2>1. ~remote => cache[<<"domain", 0>>] <= Complete'
    <3>1. cache[<<"domain", 0>>] \in Int
      BY DEF IInv, Typed, Keys, None, Generations
    <3>. QED
      BY <1>9, <3>1 DEF IInv, CacheInv
  <2>2. up => beside
    BY <1>1, OfTheTree DEF IInv, CacheInv, left
  <2>. QED
    BY <1>1, <1>4, <1>9, <2>1, <2>2 DEF IInv, CacheInv, g
<1>12. up => Kept
  <2>1. \A other \in Objects : source[other] # None => source'[other] # None
    BY <1>2, <1>5 DEF None, Generations
  <2>. QED
    BY <1>1, <1>2, <1>4, <1>9, <2>1, OfTheTree DEF Kept, g
<1>13. \A r \in Requests : ThreadInv(ask[r])'
  BY <1>1, <1>2, <1>4, <1>9, <1>12, Background
<1>. QED
  BY <1>6, <1>8, <1>10, <1>11, <1>13 DEF IInv

\* An object of a bucket is put under a process that has mirrored another build.
LEMMA PutObjectKeeps ==
  ASSUME IInv, PutObject
  PROVE  IInv'
<1>. DEFINE g == build.generation
            left == build.left
<1>1. /\ remote
      /\ UNCHANGED <<remote, mirror, cleared, up, root, cache, ask, atStart, beside, faults>>
  BY DEF PutObject
<1>2. PICK at \in DOMAIN left : /\ at <= Uploads
                                /\ source' = [source EXCEPT ![left[at]] = g]
                                /\ build' = [build EXCEPT !.left = RemoveAt(left, at)]
  BY DEF PutObject
<1>3. /\ left \in Seq(Objects) /\ g \in Generations /\ g \in Nat /\ Len(left) \in Nat
      /\ DOMAIN left = 1..Len(left) /\ at \in 1..Len(left) /\ left[at] \in Objects
  BY <1>2, OfTheTree
<1>4. /\ RemoveAt(left, at) \in Seq(Objects) /\ Len(RemoveAt(left, at)) = Len(left) - 1
      /\ \A i \in 1..(Len(left) - 1) : RemoveAt(left, at)[i] = left[IF i < at THEN i ELSE i + 1]
  BY <1>3, Removed
<1>. DEFINE rest == RemoveAt(left, at)
<1>5. /\ build'.generation = g /\ build'.left = rest
      /\ build' \in [generation : Generations, left : Seq(Objects)]
      /\ DOMAIN rest = 1..(Len(left) - 1)
  BY <1>2, <1>3, <1>4, OfTheTree
<1>. HIDE DEF g, left, rest
<1>6. /\ source' \in [Objects -> {None, Torn} \cup Generations]
      /\ \A other \in Objects : source'[other] = IF other = left[at] THEN g ELSE source[other]
  BY <1>2, <1>3, OfTheTree
<1>7. Typed'
  BY <1>1, <1>5, <1>6 DEF IInv, Typed
<1>8. /\ \A other \in Objects :
           /\ source[other] <= g /\ source[other] # Torn
           /\ other \notin Files(g) => source[other] = None
           /\ other \in Files(g) => source[other] = g \/ \E i \in 1..Len(left) : left[i] = other
           /\ other \in Files(Complete) => source[other] # None
           /\ source[other] \in {None, Torn, g - 1, g}
      /\ \A i \in 1..Len(left) : left[i] \in Files(g)
      /\ source[payoff] \in {Torn, g - 1, g} /\ g > 1
  BY <1>1, <1>3 DEF IInv, SourceInv, g, left
<1>9. SourceInv'
  <2>1. ASSUME NEW other \in Objects, other \in Files(g), other # left[at], source[other] # g
        PROVE  \E i \in 1..(Len(left) - 1) : rest[i] = other
    <3>1. PICK i \in 1..Len(left) : left[i] = other
      BY <1>8, <2>1
    <3>2. CASE i < at
      <4>1. i \in 1..(Len(left) - 1)
        BY <1>3, <3>2
      <4>. QED
        BY <1>4, <3>1, <3>2, <4>1 DEF rest
    <3>3. CASE ~(i < at)
      <4>1. i - 1 \in 1..(Len(left) - 1) /\ ~(i - 1 < at) /\ (i - 1) + 1 = i
        BY <1>3, <2>1, <3>1, <3>3
      <4>2. rest[i - 1] = left[IF i - 1 < at THEN i - 1 ELSE (i - 1) + 1]
        BY <1>4, <4>1 DEF rest
      <4>. QED
        BY <3>1, <4>1, <4>2
    <3>. QED
      BY <3>2, <3>3
  <2>2. \A i \in 1..(Len(left) - 1) : rest[i] \in Files(g)
    <3>1. \A i \in 1..(Len(left) - 1) : (IF i < at THEN i ELSE i + 1) \in 1..Len(left)
      BY <1>3
    <3>. QED
      BY <1>4, <1>8, <3>1 DEF rest
  <2>3. g # Torn /\ left[at] \in Files(g)
    BY <1>3, <1>8 DEF Torn
  <2>4. \A other \in Objects :
          /\ source'[other] <= g /\ source'[other] # Torn
          /\ other \notin Files(g) => source'[other] = None
          /\ other \in Files(g) => source'[other] = g \/ \E i \in 1..(Len(left) - 1) : rest[i] = other
          /\ source'[other] \in {None, Torn, g - 1, g}
    BY <1>3, <1>6, <1>8, <2>1, <2>3
  <2>5. source'[payoff] \in {Torn, g - 1, g}
    BY <1>6, <1>8, OfTheTree
  <2>6. \A other \in Objects : other \in Files(Complete') => source'[other] # None
    <3>1. Complete' = g \/ Complete' = Complete
      BY <1>2, <1>5 DEF Complete, g, left
    <3>2. Complete' = g => 1..(Len(left) - 1) = {}
      <4>1. rest = <<>> \/ Complete' = g - 1
        BY <1>5 DEF Complete
      <4>. QED
        BY <1>3, <1>4, <4>1 DEF rest
    <3>3. g # None
      BY <1>3 DEF None, Generations
    <3>. QED
      BY <1>6, <1>8, <2>4, <3>1, <3>2, <3>3
  <2>7. source'[payoff] \in {Torn, build'.generation - 1, build'.generation}
    BY <1>5, <2>5
  <2>. QED
    BY <1>1, <1>5, <1>8, <2>2, <2>4, <2>6, <2>7 DEF SourceInv
<1>10. /\ served' = served /\ Complete <= Complete' /\ Complete' \in Int
  <2>1. served' = served
    BY <1>1 DEF served
  <2>2. Complete = g - 1
    BY <1>3 DEF Complete, g, left
  <2>3. Complete' = g \/ Complete' = g - 1
    BY <1>5 DEF Complete
  <2>. QED
    BY <1>3, <2>1, <2>2, <2>3
<1>11. cleared # g /\ cleared \in Int /\ atStart \in Int
  <2>1. left # <<>>
    BY <1>3
  <2>. QED
    BY <2>1, OfTheTree DEF IInv, MirrorInv, left, g, Generations, None
<1>12. MirrorInv' /\ CacheInv'
  <2>1. Complete \in Int
    BY OfTheTree
  <2>. QED
    BY <1>1, <1>5, <1>10, <1>11, <2>1 DEF IInv, MirrorInv, CacheInv, g
<1>13. up => Kept
  <2>1. \A other \in Objects : source[other] # None => source'[other] # None
    BY <1>3, <1>6 DEF None, Generations
  <2>. QED
    BY <1>1, <1>3, <1>5, <1>10, <2>1 DEF Kept, g
<1>14. \A r \in Requests : ThreadInv(ask[r])'
  BY <1>1, <1>3, <1>5, <1>10, <1>13, Background
<1>. QED
  BY <1>7, <1>9, <1>12, <1>14 DEF IInv

\* The operator clears a mirror that no process uses.
LEMMA ClearKeeps ==
  ASSUME IInv, Clear
  PROVE  IInv'
<1>1. /\ remote /\ ~up /\ mirror' = [o \in Objects |-> None] /\ beside' = FALSE
      /\ cleared' = IF build.left = <<>> THEN build.generation ELSE None
      /\ UNCHANGED <<remote, source, build, up, root, cache, ask, atStart, faults>>
  BY DEF Clear
<1>2. ~root /\ \A key \in Keys : cache[key] = None
  BY <1>1 DEF IInv, CacheInv
<1>3. cleared' \in {None} \cup Generations
  BY <1>1, OfTheTree
<1>4. Typed'
  BY <1>1, <1>3 DEF IInv, Typed
<1>5. Complete' = Complete
  BY <1>1 DEF Complete
<1>6. SourceInv'
  BY <1>1, <1>5 DEF IInv, SourceInv
<1>7. MirrorInv'
  <2>1. \A o \in Objects : mirror'[o] = None
    BY <1>1
  <2>2. /\ None <= build.generation /\ None # build.generation
        /\ cleared' <= Complete
    BY <1>1, OfTheTree DEF None, Complete, Generations
  <2>. QED
    BY <1>1, <1>2, <1>5, <2>1, <2>2 DEF MirrorInv
<1>8. CacheInv'
  BY <1>1, <1>2, <1>5 DEF IInv, CacheInv
<1>9. ASSUME NEW r \in Requests
      PROVE  ThreadInv(ask[r])'
  <2>1. ask'[r] = Idle
    BY <1>1 DEF IInv, ThreadInv
  <2>. QED
    BY <2>1, Waiting
<1>. QED
  BY <1>4, <1>6, <1>7, <1>8, <1>9 DEF IInv

\* A process starts with what was mirrored before it, and nothing else.
LEMMA StartKeeps ==
  ASSUME IInv, Start
  PROVE  IInv'
<1>1. /\ ~up /\ up' = TRUE /\ atStart' = Complete
      /\ beside' = IF remote THEN beside ELSE build.left # <<>>
      /\ UNCHANGED <<remote, source, build, mirror, cleared, root, cache, ask, faults>>
  BY DEF Start
<1>2. ~root /\ \A key \in Keys : cache[key] = None
  BY <1>1 DEF IInv, CacheInv
<1>3. Typed'
  <2>1. beside' \in BOOLEAN /\ atStart' \in Generations
    BY <1>1, OfTheTree
  <2>. QED
    BY <1>1, <2>1 DEF IInv, Typed
<1>4. Complete' = Complete /\ Complete \in Int
  BY <1>1, OfTheTree DEF Complete
<1>5. SourceInv'
  BY <1>1, <1>4 DEF IInv, SourceInv
<1>6. MirrorInv'
  BY <1>1, <1>2, <1>4 DEF IInv, MirrorInv
<1>7. CacheInv'
  <2>1. {<<"domain", 0>>, <<"corners", 0>>, <<"pairs", 0>>} \subseteq Keys
    BY DEF Keys
  <2>2. up' /\ ~remote' /\ ~beside' => build'.left = <<>>
    BY <1>1
  <2>. QED
    BY <1>1, <1>2, <1>4, <2>1, <2>2 DEF IInv, CacheInv
<1>8. ASSUME NEW r \in Requests
      PROVE  ThreadInv(ask[r])'
  <2>1. ask'[r] = Idle
    BY <1>1 DEF IInv, ThreadInv
  <2>. QED
    BY <2>1, Waiting
<1>. QED
  BY <1>3, <1>5, <1>6, <1>7, <1>8 DEF IInv

\* A process that is killed leaves what it mirrored, and nothing else.
LEMMA KillKeeps ==
  ASSUME IInv, Kill
  PROVE  IInv'
<1>1. /\ up' = FALSE /\ root' = FALSE /\ cache' = [key \in Keys |-> None]
      /\ ask' = [r \in Requests |-> Idle] /\ faults < MaxFaults /\ faults' = faults + 1
      /\ UNCHANGED <<remote, source, build, mirror, cleared, atStart, beside>>
  BY DEF Kill
<1>2. Typed'
  <2>1. Idle \in Thread
    BY IdleIsAThread DEF Phases
  <2>2. faults' \in 0..MaxFaults
    BY <1>1 DEF IInv, Typed
  <2>. QED
    BY <1>1, <2>1, <2>2 DEF IInv, Typed
<1>3. SourceInv' /\ MirrorInv'
  BY <1>1 DEF IInv, SourceInv, MirrorInv, Complete
<1>4. <<"pairs", 0>> \in Keys
  BY DEF Keys
<1>5. CacheInv'
  <2>1. \A key \in Keys : cache'[key] = None
    BY <1>1
  <2>2. 0 <= build.generation /\ 0 <= Complete /\ Complete' = Complete
    BY <1>1, OfTheTree DEF Complete, Generations
  <2>3. <<"domain", 0>> \in Keys /\ <<"corners", 0>> \in Keys
    BY DEF Keys
  <2>. QED
    BY <1>1, <1>4, <2>1, <2>2, <2>3 DEF CacheInv, None
<1>6. ASSUME NEW r \in Requests
      PROVE  ThreadInv(ask[r])'
  <2>1. ask'[r] = Idle
    BY <1>1
  <2>. QED
    BY <2>1, Waiting
<1>. QED
  BY <1>2, <1>3, <1>5, <1>6 DEF IInv

------------------------------------------------------------------------------
(* The theorems. *)

\* A process that is yet to start serves the first build, whole.
LEMMA InitIsSound ==
  ASSUME Init
  PROVE  IInv
<1>1. 1 \in Generations
  BY DEF Generations
<1>2. /\ Written[1] \in Seq(Objects) /\ Files(1) \subseteq Objects
      /\ payoff \in Files(1) /\ manifest \in Files(1) /\ payoff \in Objects /\ manifest \in Objects
  BY <1>1, FilesOfABuild, FilesAreObjects
<1>3. /\ remote \in BOOLEAN /\ build = [generation |-> 1, left |-> <<>>]
      /\ mirror = [o \in Objects |-> None] /\ cache = [k \in Keys |-> None]
      /\ cleared = 1 /\ atStart = 1 /\ beside = FALSE /\ up = FALSE /\ root = FALSE
      /\ ask = [r \in Requests |-> Idle] /\ faults = 0
      /\ source = [o \in Objects |-> IF o \in Files(1) THEN 1 ELSE None]
  BY DEF Init, Files
<1>4. Typed
  <2>1. Idle \in Thread
    BY IdleIsAThread DEF Phases
  <2>2. build \in [generation : Generations, left : Seq(Objects)]
    BY <1>1, <1>3
  <2>3. source \in [Objects -> {None, Torn} \cup Generations]
    BY <1>1, <1>3
  <2>4. /\ mirror \in [Objects -> {None} \cup Generations] /\ faults \in 0..MaxFaults
        /\ cache \in [Keys -> {None} \cup Generations]
    BY <1>3
  <2>5. ask \in [Requests -> Thread]
    BY <1>3, <2>1
  <2>. QED
    BY <1>1, <1>3, <2>2, <2>3, <2>4, <2>5 DEF Typed
<1>5. build.generation = 1 /\ build.left = <<>>
  BY <1>3
<1>6. SourceInv
  <2>3. Complete = 1
    BY <1>5 DEF Complete
  <2>1. \A o \in Objects : source[o] = IF o \in Files(1) THEN 1 ELSE None
    BY <1>3
  <2>2. DOMAIN build.left = {}
    BY <1>5
  <2>. QED
    BY <1>2, <1>5, <2>1, <2>2, <2>3 DEF SourceInv, None, Torn
<1>7. MirrorInv
  BY <1>3, <1>5 DEF MirrorInv, Complete, None
<1>8. CacheInv
  <2>1. \A key \in Keys : cache[key] = 0
    BY <1>3 DEF None
  <2>2. {<<"domain", 0>>, <<"corners", 0>>, <<"pairs", 0>>} \subseteq Keys /\ Complete = 1
    BY <1>5 DEF Keys, Complete
  <2>. QED
    BY <1>3, <1>5, <2>1, <2>2 DEF CacheInv, None
<1>9. \A r \in Requests : ThreadInv(ask[r])
  <2>1. Idle.at = "idle" /\ Idle.got = {}
    BY DEF Idle
  <2>. QED
    BY <1>3, <2>1 DEF ThreadInv, Fetching, Reading, Steady, Spanning
<1>. QED
  BY <1>4, <1>6, <1>7, <1>8, <1>9 DEF IInv

\* Every step keeps the invariant.
LEMMA StepKeeps ==
  ASSUME IInv, [Next]_vars
  PROVE  IInv'
<1>1. CASE Next
  BY <1>1, StartBuildKeeps, OpenFileKeeps, CloseFileKeeps, PutObjectKeeps, ClearKeeps, StartKeeps,
     KillKeeps, AskKeeps, LoadFailsKeeps, ListObjectsKeeps, FetchKeeps, LoadKeeps, FetchedKeeps,
     RememberedKeeps, UnknownKeeps, MissKeeps, ReadKeeps, InsertKeeps, DeliverKeeps
     DEF Next, Writes, Handle
<1>2. CASE UNCHANGED vars
  <2>1. UNCHANGED <<remote, source, build, mirror, cleared, up, root, cache, ask, atStart, beside, faults>>
    BY <1>2 DEF vars
  <2>2. served' = served /\ Complete' = Complete
    BY <2>1 DEF served, Complete
  <2>3. Typed' /\ SourceInv' /\ MirrorInv' /\ CacheInv'
    BY <2>1, <2>2 DEF IInv, Typed, SourceInv, MirrorInv, CacheInv
  <2>4. ASSUME NEW r \in Requests
        PROVE  ThreadInv(ask[r])'
    <3>1. /\ At(ask[r], 1)' <=> At(ask[r], 1)
          /\ (\E i \in 1..5 : At(ask[r], i))' <=> (\E i \in 1..5 : At(ask[r], i))
          /\ required(ask[r])' <=> required(ask[r])
      BY <2>1 DEF At, required
    <3>2. ThreadInv(ask[r])
      BY DEF IInv
    <3>. QED
      BY <2>1, <2>2, <3>1, <3>2 DEF ThreadInv, Fetching, Reading, Steady, Spanning
  <2>. QED
    BY <2>3, <2>4 DEF IInv
<1>. QED
  BY <1>1, <1>2

\* In every reachable state each file, each mirrored object, each entry of a
\* cache and each value a thread holds is of the build it should be of.
THEOREM AlwaysIInv == Spec => []IInv
<1>1. Init => IInv
  BY InitIsSound
<1>2. IInv /\ [Next]_vars => IInv'
  BY StepKeeps
<1>. QED
  BY <1>1, <1>2, PTL DEF Spec

\* Every state is of its type, for any threads, days, builds and faults.
THEOREM TypeCorrect == Spec => []TypeOK
<1>1. IInv => TypeOK
  BY TypedIsTypeOK DEF IInv
<1>. QED
  BY <1>1, AlwaysIInv, PTL

\* "The store is immutable for the life of the process" (catalog.pairs,
\* minute_slice), for any number of threads, crashes, failed downloads and
\* rebuilds: an answer is of one build, unless the tree was written to while it
\* was read into the process.  A bucket that is rebuilt under a process that has
\* mirrored it, or between two processes of which the second downloads nothing
\* or the mirror was cleared, mixes no answer.
THEOREM AlwaysOneBuild == Spec => []AnswersAreOfOneBuild
<1>1. IInv => AnswersAreOfOneBuild
  BY DEF IInv, ThreadInv, Reading, Steady, AnswersAreOfOneBuild
<1>. QED
  BY <1>1, AlwaysIInv, PTL

\* The corners a process remembers are no older than the bounds it remembers
\* (forward_domain), also where a directory is rebuilt while it is read.
THEOREM AlwaysCornersSpan == Spec => []CornersSpanTheDomain
<1>1. IInv => CornersSpanTheDomain
  <2>1. SUFFICES ASSUME IInv, ~(remote /\ beside),
                        cache[<<"domain", 0>>] # None, cache[<<"corners", 0>>] # None
                 PROVE  cache[<<"domain", 0>>] <= cache[<<"corners", 0>>]
    BY DEF CornersSpanTheDomain
  <2>2. <<"domain", 0>> \in Keys /\ <<"corners", 0>> \in Keys
    BY DEF Keys
  <2>3. CASE remote
    <3>1. root /\ ~beside
      BY <2>1, <2>2, <2>3 DEF IInv, CacheInv
    <3>2. cache[<<"domain", 0>>] = served /\ cache[<<"corners", 0>>] = served
      BY <2>1, <2>2, <3>1 DEF IInv, CacheInv
    <3>3. cache[<<"domain", 0>>] \in Nat
      BY <2>1, <2>2 DEF IInv, Typed, None, Generations
    <3>. QED
      BY <3>2, <3>3
  <2>4. CASE ~remote
    BY <2>1, <2>4 DEF IInv, CacheInv
  <2>. QED
    BY <2>3, <2>4
<1>. QED
  BY <1>1, AlwaysIInv, PTL

\* A thread that is told a day is not built was told by a manifest that lists
\* all the days the tree listed when the process started.
LEMMA WhatIsUnknown ==
  ASSUME IInv, NEW r \in Requests, Unknown(r), ~(remote /\ beside)
  PROVE  ask[r].day \notin Listed(atStart)
<1>1. /\ ask[r].at = "read" /\ ask[r] \in Thread /\ Reading(ask[r]) /\ Steady(ask[r])
      /\ atStart \in Generations
  BY OfAThread DEF Unknown
<1>2. root
  BY <1>1 DEF Reading
<1>3. PICK pair \in ask[r].got : pair[1] = <<"pairs", 0>> /\ ask[r].day \notin Listed(pair[2])
  BY DEF Unknown, required
<1>4. pair[2] \in Generations
  BY <1>1 DEF Thread
<1>5. CASE remote
  <2>1. pair[2] = cleared
    BY <1>1, <1>2, <1>3, <1>5 DEF Steady, served
  <2>. QED
    BY <1>2, <1>3, <1>5, <2>1, MirroredBuild
<1>6. CASE ~remote
  <2>1. atStart <= pair[2]
    BY <1>1, <1>3, <1>6 DEF Steady
  <2>. QED
    BY <1>1, <1>3, <1>4, <2>1 DEF Listed, Days, Generations
<1>. QED
  BY <1>5, <1>6

\* Of a directory, a request is refused for a file only while the tree is not
\* whole, and of a bucket only where it was rebuilt while it was mirrored
\* (MissingManifest): not for a mirror that another thread is still filling, nor
\* for a refusal before it.  And a day is said not to be built (UnknownDate) only
\* where the tree did not list it when the process started.
THEOREM NeverInvented == Spec => NothingMissingIsInvented
<1>1. ASSUME IInv, [Next]_vars
      PROVE  [\A r \in Requests :
                /\ ask[r].at = "miss" /\ ask'[r].at = "refused" => IF remote THEN beside ELSE ~Whole
                /\ ask[r].at = "read" /\ ask'[r].at = "unknown" =>
                     (remote /\ beside) \/ ask[r].day \notin Listed(atStart)]_vars
  <2>1. SUFFICES ASSUME NEW r \in Requests, Next,
                        \/ ask[r].at = "miss" /\ ask'[r].at = "refused"
                        \/ ask[r].at = "read" /\ ask'[r].at = "unknown"
                 PROVE  /\ ask[r].at = "miss" => IF remote THEN beside ELSE ~Whole
                        /\ ask[r].at = "read" => (remote /\ beside) \/ ask[r].day \notin Listed(atStart)
    BY <1>1
  <2>2. ask \in [Requests -> Thread] /\ remote \in BOOLEAN
    BY <1>1 DEF IInv, Typed
  <2>3. CASE \E q \in Requests : q # r /\ (Ask(q) \/ LoadFails(q) \/ Handle(q))
    <3>1. PICK q \in Requests : q # r /\ (Ask(q) \/ LoadFails(q) \/ Handle(q))
      BY <2>3
    <3>2. ask'[r] = ask[r]
      BY <2>2, <3>1
         DEF Ask, Begins, LoadFails, Handle, ListObjects, Fetch, Load, Fetched, Remembered, Unknown,
             Miss, Read, Insert, Deliver
    <3>. QED
      BY <2>1, <3>2
  <2>4. CASE StartBuild \/ Writes \/ Clear \/ Start
    BY <2>1, <2>4 DEF StartBuild, Writes, OpenFile, CloseFile, PutObject, Clear, Start
  <2>5. CASE Kill
    BY <2>1, <2>5 DEF Kill, Idle
  <2>6. CASE Ask(r) \/ LoadFails(r) \/ Handle(r)
    <3>1. CASE ask[r].at = "miss"
      <4>1. Read(r)
        BY <2>6, <3>1
           DEF Ask, LoadFails, Handle, ListObjects, Fetch, Load, Fetched, Remembered, Unknown, Miss,
               Insert, Deliver
      <4>2. missing(r)
        BY <2>1, <2>2, <3>1, <4>1 DEF Read
      <4>. QED
        BY <1>1, <2>2, <3>1, <4>2, WhatIsRead
    <3>2. CASE ask[r].at = "read"
      <4>1. Remembered(r) \/ Unknown(r) \/ Miss(r)
        BY <2>6, <3>2
           DEF Ask, LoadFails, Handle, ListObjects, Fetch, Load, Fetched, Read, Insert, Deliver
      <4>2. Unknown(r)
        <5>1. ask[r] \in Thread /\ ask[r].at # "miss" /\ ask'[r].at = "unknown"
          BY <2>1, <2>2, <3>2
        <5>2. ~Miss(r)
          BY <2>2, <5>1 DEF Miss, Thread
        <5>3. ~Remembered(r)
          BY <2>2, <5>1 DEF Remembered, Took, Thread
        <5>. QED
          BY <4>1, <5>2, <5>3
      <4>. QED
        BY <1>1, <2>2, <3>2, <4>2, WhatIsUnknown
    <3>. QED
      BY <2>1, <3>1, <3>2
  <2>. QED
    BY <2>1, <2>3, <2>4, <2>5, <2>6 DEF Next
<1>. QED
  BY <1>1, AlwaysIInv, PTL DEF Spec, NothingMissingIsInvented
==============================================================================
