----------------------------- MODULE Grid_proofs -----------------------------
(* Proofs about the parts of MCGrid, for every network, every feeder and     *)
(* every number of jobs, versions, sweeps, meters and cases: the version     *)
(* store, the import and the validation of the network model (NetworkModel), *)
(* the analyses of the feeder (Analysis) and the outage cases (OMS).         *)
EXTENDS MCGrid, FiniteSetTheorems, TLAPS

-----------------------------------------------------------------------------
(* Numbers: the least, the largest, induction and recursion.                 *)

(* A set of natural numbers has a least element: the intervals up to its     *)
(* elements are subsets of a finite one, and the order of those has one.     *)
LEMMA Smallest ==
    ASSUME NEW S \in SUBSET Nat, S # {}
    PROVE  \E x \in S : \A y \in S : x <= y
<1>1. PICK k \in S : TRUE
  OBVIOUS
<1> DEFINE all == 1 .. k
           upto == {1 .. x : x \in {y \in S : y <= k}}
<1>2. IsFiniteSet(all)
  BY FS_Interval
<1>3. IsWellFoundedOn(StrictSubsetOrdering(all), SUBSET all)
  BY <1>2, FS_StrictSubsetOrderingWellFounded, FS_FiniteSubsetsOfFinite
<1>4. upto \subseteq SUBSET all /\ upto # {}
  <2>1. \A x \in S : x <= k => 1 .. x \subseteq 1 .. k
    BY <1>1
  <2>2. 1 .. k \in upto
    BY <1>1
  <2> QED  BY <2>1, <2>2
<1> HIDE DEF upto, all
<1>5. PICK m \in upto : \A y \in upto : ~ (<<y, m>> \in StrictSubsetOrdering(all))
  BY <1>3, <1>4, WFMin
<1>6. \A y \in upto : ~ (y \subseteq m /\ y # m)
  BY <1>4, <1>5 DEF StrictSubsetOrdering
<1>7. PICK x \in S : m = 1 .. x /\ x <= k
  BY <1>5 DEF upto
<1>8. ASSUME NEW y \in S, y < x PROVE FALSE
  <2>1. 1 .. y \in upto
    BY <1>7, <1>8 DEF upto
  <2>2. 1 .. y \subseteq m /\ x \in 1 .. x /\ x \notin 1 .. y
    BY <1>7, <1>8
  <2> QED  BY <1>6, <1>7, <2>1, <2>2
<1> QED  BY <1>8

(* A set of numbers that is bounded has a largest element.                   *)
LEMMA LargestOf ==
    ASSUME NEW k \in Nat, NEW S \in SUBSET (0 .. k), S # {}
    PROVE  \E x \in S : \A y \in S : x >= y
<1> DEFINE below == {k - x : x \in S}
<1>1. below \in SUBSET Nat /\ below # {}
  <2>1. PICK x \in S : k - x \in below
    OBVIOUS
  <2>2. \A y \in S : k - y \in Nat
    OBVIOUS
  <2> QED  BY <2>1, <2>2
<1> HIDE DEF below
<1>2. PICK m \in below : \A y \in below : m <= y
  BY <1>1, Smallest
<1>3. PICK x \in S : m = k - x
  BY <1>2 DEF below
<1>4. ASSUME NEW y \in S PROVE x >= y
  <2>1. k - y \in below
    BY DEF below
  <2> QED  BY <1>2, <1>3, <2>1
<1> QED  BY <1>4

(* Induction, over a set instead of a predicate.                             *)
LEMMA Induction ==
    ASSUME NEW S, 0 \in S, \A n \in Nat : n \in S => n + 1 \in S
    PROVE  \A n \in Nat : n \in S
<1> DEFINE others == Nat \ S
<1>1. SUFFICES ASSUME others # {} PROVE FALSE
  OBVIOUS
<1>2. PICK m \in others : \A y \in others : m <= y
  BY <1>1, Smallest
<1>3. m # 0 /\ m - 1 \in Nat /\ m - 1 \in S
  BY <1>2
<1>4. (m - 1) + 1 \in S
  BY <1>3
<1> QED  BY <1>2, <1>4

(* The function on the naturals that starts with first and goes on with F.   *)
GoesOn(g, Values, first, F) ==
    g \in [Nat -> Values] /\ g[0] = first /\ \A n \in Nat : g[n + 1] = F[<<n, g[n]>>]

(* Recursion: there is one. *)
LEMMA Recursion ==
    ASSUME NEW Values, NEW first \in Values, NEW F, \A n \in Nat, x \in Values : F[<<n, x>>] \in Values
    PROVE  \E g : GoesOn(g, Values, first, F)
<1> DEFINE Runs(m, g) ==
               g \in [0 .. m -> Values] /\ g[0] = first /\ \A n \in 0 .. m - 1 : g[n + 1] = F[<<n, g[n]>>]
           known == {m \in Nat : \E g : Runs(m, g)}
<1>1. 0 \in known
  <2>1. Runs(0, [n \in 0 .. 0 |-> first])
    OBVIOUS
  <2> QED  BY <2>1
<1>2. ASSUME NEW m \in Nat, m \in known PROVE m + 1 \in known
  <2>1. PICK g : Runs(m, g)
    BY <1>2
  <2> DEFINE h == [n \in 0 .. m + 1 |-> IF n = m + 1 THEN F[<<m, g[m]>>] ELSE g[n]]
  <2>2. g[m] \in Values /\ F[<<m, g[m]>>] \in Values
    BY <2>1
  <2>3. h \in [0 .. m + 1 -> Values] /\ h[0] = first
    BY <2>1, <2>2
  <2>4. ASSUME NEW n \in 0 .. (m + 1) - 1 PROVE h[n + 1] = F[<<n, h[n]>>]
    <3>1. n \in 0 .. m + 1 /\ n + 1 \in 0 .. m + 1 /\ n # m + 1
      BY <2>4
    <3>2. h[n] = g[n]
      BY <3>1
    <3>3. CASE n = m
      BY <3>1, <3>2, <3>3
    <3>4. CASE n # m
      <4>1. n \in 0 .. m - 1 /\ n + 1 # m + 1
        BY <2>4, <3>4
      <4>2. h[n + 1] = g[n + 1]
        BY <3>1, <4>1
      <4> QED  BY <2>1, <3>2, <4>1, <4>2
    <3> QED  BY <3>3, <3>4
  <2> HIDE DEF h
  <2>5. Runs(m + 1, h)
    BY <2>3, <2>4
  <2>6. m + 1 \in Nat
    OBVIOUS
  <2> QED  BY <2>5, <2>6
<1>3. \A m \in Nat : m \in known
  <2> HIDE DEF known
  <2> QED  BY <1>1, <1>2, Induction
<1> DEFINE run == [m \in Nat |-> CHOOSE g : Runs(m, g)]
<1>4. \A m \in Nat : Runs(m, run[m])
  BY <1>3
<1> DEFINE agreed == {n \in Nat : \A m \in Nat : n <= m => run[m][n] = run[n][n]}
<1>5. 0 \in agreed
  BY <1>4
<1>6. ASSUME NEW n \in Nat, n \in agreed PROVE n + 1 \in agreed
  <2> HIDE DEF run
  <2>1. SUFFICES ASSUME NEW m \in Nat, n + 1 <= m PROVE run[m][n + 1] = run[n + 1][n + 1]
    OBVIOUS
  <2>2. run[m][n + 1] = F[<<n, run[m][n]>>] /\ run[n + 1][n + 1] = F[<<n, run[n + 1][n]>>]
    BY <1>4, <2>1
  <2>3. run[m][n] = run[n][n] /\ run[n + 1][n] = run[n][n]
    BY <1>6, <2>1
  <2> QED  BY <2>2, <2>3
<1>7. \A n \in Nat : n \in agreed
  <2> HIDE DEF agreed
  <2> QED  BY <1>5, <1>6, Induction
<1> DEFINE all == [n \in Nat |-> run[n][n]]
<1>8. all \in [Nat -> Values] /\ all[0] = first
  <2> HIDE DEF run
  <2> QED  BY <1>4
<1>9. ASSUME NEW n \in Nat PROVE all[n + 1] = F[<<n, all[n]>>]
  <2> HIDE DEF run
  <2>1. run[n + 1][n + 1] = F[<<n, run[n + 1][n]>>]
    BY <1>4
  <2>2. run[n + 1][n] = run[n][n]
    BY <1>7
  <2> QED  BY <2>1, <2>2
<1> HIDE DEF all
<1> QED  BY <1>8, <1>9 DEF GoesOn

-----------------------------------------------------------------------------
(* Sums.                                                                     *)

\* One of S, the one with which a sum goes on.
One(S) == CHOOSE x \in S : TRUE

(* Adds up what val gives for S and its subsets.                             *)
Adds(iter, val, S) ==
    iter = [s \in SUBSET S |-> IF s = {} THEN 0 ELSE val[One(s)] + iter[s \ {One(s)}]]

LEMMA SumAdds ==
    ASSUME NEW S, NEW val, \E iter : Adds(iter, val, S)
    PROVE  \E iter : Adds(iter, val, S) /\ A!SumFunctionOnSet(val, S) = iter[S]
<1> DEFINE g == CHOOSE iter : Adds(iter, val, S)
<1>1. Adds(g, val, S)
  OBVIOUS
<1>2. A!SumFunctionOnSet(val, S) = g[S]
  BY DEF A!SumFunctionOnSet, A!FoldFunctionOnSet, A!MapThenFoldSet, Adds, One
<1> QED  BY <1>1, <1>2

LEMMA SumExists ==
    ASSUME NEW S, IsFiniteSet(S), NEW val, \A x \in S : val[x] \in Int
    PROVE  \E iter : iter \in [SUBSET S -> Int] /\ Adds(iter, val, S)
<1> DEFINE upto(k) == {s \in SUBSET S : Cardinality(s) <= k}
           Is(g, k) == /\ g \in [upto(k) -> Int]
                       /\ \A s \in upto(k) : g[s] = IF s = {} THEN 0 ELSE val[One(s)] + g[s \ {One(s)}]
           known == {k \in Nat : \E g : Is(g, k)}
<1>1. \A s \in SUBSET S : IsFiniteSet(s) /\ Cardinality(s) \in Nat
  BY FS_Subset, FS_CardinalityType
<1>2. \A s \in SUBSET S : s # {} => One(s) \in s /\ val[One(s)] \in Int
  BY DEF One
<1>3. ASSUME NEW k \in Nat, NEW s \in upto(k + 1), s # {}
      PROVE  s \ {One(s)} \in upto(k)
  <2>1. Cardinality(s \ {One(s)}) = Cardinality(s) - 1
    BY <1>1, <1>2, <1>3, FS_RemoveElement
  <2> QED  BY <1>1, <1>3, <2>1
<1>4. \A s \in upto(0) : s = {}
  BY <1>1, FS_EmptySet
<1>5. 0 \in known
  <2> DEFINE g == [s \in upto(0) |-> 0]
  <2>1. g \in [upto(0) -> Int]
    OBVIOUS
  <2>2. \A s \in upto(0) : g[s] = 0
    OBVIOUS
  <2>3. Is(g, 0)
    <3> HIDE DEF g, upto
    <3> QED  BY <1>4, <2>1, <2>2
  <2> QED  BY <2>3
<1>6. \A k \in Nat : \A s \in upto(k) : s \in upto(k + 1) /\ s \in SUBSET S
  BY <1>1
<1> HIDE DEF upto
<1>7. ASSUME NEW k \in Nat, k \in known PROVE k + 1 \in known
  <2>1. PICK g : Is(g, k)
    BY <1>7
  <2> DEFINE h == [s \in upto(k + 1) |-> IF s = {} THEN 0 ELSE val[One(s)] + g[s \ {One(s)}]]
  <2>2. ASSUME NEW s \in upto(k + 1), s # {} PROVE s \ {One(s)} \in upto(k) /\ g[s \ {One(s)}] \in Int /\ val[One(s)] \in Int
    <3>1. s \in SUBSET S
      BY DEF upto
    <3> QED  BY <1>2, <1>3, <2>1, <2>2, <3>1
  <2>3. h \in [upto(k + 1) -> Int]
    BY <2>2
  <2>4. \A s \in upto(k) : h[s] = g[s]
    BY <1>6, <2>1
  <2>5. \A s \in upto(k + 1) : h[s] = IF s = {} THEN 0 ELSE val[One(s)] + g[s \ {One(s)}]
    OBVIOUS
  <2> HIDE DEF h
  <2>6. Is(h, k + 1)
    BY <2>2, <2>3, <2>4, <2>5
  <2> QED  BY <2>6
<1>8. \A k \in Nat : k \in known
  <2> HIDE DEF known
  <2> QED  BY <1>5, <1>7, Induction
<1>9. Cardinality(S) \in Nat /\ upto(Cardinality(S)) = SUBSET S
  <2>1. \A s \in SUBSET S : Cardinality(s) <= Cardinality(S)
    BY FS_Subset
  <2>2. Cardinality(S) \in Nat
    BY FS_CardinalityType
  <2> QED  BY <2>1, <2>2 DEF upto
<1>10. PICK g : Is(g, Cardinality(S))
  BY <1>8, <1>9
<1>11. g \in [SUBSET S -> Int] /\ \A s \in SUBSET S : g[s] = IF s = {} THEN 0 ELSE val[One(s)] + g[s \ {One(s)}]
  BY <1>9, <1>10
<1>12. Adds(g, val, S)
  BY <1>11 DEF Adds
<1> QED  BY <1>11, <1>12

\* The number of members of a set goes down, from one of its subsets to the next.
LEMMA SizeInduction ==
    ASSUME NEW S, IsFiniteSet(S), NEW Good, {} \in Good,
           \A s \in SUBSET S : s # {} /\ s \ {One(s)} \in Good => s \in Good
    PROVE  \A s \in SUBSET S : s \in Good
<1> DEFINE sizes == {k \in Nat : \A s \in SUBSET S : Cardinality(s) = k => s \in Good}
<1>1. \A s \in SUBSET S : IsFiniteSet(s) /\ Cardinality(s) \in Nat
  BY FS_Subset, FS_CardinalityType
<1>2. 0 \in sizes
  BY <1>1, FS_EmptySet
<1>3. ASSUME NEW k \in Nat, k \in sizes PROVE k + 1 \in sizes
  <2>1. SUFFICES ASSUME NEW s \in SUBSET S, Cardinality(s) = k + 1 PROVE s \in Good
    OBVIOUS
  <2>2. s # {} /\ One(s) \in s
    BY <2>1, FS_EmptySet DEF One
  <2>3. Cardinality(s \ {One(s)}) = k
    BY <1>1, <2>1, <2>2, FS_RemoveElement
  <2>4. s \ {One(s)} \in Good
    BY <1>3, <2>3
  <2> QED  BY <2>2, <2>4
<1>4. \A k \in Nat : k \in sizes
  <2> HIDE DEF sizes
  <2> QED  BY <1>2, <1>3, Induction
<1> QED  BY <1>1, <1>4

(* A sum of integers is one; a sum of naturals is zero only if they all are. *)
LEMMA SumIs ==
    ASSUME NEW S, IsFiniteSet(S), NEW val, \A x \in S : val[x] \in Int
    PROVE  /\ A!SumFunctionOnSet(val, S) \in Int
           /\ (\A x \in S : val[x] >= 0) /\ A!SumFunctionOnSet(val, S) = 0 => \A x \in S : val[x] = 0
<1>1. PICK iter : Adds(iter, val, S) /\ A!SumFunctionOnSet(val, S) = iter[S]
  BY SumExists, SumAdds
<1> DEFINE Zero(s) == iter[s] = 0 => \A x \in s : val[x] = 0
           Good == {s \in SUBSET S : iter[s] \in Int /\ ((\A x \in S : val[x] >= 0) => iter[s] >= 0 /\ Zero(s))}
<1>2. \A s \in SUBSET S : iter[s] = IF s = {} THEN 0 ELSE val[One(s)] + iter[s \ {One(s)}]
  BY <1>1 DEF Adds
<1>3. {} \in Good
  <2>1. iter[{}] = 0
    BY <1>2
  <2> QED  BY <2>1
<1>4. ASSUME NEW s \in SUBSET S, s # {}, s \ {One(s)} \in Good PROVE s \in Good
  <2>1. One(s) \in s /\ val[One(s)] \in Int /\ iter[s \ {One(s)}] \in Int /\ iter[s] = val[One(s)] + iter[s \ {One(s)}]
    BY <1>2, <1>4 DEF One
  <2>2. ASSUME \A x \in S : val[x] >= 0 PROVE iter[s] >= 0 /\ Zero(s)
    <3>1. val[One(s)] >= 0 /\ iter[s \ {One(s)}] >= 0 /\ Zero(s \ {One(s)})
      BY <1>4, <2>1, <2>2
    <3>2. iter[s] >= 0
      BY <2>1, <3>1
    <3>3. ASSUME iter[s] = 0 PROVE \A x \in s : val[x] = 0
      <4>1. val[One(s)] = 0 /\ iter[s \ {One(s)}] = 0
        BY <2>1, <3>1, <3>3
      <4> QED  BY <3>1, <4>1
    <3> QED  BY <3>2, <3>3
  <2> QED  BY <2>1, <2>2
<1>5. S \in Good
  <2> HIDE DEF Good
  <2> QED  BY <1>3, <1>4, SizeInduction
<1> QED  BY <1>1, <1>5

-----------------------------------------------------------------------------
(* Publications: the newest version is flagged, or one has still to insert.  *)
Parts == {"at", "version", "seen", "parent", "lines"}
IsJob(q) == q = [part_ \in Parts |-> q[part_]]

VersionInv ==
    /\ newest \in Nat /\ flagged \subseteq 1 .. newest
    /\ job = [j \in Jobs |-> job[j]] /\ \A j \in Jobs : IsJob(job[j])
    /\ (~lost /\ \A j \in Jobs : job[j].at # "insert") => newest \in flagged

LEMMA RestingIs == IsJob(N!Resting) /\ N!Resting.at = "idle"
  BY DEF IsJob, N!Resting, Parts

\* What a step of one publication leaves of the others.
LEMMA JobMoves ==
    ASSUME VersionInv, NEW j \in Jobs, NEW q, IsJob(q), job' = [job EXCEPT ![j] = q]
    PROVE  /\ job' = [i \in Jobs |-> job'[i]] /\ \A i \in Jobs : IsJob(job'[i])
           /\ job'[j] = q /\ \A i \in Jobs : i # j => job'[i] = job[i]
  BY DEF VersionInv

LEMMA Published ==
    ASSUME VersionInv, NEW j \in Jobs, N!LoaderPublish(j)
    PROVE  job' = [job EXCEPT ![j] = [job[j] EXCEPT !.at = "nodes", !.seen = {}, !.version = newest']]
<1>1. job' = [job EXCEPT ![j].at = "nodes", ![j].seen = {}, ![j].version = newest']
  BY DEF N!LoaderPublish
<1> DEFINE v == newest'
           p1 == [job[j] EXCEPT !.at = "nodes"]
           p2 == [p1 EXCEPT !.seen = {}]
           p3 == [p2 EXCEPT !.version = v]
           step1 == [job EXCEPT ![j] = p1]
           step2 == [step1 EXCEPT ![j] = p2]
<1>2. job' = [step2 EXCEPT ![j] = p3]
  <2>1. step1[j] = p1
    BY DEF VersionInv
  <2>2. step2[j] = p2
    BY DEF VersionInv
  <2>3. job' = [[step1 EXCEPT ![j].seen = {}] EXCEPT ![j].version = v]
    BY <1>1
  <2> HIDE DEF v, p1, p2, p3
  <2> QED  BY <2>1, <2>2, <2>3 DEF p2, p3
<1>3. [step2 EXCEPT ![j] = p3] = [job EXCEPT ![j] = p3]
  <2>1. job = [i \in Jobs |-> job[i]]
    BY DEF VersionInv
  <2> HIDE DEF p1, p2, p3
  <2> QED  BY <2>1
<1> QED  BY <1>2, <1>3

LEMMA VersionStep ==
    ASSUME VersionInv, N!Next \/ UNCHANGED network
    PROVE  VersionInv'
<1>0. newest \in Nat /\ flagged \subseteq 1 .. newest /\ \A j \in Jobs : IsJob(job[j])
  BY DEF VersionInv
<1>1. CASE UNCHANGED <<flagged, newest, job, lost>>
  BY <1>1 DEF VersionInv
<1>2. ASSUME NEW j \in Jobs, N!ApiClear(j) PROVE VersionInv'
  <2> DEFINE q == [job[j] EXCEPT !.at = "insert"]
  <2>1. job' = [job EXCEPT ![j] = q] /\ flagged' = {} /\ newest' = newest
    BY <1>2 DEF N!ApiClear
  <2>2. IsJob(q) /\ q.at = "insert"
    BY <1>0 DEF IsJob, Parts
  <2> HIDE DEF q
  <2> QED  BY <1>0, <2>1, <2>2, JobMoves DEF VersionInv
<1>3. ASSUME NEW j \in Jobs, N!ApiInsert(j) PROVE VersionInv'
  <2>1. job' = [job EXCEPT ![j] = N!Resting] /\ newest' = newest + 1 /\ flagged' = flagged \union {newest'}
    BY <1>3 DEF N!ApiInsert, N!NewVersion
  <2>2. newest' \in Nat /\ flagged' \subseteq 1 .. newest' /\ newest' \in flagged'
    BY <1>0, <2>1
  <2> QED  BY <2>1, <2>2, RestingIs, JobMoves DEF VersionInv
<1>4. ASSUME NEW j \in Jobs, N!LoaderBegin(j) PROVE VersionInv'
  <2>1. PICK file \in Files :
           job' = [job EXCEPT ![j] = [N!Resting EXCEPT !.at = "commit", !.seen = flagged,
                                         !.parent = N!Search(file).parent, !.lines = N!OrientRadial(file)]]
    BY <1>4 DEF N!LoaderBegin
  <2> DEFINE parent == N!Search(file).parent
             lines == N!OrientRadial(file)
             q == [N!Resting EXCEPT !.at = "commit", !.seen = flagged, !.parent = parent, !.lines = lines]
  <2>2. job' = [job EXCEPT ![j] = q] /\ UNCHANGED <<flagged, newest, lost>> /\ job[j].at = "idle"
    BY <1>4, <2>1 DEF N!LoaderBegin, N!Steps
  <2> HIDE DEF parent, lines
  <2>3. IsJob(q) /\ q.at = "commit"
    BY RestingIs DEF IsJob, Parts
  <2> HIDE DEF q
  <2> QED  BY <2>2, <2>3, JobMoves DEF VersionInv
<1>5. ASSUME NEW j \in Jobs, N!LoaderPublish(j) PROVE VersionInv'
  <2> DEFINE q == [job[j] EXCEPT !.at = "nodes", !.seen = {}, !.version = newest']
  <2>1. job' = [job EXCEPT ![j] = q] /\ newest' = newest + 1 /\ flagged' = (flagged \ job[j].seen) \union {newest'}
    <3>1. newest' = newest + 1 /\ flagged' = (flagged \ job[j].seen) \union {newest'}
      BY <1>5 DEF N!LoaderPublish, N!NewVersion
    <3> QED  BY <1>5, <3>1, Published
  <2>2. IsJob(q)
    BY <1>0 DEF IsJob, Parts
  <2> HIDE DEF q
  <2>3. newest' \in Nat /\ flagged' \subseteq 1 .. newest' /\ newest' \in flagged'
    <3>1. \A v \in flagged' : v \in flagged \/ v = newest'
      BY <2>1
    <3>2. newest' = newest + 1 /\ newest' \in flagged'
      BY <2>1
    <3> QED  BY <1>0, <3>1, <3>2
  <2> QED  BY <2>1, <2>2, <2>3, JobMoves DEF VersionInv
<1>6. ASSUME NEW j \in Jobs, N!UpsertNodes(j) PROVE VersionInv'
  <2> DEFINE q == [job[j] EXCEPT !.at = "edges"]
  <2>1. job' = [job EXCEPT ![j] = q] /\ UNCHANGED <<flagged, newest, lost>> /\ job[j].at = "nodes"
    BY <1>6 DEF N!UpsertNodes, N!Steps
  <2>2. IsJob(q) /\ q.at = "edges"
    BY <1>0 DEF IsJob, Parts
  <2> HIDE DEF q
  <2> QED  BY <2>1, <2>2, JobMoves DEF VersionInv
<1>7. ASSUME NEW j \in Jobs, N!UpsertEdges(j) PROVE VersionInv'
  <2>1. job' = [job EXCEPT ![j] = N!Resting] /\ UNCHANGED <<flagged, newest, lost>> /\ job[j].at = "edges"
    BY <1>7 DEF N!UpsertEdges, N!Steps
  <2> QED  BY <2>1, RestingIs, JobMoves DEF VersionInv
<1>8. ASSUME NEW j \in Jobs, N!Fails(j) PROVE VersionInv'
  <2>1. /\ job' = [job EXCEPT ![j] = N!Resting] /\ UNCHANGED <<flagged, newest>>
        /\ lost' = (lost \/ job[j].at = "insert")
    BY <1>8 DEF N!Fails, N!Steps
  <2> QED  BY <2>1, RestingIs, JobMoves DEF VersionInv
<1>9. CASE \/ \E n \in NodeIds : N!CreateNode(n) \/ N!UpdateNode(n) \/ N!DeleteNode(n)
           \/ \E e \in EdgeIds : N!CreateEdge(e) \/ N!DeleteEdge(e) \/ \E close \in BOOLEAN : N!SetSwitch(e, close)
  <2>1. UNCHANGED <<flagged, newest, job, lost>>
    BY <1>9 DEF N!CreateNode, N!UpdateNode, N!DeleteNode, N!CreateEdge, N!DeleteEdge, N!SetSwitch
  <2> QED  BY <1>1, <2>1
<1> QED  BY <1>1, <1>2, <1>3, <1>4, <1>5, <1>6, <1>7, <1>8, <1>9 DEF N!Next, network

(* Who has published what is known at every step.                            *)
THEOREM VersionInvariance == Spec => []VersionInv
<1>1. Init => VersionInv
  <2>1. ASSUME Init PROVE VersionInv
    <3>1. N!Init
      BY <2>1 DEF Init
    <3>2. newest = 1 /\ flagged = {1} /\ job = [j \in Jobs |-> N!Resting]
      BY <3>1 DEF N!Init
    <3> QED  BY <3>2, RestingIs DEF VersionInv
  <2> QED  BY <2>1
<1>2. VersionInv /\ [Next]_<<part, network, analysis, outages>> => VersionInv'
  BY VersionStep DEF Next, Network, Analysis, Outages
<1> QED  BY <1>1, <1>2, PTL DEF Spec

(* However publications and imports overlap, and wherever one fails unless   *)
(* it was the last, the newest version is the current one.                   *)
THEOREM NewestIsCurrentHolds == Spec => []NewestIsCurrent
<1>1. ASSUME VersionInv PROVE NewestIsCurrent
  <2>1. ASSUME ~lost, \A j \in Jobs : job[j].at # "insert" PROVE newest \in flagged /\ N!Current = newest
    <3>1. newest \in flagged /\ \A v \in flagged : v \in Nat /\ v <= newest
      BY <1>1, <2>1 DEF VersionInv
    <3>2. \A v \in flagged : (\A w \in flagged : v >= w) => v = newest
      BY <3>1
    <3>3. \A w \in flagged : newest >= w
      BY <3>1
    <3>4. N!Max(flagged) = newest
      BY <3>1, <3>2, <3>3 DEF N!Max
    <3> QED  BY <3>1, <3>4 DEF N!Current
  <2> QED  BY <2>1 DEF NewestIsCurrent, N!NewestIsCurrent, N!Steps
<1> QED  BY <1>1, VersionInvariance, PTL

-----------------------------------------------------------------------------
(* What a walk finds.                                                        *)

\* NetworkModel sees the same finite sets, and sequences, as the library.
LEMMA SizeIs == \A S : N!Cardinality(S) = Cardinality(S)
  BY Zenon DEF N!Cardinality, Cardinality

LEMMA FiniteIs == \A S : N!IsFiniteSet(S) <=> IsFiniteSet(S)
  BY Zenon DEF N!IsFiniteSet, IsFiniteSet

LEMMA NetworkIs ==
    ASSUME GridAssumption
    PROVE  /\ root \in NodeIds /\ IsFiniteSet(NodeIds) /\ IsFiniteSet(EdgeIds)
           /\ Files \subseteq Seq([id : EdgeIds, a : NodeIds, b : NodeIds, open : BOOLEAN])
           /\ MaxModels \in Nat \ {0} /\ None \notin NodeIds \union Nat
  BY FiniteIs DEF GridAssumption, N!NetworkModelAssumption

(* Where the pairs lead from the nodes of S.                                 *)
Leads(pairs, S) == {p[2] : p \in {q \in pairs : q[1] \in S}}

(* The rounds of a walk among some nodes.                                    *)
Rounds(Of, pairs, start, g) ==
    /\ g \in [Nat -> SUBSET Of] /\ g[0] = {start}
    /\ \A n \in Nat : g[n + 1] = g[n] \union Leads(pairs, g[n])

LEMMA WalkGoesInRounds ==
    ASSUME NEW pairs \in SUBSET (NodeIds \X NodeIds), NEW start \in NodeIds
    PROVE  \E g : Rounds(NodeIds, pairs, start, g) /\ N!Walk(pairs, start) = g[Cardinality(NodeIds)]
<1> DEFINE Values == SUBSET NodeIds
           F == [p \in Nat \X Values |-> p[2] \union Leads(pairs, p[2])]
<1>1. \A S \in SUBSET NodeIds : Leads(pairs, S) \in SUBSET NodeIds
  BY DEF Leads
<1>2. \A n \in Nat, S \in SUBSET NodeIds : F[<<n, S>>] = S \union Leads(pairs, S)
  OBVIOUS
<1> HIDE DEF F
<1>3. {start} \in Values /\ \A n \in Nat, x \in Values : F[<<n, x>>] \in Values
  BY <1>1, <1>2
<1>4. \E g : GoesOn(g, Values, {start}, F)
  <2> HIDE DEF Values
  <2> QED  BY <1>3, Recursion
<1>5. PICK g : g \in [Nat -> SUBSET NodeIds] /\ g[0] = {start} /\ \A n \in Nat : g[n + 1] = F[<<n, g[n]>>]
  BY <1>4 DEF GoesOn
<1>6. Rounds(NodeIds, pairs, start, g)
  BY <1>2, <1>5 DEF Rounds
<1> DEFINE Is(w) == w = [n \in Nat |-> IF n = 0 THEN {start}
                                       ELSE w[n - 1] \union {p[2] : p \in {q \in pairs : q[1] \in w[n - 1]}}]
           within == CHOOSE w : Is(w)
<1>7. Is(g)
  <2>1. ASSUME NEW n \in Nat, n # 0
        PROVE  g[n] = g[n - 1] \union {p[2] : p \in {q \in pairs : q[1] \in g[n - 1]}}
    <3>1. n - 1 \in Nat /\ (n - 1) + 1 = n
      BY <2>1
    <3> QED  BY <1>6, <3>1 DEF Rounds, Leads
  <2> QED  BY <1>6, <2>1 DEF Rounds
<1>8. Is(within)
  BY <1>7
<1>9. N!Walk(pairs, start) = within[Cardinality(NodeIds)]
  BY SizeIs DEF N!Walk
<1> HIDE DEF within
<1>10. within[0] = {start} /\ \A n \in Nat : within[n + 1] = within[n] \union Leads(pairs, within[n])
  <2>1. within[0] = {start}
    BY <1>8
  <2>2. ASSUME NEW n \in Nat PROVE within[n + 1] = within[n] \union Leads(pairs, within[n])
    <3>1. n + 1 \in Nat /\ n + 1 # 0 /\ (n + 1) - 1 = n
      OBVIOUS
    <3> QED  BY <1>8, <3>1 DEF Leads
  <2> QED  BY <2>1, <2>2
<1>11. within \in [Nat -> SUBSET NodeIds]
  <2> DEFINE typed == {n \in Nat : within[n] \in SUBSET NodeIds}
  <2>1. 0 \in typed
    BY <1>10
  <2>2. \A n \in Nat : n \in typed => n + 1 \in typed
    BY <1>1, <1>10
  <2>3. \A n \in Nat : n \in typed
    <3> HIDE DEF typed
    <3> QED  BY <2>1, <2>2, Induction
  <2>4. within = [n \in Nat |-> within[n]]
    BY <1>8
  <2> QED  BY <2>3, <2>4
<1>12. Rounds(NodeIds, pairs, start, within)
  BY <1>10, <1>11 DEF Rounds
<1> QED  BY <1>9, <1>12

(* What grows within a finite set, and has ended once it stands still, stands *)
(* still after as many steps as the set has members.                         *)
LEMMA GrowthEnds ==
    ASSUME NEW Of, IsFiniteSet(Of), NEW g \in [Nat -> SUBSET Of],
           \A n \in Nat : g[n] \subseteq g[n + 1],
           \A n \in Nat : g[n + 1] = g[n] => g[(n + 1) + 1] = g[n + 1]
    PROVE  g[Cardinality(Of) + 1] = g[Cardinality(Of)]
<1> DEFINE size == Cardinality(Of)
           grown == {n \in Nat : g[n + 1] = g[n] \/ Cardinality(g[n]) >= n}
<1>0. size \in Nat
  BY FS_CardinalityType
<1>1. \A n \in Nat : IsFiniteSet(g[n]) /\ Cardinality(g[n]) \in Nat /\ g[n] \in SUBSET Of
  BY <1>0, FS_Subset, FS_CardinalityType
<1>2. 0 \in grown
  BY <1>1
<1>3. ASSUME NEW n \in Nat, n \in grown PROVE n + 1 \in grown
  <2>0. n + 1 \in Nat
    OBVIOUS
  <2>1. CASE g[n + 1] = g[n]
    BY <2>0, <2>1
  <2>2. CASE g[n + 1] # g[n]
    <3>0. g[n] \in SUBSET g[n + 1]
      OBVIOUS
    <3>1. Cardinality(g[n]) >= n /\ IsFiniteSet(g[n + 1])
      BY <1>1, <1>3, <2>0, <2>2
    <3>2. Cardinality(g[n]) <= Cardinality(g[n + 1]) /\ Cardinality(g[n]) # Cardinality(g[n + 1])
      BY <2>2, <3>0, <3>1, FS_Subset
    <3>3. Cardinality(g[n + 1]) \in Nat /\ Cardinality(g[n]) \in Nat
      BY <1>1, <2>0
    <3>4. Cardinality(g[n + 1]) >= n + 1
      BY <3>1, <3>2, <3>3
    <3> QED  BY <2>0, <3>4
  <2> QED  BY <2>1, <2>2
<1>4. size \in grown
  <2> HIDE DEF grown
  <2>1. \A n \in Nat : n \in grown
    BY <1>2, <1>3, Induction
  <2> QED  BY <1>0, <2>1
<1>5. CASE Cardinality(g[size]) >= size
  <2>1. Cardinality(g[size]) <= size /\ (Cardinality(Of) = Cardinality(g[size]) => Of = g[size])
    BY <1>0, <1>1, FS_Subset
  <2>2. g[size] = Of
    BY <1>0, <1>1, <1>5, <2>1
  <2>3. size + 1 \in Nat /\ g[size] \subseteq g[size + 1]
    BY <1>0
  <2>4. g[size + 1] \in SUBSET Of
    BY <1>1, <2>3
  <2> HIDE DEF size
  <2> QED  BY <2>2, <2>3, <2>4 DEF size
<1> QED  BY <1>4, <1>5

(* There are no more rounds than nodes: each round that finds something      *)
(* finds at least one.                                                       *)
LEMMA WalkEnds ==
    ASSUME NEW Of, IsFiniteSet(Of), NEW pairs \in SUBSET (Of \X Of), NEW start \in Of,
           NEW g, Rounds(Of, pairs, start, g)
    PROVE  Leads(pairs, g[Cardinality(Of)]) \subseteq g[Cardinality(Of)]
<1>1. \A n \in Nat : n + 1 \in Nat /\ g[n + 1] = g[n] \union Leads(pairs, g[n])
  BY DEF Rounds
<1>2. /\ g \in [Nat -> SUBSET Of]
      /\ \A n \in Nat : g[n] \subseteq g[n + 1]
      /\ \A n \in Nat : g[n + 1] = g[n] => g[(n + 1) + 1] = g[n + 1]
  BY <1>1 DEF Rounds
<1>3. Cardinality(Of) \in Nat
  BY FS_CardinalityType
<1>4. g[Cardinality(Of) + 1] = g[Cardinality(Of)]
  BY <1>2, GrowthEnds
<1> QED  BY <1>1, <1>3, <1>4

\* The pairs lead from nodes of S to nodes of S only.
Holds(pairs, S) == \A p \in pairs : p[1] \in S => p[2] \in S

(* What a walk finds: the least set that has its start and whatever the      *)
(* pairs lead to.                                                            *)
LEMMA LeastIs ==
    ASSUME NEW Of, IsFiniteSet(Of), NEW pairs \in SUBSET (Of \X Of), NEW start \in Of,
           NEW walk, \E g : Rounds(Of, pairs, start, g) /\ walk = g[Cardinality(Of)]
    PROVE  /\ walk \in SUBSET Of
           /\ start \in walk
           /\ Holds(pairs, walk)
           /\ \A S : start \in S /\ Holds(pairs, S) => walk \subseteq S
<1>1. PICK g : Rounds(Of, pairs, start, g) /\ walk = g[Cardinality(Of)]
  OBVIOUS
<1>2. Cardinality(Of) \in Nat
  BY FS_CardinalityType
<1>3. \A n \in Nat : start \in g[n]
  <2> DEFINE ok == {n \in Nat : start \in g[n]}
  <2>1. 0 \in ok /\ \A n \in Nat : n \in ok => n + 1 \in ok
    BY <1>1 DEF Rounds
  <2>2. \A n \in Nat : n \in ok
    <3> HIDE DEF ok
    <3> QED  BY <2>1, Induction
  <2> QED  BY <2>2
<1>4. ASSUME NEW S, start \in S, Holds(pairs, S) PROVE \A n \in Nat : g[n] \subseteq S
  <2> DEFINE ok == {n \in Nat : g[n] \subseteq S}
  <2>1. 0 \in ok
    BY <1>1, <1>4 DEF Rounds
  <2>2. ASSUME NEW n \in Nat, n \in ok PROVE n + 1 \in ok
    <3>1. g[n] \subseteq S /\ g[n + 1] = g[n] \union Leads(pairs, g[n])
      BY <1>1, <2>2 DEF Rounds
    <3>2. Leads(pairs, g[n]) \subseteq S
      BY <1>4, <3>1 DEF Leads, Holds
    <3> QED  BY <3>1, <3>2
  <2>3. \A n \in Nat : n \in ok
    <3> HIDE DEF ok
    <3> QED  BY <2>1, <2>2, Induction
  <2> QED  BY <2>3
<1>5. Holds(pairs, walk)
  <2>1. Leads(pairs, walk) \subseteq walk
    BY <1>1, WalkEnds
  <2> QED  BY <2>1 DEF Leads, Holds
<1> QED  BY <1>1, <1>2, <1>3, <1>4, <1>5 DEF Rounds

LEMMA WalkIs ==
    ASSUME IsFiniteSet(NodeIds), NEW pairs \in SUBSET (NodeIds \X NodeIds), NEW start \in NodeIds
    PROVE  /\ N!Walk(pairs, start) \in SUBSET NodeIds
           /\ start \in N!Walk(pairs, start)
           /\ Holds(pairs, N!Walk(pairs, start))
           /\ \A S : start \in S /\ Holds(pairs, S) => N!Walk(pairs, start) \subseteq S
  BY WalkGoesInRounds, LeastIs

-----------------------------------------------------------------------------
(* What the validation counts.                                               *)

\* Every edge has rows for its nodes.
EdgesHaveNodes == \A e \in N!EdgeRows : edges[e].from \in N!NodeRows /\ edges[e].to \in N!NodeRows

Both(es) == N!BothWays(N!Pairs(es))
Reached(es, n) == N!Walk(Both(es), n)
Parted(es) == {Reached(es, n) : n \in N!NodeRows}
\* The edges that are more than it takes to join what they join.
Excess(es) == Cardinality(es) + Cardinality(Parted(es)) - Cardinality(N!NodeRows)
JoinedElse(es, e) == edges[e].to \in Reached(es \ {e}, edges[e].from)

LEMMA NodesAre == N!NodeRows \subseteq NodeIds /\ N!EdgeRows \subseteq EdgeIds
  BY DEF N!NodeRows, N!EdgeRows

LEMMA BothAre ==
    ASSUME EdgesHaveNodes, NEW es \in SUBSET N!EdgeRows
    PROVE  /\ Both(es) \in SUBSET (NodeIds \X NodeIds)
           /\ \A p : p \in Both(es) <=> \E e \in es : p = <<edges[e].from, edges[e].to>> \/ p = <<edges[e].to, edges[e].from>>
<1> DEFINE pairs == {<<edges[e].from, edges[e].to>> : e \in es}
           back == {<<p[2], p[1]>> : p \in pairs}
<1>1. \A p : p \in Both(es) <=> \E e \in es : p = <<edges[e].from, edges[e].to>> \/ p = <<edges[e].to, edges[e].from>>
  <2>1. Both(es) = pairs \union back
    BY Zenon DEF Both, N!BothWays, N!Pairs
  <2>2. \A p : p \in pairs <=> \E e \in es : p = <<edges[e].from, edges[e].to>>
    BY Zenon
  <2>3. \A p : p \in back <=> \E q \in pairs : p = <<q[2], q[1]>>
    BY Zenon
  <2> HIDE DEF pairs, back
  <2>4. \A p : p \in back <=> \E e \in es : p = <<edges[e].to, edges[e].from>>
    <3>1. ASSUME NEW p \in back PROVE \E e \in es : p = <<edges[e].to, edges[e].from>>
      <4>1. PICK q \in pairs : p = <<q[2], q[1]>>
        BY <2>3, <3>1
      <4>2. PICK e \in es : q = <<edges[e].from, edges[e].to>>
        BY <2>2
      <4> QED  BY <4>1, <4>2
    <3>2. ASSUME NEW e \in es PROVE <<edges[e].to, edges[e].from>> \in back
      <4> DEFINE q == <<edges[e].from, edges[e].to>>
      <4>1. q \in pairs /\ q[1] = edges[e].from /\ q[2] = edges[e].to
        BY <2>2
      <4> HIDE DEF q
      <4> QED  BY <2>3, <4>1
    <3> QED  BY <3>1, <3>2
  <2> QED  BY <2>1, <2>2, <2>4
<1>2. ASSUME NEW p \in Both(es) PROVE p \in NodeIds \X NodeIds
  BY <1>1, <1>2, NodesAre DEF EdgesHaveNodes
<1> QED  BY <1>1, <1>2

LEMMA ReachedIs ==
    ASSUME IsFiniteSet(NodeIds), EdgesHaveNodes, NEW es \in SUBSET N!EdgeRows, NEW n \in NodeIds
    PROVE  /\ Reached(es, n) \in SUBSET NodeIds /\ n \in Reached(es, n)
           /\ Holds(Both(es), Reached(es, n))
           /\ \A S : n \in S /\ Holds(Both(es), S) => Reached(es, n) \subseteq S
  BY BothAre, WalkIs DEF Reached

(* Edges are walked both ways: what is reached from each other is the same.  *)
LEMMA ReachedBack ==
    ASSUME IsFiniteSet(NodeIds), EdgesHaveNodes, NEW es \in SUBSET N!EdgeRows,
           NEW x \in NodeIds, NEW y \in Reached(es, x)
    PROVE  y \in NodeIds /\ x \in Reached(es, y) /\ Reached(es, y) = Reached(es, x)
<1> DEFINE S == {z \in NodeIds : x \in Reached(es, z)}
<1>1. ASSUME NEW p \in Both(es), p[1] \in S PROVE p[2] \in S
  <2>1. p \in NodeIds \X NodeIds /\ <<p[2], p[1]>> \in Both(es)
    BY BothAre
  <2>2. p[1] \in Reached(es, p[2])
    <3>1. p[2] \in Reached(es, p[2]) /\ Holds(Both(es), Reached(es, p[2]))
      BY <2>1, ReachedIs
    <3> DEFINE q == <<p[2], p[1]>>
    <3>2. q[1] = p[2] /\ q[2] = p[1] /\ q \in Both(es)
      BY <2>1
    <3> QED  BY <3>1, <3>2 DEF Holds
  <2>3. Reached(es, p[1]) \subseteq Reached(es, p[2])
    BY <2>1, <2>2, ReachedIs
  <2> QED  BY <1>1, <2>1, <2>3
<1>2. x \in S /\ Holds(Both(es), S)
  BY <1>1, ReachedIs DEF Holds
<1>3. y \in S
  BY <1>2, ReachedIs
<1>4. y \in NodeIds /\ x \in Reached(es, y)
  BY <1>3
<1>5. Reached(es, y) \subseteq Reached(es, x)
  BY <1>4, ReachedIs
<1>6. Reached(es, x) \subseteq Reached(es, y)
  BY <1>4, ReachedIs
<1> QED  BY <1>4, <1>5, <1>6

(* With more edges, more is reached.                                         *)
LEMMA ReachedGrows ==
    ASSUME IsFiniteSet(NodeIds), EdgesHaveNodes, NEW es \in SUBSET N!EdgeRows, NEW some \in SUBSET es, NEW n \in NodeIds
    PROVE  Reached(some, n) \subseteq Reached(es, n)
<1>1. some \in SUBSET N!EdgeRows
  OBVIOUS
<1>2. Both(some) \subseteq Both(es)
  BY <1>1, BothAre
<1>3. Holds(Both(some), Reached(es, n)) /\ n \in Reached(es, n)
  BY <1>2, ReachedIs DEF Holds
<1> QED  BY <1>1, <1>3, ReachedIs

(* One edge more joins what its ends reach, and nothing else.                *)
LEMMA EdgeJoins ==
    ASSUME IsFiniteSet(NodeIds), EdgesHaveNodes, NEW es \in SUBSET N!EdgeRows, NEW e \in N!EdgeRows, NEW n \in NodeIds
    PROVE  LET here == Reached(es, edges[e].from)
               there == Reached(es, edges[e].to)
           IN Reached(es \union {e}, n) = IF n \in here \union there THEN here \union there ELSE Reached(es, n)
<1> DEFINE u == edges[e].from
           v == edges[e].to
           more == es \union {e}
           here == Reached(es, u)
           there == Reached(es, v)
<1>1. u \in NodeIds /\ v \in NodeIds /\ more \in SUBSET N!EdgeRows /\ es \in SUBSET more
  BY NodesAre DEF EdgesHaveNodes
<1>2. \A p : p \in Both(more) <=> p \in Both(es) \/ p = <<u, v>> \/ p = <<v, u>>
  BY <1>1, BothAre
<1>3. \A x \in NodeIds : Reached(es, x) \subseteq Reached(more, x)
  BY <1>1, ReachedGrows
<1>4. u \in here /\ v \in there /\ Holds(Both(es), here) /\ Holds(Both(es), there)
  BY <1>1, ReachedIs
<1>5. Reached(more, u) = here \union there
  <2>1. Holds(Both(more), here \union there)
    <3>1. ASSUME NEW p \in Both(more), p[1] \in here \union there PROVE p[2] \in here \union there
      <4>1. CASE p \in Both(es)
        BY <1>4, <3>1, <4>1 DEF Holds
      <4>2. CASE p = <<u, v>> \/ p = <<v, u>>
        BY <1>4, <4>2
      <4> QED  BY <1>2, <4>1, <4>2
    <3> QED  BY <3>1 DEF Holds
  <2>2. Reached(more, u) \subseteq here \union there
    BY <1>1, <1>4, <2>1, ReachedIs
  <2>3. v \in Reached(more, u)
    <3> DEFINE p == <<u, v>>
    <3>1. p \in Both(more) /\ p[1] = u /\ p[2] = v
      BY <1>2
    <3>2. u \in Reached(more, u) /\ Holds(Both(more), Reached(more, u))
      BY <1>1, ReachedIs
    <3> QED  BY <3>1, <3>2 DEF Holds
  <2>4. Reached(more, v) = Reached(more, u)
    BY <1>1, <2>3, ReachedBack
  <2>5. here \subseteq Reached(more, u) /\ there \subseteq Reached(more, u)
    BY <1>1, <1>3, <2>4
  <2> QED  BY <2>2, <2>5
<1>6. CASE n \in here \union there
  <2>1. Reached(more, n) = Reached(more, u)
    BY <1>1, <1>5, <1>6, ReachedBack
  <2> QED  BY <1>5, <1>6, <2>1
<1>7. CASE n \notin here \union there
  <2>1. u \notin Reached(es, n) /\ v \notin Reached(es, n)
    BY <1>7, ReachedBack
  <2>2. Holds(Both(es), Reached(es, n)) /\ n \in Reached(es, n)
    BY ReachedIs
  <2>3. Holds(Both(more), Reached(es, n))
    BY <1>2, <2>1, <2>2 DEF Holds
  <2>4. Reached(more, n) \subseteq Reached(es, n)
    BY <1>1, <2>2, <2>3, ReachedIs
  <2> QED  BY <1>3, <1>7, <2>4
<1> QED  BY <1>6, <1>7

LEMMA PartedIs ==
    ASSUME IsFiniteSet(NodeIds), NEW es
    PROVE  /\ IsFiniteSet(N!NodeRows) /\ Cardinality(N!NodeRows) \in Nat
           /\ IsFiniteSet(Parted(es)) /\ Cardinality(Parted(es)) \in Nat
<1>1. IsFiniteSet(N!NodeRows)
  BY NodesAre, FS_Subset
<1>2. IsFiniteSet(Parted(es))
  <2> DEFINE reached == [n \in N!NodeRows |-> Reached(es, n)]
  <2>1. \A x \in Parted(es) : \E n \in N!NodeRows : reached[n] = x
    BY Zenon DEF Parted
  <2>2. reached \in [N!NodeRows -> Parted(es)]
    BY Zenon DEF Parted
  <2>3. reached \in Surjection(N!NodeRows, Parted(es))
    <3> HIDE DEF reached
    <3> QED  BY <2>1, <2>2 DEF Surjection
  <2> HIDE DEF reached
  <2> QED  BY <1>1, <2>3, FS_Surjection
<1> QED  BY <1>1, <1>2, FS_CardinalityType

(* An edge between nodes that are joined already is one too many; another    *)
(* makes one part of two.                                                    *)
LEMMA OneEdgeMore ==
    ASSUME IsFiniteSet(NodeIds), IsFiniteSet(EdgeIds), EdgesHaveNodes,
           NEW es \in SUBSET N!EdgeRows, NEW e \in N!EdgeRows, e \notin es
    PROVE  Excess(es \union {e}) = IF edges[e].to \in Reached(es, edges[e].from) THEN Excess(es) + 1 ELSE Excess(es)
<1> DEFINE u == edges[e].from
           v == edges[e].to
           more == es \union {e}
           here == Reached(es, u)
           there == Reached(es, v)
<1>1. u \in N!NodeRows /\ v \in N!NodeRows /\ u \in NodeIds /\ v \in NodeIds
  BY NodesAre DEF EdgesHaveNodes
<1>2. IsFiniteSet(es) /\ Cardinality(es) \in Nat /\ Cardinality(more) = Cardinality(es) + 1
  <2>1. IsFiniteSet(es)
    BY NodesAre, FS_Subset
  <2> QED  BY <2>1, FS_CardinalityType, FS_AddElement
<1>3. \A n \in N!NodeRows : Reached(more, n) = IF n \in here \union there THEN here \union there ELSE Reached(es, n)
  BY EdgeJoins, NodesAre
<1>4. \A n \in N!NodeRows : /\ n \in Reached(es, n)
                            /\ n \in here => Reached(es, n) = here
                            /\ n \in there => Reached(es, n) = there
  BY <1>1, NodesAre, ReachedIs, ReachedBack
<1>5. here \in Parted(es) /\ there \in Parted(es)
  BY <1>1 DEF Parted
<1> DEFINE rest == Parted(es) \ {here, there}
<1>6. Parted(more) = rest \union {here \union there}
  <2>1. ASSUME NEW n \in N!NodeRows PROVE Reached(more, n) \in rest \union {here \union there}
    <3>1. CASE n \in here \union there
      BY <1>3, <3>1
    <3>2. CASE n \notin here \union there
      <4>1. Reached(more, n) = Reached(es, n) /\ n \in Reached(es, n) /\ Reached(es, n) \in Parted(es)
        BY <1>3, <1>4, <3>2 DEF Parted
      <4> QED  BY <3>2, <4>1
    <3> QED  BY <3>1, <3>2
  <2>2. ASSUME NEW part_ \in rest PROVE part_ \in Parted(more)
    <3>1. PICK n \in N!NodeRows : part_ = Reached(es, n)
      BY <2>2 DEF Parted
    <3>2. n \notin here \union there
      BY <1>4, <2>2, <3>1
    <3>3. part_ = Reached(more, n)
      BY <1>3, <3>1, <3>2
    <3> QED  BY <3>3 DEF Parted
  <2>3. here \union there \in Parted(more)
    <3>1. Reached(more, u) = here \union there
      BY <1>1, <1>3, <1>4
    <3> QED  BY <1>1, <3>1 DEF Parted
  <2> HIDE DEF here, there, more
  <2> QED  BY <2>1, <2>2, <2>3 DEF Parted
<1>7. IsFiniteSet(Parted(es)) /\ Cardinality(Parted(es)) \in Nat /\ Cardinality(N!NodeRows) \in Nat
  BY PartedIs
<1>8. CASE v \in here
  <2>1. there = here
    BY <1>1, <1>4, <1>8
  <2>2. Parted(more) = Parted(es)
    <3>1. here \union there = here /\ {here, there} = {here}
      BY <2>1
    <3>2. Parted(more) = (Parted(es) \ {here}) \union {here}
      BY <1>6, <3>1
    <3> HIDE DEF here, more
    <3> QED  BY <1>5, <3>2
  <2> QED  BY <1>2, <1>7, <1>8, <2>2 DEF Excess
<1>9. CASE v \notin here
  <2>1. here # there
    BY <1>1, <1>4, <1>9
  <2>2. here \union there \notin rest
    <3>1. SUFFICES ASSUME here \union there \in rest PROVE FALSE
      OBVIOUS
    <3>2. PICK n \in N!NodeRows : here \union there = Reached(es, n)
      BY <3>1 DEF Parted
    <3>3. u \in Reached(es, n)
      BY <1>1, <1>4, <3>2
    <3>4. Reached(es, u) = Reached(es, n)
      BY <3>3, NodesAre, ReachedBack
    <3> QED  BY <3>1, <3>2, <3>4
  <2>3. IsFiniteSet(rest) /\ Cardinality(rest) = Cardinality(Parted(es)) - 2
    <3> DEFINE some == Parted(es) \ {here}
    <3>1. IsFiniteSet(some) /\ Cardinality(some) = Cardinality(Parted(es)) - 1
      BY <1>5, <1>7, FS_RemoveElement
    <3>2. there \in some /\ rest = some \ {there}
      BY <1>5, <2>1
    <3> HIDE DEF some, here, there, rest
    <3>3. IsFiniteSet(rest) /\ Cardinality(rest) = Cardinality(some) - 1
      BY <3>1, <3>2, FS_RemoveElement
    <3> QED  BY <1>7, <3>1, <3>3
  <2>4. Cardinality(Parted(more)) = Cardinality(rest) + 1
    <3> DEFINE joint == here \union there
               after == Parted(more)
    <3>1. joint \notin rest /\ after = rest \union {joint}
      BY <1>6, <2>2
    <3> HIDE DEF joint, after, rest
    <3>2. Cardinality(after) = Cardinality(rest) + 1
      BY <2>3, <3>1, FS_AddElement
    <3> QED  BY <3>2 DEF after
  <2> HIDE DEF rest
  <2> QED  BY <1>2, <1>7, <1>9, <2>3, <2>4 DEF Excess
<1> QED  BY <1>8, <1>9

(* What holds of no edges, and of one more if of some, holds of all.         *)
LEMMA SubsetInduction ==
    ASSUME NEW all, IsFiniteSet(all), NEW S, {} \in S,
           \A D \in SUBSET all, x \in all : D \in S /\ x \notin D => D \union {x} \in S
    PROVE  \A D \in SUBSET all : D \in S
<1> DEFINE others == {D \in SUBSET all : D \notin S}
<1>1. SUFFICES ASSUME others # {} PROVE FALSE
  OBVIOUS
<1>2. IsWellFoundedOn(StrictSubsetOrdering(all), SUBSET all)
  BY FS_StrictSubsetOrderingWellFounded, FS_FiniteSubsetsOfFinite
<1>3. others \subseteq SUBSET all
  OBVIOUS
<1>4. PICK D \in others : \A y \in others : ~ (<<y, D>> \in StrictSubsetOrdering(all))
  <2> HIDE DEF others
  <2> QED  BY <1>1, <1>2, <1>3, WFMin
<1>5. PICK x \in D : TRUE
  BY <1>4
<1>6. D \ {x} \in SUBSET all /\ D \ {x} \subseteq D /\ D \ {x} # D
  BY <1>4, <1>5
<1>7. D \ {x} \notin others
  BY <1>4, <1>6 DEF StrictSubsetOrdering
<1>8. (D \ {x}) \union {x} = D /\ x \in all /\ x \notin D \ {x}
  BY <1>4, <1>5
<1> QED  BY <1>4, <1>6, <1>7, <1>8

(* It takes as many edges as parts are joined: fewer there are never, and    *)
(* more if and only if one of them joins what is joined without it.          *)
LEMMA ExcessIs ==
    ASSUME IsFiniteSet(NodeIds), IsFiniteSet(EdgeIds), EdgesHaveNodes, NEW all \in SUBSET N!EdgeRows
    PROVE  Excess(all) \in Nat /\ (Excess(all) = 0 <=> \A e \in all : ~JoinedElse(all, e))
<1>0. IsFiniteSet(all)
  BY NodesAre, FS_Subset
<1>1. Excess({}) = 0
  <2>1. \A n \in N!NodeRows : Reached({}, n) = {n}
    <3>1. {} \in SUBSET N!EdgeRows
      OBVIOUS
    <3>2. Both({}) = {}
      BY <3>1, BothAre
    <3>3. \A n : Holds(Both({}), {n})
      BY <3>2 DEF Holds
    <3> QED  BY <3>1, <3>3, NodesAre, ReachedIs
  <2>2. Parted({}) = {{n} : n \in N!NodeRows}
    BY <2>1 DEF Parted
  <2> DEFINE single == [n \in N!NodeRows |-> {n}]
             singles == {{n} : n \in N!NodeRows}
  <2>3. single \in Bijection(N!NodeRows, singles)
    BY DEF Bijection, Injection, Surjection, IsInjective
  <2>4. Cardinality(singles) = Cardinality(N!NodeRows)
    <3> HIDE DEF single, singles
    <3> QED  BY <2>3, PartedIs, FS_Bijection DEF ExistsBijection
  <2>5. Cardinality(Parted({})) = Cardinality(N!NodeRows)
    BY <2>2, <2>4
  <2>6. Cardinality({}) = 0 /\ Cardinality(N!NodeRows) \in Nat
    BY PartedIs, FS_EmptySet
  <2> HIDE DEF single, singles
  <2> QED  BY <2>5, <2>6 DEF Excess
<1>2. \A D \in SUBSET all : Excess(D) \in Nat
  <2> DEFINE S == {D \in SUBSET all : Excess(D) \in Nat}
  <2>1. {} \in S
    BY <1>1
  <2>2. ASSUME NEW D \in SUBSET all, NEW x \in all, D \in S, x \notin D PROVE D \union {x} \in S
    <3>1. Excess(D \union {x}) = Excess(D) \/ Excess(D \union {x}) = Excess(D) + 1
      BY <2>2, OneEdgeMore
    <3> QED  BY <2>2, <3>1
  <2>3. \A D \in SUBSET all : D \in S
    <3> HIDE DEF S
    <3> QED  BY <1>0, <2>1, <2>2, SubsetInduction
  <2> QED  BY <2>3
<1>3. ASSUME NEW e \in all, JoinedElse(all, e) PROVE Excess(all) # 0
  <2> DEFINE D == all \ {e}
  <2>1. D \in SUBSET all /\ D \in SUBSET N!EdgeRows /\ e \in N!EdgeRows /\ e \notin D /\ all = D \union {e}
    OBVIOUS
  <2>2. edges[e].to \in Reached(D, edges[e].from)
    BY <1>3 DEF JoinedElse
  <2> HIDE DEF D
  <2>3. Excess(all) = Excess(D) + 1 /\ Excess(D) \in Nat
    BY <1>2, <2>1, <2>2, OneEdgeMore
  <2> QED  BY <2>3
<1>4. \A D \in SUBSET all : (\A e \in D : ~JoinedElse(D, e)) => Excess(D) = 0
  <2> DEFINE S == {D \in SUBSET all : (\A e \in D : ~JoinedElse(D, e)) => Excess(D) = 0}
  <2>1. {} \in S
    BY <1>1
  <2>2. ASSUME NEW D \in SUBSET all, NEW x \in all, D \in S, x \notin D PROVE D \union {x} \in S
    <3> DEFINE more == D \union {x}
    <3>1. SUFFICES ASSUME \A e \in more : ~JoinedElse(more, e) PROVE Excess(more) = 0
      OBVIOUS
    <3>2. more \ {x} = D /\ ~JoinedElse(more, x)
      BY <2>2, <3>1
    <3>3. Excess(more) = Excess(D)
      BY <2>2, <3>2, OneEdgeMore DEF JoinedElse
    <3>4. ASSUME NEW e \in D PROVE ~JoinedElse(D, e)
      <4>1. ~JoinedElse(more, e)
        BY <3>1
      <4>2. D \ {e} \in SUBSET (more \ {e}) /\ more \ {e} \in SUBSET N!EdgeRows /\ edges[e].from \in NodeIds
        BY NodesAre DEF EdgesHaveNodes
      <4>3. Reached(D \ {e}, edges[e].from) \subseteq Reached(more \ {e}, edges[e].from)
        BY <4>2, ReachedGrows
      <4> QED  BY <4>1, <4>3 DEF JoinedElse
    <3> QED  BY <2>2, <3>3, <3>4
  <2>3. \A D \in SUBSET all : D \in S
    <3> HIDE DEF S
    <3> QED  BY <1>0, <2>1, <2>2, SubsetInduction
  <2> QED  BY <2>3
<1> QED  BY <1>2, <1>3, <1>4

(* Of simple edges, each makes two pairs.                                    *)
LEMMA PairsAre ==
    ASSUME IsFiniteSet(NodeIds), IsFiniteSet(EdgeIds), EdgesHaveNodes, NEW all \in SUBSET N!EdgeRows, N!Simple(all)
    PROVE  IsFiniteSet(all) /\ Cardinality(all) \in Nat /\ Cardinality(Both(all)) = 2 * Cardinality(all)
<1>0. IsFiniteSet(all)
  BY NodesAre, FS_Subset
<1> DEFINE S == {D \in SUBSET all : /\ IsFiniteSet(D) /\ IsFiniteSet(Both(D))
                                    /\ Cardinality(D) \in Nat /\ Cardinality(Both(D)) = 2 * Cardinality(D)}
<1>1. {} \in S
  <2>1. Both({}) = {}
    BY DEF Both, N!BothWays, N!Pairs
  <2> QED  BY <2>1, FS_EmptySet
<1>2. ASSUME NEW D \in SUBSET all, NEW e \in all, D \in S, e \notin D PROVE D \union {e} \in S
  <2> DEFINE more == D \union {e}
             there == <<edges[e].from, edges[e].to>>
             back == <<edges[e].to, edges[e].from>>
             first == Both(D) \union {there}
  <2>1. there # back
    BY DEF N!Simple
  <2>2. \A p : p \in Both(more) <=> p \in Both(D) \/ p = there \/ p = back
    BY BothAre
  <2>3. there \notin Both(D) /\ back \notin Both(D)
    <3>1. ASSUME NEW d \in D PROVE {edges[d].from, edges[d].to} # {edges[e].from, edges[e].to}
      BY <1>2 DEF N!Simple
    <3> QED  BY <3>1, BothAre
  <2>4. Both(more) = first \union {back}
    BY <2>2
  <2>5. IsFiniteSet(Both(D)) /\ IsFiniteSet(D) /\ Cardinality(D) \in Nat /\ Cardinality(Both(D)) = 2 * Cardinality(D)
    BY <1>2
  <2>6. back \notin first
    BY <2>1, <2>3
  <2>7. IsFiniteSet(first) /\ Cardinality(first) = Cardinality(Both(D)) + 1
    BY <2>3, <2>5, FS_AddElement
  <2> HIDE DEF first, back, there, more
  <2>8. IsFiniteSet(Both(more)) /\ Cardinality(Both(more)) = Cardinality(first) + 1
    BY <2>4, <2>6, <2>7, FS_AddElement
  <2>9. IsFiniteSet(more) /\ Cardinality(more) = Cardinality(D) + 1
    BY <1>2, <2>5, FS_AddElement DEF more
  <2>10. more \in SUBSET all
    BY DEF more
  <2> QED  BY <2>5, <2>7, <2>8, <2>9, <2>10 DEF more
<1>3. \A D \in SUBSET all : D \in S
  <2> HIDE DEF S
  <2> QED  BY <1>0, <1>1, <1>2, SubsetInduction
<1> QED  BY <1>3

LEMMA RadialMeansForest ==
    ASSUME GridAssumption, EdgesHaveNodes
    PROVE  N!RadialIsForest
<1> DEFINE es == N!Closed(N!EdgeRows)
<1>1. SUFFICES ASSUME N!Simple(es)
               PROVE  N!Loops(es) = 0 <=> ~ \E e \in es : JoinedElse(es, e)
  BY DEF N!RadialIsForest, N!Radial, JoinedElse, Reached, Both
<1>2. IsFiniteSet(NodeIds) /\ IsFiniteSet(EdgeIds) /\ es \in SUBSET N!EdgeRows
  BY NetworkIs DEF N!Closed
<1> HIDE DEF es
<1>3. Cardinality(Both(es)) = 2 * Cardinality(es) /\ Cardinality(es) \in Nat
  BY <1>1, <1>2, PairsAre
<1>4. N!Loops(es) = Excess(es)
  <2>1. N!Loops(es) = Cardinality(Both(es)) \div 2 - Cardinality(N!NodeRows) + Cardinality(Parted(es))
    BY SizeIs DEF N!Loops, Both, Parted, Reached, N!Components
  <2>2. Cardinality(N!NodeRows) \in Nat /\ Cardinality(Parted(es)) \in Nat
    BY <1>2, PartedIs
  <2> QED  BY <1>3, <2>1, <2>2 DEF Excess
<1> QED  BY <1>2, <1>4, ExcessIs

-----------------------------------------------------------------------------
(* What an import makes of its file.                                         *)

FileLine == [id : EdgeIds, a : NodeIds, b : NodeIds, open : BOOLEAN]
NodeSeq == Seq(NodeIds)
Elements(q) == N!ToSet(q)
Distinct(q) == \A i, j \in DOMAIN q : q[i] = q[j] => i = j

LEMMA ElementsAre == \A q : Elements(q) = {q[i] : i \in DOMAIN q}
  BY DEF Elements, N!ToSet

LEMMA AppendedIs ==
    ASSUME NEW p \in NodeSeq, NEW q \in NodeSeq, NEW x \in NodeIds
    PROVE  /\ Append(q, x) \in NodeSeq /\ p \o q \in NodeSeq
           /\ p \o Append(q, x) = Append(p \o q, x)
           /\ Elements(Append(q, x)) = Elements(q) \union {x}
           /\ Distinct(q) /\ x \notin Elements(q) => Distinct(Append(q, x))
<1>1. Append(q, x) \in NodeSeq /\ p \o q \in NodeSeq
  BY DEF NodeSeq
<1>2. p \o Append(q, x) = Append(p \o q, x)
  BY DEF NodeSeq
<1>3. /\ DOMAIN Append(q, x) = 1 .. Len(q) + 1 /\ DOMAIN q = 1 .. Len(q) /\ Len(q) \in Nat
      /\ \A i \in 1 .. Len(q) + 1 : Append(q, x)[i] = IF i = Len(q) + 1 THEN x ELSE q[i]
  BY DEF NodeSeq
<1>4. Elements(Append(q, x)) = Elements(q) \union {x}
  <2>1. \A y : y \in Elements(Append(q, x)) <=> \E i \in 1 .. Len(q) + 1 : y = Append(q, x)[i]
    BY <1>3, ElementsAre
  <2>2. \A y : y \in Elements(q) <=> \E i \in 1 .. Len(q) : y = q[i]
    BY <1>3, ElementsAre
  <2>3. \A i \in 1 .. Len(q) : i \in 1 .. Len(q) + 1 /\ i # Len(q) + 1
    BY <1>3
  <2>4. \A i \in 1 .. Len(q) + 1 : i # Len(q) + 1 => i \in 1 .. Len(q)
    BY <1>3
  <2>5. Len(q) + 1 \in 1 .. Len(q) + 1
    BY <1>3
  <2> QED  BY <1>3, <2>1, <2>2, <2>3, <2>4, <2>5
<1>5. ASSUME Distinct(q), x \notin Elements(q) PROVE Distinct(Append(q, x))
  <2>1. \A i \in 1 .. Len(q) : q[i] # x
    BY <1>3, <1>5, ElementsAre
  <2>2. SUFFICES ASSUME NEW i \in 1 .. Len(q) + 1, NEW j \in 1 .. Len(q) + 1, Append(q, x)[i] = Append(q, x)[j]
                 PROVE  i = j
    BY <1>3 DEF Distinct
  <2>3. i # Len(q) + 1 => i \in 1 .. Len(q)
    BY <1>3
  <2>4. j # Len(q) + 1 => j \in 1 .. Len(q)
    BY <1>3
  <2> QED  BY <1>3, <1>5, <2>1, <2>2, <2>3, <2>4 DEF Distinct
<1> QED  BY <1>1, <1>2, <1>4, <1>5

LEMMA JoinedIs ==
    ASSUME NEW p \in NodeSeq, NEW q \in NodeSeq
    PROVE  /\ Elements(p \o q) = Elements(p) \union Elements(q)
           /\ Len(p \o q) = Len(p) + Len(q)
           /\ \A i \in DOMAIN p : i \in DOMAIN (p \o q) /\ (p \o q)[i] = p[i]
           /\ \A i \in DOMAIN q : Len(p) + i \in DOMAIN (p \o q) /\ (p \o q)[Len(p) + i] = q[i]
<1>1. /\ DOMAIN p = 1 .. Len(p) /\ DOMAIN q = 1 .. Len(q) /\ DOMAIN (p \o q) = 1 .. Len(p) + Len(q)
      /\ Len(p) \in Nat /\ Len(q) \in Nat
      /\ \A i \in 1 .. Len(p) + Len(q) : (p \o q)[i] = IF i <= Len(p) THEN p[i] ELSE q[i - Len(p)]
  BY DEF NodeSeq
<1>2. Len(p \o q) = Len(p) + Len(q)
  BY DEF NodeSeq
<1>3. \A i \in DOMAIN p : i \in DOMAIN (p \o q) /\ (p \o q)[i] = p[i]
  BY <1>1
<1>4. ASSUME NEW i \in DOMAIN q PROVE Len(p) + i \in DOMAIN (p \o q) /\ (p \o q)[Len(p) + i] = q[i]
  <2>1. i \in 1 .. Len(q) /\ Len(p) + i \in 1 .. Len(p) + Len(q) /\ ~ (Len(p) + i <= Len(p)) /\ (Len(p) + i) - Len(p) = i
    BY <1>1
  <2> QED  BY <1>1, <2>1
<1>5. ASSUME NEW i \in DOMAIN (p \o q) PROVE (p \o q)[i] \in Elements(p) \union Elements(q)
  <2>1. i <= Len(p) => i \in DOMAIN p
    BY <1>1
  <2>2. ~ (i <= Len(p)) => i - Len(p) \in DOMAIN q
    BY <1>1
  <2> QED  BY <1>1, <2>1, <2>2, ElementsAre
<1>6. Elements(p \o q) = Elements(p) \union Elements(q)
  <2>1. \A y \in Elements(p \o q) : y \in Elements(p) \union Elements(q)
    BY <1>5, ElementsAre
  <2>2. \A y \in Elements(p) : y \in Elements(p \o q)
    BY <1>3, ElementsAre
  <2>3. \A y \in Elements(q) : y \in Elements(p \o q)
    BY <1>4, ElementsAre
  <2> QED  BY <2>1, <2>2, <2>3
<1> QED  BY <1>2, <1>3, <1>4, <1>6

(* What the first lines of a file add to what is found, when cur is taken.   *)
Finds(file, order, cur, h) ==
    /\ h[0] = << >>
    /\ \A i \in Nat : h[i + 1] = IF N!OtherEnd(file[i + 1], cur) \in N!ToSet(order \o h[i]) THEN h[i]
                                 ELSE Append(h[i], N!OtherEnd(file[i + 1], cur))

LEMMA DiscoverIs ==
    ASSUME NEW file, NEW s, s.stack # << >>
    PROVE  LET cur == N!Last(s.stack)
           IN \E h : /\ Finds(file, s.order, cur, h)
                     /\ N!Discover(file, s) =
                          [order |-> s.order \o h[Len(file)], stack |-> N!Front(s.stack) \o h[Len(file)],
                           parent |-> [n \in DOMAIN s.parent \union N!ToSet(h[Len(file)]) |->
                                          IF n \in N!ToSet(h[Len(file)]) THEN cur ELSE s.parent[n]]]
<1> DEFINE cur == N!Last(s.stack)
           End(i) == N!OtherEnd(file[i], cur)
           Values == Seq({End(i) : i \in Nat})
           F == [p \in Nat \X Values |-> IF End(p[1] + 1) \in N!ToSet(s.order \o p[2]) THEN p[2] ELSE Append(p[2], End(p[1] + 1))]
           Is(h) == h = [i \in Nat |->
                           IF i = 0 THEN << >>
                           ELSE LET n == N!OtherEnd(file[i], cur)
                                IN IF n \in N!ToSet(s.order \o h[i - 1]) THEN h[i - 1] ELSE Append(h[i - 1], n)]
           found == CHOOSE h : Is(h)
<1>1. \A i \in Nat, x \in Values : /\ F[<<i, x>>] = IF End(i + 1) \in N!ToSet(s.order \o x) THEN x ELSE Append(x, End(i + 1))
                                   /\ F[<<i, x>>] \in Values
  <2>1. \A i \in Nat, x \in Values : F[<<i, x>>] = IF End(i + 1) \in N!ToSet(s.order \o x) THEN x ELSE Append(x, End(i + 1))
    <3> HIDE DEF Values, End
    <3> QED  OBVIOUS
  <2>2. ASSUME NEW i \in Nat, NEW x \in Values PROVE F[<<i, x>>] \in Values
    <3> HIDE DEF F
    <3>1. End(i + 1) \in {End(j) : j \in Nat}
      <4> HIDE DEF End
      <4> QED  OBVIOUS
    <3>2. Append(x, End(i + 1)) \in Values
      <4> HIDE DEF End
      <4> QED  BY <3>1
    <3> HIDE DEF Values, End
    <3> QED  BY <2>1, <3>2
  <2> QED  BY <2>1, <2>2
<1> HIDE DEF F
<1>2. << >> \in Values
  OBVIOUS
<1>3. \E g : GoesOn(g, Values, << >>, F)
  <2> HIDE DEF Values
  <2> QED  BY <1>1, <1>2, Recursion
<1>4. PICK g : g \in [Nat -> Values] /\ g[0] = << >> /\ \A n \in Nat : g[n + 1] = F[<<n, g[n]>>]
  BY <1>3 DEF GoesOn
<1>5. Is(g)
  <2>1. ASSUME NEW i \in Nat, i # 0
        PROVE  g[i] = IF End(i) \in N!ToSet(s.order \o g[i - 1]) THEN g[i - 1] ELSE Append(g[i - 1], End(i))
    <3>1. i - 1 \in Nat /\ (i - 1) + 1 = i /\ g[i - 1] \in Values
      BY <1>4, <2>1
    <3> HIDE DEF Values, End
    <3> QED  BY <1>1, <1>4, <3>1
  <2> HIDE DEF Values
  <2> QED  BY <1>4, <2>1
<1>6. Is(found)
  BY <1>5
<1>7. Finds(file, s.order, cur, found)
  <2> HIDE DEF found
  <2>1. found[0] = << >>
    BY <1>6
  <2>2. ASSUME NEW i \in Nat
        PROVE  found[i + 1] = IF N!OtherEnd(file[i + 1], cur) \in N!ToSet(s.order \o found[i]) THEN found[i]
                              ELSE Append(found[i], N!OtherEnd(file[i + 1], cur))
    <3>1. i + 1 \in Nat /\ i + 1 # 0 /\ (i + 1) - 1 = i
      OBVIOUS
    <3> QED  BY <1>6, <3>1
  <2> QED  BY <2>1, <2>2 DEF Finds
<1>8. N!Discover(file, s) =
        [order |-> s.order \o found[Len(file)], stack |-> N!Front(s.stack) \o found[Len(file)],
         parent |-> [n \in DOMAIN s.parent \union N!ToSet(found[Len(file)]) |->
                        IF n \in N!ToSet(found[Len(file)]) THEN cur ELSE s.parent[n]]]
  BY Zenon DEF N!Discover
<1> HIDE DEF found
<1> QED  BY <1>7, <1>8

(* What is added: all that the lines lead to from cur and was not found yet, *)
(* once.                                                                     *)
LEMMA FindsAre ==
    ASSUME NEW file \in Seq(FileLine), NEW order \in NodeSeq, Distinct(order), NEW cur \in NodeIds,
           NEW h, Finds(file, order, cur, h)
    PROVE  LET new == h[Len(file)]
           IN /\ new \in NodeSeq /\ Distinct(order \o new)
              /\ \A k \in DOMAIN file : N!OtherEnd(file[k], cur) \in Elements(order \o new)
              /\ \A n \in Elements(new) : n \notin Elements(order) /\ \E k \in DOMAIN file : N!OtherEnd(file[k], cur) = n
<1> DEFINE End(k) == N!OtherEnd(file[k], cur)
           Good(i, q) == /\ q \in NodeSeq /\ Distinct(order \o q)
                         /\ \A k \in 1 .. i : End(k) \in Elements(order \o q)
                         /\ \A n \in Elements(q) : n \notin Elements(order) /\ \E k \in 1 .. i : End(k) = n
           ok == {i \in Nat : i <= Len(file) => Good(i, h[i])}
<1>0. Len(file) \in Nat /\ DOMAIN file = 1 .. Len(file)
  OBVIOUS
<1>1. \A k \in 1 .. Len(file) : End(k) \in NodeIds
  <2>1. \A l \in FileLine : l.a \in NodeIds /\ l.b \in NodeIds
    BY DEF FileLine
  <2>2. \A k \in 1 .. Len(file) : file[k] \in FileLine
    OBVIOUS
  <2> QED  BY <2>1, <2>2 DEF N!OtherEnd
<1> HIDE DEF End
<1>2. 0 \in ok
  <2>1. h[0] = << >> /\ << >> \in NodeSeq /\ order \o << >> = order
    BY DEF Finds, NodeSeq
  <2>2. Elements(<< >>) = {}
    BY ElementsAre
  <2>3. Good(0, << >>)
    <3>1. \A k \in 1 .. 0 : FALSE
      OBVIOUS
    <3> QED  BY <2>1, <2>2, <3>1
  <2> HIDE DEF Good
  <2> QED  BY <2>1, <2>3
<1>3. ASSUME NEW i \in Nat, i \in ok PROVE i + 1 \in ok
  <2>1. SUFFICES ASSUME i + 1 <= Len(file) PROVE Good(i + 1, h[i + 1])
    OBVIOUS
  <2>2. Good(i, h[i]) /\ i + 1 \in 1 .. Len(file)
    BY <1>0, <1>3, <2>1
  <2> DEFINE q == h[i]
             x == End(i + 1)
  <2>3. x \in NodeIds /\ q \in NodeSeq
    BY <1>1, <2>2
  <2>4. h[i + 1] = IF x \in Elements(order \o q) THEN q ELSE Append(q, x)
    BY DEF Finds, Elements, End
  <2>5. \A k \in 1 .. i + 1 : k \in 1 .. i \/ k = i + 1
    OBVIOUS
  <2>6. \A k \in 1 .. i : k \in 1 .. i + 1
    OBVIOUS
  <2>7. Good(i, q)
    BY <2>2
  <2> HIDE DEF q, x
  <2>8. CASE x \in Elements(order \o q)
    <3>1. h[i + 1] = q
      BY <2>4, <2>8
    <3>2. \A k \in 1 .. i + 1 : End(k) \in Elements(order \o q)
      BY <2>5, <2>7, <2>8 DEF x
    <3> QED  BY <2>6, <2>7, <3>1, <3>2
  <2>9. CASE x \notin Elements(order \o q)
    <3>1. h[i + 1] = Append(q, x)
      BY <2>4, <2>9
    <3>2. /\ Append(q, x) \in NodeSeq /\ order \o Append(q, x) = Append(order \o q, x) /\ order \o q \in NodeSeq
          /\ Elements(Append(q, x)) = Elements(q) \union {x}
      BY <2>3, AppendedIs
    <3>3. Elements(Append(order \o q, x)) = Elements(order \o q) \union {x} /\ Distinct(Append(order \o q, x))
      BY <2>3, <2>7, <2>9, <3>2, AppendedIs
    <3>4. x \notin Elements(order)
      BY <2>3, <2>9, JoinedIs
    <3>5. \A k \in 1 .. i + 1 : End(k) \in Elements(order \o Append(q, x))
      BY <2>5, <2>7, <3>2, <3>3 DEF x
    <3>6. i + 1 \in 1 .. i + 1 /\ End(i + 1) = x
      BY DEF x
    <3>7. \A n \in Elements(Append(q, x)) : n \notin Elements(order) /\ \E k \in 1 .. i + 1 : End(k) = n
      BY <2>6, <2>7, <3>2, <3>4, <3>6
    <3> QED  BY <3>1, <3>2, <3>3, <3>5, <3>7
  <2> QED  BY <2>8, <2>9
<1>4. Len(file) \in ok
  <2> HIDE DEF ok
  <2> QED  BY <1>0, <1>2, <1>3, Induction
<1> QED  BY <1>0, <1>4 DEF End

(* A search under way: what was found, and is still to be taken; the parent  *)
(* of a node was found before it, and a line leads from it to the node.      *)
SearchStates == [order : NodeSeq, stack : NodeSeq, parent : UNION {[D -> NodeIds] : D \in SUBSET NodeIds}]
Upwards(file, s) ==
    \A j \in DOMAIN s.order :
       s.order[j] # root =>
          \E i \in DOMAIN s.order, k \in DOMAIN file :
             /\ i < j /\ s.order[i] = s.parent[s.order[j]]
             /\ N!OtherEnd(file[k], s.order[i]) = s.order[j]
SearchInv(file, s) ==
    /\ s \in SearchStates
    /\ Distinct(s.order) /\ root \in Elements(s.order) /\ Elements(s.order) \subseteq N!FileNodes(file)
    /\ Elements(s.stack) \subseteq Elements(s.order)
    /\ \A x \in Elements(s.order) \ Elements(s.stack), k \in DOMAIN file : N!OtherEnd(file[k], x) \in Elements(s.order)
    /\ DOMAIN s.parent = Elements(s.order) \ {root}
    /\ Upwards(file, s)
\* How many were taken.
Taken(s) == Len(s.order) - Len(s.stack)

LEMMA LastIsTaken ==
    ASSUME NEW q \in NodeSeq, q # << >>
    PROVE  /\ N!Front(q) \in NodeSeq /\ N!Last(q) \in NodeIds
           /\ Elements(q) = Elements(N!Front(q)) \union {N!Last(q)}
           /\ Len(q) = Len(N!Front(q)) + 1 /\ Len(N!Front(q)) \in Nat
<1>1. Len(q) \in Nat /\ Len(q) >= 1 /\ DOMAIN q = 1 .. Len(q) /\ \A i \in 1 .. Len(q) : q[i] \in NodeIds
  BY DEF NodeSeq
<1>2. N!Front(q) = SubSeq(q, 1, Len(q) - 1) /\ N!Last(q) = q[Len(q)]
  BY DEF N!Front, N!Last
<1> DEFINE front == SubSeq(q, 1, Len(q) - 1)
<1>3. /\ front \in NodeSeq /\ Len(front) = Len(q) - 1 /\ DOMAIN front = 1 .. Len(q) - 1
      /\ \A i \in 1 .. Len(q) - 1 : front[i] = q[i]
  BY <1>1 DEF NodeSeq
<1> HIDE DEF front
<1>4. Elements(q) = Elements(front) \union {q[Len(q)]}
  <2>1. \A i \in 1 .. Len(q) : i = Len(q) \/ i \in 1 .. Len(q) - 1
    <3>1. \A n \in Nat : \A i \in 1 .. n : i = n \/ i \in 1 .. n - 1
      OBVIOUS
    <3> QED  BY <1>1, <3>1
  <2>2. \A i \in 1 .. Len(q) - 1 : i \in 1 .. Len(q)
    BY <1>1
  <2>3. Len(q) \in 1 .. Len(q)
    BY <1>1
  <2>4. \A y : y \in Elements(q) <=> \E i \in 1 .. Len(q) : y = q[i]
    BY <1>1, ElementsAre
  <2>5. \A y : y \in Elements(front) <=> \E i \in 1 .. Len(q) - 1 : y = front[i]
    BY <1>3, ElementsAre
  <2>6. ASSUME NEW y \in Elements(q) PROVE y \in Elements(front) \union {q[Len(q)]}
    BY <1>3, <2>1, <2>4, <2>5
  <2>7. ASSUME NEW y \in Elements(front) PROVE y \in Elements(q)
    BY <1>3, <2>2, <2>4, <2>5
  <2>8. q[Len(q)] \in Elements(q)
    BY <2>3, <2>4
  <2> QED  BY Zenon, <2>6, <2>7, <2>8
<1> QED  BY <1>1, <1>2, <1>3, <1>4 DEF front

LEMMA DiscoverKeeps ==
    ASSUME NEW file \in Seq(FileLine), root \in NodeIds, NEW s, SearchInv(file, s), s.stack # << >>
    PROVE  SearchInv(file, N!Discover(file, s)) /\ Taken(N!Discover(file, s)) = Taken(s) + 1
<1> DEFINE cur == N!Last(s.stack)
           front == N!Front(s.stack)
           t == N!Discover(file, s)
<1>0. s \in SearchStates /\ s.order \in NodeSeq /\ s.stack \in NodeSeq
  BY DEF SearchInv, SearchStates
<1>1. /\ front \in NodeSeq /\ cur \in NodeIds /\ Elements(s.stack) = Elements(front) \union {cur}
      /\ Len(s.stack) = Len(front) + 1 /\ Len(front) \in Nat
  BY <1>0, LastIsTaken
<1>2. PICK h : /\ Finds(file, s.order, cur, h)
               /\ t = [order |-> s.order \o h[Len(file)], stack |-> front \o h[Len(file)],
                       parent |-> [n \in DOMAIN s.parent \union N!ToSet(h[Len(file)]) |->
                                      IF n \in N!ToSet(h[Len(file)]) THEN cur ELSE s.parent[n]]]
  BY DiscoverIs
<1> DEFINE new == h[Len(file)]
<1>3. /\ new \in NodeSeq /\ Distinct(s.order \o new)
      /\ \A k \in DOMAIN file : N!OtherEnd(file[k], cur) \in Elements(s.order \o new)
      /\ \A n \in Elements(new) : n \notin Elements(s.order) /\ \E k \in DOMAIN file : N!OtherEnd(file[k], cur) = n
  BY <1>0, <1>1, <1>2, FindsAre DEF SearchInv
<1>4. /\ t.order = s.order \o new /\ t.stack = front \o new
      /\ t.parent = [n \in DOMAIN s.parent \union Elements(new) |-> IF n \in Elements(new) THEN cur ELSE s.parent[n]]
      /\ t = [order |-> t.order, stack |-> t.stack, parent |-> t.parent]
  <2> HIDE DEF t, cur, front
  <2>1. t = [order |-> s.order \o new, stack |-> front \o new,
             parent |-> [n \in DOMAIN s.parent \union Elements(new) |-> IF n \in Elements(new) THEN cur ELSE s.parent[n]]]
    BY <1>2 DEF Elements
  <2> HIDE DEF new
  <2> QED  BY <2>1
<1> HIDE DEF new, t, cur, front
<1>5. /\ Elements(t.order) = Elements(s.order) \union Elements(new) /\ Elements(t.stack) = Elements(front) \union Elements(new)
      /\ Len(t.order) = Len(s.order) + Len(new) /\ Len(t.stack) = Len(front) + Len(new)
      /\ \A i \in DOMAIN s.order : i \in DOMAIN t.order /\ t.order[i] = s.order[i]
      /\ t.order \in NodeSeq /\ t.stack \in NodeSeq
  <2>1. \A q \in NodeSeq, r \in NodeSeq : q \o r \in NodeSeq
    BY DEF NodeSeq
  <2>2. s.order \in NodeSeq /\ new \in NodeSeq /\ front \in NodeSeq
    BY <1>0, <1>1, <1>3
  <2>3. t.order = s.order \o new /\ t.stack = front \o new
    BY <1>4
  <2>4. /\ Elements(s.order \o new) = Elements(s.order) \union Elements(new)
        /\ Len(s.order \o new) = Len(s.order) + Len(new)
        /\ \A i \in DOMAIN s.order : i \in DOMAIN (s.order \o new) /\ (s.order \o new)[i] = s.order[i]
    BY <2>2, JoinedIs
  <2>5. Elements(front \o new) = Elements(front) \union Elements(new) /\ Len(front \o new) = Len(front) + Len(new)
    BY <2>2, JoinedIs
  <2> QED  BY <2>1, <2>2, <2>3, <2>4, <2>5
<1>6. cur \in Elements(s.order) /\ Elements(s.order) \subseteq NodeIds /\ Elements(new) \subseteq NodeIds
  <2>1. \A q \in NodeSeq : Elements(q) \subseteq NodeIds
    BY ElementsAre DEF NodeSeq
  <2> QED  BY <1>0, <1>1, <1>3, <2>1 DEF SearchInv
<1>7. t \in SearchStates
  <2>1. DOMAIN s.parent \subseteq NodeIds /\ \A n \in DOMAIN s.parent : s.parent[n] \in NodeIds
    <3>1. s.parent \in UNION {[D -> NodeIds] : D \in SUBSET NodeIds}
      BY <1>0 DEF SearchStates
    <3>2. PICK D \in SUBSET NodeIds : s.parent \in [D -> NodeIds]
      BY <3>1
    <3> QED  BY <3>2
  <2> DEFINE D == DOMAIN s.parent \union Elements(new)
  <2>2. t.parent \in [D -> NodeIds] /\ D \in SUBSET NodeIds
    BY <1>1, <1>4, <1>6, <2>1
  <2> HIDE DEF D
  <2>3. t.parent \in UNION {[E -> NodeIds] : E \in SUBSET NodeIds}
    BY <2>2
  <2> QED  BY <1>4, <1>5, <2>3 DEF SearchStates
<1>8. Elements(t.order) \subseteq N!FileNodes(file)
  <2>1. ASSUME NEW n \in Elements(new) PROVE n \in N!FileNodes(file)
    <3>1. PICK k \in DOMAIN file : N!OtherEnd(file[k], cur) = n
      BY <1>3
    <3>2. n \in {file[k].a, file[k].b} \/ n = cur
      BY <3>1 DEF N!OtherEnd
    <3>3. {file[k].a, file[k].b} \subseteq N!FileNodes(file) /\ cur \in N!FileNodes(file)
      BY <1>6 DEF N!FileNodes, SearchInv
    <3> QED  BY <3>2, <3>3
  <2> QED  BY <1>5, <2>1 DEF SearchInv
<1>9. Elements(t.stack) \subseteq Elements(t.order)
  BY <1>1, <1>5 DEF SearchInv
<1>10. ASSUME NEW x \in Elements(t.order) \ Elements(t.stack), NEW k \in DOMAIN file
       PROVE  N!OtherEnd(file[k], x) \in Elements(t.order)
  <2>1. CASE x = cur
    BY <1>3, <1>4, <2>1
  <2>2. CASE x # cur
    <3>1. x \in Elements(s.order) \ Elements(s.stack)
      BY <1>1, <1>5, <2>2
    <3> QED  BY <1>5, <3>1 DEF SearchInv
  <2> QED  BY <2>1, <2>2
<1>11. DOMAIN t.parent = Elements(t.order) \ {root}
  BY <1>3, <1>4, <1>5 DEF SearchInv
<1>12. Upwards(file, t)
  <2>1. SUFFICES ASSUME NEW j \in DOMAIN t.order, t.order[j] # root
                 PROVE  \E i \in DOMAIN t.order, k \in DOMAIN file :
                           /\ i < j /\ t.order[i] = t.parent[t.order[j]]
                           /\ N!OtherEnd(file[k], t.order[i]) = t.order[j]
    BY DEF Upwards
  <2> DEFINE n == t.order[j]
  <2>2. n \in Elements(t.order)
    BY ElementsAre
  <2>3. CASE j \in DOMAIN s.order
    <3>1. n = s.order[j] /\ n \in Elements(s.order)
      BY <1>5, <2>3, ElementsAre
    <3>2. PICK i \in DOMAIN s.order, k \in DOMAIN file :
              /\ i < j /\ s.order[i] = s.parent[n]
              /\ N!OtherEnd(file[k], s.order[i]) = n
      BY <2>1, <2>3, <3>1 DEF SearchInv, Upwards
    <3>3. n \in DOMAIN s.parent /\ n \notin Elements(new)
      BY <1>3, <2>1, <3>1 DEF SearchInv
    <3>4. t.parent[n] = s.parent[n]
      BY <1>4, <3>3
    <3> QED  BY <1>5, <3>2, <3>4
  <2>4. CASE j \notin DOMAIN s.order
    <3>1. Len(s.order) \in Nat /\ DOMAIN s.order = 1 .. Len(s.order) /\ j \in Nat /\ j >= 1
      BY <1>0, <1>5 DEF NodeSeq
    <3>2. \A i \in DOMAIN s.order : i < j
      BY <2>4, <3>1
    <3>3. n \notin Elements(s.order)
      <4>1. ASSUME NEW i \in DOMAIN s.order, s.order[i] = n PROVE FALSE
        <5>1. i \in DOMAIN t.order /\ t.order[i] = n
          BY <1>5, <4>1
        <5>2. i = j
          BY <1>3, <1>4, <5>1 DEF Distinct
        <5> QED  BY <2>4, <5>2
      <4> QED  BY <4>1, ElementsAre
    <3>4. n \in Elements(new)
      BY <1>5, <2>2, <3>3
    <3>5. PICK k \in DOMAIN file : N!OtherEnd(file[k], cur) = n
      BY <1>3, <3>4
    <3>6. PICK i \in DOMAIN s.order : s.order[i] = cur
      BY <1>6, ElementsAre
    <3>7. t.parent[n] = cur
      BY <1>4, <3>4
    <3> QED  BY <1>5, <3>2, <3>5, <3>6, <3>7
  <2> QED  BY <2>3, <2>4
<1>13. Taken(t) = Taken(s) + 1
  <2>1. Len(s.order) \in Nat /\ Len(new) \in Nat
    BY <1>0, <1>3 DEF NodeSeq
  <2> QED  BY <1>1, <1>5, <2>1 DEF Taken
<1> QED  BY <1>3, <1>4, <1>5, <1>7, <1>8, <1>9, <1>10, <1>11, <1>12, <1>13 DEF SearchInv, t

(* The search takes every node it finds: it finds each once, and a round     *)
(* takes one.                                                                *)
LEMMA SearchIs ==
    ASSUME GridAssumption, NEW file \in Seq(FileLine)
    PROVE  SearchInv(file, N!Search(file)) /\ N!Search(file).stack = << >>
<1> DEFINE Values == {s \in SearchStates : SearchInv(file, s)}
           start == [order |-> <<root>>, stack |-> <<root>>, parent |-> << >>]
           F == [p \in Nat \X Values |-> N!Discover(file, p[2])]
           Is(w) == w = [n \in Nat |-> IF n = 0 THEN [order |-> <<root>>, stack |-> <<root>>, parent |-> << >>]
                                       ELSE N!Discover(file, w[n - 1])]
           after == CHOOSE w : Is(w)
           size == Cardinality(N!FileNodes(file))
<1>0. root \in NodeIds /\ IsFiniteSet(NodeIds)
  BY NetworkIs
<1>1. start \in Values /\ Taken(start) = 0
  <2>1. <<root>> \in NodeSeq /\ Len(<<root>>) = 1 /\ DOMAIN <<root>> = {1} /\ <<root>>[1] = root
    BY <1>0 DEF NodeSeq
  <2>2. Elements(<<root>>) = {root}
    BY <2>1, ElementsAre
  <2>3. << >> \in [{} -> NodeIds] /\ DOMAIN << >> = {}
    OBVIOUS
  <2>4. << >> \in UNION {[D -> NodeIds] : D \in SUBSET NodeIds}
    <3>1. {} \in SUBSET NodeIds
      OBVIOUS
    <3> QED  BY <2>3, <3>1
  <2>5. start \in SearchStates
    BY <2>1, <2>4 DEF SearchStates
  <2>6. root \in N!FileNodes(file)
    BY DEF N!FileNodes
  <2>7. SearchInv(file, start)
    BY <2>1, <2>2, <2>3, <2>5, <2>6 DEF SearchInv, Distinct, Upwards
  <2> QED  BY <2>1, <2>5, <2>7 DEF Taken
<1> HIDE DEF start
<1>2. \A s \in Values : /\ N!Discover(file, s) \in Values
                        /\ s.stack = << >> => N!Discover(file, s) = s
                        /\ s.stack # << >> => Taken(N!Discover(file, s)) = Taken(s) + 1
  <2>1. ASSUME NEW s \in Values PROVE s.stack = << >> => N!Discover(file, s) = s
    BY DEF N!Discover
  <2>2. ASSUME NEW s \in Values, s.stack # << >>
        PROVE  N!Discover(file, s) \in Values /\ Taken(N!Discover(file, s)) = Taken(s) + 1
    <3>1. SearchInv(file, N!Discover(file, s)) /\ Taken(N!Discover(file, s)) = Taken(s) + 1
      BY <1>0, <2>2, DiscoverKeeps
    <3> QED  BY <3>1 DEF SearchInv
  <2> HIDE DEF Values
  <2> QED  BY <2>1, <2>2
<1>3. \A n \in Nat, s \in Values : F[<<n, s>>] = N!Discover(file, s)
  <2> HIDE DEF Values
  <2> QED  OBVIOUS
<1> HIDE DEF F
<1>4. \E g : GoesOn(g, Values, start, F)
  <2> HIDE DEF Values
  <2> QED  BY <1>1, <1>2, <1>3, Recursion
<1>5. PICK g : g \in [Nat -> Values] /\ g[0] = start /\ \A n \in Nat : g[n + 1] = F[<<n, g[n]>>]
  BY <1>4 DEF GoesOn
<1>6. Is(g)
  <2>1. ASSUME NEW n \in Nat, n # 0 PROVE g[n] = N!Discover(file, g[n - 1])
    <3>1. n - 1 \in Nat /\ (n - 1) + 1 = n /\ g[n - 1] \in Values
      BY <1>5, <2>1
    <3> HIDE DEF Values
    <3> QED  BY <1>3, <1>5, <3>1
  <2> HIDE DEF Values
  <2> QED  BY <1>5, <2>1 DEF start
<1>7. Is(after)
  BY <1>6
<1>8. N!Search(file) = after[size]
  BY SizeIs DEF N!Search
<1> HIDE DEF after
<1>9. after[0] = start /\ \A n \in Nat : after[n + 1] = N!Discover(file, after[n])
  <2>1. after[0] = start
    BY <1>7 DEF start
  <2>2. ASSUME NEW n \in Nat PROVE after[n + 1] = N!Discover(file, after[n])
    <3>1. n + 1 \in Nat /\ n + 1 # 0 /\ (n + 1) - 1 = n
      OBVIOUS
    <3> QED  BY <1>7, <3>1
  <2> QED  BY <2>1, <2>2
<1>10. \A n \in Nat : after[n] \in Values /\ (after[n].stack = << >> \/ Taken(after[n]) >= n)
  <2> DEFINE ok == {n \in Nat : after[n] \in Values /\ (after[n].stack = << >> \/ Taken(after[n]) >= n)}
  <2> HIDE DEF Values
  <2>1. 0 \in ok
    BY <1>1, <1>9
  <2>2. ASSUME NEW n \in Nat, n \in ok PROVE n + 1 \in ok
    <3>1. after[n] \in Values /\ after[n + 1] = N!Discover(file, after[n])
      BY <1>9, <2>2
    <3>2. CASE after[n].stack = << >>
      BY <1>2, <3>1, <3>2
    <3>3. CASE after[n].stack # << >>
      <4>1. Taken(after[n + 1]) = Taken(after[n]) + 1 /\ after[n + 1] \in Values /\ Taken(after[n]) >= n
        BY <1>2, <2>2, <3>1, <3>3
      <4>2. Taken(after[n]) \in Int
        <5>1. after[n].order \in NodeSeq /\ after[n].stack \in NodeSeq
          BY <3>1 DEF Values, SearchStates
        <5>2. \A q \in NodeSeq : Len(q) \in Nat
          BY DEF NodeSeq
        <5> QED  BY <5>1, <5>2 DEF Taken
      <4> QED  BY <4>1, <4>2
    <3> QED  BY <3>2, <3>3
  <2>3. \A n \in Nat : n \in ok
    <3> HIDE DEF ok
    <3> QED  BY <2>1, <2>2, Induction
  <2> QED  BY <2>3
<1>11. IsFiniteSet(N!FileNodes(file)) /\ size \in Nat
  <2>1. N!FileNodes(file) \in SUBSET NodeIds
    <3>1. \A l \in FileLine : l.a \in NodeIds /\ l.b \in NodeIds
      BY DEF FileLine
    <3>2. \A i \in DOMAIN file : file[i] \in FileLine
      OBVIOUS
    <3> QED  BY <1>0, <3>1, <3>2 DEF N!FileNodes
  <2> QED  BY <1>0, <2>1, FS_Subset, FS_CardinalityType
<1> DEFINE s == after[size]
           count == Len(s.order)
<1>12. s \in Values /\ (s.stack = << >> \/ Taken(s) >= size)
  BY <1>10, <1>11
<1>13. /\ count \in Nat /\ DOMAIN s.order = 1 .. count /\ Len(s.stack) \in Nat /\ (Len(s.stack) = 0 => s.stack = << >>)
       /\ s.order \in [1 .. count -> N!FileNodes(file)]
  <2>1. s.order \in NodeSeq /\ s.stack \in NodeSeq /\ Elements(s.order) \subseteq N!FileNodes(file)
    BY <1>12 DEF SearchInv, SearchStates
  <2> HIDE DEF s
  <2>2. /\ count \in Nat /\ DOMAIN s.order = 1 .. count /\ Len(s.stack) \in Nat /\ (Len(s.stack) = 0 => s.stack = << >>)
        /\ s.order \in [1 .. count -> NodeIds]
    BY <2>1 DEF NodeSeq
  <2>3. \A i \in 1 .. count : s.order[i] \in N!FileNodes(file)
    BY <2>1, <2>2, ElementsAre
  <2> QED  BY <2>2, <2>3
<1>14. count <= size
  <2>1. s.order \in Injection(1 .. count, N!FileNodes(file))
    <3>1. Distinct(s.order)
      BY <1>12 DEF SearchInv
    <3> HIDE DEF s, count
    <3> QED  BY <1>13, <3>1 DEF Injection, IsInjective, Distinct
  <2>2. Cardinality(1 .. count) = count
    <3>1. 0 \in Int /\ \A n \in Nat : Cardinality(1 .. n) = n
      BY FS_Interval
    <3> HIDE DEF count
    <3> QED  BY <1>13, <3>1
  <2> HIDE DEF s, count
  <2>3. Cardinality(1 .. count) <= Cardinality(N!FileNodes(file))
    BY <1>11, <2>1, FS_Injection
  <2> QED  BY <2>2, <2>3
<1>15. s.stack = << >>
  <2>1. SUFFICES ASSUME s.stack # << >> PROVE FALSE
    OBVIOUS
  <2> HIDE DEF s, size, Values, Is
  <2>2. Taken(s) = count - Len(s.stack)
    BY DEF Taken
  <2> HIDE DEF count
  <2>3. count - Len(s.stack) >= size /\ Len(s.stack) # 0
    BY <1>12, <1>13, <2>1, <2>2
  <2> QED  BY <1>11, <1>13, <1>14, <2>3
<1>16. SearchInv(file, s)
  BY <1>12
<1> QED  BY <1>8, <1>15, <1>16

\* What an import may write: lines along which the walk from the root finds all that it
\* finds both ways, and parents one step up such a line.
Oriented(lines, parent) ==
    /\ lines \in Seq(FileLine)
    /\ N!Walk(N!LinePairs(lines), root) = N!Walk(N!BothWays(N!LinePairs(lines)), root)
    /\ \A n \in DOMAIN parent : <<parent[n], n>> \in N!LinePairs(lines)

(* A line leads from the end that was found first to the other.              *)
LEMMA LinesAre ==
    ASSUME GridAssumption, NEW file \in Seq(FileLine), NEW order, order = N!Search(file).order
    PROVE  LET lines == N!OrientRadial(file)
           IN /\ lines \in Seq(FileLine) /\ DOMAIN lines = DOMAIN file
              /\ \A k \in DOMAIN file : \/ lines[k].a = file[k].a /\ lines[k].b = file[k].b
                                        \/ lines[k].a = file[k].b /\ lines[k].b = file[k].a
              /\ \A k \in DOMAIN file, i, j \in DOMAIN order :
                    order[i] # order[j] /\ i < j /\ N!OtherEnd(file[k], order[i]) = order[j]
                    => lines[k].a = order[i] /\ lines[k].b = order[j]
<1> DEFINE Found(n) == CHOOSE i \in DOMAIN order : order[i] = n
           Backwards(l) == {l.a, l.b} \subseteq N!ToSet(order) /\ Found(l.a) > Found(l.b)
           lines == N!OrientRadial(file)
<1>1. lines = [i \in DOMAIN file |-> IF Backwards(file[i]) THEN [file[i] EXCEPT !.a = file[i].b, !.b = file[i].a] ELSE file[i]]
  BY Zenon DEF N!OrientRadial
<1> HIDE DEF lines
<1>2. SearchInv(file, N!Search(file))
  BY SearchIs
<1>3. order \in NodeSeq /\ Distinct(order)
  BY <1>2 DEF SearchInv, SearchStates
<1>4. \A i \in DOMAIN order : order[i] \in N!ToSet(order) /\ Found(order[i]) = i
  BY <1>3 DEF Distinct, N!ToSet
<1> HIDE DEF Backwards, Found
<1>5. DOMAIN file = 1 .. Len(file) /\ Len(file) \in Nat /\ \A k \in DOMAIN file : file[k] \in FileLine
  OBVIOUS
<1>6. \A k \in DOMAIN file : /\ lines[k] \in FileLine
                             /\ Backwards(file[k]) => lines[k].a = file[k].b /\ lines[k].b = file[k].a
                             /\ ~Backwards(file[k]) => lines[k].a = file[k].a /\ lines[k].b = file[k].b
  <2>1. ASSUME NEW l \in FileLine
        PROVE  LET r == [l EXCEPT !.a = l.b, !.b = l.a] IN r \in FileLine /\ r.a = l.b /\ r.b = l.a
    BY DEF FileLine
  <2>2. ASSUME NEW k \in DOMAIN file
        PROVE  lines[k] = IF Backwards(file[k]) THEN [file[k] EXCEPT !.a = file[k].b, !.b = file[k].a] ELSE file[k]
    BY <1>1
  <2> QED  BY <1>5, <2>1, <2>2
<1>7. lines \in Seq(FileLine) /\ DOMAIN lines = DOMAIN file
  <2>1. lines \in [1 .. Len(file) -> FileLine]
    <3>1. lines = [k \in DOMAIN file |-> lines[k]]
      BY <1>1
    <3> QED  BY <1>5, <1>6, <3>1
  <2> QED  BY <1>5, <2>1
<1>8. ASSUME NEW k \in DOMAIN file, NEW i \in DOMAIN order, NEW j \in DOMAIN order,
             order[i] # order[j], i < j, N!OtherEnd(file[k], order[i]) = order[j]
      PROVE  lines[k].a = order[i] /\ lines[k].b = order[j]
  <2>0. i \in Nat /\ j \in Nat
    BY <1>3 DEF NodeSeq
  <2>1. \/ file[k].a = order[i] /\ file[k].b = order[j]
        \/ file[k].b = order[i] /\ file[k].a = order[j]
    BY <1>8 DEF N!OtherEnd
  <2>2. CASE file[k].a = order[i] /\ file[k].b = order[j]
    <3>1. ~Backwards(file[k])
      BY <1>4, <1>8, <2>0, <2>2 DEF Backwards
    <3> QED  BY <1>6, <2>2, <3>1
  <2>3. CASE file[k].b = order[i] /\ file[k].a = order[j]
    <3>1. Backwards(file[k])
      BY <1>4, <1>8, <2>0, <2>3 DEF Backwards
    <3> QED  BY <1>6, <2>3, <3>1
  <2> QED  BY <2>1, <2>2, <2>3
<1> QED  BY <1>6, <1>7, <1>8 DEF lines

(* An import leads down: each node that was found has a way from the root    *)
(* along the lines, over its parent; and nothing else is joined to the root. *)
LEMMA ImportIs ==
    ASSUME GridAssumption, NEW file \in Files
    PROVE  Oriented(N!OrientRadial(file), N!Search(file).parent)
<1> DEFINE s == N!Search(file)
           order == s.order
           lines == N!OrientRadial(file)
           pairs == N!LinePairs(lines)
           down == N!Walk(pairs, root)
           all == N!Walk(N!BothWays(pairs), root)
<1>0. root \in NodeIds /\ IsFiniteSet(NodeIds) /\ file \in Seq(FileLine)
  BY NetworkIs DEF FileLine
<1>1. SearchInv(file, s) /\ s.stack = << >>
  BY <1>0, SearchIs
<1>2. /\ lines \in Seq(FileLine) /\ DOMAIN lines = DOMAIN file
      /\ \A k \in DOMAIN file : \/ lines[k].a = file[k].a /\ lines[k].b = file[k].b
                                \/ lines[k].a = file[k].b /\ lines[k].b = file[k].a
      /\ \A k \in DOMAIN file, i, j \in DOMAIN order :
            order[i] # order[j] /\ i < j /\ N!OtherEnd(file[k], order[i]) = order[j]
            => lines[k].a = order[i] /\ lines[k].b = order[j]
  BY <1>0, LinesAre
<1>3. order \in NodeSeq /\ Distinct(order) /\ root \in Elements(order) /\ DOMAIN s.parent = Elements(order) \ {root}
  BY <1>1 DEF SearchInv, SearchStates
<1>4. Upwards(file, s)
  BY <1>1 DEF SearchInv
<1>5. \A x \in Elements(order), k \in DOMAIN file : N!OtherEnd(file[k], x) \in Elements(order)
  <2>1. Elements(s.stack) = {}
    BY <1>1, ElementsAre
  <2> QED  BY <1>1, <2>1 DEF SearchInv
<1> HIDE DEF s, lines
<1>6. \A p : p \in pairs <=> \E k \in DOMAIN file : p = <<lines[k].a, lines[k].b>>
  BY <1>2 DEF N!LinePairs
<1> DEFINE both == N!BothWays(pairs)
<1>7. \A p : p \in both <=> p \in pairs \/ \E q \in pairs : p = <<q[2], q[1]>>
  BY DEF N!BothWays
<1> HIDE DEF pairs
<1>8. pairs \in SUBSET (NodeIds \X NodeIds)
  <2>1. \A k \in DOMAIN lines : lines[k].a \in NodeIds /\ lines[k].b \in NodeIds
    <3>1. \A l \in FileLine : l.a \in NodeIds /\ l.b \in NodeIds
      BY DEF FileLine
    <3> QED  BY <1>2, <3>1
  <2> QED  BY <1>2, <1>6, <2>1
<1> HIDE DEF both
<1>9. both \in SUBSET (NodeIds \X NodeIds) /\ pairs \subseteq both
  <2>1. ASSUME NEW p \in both PROVE p \in NodeIds \X NodeIds
    <3>1. ASSUME NEW q \in pairs, p = <<q[2], q[1]>> PROVE p \in NodeIds \X NodeIds
      BY <1>8, <3>1
    <3> QED  BY <1>7, <1>8, <2>1, <3>1
  <2> QED  BY <1>7, <2>1
<1>10. /\ down \in SUBSET NodeIds /\ root \in down /\ Holds(pairs, down)
       /\ \A S : root \in S /\ Holds(pairs, S) => down \subseteq S
  BY <1>0, <1>8, WalkIs
<1>11. /\ all \in SUBSET NodeIds /\ root \in all /\ Holds(both, all)
       /\ \A S : root \in S /\ Holds(both, S) => all \subseteq S
  BY <1>0, <1>9, WalkIs DEF both
<1> HIDE DEF down, all
<1>12. ASSUME NEW j \in DOMAIN order, order[j] # root
       PROVE  \E i \in DOMAIN order : /\ i < j /\ order[i] = s.parent[order[j]]
                                      /\ <<order[i], order[j]>> \in pairs
  <2>1. PICK i \in DOMAIN order, k \in DOMAIN file :
            i < j /\ order[i] = s.parent[order[j]] /\ N!OtherEnd(file[k], order[i]) = order[j]
    BY <1>4, <1>12 DEF Upwards
  <2>2. order[i] # order[j]
    <3>1. i \in Nat /\ j \in Nat
      BY <1>3 DEF NodeSeq
    <3> QED  BY <1>3, <2>1, <3>1 DEF Distinct
  <2>3. lines[k].a = order[i] /\ lines[k].b = order[j]
    BY <1>2, <2>1, <2>2
  <2> QED  BY <1>6, <2>1, <2>3
<1>13. \A n \in DOMAIN s.parent : <<s.parent[n], n>> \in pairs
  <2>1. ASSUME NEW n \in DOMAIN s.parent PROVE <<s.parent[n], n>> \in pairs
    <3>1. PICK j \in DOMAIN order : order[j] = n
      BY <1>3, ElementsAre
    <3>2. order[j] # root
      BY <1>3, <3>1
    <3> QED  BY <1>12, <3>1, <3>2
  <2> QED  BY <2>1
<1>14. Elements(order) \subseteq down
  <2> DEFINE others == {i \in DOMAIN order : order[i] \notin down}
  <2>1. SUFFICES ASSUME others # {} PROVE FALSE
    BY ElementsAre
  <2>2. DOMAIN order \subseteq Nat
    BY <1>3 DEF NodeSeq
  <2>3. PICK j \in others : \A i \in others : j <= i
    <3>1. others \in SUBSET Nat
      BY <2>2
    <3> HIDE DEF others
    <3> QED  BY <2>1, <3>1, Smallest
  <2>4. order[j] # root
    BY <1>10, <2>3
  <2>5. PICK i \in DOMAIN order : i < j /\ <<order[i], order[j]>> \in pairs
    BY <1>12, <2>3, <2>4
  <2>6. order[i] \in down
    BY <2>2, <2>3, <2>5
  <2>7. order[j] \in down
    <3> DEFINE p == <<order[i], order[j]>>
    <3>1. p \in pairs /\ p[1] = order[i] /\ p[2] = order[j]
      BY <2>5
    <3> HIDE DEF p
    <3> QED  BY <1>10, <2>6, <3>1 DEF Holds
  <2> QED  BY <2>3, <2>7
<1>15. all \subseteq Elements(order)
  <2>1. ASSUME NEW p \in both, p[1] \in Elements(order) PROVE p[2] \in Elements(order)
    <3>1. PICK k \in DOMAIN file : \/ p[1] = lines[k].a /\ p[2] = lines[k].b
                                   \/ p[1] = lines[k].b /\ p[2] = lines[k].a
      <4>1. CASE p \in pairs
        BY <1>6, <4>1
      <4>2. CASE p \notin pairs
        <5>1. PICK q \in pairs : p = <<q[2], q[1]>>
          BY <1>7, <2>1, <4>2
        <5>2. PICK k \in DOMAIN file : q = <<lines[k].a, lines[k].b>>
          BY <1>6
        <5> QED  BY <5>1, <5>2
      <4> QED  BY <4>1, <4>2
    <3>2. \/ p[1] = file[k].a /\ p[2] = file[k].b
          \/ p[1] = file[k].b /\ p[2] = file[k].a
      BY <1>2, <3>1
    <3>3. N!OtherEnd(file[k], p[1]) = p[2]
      BY <3>2 DEF N!OtherEnd
    <3> QED  BY <1>5, <2>1, <3>3
  <2>2. Holds(both, Elements(order))
    BY <2>1 DEF Holds
  <2> QED  BY <1>3, <1>11, <2>2
<1>16. down \subseteq all
  <2>1. Holds(pairs, all)
    BY <1>9, <1>11 DEF Holds
  <2> QED  BY <1>10, <1>11, <2>1
<1>17. down = all
  BY <1>14, <1>15, <1>16
<1> QED  BY <1>2, <1>13, <1>17 DEF Oriented, down, all, both, pairs, lines, s

-----------------------------------------------------------------------------
(* The rows of the network.                                                  *)

NodeRow == [parent : NodeIds \union {None}, version : N!Versions \union {None}]
EdgeRow == [from : NodeIds, to : NodeIds, closed : BOOLEAN, version : N!Versions \union {None}]

(* What a row refers to is there, and what is to be imported leads down from *)
(* the root.                                                                 *)
NetworkInv ==
    /\ newest \in 1 .. MaxModels
    /\ nodes \in [NodeIds -> NodeRow \union {None}] /\ edges \in [EdgeIds -> EdgeRow \union {None}]
    /\ \A n \in N!NodeRows : nodes[n].parent \in N!NodeRows \union {None}
    /\ EdgesHaveNodes
    /\ \A j \in Jobs : Oriented(job[j].lines, job[j].parent) /\ job[j].version \in N!Versions \union {None}

LEMMA RowsAre ==
    ASSUME GridAssumption, NetworkInv
    PROVE  /\ None \notin NodeRow
           /\ \A n \in N!NodeRows : n \in NodeIds /\ nodes[n] \in NodeRow
           /\ \A e \in N!EdgeRows : e \in EdgeIds /\ edges[e] \in EdgeRow
<1>1. None \notin NodeRow
  <2>1. None \notin [parent : NodeIds \union {None}, version : Nat \union {None}] /\ N!Versions \subseteq Nat
    BY DEF GridAssumption, N!NetworkModelAssumption, N!Versions
  <2> QED  BY <2>1 DEF NodeRow
<1> QED  BY <1>1 DEF NetworkInv, N!NodeRows, N!EdgeRows

LEMMA CurrentIs ==
    ASSUME GridAssumption, VersionInv, NetworkInv
    PROVE  N!Current \in N!Versions \union {None}
<1>1. newest \in 1 .. MaxModels /\ flagged \subseteq 1 .. newest /\ newest \in Nat /\ MaxModels \in Nat
  BY NetworkIs DEF VersionInv, NetworkInv
<1>2. CASE flagged = {}
  BY <1>2 DEF N!Current
<1>3. CASE flagged # {}
  <2>1. flagged \in SUBSET (0 .. newest)
    BY <1>1
  <2>2. \E x \in flagged : \A y \in flagged : x >= y
    BY <1>1, <1>3, <2>1, LargestOf
  <2>3. N!Max(flagged) \in flagged
    BY <2>2 DEF N!Max
  <2>4. \A v \in flagged : v \in 1 .. MaxModels
    BY <1>1
  <2> QED  BY <1>3, <2>3, <2>4 DEF N!Current, N!Versions
<1> QED  BY <1>2, <1>3

LEMMA RestingLeads == Oriented(N!Resting.lines, N!Resting.parent) /\ N!Resting.version = None
<1>1. N!Resting.lines = << >> /\ N!Resting.parent = << >> /\ N!Resting.version = None
  BY DEF N!Resting
<1>2. N!LinePairs(<< >>) = {} /\ N!BothWays({}) = {} /\ << >> \in Seq(FileLine)
  BY DEF N!LinePairs, N!BothWays
<1> QED  BY <1>1, <1>2 DEF Oriented

(* The ends of the lines, and the parents, are nodes of the file.            *)
LEMMA OrientedIs ==
    ASSUME GridAssumption, NEW lines, NEW parent, Oriented(lines, parent)
    PROVE  /\ N!FileNodes(lines) \subseteq NodeIds
           /\ \A n \in DOMAIN parent : parent[n] \in N!FileNodes(lines)
<1>1. \A i \in DOMAIN lines : lines[i].a \in NodeIds /\ lines[i].b \in NodeIds
  <2>1. \A l \in FileLine : l.a \in NodeIds /\ l.b \in NodeIds
    BY DEF FileLine
  <2> QED  BY <2>1 DEF Oriented
<1>2. N!FileNodes(lines) \subseteq NodeIds
  BY <1>1, NetworkIs DEF N!FileNodes
<1>3. ASSUME NEW n \in DOMAIN parent PROVE parent[n] \in N!FileNodes(lines)
  <2>1. PICK i \in DOMAIN lines : <<parent[n], n>> = <<lines[i].a, lines[i].b>>
    BY DEF Oriented, N!LinePairs
  <2>2. parent[n] = lines[i].a
    BY <2>1
  <2> QED  BY <2>2 DEF N!FileNodes
<1> QED  BY <1>2, <1>3

\* What a step leaves of the rows, as their types say it.
LEMMA NodesStay ==
    ASSUME NetworkInv, UNCHANGED <<nodes, edges>>
    PROVE  /\ nodes' \in [NodeIds -> NodeRow \union {None}] /\ edges' \in [EdgeIds -> EdgeRow \union {None}]
           /\ (\A n \in N!NodeRows : nodes[n].parent \in N!NodeRows \union {None})'
           /\ EdgesHaveNodes'
<1>1. N!NodeRows' = N!NodeRows /\ N!EdgeRows' = N!EdgeRows
  BY DEF N!NodeRows, N!EdgeRows
<1> QED  BY <1>1 DEF NetworkInv, EdgesHaveNodes

LEMMA PublishingKeeps ==
    ASSUME GridAssumption, VersionInv, NetworkInv, NEW j \in Jobs,
           N!ApiClear(j) \/ N!ApiInsert(j) \/ N!Fails(j) \/ N!LoaderBegin(j) \/ N!LoaderPublish(j)
    PROVE  NetworkInv'
<1>0. MaxModels \in Nat /\ newest \in 1 .. MaxModels /\ job = [i \in Jobs |-> job[i]] /\ IsJob(job[j])
  BY NetworkIs DEF NetworkInv, VersionInv
<1>1. UNCHANGED <<nodes, edges>>
  BY DEF N!ApiClear, N!ApiInsert, N!Fails, N!LoaderBegin, N!LoaderPublish
<1>2. newest' \in 1 .. MaxModels
  <2>1. newest' = newest \/ (newest < MaxModels /\ newest' = newest + 1)
    BY DEF N!ApiClear, N!ApiInsert, N!Fails, N!LoaderBegin, N!LoaderPublish, N!NewVersion
  <2> QED  BY <1>0, <2>1
<1> DEFINE Good(q) == Oriented(q.lines, q.parent) /\ q.version \in N!Versions \union {None}
<1>3. \A i \in Jobs : Good(job[i])
  BY DEF NetworkInv
<1>4. Good(N!Resting)
  BY RestingLeads
<1>5. \E q : Good(q) /\ job' = [job EXCEPT ![j] = q]
  <2>1. CASE N!ApiClear(j)
    <3> DEFINE q == [job[j] EXCEPT !.at = "insert"]
    <3>1. job' = [job EXCEPT ![j] = q]
      BY <2>1 DEF N!ApiClear
    <3>2. q.lines = job[j].lines /\ q.parent = job[j].parent /\ q.version = job[j].version
      BY <1>0 DEF IsJob, Parts
    <3> HIDE DEF q
    <3>3. Good(q)
      BY <1>3, <3>2
    <3> QED  BY <3>1, <3>3
  <2>2. CASE N!ApiInsert(j) \/ N!Fails(j)
    <3>1. job' = [job EXCEPT ![j] = N!Resting]
      BY <2>2 DEF N!ApiInsert, N!Fails
    <3> QED  BY <1>4, <3>1
  <2>3. CASE N!LoaderBegin(j)
    <3>1. PICK file \in Files :
             job' = [job EXCEPT ![j] = [N!Resting EXCEPT !.at = "commit", !.seen = flagged,
                                           !.parent = N!Search(file).parent, !.lines = N!OrientRadial(file)]]
      BY <2>3 DEF N!LoaderBegin
    <3> DEFINE parent == N!Search(file).parent
               lines == N!OrientRadial(file)
               q == [N!Resting EXCEPT !.at = "commit", !.seen = flagged, !.parent = parent, !.lines = lines]
    <3>2. job' = [job EXCEPT ![j] = q] /\ Oriented(lines, parent)
      BY <3>1, ImportIs
    <3> HIDE DEF parent, lines
    <3>3. q.lines = lines /\ q.parent = parent /\ q.version = N!Resting.version
      BY RestingIs DEF IsJob, Parts
    <3> HIDE DEF q
    <3>4. Good(q)
      BY <3>2, <3>3, RestingLeads
    <3> QED  BY <3>2, <3>4
  <2>4. CASE N!LoaderPublish(j)
    <3> DEFINE q == [job[j] EXCEPT !.at = "nodes", !.seen = {}, !.version = newest']
    <3>1. job' = [job EXCEPT ![j] = q]
      BY <2>4, Published
    <3>2. q.lines = job[j].lines /\ q.parent = job[j].parent /\ q.version = newest'
      BY <1>0 DEF IsJob, Parts
    <3> HIDE DEF q
    <3>3. Good(q)
      BY <1>2, <1>3, <3>2 DEF N!Versions
    <3> QED  BY <3>1, <3>3
  <2> QED  BY <2>1, <2>2, <2>3, <2>4
<1>6. \A i \in Jobs : Good(job'[i])
  <2>1. PICK q : Good(q) /\ job' = [job EXCEPT ![j] = q]
    BY <1>5
  <2> HIDE DEF Good
  <2> QED  BY <1>0, <1>3, <2>1
<1> QED  BY <1>1, <1>2, <1>6, NodesStay DEF NetworkInv, N!Versions

LEMMA UpsertsKeep ==
    ASSUME GridAssumption, VersionInv, NetworkInv, NEW j \in Jobs, N!UpsertNodes(j) \/ N!UpsertEdges(j)
    PROVE  NetworkInv'
<1> DEFINE q == job[j]
<1>0. /\ newest' = newest /\ job = [i \in Jobs |-> job[i]] /\ IsJob(q)
      /\ Oriented(q.lines, q.parent) /\ q.version \in N!Versions \union {None}
      /\ N!Versions' = N!Versions
  BY DEF NetworkInv, VersionInv, N!UpsertNodes, N!UpsertEdges, N!Versions
<1>1. \A i \in Jobs : Oriented(job'[i].lines, job'[i].parent) /\ job'[i].version \in N!Versions \union {None}
  <2> DEFINE Good(r) == Oriented(r.lines, r.parent) /\ r.version \in N!Versions \union {None}
  <2>1. \A i \in Jobs : Good(job[i])
    BY DEF NetworkInv
  <2>2. \E r : Good(r) /\ job' = [job EXCEPT ![j] = r]
    <3>1. CASE N!UpsertNodes(j)
      <4> DEFINE r == [job[j] EXCEPT !.at = "edges"]
      <4>1. job' = [job EXCEPT ![j] = r]
        BY <3>1 DEF N!UpsertNodes
      <4>2. r.lines = q.lines /\ r.parent = q.parent /\ r.version = q.version
        BY <1>0 DEF IsJob, Parts
      <4> HIDE DEF r
      <4>3. Good(r)
        BY <2>1, <4>2
      <4> QED  BY <4>1, <4>3
    <3>2. CASE N!UpsertEdges(j)
      <4>1. job' = [job EXCEPT ![j] = N!Resting]
        BY <3>2 DEF N!UpsertEdges
      <4> QED  BY <4>1, RestingLeads
    <3> QED  BY <3>1, <3>2
  <2>3. PICK r : Good(r) /\ job' = [job EXCEPT ![j] = r]
    BY <2>2
  <2> HIDE DEF Good
  <2>4. \A i \in Jobs : Good(job'[i])
    BY <1>0, <2>1, <2>3
  <2> QED  BY <2>4 DEF Good
<1>2. CASE N!UpsertNodes(j)
  <2> DEFINE file == N!FileNodes(q.lines)
             Row(n) == [parent |-> IF n \in DOMAIN q.parent THEN q.parent[n]
                                   ELSE IF nodes[n] = None THEN None ELSE nodes[n].parent,
                        version |-> q.version]
  <2>1. nodes' = [n \in NodeIds |-> IF n \notin file THEN nodes[n] ELSE Row(n)] /\ edges' = edges
    BY <1>2 DEF N!UpsertNodes
  <2>2. file \subseteq NodeIds /\ \A n \in DOMAIN q.parent : q.parent[n] \in file
    BY <1>0, OrientedIs
  <2>3. ASSUME NEW n \in file PROVE Row(n).parent \in N!NodeRows \union file \union {None} /\ Row(n) \in NodeRow
    <3>1. Row(n).parent = IF n \in DOMAIN q.parent THEN q.parent[n] ELSE IF nodes[n] = None THEN None ELSE nodes[n].parent
      OBVIOUS
    <3>2. nodes[n] # None => n \in N!NodeRows /\ nodes[n].parent \in N!NodeRows \union {None}
      BY <2>2 DEF N!NodeRows, NetworkInv
    <3>3. Row(n).parent \in N!NodeRows \union file \union {None}
      BY <2>2, <3>1, <3>2
    <3>4. Row(n).parent \in NodeIds \union {None}
      BY <2>2, <3>3, NodesAre
    <3> QED  BY <1>0, <3>3, <3>4 DEF NodeRow
  <2> HIDE DEF Row, file
  <2>4. N!NodeRows' = N!NodeRows \union file
    <3>1. \A n \in file : nodes'[n] # None
      BY <2>1, <2>2, <2>3, RowsAre
    <3>2. \A n \in NodeIds : n \notin file => nodes'[n] = nodes[n]
      BY <2>1
    <3> QED  BY <2>2, <3>1, <3>2 DEF N!NodeRows
  <2>5. nodes' \in [NodeIds -> NodeRow \union {None}]
    <3>1. \A n \in NodeIds : nodes[n] \in NodeRow \union {None}
      BY DEF NetworkInv
    <3> QED  BY <2>1, <2>3, <3>1
  <2>6. \A n \in N!NodeRows' : nodes'[n].parent \in N!NodeRows' \union {None}
    <3>1. \A n \in N!NodeRows : nodes[n].parent \in N!NodeRows \union {None} /\ n \in NodeIds
      BY NodesAre DEF NetworkInv
    <3> QED  BY <2>1, <2>2, <2>3, <2>4, <3>1
  <2>7. N!EdgeRows' = N!EdgeRows
    BY <2>1 DEF N!EdgeRows
  <2> QED  BY <1>0, <1>1, <2>1, <2>4, <2>5, <2>6, <2>7 DEF NetworkInv, EdgesHaveNodes, NodeRow, EdgeRow
<1>3. CASE N!UpsertEdges(j)
  <2> DEFINE lines == N!ToSet(q.lines)
             Of(e) == CHOOSE x \in lines : x.id = e
  <2>1. nodes' = nodes
    BY <1>3 DEF N!UpsertEdges
  <2>2. CASE edges' = edges
    BY <1>0, <1>1, <2>1, <2>2, NodesStay DEF NetworkInv
  <2>3. CASE edges' # edges
    <3>1. /\ \A l \in lines : {l.a, l.b} \subseteq N!NodeRows
          /\ edges' = [e \in EdgeIds |-> IF \E l \in lines : l.id = e
                                         THEN [from |-> Of(e).a, to |-> Of(e).b, closed |-> ~Of(e).open, version |-> q.version]
                                         ELSE edges[e]]
      BY <1>3, <2>3 DEF N!UpsertEdges
    <3>2. \A l \in lines : l \in FileLine
      BY <1>0 DEF Oriented, N!ToSet
    <3>3. ASSUME NEW e \in EdgeIds, \E l \in lines : l.id = e PROVE Of(e) \in lines
      BY <3>3
    <3> HIDE DEF Of, lines
    <3>4. \A e \in EdgeIds : \/ edges'[e] = edges[e]
                             \/ /\ edges'[e] \in EdgeRow
                                /\ edges'[e].from \in N!NodeRows /\ edges'[e].to \in N!NodeRows
      <4>1. ASSUME NEW e \in EdgeIds, \E l \in lines : l.id = e
            PROVE  edges'[e] \in EdgeRow /\ edges'[e].from \in N!NodeRows /\ edges'[e].to \in N!NodeRows
        <5>1. edges'[e] = [from |-> Of(e).a, to |-> Of(e).b, closed |-> ~Of(e).open, version |-> q.version]
          BY <3>1, <4>1
        <5>2. Of(e).a \in N!NodeRows /\ Of(e).b \in N!NodeRows
          BY <3>1, <3>3, <4>1
        <5>3. Of(e).a \in NodeIds /\ Of(e).b \in NodeIds
          BY <5>2, NodesAre
        <5> QED  BY <1>0, <5>1, <5>2, <5>3 DEF EdgeRow
      <4>2. ASSUME NEW e \in EdgeIds, ~ \E l \in lines : l.id = e PROVE edges'[e] = edges[e]
        BY <3>1, <4>2
      <4> QED  BY <4>1, <4>2
    <3>5. edges' \in [EdgeIds -> EdgeRow \union {None}]
      <4>1. \A e \in EdgeIds : edges[e] \in EdgeRow \union {None}
        BY DEF NetworkInv
      <4>2. edges' = [e \in EdgeIds |-> edges'[e]]
        BY <3>1
      <4> QED  BY <3>4, <4>1, <4>2
    <3>6. N!NodeRows' = N!NodeRows
      BY <2>1 DEF N!NodeRows
    <3>7. EdgesHaveNodes'
      <4>1. \A e \in EdgeIds : edges[e] # None => edges[e].from \in N!NodeRows /\ edges[e].to \in N!NodeRows
        BY DEF NetworkInv, EdgesHaveNodes, N!EdgeRows
      <4>2. \A e \in N!EdgeRows' : e \in EdgeIds /\ edges'[e] # None
        BY DEF N!EdgeRows
      <4>3. \A e \in N!EdgeRows' : edges'[e].from \in N!NodeRows /\ edges'[e].to \in N!NodeRows
        BY <3>4, <4>1, <4>2
      <4> QED  BY <3>6, <4>3 DEF EdgesHaveNodes
    <3> QED  BY <1>0, <1>1, <2>1, <3>5, <3>6, <3>7 DEF NetworkInv, NodeRow, EdgeRow
  <2> QED  BY <2>2, <2>3
<1> QED  BY <1>2, <1>3

LEMMA EditsKeep ==
    ASSUME GridAssumption, VersionInv, NetworkInv,
           \/ \E n \in NodeIds : N!CreateNode(n) \/ N!UpdateNode(n) \/ N!DeleteNode(n)
           \/ \E e \in EdgeIds : N!CreateEdge(e) \/ N!DeleteEdge(e) \/ \E close \in BOOLEAN : N!SetSwitch(e, close)
    PROVE  NetworkInv'
<1>0. UNCHANGED <<newest, job>> /\ N!Versions' = N!Versions
  BY DEF N!CreateNode, N!UpdateNode, N!DeleteNode, N!CreateEdge, N!DeleteEdge, N!SetSwitch, N!Versions
<1>1. SUFFICES /\ nodes' \in [NodeIds -> NodeRow \union {None}] /\ edges' \in [EdgeIds -> EdgeRow \union {None}]
               /\ \A n \in N!NodeRows' : nodes'[n].parent \in N!NodeRows' \union {None}
               /\ EdgesHaveNodes'
  BY <1>0 DEF NetworkInv, NodeRow, EdgeRow
<1>2. /\ nodes \in [NodeIds -> NodeRow \union {None}] /\ edges \in [EdgeIds -> EdgeRow \union {None}]
      /\ \A n \in N!NodeRows : n \in NodeIds /\ nodes[n] \in NodeRow /\ nodes[n].parent \in N!NodeRows \union {None}
      /\ \A e \in N!EdgeRows : /\ e \in EdgeIds /\ edges[e] \in EdgeRow
                               /\ edges[e].from \in N!NodeRows /\ edges[e].to \in N!NodeRows
      /\ None \notin NodeRow
  BY RowsAre DEF NetworkInv, EdgesHaveNodes
<1>3. N!Current \in N!Versions \union {None}
  BY CurrentIs
<1>4. \A n : n \in N!NodeRows <=> n \in NodeIds /\ nodes[n] # None
  BY DEF N!NodeRows
<1>5. \A n : n \in N!NodeRows' <=> n \in NodeIds /\ nodes'[n] # None
  BY DEF N!NodeRows
<1>6. \A e : e \in N!EdgeRows <=> e \in EdgeIds /\ edges[e] # None
  BY DEF N!EdgeRows
<1>7. \A e : e \in N!EdgeRows' <=> e \in EdgeIds /\ edges'[e] # None
  BY DEF N!EdgeRows
<1>8. ASSUME NEW n \in NodeIds, NEW row \in NodeRow, row.parent \in N!NodeRows \union {None},
             nodes' = [nodes EXCEPT ![n] = row], edges' = edges
      PROVE  /\ nodes' \in [NodeIds -> NodeRow \union {None}] /\ edges' \in [EdgeIds -> EdgeRow \union {None}]
             /\ \A m \in N!NodeRows' : nodes'[m].parent \in N!NodeRows' \union {None}
             /\ EdgesHaveNodes'
  <2>1. nodes'[n] = row /\ \A m \in NodeIds : m # n => nodes'[m] = nodes[m]
    BY <1>2, <1>8
  <2>2. \A m : m \in N!NodeRows' <=> m \in N!NodeRows \/ m = n
    BY <1>2, <1>4, <1>5, <2>1
  <2>3. \A m \in N!NodeRows' : nodes'[m].parent \in N!NodeRows \union {None}
    BY <1>2, <1>8, <2>1, <2>2
  <2>4. N!EdgeRows' = N!EdgeRows
    BY <1>8 DEF N!EdgeRows
  <2>5. nodes' \in [NodeIds -> NodeRow \union {None}]
    BY <1>2, <1>8
  <2> QED  BY <1>2, <1>8, <2>2, <2>3, <2>4, <2>5 DEF EdgesHaveNodes
<1>9. ASSUME NEW e \in EdgeIds, NEW row \in EdgeRow \union {None},
             row # None => row.from \in N!NodeRows /\ row.to \in N!NodeRows,
             edges' = [edges EXCEPT ![e] = row], nodes' = nodes
      PROVE  /\ nodes' \in [NodeIds -> NodeRow \union {None}] /\ edges' \in [EdgeIds -> EdgeRow \union {None}]
             /\ \A m \in N!NodeRows' : nodes'[m].parent \in N!NodeRows' \union {None}
             /\ EdgesHaveNodes'
  <2>1. edges'[e] = row /\ \A d \in EdgeIds : d # e => edges'[d] = edges[d]
    BY <1>2, <1>9
  <2>2. N!NodeRows' = N!NodeRows
    BY <1>9 DEF N!NodeRows
  <2>3. \A d \in N!EdgeRows' : edges'[d].from \in N!NodeRows /\ edges'[d].to \in N!NodeRows
    BY <1>2, <1>6, <1>7, <1>9, <2>1
  <2>4. edges' \in [EdgeIds -> EdgeRow \union {None}]
    BY <1>2, <1>9
  <2> QED  BY <1>2, <1>9, <2>2, <2>3, <2>4 DEF EdgesHaveNodes
<1>10. \A p \in N!NodeRows \union {None} : p \in NodeIds \union {None}
  BY <1>2
<1>11. ASSUME NEW n \in NodeIds, N!CreateNode(n)
       PROVE  \E row \in NodeRow : /\ row.parent \in N!NodeRows \union {None}
                                   /\ nodes' = [nodes EXCEPT ![n] = row] /\ edges' = edges
  <2>1. PICK p \in N!NodeRows \union {None} : nodes' = [nodes EXCEPT ![n] = [parent |-> p, version |-> N!Current]] /\ edges' = edges
    BY <1>11 DEF N!CreateNode
  <2> DEFINE row == [parent |-> p, version |-> N!Current]
  <2>2. row \in NodeRow /\ row.parent = p
    BY <1>3, <1>10 DEF NodeRow
  <2> QED  BY <2>1, <2>2
<1>12. ASSUME NEW n \in NodeIds, N!UpdateNode(n)
       PROVE  \E row \in NodeRow : /\ row.parent \in N!NodeRows \union {None}
                                   /\ nodes' = [nodes EXCEPT ![n] = row] /\ edges' = edges
  <2>1. PICK p \in N!NodeRows \union {None} : nodes' = [nodes EXCEPT ![n].parent = p] /\ edges' = edges
    BY <1>12 DEF N!UpdateNode
  <2> DEFINE row == [nodes[n] EXCEPT !.parent = p]
  <2>2. n \in N!NodeRows /\ nodes[n] \in NodeRow
    BY <1>2, <1>12 DEF N!UpdateNode
  <2>3. row \in NodeRow /\ row.parent = p
    BY <1>10, <2>2 DEF NodeRow
  <2>4. nodes' = [nodes EXCEPT ![n] = row]
    BY <2>1
  <2> QED  BY <2>1, <2>3, <2>4
<1>13. ASSUME NEW n \in NodeIds, N!DeleteNode(n)
       PROVE  /\ nodes' \in [NodeIds -> NodeRow \union {None}] /\ edges' \in [EdgeIds -> EdgeRow \union {None}]
              /\ \A m \in N!NodeRows' : nodes'[m].parent \in N!NodeRows' \union {None}
              /\ EdgesHaveNodes'
  <2>1. /\ nodes' = [nodes EXCEPT ![n] = None] /\ edges' = edges
        /\ \A m \in N!NodeRows : m # n => nodes[m].parent # n
        /\ \A e \in N!EdgeRows : edges[e].from # n /\ edges[e].to # n
    BY <1>13 DEF N!DeleteNode
  <2>2. nodes'[n] = None /\ \A m \in NodeIds : m # n => nodes'[m] = nodes[m]
    BY <1>2, <2>1
  <2>3. \A m : m \in N!NodeRows' <=> m \in N!NodeRows /\ m # n
    BY <1>4, <1>5, <2>2
  <2>4. \A m \in N!NodeRows' : nodes'[m].parent \in N!NodeRows' \union {None}
    BY <1>2, <2>1, <2>2, <2>3
  <2>5. N!EdgeRows' = N!EdgeRows
    BY <2>1 DEF N!EdgeRows
  <2>6. nodes' \in [NodeIds -> NodeRow \union {None}]
    BY <1>2, <2>1
  <2> QED  BY <1>2, <2>1, <2>3, <2>4, <2>5, <2>6 DEF EdgesHaveNodes
<1>14. ASSUME NEW e \in EdgeIds, N!CreateEdge(e)
       PROVE  \E row \in EdgeRow \union {None} : /\ row # None => row.from \in N!NodeRows /\ row.to \in N!NodeRows
                                                 /\ edges' = [edges EXCEPT ![e] = row] /\ nodes' = nodes
  <2>1. PICK x \in N!NodeRows, y \in N!NodeRows, c \in BOOLEAN :
            edges' = [edges EXCEPT ![e] = [from |-> x, to |-> y, closed |-> c, version |-> N!Current]] /\ nodes' = nodes
    BY <1>14 DEF N!CreateEdge
  <2> DEFINE row == [from |-> x, to |-> y, closed |-> c, version |-> N!Current]
  <2>2. row \in EdgeRow /\ row.from = x /\ row.to = y
    BY <1>2, <1>3 DEF EdgeRow
  <2> QED  BY <2>1, <2>2
<1>15. ASSUME NEW e \in EdgeIds, N!DeleteEdge(e)
       PROVE  \E row \in EdgeRow \union {None} : /\ row # None => row.from \in N!NodeRows /\ row.to \in N!NodeRows
                                                 /\ edges' = [edges EXCEPT ![e] = row] /\ nodes' = nodes
  BY <1>15 DEF N!DeleteEdge
<1>16. ASSUME NEW e \in EdgeIds, NEW close \in BOOLEAN, N!SetSwitch(e, close)
       PROVE  \E row \in EdgeRow \union {None} : /\ row # None => row.from \in N!NodeRows /\ row.to \in N!NodeRows
                                                 /\ edges' = [edges EXCEPT ![e] = row] /\ nodes' = nodes
  <2> DEFINE row == [edges[e] EXCEPT !.closed = close]
  <2>1. e \in N!EdgeRows /\ edges' = [edges EXCEPT ![e] = row] /\ nodes' = nodes
    BY <1>16 DEF N!SetSwitch
  <2>2. edges[e] \in EdgeRow /\ edges[e].from \in N!NodeRows /\ edges[e].to \in N!NodeRows
    BY <1>2, <2>1
  <2>3. row \in EdgeRow /\ row.from = edges[e].from /\ row.to = edges[e].to
    BY <2>2 DEF EdgeRow
  <2> QED  BY <2>1, <2>2, <2>3
<1> QED  BY <1>8, <1>9, <1>11, <1>12, <1>13, <1>14, <1>15, <1>16

(* Whatever is imported and edited, rows refer to rows, and what is to be    *)
(* imported leads down from the root.                                        *)
THEOREM NetworkInvariance == Spec => []NetworkInv
<1>0. GridAssumption
  BY GridAssumption
<1>1. ASSUME Init PROVE NetworkInv
  <2>1. /\ newest = 1 /\ job = [j \in Jobs |-> N!Resting] /\ edges = [e \in EdgeIds |-> None]
        /\ nodes = [n \in NodeIds |-> IF n = root THEN [parent |-> None, version |-> 1] ELSE None]
    BY <1>1 DEF Init, N!Init
  <2>2. MaxModels \in Nat /\ 1 \in 1 .. MaxModels
    BY <1>0, NetworkIs
  <2>3. [parent |-> None, version |-> 1] \in NodeRow
    BY <2>2 DEF NodeRow, N!Versions
  <2>4. nodes \in [NodeIds -> NodeRow \union {None}] /\ edges \in [EdgeIds -> EdgeRow \union {None}]
    BY <2>1, <2>3
  <2>5. N!EdgeRows = {}
    BY <2>1 DEF N!EdgeRows
  <2>6. \A n \in N!NodeRows : nodes[n].parent = None
    BY <2>1 DEF N!NodeRows
  <2> QED  BY <2>1, <2>2, <2>4, <2>5, <2>6, RestingLeads DEF NetworkInv, EdgesHaveNodes
<1>2. ASSUME VersionInv, NetworkInv, N!Next PROVE NetworkInv'
  BY <1>0, <1>2, PublishingKeeps, UpsertsKeep, EditsKeep DEF N!Next
<1>3. ASSUME NetworkInv, UNCHANGED network PROVE NetworkInv'
  <2>1. /\ nodes' \in [NodeIds -> NodeRow \union {None}] /\ edges' \in [EdgeIds -> EdgeRow \union {None}]
        /\ (\A n \in N!NodeRows : nodes[n].parent \in N!NodeRows \union {None})'
        /\ EdgesHaveNodes'
    BY <1>3, NodesStay DEF network
  <2> QED  BY <1>3, <2>1 DEF network, NetworkInv, N!Versions
<1>4. VersionInv /\ NetworkInv /\ [Next]_<<part, network, analysis, outages>> => NetworkInv'
  BY <1>2, <1>3 DEF Next, Network, Analysis, Outages
<1> QED  BY <1>1, <1>4, VersionInvariance, PTL DEF Spec

(* The types of the rows; the validation calls a network radial exactly when *)
(* it is operated as a forest; and an import orients its lines away from the *)
(* root: for any network, and any files.                                     *)
THEOREM ModelIsRightHolds == Spec => []ModelIsRight
<1>0. GridAssumption
  BY GridAssumption
<1>1. ASSUME VersionInv, NetworkInv PROVE N!TypeOK /\ N!RadialIsForest /\ N!ImportLeadsDown
  <2>1. N!TypeOK
    <3>1. flagged \subseteq N!Versions /\ newest \in N!Versions /\ flagged \subseteq 1 .. newest
      <4>1. newest \in 1 .. MaxModels /\ flagged \subseteq 1 .. newest /\ MaxModels \in Int
        BY <1>0, <1>1, NetworkIs DEF VersionInv, NetworkInv
      <4>2. \A v \in flagged : v \in 1 .. MaxModels
        BY <4>1
      <4> QED  BY <4>1, <4>2 DEF N!Versions
    <3>2. \A n \in N!NodeRows : nodes[n].parent \in N!NodeRows \union {None} /\ nodes[n].version \in N!Versions \union {None}
      BY <1>0, <1>1, RowsAre DEF NetworkInv, NodeRow
    <3>3. \A e \in N!EdgeRows : {edges[e].from, edges[e].to} \subseteq N!NodeRows /\ edges[e].version \in N!Versions \union {None}
      BY <1>0, <1>1, RowsAre DEF NetworkInv, EdgesHaveNodes, EdgeRow
    <3> QED  BY <3>1, <3>2, <3>3 DEF N!TypeOK
  <2>2. N!RadialIsForest
    BY <1>0, <1>1, RadialMeansForest DEF NetworkInv
  <2>3. N!ImportLeadsDown
    BY <1>1 DEF NetworkInv, Oriented, N!ImportLeadsDown
  <2> QED  BY <2>1, <2>2, <2>3
<1>2. VersionInv /\ NetworkInv => ModelIsRight
  BY <1>1 DEF ModelIsRight
<1> QED  BY <1>2, VersionInvariance, NetworkInvariance, PTL

-----------------------------------------------------------------------------
(* The analyses: what is fed over some of the edges of the feeder.           *)

LEMMA ASizeIs == \A S : A!Cardinality(S) = Cardinality(S)
  BY Zenon DEF A!Cardinality, Cardinality

LEMMA AFiniteIs == \A S : A!IsFiniteSet(S) <=> IsFiniteSet(S)
  BY Zenon DEF A!IsFiniteSet, IsFiniteSet

LEMMA FeederIs ==
    ASSUME GridAssumption
    PROVE  /\ root \in Nodes /\ IsFiniteSet(Nodes) /\ IsFiniteSet(Edges)
           /\ \A e \in Edges : FromNode[e] \in Nodes /\ ToNode[e] \in Nodes
           /\ NormallyClosed \subseteq Edges
  BY AFiniteIs DEF GridAssumption, A!AnalysisAssumption

Ways(E) == {<<FromNode[e], ToNode[e]>> : e \in E} \union {<<ToNode[e], FromNode[e]>> : e \in E}

LEMMA JoinedGoesInRounds ==
    ASSUME GridAssumption, NEW E \in SUBSET Edges
    PROVE  /\ Ways(E) \in SUBSET (Nodes \X Nodes)
           /\ \E g : Rounds(Nodes, Ways(E), root, g) /\ A!Joined(E) = g[Cardinality(Nodes)]
<1> DEFINE pairs == Ways(E)
           Values == SUBSET Nodes
           F == [p \in Nat \X Values |-> p[2] \union Leads(pairs, p[2])]
           More(S) == S \union {ToNode[e] : e \in {d \in E : FromNode[d] \in S}}
                        \union {FromNode[e] : e \in {d \in E : ToNode[d] \in S}}
           Is(w) == w = [n \in Nat |-> IF n = 0 THEN {root} ELSE More(w[n - 1])]
           within == CHOOSE w : Is(w)
<1>0. pairs \in SUBSET (Nodes \X Nodes)
  <2>1. \A e \in E : <<FromNode[e], ToNode[e]>> \in Nodes \X Nodes /\ <<ToNode[e], FromNode[e]>> \in Nodes \X Nodes
    BY FeederIs
  <2> QED  BY <2>1 DEF Ways
<1>1. \A S \in SUBSET Nodes : Leads(pairs, S) \in SUBSET Nodes
  BY <1>0 DEF Leads
<1>2. \A S : More(S) = S \union Leads(pairs, S)
  <2>1. ASSUME NEW S, NEW n
        PROVE  n \in Leads(pairs, S) <=> (\E e \in E : FromNode[e] \in S /\ n = ToNode[e]) \/ (\E e \in E : ToNode[e] \in S /\ n = FromNode[e])
    <3>1. n \in Leads(pairs, S) <=> \E p \in pairs : p[1] \in S /\ n = p[2]
      BY DEF Leads
    <3>2. \A p : p \in pairs <=> \E e \in E : p = <<FromNode[e], ToNode[e]>> \/ p = <<ToNode[e], FromNode[e]>>
      BY DEF Ways
    <3>3. ASSUME NEW p \in pairs, p[1] \in S, n = p[2]
          PROVE  (\E e \in E : FromNode[e] \in S /\ n = ToNode[e]) \/ (\E e \in E : ToNode[e] \in S /\ n = FromNode[e])
      <4>1. PICK e \in E : p = <<FromNode[e], ToNode[e]>> \/ p = <<ToNode[e], FromNode[e]>>
        BY <3>2
      <4> QED  BY <3>3, <4>1
    <3>4. ASSUME NEW e \in E PROVE /\ FromNode[e] \in S /\ n = ToNode[e] => \E p \in pairs : p[1] \in S /\ n = p[2]
                                   /\ ToNode[e] \in S /\ n = FromNode[e] => \E p \in pairs : p[1] \in S /\ n = p[2]
      <4> DEFINE there == <<FromNode[e], ToNode[e]>>
                 back == <<ToNode[e], FromNode[e]>>
      <4>1. there \in pairs /\ back \in pairs
        BY <3>2
      <4>2. there[1] = FromNode[e] /\ there[2] = ToNode[e] /\ back[1] = ToNode[e] /\ back[2] = FromNode[e]
        OBVIOUS
      <4> HIDE DEF there, back, pairs
      <4> QED  BY <4>1, <4>2
    <3> QED  BY <3>1, <3>3, <3>4
  <2>2. ASSUME NEW S, NEW n
        PROVE  n \in More(S) <=> n \in S \/ (\E e \in E : FromNode[e] \in S /\ n = ToNode[e]) \/ (\E e \in E : ToNode[e] \in S /\ n = FromNode[e])
    BY Zenon
  <2> HIDE DEF More, pairs
  <2> QED  BY <2>1, <2>2
<1>3. \A n \in Nat, S \in Values : F[<<n, S>>] = S \union Leads(pairs, S) /\ F[<<n, S>>] \in Values
  BY <1>1
<1> HIDE DEF F
<1>4. {root} \in Values
  BY FeederIs
<1>5. \E g : GoesOn(g, Values, {root}, F)
  <2> HIDE DEF Values
  <2> QED  BY <1>3, <1>4, Recursion
<1>6. PICK g : g \in [Nat -> Values] /\ g[0] = {root} /\ \A n \in Nat : g[n + 1] = F[<<n, g[n]>>]
  BY <1>5 DEF GoesOn
<1> HIDE DEF More, pairs
<1>7. Is(g)
  <2>1. ASSUME NEW n \in Nat, n # 0 PROVE g[n] = More(g[n - 1])
    <3>1. n - 1 \in Nat /\ (n - 1) + 1 = n /\ g[n - 1] \in Values
      BY <1>6, <2>1
    <3> HIDE DEF Values
    <3> QED  BY <1>2, <1>3, <1>6, <3>1
  <2> HIDE DEF Values
  <2> QED  BY <1>6, <2>1
<1>8. Is(within)
  BY <1>7
<1>9. A!Joined(E) = within[Cardinality(Nodes)]
  BY ASizeIs DEF A!Joined, More
<1> HIDE DEF within
<1>10. within[0] = {root} /\ \A n \in Nat : within[n + 1] = within[n] \union Leads(pairs, within[n])
  <2>1. within[0] = {root}
    BY <1>8
  <2>2. ASSUME NEW n \in Nat PROVE within[n + 1] = More(within[n])
    <3>1. n + 1 \in Nat /\ n + 1 # 0 /\ (n + 1) - 1 = n
      OBVIOUS
    <3> QED  BY <1>8, <3>1
  <2> QED  BY <1>2, <2>1, <2>2
<1>11. within \in [Nat -> Values]
  <2> DEFINE typed == {n \in Nat : within[n] \in Values}
  <2>1. 0 \in typed
    BY <1>4, <1>10
  <2>2. \A n \in Nat : n \in typed => n + 1 \in typed
    BY <1>1, <1>10
  <2>3. \A n \in Nat : n \in typed
    <3> HIDE DEF typed
    <3> QED  BY <2>1, <2>2, Induction
  <2>4. within = [n \in Nat |-> within[n]]
    BY <1>8
  <2> QED  BY <2>3, <2>4
<1>12. Rounds(Nodes, pairs, root, within)
  BY <1>10, <1>11 DEF Rounds
<1> QED  BY <1>0, <1>9, <1>12 DEF pairs

\* The edges of E have both ends in S, or none.
Stays(E, S) == \A e \in E : FromNode[e] \in S <=> ToNode[e] \in S

(* What is fed: the least set that has the root and is closed under edges.   *)
LEMMA FedIs ==
    ASSUME GridAssumption, NEW E \in SUBSET Edges
    PROVE  /\ A!Fed[E] \in SUBSET Nodes /\ root \in A!Fed[E] /\ Stays(E, A!Fed[E])
           /\ \A S : root \in S /\ Stays(E, S) => A!Fed[E] \subseteq S
<1>1. A!Fed[E] = A!Joined(E)
  BY DEF A!Fed
<1>2. \A S : Holds(Ways(E), S) <=> Stays(E, S)
  <2>1. ASSUME NEW S, Stays(E, S) PROVE Holds(Ways(E), S)
    BY <2>1 DEF Holds, Ways, Stays
  <2>2. ASSUME NEW S, Holds(Ways(E), S), NEW e \in E PROVE FromNode[e] \in S <=> ToNode[e] \in S
    <3> DEFINE there == <<FromNode[e], ToNode[e]>>
               back == <<ToNode[e], FromNode[e]>>
    <3>1. there \in Ways(E) /\ back \in Ways(E)
      BY DEF Ways
    <3>2. there[1] = FromNode[e] /\ there[2] = ToNode[e] /\ back[1] = ToNode[e] /\ back[2] = FromNode[e]
      OBVIOUS
    <3> HIDE DEF there, back
    <3> QED  BY <2>2, <3>1, <3>2 DEF Holds
  <2> QED  BY <2>1, <2>2 DEF Stays
<1>3. IsFiniteSet(Nodes) /\ root \in Nodes
  BY FeederIs
<1>4. /\ A!Joined(E) \in SUBSET Nodes /\ root \in A!Joined(E) /\ Holds(Ways(E), A!Joined(E))
      /\ \A S : root \in S /\ Holds(Ways(E), S) => A!Joined(E) \subseteq S
  <2>1. /\ Ways(E) \in SUBSET (Nodes \X Nodes)
        /\ \E g : Rounds(Nodes, Ways(E), root, g) /\ A!Joined(E) = g[Cardinality(Nodes)]
    BY JoinedGoesInRounds
  <2> QED  BY <1>3, <2>1, LeastIs
<1> QED  BY <1>1, <1>2, <1>4

-----------------------------------------------------------------------------
(* What an edge carries: the sections of a feeder are nested or apart.       *)

\* The edges of E that have both ends fed.
Live(E) == {e \in E : {FromNode[e], ToNode[e]} \subseteq A!Fed[E]}

(* The edges that are not live can be left out.                              *)
LEMMA LiveIs ==
    ASSUME GridAssumption, NEW E \in SUBSET Edges, NEW D \in SUBSET E
    PROVE  A!Fed[Live(E) \cap D] = A!Fed[D]
<1> DEFINE L == Live(E) \cap D
<1>1. L \in SUBSET Edges /\ D \in SUBSET Edges
  BY DEF Live
<1>2. A!Fed[D] \subseteq A!Fed[E]
  <2>1. root \in A!Fed[E] /\ Stays(D, A!Fed[E])
    BY FedIs DEF Stays
  <2> QED  BY <1>1, <2>1, FedIs
<1>3. A!Fed[L] \subseteq A!Fed[D]
  <2>1. root \in A!Fed[D] /\ Stays(L, A!Fed[D])
    BY <1>1, FedIs DEF Stays
  <2> QED  BY <1>1, <2>1, FedIs
<1>4. Stays(D, A!Fed[L])
  <2>1. SUFFICES ASSUME NEW e \in D PROVE FromNode[e] \in A!Fed[L] <=> ToNode[e] \in A!Fed[L]
    BY DEF Stays
  <2>2. CASE e \in Live(E)
    BY <1>1, <2>2, FedIs DEF Stays
  <2>3. CASE e \notin Live(E)
    <3>1. ~({FromNode[e], ToNode[e]} \subseteq A!Fed[E]) /\ (FromNode[e] \in A!Fed[E] <=> ToNode[e] \in A!Fed[E])
      BY <2>3, FedIs DEF Live, Stays
    <3> QED  BY <1>2, <1>3, <3>1
  <2> QED  BY <2>2, <2>3
<1>5. A!Fed[D] \subseteq A!Fed[L]
  BY <1>1, <1>4, FedIs
<1> QED  BY <1>3, <1>5

(* Of two sections with a node in common, one is within the other.           *)
LEMMA Nested ==
    ASSUME GridAssumption, NEW T \in SUBSET Edges, NEW e \in T, NEW d \in T,
           NEW n, n \in A!Section(T, e), n \in A!Section(T, d)
    PROVE  A!Section(T, e) \subseteq A!Section(T, d) \/ A!Section(T, d) \subseteq A!Section(T, e)
<1> DEFINE F == A!Fed[T]
           X == A!Fed[T \ {e}]
           Y == A!Fed[T \ {d}]
<1>1. T \ {e} \in SUBSET Edges /\ T \ {d} \in SUBSET Edges
  OBVIOUS
<1>2. /\ root \in X /\ Stays(T \ {e}, X) /\ root \in Y /\ Stays(T \ {d}, Y)
      /\ \A S : root \in S /\ Stays(T \ {e}, S) => X \subseteq S
      /\ \A S : root \in S /\ Stays(T \ {d}, S) => Y \subseteq S
      /\ \A S : root \in S /\ Stays(T, S) => F \subseteq S
  BY <1>1, FedIs
<1>3. n \in F /\ n \notin X \union Y
  BY DEF A!Section
<1>4. CASE e = d
  BY <1>4
<1>5. CASE e # d
  <2>1. (FromNode[e] \in Y <=> ToNode[e] \in Y) /\ (FromNode[d] \in X <=> ToNode[d] \in X)
    BY <1>2, <1>5 DEF Stays
  <2>2. CASE FromNode[e] \notin Y
    <3>1. Stays(T \ {d}, X \cap Y)
      BY <1>2, <2>1, <2>2 DEF Stays
    <3>2. Y \subseteq X
      BY <1>2, <3>1
    <3> QED  BY <3>2 DEF A!Section
  <2>3. CASE FromNode[d] \notin X
    <3>1. Stays(T \ {e}, X \cap Y)
      BY <1>2, <2>1, <2>3 DEF Stays
    <3>2. X \subseteq Y
      BY <1>2, <3>1
    <3> QED  BY <3>2 DEF A!Section
  <2>4. CASE FromNode[e] \in Y /\ FromNode[d] \in X
    <3>1. Stays(T, X \union Y)
      BY <1>2, <2>1, <2>4 DEF Stays
    <3> HIDE DEF X, Y, F
    <3> QED  BY <1>2, <1>3, <3>1
  <2> QED  BY <2>2, <2>3, <2>4
<1> QED  BY <1>4, <1>5

(* Among edges that all carry a node there is one below the others.          *)
LEMMA DeepestIs ==
    ASSUME GridAssumption, NEW T \in SUBSET Edges, NEW S \in SUBSET T, S # {},
           NEW n, \A e \in S : n \in A!Section(T, e)
    PROVE  A!Deepest(T, S) \in S
<1>1. \A e \in S : A!Section(T, e) \in SUBSET Nodes
  BY FedIs DEF A!Section
<1> DEFINE sizes == {Cardinality(A!Section(T, e)) : e \in S}
<1>2. \A e \in S : IsFiniteSet(A!Section(T, e)) /\ Cardinality(A!Section(T, e)) \in Nat
  BY <1>1, FeederIs, FS_Subset, FS_CardinalityType
<1>3. sizes \in SUBSET Nat /\ sizes # {}
  BY <1>2
<1>4. PICK k \in sizes : \A j \in sizes : k <= j
  <2> HIDE DEF sizes
  <2> QED  BY <1>3, Smallest
<1>5. PICK e \in S : k = Cardinality(A!Section(T, e))
  BY DEF sizes
<1>6. ASSUME NEW d \in S PROVE A!Section(T, e) \subseteq A!Section(T, d)
  <2>1. Cardinality(A!Section(T, e)) <= Cardinality(A!Section(T, d))
    BY <1>4, <1>5
  <2>2. CASE A!Section(T, d) \subseteq A!Section(T, e)
    <3>1. Cardinality(A!Section(T, d)) <= Cardinality(A!Section(T, e))
      BY <1>2, <2>2, FS_Subset
    <3>2. Cardinality(A!Section(T, d)) = Cardinality(A!Section(T, e))
      BY <1>2, <2>1, <3>1
    <3>3. A!Section(T, d) = A!Section(T, e)
      BY <1>2, <2>2, <3>2, FS_Subset
    <3> QED  BY <3>3
  <2> QED  BY <2>2, Nested
<1>7. \E x \in S : \A d \in S : A!Section(T, x) \subseteq A!Section(T, d)
  BY <1>6
<1> QED  BY <1>7 DEF A!Deepest

-----------------------------------------------------------------------------
(* What outage inference says of dark meters.                                *)

(* The tree of a radial feeder, and what is lost when one of its edges fails. *)
LEMMA TreeIs ==
    ASSUME GridAssumption, NEW E \in SUBSET Edges, A!IsRadial(E), NEW T \in A!Trees(E)
    PROVE  /\ T \in SUBSET E /\ A!Fed[T] = A!Fed[E]
           /\ \A e \in T : A!Section(T, e) = A!Fed[E] \ A!Fed[E \ {e}]
<1>1. T = Live(E) /\ T \subseteq E
  BY DEF A!Trees, Live
<1>2. Live(E) \cap E = T
  BY <1>1
<1>3. A!Fed[T] = A!Fed[E]
  BY <1>2, LiveIs
<1>4. ASSUME NEW e \in T PROVE A!Fed[T \ {e}] = A!Fed[E \ {e}]
  <2>1. T \ {e} = Live(E) \cap (E \ {e})
    BY <1>1
  <2> QED  BY <2>1, LiveIs
<1> QED  BY <1>1, <1>3, <1>4 DEF A!Section

\* The device that inference o blames carries all that o explains, and no more
\* customers than o counts.
Blames(o, T) ==
    \A e \in o.device : /\ e \in T /\ o.members \subseteq A!Section(T, e)
                         /\ o.customers = A!CustomersIn(A!Section(T, e))

(* An inference from some meters of a tree: the device it blames carries all *)
(* of them, and the customers it counts are those below the device.          *)
LEMMA InferredIs ==
    ASSUME GridAssumption, NEW T \in SUBSET Edges, NEW members, NEW m \in members, NEW source, NEW open
    PROVE  LET o == A!Inferred(T, members, source, open) IN
           o.source = source /\ o.members = members /\ Blames(o, T)
<1> DEFINE o == A!Inferred(T, members, source, open)
           above == A!Common(T, members)
           tripped == IF source = "structural" THEN above \cap open ELSE {}
           among == IF tripped # {} THEN tripped ELSE above
           device == IF above = {} THEN {} ELSE {A!Deepest(T, among)}
           section == IF device = {} THEN A!Fed[T] ELSE UNION {A!Section(T, e) : e \in device}
<1>1. o = [source |-> source, members |-> members, device |-> device, section |-> section,
           customers |-> A!CustomersIn(section)]
  BY Zenon DEF A!Inferred
<1>2. above \in SUBSET T /\ \A e \in above : members \subseteq A!Section(T, e)
  BY DEF A!Common
<1> HIDE DEF above
<1>3. among \in SUBSET above /\ (above # {} => among # {})
  OBVIOUS
<1> HIDE DEF among
<1>4. above # {} => A!Deepest(T, among) \in above
  <2>1. among \in SUBSET T /\ \A e \in among : m \in A!Section(T, e)
    BY <1>2, <1>3
  <2> QED  BY <1>3, <2>1, DeepestIs
<1>5. ASSUME NEW e \in device PROVE e \in above /\ section = A!Section(T, e)
  <2>1. above # {} /\ device = {A!Deepest(T, among)} /\ e = A!Deepest(T, among)
    OBVIOUS
  <2>2. device = {e}
    BY <2>1
  <2>3. section = UNION {A!Section(T, d) : d \in device}
    BY <2>2
  <2> HIDE DEF device, section
  <2>4. section = A!Section(T, e)
    BY <2>2, <2>3
  <2> QED  BY <1>4, <2>1, <2>4
<1> HIDE DEF device, section
<1>6. o.source = source /\ o.members = members /\ o.device = device /\ o.customers = A!CustomersIn(section)
  BY <1>1
<1> QED  BY <1>2, <1>5, <1>6 DEF Blames

\* Just one of some inferences explains meter m.
Once(m, inferred) == \E o : {x \in inferred : m \in x.members} = {o}

(* A pass puts each meter into one inference.                                *)
LEMMA PassIs ==
    ASSUME GridAssumption, NEW T \in SUBSET Edges, NEW gone, NEW source, NEW open
    PROVE  /\ \A o \in A!Pass(T, gone, source, open) :
                 o.source = source /\ o.members \subseteq gone /\ Blames(o, T)
           /\ \A m \in gone : Once(m, A!Pass(T, gone, source, open))
<1> DEFINE with(n) == {m \in gone : A!Feeder(T, m) = A!Feeder(T, n)}
           of(n) == A!Inferred(T, with(n), source, open)
           pass == A!Pass(T, gone, source, open)
<1>1. pass = {of(n) : n \in gone}
  BY DEF A!Pass
<1>2. \A n \in gone : n \in with(n) /\ with(n) \subseteq gone
  OBVIOUS
<1>3. ASSUME NEW n \in gone
      PROVE  of(n).source = source /\ of(n).members = with(n) /\ Blames(of(n), T)
  <2>1. n \in with(n)
    BY <1>2
  <2> HIDE DEF with
  <2> QED  BY <2>1, InferredIs
<1>4. ASSUME NEW m \in gone PROVE Once(m, pass)
  <2>1. \A n \in gone : m \in with(n) => with(n) = with(m)
    OBVIOUS
  <2>2. \A n \in gone : with(n) = with(m) => of(n) = of(m)
    <3> HIDE DEF with
    <3> QED  OBVIOUS
  <2> HIDE DEF with, of, pass
  <2>3. \A x \in pass : m \in x.members => x = of(m)
    BY <1>1, <1>3, <2>1, <2>2
  <2>4. of(m) \in pass /\ m \in of(m).members
    BY <1>1, <1>2, <1>3
  <2>5. {x \in pass : m \in x.members} = {of(m)}
    BY <2>3, <2>4
  <2> QED  BY <2>5 DEF Once
<1> HIDE DEF with, of, pass
<1>5. \A o \in pass : o.source = source /\ o.members \subseteq gone /\ Blames(o, T)
  BY <1>1, <1>2, <1>3
<1> QED  BY <1>4, <1>5 DEF pass

\* What the contingency analysis says of an edge that fails.
Tells(r, e, E, gone) ==
    LET less == E \ {e}
        cut == A!Fed[E] \ A!Fed[less]
        ties == A!Restore(less, e, cut)
    IN  /\ r.element = e /\ r.lostCustomers = A!CustomersIn(cut) /\ r.restoredBy = ties
        /\ r.unserved = A!Unserved(gone, A!Fed[E] \ A!Fed[less \union ties])

LEMMA ContingencyIs ==
    ASSUME NEW E, NEW gone
    PROVE  /\ \A r \in A!Contingencies(E, gone) : r.element \in E /\ Tells(r, r.element, E, gone)
           /\ \A e \in E : \E r \in A!Contingencies(E, gone) : r.element = e
<1> DEFINE of(e) == A!Contingency(E, gone, e, CHOOSE T \in A!Trees(A!After(E, e)) : TRUE)
<1>1. \A e, t : Tells(A!Contingency(E, gone, e, t), e, E, gone)
  BY DEF A!Contingency, Tells
<1>2. A!Contingencies(E, gone) = {of(e) : e \in E}
  BY DEF A!Contingencies
<1>3. \A e : Tells(of(e), e, E, gone) /\ of(e).element = e
  BY <1>1 DEF Tells
<1>4. \A r \in A!Contingencies(E, gone) : \E e \in E : r = of(e)
  BY <1>2
<1>5. \A e \in E : of(e) \in A!Contingencies(E, gone)
  BY <1>2
<1> HIDE DEF of
<1>6. ASSUME NEW r \in A!Contingencies(E, gone)
      PROVE  r.element \in E /\ Tells(r, r.element, E, gone)
  <2>1. PICK e \in E : r = of(e)
    BY <1>4
  <2> QED  BY <1>3, <2>1
<1>7. \A e \in E : \E r \in A!Contingencies(E, gone) : r.element = e
  BY <1>3, <1>5
<1> QED  BY <1>6, <1>7

-----------------------------------------------------------------------------
(* A radial feeder stays radial when an edge opens.                          *)

LEMMA RadialIs == \A E : A!IsRadial(E) <=> Cardinality(Live(E)) < Cardinality(A!Fed[E])
  BY ASizeIs DEF A!IsRadial, Live

\* The live edges that leave a set of nodes, or are outside it.
Beyond(E, R) == {d \in Live(E) : ~({FromNode[d], ToNode[d]} \subseteq R)}

(* Each node beyond some that have the root takes one more edge.             *)
LEMMA OneEdgeEach ==
    ASSUME GridAssumption, NEW E \in SUBSET Edges, NEW R \in SUBSET A!Fed[E], root \in R
    PROVE  Cardinality(A!Fed[E] \ R) <= Cardinality(Beyond(E, R))
<1> DEFINE fed == A!Fed[E]
           Takes(S) == Cardinality(fed \ S) <= Cardinality(Beyond(E, S))
           known == {k \in Nat : \A S \in SUBSET fed : root \in S /\ Cardinality(fed \ S) = k => Takes(S)}
<1>1. /\ fed \in SUBSET Nodes /\ IsFiniteSet(fed)
      /\ \A S : IsFiniteSet(fed \ S) /\ Cardinality(fed \ S) \in Nat
  <2>1. fed \in SUBSET Nodes /\ IsFiniteSet(fed)
    BY FedIs, FeederIs, FS_Subset
  <2> HIDE DEF fed
  <2> QED  BY <2>1, FS_Difference, FS_CardinalityType
<1>2. \A S : IsFiniteSet(Beyond(E, S)) /\ Cardinality(Beyond(E, S)) \in Nat
  <2>1. \A S : Beyond(E, S) \in SUBSET Edges
    BY DEF Beyond, Live
  <2> QED  BY <2>1, FeederIs, FS_Subset, FS_CardinalityType
<1>3. 0 \in known
  BY <1>2
<1>4. ASSUME NEW k \in Nat, k \in known PROVE k + 1 \in known
  <2>1. SUFFICES ASSUME NEW S \in SUBSET fed, root \in S, Cardinality(fed \ S) = k + 1 PROVE Takes(S)
    OBVIOUS
  <2>2. fed \ S # {}
    BY <2>1, FS_EmptySet
  <2>3. PICK d \in E : ~(FromNode[d] \in S <=> ToNode[d] \in S)
    <3>1. ~Stays(E, S)
      BY <2>1, <2>2, FedIs
    <3> QED  BY <3>1 DEF Stays
  <2>4. FromNode[d] \in fed /\ ToNode[d] \in fed
    BY <2>3, FedIs DEF Stays
  <2>5. PICK y \in {FromNode[d], ToNode[d]} : y \notin S /\ {FromNode[d], ToNode[d]} \subseteq S \union {y}
    BY <2>3
  <2> DEFINE T == S \union {y}
  <2>6. T \in SUBSET fed /\ root \in T /\ fed \ T = (fed \ S) \ {y} /\ y \in fed \ S
    BY <2>1, <2>4, <2>5
  <2>7. Cardinality(fed \ T) = k
    <3>1. IsFiniteSet(fed \ S) /\ y \in fed \ S
      BY <1>1, <2>6
    <3>2. Cardinality((fed \ S) \ {y}) = Cardinality(fed \ S) - 1
      BY <3>1, FS_RemoveElement
    <3> QED  BY <2>1, <2>6, <3>2
  <2>8. Takes(T)
    BY <1>4, <2>6, <2>7
  <2>9. d \in Beyond(E, S) /\ Beyond(E, T) \in SUBSET (Beyond(E, S) \ {d})
    BY <2>3, <2>4, <2>5 DEF Beyond, Live
  <2>10. IsFiniteSet(Beyond(E, S) \ {d}) /\ Cardinality(Beyond(E, S) \ {d}) = Cardinality(Beyond(E, S)) - 1
    BY <1>2, <2>9, FS_RemoveElement
  <2>11. Cardinality(Beyond(E, T)) <= Cardinality(Beyond(E, S)) - 1
    <3> DEFINE less == Beyond(E, S) \ {d}
    <3>1. IsFiniteSet(less) /\ Cardinality(less) = Cardinality(Beyond(E, S)) - 1 /\ Beyond(E, T) \in SUBSET less
      BY <2>9, <2>10
    <3> HIDE DEF less, T
    <3>2. Cardinality(Beyond(E, T)) <= Cardinality(less)
      BY <3>1, FS_Subset
    <3> QED  BY <3>1, <3>2
  <2> QED  BY <1>2, <2>1, <2>7, <2>8, <2>11
<1>5. \A k \in Nat : k \in known
  <2> HIDE DEF known
  <2> QED  BY <1>3, <1>4, Induction
<1> QED  BY <1>1, <1>5

LEMMA RadialStays ==
    ASSUME GridAssumption, NEW E \in SUBSET Edges, NEW D \in SUBSET E, A!IsRadial(E)
    PROVE  A!IsRadial(D)
<1>1. A!Fed[D] \in SUBSET A!Fed[E] /\ root \in A!Fed[D] /\ A!Fed[E] \in SUBSET Nodes
  <2>1. root \in A!Fed[E] /\ Stays(D, A!Fed[E])
    BY FedIs DEF Stays
  <2> QED  BY <2>1, FedIs
<1>2. Cardinality(A!Fed[E] \ A!Fed[D]) <= Cardinality(Beyond(E, A!Fed[D]))
  BY <1>1, OneEdgeEach
<1>3. /\ IsFiniteSet(A!Fed[E]) /\ IsFiniteSet(Live(E)) /\ IsFiniteSet(Live(D)) /\ IsFiniteSet(Beyond(E, A!Fed[D]))
  <2>1. Live(E) \in SUBSET Edges /\ Live(D) \in SUBSET Edges /\ Beyond(E, A!Fed[D]) \in SUBSET Edges
    BY DEF Live, Beyond
  <2> QED  BY <1>1, <2>1, FeederIs, FS_Subset
<1>4. Live(D) \in SUBSET (Live(E) \ Beyond(E, A!Fed[D])) /\ Beyond(E, A!Fed[D]) \in SUBSET Live(E)
  BY <1>1 DEF Live, Beyond
<1>5. Cardinality(Live(E) \ Beyond(E, A!Fed[D])) = Cardinality(Live(E)) - Cardinality(Beyond(E, A!Fed[D]))
      /\ IsFiniteSet(Live(E) \ Beyond(E, A!Fed[D]))
  <2>1. Live(E) \cap Beyond(E, A!Fed[D]) = Beyond(E, A!Fed[D])
    BY <1>4
  <2> QED  BY <1>3, <2>1, FS_Difference
<1>6. Cardinality(A!Fed[E] \ A!Fed[D]) = Cardinality(A!Fed[E]) - Cardinality(A!Fed[D]) /\ IsFiniteSet(A!Fed[D])
  <2>1. A!Fed[E] \cap A!Fed[D] = A!Fed[D]
    BY <1>1
  <2> QED  BY <1>1, <1>3, <2>1, FS_Difference, FS_Subset
<1>7. Cardinality(Live(D)) <= Cardinality(Live(E) \ Beyond(E, A!Fed[D]))
  BY <1>4, <1>5, FS_Subset
<1>8. Cardinality(Live(E)) < Cardinality(A!Fed[E])
  BY RadialIs
<1>9. /\ Cardinality(Live(D)) \in Nat /\ Cardinality(Live(E)) \in Nat /\ Cardinality(A!Fed[E]) \in Nat
      /\ Cardinality(A!Fed[D]) \in Nat /\ Cardinality(Beyond(E, A!Fed[D])) \in Nat
  BY <1>3, <1>6, FS_CardinalityType
<1>10. Cardinality(Live(D)) < Cardinality(A!Fed[D])
  BY <1>2, <1>5, <1>6, <1>7, <1>8, <1>9
<1> QED  BY <1>10, RadialIs

-----------------------------------------------------------------------------
(* What restoration closes.                                                  *)

(* A function on the naturals that starts with a value of a kind, and goes on *)
(* with one from each, has no others.                                        *)
LEMMA StaysOfKind ==
    ASSUME NEW w, NEW Values, \E all : w \in [Nat -> all], w[0] \in Values,
           \A n \in Nat : w[n] \in Values => w[n + 1] \in Values
    PROVE  w \in [Nat -> Values]
<1> DEFINE typed == {n \in Nat : w[n] \in Values}
<1>1. 0 \in typed /\ \A n \in Nat : n \in typed => n + 1 \in typed
  OBVIOUS
<1>2. \A n \in Nat : n \in typed
  <2> HIDE DEF typed
  <2> QED  BY <1>1, Induction
<1> QED  BY <1>2

LEMMA SwitchesAre ==
    ASSUME GridAssumption
    PROVE  /\ Switchable \in SUBSET Edges /\ IsFiniteSet(Switchable)
           /\ \A t \in Switchable : \E i \in 1 .. Len(EdgeOrder) : EdgeOrder[i] = t
           /\ Len(EdgeOrder) \in Nat
<1>1. Switchable \in SUBSET Edges /\ A!Range(EdgeOrder) = Edges /\ EdgeOrder \in Seq(Edges)
  BY Zenon DEF GridAssumption, A!AnalysisAssumption
<1>2. A!Range(EdgeOrder) = {EdgeOrder[i] : i \in DOMAIN EdgeOrder}
  BY DEF A!Range
<1>3. DOMAIN EdgeOrder = 1 .. Len(EdgeOrder) /\ Len(EdgeOrder) \in Nat
  BY <1>1
<1> QED  BY <1>1, <1>2, <1>3, FeederIs, FS_Subset

\* The steps of a pass over the switches.
Closes(u, E, failed, out, ties) ==
    /\ u \in [Nat -> SUBSET Switchable] /\ u[0] = ties
    /\ \A n \in Nat : u[n + 1] = A!Take(E, failed, out, u[n], EdgeOrder[n + 1])

LEMMA ClosingGoes ==
    ASSUME NEW E, NEW failed, NEW out, NEW ties \in SUBSET Switchable
    PROVE  \E u : Closes(u, E, failed, out, ties) /\ A!Closing(E, failed, out, ties) = u[Len(EdgeOrder)]
<1> DEFINE Values == SUBSET Switchable
           F == [p \in Nat \X Values |-> A!Take(E, failed, out, p[2], EdgeOrder[p[1] + 1])]
           Is(w) == w = [i \in Nat |-> IF i = 0 THEN ties ELSE A!Take(E, failed, out, w[i - 1], EdgeOrder[i])]
           upto == CHOOSE w : Is(w)
<1>1. \A S \in Values : \A t : A!Take(E, failed, out, S, t) \in Values
  BY DEF A!Take
<1>2. \A n \in Nat, S \in Values : F[<<n, S>>] = A!Take(E, failed, out, S, EdgeOrder[n + 1]) /\ F[<<n, S>>] \in Values
  <2> HIDE DEF Values
  <2> QED  BY <1>1
<1> HIDE DEF F
<1>3. PICK g : g \in [Nat -> Values] /\ g[0] = ties /\ \A n \in Nat : g[n + 1] = F[<<n, g[n]>>]
  <2>1. ties \in Values /\ \A n \in Nat, S \in Values : F[<<n, S>>] \in Values
    BY <1>2
  <2>2. \E g : GoesOn(g, Values, ties, F)
    <3> HIDE DEF Values
    <3> QED  BY <2>1, Recursion
  <2> QED  BY <2>2 DEF GoesOn
<1>4. Is(g)
  <2>1. ASSUME NEW n \in Nat, n # 0 PROVE g[n] = A!Take(E, failed, out, g[n - 1], EdgeOrder[n])
    <3>1. n - 1 \in Nat /\ (n - 1) + 1 = n /\ g[n - 1] \in Values
      BY <1>3, <2>1
    <3> HIDE DEF Values
    <3> QED  BY <1>2, <1>3, <3>1
  <2> HIDE DEF Values
  <2> QED  BY <1>3, <2>1
<1>5. Is(upto)
  BY <1>4
<1>6. A!Closing(E, failed, out, ties) = upto[Len(EdgeOrder)]
  BY DEF A!Closing
<1> HIDE DEF upto
<1>7. upto[0] = ties /\ \A n \in Nat : upto[n + 1] = A!Take(E, failed, out, upto[n], EdgeOrder[n + 1])
  <2>1. ASSUME NEW n \in Nat PROVE upto[n + 1] = A!Take(E, failed, out, upto[n], EdgeOrder[n + 1])
    <3>1. n + 1 \in Nat /\ n + 1 # 0 /\ (n + 1) - 1 = n
      OBVIOUS
    <3> QED  BY <1>5, <3>1
  <2> QED  BY <1>5, <2>1
<1>8. upto \in [Nat -> {upto[n] : n \in Nat}]
  BY <1>5
<1>9. upto \in [Nat -> Values]
  <2>1. upto[0] \in Values
    BY <1>7
  <2>2. \A n \in Nat : upto[n] \in Values => upto[n + 1] \in Values
    BY <1>1, <1>7
  <2> HIDE DEF Values
  <2> QED  BY <1>8, <2>1, <2>2, StaysOfKind
<1> QED  BY <1>6, <1>7, <1>9 DEF Closes

\* The passes of restoration.
Passes(p, E, failed, out) ==
    /\ p \in [Nat -> SUBSET Switchable] /\ p[0] = {}
    /\ \A n \in Nat : p[n + 1] = A!Closing(E, failed, out, p[n])

LEMMA RestoreGoes ==
    ASSUME GridAssumption, NEW E, NEW failed, NEW out
    PROVE  \E p : Passes(p, E, failed, out) /\ A!Restore(E, failed, out) = p[Cardinality(Switchable)]
<1> DEFINE Values == SUBSET Switchable
           F == [p \in Nat \X Values |-> A!Closing(E, failed, out, p[2])]
           Is(w) == w = [n \in Nat |-> IF n = 0 THEN {} ELSE A!Closing(E, failed, out, w[n - 1])]
           after == CHOOSE w : Is(w)
<1>1. \A S \in Values : A!Closing(E, failed, out, S) \in Values
  <2>1. \A u : u \in [Nat -> Values] => u[Len(EdgeOrder)] \in Values
    BY SwitchesAre
  <2> QED  BY <2>1, ClosingGoes DEF Closes
<1>2. \A n \in Nat, S \in Values : F[<<n, S>>] = A!Closing(E, failed, out, S) /\ F[<<n, S>>] \in Values
  <2> HIDE DEF Values
  <2> QED  BY <1>1
<1> HIDE DEF F
<1>3. PICK g : g \in [Nat -> Values] /\ g[0] = {} /\ \A n \in Nat : g[n + 1] = F[<<n, g[n]>>]
  <2>1. {} \in Values /\ \A n \in Nat, S \in Values : F[<<n, S>>] \in Values
    BY <1>2
  <2>2. \E g : GoesOn(g, Values, {}, F)
    <3> HIDE DEF Values
    <3> QED  BY <2>1, Recursion
  <2> QED  BY <2>2 DEF GoesOn
<1>4. Is(g)
  <2>1. ASSUME NEW n \in Nat, n # 0 PROVE g[n] = A!Closing(E, failed, out, g[n - 1])
    <3>1. n - 1 \in Nat /\ (n - 1) + 1 = n /\ g[n - 1] \in Values
      BY <1>3, <2>1
    <3> HIDE DEF Values
    <3> QED  BY <1>2, <1>3, <3>1
  <2> HIDE DEF Values
  <2> QED  BY <1>3, <2>1
<1>5. Is(after)
  BY <1>4
<1>6. A!Restore(E, failed, out) = after[Cardinality(Switchable)]
  BY ASizeIs DEF A!Restore
<1> HIDE DEF after
<1>7. after[0] = {} /\ \A n \in Nat : after[n + 1] = A!Closing(E, failed, out, after[n])
  <2>1. ASSUME NEW n \in Nat PROVE after[n + 1] = A!Closing(E, failed, out, after[n])
    <3>1. n + 1 \in Nat /\ n + 1 # 0 /\ (n + 1) - 1 = n
      OBVIOUS
    <3> QED  BY <1>5, <3>1
  <2> QED  BY <1>5, <2>1
<1>8. after \in [Nat -> {after[n] : n \in Nat}]
  BY <1>5
<1>9. after \in [Nat -> Values]
  <2>1. after[0] \in Values
    BY <1>7
  <2>2. \A n \in Nat : after[n] \in Values => after[n + 1] \in Values
    BY <1>1, <1>7
  <2> HIDE DEF Values
  <2> QED  BY <1>8, <2>1, <2>2, StaysOfKind
<1> QED  BY <1>6, <1>7, <1>9 DEF Passes

\* What restoration may have closed, with E, of the switches: none that was
\* closed or has failed, and without a loop.
MayClose(ties, E, failed) ==
    /\ ties \in SUBSET (Switchable \ (E \union {failed}))
    /\ A!IsRadial(E) => A!IsRadial(E \union ties)

\* There is nothing left that helps.
Done(ties, E, failed, out) ==
    \A t \in Switchable \ (E \union ties \union {failed}) :
        ~A!Helps(E \union ties, out \ A!Fed[E \union ties], t)

LEMMA TakeKeeps ==
    ASSUME NEW E, NEW failed, NEW out, NEW ties, MayClose(ties, E, failed), NEW t
    PROVE  /\ MayClose(A!Take(E, failed, out, ties, t), E, failed)
           /\ ties \subseteq A!Take(E, failed, out, ties, t)
           /\ \/ A!Take(E, failed, out, ties, t) # ties
              \/ t \notin Switchable \ (E \union ties \union {failed})
              \/ ~A!Helps(E \union ties, out \ A!Fed[E \union ties], t)
<1> DEFINE takes == /\ t \in Switchable \ (E \union ties \union {failed})
                    /\ A!Helps(E \union ties, out \ A!Fed[E \union ties], t)
<1>1. A!Take(E, failed, out, ties, t) = IF takes THEN ties \union {t} ELSE ties
  BY DEF A!Take
<1>2. takes => A!IsRadial(E \union (ties \union {t}))
  <2>1. (E \union ties) \union {t} = E \union (ties \union {t})
    OBVIOUS
  <2> QED  BY <2>1 DEF A!Helps
<1>3. takes => MayClose(ties \union {t}, E, failed) /\ t \notin ties
  BY <1>2 DEF MayClose
<1> HIDE DEF takes
<1>4. CASE takes
  BY <1>1, <1>3, <1>4
<1>5. CASE ~takes
  BY <1>1, <1>5 DEF takes
<1> QED  BY <1>4, <1>5

LEMMA ClosingKeeps ==
    ASSUME GridAssumption, NEW E, NEW failed, NEW out, NEW ties, MayClose(ties, E, failed)
    PROVE  LET next == A!Closing(E, failed, out, ties) IN
           /\ MayClose(next, E, failed) /\ ties \subseteq next
           /\ next = ties => Done(ties, E, failed, out)
<1>1. ties \in SUBSET Switchable
  BY DEF MayClose
<1>2. PICK u : Closes(u, E, failed, out, ties) /\ A!Closing(E, failed, out, ties) = u[Len(EdgeOrder)]
  BY <1>1, ClosingGoes
<1>3. u[0] = ties /\ \A n \in Nat : u[n + 1] = A!Take(E, failed, out, u[n], EdgeOrder[n + 1])
  BY <1>2 DEF Closes
<1> DEFINE ok == {n \in Nat : MayClose(u[n], E, failed)}
<1>4. \A n \in Nat : n \in ok
  <2>1. 0 \in ok
    BY <1>3
  <2>2. ASSUME NEW n \in Nat, n \in ok PROVE n + 1 \in ok
    <3>1. MayClose(u[n], E, failed)
      BY <2>2
    <3>2. MayClose(A!Take(E, failed, out, u[n], EdgeOrder[n + 1]), E, failed)
      BY <3>1, TakeKeeps
    <3> QED  BY <1>3, <3>2
  <2> HIDE DEF ok
  <2> QED  BY <2>1, <2>2, Induction
<1>5. ASSUME NEW n \in Nat PROVE u[n] \subseteq u[n + 1]
  <2>1. MayClose(u[n], E, failed)
    BY <1>4
  <2>2. u[n] \subseteq A!Take(E, failed, out, u[n], EdgeOrder[n + 1])
    BY <2>1, TakeKeeps
  <2> QED  BY <1>3, <2>2
<1>6. \A n \in Nat : u[0] \subseteq u[n]
  <2> DEFINE up == {n \in Nat : u[0] \subseteq u[n]}
  <2>1. 0 \in up /\ \A n \in Nat : n \in up => n + 1 \in up
    BY <1>5
  <2>2. \A n \in Nat : n \in up
    <3> HIDE DEF up
    <3> QED  BY <2>1, Induction
  <2> QED  BY <2>2
<1>7. Len(EdgeOrder) \in Nat
  BY SwitchesAre
<1>8. ASSUME u[Len(EdgeOrder)] = ties PROVE Done(ties, E, failed, out)
  <2> DEFINE down == {k \in Nat : k <= Len(EdgeOrder) => u[Len(EdgeOrder) - k] = ties}
  <2>1. 0 \in down
    BY <1>7, <1>8
  <2>2. ASSUME NEW k \in Nat, k \in down PROVE k + 1 \in down
    <3>1. SUFFICES ASSUME k + 1 <= Len(EdgeOrder) PROVE u[Len(EdgeOrder) - (k + 1)] = ties
      OBVIOUS
    <3>2. /\ k <= Len(EdgeOrder) /\ Len(EdgeOrder) - (k + 1) \in Nat
          /\ (Len(EdgeOrder) - (k + 1)) + 1 = Len(EdgeOrder) - k
      BY <1>7, <3>1
    <3>3. u[Len(EdgeOrder) - k] = ties
      BY <2>2, <3>2
    <3> QED  BY <1>3, <1>5, <1>6, <3>2, <3>3
  <2>3. \A k \in Nat : k \in down
    <3> HIDE DEF down
    <3> QED  BY <2>1, <2>2, Induction
  <2>4. \A n \in Nat : n <= Len(EdgeOrder) => u[n] = ties
    <3>1. SUFFICES ASSUME NEW n \in Nat, n <= Len(EdgeOrder) PROVE u[n] = ties
      OBVIOUS
    <3>2. Len(EdgeOrder) - n \in Nat /\ Len(EdgeOrder) - n <= Len(EdgeOrder) /\ Len(EdgeOrder) - (Len(EdgeOrder) - n) = n
      BY <1>7, <3>1
    <3> QED  BY <2>3, <3>2
  <2>5. ASSUME NEW t \in Switchable \ (E \union ties \union {failed})
        PROVE  ~A!Helps(E \union ties, out \ A!Fed[E \union ties], t)
    <3>1. PICK i \in 1 .. Len(EdgeOrder) : EdgeOrder[i] = t
      BY SwitchesAre
    <3>2. i - 1 \in Nat /\ (i - 1) + 1 = i /\ i \in Nat /\ i - 1 <= Len(EdgeOrder) /\ i <= Len(EdgeOrder)
      BY <1>7
    <3>3. u[i - 1] = ties /\ u[i] = ties
      BY <2>4, <3>2
    <3>4. A!Take(E, failed, out, ties, t) = ties
      BY <1>3, <3>1, <3>2, <3>3
    <3> QED  BY <2>5, <3>4, TakeKeeps
  <2> QED  BY <2>5 DEF Done
<1> QED  BY <1>2, <1>3, <1>4, <1>6, <1>7, <1>8

(* What restoration has closed when it ends.                                 *)
LEMMA RestoreIs ==
    ASSUME GridAssumption, NEW E, NEW failed, NEW out
    PROVE  LET ties == A!Restore(E, failed, out) IN
           MayClose(ties, E, failed) /\ Done(ties, E, failed, out)
<1>0. PICK p : Passes(p, E, failed, out) /\ A!Restore(E, failed, out) = p[Cardinality(Switchable)]
  BY RestoreGoes
<1>1. /\ p \in [Nat -> SUBSET Switchable] /\ p[0] = {}
      /\ \A n \in Nat : p[n + 1] = A!Closing(E, failed, out, p[n])
  BY <1>0 DEF Passes
<1>2. \A n \in Nat : MayClose(p[n], E, failed)
  <2> DEFINE ok == {n \in Nat : MayClose(p[n], E, failed)}
  <2>1. MayClose({}, E, failed)
    <3>1. E \union {} = E
      OBVIOUS
    <3> QED  BY <3>1 DEF MayClose
  <2>2. 0 \in ok
    BY <1>1, <2>1
  <2>3. ASSUME NEW n \in Nat, n \in ok PROVE n + 1 \in ok
    <3>1. MayClose(p[n], E, failed)
      BY <2>3
    <3>2. MayClose(A!Closing(E, failed, out, p[n]), E, failed)
      BY <3>1, ClosingKeeps
    <3> QED  BY <1>1, <3>2
  <2>4. \A n \in Nat : n \in ok
    <3> HIDE DEF ok
    <3> QED  BY <2>2, <2>3, Induction
  <2> QED  BY <2>4
<1>3. ASSUME NEW n \in Nat PROVE n + 1 \in Nat /\ p[n] \subseteq p[n + 1]
  <2>1. MayClose(p[n], E, failed)
    BY <1>2
  <2>2. p[n] \subseteq A!Closing(E, failed, out, p[n])
    BY <2>1, ClosingKeeps
  <2> QED  BY <1>1, <2>2
<1>4. \A n \in Nat : p[n + 1] = p[n] => p[(n + 1) + 1] = p[n + 1]
  BY <1>1, <1>3
<1>5. Cardinality(Switchable) \in Nat /\ p[Cardinality(Switchable) + 1] = p[Cardinality(Switchable)]
  BY <1>1, <1>3, <1>4, GrowthEnds, SwitchesAre, FS_CardinalityType
<1>6. /\ MayClose(p[Cardinality(Switchable)], E, failed)
      /\ A!Closing(E, failed, out, p[Cardinality(Switchable)]) = p[Cardinality(Switchable)]
  BY <1>1, <1>2, <1>5
<1> QED  BY <1>0, <1>6, ClosingKeeps

(* The trees are made of edges of the feeder that are closed.                *)
LEMMA TreesAre ==
    ASSUME NEW E, NEW T \in A!Trees(E)
    PROVE  T \subseteq E
<1>1. CASE A!IsRadial(E)
  BY <1>1 DEF A!Trees
<1>2. CASE ~A!IsRadial(E)
  <2>1. T \in A!kSubset(A!Cardinality(A!Fed[E]) - 1, {e \in E : {FromNode[e], ToNode[e]} \subseteq A!Fed[E]})
    BY <1>2 DEF A!Trees
  <2> QED  BY <2>1 DEF A!kSubset
<1> QED  BY <1>1, <1>2

\* What each answer says: the contingencies, a plan, and the outages.
IsN1(o) == o.results = A!Contingencies(closed, dark) /\ (o.secure => A!N1Secure(o.results))
IsPlan(o) == o.found => \E best \in A!Recommended(closed, dark) : o.plan = A!Changes(closed, best.state)
Infers(o, T, U) ==
    /\ o.inferred = A!Inferences(closed, dark, T, U)
    /\ o.mismatches = {x \in o.inferred : A!Mismatch(x, A!Contingencies(closed, dark))}
IsOutage(o) == \E T \in A!Trees(closed), U \in A!Trees(NormallyClosed) : Infers(o, T, U)

Answers(o) ==
    \/ o.kind = "n1" /\ IsN1(o)
    \/ o.kind = "plan" /\ IsPlan(o)
    \/ o.kind = "outage" /\ IsOutage(o)
    \/ o.kind = "fault"

(* An answer that stands is about the switches and meters as they are.       *)
AnalysisInv ==
    /\ closed \subseteq Edges /\ dark \subseteq Meters
    /\ answer # NoAnswer => Answers(answer)

LEMMA AnswerStands ==
    ASSUME UNCHANGED <<closed, dark>>, NEW o, Answers(o), answer' = o
    PROVE  Answers(answer)'
  BY DEF Answers, IsN1, IsPlan, IsOutage, Infers

LEMMA AnalysisStep ==
    ASSUME GridAssumption, AnalysisInv, [A!Next]_analysis
    PROVE  AnalysisInv'
<1>1. CASE UNCHANGED analysis
  <2>1. UNCHANGED <<closed, dark, answer>>
    BY <1>1 DEF analysis
  <2> QED  BY <2>1, AnswerStands DEF AnalysisInv
<1>2. ASSUME NEW e \in Movable, A!Move(e) PROVE AnalysisInv'
  <2>1. e \in Edges
    BY <1>2 DEF GridAssumption, A!AnalysisAssumption
  <2> QED  BY <1>2, <2>1 DEF A!Move, AnalysisInv
<1>3. ASSUME NEW m \in Meters, A!Gasp(m) PROVE AnalysisInv'
  BY <1>3 DEF A!Gasp, AnalysisInv
<1>4. ASSUME NEW o, A!Reply(o), Answers(o) PROVE AnalysisInv'
  <2>1. UNCHANGED <<closed, dark>> /\ answer' = o
    BY <1>4 DEF A!Reply
  <2>2. Answers(answer)'
    BY <1>4, <2>1, AnswerStands
  <2> QED  BY <2>1, <2>2 DEF AnalysisInv
<1>5. CASE A!ContingencyN1
  <2> DEFINE results == A!Contingencies(closed, dark)
             o == [kind |-> "n1", results |-> results, secure |-> A!N1Secure(results)]
  <2>1. A!Reply(o)
    BY <1>5 DEF A!ContingencyN1
  <2>2. o.kind = "n1" /\ IsN1(o)
    BY DEF IsN1
  <2> HIDE DEF o
  <2> QED  BY <1>4, <2>1, <2>2 DEF Answers
<1>6. CASE A!Recommend
  <2>1. CASE A!Reply([kind |-> "plan", found |-> FALSE, plan |-> {}])
    <3> DEFINE o == [kind |-> "plan", found |-> FALSE, plan |-> {}]
    <3>1. o.kind = "plan" /\ IsPlan(o) /\ A!Reply(o)
      BY <2>1 DEF IsPlan
    <3> HIDE DEF o
    <3> QED  BY <1>4, <3>1 DEF Answers
  <2>2. ASSUME NEW best \in A!Recommended(closed, dark),
               A!Reply([kind |-> "plan", found |-> TRUE, plan |-> A!Changes(closed, best.state)])
        PROVE  AnalysisInv'
    <3> DEFINE o == [kind |-> "plan", found |-> TRUE, plan |-> A!Changes(closed, best.state)]
    <3>1. o.kind = "plan" /\ IsPlan(o) /\ A!Reply(o)
      BY <2>2 DEF IsPlan
    <3> HIDE DEF o
    <3> QED  BY <1>4, <3>1 DEF Answers
  <2> QED  BY <1>6, <2>1, <2>2 DEF A!Recommend
<1>7. CASE A!OutageInfer
  <2>1. PICK T \in A!Trees(closed), U \in A!Trees(NormallyClosed) :
           LET inferred == A!Inferences(closed, dark, T, U)
               results == A!Contingencies(closed, dark)
           IN  A!Reply([kind |-> "outage", inferred |-> inferred,
                        mismatches |-> {x \in inferred : A!Mismatch(x, results)},
                        remote |-> {x \in inferred : A!Remote(x, results)}])
    BY <1>7 DEF A!OutageInfer
  <2> DEFINE inferred == A!Inferences(closed, dark, T, U)
             mismatches == {x \in inferred : A!Mismatch(x, A!Contingencies(closed, dark))}
             remote == {x \in inferred : A!Remote(x, A!Contingencies(closed, dark))}
             o == [kind |-> "outage", inferred |-> inferred, mismatches |-> mismatches, remote |-> remote]
  <2>2. A!Reply(o)
    BY <2>1
  <2>3. o.kind = "outage" /\ o.inferred = inferred /\ o.mismatches = mismatches
    <3> HIDE DEF inferred, mismatches, remote
    <3> QED  OBVIOUS
  <2>4. IsOutage(o)
    BY <2>3 DEF IsOutage, Infers
  <2> HIDE DEF o
  <2> QED  BY <1>4, <2>2, <2>3, <2>4 DEF Answers
<1>8. CASE A!Locate
  <2>1. PICK section, exact : A!Reply([kind |-> "fault", section |-> section, exact |-> exact])
    BY <1>8 DEF A!Locate
  <2> DEFINE o == [kind |-> "fault", section |-> section, exact |-> exact]
  <2>2. o.kind = "fault" /\ A!Reply(o)
    BY <2>1
  <2> HIDE DEF o
  <2> QED  BY <1>4, <2>2 DEF Answers
<1> QED  BY <1>1, <1>2, <1>3, <1>5, <1>6, <1>7, <1>8 DEF A!Next, A!analysisVars, analysis

THEOREM AnalysisInvariance == Spec => []AnalysisInv
<1>1. Init => AnalysisInv
  <2> SUFFICES ASSUME Init PROVE AnalysisInv
    OBVIOUS
  <2>1. closed \in {NormallyClosed, Edges} /\ dark = {} /\ answer = NoAnswer
    BY DEF Init, A!Init
  <2> QED  BY <2>1, GridAssumption, FeederIs DEF AnalysisInv
<1>2. AnalysisInv /\ [Next]_<<part, network, analysis, outages>> => AnalysisInv'
  BY GridAssumption, AnalysisStep DEF Next, Network, Analysis, Outages
<1> QED  BY <1>1, <1>2, PTL DEF Spec

(* In a radial feeder the inference and the contingency analysis agree.      *)
LEMMA EnergizedAgrees ==
    ASSUME GridAssumption, closed \subseteq Edges, A!IsRadial(closed), NEW T \in A!Trees(closed),
           NEW o, Blames(o, T)
    PROVE  /\ ~A!Mismatch(o, A!Contingencies(closed, dark))
           /\ \A e \in o.device : o.members \cap A!Fed[closed \ {e}] = {}
<1> DEFINE results == A!Contingencies(closed, dark)
<1>1. \A e \in T : e \in closed /\ A!Section(T, e) = A!Fed[closed] \ A!Fed[closed \ {e}]
  BY TreeIs
<1>2. ASSUME NEW e \in o.device
      PROVE  e \in closed /\ o.members \subseteq A!Fed[closed] \ A!Fed[closed \ {e}]
             /\ o.customers = A!CustomersIn(A!Fed[closed] \ A!Fed[closed \ {e}])
  BY <1>1 DEF Blames
<1>3. /\ \A r \in results :
            r.element \in closed /\ r.lostCustomers = A!CustomersIn(A!Fed[closed] \ A!Fed[closed \ {r.element}])
      /\ \A e \in closed : \E r \in results : r.element = e
  <2>1. /\ \A r \in results : r.element \in closed /\ Tells(r, r.element, closed, dark)
        /\ \A e \in closed : \E r \in results : r.element = e
    BY ContingencyIs
  <2> HIDE DEF results
  <2> QED  BY <2>1 DEF Tells
<1> HIDE DEF results
<1>4. ~ \E e \in o.device : \A r \in results : r.element # e
  BY <1>2, <1>3
<1>5. ~ \E r \in results : r.element \in o.device /\ o.customers # r.lostCustomers
  BY <1>2, <1>3
<1>6. ~A!Mismatch(o, results)
  BY <1>4, <1>5 DEF A!Mismatch
<1>7. \A e \in o.device : o.members \cap A!Fed[closed \ {e}] = {}
  BY <1>2
<1> QED  BY <1>6, <1>7 DEF results

(* A dark meter that the feeder reaches, or would as it is normally closed,  *)
(* is explained by one inference.                                            *)
LEMMA ExplainedOnce ==
    ASSUME GridAssumption, closed \subseteq Edges, NEW T \in A!Trees(closed), NEW U \in A!Trees(NormallyClosed),
           NEW m \in dark \cap (A!Fed[closed] \union A!Fed[NormallyClosed])
    PROVE  A!Cardinality({o \in A!Inferences(closed, dark, T, U) : m \in o.members}) = 1
<1> DEFINE cut == NormallyClosed
           fed == dark \cap A!Fed[closed]
           off == (dark \ A!Fed[closed]) \cap A!Fed[cut]
           ofFed == A!Pass(T, fed, "energized", {})
           ofOff == A!Pass(U, off, "structural", cut \ closed)
<1>1. A!Inferences(closed, dark, T, U) = ofFed \union ofOff
  BY DEF A!Inferences
<1>2. T \in SUBSET Edges /\ U \in SUBSET Edges
  BY FeederIs, TreesAre
<1>3. (m \in fed /\ m \notin off) \/ (m \in off /\ m \notin fed)
  OBVIOUS
<1> HIDE DEF fed, off
<1>4. /\ \A o \in ofFed : o.members \subseteq fed
      /\ \A n \in fed : Once(n, ofFed)
  BY <1>2, PassIs
<1>5. /\ \A o \in ofOff : o.members \subseteq off
      /\ \A n \in off : Once(n, ofOff)
  BY <1>2, PassIs
<1> HIDE DEF ofFed, ofOff
<1>6. PICK o : {x \in ofFed \union ofOff : m \in x.members} = {o}
  <2>1. CASE m \in fed /\ m \notin off
    <3>1. PICK o : {x \in ofFed : m \in x.members} = {o}
      BY <1>4, <2>1 DEF Once
    <3>2. {x \in ofFed \union ofOff : m \in x.members} = {o}
      BY <1>5, <2>1, <3>1
    <3> QED  BY <3>2
  <2>2. CASE m \in off /\ m \notin fed
    <3>1. PICK o : {x \in ofOff : m \in x.members} = {o}
      BY <1>5, <2>2 DEF Once
    <3>2. {x \in ofFed \union ofOff : m \in x.members} = {o}
      BY <1>4, <2>2, <3>1
    <3> QED  BY <3>2
  <2> QED  BY <1>3, <2>1, <2>2
<1>7. Cardinality({o}) = 1
  BY FS_Singleton
<1> QED  BY <1>1, <1>6, <1>7, ASizeIs

(* The device that outage inference blames for dark meters that are still fed *)
(* is one whose failure explains all of them and, by the contingency analysis *)
(* of the same feeder, loses as many customers; each dark meter is explained  *)
(* once (outage_inference.infer, outage_validation.cross_check).              *)
THEOREM InferenceAgreesHolds == Spec => []InferenceAgrees
<1>1. ASSUME AnalysisInv PROVE InferenceAgrees
  <2>1. SUFFICES ASSUME answer # NoAnswer, answer.kind = "outage", A!IsRadial(closed) PROVE A!InferenceAgrees
    BY DEF InferenceAgrees, A!InferenceAgrees
  <2>2. closed \subseteq Edges
    BY <1>1 DEF AnalysisInv
  <2>3. PICK T \in A!Trees(closed), U \in A!Trees(NormallyClosed) : Infers(answer, T, U)
    BY <1>1, <2>1 DEF AnalysisInv, Answers, IsOutage
  <2>4. T \in SUBSET Edges /\ U \in SUBSET Edges
    BY <2>2, GridAssumption, FeederIs, TreesAre
  <2>5. ASSUME NEW o \in answer.inferred, o.source = "energized"
        PROVE  o \notin answer.mismatches /\ \A e \in o.device : o.members \cap A!Fed[closed \ {e}] = {}
    <3>1. PICK gone, open : o \in A!Pass(T, gone, "energized", open) \/ o \in A!Pass(U, gone, "structural", open)
      BY <2>3, <2>5 DEF Infers, A!Inferences
    <3>2. o \in A!Pass(T, gone, "energized", open)
      BY <2>4, <2>5, <3>1, PassIs, GridAssumption
    <3>3. Blames(o, T)
      BY <2>4, <3>2, PassIs, GridAssumption
    <3>4. ~A!Mismatch(o, A!Contingencies(closed, dark)) /\ \A e \in o.device : o.members \cap A!Fed[closed \ {e}] = {}
      BY <2>1, <2>2, <3>3, EnergizedAgrees, GridAssumption
    <3> QED  BY <2>3, <3>4 DEF Infers
  <2>6. \A m \in dark \cap (A!Fed[closed] \union A!Fed[NormallyClosed]) :
           A!Cardinality({o \in answer.inferred : m \in o.members}) = 1
    BY <2>2, <2>3, ExplainedOnce, GridAssumption DEF Infers
  <2> QED  BY <2>5, <2>6 DEF A!InferenceAgrees
<1> QED  BY <1>1, AnalysisInvariance, PTL

-----------------------------------------------------------------------------
(* The switching that the analyses propose.                                  *)

LEMMA LoadsAre ==
    ASSUME GridAssumption
    PROVE  /\ BaseLoad \in [Nodes -> Int] /\ Resistance \in [Edges -> Nat]
           /\ Meters \subseteq Nodes /\ Reconfigurable \subseteq Edges
  BY Zenon DEF GridAssumption, A!AnalysisAssumption

(* The load that a node counts with when it is out.                          *)
LEMMA ClassifiedIs ==
    ASSUME GridAssumption, NEW gone, NEW n \in Nodes
    PROVE  /\ A!Classified(gone, n) \in Nat
           /\ A!Classified(gone, n) = 0 => ~(BaseLoad[n] > 0)
  BY LoadsAre DEF A!Classified, A!Load

(* When nothing is unserved, no node that is out has a load.                 *)
LEMMA UnservedIs ==
    ASSUME GridAssumption, NEW gone, NEW off \in SUBSET Nodes, A!Unserved(gone, off) = 0
    PROVE  \A n \in off : ~(BaseLoad[n] > 0)
<1> DEFINE load == [n \in Nodes |-> A!Classified(gone, n)]
<1>1. A!Unserved(gone, off) = A!SumFunctionOnSet(load, off)
  BY DEF A!Unserved
<1>2. IsFiniteSet(off)
  BY FeederIs, FS_Subset
<1>3. \A n \in off : load[n] = A!Classified(gone, n) /\ load[n] \in Int /\ load[n] >= 0
  BY ClassifiedIs
<1> HIDE DEF load
<1>4. \A n \in off : load[n] = 0
  BY <1>1, <1>2, <1>3, SumIs
<1> QED  BY <1>3, <1>4, ClassifiedIs

LEMMA ContingencyHolds ==
    ASSUME GridAssumption, NEW E \in SUBSET Edges, A!IsRadial(E), NEW gone,
           NEW r, r.element \in E, Tells(r, r.element, E, gone)
    PROVE  LET after == (E \ {r.element}) \union r.restoredBy IN
           /\ r.element \notin after /\ A!IsRadial(after)
           /\ r.unserved = 0 => A!Served(E) \subseteq A!Fed[after]
           /\ \A t \in Switchable \ (after \union {r.element}) :
                 (A!Fed[after \union {t}] \ A!Fed[after]) \cap A!Fed[E] # {} => ~A!IsRadial(after \union {t})
<1> DEFINE e == r.element
           less == E \ {e}
           cut == A!Fed[E] \ A!Fed[less]
           ties == r.restoredBy
           after == less \union ties
<1>1. ties = A!Restore(less, e, cut) /\ r.unserved = A!Unserved(gone, A!Fed[E] \ A!Fed[after])
  BY DEF Tells
<1>2. MayClose(ties, less, e) /\ Done(ties, less, e, cut)
  BY <1>1, RestoreIs
<1>3. less \in SUBSET E /\ less \in SUBSET Edges /\ ties \in SUBSET Edges /\ after \in SUBSET Edges
  BY <1>2, SwitchesAre DEF MayClose
<1>4. e \notin after /\ A!IsRadial(after)
  <2>1. A!IsRadial(less)
    BY <1>3, RadialStays
  <2> QED  BY <1>2, <2>1 DEF MayClose
<1>5. A!Fed[E] \in SUBSET Nodes /\ A!Fed[less] \subseteq A!Fed[after]
  <2>1. root \in A!Fed[after] /\ Stays(less, A!Fed[after])
    BY <1>3, FedIs DEF Stays
  <2> QED  BY <1>3, <2>1, FedIs
<1>6. ASSUME r.unserved = 0 PROVE A!Served(E) \subseteq A!Fed[after]
  <2>1. \A n \in A!Fed[E] \ A!Fed[after] : ~(BaseLoad[n] > 0)
    BY <1>1, <1>5, <1>6, UnservedIs
  <2> QED  BY <2>1 DEF A!Served
<1>7. ASSUME NEW t \in Switchable \ (after \union {e}),
             (A!Fed[after \union {t}] \ A!Fed[after]) \cap A!Fed[E] # {}
      PROVE  ~A!IsRadial(after \union {t})
  <2>1. (cut \ A!Fed[after]) \cap A!Fed[after \union {t}] # {}
    BY <1>5, <1>7
  <2>2. ~A!Helps(after, cut \ A!Fed[after], t)
    BY <1>2, <1>7 DEF Done
  <2> QED  BY <2>1, <2>2 DEF A!Helps
<1> QED  BY <1>4, <1>6, <1>7

(* The loss that the power flow finds is a number.                           *)
LEMMA LossIs ==
    ASSUME GridAssumption, NEW T \in SUBSET Edges, NEW gone
    PROVE  A!PowerFlow(T, gone).loss \in Int
<1>1. ASSUME NEW e \in T PROVE A!Flow(T, gone, e) \in Int
  <2> DEFINE load == [n \in Nodes |-> A!Load(gone, n)]
  <2>1. A!Flow(T, gone, e) = A!SumFunctionOnSet(load, A!Section(T, e))
    BY DEF A!Flow
  <2>2. IsFiniteSet(A!Section(T, e)) /\ A!Section(T, e) \in SUBSET Nodes
    BY FedIs, FeederIs, FS_Subset DEF A!Section
  <2>3. \A n \in A!Section(T, e) : load[n] \in Int
    BY <2>2, LoadsAre DEF A!Load
  <2> HIDE DEF load
  <2> QED  BY <2>1, <2>2, <2>3, SumIs
<1> DEFINE loss == [e \in T |-> Resistance[e] * A!Flow(T, gone, e) * A!Flow(T, gone, e)]
<1>2. \A e \in T : loss[e] \in Int
  <2>1. \A e \in T : Resistance[e] \in Int /\ A!Flow(T, gone, e) \in Int
    BY <1>1, LoadsAre
  <2>2. \A x, y \in Int : x * y * y \in Int
    OBVIOUS
  <2> QED  BY <2>1, <2>2
<1>3. IsFiniteSet(T) /\ A!PowerFlow(T, gone).loss = A!Loss(T, gone)
  BY FeederIs, FS_Subset DEF A!PowerFlow
<1>4. A!Loss(T, gone) = A!SumFunctionOnSet(loss, T)
  BY DEF A!Loss
<1> HIDE DEF loss
<1> QED  BY <1>2, <1>3, <1>4, SumIs

\* The power flow of the tree that is picked for a position of the switches.
FlowOf(S) == A!PowerFlow(CHOOSE T \in A!Trees(S) : TRUE, dark)

LEMMA OptionsAre ==
    ASSUME GridAssumption, closed \subseteq Edges, NEW o \in A!Options(closed, dark)
    PROVE  /\ o.state \in SUBSET Edges /\ o.flow = FlowOf(o.state) /\ o.flow.loss \in Int
           /\ A!IsRadial(o.state) /\ Meters \subseteq A!Fed[o.state]
<1>1. PICK Q \in SUBSET Reconfigurable :
          LET S == (closed \ Reconfigurable) \union Q IN
          /\ A!Feasible(S)
          /\ o = [state |-> S, flow |-> FlowOf(S)]
  BY Zenon DEF A!Options, FlowOf
<1> DEFINE S == (closed \ Reconfigurable) \union Q
<1>2. S \in SUBSET Edges
  BY LoadsAre
<1> HIDE DEF S
<1>3. o = [state |-> S, flow |-> FlowOf(S)] /\ A!Feasible(S)
  BY <1>1 DEF S
<1>4. o.state = S /\ o.flow = FlowOf(S)
  BY <1>3
<1>5. A!IsRadial(S) /\ Meters \subseteq A!Fed[S]
  BY <1>3 DEF A!Feasible
<1>6. FlowOf(S).loss \in Int
  <2>1. A!Trees(S) = {Live(S)}
    BY <1>5 DEF A!Trees, Live
  <2>2. (CHOOSE T \in A!Trees(S) : TRUE) \in A!Trees(S)
    BY <2>1
  <2>3. (CHOOSE T \in A!Trees(S) : TRUE) \in SUBSET Edges
    BY <1>2, <2>2, TreesAre
  <2> QED  BY <2>3, LossIs DEF FlowOf
<1> QED  BY <1>2, <1>4, <1>5, <1>6

LEMMA PlanHolds ==
    ASSUME GridAssumption, closed \subseteq Edges, NEW best \in A!Recommended(closed, dark),
           answer.plan = A!Changes(closed, best.state)
    PROVE  LET after == A!Changes(closed, answer.plan)
               options == {o \in A!Options(closed, dark) : o.flow.converged}
           IN  /\ A!IsRadial(after) /\ Meters \subseteq A!Fed[after]
               /\ \A o \in options : FlowOf(after).loss <= o.flow.loss
               /\ (\E o \in options : o.state = closed /\ o.flow.loss = FlowOf(after).loss) => answer.plan = {}
<1> DEFINE options == {o \in A!Options(closed, dark) : o.flow.converged}
<1>1. best \in options /\ \A p \in options : A!Better(closed, best, p)
  BY DEF A!Recommended
<1>2. A!Changes(closed, answer.plan) = best.state
  BY DEF A!Changes
<1>3. \A o \in options : /\ o.state \in SUBSET Edges /\ o.flow = FlowOf(o.state) /\ o.flow.loss \in Int
                         /\ A!IsRadial(o.state) /\ Meters \subseteq A!Fed[o.state]
  BY OptionsAre
<1> HIDE DEF options
<1>4. \A p \in options : best.flow.loss <= p.flow.loss
  BY <1>1, <1>3 DEF A!Better
<1>5. ASSUME NEW p \in options, p.state = closed, p.flow.loss = best.flow.loss PROVE answer.plan = {}
  <2>1. A!Cardinality(A!Changes(closed, best.state)) <= A!Cardinality(A!Changes(closed, closed))
    BY <1>1, <1>3, <1>5 DEF A!Better
  <2>2. A!Changes(closed, closed) = {} /\ Cardinality({}) = 0
    BY FS_EmptySet DEF A!Changes
  <2>3. A!Changes(closed, best.state) \in SUBSET Edges
    BY <1>1, <1>3 DEF A!Changes
  <2>4. IsFiniteSet(A!Changes(closed, best.state)) /\ Cardinality(A!Changes(closed, best.state)) \in Nat
    BY <2>3, FeederIs, FS_Subset, FS_CardinalityType
  <2>5. Cardinality(A!Changes(closed, best.state)) = 0
    BY <2>1, <2>2, <2>4, ASizeIs
  <2> QED  BY <2>4, <2>5, FS_EmptySet
<1>6. /\ A!IsRadial(best.state) /\ Meters \subseteq A!Fed[best.state]
      /\ best.flow = FlowOf(best.state)
  BY <1>1, <1>3
<1> QED  BY <1>2, <1>4, <1>5, <1>6 DEF options

(* The switching that the contingency analysis and the reconfiguration        *)
(* propose: what is restored makes no loop and stops only when nothing more   *)
(* can be, a feeder that is called secure serves all its load through each    *)
(* failure, and a plan reaches every load at the least loss (contingency.py,  *)
(* reconfiguration.py).                                                       *)
THEOREM SwitchingHoldsAlways == Spec => []SwitchingHolds
<1>1. ASSUME AnalysisInv PROVE SwitchingHolds
  <2>0. GridAssumption /\ closed \in SUBSET Edges
    BY <1>1, GridAssumption DEF AnalysisInv
  <2>1. A!TypeOK
    BY <1>1 DEF AnalysisInv, Answers, A!TypeOK
  <2>2. ASSUME answer # NoAnswer, answer.kind = "n1", A!IsRadial(closed), NEW r \in answer.results
        PROVE  LET after == (closed \ {r.element}) \union r.restoredBy IN
               /\ r.element \notin after /\ A!IsRadial(after)
               /\ answer.secure => A!Served(closed) \subseteq A!Fed[after]
               /\ \A t \in Switchable \ (after \union {r.element}) :
                     (A!Fed[after \union {t}] \ A!Fed[after]) \cap A!Fed[closed] # {} => ~A!IsRadial(after \union {t})
    <3>1. IsN1(answer)
      BY <1>1, <2>2 DEF AnalysisInv, Answers
    <3>2. r.element \in closed /\ Tells(r, r.element, closed, dark)
      BY <2>2, <3>1, ContingencyIs DEF IsN1
    <3>3. answer.secure => r.unserved = 0
      BY <2>2, <3>1 DEF IsN1, A!N1Secure
    <3> QED  BY <2>0, <2>2, <3>2, <3>3, ContingencyHolds
  <2>3. A!ContingenciesHold
    BY <2>2 DEF A!ContingenciesHold
  <2>4. A!PlanIsBest
    <3>1. SUFFICES ASSUME answer # NoAnswer, answer.kind = "plan", answer.found PROVE A!PlanIsBest
      BY DEF A!PlanIsBest
    <3>2. PICK best \in A!Recommended(closed, dark) : answer.plan = A!Changes(closed, best.state)
      BY <1>1, <3>1 DEF AnalysisInv, Answers, IsPlan
    <3> QED  BY <2>0, <3>2, PlanHolds DEF A!PlanIsBest, FlowOf
  <2> QED  BY <2>1, <2>3, <2>4 DEF SwitchingHolds
<1> QED  BY <1>1, AnalysisInvariance, PTL

-----------------------------------------------------------------------------
(* Outage cases: their rows, and what each sweep has read of them.           *)

PCs == {"off", "meters", "reports", "group", "upsert", "attach", "link",
        "mark", "confirm", "list", "check", "restore"}
SweepType ==
    [pc : PCs, out : SUBSET Metered, new : SUBSET Reports, groups : SUBSET (Sections \cup Metered),
     node : Sections \cup Metered \cup {None}, report : Reports \cup {None},
     found : 0 .. MaxCases, todo : SUBSET O!Cases]
CaseType == [status : O!Statuses \cup {"ABSENT"}, node : Sections \cup {None}, meters : SUBSET Metered]
ReportType == [status : {"ABSENT", "NEW", "LINKED"}, node : Sections \cup {None},
               meter : Metered \cup {None}, case : 0 .. MaxCases]

Opened(c) == case[c].status # "ABSENT"
\* Rows are inserted one after the other.
RowsInOrder == \E k \in 0 .. MaxCases : \A c \in O!Cases : Opened(c) <=> c <= k

\* The cases that a sweep has in hand are there.
SweepOK(p) ==
    LET s == sweep[p] IN
    /\ s.pc \in {"attach", "mark", "confirm", "restore"} => s.found \in O!Cases /\ Opened(s.found)
    /\ s.pc = "upsert" => s.node # None /\ (s.found # 0 => Opened(s.found))
    /\ s.pc = "mark" => s.report \in Reports
    /\ \A c \in s.todo : Opened(c)

OutageTypes ==
    /\ O!TypeOK
    /\ RowsInOrder
    /\ \A p \in Sweepers : SweepOK(p)

\* While no sweep met another: what the one that is busy read is still so.
AtMostOne(node, c) == \A d \in O!Cases : O!IsOpen(d) /\ case[d].node = node => d = c
AloneInv ==
    alone =>
       /\ \A p, q \in Sweepers : O!Busy(p) /\ O!Busy(q) => p = q
       /\ \A c \in O!Cases : O!IsOpen(c) => AtMostOne(case[c].node, c)
       /\ \A p \in Sweepers : sweep[p].pc = "upsert" /\ sweep[p].found = 0 => AtMostOne(sweep[p].node, 0)
       /\ \A p \in Sweepers : sweep[p].pc \in {"mark", "confirm"} => AtMostOne(case[sweep[p].found].node, sweep[p].found)

OutageInv == OutageTypes /\ AloneInv

LEMMA TypesAre ==
    ASSUME GridAssumption
    PROVE  /\ MaxCases \in Nat /\ O!Cases = 1 .. MaxCases /\ Detector \in Sweepers
           /\ SectionOf \in [Metered -> Sections \cup Metered]
           /\ None \notin Metered \cup Sections
           /\ O!TypeOK <=> /\ signal \in [Metered -> {"never", "out", "live"}]
                           /\ case \in [O!Cases -> CaseType]
                           /\ report \in [Reports -> ReportType]
                           /\ sweep \in [Sweepers -> SweepType]
                           /\ changes \in 0 .. MaxChanges /\ touches \in 0 .. MaxTouches
                           /\ alone \in BOOLEAN
           /\ MaxChanges \in Nat /\ MaxTouches \in Nat
  BY DEF GridAssumption, O!OMSAssumption, O!TypeOK, CaseType, ReportType, SweepType, PCs, O!Cases

LEMMA OffIs ==
    ASSUME GridAssumption
    PROVE  O!Off \in SweepType /\ O!Off.pc = "off" /\ O!Off.todo = {} /\ O!Off.found = 0
  BY TypesAre DEF O!Off, SweepType, PCs

LEMMA OpenCase ==
    ASSUME GridAssumption, NEW node
    PROVE  \/ O!_open_case_for_node(node) = 0 /\ \A c \in O!Cases : ~(O!IsOpen(c) /\ case[c].node = node)
           \/ /\ O!_open_case_for_node(node) \in O!Cases /\ O!_open_case_for_node(node) # 0
              /\ O!IsOpen(O!_open_case_for_node(node)) /\ case[O!_open_case_for_node(node)].node = node
<1> DEFINE open == O!OpenFor(node)
<1>1. open = {c \in O!Cases : O!IsOpen(c) /\ case[c].node = node}
  BY DEF O!OpenFor
<1>2. MaxCases \in Nat /\ O!Cases = 1 .. MaxCases
  BY TypesAre
<1> HIDE DEF open
<1>3. CASE open = {}
  BY <1>1, <1>3 DEF O!_open_case_for_node, open
<1>4. CASE open # {}
  <2>1. open \in SUBSET (0 .. MaxCases)
    BY <1>1, <1>2
  <2>2. \E x \in open : \A y \in open : x >= y
    BY <1>2, <1>4, <2>1, LargestOf
  <2>3. O!Max(open) \in open
    BY <2>2 DEF O!Max
  <2>4. O!_open_case_for_node(node) = O!Max(open)
    BY <1>4 DEF O!_open_case_for_node, open
  <2>5. \A c \in open : c \in O!Cases /\ c # 0 /\ O!IsOpen(c) /\ case[c].node = node
    BY <1>1, <1>2
  <2> QED  BY <2>3, <2>4, <2>5
<1> QED  BY <1>3, <1>4

LEMMA CountIs == \A S : O!Cardinality(S) = Cardinality(S)
  BY Zenon DEF O!Cardinality, Cardinality

LEMMA NewCaseIs ==
    ASSUME GridAssumption, OutageTypes
    PROVE  /\ O!NewCase \in 1 .. MaxCases + 1
           /\ \A c \in O!Cases : Opened(c) <=> c < O!NewCase
<1>1. PICK k \in 0 .. MaxCases : \A c \in O!Cases : Opened(c) <=> c <= k
  BY DEF OutageTypes, RowsInOrder
<1>2. MaxCases \in Nat /\ O!Cases = 1 .. MaxCases
  BY TypesAre
<1> DEFINE rows == {c \in O!Cases : case[c].status # "ABSENT"}
<1>3. rows = 1 .. k
  BY <1>1, <1>2 DEF Opened
<1>4. k \in Nat /\ Cardinality(1 .. k) = k
  BY <1>1, <1>2, FS_Interval
<1>5. O!NewCase = 1 + O!Cardinality(rows)
  BY DEF O!NewCase
<1>6. O!Cardinality(rows) = k
  BY <1>3, <1>4, CountIs
<1>7. O!NewCase = k + 1
  BY <1>4, <1>5, <1>6
<1> HIDE DEF rows
<1> QED  BY <1>1, <1>2, <1>4, <1>7

\* A step that moves one sweep, and leaves the cases.
LEMMA SweepMoves ==
    ASSUME GridAssumption, OutageInv, NEW p \in Sweepers, NEW q \in SweepType,
           sweep' = [sweep EXCEPT ![p] = q], UNCHANGED <<signal, case, changes, alone>>, touches' = touches,
           report' \in [Reports -> ReportType],
           SweepOK(p)',
           O!Busy(p),
           alone /\ q.pc = "upsert" /\ q.found = 0 => AtMostOne(q.node, 0),
           alone /\ q.pc \in {"mark", "confirm"} => AtMostOne(case[q.found].node, q.found)
    PROVE  OutageInv'
<1>1. sweep \in [Sweepers -> SweepType]
  BY TypesAre DEF OutageInv, OutageTypes
<1>2. sweep' \in [Sweepers -> SweepType] /\ sweep'[p] = q /\ \A x \in Sweepers : x # p => sweep'[x] = sweep[x]
  BY <1>1
<1>3. O!TypeOK'
  BY <1>2, TypesAre DEF OutageInv, OutageTypes, O!TypeOK, CaseType, ReportType, SweepType, PCs, O!Cases
<1>4. RowsInOrder'
  BY DEF OutageInv, OutageTypes, RowsInOrder, Opened
<1>5. ASSUME NEW x \in Sweepers PROVE SweepOK(x)'
  BY <1>2 DEF OutageInv, OutageTypes, SweepOK, Opened
<1>6. AloneInv'
  BY <1>2 DEF OutageInv, AloneInv, AtMostOne, O!IsOpen, O!Busy, O!At
<1> QED  BY <1>3, <1>4, <1>5, <1>6 DEF OutageInv, OutageTypes

\* A row is inserted, or written over.
LEMMA RowWritten ==
    ASSUME GridAssumption, OutageTypes, NEW c \in O!Cases, NEW r \in CaseType, r.status # "ABSENT",
           case' = [case EXCEPT ![c] = r],
           Opened(c) \/ c = O!NewCase
    PROVE  /\ case' \in [O!Cases -> CaseType] /\ case'[c] = r
           /\ \A d \in O!Cases : d # c => case'[d] = case[d]
           /\ \A d \in O!Cases : Opened(d) => case'[d].status # "ABSENT"
           /\ RowsInOrder'
<1>1. case \in [O!Cases -> CaseType] /\ MaxCases \in Nat /\ O!Cases = 1 .. MaxCases
  BY TypesAre DEF OutageTypes
<1>2. case' \in [O!Cases -> CaseType] /\ case'[c] = r /\ \A d \in O!Cases : d # c => case'[d] = case[d]
  BY <1>1
<1>3. O!NewCase \in 1 .. MaxCases + 1 /\ \A d \in O!Cases : Opened(d) <=> d < O!NewCase
  BY NewCaseIs
<1>4. \E j \in 0 .. MaxCases : \A d \in O!Cases : case'[d].status # "ABSENT" <=> d <= j
  <2> DEFINE n == O!NewCase
  <2>0. n \in 1 .. MaxCases + 1 /\ \A d \in O!Cases : case[d].status # "ABSENT" <=> d < n
    BY <1>3 DEF Opened
  <2> HIDE DEF n
  <2>1. CASE Opened(c)
    <3>1. n - 1 \in 0 .. MaxCases
      BY <1>1, <2>0
    <3>2. ASSUME NEW d \in O!Cases PROVE case'[d].status # "ABSENT" <=> d <= n - 1
      BY <1>1, <1>2, <2>0, <2>1 DEF Opened
    <3> QED  BY <3>1, <3>2
  <2>2. CASE c = n
    <3>1. n \in 0 .. MaxCases
      BY <1>1, <2>2
    <3>2. ASSUME NEW d \in O!Cases PROVE case'[d].status # "ABSENT" <=> d <= n
      BY <1>1, <1>2, <2>0, <2>2
    <3> QED  BY <3>1, <3>2
  <2> QED  BY <2>1, <2>2 DEF n
<1>5. RowsInOrder'
  BY <1>4 DEF RowsInOrder, Opened
<1>6. \A d \in O!Cases : Opened(d) => case'[d].status # "ABSENT"
  BY <1>2 DEF Opened
<1> QED  BY <1>2, <1>5, <1>6

\* A step of a sweep that writes a row.
LEMMA SweepWrites ==
    ASSUME GridAssumption, OutageInv, NEW p \in Sweepers, NEW q \in SweepType,
           sweep' = [sweep EXCEPT ![p] = q], UNCHANGED <<signal, report, changes, touches, alone>>,
           NEW c \in O!Cases, NEW r \in CaseType, r.status # "ABSENT",
           case' = [case EXCEPT ![c] = r], Opened(c) \/ c = O!NewCase,
           O!Busy(p), q.pc \in {"attach", "group", "link", "check"}, q.pc = "attach" => q.found = c,
           \A d \in q.todo : Opened(d),
           alone /\ r.status \in O!OPEN_STATUSES => AtMostOne(r.node, c)
    PROVE  OutageInv'
<1>0. OutageTypes
  BY DEF OutageInv
<1>1. sweep \in [Sweepers -> SweepType] /\ MaxCases \in Nat /\ O!Cases = 1 .. MaxCases
  BY <1>0, TypesAre DEF OutageTypes
<1>2. sweep' \in [Sweepers -> SweepType] /\ sweep'[p] = q /\ \A x \in Sweepers : x # p => sweep'[x] = sweep[x]
  BY <1>1
<1>3. /\ case' \in [O!Cases -> CaseType] /\ case'[c] = r
      /\ \A d \in O!Cases : d # c => case'[d] = case[d]
      /\ \A d \in O!Cases : Opened(d) => case'[d].status # "ABSENT"
      /\ RowsInOrder'
  BY <1>0, RowWritten
<1>4. O!TypeOK'
  BY <1>0, <1>2, <1>3, TypesAre DEF OutageTypes, O!TypeOK, CaseType, ReportType, SweepType, PCs, O!Cases
<1>5. ASSUME NEW x \in Sweepers PROVE SweepOK(x)'
  <2>1. CASE x = p
    <3>1. q.todo \in SUBSET O!Cases
      BY DEF SweepType
    <3>2. sweep'[x] = q
      BY <1>2, <2>1
    <3>3. \A d \in q.todo : case'[d].status # "ABSENT"
      BY <1>3, <3>1
    <3> QED  BY <1>3, <3>2, <3>3 DEF SweepOK, Opened
  <2>2. CASE x # p
    <3>1. sweep'[x] = sweep[x] /\ sweep[x] \in SweepType /\ SweepOK(x)
      BY <1>0, <1>1, <1>2, <2>2 DEF OutageTypes
    <3>2. sweep[x].todo \in SUBSET O!Cases /\ sweep[x].found \in 0 .. MaxCases
      BY <3>1 DEF SweepType
    <3>3. sweep[x].found # 0 => sweep[x].found \in O!Cases
      BY <1>1, <3>2
    <3>4. \A d \in sweep[x].todo : case'[d].status # "ABSENT"
      BY <1>3, <3>1, <3>2 DEF SweepOK
    <3> QED  BY <1>3, <3>1, <3>3, <3>4 DEF SweepOK, Opened
  <2> QED  BY <2>1, <2>2
<1>6. ASSUME alone PROVE AloneInv'
  <2>0. AloneInv
    BY DEF OutageInv
  <2>1. \A x \in Sweepers : x # p => sweep'[x].pc = "off"
    BY <1>2, <1>6, <2>0 DEF AloneInv, O!Busy, O!At
  <2>2. sweep'[p].pc \notin {"off", "upsert", "mark", "confirm"}
    BY <1>2
  <2>3. ASSUME NEW d \in O!Cases, NEW e \in O!Cases,
               case'[d].status \in O!OPEN_STATUSES, case'[e].status \in O!OPEN_STATUSES,
               case'[d].node = case'[e].node
        PROVE  d = e
    <3>1. CASE d = c /\ e # c
      BY <1>3, <1>6, <2>3, <3>1 DEF AtMostOne, O!IsOpen
    <3>2. CASE d # c /\ e = c
      BY <1>3, <1>6, <2>3, <3>2 DEF AtMostOne, O!IsOpen
    <3>3. CASE d # c /\ e # c
      BY <1>3, <1>6, <2>0, <2>3, <3>3 DEF AloneInv, AtMostOne, O!IsOpen
    <3> QED  BY <3>1, <3>2, <3>3
  <2>4. (\A x, y \in Sweepers : O!Busy(x) /\ O!Busy(y) => x = y)'
    BY <2>1, <2>2 DEF O!Busy, O!At
  <2>5. (\A d \in O!Cases : O!IsOpen(d) => AtMostOne(case[d].node, d))'
    BY <2>3 DEF AtMostOne, O!IsOpen
  <2>6. \A x \in Sweepers : sweep'[x].pc \notin {"upsert", "mark", "confirm"}
    BY <2>1, <2>2
  <2> QED  BY <2>4, <2>5, <2>6 DEF AloneInv
<1>7. ~alone => AloneInv'
  BY DEF AloneInv
<1> QED  BY <1>3, <1>4, <1>5, <1>6, <1>7 DEF OutageInv, OutageTypes

\* What a sweep that is at work is.
LEMMA SweepIs ==
    ASSUME GridAssumption, OutageInv, NEW p \in Sweepers
    PROVE  /\ sweep[p] \in SweepType /\ SweepOK(p) /\ report \in [Reports -> ReportType]
           /\ case \in [O!Cases -> CaseType] /\ signal \in [Metered -> {"never", "out", "live"}]
           /\ sweep[p].out \in SUBSET Metered /\ sweep[p].new \in SUBSET Reports
           /\ sweep[p].groups \in SUBSET (Sections \cup Metered)
           /\ sweep[p].node \in Sections \cup Metered \cup {None} /\ sweep[p].report \in Reports \cup {None}
           /\ sweep[p].found \in 0 .. MaxCases /\ sweep[p].todo \in SUBSET O!Cases
           /\ MaxCases \in Nat /\ O!Cases = 1 .. MaxCases
           /\ SectionOf \in [Metered -> Sections \cup Metered] /\ None \notin Metered \cup Sections
<1>1. sweep \in [Sweepers -> SweepType] /\ SweepOK(p) /\ report \in [Reports -> ReportType]
      /\ case \in [O!Cases -> CaseType] /\ signal \in [Metered -> {"never", "out", "live"}]
  BY TypesAre DEF OutageInv, OutageTypes
<1>2. sweep[p] \in SweepType
  BY <1>1
<1> QED  BY <1>1, <1>2, TypesAre DEF SweepType

LEMMA ReadMetersKeeps ==
    ASSUME GridAssumption, OutageInv, NEW p \in Sweepers, O!ReadMeters(p)
    PROVE  OutageInv'
<1> DEFINE q == [sweep[p] EXCEPT !.pc = "reports", !.out = O!MetersOut]
<1>1. sweep' = [sweep EXCEPT ![p] = q] /\ sweep[p].pc = "meters"
      /\ UNCHANGED <<signal, case, report, changes, touches, alone>>
  BY DEF O!ReadMeters, O!To, O!At
<1>2. O!MetersOut \in SUBSET Metered
  BY DEF O!MetersOut
<1>3. q \in SweepType /\ q.pc = "reports" /\ q.todo = sweep[p].todo
  BY <1>2, SweepIs DEF SweepType, PCs
<1>4. sweep'[p] = q
  BY <1>1, TypesAre DEF OutageInv, OutageTypes
<1> HIDE DEF q
<1>5. SweepOK(p)'
  BY <1>1, <1>3, <1>4, SweepIs DEF SweepOK, Opened
<1> QED  BY <1>1, <1>3, <1>5, SweepIs, SweepMoves DEF O!Busy, O!At

LEMMA ReadReportsKeeps ==
    ASSUME GridAssumption, OutageInv, NEW p \in Sweepers, O!ReadReports(p)
    PROVE  OutageInv'
<1> DEFINE new == {r \in Reports : report[r].status = "NEW"}
           groups == O!Groups(sweep[p].out, new)
           q == [sweep[p] EXCEPT !.pc = "group", !.new = new, !.groups = groups]
<1>1. sweep' = [sweep EXCEPT ![p] = q] /\ sweep[p].pc = "reports"
      /\ UNCHANGED <<signal, case, report, changes, touches, alone>>
  BY DEF O!ReadReports, O!To, O!At
<1>2. groups \in SUBSET (Sections \cup Metered)
  <2>1. \A m \in sweep[p].out : SectionOf[m] \in Sections \cup Metered
    BY SweepIs
  <2>2. \A r \in new : report[r].node \in Sections \cup {None}
    BY SweepIs DEF ReportType
  <2> QED  BY <2>1, <2>2 DEF O!Groups
<1>3. new \in SUBSET Reports
  OBVIOUS
<1> HIDE DEF new, groups
<1>4. q \in SweepType /\ q.pc = "group" /\ q.todo = sweep[p].todo
  BY <1>2, <1>3, SweepIs DEF SweepType, PCs
<1>5. sweep'[p] = q
  BY <1>1, TypesAre DEF OutageInv, OutageTypes
<1> HIDE DEF q
<1>6. SweepOK(p)'
  BY <1>1, <1>4, <1>5, SweepIs DEF SweepOK, Opened
<1> QED  BY <1>1, <1>4, <1>6, SweepIs, SweepMoves DEF O!Busy, O!At

LEMMA NextGroupKeeps ==
    ASSUME GridAssumption, OutageInv, NEW p \in Sweepers, O!NextGroup(p)
    PROVE  OutageInv'
<1>1. sweep[p].pc = "group" /\ UNCHANGED <<signal, case, report, changes, touches, alone>>
  BY DEF O!NextGroup, O!At
<1>2. CASE sweep[p].groups = {}
  <2> DEFINE q == [sweep[p] EXCEPT !.pc = "link"]
  <2>1. sweep' = [sweep EXCEPT ![p] = q]
    BY <1>2 DEF O!NextGroup, O!Goto, O!To
  <2>2. q \in SweepType /\ q.pc = "link" /\ q.todo = sweep[p].todo
    BY SweepIs DEF SweepType, PCs
  <2>3. sweep'[p] = q
    BY <2>1, TypesAre DEF OutageInv, OutageTypes
  <2> HIDE DEF q
  <2>4. SweepOK(p)'
    BY <1>1, <2>2, <2>3, SweepIs DEF SweepOK, Opened
  <2> QED  BY <1>1, <2>1, <2>2, <2>4, SweepIs, SweepMoves DEF O!Busy, O!At
<1>3. CASE sweep[p].groups # {}
  <2>1. PICK n \in sweep[p].groups :
               sweep' = [sweep EXCEPT ![p] =
                           [sweep[p] EXCEPT !.pc = "upsert", !.groups = @ \ {n},
                               !.node = n, !.found = O!_open_case_for_node(n)]]
    BY <1>3 DEF O!NextGroup, O!To
  <2> DEFINE c == O!_open_case_for_node(n)
             q == [sweep[p] EXCEPT !.pc = "upsert", !.groups = sweep[p].groups \ {n}, !.node = n, !.found = c]
  <2>2. \/ c = 0 /\ \A d \in O!Cases : ~(O!IsOpen(d) /\ case[d].node = n)
        \/ c \in O!Cases /\ c # 0 /\ O!IsOpen(c)
    BY OpenCase
  <2>3. sweep' = [sweep EXCEPT ![p] = q]
    BY <2>1
  <2> HIDE DEF c
  <2>4. n \in Sections \cup Metered /\ n # None /\ c \in 0 .. MaxCases
    BY <2>2, SweepIs
  <2>5. q \in SweepType /\ q.pc = "upsert" /\ q.todo = sweep[p].todo /\ q.found = c /\ q.node = n
    BY <2>4, SweepIs DEF SweepType, PCs
  <2>6. sweep'[p] = q
    BY <2>3, TypesAre DEF OutageInv, OutageTypes
  <2> HIDE DEF q
  <2>7. c # 0 => Opened(c)
    BY <2>2 DEF O!IsOpen, O!OPEN_STATUSES, Opened
  <2>8. SweepOK(p)'
    BY <1>1, <2>4, <2>5, <2>6, <2>7, SweepIs DEF SweepOK, Opened
  <2>9. q.pc = "upsert" /\ q.found = 0 => AtMostOne(q.node, 0)
    BY <2>2, <2>5 DEF AtMostOne
  <2> QED  BY <1>1, <2>3, <2>5, <2>8, <2>9, SweepIs, SweepMoves DEF O!Busy, O!At
<1> QED  BY <1>2, <1>3

LEMMA UpsertKeeps ==
    ASSUME GridAssumption, OutageInv, NEW p \in Sweepers, O!Upsert(p)
    PROVE  OutageInv'
<1> DEFINE s == sweep[p]
<1>1. s.pc = "upsert" /\ UNCHANGED <<signal, report, changes, touches, alone>>
  BY DEF O!Upsert, O!At
<1>2. CASE s.found # 0
  <2> DEFINE q == [sweep[p] EXCEPT !.pc = "attach"]
  <2>1. sweep' = [sweep EXCEPT ![p] = q] /\ case' = case
    BY <1>2 DEF O!Upsert, O!Goto, O!To
  <2>2. q \in SweepType /\ q.pc = "attach" /\ q.todo = s.todo /\ q.found = s.found
    BY SweepIs DEF SweepType, PCs
  <2>3. sweep'[p] = q
    BY <2>1, TypesAre DEF OutageInv, OutageTypes
  <2> HIDE DEF q
  <2>4. s.found \in O!Cases /\ Opened(s.found)
    BY <1>1, <1>2, SweepIs DEF SweepOK
  <2>5. SweepOK(p)'
    BY <1>1, <2>1, <2>2, <2>3, <2>4, SweepIs DEF SweepOK, Opened
  <2> QED  BY <1>1, <2>1, <2>2, <2>5, SweepIs, SweepMoves DEF O!Busy, O!At
<1>3. CASE s.found = 0 /\ s.node \notin Sections
  <2>1. sweep' = [sweep EXCEPT ![p] = O!Off] /\ case' = case
    BY <1>3 DEF O!Upsert, O!To
  <2>2. sweep'[p] = O!Off
    BY <2>1, TypesAre DEF OutageInv, OutageTypes
  <2>3. SweepOK(p)'
    BY <2>2, OffIs DEF SweepOK
  <2> QED  BY <1>1, <2>1, <2>3, OffIs, SweepIs, SweepMoves DEF O!Busy, O!At
<1>4. CASE s.found = 0 /\ s.node \in Sections
  <2> DEFINE c == O!NewCase
             r == [status |-> "DETECTED", node |-> s.node, meters |-> {}]
             q == [s EXCEPT !.pc = "attach", !.found = c]
  <2>1. sweep' = [sweep EXCEPT ![p] = q] /\ c \in O!Cases /\ case' = [case EXCEPT ![c] = r]
    BY <1>4 DEF O!Upsert, O!To
  <2> HIDE DEF c
  <2>2. c \in 0 .. MaxCases
    BY <2>1, SweepIs
  <2>3. q \in SweepType /\ q.pc = "attach" /\ q.todo = s.todo /\ q.found = c
    BY <2>2, SweepIs DEF SweepType, PCs
  <2>4. r \in CaseType /\ r.status # "ABSENT" /\ r.node = s.node
    BY <1>4 DEF CaseType, O!Statuses
  <2>5. \A d \in q.todo : Opened(d)
    BY <2>3, SweepIs DEF SweepOK
  <2>6. alone => AtMostOne(r.node, c)
    BY <1>1, <1>4, <2>1, <2>4, TypesAre DEF OutageInv, AloneInv, AtMostOne
  <2> HIDE DEF q, r
  <2> QED  BY <1>1, <2>1, <2>3, <2>4, <2>5, <2>6, SweepWrites DEF O!Busy, O!At, c
<1> QED  BY <1>2, <1>3, <1>4

LEMMA AttachKeeps ==
    ASSUME GridAssumption, OutageInv, NEW p \in Sweepers, O!Attach(p)
    PROVE  OutageInv'
<1> DEFINE s == sweep[p]
           c == s.found
           meters == {m \in s.out : SectionOf[m] = s.node}
                       \cup {report[r].meter : r \in {z \in s.new : report[z].node = s.node}}
           r == [case[c] EXCEPT !.meters = case[c].meters \cup (meters \ {None})]
           q == [s EXCEPT !.pc = "group", !.node = None, !.found = 0]
<1>1. s.pc = "attach" /\ UNCHANGED <<signal, report, changes, touches, alone>>
      /\ sweep' = [sweep EXCEPT ![p] = q] /\ case' = [case EXCEPT ![c] = r]
  BY DEF O!Attach, O!At, O!To
<1>2. c \in O!Cases /\ Opened(c)
  BY <1>1, SweepIs DEF SweepOK
<1>3. meters \ {None} \in SUBSET Metered
  <2>1. \A x \in Reports : report[x].meter \in Metered \cup {None}
    BY SweepIs DEF ReportType
  <2> QED  BY <2>1, SweepIs
<1> HIDE DEF meters
<1>4. case[c] \in CaseType
  BY <1>2, SweepIs
<1>5. r \in CaseType /\ r.status = case[c].status /\ r.node = case[c].node
  BY <1>3, <1>4 DEF CaseType
<1>6. q \in SweepType /\ q.pc = "group" /\ q.todo = s.todo
  <2>1. s \in SweepType /\ 0 \in 0 .. MaxCases
    BY SweepIs
  <2> HIDE DEF s
  <2> QED  BY <2>1 DEF SweepType, PCs
<1>7. \A d \in q.todo : Opened(d)
  BY <1>6, SweepIs DEF SweepOK
<1>8. alone /\ r.status \in O!OPEN_STATUSES => AtMostOne(r.node, c)
  BY <1>2, <1>5 DEF OutageInv, AloneInv, O!IsOpen
<1>9. r.status # "ABSENT"
  BY <1>2, <1>5 DEF Opened
<1> HIDE DEF q, r
<1> QED  BY <1>1, <1>2, <1>5, <1>6, <1>7, <1>8, <1>9, SweepWrites DEF O!Busy, O!At

LEMMA NextReportKeeps ==
    ASSUME GridAssumption, OutageInv, NEW p \in Sweepers, O!NextReport(p)
    PROVE  OutageInv'
<1>1. sweep[p].pc = "link" /\ UNCHANGED <<signal, case, report, changes, touches, alone>>
  BY DEF O!NextReport, O!At
<1>2. CASE sweep[p].new = {}
  <2> DEFINE q == [sweep[p] EXCEPT !.pc = "list"]
  <2>1. sweep' = [sweep EXCEPT ![p] = q]
    BY <1>2 DEF O!NextReport, O!Goto, O!To
  <2>2. q \in SweepType /\ q.pc = "list" /\ q.todo = sweep[p].todo
    BY SweepIs DEF SweepType, PCs
  <2>3. sweep'[p] = q
    BY <2>1, TypesAre DEF OutageInv, OutageTypes
  <2> HIDE DEF q
  <2>4. SweepOK(p)'
    BY <1>1, <2>2, <2>3, SweepIs DEF SweepOK, Opened
  <2> QED  BY <1>1, <2>1, <2>2, <2>4, SweepIs, SweepMoves DEF O!Busy, O!At
<1>3. CASE sweep[p].new # {}
  <2> DEFINE c(x) == IF report[x].node = None THEN 0 ELSE O!_open_case_for_node(report[x].node)
  <2>1. PICK r \in sweep[p].new :
               sweep' = [sweep EXCEPT ![p] =
                           [sweep[p] EXCEPT !.new = @ \ {r},
                               !.pc = IF c(r) = 0 THEN "link" ELSE "mark",
                               !.report = IF c(r) = 0 THEN None ELSE r, !.found = c(r),
                               !.todo = IF c(r) # 0 /\ case[c(r)].status = "DETECTED" THEN {c(r)} ELSE {}]]
    BY <1>3 DEF O!NextReport, O!To
  <2> DEFINE k == c(r)
             todo == IF k # 0 /\ case[k].status = "DETECTED" THEN {k} ELSE {}
             pc == IF k = 0 THEN "link" ELSE "mark"
             rep == IF k = 0 THEN None ELSE r
             q == [sweep[p] EXCEPT !.new = sweep[p].new \ {r}, !.pc = pc, !.report = rep, !.found = k, !.todo = todo]
  <2>2. sweep' = [sweep EXCEPT ![p] = q]
    BY <2>1
  <2>3. k = 0 \/ (k \in O!Cases /\ k # 0 /\ O!IsOpen(k))
    BY OpenCase
  <2> HIDE DEF c, k
  <2>4. k \in 0 .. MaxCases /\ (k # 0 => k \in O!Cases /\ Opened(k) /\ O!IsOpen(k))
    BY <2>3, SweepIs DEF O!IsOpen, O!OPEN_STATUSES, Opened
  <2>5. r \in Reports /\ sweep[p].new \ {r} \in SUBSET Reports
    BY SweepIs
  <2>6. todo \in SUBSET O!Cases /\ \A d \in todo : Opened(d)
    BY <2>4
  <2>7. pc \in {"link", "mark"} /\ (pc = "mark" <=> k # 0) /\ rep \in Reports \cup {None} /\ (pc = "mark" => rep = r)
    BY <2>5
  <2> HIDE DEF todo, pc, rep
  <2>8. q \in SweepType /\ q.pc = pc /\ q.todo = todo /\ q.found = k /\ q.report = rep
    BY <2>4, <2>5, <2>6, <2>7, SweepIs DEF SweepType, PCs
  <2>9. sweep'[p] = q
    BY <2>2, TypesAre DEF OutageInv, OutageTypes
  <2> HIDE DEF q
  <2>10. SweepOK(p)'
    BY <1>1, <2>4, <2>5, <2>6, <2>7, <2>8, <2>9 DEF SweepOK, Opened
  <2>11. alone /\ q.pc \in {"mark", "confirm"} => AtMostOne(case[q.found].node, q.found)
    BY <2>4, <2>7, <2>8 DEF OutageInv, AloneInv
  <2>12. q.pc # "upsert"
    BY <2>7, <2>8
  <2> QED  BY <1>1, <2>2, <2>8, <2>10, <2>11, <2>12, SweepIs, SweepMoves DEF O!Busy, O!At
<1> QED  BY <1>2, <1>3

LEMMA MarkLinkedKeeps ==
    ASSUME GridAssumption, OutageInv, NEW p \in Sweepers, O!MarkLinked(p)
    PROVE  OutageInv'
<1> DEFINE s == sweep[p]
           pc == IF s.todo = {} THEN "link" ELSE "confirm"
           found == IF s.todo = {} THEN 0 ELSE s.found
           q == [s EXCEPT !.report = None, !.pc = pc, !.found = found]
<1>1. s.pc = "mark" /\ UNCHANGED <<signal, case, changes, touches, alone>>
  BY DEF O!MarkLinked, O!At
<1>2. sweep' = [sweep EXCEPT ![p] = q]
  BY DEF O!MarkLinked, O!To
<1>3. report' = [report EXCEPT ![s.report].status = "LINKED", ![s.report].case = s.found]
  BY DEF O!MarkLinked
<1>4. s.report \in Reports /\ s.found \in O!Cases /\ Opened(s.found)
  BY <1>1, SweepIs DEF SweepOK
<1>5. report' \in [Reports -> ReportType]
  <2> DEFINE x == s.report
             one == [report[x] EXCEPT !.status = "LINKED"]
             two == [one EXCEPT !.case = s.found]
  <2>1. report[x] \in ReportType /\ s.found \in 0 .. MaxCases
    BY <1>4, SweepIs
  <2>2. report' = [report EXCEPT ![x] = two]
    <3>1. report' = [[report EXCEPT ![x] = one] EXCEPT ![x].case = s.found]
      BY <1>3
    <3>2. [report EXCEPT ![x] = one][x] = one
      BY <1>4, SweepIs
    <3> HIDE DEF one, x
    <3> QED  BY <1>4, <3>1, <3>2, SweepIs DEF x
  <2> HIDE DEF s, x
  <2>3. one \in ReportType
    BY <2>1 DEF ReportType
  <2> HIDE DEF one
  <2>4. two \in ReportType
    BY <2>1, <2>3 DEF ReportType
  <2> HIDE DEF two
  <2> QED  BY <2>2, <2>4, SweepIs
<1>6. pc \in {"link", "confirm"} /\ found \in 0 .. MaxCases /\ (pc = "confirm" => found = s.found)
  BY SweepIs
<1> HIDE DEF pc, found
<1>7. q \in SweepType /\ q.pc = pc /\ q.todo = s.todo /\ q.found = found
  BY <1>6, SweepIs DEF SweepType, PCs
<1>8. sweep'[p] = q
  BY <1>2, TypesAre DEF OutageInv, OutageTypes
<1> HIDE DEF q
<1>9. SweepOK(p)'
  BY <1>1, <1>4, <1>6, <1>7, <1>8, SweepIs DEF SweepOK, Opened
<1>10. alone /\ q.pc \in {"mark", "confirm"} => AtMostOne(case[q.found].node, q.found)
  BY <1>1, <1>6, <1>7 DEF OutageInv, AloneInv
<1> QED  BY <1>1, <1>2, <1>5, <1>6, <1>7, <1>9, <1>10, SweepIs, SweepMoves DEF O!Busy, O!At

LEMMA ConfirmKeeps ==
    ASSUME GridAssumption, OutageInv, NEW p \in Sweepers, O!Confirm(p)
    PROVE  OutageInv'
<1> DEFINE s == sweep[p]
           c == s.found
           r == [case[c] EXCEPT !.status = "CONFIRMED"]
           q == [s EXCEPT !.pc = "link", !.found = 0, !.todo = {}]
<1>1. s.pc = "confirm" /\ UNCHANGED <<signal, report, changes, touches, alone>>
      /\ sweep' = [sweep EXCEPT ![p] = q] /\ case' = [case EXCEPT ![c] = r]
  BY DEF O!Confirm, O!At, O!To
<1>2. c \in O!Cases /\ Opened(c)
  BY <1>1, SweepIs DEF SweepOK
<1>3. case[c] \in CaseType
  BY <1>2, SweepIs
<1>4. r \in CaseType /\ r.status = "CONFIRMED" /\ r.node = case[c].node
  BY <1>3 DEF CaseType, O!Statuses
<1>5. q \in SweepType /\ q.pc = "link" /\ q.todo = {}
  <2>1. s \in SweepType /\ 0 \in 0 .. MaxCases
    BY SweepIs
  <2> HIDE DEF s
  <2> QED  BY <2>1 DEF SweepType, PCs
<1>6. alone => AtMostOne(r.node, c)
  BY <1>1, <1>4 DEF OutageInv, AloneInv
<1> HIDE DEF q, r
<1> QED  BY <1>1, <1>2, <1>4, <1>5, <1>6, SweepWrites DEF O!Busy, O!At

LEMMA ListOpenKeeps ==
    ASSUME GridAssumption, OutageInv, NEW p \in Sweepers, O!ListOpen(p)
    PROVE  OutageInv'
<1> DEFINE todo == {c \in O!Cases : O!IsOpen(c)}
           q == [O!Off EXCEPT !.pc = "check", !.todo = todo]
<1>1. sweep' = [sweep EXCEPT ![p] = q] /\ sweep[p].pc = "list"
      /\ UNCHANGED <<signal, case, report, changes, touches, alone>>
  BY DEF O!ListOpen, O!To, O!At
<1>2. todo \in SUBSET O!Cases /\ \A d \in todo : Opened(d)
  BY DEF O!IsOpen, O!OPEN_STATUSES, Opened
<1> HIDE DEF todo
<1>3. q \in SweepType /\ q.pc = "check" /\ q.todo = todo
  BY <1>2, OffIs DEF SweepType, PCs
<1>4. sweep'[p] = q
  BY <1>1, TypesAre DEF OutageInv, OutageTypes
<1> HIDE DEF q
<1>5. SweepOK(p)'
  BY <1>1, <1>2, <1>3, <1>4 DEF SweepOK, Opened
<1> QED  BY <1>1, <1>3, <1>5, SweepIs, SweepMoves DEF O!Busy, O!At

LEMMA CheckNextKeeps ==
    ASSUME GridAssumption, OutageInv, NEW p \in Sweepers, O!CheckNext(p)
    PROVE  OutageInv'
<1>1. sweep[p].pc = "check" /\ UNCHANGED <<signal, case, report, changes, touches, alone>>
  BY DEF O!CheckNext, O!At
<1>2. CASE sweep[p].todo = {}
  <2>1. sweep' = [sweep EXCEPT ![p] = O!Off]
    BY <1>2 DEF O!CheckNext, O!To
  <2>2. sweep'[p] = O!Off
    BY <2>1, TypesAre DEF OutageInv, OutageTypes
  <2>3. SweepOK(p)'
    BY <2>2, OffIs DEF SweepOK
  <2> QED  BY <1>1, <2>1, <2>3, OffIs, SweepIs, SweepMoves DEF O!Busy, O!At
<1>3. CASE sweep[p].todo # {}
  <2>1. PICK c \in sweep[p].todo :
               sweep' = [sweep EXCEPT ![p] =
                           [sweep[p] EXCEPT !.todo = @ \ {c}, !.found = c,
                               !.pc = IF O!AllBack(c) THEN "restore" ELSE "check"]]
    BY <1>3 DEF O!CheckNext, O!To
  <2> DEFINE pc == IF O!AllBack(c) THEN "restore" ELSE "check"
             q == [sweep[p] EXCEPT !.todo = sweep[p].todo \ {c}, !.found = c, !.pc = pc]
  <2>2. sweep' = [sweep EXCEPT ![p] = q]
    BY <2>1
  <2>3. c \in O!Cases /\ Opened(c) /\ c \in 0 .. MaxCases
    BY SweepIs DEF SweepOK
  <2>4. pc \in {"restore", "check"}
    OBVIOUS
  <2> HIDE DEF pc
  <2>5. q \in SweepType /\ q.pc = pc /\ q.todo = sweep[p].todo \ {c} /\ q.found = c
    BY <2>3, <2>4, SweepIs DEF SweepType, PCs
  <2>6. sweep'[p] = q
    BY <2>2, TypesAre DEF OutageInv, OutageTypes
  <2> HIDE DEF q
  <2>7. SweepOK(p)'
    BY <1>1, <2>3, <2>4, <2>5, <2>6, SweepIs DEF SweepOK, Opened
  <2> QED  BY <1>1, <2>2, <2>4, <2>5, <2>7, SweepIs, SweepMoves DEF O!Busy, O!At
<1> QED  BY <1>2, <1>3

LEMMA RestoreKeeps ==
    ASSUME GridAssumption, OutageInv, NEW p \in Sweepers, O!Restore(p)
    PROVE  OutageInv'
<1> DEFINE s == sweep[p]
           c == s.found
           r == [case[c] EXCEPT !.status = "RESTORED"]
           q == [s EXCEPT !.pc = "check"]
<1>1. s.pc = "restore" /\ UNCHANGED <<signal, report, changes, touches, alone>>
      /\ sweep' = [sweep EXCEPT ![p] = q] /\ case' = [case EXCEPT ![c] = r]
  BY DEF O!Restore, O!At, O!To, O!Goto
<1>2. c \in O!Cases /\ Opened(c)
  BY <1>1, SweepIs DEF SweepOK
<1>3. case[c] \in CaseType
  BY <1>2, SweepIs
<1>4. r \in CaseType /\ r.status = "RESTORED"
  BY <1>3 DEF CaseType, O!Statuses
<1>5. q \in SweepType /\ q.pc = "check" /\ q.todo = s.todo
  BY SweepIs DEF SweepType, PCs
<1>6. \A d \in q.todo : Opened(d)
  BY <1>5, SweepIs DEF SweepOK
<1>7. r.status # "ABSENT" /\ r.status \notin O!OPEN_STATUSES
  BY <1>4 DEF O!OPEN_STATUSES
<1> HIDE DEF q, r
<1> QED  BY <1>1, <1>2, <1>4, <1>5, <1>6, <1>7, SweepWrites DEF O!Busy, O!At

\* A sweep that begins knows nothing yet.
LEMMA SweepStarts ==
    ASSUME GridAssumption, OutageInv, NEW p \in Sweepers,
           sweep' = [sweep EXCEPT ![p] = [O!Off EXCEPT !.pc = "meters"]],
           alone' = (alone /\ \A x \in Sweepers : O!At(x, "off")),
           UNCHANGED <<signal, case, changes>>,
           touches' \in 0 .. MaxTouches, report' \in [Reports -> ReportType]
    PROVE  OutageInv'
<1> DEFINE q == [O!Off EXCEPT !.pc = "meters"]
<1>1. q \in SweepType /\ q.pc = "meters" /\ q.todo = {}
  BY OffIs DEF SweepType, PCs
<1> HIDE DEF q
<1>2. sweep' \in [Sweepers -> SweepType] /\ sweep'[p] = q /\ \A x \in Sweepers : x # p => sweep'[x] = sweep[x]
  <2>1. sweep \in [Sweepers -> SweepType] /\ sweep' = [sweep EXCEPT ![p] = q]
    BY TypesAre DEF OutageInv, OutageTypes, q
  <2> QED  BY <1>1, <2>1
<1>3. alone' \in BOOLEAN /\ (alone' => alone /\ \A x \in Sweepers : O!At(x, "off"))
  BY DEF OutageInv, OutageTypes, O!TypeOK
<1>4. O!TypeOK'
  BY <1>2, <1>3, TypesAre DEF OutageInv, OutageTypes, O!TypeOK, CaseType, ReportType, SweepType, PCs, O!Cases
<1>5. RowsInOrder'
  BY DEF OutageInv, OutageTypes, RowsInOrder, Opened
<1>6. ASSUME NEW x \in Sweepers PROVE SweepOK(x)'
  BY <1>1, <1>2 DEF OutageInv, OutageTypes, SweepOK, Opened
<1>7. AloneInv'
  <2>1. \A x \in Sweepers : alone' => alone /\ (x # p => sweep'[x].pc = "off")
    BY <1>2, <1>3 DEF O!At
  <2> QED  BY <1>1, <1>2, <2>1 DEF OutageInv, AloneInv, AtMostOne, O!IsOpen, O!Busy, O!At
<1> QED  BY <1>4, <1>5, <1>6, <1>7 DEF OutageInv, OutageTypes

LEMMA DetectorCallsKeeps ==
    ASSUME GridAssumption, OutageInv, O!DetectorCalls
    PROVE  OutageInv'
<1>1. Detector \in Sweepers /\ touches \in 0 .. MaxTouches /\ report \in [Reports -> ReportType]
  BY TypesAre DEF OutageInv, OutageTypes
<1> QED  BY <1>1, SweepStarts DEF O!DetectorCalls, O!To

LEMMA CallKeeps ==
    ASSUME GridAssumption, OutageInv, NEW p \in Sweepers, NEW r \in Reports, NEW meter \in Metered \cup {None},
           NEW node \in Sections \cup {None}, O!Call(p, r, meter, node)
    PROVE  OutageInv'
<1> DEFINE new == [status |-> "NEW", node |-> node, meter |-> meter, case |-> 0]
<1>1. touches' \in 0 .. MaxTouches
  BY TypesAre DEF OutageInv, OutageTypes, O!Call, O!Touch
<1>2. report' = [report EXCEPT ![r] = new]
  BY DEF O!Call
<1>3. new \in ReportType
  BY TypesAre DEF ReportType
<1> HIDE DEF new
<1>4. report' \in [Reports -> ReportType]
  BY <1>2, <1>3, TypesAre DEF OutageInv, OutageTypes
<1> QED  BY <1>1, <1>4, SweepStarts DEF O!Call, O!To

LEMMA MeterChangesKeeps ==
    ASSUME GridAssumption, OutageInv, NEW m \in Metered, O!MeterChanges(m)
    PROVE  OutageInv'
<1>1. signal' \in [Metered -> {"never", "out", "live"}] /\ changes' \in 0 .. MaxChanges
  BY TypesAre DEF OutageInv, OutageTypes, O!MeterChanges
<1>2. UNCHANGED <<case, report, sweep, touches, alone>>
  BY DEF O!MeterChanges
<1>3. O!TypeOK'
  BY <1>1, <1>2 DEF OutageInv, OutageTypes, O!TypeOK, O!Cases
<1> QED  BY <1>2, <1>3 DEF OutageInv, OutageTypes, RowsInOrder, SweepOK, AloneInv, AtMostOne, Opened, O!IsOpen, O!Busy, O!At

\* A row that a person writes leaves the sweeps as they are.
LEMMA SweepsStay ==
    ASSUME GridAssumption, OutageInv, NEW c \in O!Cases, NEW r \in CaseType, r.status # "ABSENT",
           case' = [case EXCEPT ![c] = r], Opened(c) \/ c = O!NewCase,
           UNCHANGED <<signal, report, sweep, changes>>, touches' \in 0 .. MaxTouches, alone' \in BOOLEAN
    PROVE  OutageTypes'
<1>0. OutageTypes
  BY DEF OutageInv
<1>1. /\ case' \in [O!Cases -> CaseType] /\ RowsInOrder'
      /\ \A d \in O!Cases : Opened(d) => case'[d].status # "ABSENT"
  BY <1>0, RowWritten
<1>2. O!TypeOK'
  BY <1>0, <1>1, TypesAre DEF OutageTypes, O!TypeOK, CaseType, O!Cases
<1>3. ASSUME NEW x \in Sweepers PROVE SweepOK(x)'
  <2>1. sweep[x].found # 0 => sweep[x].found \in O!Cases
    BY SweepIs
  <2>2. \A d \in sweep[x].todo : case'[d].status # "ABSENT"
    BY <1>1, SweepIs DEF SweepOK
  <2>3. SweepOK(x)
    BY SweepIs
  <2> QED  BY <1>1, <2>1, <2>2, <2>3 DEF SweepOK, Opened
<1> QED  BY <1>1, <1>2, <1>3 DEF OutageTypes

LEMMA CreateCaseKeeps ==
    ASSUME GridAssumption, OutageInv, NEW node \in Sections, O!CreateCase(node)
    PROVE  OutageInv'
<1> DEFINE c == O!NewCase
           r == [status |-> "CONFIRMED", node |-> node, meters |-> {}]
<1>1. c \in O!Cases /\ case' = [case EXCEPT ![c] = r] /\ alone' = FALSE /\ UNCHANGED <<signal, report, sweep, changes>>
  BY DEF O!CreateCase
<1>2. touches' \in 0 .. MaxTouches
  BY TypesAre DEF OutageInv, OutageTypes, O!CreateCase, O!Touch
<1>3. r \in CaseType /\ r.status # "ABSENT"
  BY DEF CaseType, O!Statuses
<1> HIDE DEF r
<1>4. OutageTypes'
  BY <1>1, <1>2, <1>3, SweepsStay
<1>5. AloneInv'
  BY <1>1 DEF AloneInv
<1> QED  BY <1>4, <1>5 DEF OutageInv

LEMMA UpdateCaseKeeps ==
    ASSUME GridAssumption, OutageInv, NEW c \in O!Cases, NEW status \in O!Statuses, O!UpdateCase(c, status)
    PROVE  OutageInv'
<1> DEFINE r == [case[c] EXCEPT !.status = status]
<1>1. /\ Opened(c) /\ case' = [case EXCEPT ![c] = r] /\ UNCHANGED <<signal, report, sweep, changes>>
      /\ alone' = (alone /\ (status \in O!OPEN_STATUSES => O!IsOpen(c)))
  BY DEF O!UpdateCase, Opened
<1>2. touches' \in 0 .. MaxTouches
  BY TypesAre DEF OutageInv, OutageTypes, O!UpdateCase, O!Touch
<1>3. case \in [O!Cases -> CaseType] /\ case[c] \in CaseType
  BY TypesAre DEF OutageInv, OutageTypes
<1>4. r \in CaseType /\ r.status = status /\ r.node = case[c].node /\ status # "ABSENT"
  BY <1>3 DEF CaseType, O!Statuses
<1>5. alone' \in BOOLEAN
  BY <1>1 DEF OutageInv, OutageTypes, O!TypeOK
<1> HIDE DEF r
<1>6. OutageTypes'
  BY <1>1, <1>2, <1>4, <1>5, SweepsStay
<1>7. ASSUME alone' PROVE AloneInv'
  <2>1. alone /\ AloneInv /\ (status \in O!OPEN_STATUSES => O!IsOpen(c))
    BY <1>1, <1>7 DEF OutageInv
  <2>2. case' \in [O!Cases -> CaseType]
        /\ \A d \in O!Cases : case'[d].node = case[d].node /\ (case'[d].status \in O!OPEN_STATUSES => O!IsOpen(d))
    BY <1>1, <1>3, <1>4, <2>1 DEF O!IsOpen
  <2>3. (\A x, y \in Sweepers : O!Busy(x) /\ O!Busy(y) => x = y)'
    BY <1>1, <2>1 DEF AloneInv, O!Busy, O!At
  <2>4. (\A d \in O!Cases : O!IsOpen(d) => AtMostOne(case[d].node, d))'
    BY <2>1, <2>2 DEF AloneInv, AtMostOne, O!IsOpen
  <2>5. (\A x \in Sweepers : sweep[x].pc = "upsert" /\ sweep[x].found = 0 => AtMostOne(sweep[x].node, 0))'
    BY <1>1, <2>1, <2>2 DEF AloneInv, AtMostOne, O!IsOpen
  <2>6. ASSUME NEW x \in Sweepers, sweep'[x].pc \in {"mark", "confirm"}
        PROVE  AtMostOne(case[sweep[x].found].node, sweep[x].found)'
    <3>1. sweep' = sweep /\ sweep[x].found \in O!Cases
      BY <1>1, <2>6, SweepIs DEF SweepOK
    <3>2. AtMostOne(case[sweep[x].found].node, sweep[x].found)
      BY <2>1, <2>6, <3>1 DEF AloneInv
    <3> QED  BY <2>2, <3>1, <3>2 DEF AtMostOne, O!IsOpen
  <2> QED  BY <2>3, <2>4, <2>5, <2>6 DEF AloneInv
<1>8. ~alone' => AloneInv'
  BY DEF AloneInv
<1> QED  BY <1>6, <1>7, <1>8 DEF OutageInv

LEMMA OutageStep ==
    ASSUME GridAssumption, OutageInv, [O!Next]_outages
    PROVE  OutageInv'
<1>1. CASE UNCHANGED outages
  <2>1. UNCHANGED <<signal, case, report, sweep, changes, touches, alone>>
    BY <1>1 DEF outages
  <2>2. O!TypeOK'
    BY <2>1 DEF OutageInv, OutageTypes, O!TypeOK, O!Cases
  <2> QED  BY <2>1, <2>2
           DEF OutageInv, OutageTypes, RowsInOrder, SweepOK, AloneInv, AtMostOne, Opened, O!IsOpen, O!Busy, O!At
<1>2. ASSUME NEW p \in Sweepers, O!SweepStep(p) PROVE OutageInv'
  BY <1>2, ReadMetersKeeps, ReadReportsKeeps, NextGroupKeeps, UpsertKeeps, AttachKeeps, NextReportKeeps,
     MarkLinkedKeeps, ConfirmKeeps, ListOpenKeeps, CheckNextKeeps, RestoreKeeps DEF O!SweepStep
<1>3. ASSUME NEW p \in Sweepers, NEW r \in Reports, NEW meter \in Metered \cup {None},
             NEW node \in Sections \cup {None}, O!Call(p, r, meter, node)
      PROVE  OutageInv'
  BY <1>3, CallKeeps
<1>4. ASSUME NEW c \in O!Cases, NEW status \in O!Statuses, O!UpdateCase(c, status) PROVE OutageInv'
  BY <1>4, UpdateCaseKeeps
<1>5. ASSUME NEW node \in Sections, O!CreateCase(node) PROVE OutageInv'
  BY <1>5, CreateCaseKeeps
<1>6. ASSUME NEW m \in Metered, O!MeterChanges(m) PROVE OutageInv'
  BY <1>6, MeterChangesKeeps
<1> QED  BY <1>1, <1>2, <1>3, <1>4, <1>5, <1>6, DetectorCallsKeeps DEF O!Next

(* What the sweeps know of the cases they have in hand, and what the one that *)
(* is alone has read of the open ones.                                        *)
THEOREM OutageInvariance == Spec => []OutageInv
<1>1. Init => OutageInv
  <2> SUFFICES ASSUME Init PROVE OutageInv
    OBVIOUS
  <2>1. /\ signal \in [Metered -> {"never", "live"}] /\ case = [c \in O!Cases |-> O!NoCase]
        /\ report = [r \in Reports |-> O!NoReport] /\ sweep = [p \in Sweepers |-> O!Off]
        /\ changes = 0 /\ touches = 0 /\ alone = TRUE
    BY DEF Init, O!Init
  <2>2. O!NoCase \in CaseType /\ O!NoCase.status = "ABSENT"
    BY DEF O!NoCase, CaseType
  <2>3. O!NoReport \in ReportType
    BY GridAssumption, TypesAre DEF O!NoReport, ReportType
  <2>4. O!TypeOK
    BY <2>1, <2>2, <2>3, GridAssumption, TypesAre, OffIs
  <2>5. MaxCases \in Nat /\ O!Cases = 1 .. MaxCases
    BY GridAssumption, TypesAre
  <2>6. \A c \in O!Cases : ~Opened(c) /\ ~(c <= 0)
    BY <2>1, <2>2, <2>5 DEF Opened
  <2>7. RowsInOrder
    BY <2>5, <2>6 DEF RowsInOrder
  <2>8. \A p \in Sweepers : sweep[p].pc = "off" /\ sweep[p].todo = {}
    BY <2>1, GridAssumption, OffIs
  <2>9. \A p \in Sweepers : SweepOK(p)
    BY <2>8 DEF SweepOK
  <2>10. \A c \in O!Cases : ~O!IsOpen(c)
    BY <2>6 DEF O!IsOpen, O!OPEN_STATUSES, Opened
  <2>11. AloneInv
    BY <2>8, <2>10 DEF AloneInv, AtMostOne, O!Busy, O!At
  <2> QED  BY <2>4, <2>7, <2>9, <2>11 DEF OutageInv, OutageTypes
<1>2. OutageInv /\ [Next]_<<part, network, analysis, outages>> => OutageInv'
  BY GridAssumption, OutageStep DEF Next, Network, Analysis, Outages
<1> QED  BY <1>1, <1>2, PTL DEF Spec

(* However many sweeps, calls and updates there are: as long as no sweep met  *)
(* another and no person opened a case, no section has two open cases.        *)
THEOREM OneCasePerSectionHolds == Spec => []OneCasePerSection
<1>1. ASSUME OutageInv PROVE OneCasePerSection
  <2>1. O!TypeOK
    BY <1>1 DEF OutageInv, OutageTypes
  <2>2. ASSUME alone, NEW n \in Sections PROVE O!Cardinality(O!OpenFor(n)) <= 1
    <3> DEFINE open == O!OpenFor(n)
    <3>1. \A c, d \in open : c = d
      BY <1>1, <2>2 DEF OutageInv, AloneInv, AtMostOne, O!OpenFor
    <3>2. CASE open = {}
      <4>1. Cardinality(open) = 0
        BY <3>2, FS_EmptySet
      <4> QED  BY <4>1, CountIs
    <3>3. CASE open # {}
      <4>1. PICK c : open = {c}
        BY <3>1, <3>3
      <4>2. Cardinality(open) = 1
        BY <4>1, FS_Singleton
      <4> QED  BY <4>2, CountIs
    <3> QED  BY <3>2, <3>3
  <2> QED  BY <2>1, <2>2 DEF OneCasePerSection, O!OneCasePerSection
<1> QED  BY <1>1, OutageInvariance, PTL

=============================================================================
