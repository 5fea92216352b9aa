-------------------------- MODULE Workspace_proofs --------------------------
(***************************************************************************)
(* Proofs about what fills the workspace.  Acquisition: a fetch talks to   *)
(* public addresses only, all fetches of a run keep to the budget and to   *)
(* the reserve of the disk, and what makepkg finds after a run is what was *)
(* declared and fetched; first comes what the fold in ParseSrcinfoSources  *)
(* returns, for every declaration.  WorkspaceMonitor: for any directories, *)
(* whatever they hold and whatever the limit, a walk in a tree that keeps  *)
(* still is exact, and no directory falls out of sight of the watches;     *)
(* first comes what the sum over a set is, in whatever order of the walk.  *)
(***************************************************************************)
EXTENDS Acquisition, WorkspaceMonitor, WellFoundedInduction, FiniteSetTheorems,
        SequenceTheorems, TLAPS


----------------------------------------------------------------------------
(* What is frozen.                                                         *)

\* What an induction over data rests on here: a set of numbers has a least one.
LEMMA LeastNat ==
  ASSUME NEW T \in SUBSET Nat, T # {}
  PROVE  \E m \in T : \A k \in T : m <= k
<1>1. \E m \in T : \A k \in T : <<k, m>> \notin OpToRel(<, Nat)
  BY WFMin, NatLessThanWellFounded
<1>2. PICK m \in T : \A k \in T : <<k, m>> \notin OpToRel(<, Nat)
  BY <1>1
<1>3. ASSUME NEW k \in T PROVE m <= k
  <2>1. k \in Nat /\ m \in Nat /\ <<k, m>> \notin OpToRel(<, Nat)
    BY <1>2
  <2>2. k < m => <<k, m>> \in OpToRel(<, Nat)
    BY <2>1 DEF OpToRel
  <2>3. ~ (k < m)
    BY <2>1, <2>2, Zenon
  <2>4. k \in Nat /\ m \in Nat
    OBVIOUS
  <2>. QED
    BY <2>3, <2>4
<1>. QED
  BY <1>3

\* The element above all others is what Max finds.
LEMMA MaxIs ==
  ASSUME NEW S \in SUBSET Int, NEW m \in S, \A x \in S : x <= m
  PROVE  Max(S) = m
<1>1. \E x \in S : \A y \in S : x >= y
  OBVIOUS
<1>2. Max(S) \in S /\ \A y \in S : Max(S) >= y
  BY <1>1, Zenon DEF Max
<1>3. m \in Int /\ Max(S) \in Int /\ Max(S) <= m /\ m <= Max(S)
  BY <1>2
<1>. QED
  BY <1>3

\* h is the function MapThenFoldSet recurs on when it folds a sequence of length n
\* from the left: the value of a set of positions is that of the set without its last.
FoldsTo(n, V, base, step, h) ==
  /\ h \in [SUBSET (1 .. n) -> V]
  /\ \A s \in SUBSET (1 .. n) :
       h[s] = IF s = {} THEN base ELSE step[<<h[s \ {Max(s)}], Max(s)>>]

\* There is such a function, so that a left fold is what its recursion says: the
\* least length for which there is none leads to a contradiction.
LEMMA FoldExists ==
  ASSUME NEW n \in Nat, NEW V, NEW base \in V, NEW step \in [V \X (1 .. n) -> V]
  PROVE  \E h : FoldsTo(n, V, base, step, h)
<1>. DEFINE Folds(h, k) ==
       \A s \in SUBSET (1 .. k) :
          h[s] = IF s = {} THEN base ELSE step[<<h[s \ {Max(s)}], Max(s)>>]
     Bad == {k \in 0 .. n : ~ \E h \in [SUBSET (1 .. k) -> V] : Folds(h, k)}
<1>1. ASSUME NEW m \in Bad, \A k \in Bad : m <= k PROVE FALSE
  <2>1. CASE m = 0
    <3>. DEFINE h == [s \in SUBSET (1 .. 0) |-> base]
    <3>1. h \in [SUBSET (1 .. 0) -> V]
      OBVIOUS
    <3>2. \A s \in SUBSET (1 .. 0) : s = {}
      OBVIOUS
    <3>3. Folds(h, 0)
      BY <3>2
    <3>. QED
      BY <2>1, <3>1, <3>3
  <2>2. CASE m # 0
    <3>0. m \in 0 .. n
      OBVIOUS
    <3>a. m \in 1 .. n /\ m - 1 \in 0 .. n /\ m - 1 < m
      BY <2>2, <3>0
    <3>b. m - 1 \notin Bad
      <4>. HIDE DEF Bad
      <4>1. m - 1 \in Bad => m <= m - 1
        BY <1>1
      <4>2. m \in Int
        BY <3>0
      <4>. QED
        BY <4>1, <4>2
    <3>1. m \in 1 .. n /\ m - 1 \in 0 .. n /\ m - 1 \notin Bad
      BY <3>a, <3>b
    <3>2. PICK g \in [SUBSET (1 .. m - 1) -> V] : Folds(g, m - 1)
      BY <3>1
    <3>. DEFINE h == [s \in SUBSET (1 .. m) |->
                        IF m \in s THEN step[<<g[s \ {m}], m>>] ELSE g[s]]
    <3>. HIDE DEF Folds, Bad
    <3>3. \A s \in SUBSET (1 .. m) : s \ {m} \in SUBSET (1 .. m - 1)
      BY <3>1
    <3>4. \A s \in SUBSET (1 .. m) : m \notin s => s \in SUBSET (1 .. m - 1)
      BY <3>1
    <3>5. h \in [SUBSET (1 .. m) -> V]
      BY <3>1, <3>2, <3>3, <3>4
    <3>6. ASSUME NEW s \in SUBSET (1 .. m)
          PROVE  h[s] = IF s = {} THEN base ELSE step[<<h[s \ {Max(s)}], Max(s)>>]
      <4>1. CASE m \in s
        <5>1. Max(s) = m
          <6>1. s \in SUBSET Int /\ \A x \in s : x <= m
            BY <3>1
          <6>. QED
            BY <4>1, <6>1, MaxIs
        <5>2. h[s \ {m}] = g[s \ {m}]
          BY <3>3
        <5>. QED
          BY <4>1, <5>1, <5>2
      <4>2. CASE m \notin s
        <5>1. h[s] = g[s] /\ h[s \ {Max(s)}] = g[s \ {Max(s)}]
          BY <4>2, <3>4
        <5>2. g[s] = IF s = {} THEN base ELSE step[<<g[s \ {Max(s)}], Max(s)>>]
          BY <3>2, <3>4, <4>2 DEF Folds
        <5>. QED
          BY <5>1, <5>2
      <4>. QED
        BY <4>1, <4>2
    <3>7. Folds(h, m)
      BY <3>6 DEF Folds
    <3>8. m \notin Bad
      BY <3>5, <3>7 DEF Bad
    <3>. QED
      BY <1>1, <3>8
  <2>. QED
    BY <2>1, <2>2
<1>2. Bad = {}
  <2>1. Bad \in SUBSET Nat
    OBVIOUS
  <2>. QED
    BY <1>1, <2>1, LeastNat
<1>3. n \in 0 .. n
  OBVIOUS
<1>. HIDE DEF Folds
<1>4. PICK h \in [SUBSET (1 .. n) -> V] : Folds(h, n)
  BY <1>2, <1>3
<1>5. \A s \in SUBSET (1 .. n) :
         h[s] = IF s = {} THEN base ELSE step[<<h[s \ {Max(s)}], Max(s)>>]
  BY <1>4, Zenon DEF Folds
<1>6. FoldsTo(n, V, base, step, h)
  BY <1>4, <1>5, Zenon DEF FoldsTo
<1>. QED
  BY <1>6

\* Max of positions of a sequence is one of them, and the last.
LEMMA MaxExists ==
  ASSUME NEW n \in Nat, NEW S \in SUBSET (1 .. n), S # {}
  PROVE  Max(S) \in S /\ \A x \in S : x <= Max(S)
<1>. DEFINE T == {k \in Nat : \A x \in S : x <= k}
<1>1. n \in T
  OBVIOUS
<1>2. PICK m \in T : \A k \in T : m <= k
  <2>1. T \in SUBSET Nat /\ T # {}
    BY <1>1
  <2>. HIDE DEF T
  <2>. QED
    BY <2>1, LeastNat
<1>3. m \in S
  <2>1. SUFFICES ASSUME m \notin S PROVE FALSE
    OBVIOUS
  <2>2. \A x \in S : x \in Int /\ x <= m /\ x # m /\ x >= 1
    BY <2>1
  <2>3. m \in Nat /\ m # 0
    <3>1. PICK x \in S : TRUE
      OBVIOUS
    <3>. QED
      BY <2>2, <3>1
  <2>4. m - 1 \in T
    BY <2>2, <2>3
  <2>. QED
    BY <1>2, <2>3, <2>4
<1>. QED
  BY <1>3, MaxIs

\* An allowance is the whole declaration: what ParseSrcinfoSources returns is a
\* sequence of the declared sources, and none is missing.
LEMMA ParsedIsWhole ==
  ASSUME NEW d, d \in Seq(ToSet(d))
  PROVE  /\ ParseSrcinfoSources(d).sources \in Seq(ToSet(d))
         /\ ToSet(ParseSrcinfoSources(d).sources) = ToSet(d)
<1>. DEFINE n == Len(d)
            V == Seq(ToSet(d))
            Add(acc, s) == IF Contains(acc, s) THEN acc ELSE Append(acc, s)
            step == [x \in V \X (1 .. n) |-> Add(x[1], d[x[2]])]
            Iter(g) == g = [s \in SUBSET (DOMAIN d) |->
                              IF s = {} THEN <<>> ELSE Add(g[s \ {Max(s)}], d[Max(s)])]
            g == CHOOSE f : Iter(f)
<1>1. n \in Nat /\ DOMAIN d = 1 .. n /\ \A i \in 1 .. n : d[i] \in ToSet(d)
  BY LenProperties DEF ToSet
<1>2. step \in [V \X (1 .. n) -> V]
  <2>1. ASSUME NEW acc \in V, NEW i \in 1 .. n PROVE Add(acc, d[i]) \in V
    BY <1>1, AppendProperties
  <2>. HIDE DEF Add, V
  <2>. QED
    BY <2>1
<1>3. <<>> \in V
  OBVIOUS
<1>4. PICK h : FoldsTo(n, V, <<>>, step, h)
  <2>. HIDE DEF step, V, n
  <2>. QED
    BY <1>1, <1>2, <1>3, FoldExists
<1>5. Iter(h)
  <2>1. ASSUME NEW s \in SUBSET (1 .. n)
        PROVE  h[s] = IF s = {} THEN <<>> ELSE Add(h[s \ {Max(s)}], d[Max(s)])
    <3>1. CASE s = {}
      BY <1>4, <3>1 DEF FoldsTo
    <3>2. CASE s # {}
      <4>1. Max(s) \in 1 .. n
        BY <1>1, <3>2, MaxExists
      <4>2. h[s \ {Max(s)}] \in V
        BY <1>4 DEF FoldsTo
      <4>. HIDE DEF V, Add, n
      <4>. QED
        BY <1>4, <3>2, <4>1, <4>2 DEF FoldsTo
    <3>. QED
      BY <3>1, <3>2
  <2>. HIDE DEF Add, V
  <2>. QED
    BY <1>1, <1>4, <2>1 DEF FoldsTo
<1>6. Iter(g)
  <2>. HIDE DEF Iter
  <2>. QED
    BY <1>5, Zenon
<1>7. ParseSrcinfoSources(d).sources = g[DOMAIN d]
  BY Zenon DEF ParseSrcinfoSources, FoldLeft, MapThenFoldSet
<1>. DEFINE Good(k) == g[1 .. k] \in V /\ ToSet(g[1 .. k]) = {d[i] : i \in 1 .. k}
<1>8. Good(0)
  <2>1. g[1 .. 0] = <<>>
    <3>1. 1 .. 0 = {} /\ 1 .. 0 \in SUBSET (DOMAIN d)
      OBVIOUS
    <3>. HIDE DEF g, Add
    <3>. QED
      BY <3>1, <1>6
  <2>. HIDE DEF g
  <2>. QED
    BY <2>1 DEF ToSet
<1>9. ASSUME NEW k \in 1 .. n, Good(k - 1) PROVE Good(k)
  <2>. DEFINE before == g[1 .. k - 1]
              added == Add(before, d[k])
  <2>1. g[1 .. k] = added
    <3>0. n \in Nat /\ DOMAIN d = 1 .. n
      BY <1>1
    <3>. HIDE DEF n, g, Add
    <3>1. 1 .. k \in SUBSET (DOMAIN d) /\ 1 .. k # {} /\ (1 .. k) \ {k} = 1 .. k - 1
      BY <3>0
    <3>a. 1 .. k \in SUBSET Int /\ k \in 1 .. k /\ \A x \in 1 .. k : x <= k
      BY <3>0
    <3>2. Max(1 .. k) = k
      BY <3>a, MaxIs
    <3>. HIDE DEF g, Add
    <3>. QED
      BY <3>1, <3>2, <1>6
  <2>2. before \in V /\ ToSet(before) = {d[i] : i \in 1 .. k - 1}
    BY <1>9
  <2>3. d[k] \in ToSet(d)
    BY <1>1
  <2>. HIDE DEF g, before, n
  <2>4. added \in V /\ ToSet(added) = ToSet(before) \cup {d[k]}
    <3>1. CASE Contains(before, d[k])
      BY <3>1, <2>2, LenProperties DEF Contains, ToSet
    <3>2. CASE ~ Contains(before, d[k])
      <4>1. added = Append(before, d[k])
        BY <3>2
      <4>. QED
        <5>1. before \in Seq(ToSet(d)) /\ d[k] \in ToSet(d)
          BY <2>2, <2>3
        <5>2. /\ added \in Seq(ToSet(d)) /\ Len(added) = Len(before) + 1
              /\ \A i \in 1 .. Len(before) : added[i] = before[i]
              /\ added[Len(before) + 1] = d[k]
          BY <4>1, <5>1, AppendProperties
        <5>3. Len(before) \in Nat /\ DOMAIN before = 1 .. Len(before)
              /\ DOMAIN added = (1 .. Len(before)) \cup {Len(before) + 1}
          BY <5>1, <5>2, LenProperties
        <5>4. ToSet(added) = ToSet(before) \cup {d[k]}
          BY <5>2, <5>3 DEF ToSet
        <5>. QED
          BY <5>2, <5>4
    <3>. QED
      BY <3>1, <3>2
  <2>5. {d[i] : i \in 1 .. k} = {d[i] : i \in 1 .. k - 1} \cup {d[k]}
    <3>1. 1 .. k = (1 .. k - 1) \cup {k}
      OBVIOUS
    <3>. QED
      BY <3>1
  <2>. QED
    BY <2>1, <2>2, <2>4, <2>5
<1>. HIDE DEF Good
<1>10. Good(n)
  <2>. DEFINE Bad == {k \in 0 .. n : ~ Good(k)}
  <2>1. ASSUME NEW m \in Bad, \A k \in Bad : m <= k PROVE FALSE
    <3>1. m \in 0 .. n /\ m # 0 /\ m \in 1 .. n /\ m - 1 \in 0 .. n
      BY <1>1, <1>8
    <3>2. m - 1 \notin Bad
      <4>. HIDE DEF Bad
      <4>. QED
        BY <2>1, <3>1
    <3>3. Good(m)
      BY <3>1, <3>2, <1>9
    <3>. QED
      BY <3>3
  <2>2. Bad = {}
    <3>1. Bad \in SUBSET Nat
      OBVIOUS
    <3>. HIDE DEF Bad
    <3>. QED
      BY <2>1, <3>1, LeastNat
  <2>3. n \in 0 .. n
    BY <1>1
  <2>. HIDE DEF n
  <2>. QED
    BY <2>2, <2>3
<1>11. g[DOMAIN d] \in V /\ ToSet(g[DOMAIN d]) = ToSet(d)
  BY <1>1, <1>10 DEF Good, ToSet
<1>. QED
  BY <1>7, <1>11

----------------------------------------------------------------------------
(* The invariant.                                                          *)

\* A process begins with an empty store and nothing frozen.
LEMMA Initially == Init => IInv
<1>. SUFFICES ASSUME Init PROVE IInv
  OBVIOUS
<1>1. Shapes
  <2>1. free \in Nat /\ taken \in Nat /\ spent \in Nat /\ written \in Nat /\ remaining \in Nat
        /\ body \in Nat /\ limit \in Nat /\ index \in Nat
    BY AcquisitionConstants DEF Init
  <2>2. measured \in BOOLEAN /\ conn \in Public \cup {Nobody}
    BY DEF Init
  <2>3. /\ DOMAIN store = Names
        /\ \A n \in Names : DOMAIN store[n] = {"url", "bytes", "whole"} /\ store[n].bytes \in Nat
    BY DEF Init, Absent
  <2>. QED
    BY <2>1, <2>2, <2>3 DEF Shapes
<1>2. AllowanceIsDeclared
  <2>1. <<>> \in Seq(ToSet(<<>>))
    OBVIOUS
  <2>. QED
    BY <2>1 DEF Init, AllowanceIsDeclared, Busy, Acquired
<1>3. FetchIsExact /\ FetchedSoFar /\ PlanIsKept
  BY DEF Init, FetchIsExact, FetchedSoFar, PlanIsKept, Busy, Acquired
<1>4. CopyIsAccounted
  BY AcquisitionConstants DEF Init, CopyIsAccounted
<1>5. StoreIsWhole
  BY DEF Init, StoreIsWhole
<1>. QED
  BY <1>1, <1>2, <1>3, <1>4, <1>5 DEF IInv

\* A source that is fetched has a name in the store, and a URL of its own.
LEMMA ExactSources ==
  ASSUME AllowanceIsDeclared, pc \notin {"idle", "failed"},
         NEW i \in Exact(allowance)
  PROVE  /\ i \in 1 .. Len(allowance) /\ allowance[i].name \in Names
         /\ allowance[i].url \notin {"absent", "foreign", "checkout"}
<1>1. PICK d \in Declarations : ToSet(d) = ToSet(allowance)
  BY DEF AllowanceIsDeclared
<1>2. DOMAIN allowance = 1 .. Len(allowance) /\ i \in DOMAIN allowance /\ allowance[i].kind = "exact"
  BY LenProperties DEF AllowanceIsDeclared, Exact
<1>3. PICK j \in DOMAIN d : d[j] = allowance[i]
  BY <1>1, <1>2 DEF ToSet
<1>. QED
  BY <1>2, <1>3, AcquisitionConstants

\* The three ways a copy ends, as one step each way it can go on: the file is whole
\* and the loop goes on, or the file is gone and the acquisition has failed.
CopyCompletes ==
  /\ pc = "copy" /\ pc' = "next" /\ index' = index + 1
  /\ written = body /\ written <= limit
  /\ store' = [store EXCEPT ![Source.name].whole = TRUE]
  /\ remaining' = IF written > remaining THEN 0 ELSE remaining - written
  /\ conn' = Nobody /\ written' = 0
  /\ UNCHANGED <<runs, allowance, hops, body, limit, measured, spent, plan, pins, disk>>

CopyFails ==
  /\ pc = "copy" /\ pc' = "failed"
  /\ store' = [store EXCEPT ![Source.name] = Absent]
  /\ free' = free + written
  /\ remaining' = IF written > remaining THEN 0 ELSE remaining - written
  /\ conn' = Nobody /\ written' = 0
  /\ UNCHANGED <<runs, allowance, index, hops, body, limit, measured, spent, plan, pins, taken>>

LEMMA CopyIsOver ==
  ASSUME Shapes, CopyEnds \/ CopyBreaks \/ Stall
  PROVE  CopyCompletes \/ CopyFails
<1>1. CASE CopyEnds
  <2>1. CASE written > limit
    BY <1>1, <2>1 DEF CopyEnds, EndCopy, CopyFails
  <2>2. CASE ~ (written > limit)
    <3>1. written = body
      BY <1>1, <2>2 DEF CopyEnds, Shapes
    <3>2. written <= limit
      BY <2>2 DEF Shapes
    <3>. QED
      BY <1>1, <2>2, <3>1, <3>2 DEF CopyEnds, EndCopy, CopyCompletes, disk
  <2>. QED
    BY <2>1, <2>2
<1>2. CASE CopyBreaks
  BY <1>2 DEF CopyBreaks, EndCopy, CopyFails
<1>3. CASE Stall
  BY <1>3 DEF Stall, EndCopy, CopyFails
<1>. QED
  BY <1>1, <1>2, <1>3

\* Every step is one of these.
LEMMA Steps ==
  ASSUME Shapes, Next
  PROVE  \/ FreezeDeclaredSources \/ NewAcquisition \/ SkipSource \/ RefuseSource \/ BeginFetch
         \/ SavePlan \/ checkedDialer \/ CheckRedirect \/ RefuseStatus \/ OpenTarget \/ CopyByte
         \/ CopyCompletes \/ CopyFails \/ Deadline
         \/ StartSandbox \/ PackageWrites \/ EndSandbox \/ OthersWrite \/ Retry
BY CopyIsOver DEF Next, Fetching, Timers

\* What the limits are.
Limits == Budget \in Nat /\ MaxBody \in Nat /\ Reserve \in Nat /\ Disk \in Nat

LEMMA LimitsAreNumbers == Limits
<1>1. Budget \in Nat /\ MaxBody \in Nat /\ Disk \in Nat /\ Reserve \in 0 .. Disk
  BY AcquisitionConstants
<1>. QED
  BY <1>1 DEF Limits

\* Every step keeps the numbers natural, the store a function on its names, and the
\* connection public: one resolution decides and is dialled (checkedDialer).
LEMMA ShapesStep == ASSUME IInv, Next PROVE Shapes'
<1>. USE DEF fetch, files, disk, Busy, Acquired, Shapes, Limits
<1>0. Limits /\ Shapes
  BY LimitsAreNumbers DEF IInv
<1>1. CASE FreezeDeclaredSources
  BY <1>0, <1>1 DEF FreezeDeclaredSources
<1>2. CASE NewAcquisition
  BY <1>0, <1>2 DEF NewAcquisition
<1>3. CASE SkipSource
  BY <1>0, <1>3 DEF SkipSource
<1>4. CASE RefuseSource
  BY <1>0, <1>4 DEF RefuseSource
<1>5. CASE BeginFetch
  BY <1>0, <1>5 DEF BeginFetch
<1>6. CASE SavePlan
  BY <1>0, <1>6 DEF SavePlan
<1>7. CASE checkedDialer
  BY <1>0, <1>7 DEF checkedDialer
<1>8. CASE CheckRedirect
  BY <1>0, <1>8 DEF CheckRedirect
<1>9. CASE RefuseStatus
  BY <1>0, <1>9 DEF RefuseStatus
<1>10. CASE OpenTarget
  <2>1. index \in Exact(allowance) /\ pc = "response"
    BY <1>10 DEF OpenTarget, IInv, FetchIsExact
  <2>2. Source.name \in Names
    BY <2>1, ExactSources DEF IInv, Source
  <2>3. store[Source.name].bytes \in Nat
    BY <1>0, <2>2
  <2>4. free' \in Nat /\ taken' \in Nat /\ written' \in Nat /\ body' \in Nat /\ limit' \in Nat
    BY <1>0, <1>10, <2>3 DEF OpenTarget, headroom
  <2>6. measured' \in BOOLEAN
    BY <1>10 DEF OpenTarget
  <2>5. /\ DOMAIN store' = Names
        /\ \A n \in Names : DOMAIN store'[n] = {"url", "bytes", "whole"} /\ store'[n].bytes \in Nat
    BY <1>0, <1>10 DEF OpenTarget, Absent
  <2>. QED
    BY <1>0, <1>10, <2>4, <2>5, <2>6 DEF OpenTarget
<1>11. CASE CopyByte
  <2>1. free' \in Nat /\ spent' \in Nat /\ written' \in Nat
    BY <1>0, <1>11 DEF CopyByte
  <2>2. /\ DOMAIN store' = Names
        /\ \A n \in Names : DOMAIN store'[n] = {"url", "bytes", "whole"} /\ store'[n].bytes \in Nat
    BY <1>0, <1>11 DEF CopyByte
  <2>. QED
    BY <1>0, <1>11, <2>1, <2>2 DEF CopyByte
<1>12. CASE CopyCompletes
  BY <1>0, <1>12 DEF CopyCompletes
<1>13. CASE CopyFails
  <2>1. /\ DOMAIN store' = Names
        /\ \A n \in Names : DOMAIN store'[n] = {"url", "bytes", "whole"} /\ store'[n].bytes \in Nat
    BY <1>0, <1>13 DEF CopyFails, Absent
  <2>2. free' \in Nat /\ remaining' \in Nat /\ written' \in Nat
    BY <1>0, <1>13 DEF CopyFails
  <2>. QED
    BY <1>0, <1>13, <2>1, <2>2 DEF CopyFails
<1>14. CASE Deadline
  BY <1>0, <1>14 DEF Deadline
<1>15. CASE StartSandbox
  BY <1>0, <1>15 DEF StartSandbox
<1>16. CASE PackageWrites
  <2>1. /\ DOMAIN store' = Names
        /\ \A n \in Names : DOMAIN store'[n] = {"url", "bytes", "whole"} /\ store'[n].bytes \in Nat
    BY <1>0, <1>16 DEF PackageWrites, Absent, Foreign, Checkout
  <2>. QED
    BY <1>0, <1>16, <2>1 DEF PackageWrites
<1>17. CASE EndSandbox
  BY <1>0, <1>17 DEF EndSandbox
<1>18. CASE OthersWrite
  BY <1>0, <1>18 DEF OthersWrite
<1>19. CASE Retry
  BY <1>0, <1>19 DEF Retry
<1>. QED
  BY <1>0, <1>1, <1>2, <1>3, <1>4, <1>5, <1>6, <1>7, <1>8, <1>9, <1>10,
     <1>11, <1>12, <1>13, <1>14, <1>15, <1>16, <1>17, <1>18, <1>19, Steps

\* An allowance is frozen whole and stays as it is until the next freeze
\* (FreezeDeclaredSources).
LEMMA AllowanceIsDeclaredStep == ASSUME IInv, Next PROVE AllowanceIsDeclared'
<1>. USE DEF fetch, files, disk, Busy, Acquired, AllowanceIsDeclared
<1>0. Shapes /\ AllowanceIsDeclared
  BY LimitsAreNumbers DEF IInv
<1>1. CASE FreezeDeclaredSources
  <2>1. CASE UNCHANGED allowance /\ pc' = "failed"
    BY <1>0, <2>1
  <2>2. CASE pc' = "frozen"
    <3>1. PICK d \in Declarations : allowance' = ParseSrcinfoSources(d).sources
      BY <1>1, <2>2 DEF FreezeDeclaredSources
    <3>2. d \in Seq(ToSet(d))
      BY AcquisitionConstants
    <3>3. allowance' \in Seq(ToSet(d)) /\ ToSet(allowance') = ToSet(d)
      BY <3>1, <3>2, ParsedIsWhole
    <3>4. (ToSet(allowance))' = ToSet(allowance')
      BY DEF ToSet
    <3>. QED
      BY <3>3, <3>4
  <2>. QED
    BY <1>1, <2>1, <2>2 DEF FreezeDeclaredSources
<1>2. CASE NewAcquisition
  BY <1>0, <1>2 DEF NewAcquisition
<1>3. CASE SkipSource
  BY <1>0, <1>3 DEF SkipSource
<1>4. CASE RefuseSource
  BY <1>0, <1>4 DEF RefuseSource
<1>5. CASE BeginFetch
  BY <1>0, <1>5 DEF BeginFetch
<1>6. CASE SavePlan
  BY <1>0, <1>6 DEF SavePlan
<1>7. CASE checkedDialer
  BY <1>0, <1>7 DEF checkedDialer
<1>8. CASE CheckRedirect
  BY <1>0, <1>8 DEF CheckRedirect
<1>9. CASE RefuseStatus
  BY <1>0, <1>9 DEF RefuseStatus
<1>10. CASE OpenTarget
  BY <1>0, <1>10 DEF OpenTarget
<1>11. CASE CopyByte
  BY <1>0, <1>11 DEF CopyByte
<1>12. CASE CopyCompletes
  BY <1>0, <1>12 DEF CopyCompletes
<1>13. CASE CopyFails
  BY <1>0, <1>13 DEF CopyFails
<1>14. CASE Deadline
  BY <1>0, <1>14 DEF Deadline
<1>15. CASE StartSandbox
  BY <1>0, <1>15 DEF StartSandbox
<1>16. CASE PackageWrites
  BY <1>0, <1>16 DEF PackageWrites
<1>17. CASE EndSandbox
  BY <1>0, <1>17 DEF EndSandbox
<1>18. CASE OthersWrite
  BY <1>0, <1>18 DEF OthersWrite
<1>19. CASE Retry
  BY <1>0, <1>19 DEF Retry
<1>. QED
  BY <1>0, <1>1, <1>2, <1>3, <1>4, <1>5, <1>6, <1>7, <1>8, <1>9, <1>10,
     <1>11, <1>12, <1>13, <1>14, <1>15, <1>16, <1>17, <1>18, <1>19, Steps

\* A fetch begins for a source with a URL (BeginFetch).
LEMMA FetchIsExactStep == ASSUME IInv, Next PROVE FetchIsExact'
<1>. USE DEF fetch, files, disk, Busy, Acquired, FetchIsExact
<1>0. Shapes /\ FetchIsExact
  BY LimitsAreNumbers DEF IInv
<1>1. CASE FreezeDeclaredSources
  BY <1>0, <1>1 DEF FreezeDeclaredSources
<1>2. CASE NewAcquisition
  BY <1>0, <1>2 DEF NewAcquisition
<1>3. CASE SkipSource
  BY <1>0, <1>3 DEF SkipSource, Shapes
<1>4. CASE RefuseSource
  BY <1>0, <1>4 DEF RefuseSource
<1>5. CASE BeginFetch
  <2>1. index \in Exact(allowance)
    <3>1. index \in 1 .. Len(allowance) /\ DOMAIN allowance = 1 .. Len(allowance)
      BY <1>0, <1>5, LenProperties DEF BeginFetch, IInv, AllowanceIsDeclared, Shapes
    <3>. QED
      BY <3>1, <1>5 DEF BeginFetch, Exact, Source
  <2>3. index' >= 1
    BY <1>0, <1>5 DEF BeginFetch
  <2>4. free' = free /\ allowance' = allowance /\ index' = index
    BY <1>5 DEF BeginFetch
  <2>. QED
    BY <2>1, <2>3, <2>4
<1>6. CASE SavePlan
  BY <1>0, <1>6 DEF SavePlan
<1>7. CASE checkedDialer
  BY <1>0, <1>7 DEF checkedDialer
<1>8. CASE CheckRedirect
  BY <1>0, <1>8 DEF CheckRedirect
<1>9. CASE RefuseStatus
  BY <1>0, <1>9 DEF RefuseStatus
<1>10. CASE OpenTarget
  BY <1>0, <1>10 DEF OpenTarget
<1>11. CASE CopyByte
  BY <1>0, <1>11 DEF CopyByte
<1>12. CASE CopyCompletes
  BY <1>0, <1>12 DEF CopyCompletes, Shapes
<1>13. CASE CopyFails
  BY <1>0, <1>13 DEF CopyFails
<1>14. CASE Deadline
  BY <1>0, <1>14 DEF Deadline
<1>15. CASE StartSandbox
  BY <1>0, <1>15 DEF StartSandbox
<1>16. CASE PackageWrites
  BY <1>0, <1>16 DEF PackageWrites
<1>17. CASE EndSandbox
  BY <1>0, <1>17 DEF EndSandbox
<1>18. CASE OthersWrite
  BY <1>0, <1>18 DEF OthersWrite
<1>19. CASE Retry
  BY <1>0, <1>19 DEF Retry
<1>. QED
  BY <1>0, <1>1, <1>2, <1>3, <1>4, <1>5, <1>6, <1>7, <1>8, <1>9, <1>10,
     <1>11, <1>12, <1>13, <1>14, <1>15, <1>16, <1>17, <1>18, <1>19, Steps

\* When a copy begins nothing is written and nobody has taken anything yet: where the
\* free space was told, the limit is the room above the reserve or nothing (headroom).
LEMMA Untouched ==
  ASSUME NEW room \in Nat, NEW kept \in Nat, NEW left \in Nat, NEW most, NEW told \in BOOLEAN,
         most = (IF told /\ (IF room > kept THEN room - kept ELSE 0) < left
                 THEN (IF room > kept THEN room - kept ELSE 0) ELSE left)
  PROVE  /\ most \in Nat /\ most <= left
         /\ told => room + 0 + 0 >= kept + most \/ most = 0
<1>1. CASE told
  <2>1. CASE room > kept
    BY <1>1, <2>1
  <2>2. CASE ~(room > kept)
    BY <1>1, <2>2
  <2>. QED
    BY <2>1, <2>2
<1>2. CASE ~told
  BY <1>2
<1>. QED
  BY <1>1, <1>2

\* The budget and the reserve are kept byte by byte: what is written is taken off what
\* is left, and a copy has no more room than it was given (acquisitionBudget).
LEMMA CopyIsAccountedStep == ASSUME IInv, Next PROVE CopyIsAccounted'
<1>. USE DEF fetch, files, disk, Busy, Acquired, CopyIsAccounted, Limits
<1>0. Limits /\ Shapes /\ CopyIsAccounted
  BY LimitsAreNumbers DEF IInv
<1>1. CASE FreezeDeclaredSources
  BY <1>0, <1>1 DEF FreezeDeclaredSources
<1>2. CASE NewAcquisition
  BY <1>0, <1>2 DEF NewAcquisition, Shapes
<1>3. CASE SkipSource
  BY <1>0, <1>3 DEF SkipSource
<1>4. CASE RefuseSource
  BY <1>0, <1>4 DEF RefuseSource
<1>5. CASE BeginFetch
  BY <1>0, <1>5 DEF BeginFetch
<1>6. CASE SavePlan
  BY <1>0, <1>6 DEF SavePlan
<1>7. CASE checkedDialer
  BY <1>0, <1>7 DEF checkedDialer
<1>8. CASE CheckRedirect
  BY <1>0, <1>8 DEF CheckRedirect
<1>9. CASE RefuseStatus
  BY <1>0, <1>9 DEF RefuseStatus
<1>10. CASE OpenTarget
  <2>1. index \in Exact(allowance) /\ pc = "response"
    BY <1>10 DEF OpenTarget, IInv, FetchIsExact
  <2>2. Source.name \in Names
    BY <2>1, ExactSources DEF IInv, Source
  <2>3. free' \in Nat /\ taken' = 0 /\ written' = 0 /\ measured' \in BOOLEAN
        /\ remaining' = remaining /\ remaining \in Nat /\ Reserve \in Nat
        /\ spent' = spent /\ pc' = "copy"
    BY <1>0, <1>10, <2>1, <2>2 DEF OpenTarget, Shapes
  <2>4. limit' = (IF measured' /\ (IF free' > Reserve THEN free' - Reserve ELSE 0) < remaining
                  THEN (IF free' > Reserve THEN free' - Reserve ELSE 0) ELSE remaining)
    <3>. HIDE DEF fetch, files, disk, Busy, Acquired, CopyIsAccounted, Limits
    <3>. QED
      BY <1>10, Zenon DEF OpenTarget, headroom
  <2>5. /\ limit' \in Nat /\ limit' <= remaining
        /\ measured' => free' + 0 + 0 >= Reserve + limit' \/ limit' = 0
    BY <2>3, <2>4, Untouched
  <2>6. measured' => free' + taken' + written' >= Reserve + limit' \/ limit' = 0
    BY <2>3, <2>5
  <2>7. spent' + remaining' = Budget + written' /\ spent' <= Budget + 1
    BY <1>0, <2>1, <2>3 DEF Shapes
  <2>8. written' <= limit' + 1 /\ limit' <= remaining'
    <3>1. \A l \in Nat : 0 <= l + 1
      OBVIOUS
    <3>2. limit' \in Nat /\ written' = 0 /\ limit' <= remaining /\ remaining' = remaining
      BY <2>3, <2>5, Zenon
    <3>3. 0 <= limit' + 1
      BY <3>1, <3>2, Zenon
    <3>. QED
      BY <3>2, <3>3, Zenon
  <2>. QED
    BY <2>3, <2>6, <2>7, <2>8
<1>11. CASE CopyByte
  BY <1>0, <1>11 DEF CopyByte, Shapes
<1>12. CASE CopyCompletes
  BY <1>0, <1>12 DEF CopyCompletes, Shapes
<1>13. CASE CopyFails
  BY <1>0, <1>13 DEF CopyFails
<1>14. CASE Deadline
  BY <1>0, <1>14 DEF Deadline
<1>15. CASE StartSandbox
  BY <1>0, <1>15 DEF StartSandbox
<1>16. CASE PackageWrites
  BY <1>0, <1>16 DEF PackageWrites
<1>17. CASE EndSandbox
  BY <1>0, <1>17 DEF EndSandbox
<1>18. CASE OthersWrite
  BY <1>0, <1>18 DEF OthersWrite, Shapes
<1>19. CASE Retry
  BY <1>0, <1>19 DEF Retry
<1>. QED
  BY <1>0, <1>1, <1>2, <1>3, <1>4, <1>5, <1>6, <1>7, <1>8, <1>9, <1>10,
     <1>11, <1>12, <1>13, <1>14, <1>15, <1>16, <1>17, <1>18, <1>19, Steps

\* A file that is not whole is the target of the copy in progress: a copy that is over
\* has completed the file or removed it (EndCopy).
LEMMA StoreIsWholeStep == ASSUME IInv, Next PROVE StoreIsWhole'
<1>. USE DEF fetch, files, disk, Busy, Acquired, StoreIsWhole
<1>0. Shapes /\ StoreIsWhole
  BY LimitsAreNumbers DEF IInv
<1>1. CASE OpenTarget
  <2>1. index \in Exact(allowance)
    BY <1>1 DEF OpenTarget, IInv, FetchIsExact
  <2>2. Source.name \in Names
    BY <2>1, <1>1, ExactSources DEF IInv, Source, OpenTarget
  <2>3. pc' = "copy"
    BY <1>1 DEF OpenTarget
  <2>. QED
    BY <1>0, <1>1, <2>2, <2>3 DEF OpenTarget, Shapes, Source, Absent
<1>2. CASE CopyByte
  <2>1. index \in Exact(allowance)
    BY <1>2 DEF CopyByte, IInv, FetchIsExact
  <2>2. Source.name \in Names
    BY <2>1, <1>2, ExactSources DEF IInv, Source, CopyByte
  <2>3. pc' = "copy"
    BY <1>2 DEF CopyByte
  <2>. QED
    BY <1>0, <1>2, <2>2, <2>3 DEF CopyByte, Shapes, Source
<1>3. CASE CopyCompletes
  <2>1. index \in Exact(allowance)
    BY <1>3 DEF CopyCompletes, IInv, FetchIsExact
  <2>2. Source.name \in Names
    BY <2>1, <1>3, ExactSources DEF IInv, Source, CopyCompletes
  <2>3. pc' = "next"
    BY <1>3 DEF CopyCompletes
  <2>. QED
    BY <1>0, <1>3, <2>2, <2>3 DEF CopyCompletes, Shapes, Source
<1>4. CASE CopyFails
  <2>1. index \in Exact(allowance)
    BY <1>4 DEF CopyFails, IInv, FetchIsExact
  <2>2. Source.name \in Names
    BY <2>1, <1>4, ExactSources DEF IInv, Source, CopyFails
  <2>3. pc' = "failed"
    BY <1>4 DEF CopyFails
  <2>. QED
    BY <1>0, <1>4, <2>2, <2>3 DEF CopyFails, Shapes, Source, Absent
<1>5. CASE PackageWrites
  BY <1>0, <1>5 DEF PackageWrites, Shapes, Foreign, Checkout
<1>6. CASE OthersWrite
  BY <1>0, <1>6 DEF OthersWrite, Source
<1>7. CASE \/ FreezeDeclaredSources \/ NewAcquisition \/ SkipSource \/ RefuseSource \/ BeginFetch \/ SavePlan
              \/ checkedDialer \/ CheckRedirect \/ RefuseStatus \/ Deadline \/ StartSandbox \/ EndSandbox \/ Retry
  <2>1. UNCHANGED store /\ pc \notin {"copy"} /\ pc' \notin {"copy"}
    BY <1>7 DEF FreezeDeclaredSources, NewAcquisition, SkipSource, RefuseSource, BeginFetch, SavePlan, checkedDialer, CheckRedirect,
       RefuseStatus, Deadline, StartSandbox, EndSandbox, Retry
  <2>. QED
    BY <1>0, <2>1
<1>. QED
  BY <1>0, <1>1, <1>2, <1>3, <1>4, <1>5, <1>6, <1>7, Steps

\* The names of the sources that are fetched.
LEMMA NamesOf ==
  ASSUME AllowanceIsDeclared, pc \notin {"idle", "failed"}
  PROVE  \A i \in Exact(allowance) : allowance[i].name \in Names
BY ExactSources

\* The last source under a name is what the store has under it, from the end of its copy
\* on: a later source under the name is copied over it, and what is pinned cannot be
\* written (EndCopy, pinAcquiredSources).
LEMMA FetchedSoFarStep == ASSUME IInv, Next PROVE FetchedSoFar'
<1>. USE DEF fetch, files, disk, Busy, Acquired, FetchedSoFar
<1>0. /\ Shapes /\ FetchIsExact /\ AllowanceIsDeclared /\ StoreIsWhole /\ FetchedSoFar /\ PlanIsKept
  BY LimitsAreNumbers DEF IInv
<1>1. CASE NewAcquisition
  <2>1. index' = 1 /\ allowance' = allowance
    BY <1>1 DEF NewAcquisition
  <2>2. \A j \in Exact(allowance) : j \in Int /\ ~(j < 1)
    <3>1. DOMAIN allowance = 1 .. Len(allowance) /\ Len(allowance) \in Nat
      BY <1>0, LenProperties DEF AllowanceIsDeclared
    <3>. QED
      BY <3>1 DEF Exact
  <2>3. \A j : ~LastSoFar(j)'
    BY <2>1, <2>2 DEF LastSoFar
  <2>. QED
    BY <2>3
<1>2. CASE SkipSource
  <2>1. /\ index' = index + 1 /\ index \notin Exact(allowance)
        /\ UNCHANGED <<pc, allowance, store>> /\ pc = "next"
    BY <1>2 DEF SkipSource, Exact, Source
  <2>2. \A j \in Exact(allowance) : j < index + 1 => j < index
    BY <1>0, <2>1, LenProperties DEF Exact, Shapes, AllowanceIsDeclared
  <2>3. \A j \in Exact(allowance) : LastSoFar(j)' => LastSoFar(j)
    BY <1>0, <2>1, <2>2, LenProperties DEF LastSoFar, Exact, Shapes, AllowanceIsDeclared
  <2>. QED
    BY <1>0, <2>1, <2>3
<1>3. CASE OpenTarget
  <2>1. index \in Exact(allowance)
    BY <1>3 DEF OpenTarget, IInv, FetchIsExact
  <2>2. Source.name \in Names
    BY <2>1, <1>3, ExactSources DEF IInv, Source, OpenTarget
  <2>3. UNCHANGED <<allowance, index>> /\ pc = "response" /\ pc' = "copy"
    BY <1>3 DEF OpenTarget
  <2>4. \A n \in Names : n # Source.name => store'[n] = store[n]
    BY <1>0, <1>3 DEF OpenTarget, Shapes
  <2>. QED
    BY <1>0, <2>3, <2>4, NamesOf DEF LastSoFar, Source
<1>4. CASE CopyByte
  <2>1. index \in Exact(allowance)
    BY <1>4 DEF CopyByte, IInv, FetchIsExact
  <2>2. Source.name \in Names
    BY <2>1, <1>4, ExactSources DEF IInv, Source, CopyByte
  <2>3. UNCHANGED <<allowance, index>> /\ pc = "copy" /\ pc' = "copy"
    BY <1>4 DEF CopyByte
  <2>4. \A n \in Names : n # Source.name => store'[n] = store[n]
    BY <1>0, <1>4 DEF CopyByte, Shapes
  <2>. QED
    BY <1>0, <2>3, <2>4, NamesOf DEF LastSoFar, Source
<1>5. CASE CopyCompletes
  <2>1. index \in Exact(allowance)
    BY <1>5 DEF CopyCompletes, IInv, FetchIsExact
  <2>2. Source.name \in Names
    BY <2>1, <1>5, ExactSources DEF IInv, Source, CopyCompletes
  <2>3. /\ allowance' = allowance /\ index' = index + 1 /\ index \in Nat
        /\ pc = "copy" /\ pc' = "next" /\ store[Source.name].url = Source.url
    BY <1>0, <1>5 DEF CopyCompletes, Shapes, StoreIsWhole
  <2>4. /\ \A n \in Names : n # Source.name => store'[n] = store[n]
        /\ store'[Source.name].url = store[Source.name].url
    BY <1>0, <2>2, <1>5 DEF CopyCompletes, Shapes
  <2>5. ASSUME NEW j \in Exact(allowance), j < index + 1,
               \A k \in Exact(allowance) : j < k /\ k < index + 1 => allowance[k].name # allowance[j].name
        PROVE  store'[allowance[j].name].url = allowance[j].url
    <3>1. j \in 1 .. Len(allowance) /\ allowance[j].name \in Names
      BY <1>0, <2>3, ExactSources
    <3>2. CASE j = index
      BY <2>3, <2>4, <3>2 DEF Source
    <3>3. CASE j # index
      <4>1. j < index
        BY <2>3, <2>5, <3>1, <3>3
      <4>2. allowance[j].name # Source.name
        BY <2>1, <2>3, <2>5, <4>1 DEF Source
      <4>3. LastSoFar(j)
        BY <2>3, <2>5, <3>1, <4>1, LenProperties DEF LastSoFar, Exact, AllowanceIsDeclared
      <4>. QED
        BY <1>0, <2>3, <2>4, <3>1, <4>2, <4>3
    <3>. QED
      BY <3>2, <3>3
  <2>. QED
    BY <2>3, <2>5 DEF LastSoFar
<1>6. CASE PackageWrites
  <2>1. PICK n \in Names \ pins : \E f \in {Absent, Foreign, Checkout} : store' = [store EXCEPT ![n] = f]
    BY <1>6 DEF PackageWrites
  <2>2. pc = "sandbox" /\ UNCHANGED <<pc, allowance, index>>
    BY <1>6 DEF PackageWrites
  <2>3. ASSUME NEW j \in Exact(allowance), LastSoFar(j)
        PROVE  store'[allowance[j].name].url = allowance[j].url
    <3>1. /\ allowance[j].name \in Names
          /\ allowance[j].url \notin {"absent", "foreign", "checkout"}
      BY <1>0, <2>2, ExactSources
    <3>2. store[allowance[j].name].url = allowance[j].url
      BY <1>0, <2>2, <2>3
    <3>3. store[allowance[j].name] \notin {Absent, Foreign, Checkout}
      BY <3>1, <3>2 DEF Absent, Foreign, Checkout
    <3>4. allowance[j].name # n
      BY <1>0, <2>2, <3>1, <3>3 DEF PlanIsKept
    <3>. QED
      BY <1>0, <2>1, <3>1, <3>2, <3>4 DEF Shapes
  <2>. QED
    BY <2>2, <2>3 DEF LastSoFar
<1>7. CASE OthersWrite
  BY <1>0, <1>7 DEF OthersWrite, LastSoFar, Source
<1>8. CASE \/ FreezeDeclaredSources \/ RefuseSource \/ BeginFetch \/ SavePlan \/ checkedDialer \/ CheckRedirect
              \/ RefuseStatus \/ CopyFails \/ Deadline \/ StartSandbox \/ EndSandbox \/ Retry
  <2>1. \/ pc' \in {"idle", "frozen", "failed"}
        \/ /\ UNCHANGED <<allowance, index, store>> /\ pc' \notin {"idle", "frozen", "failed"}
           /\ pc \notin {"idle", "frozen", "failed"} /\ (pc # "copy" \/ pc' = pc)
    BY <1>8 DEF FreezeDeclaredSources, RefuseSource, BeginFetch, SavePlan, checkedDialer, CheckRedirect, RefuseStatus, CopyFails,
       Deadline, StartSandbox, EndSandbox, Retry
  <2>. QED
    BY <1>0, <2>1 DEF LastSoFar, Source
<1>. QED
  BY <1>0, <1>1, <1>2, <1>3, <1>4, <1>5, <1>6, <1>7, <1>8, Steps

\* The plan is saved when the loop is over, and names the frozen sources as long as a
\* sandbox may run (SavePlan, StartSandbox).
LEMMA PlanIsKeptStep == ASSUME IInv, Next PROVE PlanIsKept'
<1>. USE DEF fetch, files, disk, Busy, Acquired, PlanIsKept
<1>0. Shapes /\ PlanIsKept
  BY LimitsAreNumbers DEF IInv
<1>1. CASE FreezeDeclaredSources
  BY <1>0, <1>1 DEF FreezeDeclaredSources
<1>2. CASE NewAcquisition
  BY <1>0, <1>2 DEF NewAcquisition
<1>3. CASE SkipSource
  BY <1>0, <1>3 DEF SkipSource
<1>4. CASE RefuseSource
  BY <1>0, <1>4 DEF RefuseSource
<1>5. CASE BeginFetch
  BY <1>0, <1>5 DEF BeginFetch
<1>6. CASE SavePlan
  BY <1>0, <1>6 DEF SavePlan, Shapes
<1>7. CASE checkedDialer
  BY <1>0, <1>7 DEF checkedDialer
<1>8. CASE CheckRedirect
  BY <1>0, <1>8 DEF CheckRedirect
<1>9. CASE RefuseStatus
  BY <1>0, <1>9 DEF RefuseStatus
<1>10. CASE OpenTarget
  BY <1>0, <1>10 DEF OpenTarget
<1>11. CASE CopyByte
  BY <1>0, <1>11 DEF CopyByte
<1>12. CASE CopyCompletes
  BY <1>0, <1>12 DEF CopyCompletes
<1>13. CASE CopyFails
  BY <1>0, <1>13 DEF CopyFails
<1>14. CASE Deadline
  BY <1>0, <1>14 DEF Deadline
<1>15. CASE StartSandbox
  BY <1>0, <1>15 DEF StartSandbox
<1>16. CASE PackageWrites
  BY <1>0, <1>16 DEF PackageWrites, Shapes
<1>17. CASE EndSandbox
  BY <1>0, <1>17 DEF EndSandbox
<1>18. CASE OthersWrite
  BY <1>0, <1>18 DEF OthersWrite
<1>19. CASE Retry
  BY <1>0, <1>19 DEF Retry
<1>. QED
  BY <1>0, <1>1, <1>2, <1>3, <1>4, <1>5, <1>6, <1>7, <1>8, <1>9, <1>10,
     <1>11, <1>12, <1>13, <1>14, <1>15, <1>16, <1>17, <1>18, <1>19, Steps

\* Every step keeps the inductive invariant.
LEMMA Inductively == IInv /\ [Next]_vars => IInv'
<1>1. ASSUME IInv, Next PROVE IInv'
  BY <1>1, ShapesStep, AllowanceIsDeclaredStep, FetchIsExactStep, CopyIsAccountedStep, StoreIsWholeStep,
     FetchedSoFarStep, PlanIsKeptStep DEF IInv
<1>2. ASSUME IInv, UNCHANGED vars PROVE IInv'
  <2>. USE <1>2 DEF vars, fetch, files, disk
  <2>1. Shapes'
    BY DEF IInv, Shapes
  <2>2. AllowanceIsDeclared' /\ FetchIsExact' /\ CopyIsAccounted' /\ PlanIsKept'
    BY DEF IInv, AllowanceIsDeclared, FetchIsExact, CopyIsAccounted, PlanIsKept
  <2>3. StoreIsWhole' /\ FetchedSoFar'
    BY DEF IInv, StoreIsWhole, FetchedSoFar, LastSoFar, Source
  <2>. QED
    BY <2>1, <2>2, <2>3 DEF IInv
<1>. QED
  BY <1>1, <1>2

\* The store, the budget, the reserve and the frozen sources stay in step through
\* every run of every transaction.
THEOREM Inductive == Spec => []IInv
BY Initially, Inductively, PTL DEF Spec

\* A fetch, every redirect included, talks only to an address that was in an answer
\* all of which was public (checkedDialer, AddressPolicy.Public).
THEOREM PublicOnly == Spec => []OnlyPublicAddresses
<1>1. IInv => OnlyPublicAddresses
  BY DEF IInv, Shapes, Public, OnlyPublicAddresses
<1>. QED
  BY <1>1, Inductive, PTL

\* All fetches of a run together write no more than the budget and one byte, and none
\* whose file system told its free space fills more than the room above the reserve
\* and such a byte, whatever others write at any time (acquisitionBudget).
THEOREM BudgetAndReserve == Spec => []BudgetAndReserveHold
<1>1. ASSUME IInv PROVE BudgetAndReserveHold
  <2>1. /\ spent <= Budget + 1
        /\ pc = "copy" /\ measured =>
             written <= limit + 1 /\ (free + taken + written >= Reserve + limit \/ limit = 0)
    BY <1>1 DEF IInv, CopyIsAccounted
  <2>2. free \in Nat /\ taken \in Nat /\ written \in Nat /\ limit \in Nat /\ Reserve \in Nat
    BY <1>1, LimitsAreNumbers DEF IInv, Shapes, Limits
  <2>3. ASSUME pc = "copy", measured, NEW before \in Nat, before = free + taken + written
        PROVE  written <= 1 + IF before > Reserve THEN before - Reserve ELSE 0
    BY <2>1, <2>2, <2>3
  <2>4. free + taken + written \in Nat
    BY <2>2
  <2>. QED
    BY <2>1, <2>3, <2>4 DEF BudgetAndReserveHold
<1>. QED
  BY <1>1, Inductive, PTL

\* No part of a body outlives its copy, and once a run has acquired its sources the plan
\* is all that was declared and every plain source has the body of its URL, whatever the
\* package wrote in the sandboxes in between (fetchDeclared, pinAcquiredSources).
THEOREM AsFetched == Spec => []SourcesAreAsFetched
<1>1. ASSUME IInv PROVE SourcesAreAsFetched
  <2>1. pc # "copy" => \A n \in Names : store[n] = Absent \/ store[n].whole
    BY <1>1 DEF IInv, StoreIsWhole
  <2>2. ASSUME pc \in Acquired PROVE /\ plan = allowance
                                   /\ \E d \in Declarations : ToSet(d) = ToSet(plan)
    BY <1>1, <2>2 DEF IInv, PlanIsKept, AllowanceIsDeclared, Acquired
  <2>3. ASSUME pc \in Acquired, NEW i \in Exact(plan)
        PROVE  store[plan[i].name].url = LastUnder(plan, i).url
    <3>. DEFINE Same == {j \in Exact(plan) : plan[j].name = plan[i].name}
                last == Max(Same)
    <3>1. /\ plan = allowance /\ index > Len(allowance) /\ index \in Nat
          /\ Len(plan) \in Nat /\ DOMAIN plan = 1 .. Len(plan)
      BY <1>1, <2>3, LenProperties DEF IInv, PlanIsKept, AllowanceIsDeclared, Shapes
    <3>2. Same \in SUBSET (1 .. Len(plan)) /\ i \in Same
      BY <3>1 DEF Exact
    <3>3. last \in Same /\ \A x \in Same : x <= last
      <4>. HIDE DEF Same
      <4>. QED
        BY <3>1, <3>2, MaxExists
    <3>4. LastSoFar(last)
      <4>1. last \in Exact(allowance) /\ last < index
        BY <3>1, <3>2, <3>3
      <4>2. ASSUME NEW k \in Exact(allowance), last < k, k < index
            PROVE  allowance[k].name # allowance[last].name
        <5>1. k \in Int /\ last \in Int
          BY <3>1, <3>2, <3>3 DEF Exact
        <5>2. k \notin Same
          BY <3>3, <4>2, <5>1
        <5>. QED
          BY <3>1, <3>3, <5>2
      <4>. QED
        BY <4>1, <4>2 DEF LastSoFar
    <3>5. store[plan[last].name].url = plan[last].url
      <4>1. pc \notin {"idle", "frozen", "failed", "copy"}
        BY <2>3 DEF Acquired
      <4>. HIDE DEF last
      <4>. QED
        BY <1>1, <3>1, <3>3, <3>4, <4>1 DEF IInv, FetchedSoFar, LastSoFar
    <3>. QED
      BY <3>3, <3>5 DEF LastUnder
  <2>. QED
    BY <2>1, <2>2, <2>3 DEF SourcesAreAsFetched, Acquired
<1>. QED
  BY <1>1, Inductive, PTL

-----------------------------------------------------------------------------
(* Sums over finite sets.                                                  *)

\* What an induction over sets rests on: among subsets of a finite set, one has no
\* other of them below it.
LEMMA MinimalSet ==
  ASSUME NEW S, IsFiniteSet(S), NEW T \in SUBSET SUBSET S, T # {}
  PROVE  \E m \in T : \A k \in T : k \subseteq m => k = m
<1>1. IsWellFoundedOn(StrictSubsetOrdering(S), SUBSET S)
  BY FS_StrictSubsetOrderingWellFounded, FS_FiniteSubsetsOfFinite, Zenon
<1>2. \E m \in T : \A k \in T : ~ (<<k, m>> \in StrictSubsetOrdering(S))
  BY <1>1, WFMin
<1>3. PICK m \in T : \A k \in T : ~ (<<k, m>> \in StrictSubsetOrdering(S))
  BY <1>2
<1>4. ASSUME NEW k \in T, k \subseteq m, k # m PROVE FALSE
  <2>1. <<k, m>> \in (SUBSET S) \X (SUBSET S)
    OBVIOUS
  <2>2. <<k, m>> \in StrictSubsetOrdering(S)
    BY <1>4, <2>1 DEF StrictSubsetOrdering
  <2>. QED
    BY <1>3, <2>2
<1>. QED
  BY <1>4

\* The element a sum goes on with, what the sum is then, and the functions that
\* are this sum on every subset of D.
One(s) == CHOOSE x \in s : TRUE
Rest(f, h, s) == IF s = {} THEN 0 ELSE f[One(s)] + h[s \ {One(s)}]
SumsUp(f, D, h) == h = [s \in SUBSET D |-> Rest(f, h, s)]
Total(f, D) == MapThenSumSet(LAMBDA d : f[d], D)

LEMMA TotalIs ==
  ASSUME NEW f, NEW D
  PROVE  Total(f, D) = (CHOOSE h : SumsUp(f, D, h))[D]
BY Zenon DEF Total, MapThenSumSet, MapThenFoldSet, SumsUp, Rest, One

LEMMA OneIs == ASSUME NEW s, s # {} PROVE One(s) \in s
BY DEF One

\* There is such a function, as sets of so many elements have one for every number.
LEMMA SumExists ==
  ASSUME NEW D, IsFiniteSet(D), NEW f
  PROVE  \E h : SumsUp(f, D, h)
<1>. DEFINE Upto(h, k) == \A s \in SUBSET D : Cardinality(s) <= k => h[s] = Rest(f, h, s)
     Bad == {k \in Nat : ~ \E h : Upto(h, k) /\ DOMAIN h = SUBSET D}
<1>1. \A s \in SUBSET D : IsFiniteSet(s) /\ Cardinality(s) \in Nat
  BY FS_Subset, FS_CardinalityType
<1>2. \A s \in SUBSET D : s # {} =>
         s \ {One(s)} \in SUBSET D /\ Cardinality(s \ {One(s)}) = Cardinality(s) - 1
  BY <1>1, OneIs, FS_RemoveElement
<1>3. 0 \notin Bad
  <2>. DEFINE h == [s \in SUBSET D |-> 0]
  <2>1. ASSUME NEW s \in SUBSET D, Cardinality(s) <= 0 PROVE h[s] = Rest(f, h, s)
    <3>1. s = {}
      BY <1>1, <2>1, FS_EmptySet
    <3>. QED
      BY <3>1 DEF Rest
  <2>2. Upto(h, 0) /\ DOMAIN h = SUBSET D
    BY <2>1
  <2>. QED
    BY <2>2
<1>4. ASSUME NEW m \in Nat \ {0}, m - 1 \notin Bad PROVE m \notin Bad
  <2>1. m - 1 \in Nat
    OBVIOUS
  <2>2. PICK g : Upto(g, m - 1) /\ DOMAIN g = SUBSET D
    BY <1>4, <2>1
  <2>. DEFINE h == [s \in SUBSET D |-> Rest(f, g, s)]
  <2>3. ASSUME NEW s \in SUBSET D, Cardinality(s) <= m PROVE h[s] = Rest(f, h, s)
    <3>1. CASE s = {}
      BY <3>1 DEF Rest
    <3>2. CASE s # {}
      <4>. DEFINE t == s \ {One(s)}
      <4>1. t \in SUBSET D /\ Cardinality(t) <= m - 1
        BY <1>1, <1>2, <2>3, <3>2
      <4>2. g[t] = Rest(f, g, t)
        BY <2>2, <4>1
      <4>3. h[t] = g[t]
        BY <4>1, <4>2
      <4>4. h[s] = f[One(s)] + g[t]
        BY <3>2 DEF Rest
      <4>. HIDE DEF h
      <4>. QED
        BY <3>2, <4>3, <4>4 DEF Rest
    <3>. QED
      BY <3>1, <3>2
  <2>4. Upto(h, m) /\ DOMAIN h = SUBSET D
    BY <2>3
  <2>. HIDE DEF h, Upto
  <2>. QED
    BY <2>4
<1>5. Bad = {}
  <2>1. SUFFICES ASSUME Bad # {} PROVE FALSE
    OBVIOUS
  <2>2. Bad \in SUBSET Nat
    OBVIOUS
  <2>. HIDE DEF Bad
  <2>3. PICK m \in Bad : \A k \in Bad : m <= k
    BY <2>1, <2>2, LeastNat
  <2>4. m \in Nat \ {0}
    BY <1>3, <2>2, <2>3
  <2>5. m - 1 \notin Bad
    BY <2>3, <2>4
  <2>. QED
    BY <1>4, <2>3, <2>4, <2>5
<1>6. Cardinality(D) \in Nat /\ \A s \in SUBSET D : Cardinality(s) <= Cardinality(D)
  BY FS_Subset, FS_CardinalityType
<1>. HIDE DEF Upto
<1>7. PICK h : Upto(h, Cardinality(D)) /\ DOMAIN h = SUBSET D
  BY <1>5, <1>6
<1>. DEFINE h2 == [s \in SUBSET D |-> Rest(f, h, s)]
<1>8. \A s \in SUBSET D : h[s] = h2[s]
  BY <1>6, <1>7 DEF Upto
<1>9. ASSUME NEW s \in SUBSET D PROVE h2[s] = Rest(f, h2, s)
  <2>1. CASE s = {}
    BY <2>1 DEF Rest
  <2>2. CASE s # {}
    BY <1>2, <1>8, <2>2 DEF Rest
  <2>. QED
    BY <2>1, <2>2
<1>10. h2 = [s \in SUBSET D |-> Rest(f, h2, s)]
  <2>. DEFINE h3 == [s \in SUBSET D |-> Rest(f, h2, s)]
  <2>1. DOMAIN h2 = SUBSET D
    OBVIOUS
  <2>2. h2 = [s \in SUBSET D |-> h2[s]]
    OBVIOUS
  <2>. HIDE DEF h2
  <2>. QED
    BY <1>9, <2>2
<1>. HIDE DEF h2
<1>. QED
  BY <1>10, Zenon DEF SumsUp

\* The sum is that of one element and of the rest.
LEMMA TotalGoesOn ==
  ASSUME NEW D, IsFiniteSet(D), NEW f
  PROVE  Total(f, D) = IF D = {} THEN 0 ELSE f[One(D)] + Total(f, D \ {One(D)})
<1>. DEFINE Of(s) == CHOOSE h : SumsUp(f, s, h)
<1>1. ASSUME NEW s, IsFiniteSet(s) PROVE \A t \in SUBSET s : Of(s)[t] = Rest(f, Of(s), t)
  <2>1. SumsUp(f, s, Of(s))
    BY <1>1, SumExists
  <2>. DEFINE g == Of(s)
  <2>2. SumsUp(f, s, g)
    BY <2>1
  <2>. HIDE DEF g
  <2>3. \A t \in SUBSET s : g[t] = Rest(f, g, t)
    BY <2>2 DEF SumsUp
  <2>. USE DEF g
  <2>. HIDE DEF Of
  <2>. QED
    BY <2>3
<1>2. \A s : Total(f, s) = Of(s)[s]
  BY TotalIs
<1>. HIDE DEF Of
<1>3. ASSUME NEW s, NEW t, IsFiniteSet(s), IsFiniteSet(t), s \subseteq t
      PROVE  Of(s)[s] = Of(t)[s]
  <2>. DEFINE Bad == {r \in SUBSET s : Of(s)[r] # Of(t)[r]}
  <2>1. SUFFICES ASSUME Bad # {} PROVE FALSE
    OBVIOUS
  <2>2. PICK m \in Bad : \A k \in Bad : k \subseteq m => k = m
    <3>1. Bad \in SUBSET SUBSET s
      OBVIOUS
    <3>. HIDE DEF Bad
    <3>. QED
      BY <1>3, <2>1, <3>1, MinimalSet
  <2>3. m \in SUBSET s /\ m \in SUBSET t /\ Of(s)[m] # Of(t)[m]
    BY <1>3
  <2>4. Of(s)[m] = Rest(f, Of(s), m) /\ Of(t)[m] = Rest(f, Of(t), m)
    BY <1>1, <1>3, <2>3
  <2>5. m # {}
    BY <2>3, <2>4 DEF Rest
  <2>6. m \ {One(m)} \in SUBSET s /\ m \ {One(m)} \subseteq m /\ m \ {One(m)} # m
    BY <2>3, <2>5, OneIs
  <2>7. Of(s)[m \ {One(m)}] = Of(t)[m \ {One(m)}]
    BY <2>2, <2>6
  <2>. QED
    BY <2>3, <2>4, <2>5, <2>7 DEF Rest
<1>4. CASE D = {}
  <2>1. Of(D)[D] = Rest(f, Of(D), D)
    BY <1>1
  <2>. QED
    BY <1>2, <1>4, <2>1 DEF Rest
<1>5. CASE D # {}
  <2>1. Of(D)[D] = f[One(D)] + Of(D)[D \ {One(D)}]
    BY <1>1, <1>5 DEF Rest
  <2>2. IsFiniteSet(D \ {One(D)})
    BY FS_RemoveElement
  <2>3. Of(D \ {One(D)})[D \ {One(D)}] = Of(D)[D \ {One(D)}]
    BY <1>3, <2>2
  <2>. QED
    BY <1>2, <1>5, <2>1, <2>3
<1>. QED
  BY <1>4, <1>5

LEMMA TotalIsNatural ==
  ASSUME NEW S, IsFiniteSet(S), NEW f \in [S -> Nat], NEW D \in SUBSET S
  PROVE  Total(f, D) \in Nat
<1>. DEFINE Bad == {r \in SUBSET S : Total(f, r) \notin Nat}
<1>1. SUFFICES ASSUME Bad # {} PROVE FALSE
  OBVIOUS
<1>2. PICK m \in Bad : \A k \in Bad : k \subseteq m => k = m
  <2>1. Bad \in SUBSET SUBSET S
    OBVIOUS
  <2>. HIDE DEF Bad
  <2>. QED
    BY <1>1, <2>1, MinimalSet
<1>3. m \in SUBSET S /\ IsFiniteSet(m) /\ Total(f, m) \notin Nat
  BY FS_Subset
<1>4. Total(f, m) = IF m = {} THEN 0 ELSE f[One(m)] + Total(f, m \ {One(m)})
  BY <1>3, TotalGoesOn
<1>5. m # {} /\ f[One(m)] \in Nat
  BY <1>3, <1>4, OneIs
<1>6. m \ {One(m)} \in SUBSET S /\ m \ {One(m)} \subseteq m /\ m \ {One(m)} # m
  BY <1>3, <1>5, OneIs
<1>7. Total(f, m \ {One(m)}) \in Nat
  BY <1>2, <1>6
<1>. QED
  BY <1>3, <1>4, <1>5, <1>7

\* The sum does not depend on the element it begins with.
LEMMA TotalSplits ==
  ASSUME NEW S, IsFiniteSet(S), NEW f \in [S -> Nat], NEW D \in SUBSET S, NEW d \in D
  PROVE  Total(f, D) = f[d] + Total(f, D \ {d})
<1>. DEFINE Bad == {r \in SUBSET S : \E x \in r : Total(f, r) # f[x] + Total(f, r \ {x})}
<1>1. SUFFICES ASSUME Bad # {} PROVE FALSE
  OBVIOUS
<1>2. PICK m \in Bad : \A k \in Bad : k \subseteq m => k = m
  <2>1. Bad \in SUBSET SUBSET S
    OBVIOUS
  <2>. HIDE DEF Bad
  <2>. QED
    BY <1>1, <2>1, MinimalSet
<1>3. PICK x \in m : Total(f, m) # f[x] + Total(f, m \ {x})
  OBVIOUS
<1>4. m \in SUBSET S /\ IsFiniteSet(m) /\ m # {}
  BY FS_Subset
<1>. DEFINE o == One(m)
<1>5. Total(f, m) = f[o] + Total(f, m \ {o})
  BY <1>4, TotalGoesOn
<1>6. o \in m /\ o # x
  BY <1>3, <1>4, <1>5, OneIs
<1>. HIDE DEF o
<1>7. Total(f, m \ {o}) = f[x] + Total(f, (m \ {o}) \ {x})
  <2>1. m \ {o} \in SUBSET S /\ m \ {o} \subseteq m /\ m \ {o} # m /\ x \in m \ {o}
    BY <1>4, <1>6
  <2>. QED
    BY <1>2, <2>1
<1>8. Total(f, m \ {x}) = f[o] + Total(f, (m \ {x}) \ {o})
  <2>1. m \ {x} \in SUBSET S /\ m \ {x} \subseteq m /\ m \ {x} # m /\ o \in m \ {x}
    BY <1>4, <1>6
  <2>. QED
    BY <1>2, <2>1
<1>9. (m \ {o}) \ {x} = (m \ {x}) \ {o}
  OBVIOUS
<1>10. f[o] \in Nat /\ f[x] \in Nat /\ Total(f, (m \ {x}) \ {o}) \in Nat
  BY <1>4, <1>6, TotalIsNatural
<1>11. \A a, b, c \in Nat : a + (b + c) = b + (a + c)
  OBVIOUS
<1>. DEFINE Y == Total(f, (m \ {x}) \ {o})
<1>12. f[o] + (f[x] + Y) = f[x] + (f[o] + Y)
  BY <1>10, <1>11, Zenon
<1>13. Total(f, m \ {o}) = f[x] + Y /\ Total(f, m \ {x}) = f[o] + Y
  BY <1>7, <1>8, <1>9, Zenon
<1>. HIDE DEF Y
<1>. QED
  BY <1>3, <1>5, <1>12, <1>13, Zenon

\* More directories hold no less.
LEMMA TotalGrows ==
  ASSUME NEW S, IsFiniteSet(S), NEW f \in [S -> Nat], NEW D \in SUBSET S, NEW C \in SUBSET D
  PROVE  Total(f, C) <= Total(f, D)
<1>. DEFINE Bad == {r \in SUBSET S : \E q \in SUBSET r : ~ (Total(f, q) <= Total(f, r))}
<1>1. SUFFICES ASSUME Bad # {} PROVE FALSE
  <2>1. D \in Bad \/ Total(f, C) <= Total(f, D)
    OBVIOUS
  <2>. QED
    BY <2>1
<1>2. PICK m \in Bad : \A k \in Bad : k \subseteq m => k = m
  <2>1. Bad \in SUBSET SUBSET S
    OBVIOUS
  <2>. HIDE DEF Bad
  <2>. QED
    BY <1>1, <2>1, MinimalSet
<1>3. PICK q \in SUBSET m : ~ (Total(f, q) <= Total(f, m))
  OBVIOUS
<1>4. m \in SUBSET S /\ q \in SUBSET S
  OBVIOUS
<1>5. Total(f, m) \in Nat /\ Total(f, q) \in Nat
  BY <1>4, TotalIsNatural
<1>6. PICK x \in m : x \notin q
  BY <1>3, <1>5
<1>7. Total(f, m) = f[x] + Total(f, m \ {x})
  BY <1>4, TotalSplits
<1>8. m \ {x} \in SUBSET S /\ m \ {x} \subseteq m /\ m \ {x} # m /\ q \in SUBSET (m \ {x})
  BY <1>4, <1>6
<1>9. Total(f, q) <= Total(f, m \ {x})
  BY <1>2, <1>8
<1>10. f[x] \in Nat /\ Total(f, m \ {x}) \in Nat
  BY <1>4, <1>6, <1>8, TotalIsNatural
<1>. QED
  BY <1>3, <1>5, <1>7, <1>9, <1>10

-----------------------------------------------------------------------------
(* What the parts of the invariant need of each other.                     *)

LEMMA UsageIs == \A D : Usage(D) = Total(used, D)
BY DEF Usage, Total

LEMMA MonitorSteps ==
  ASSUME MonitorNext
  PROVE  \/ startWorkspaceMonitor \/ LockPkg \/ FillDisk \/ Tick \/ Denied \/ RetryWalk
         \/ RemainedUnstable \/ WalkEnds \/ AddTree \/ Poll \/ PollFails \/ MonitorStops \/ Stop
         \/ \E d \in Dirs : \/ Create(d) \/ RemoveDir(d) \/ Write(d) \/ Visit(d)
                            \/ \E e \in Dirs : Move(d, e)
BY DEF MonitorNext, Package, Monitor, Walk

LEMMA TypesAre ==
  ASSUME MonitorTypeOK
  PROVE  /\ used \in [Dirs -> Nat] /\ count \in Nat
         /\ dirs \subseteq Dirs /\ todo \subseteq Dirs /\ watched \subseteq Dirs
         /\ Visible \subseteq Dirs /\ IsFiniteSet(Dirs) /\ Limit \in Nat
         /\ \A D \in SUBSET Dirs : Usage(D) \in Nat
<1>1. used \in [Dirs -> Nat]
  <2>1. used \in [Dirs -> 0 .. MaxUsed] /\ 0 .. MaxUsed \subseteq Nat
    BY WorkspaceAssumption DEF MonitorTypeOK
  <2>. QED
    BY <2>1
<1>2. \A D \in SUBSET Dirs : Usage(D) \in Nat
  BY <1>1, UsageIs, TotalIsNatural, WorkspaceAssumption
<1>. QED
  BY <1>1, <1>2, WorkspaceAssumption DEF MonitorTypeOK, Visible

\* Every step keeps the types: what a directory holds stays within its bound, and the
\* monitor has an error only once it has ended.
LEMMA TypesStep == ASSUME MonitorInv, [MonitorNext]_monitorVars PROVE MonitorTypeOK'
<1>. USE DEF workVars, walkVars, watchVars, Changes, Report, MonitorErrors, MonitorTypeOK
<1>0. MonitorTypeOK
  BY DEF MonitorInv
<1>1. CASE startWorkspaceMonitor
  BY <1>0, <1>1 DEF startWorkspaceMonitor, Visible
<1>2. CASE LockPkg
  BY <1>0, <1>2 DEF LockPkg
<1>3. CASE FillDisk
  BY <1>0, <1>3 DEF FillDisk
<1>4. CASE Tick
  BY <1>0, <1>4 DEF Tick
<1>5. CASE Denied
  BY <1>0, <1>5 DEF Denied
<1>6. CASE RetryWalk
  BY <1>0, <1>6 DEF RetryWalk
<1>7. CASE RemainedUnstable
  BY <1>0, <1>7 DEF RemainedUnstable
<1>8. CASE WalkEnds
  BY <1>0, <1>8 DEF WalkEnds
<1>9. CASE AddTree
  BY <1>0, <1>9 DEF AddTree, AddsAll, AddsSome, Visible
<1>10. CASE Poll
  BY <1>0, <1>10 DEF Poll
<1>11. CASE PollFails
  BY <1>0, <1>11 DEF PollFails
<1>12. CASE MonitorStops
  BY <1>0, <1>12 DEF MonitorStops
<1>13. CASE Stop
  BY <1>0, <1>13 DEF Stop
<1>14. ASSUME NEW d \in Dirs, Create(d) PROVE MonitorTypeOK'
  BY <1>0, <1>14 DEF Create
<1>15. ASSUME NEW d \in Dirs, RemoveDir(d) PROVE MonitorTypeOK'
  <2>1. 0 \in 0 .. MaxUsed
    BY WorkspaceAssumption
  <2>. QED
    BY <1>0, <1>15, <2>1 DEF RemoveDir
<1>16. ASSUME NEW d \in Dirs, Write(d) PROVE MonitorTypeOK'
  BY <1>0, <1>16 DEF Write
<1>17. ASSUME NEW d \in Dirs, Visit(d) PROVE MonitorTypeOK'
  <2>1. count + used[d] \in Nat
    BY <1>0, TypesAre
  <2>2. count' \in Nat
    BY <1>0, <1>17, <2>1, Zenon DEF Visit
  <2>. QED
    BY <1>0, <1>17, <2>2 DEF Visit
<1>18. ASSUME NEW d \in Dirs, NEW e \in Dirs, Move(d, e) PROVE MonitorTypeOK'
  <2>1. used[d] - 1 \in 0 .. MaxUsed /\ used[e] + 1 \in 0 .. MaxUsed
    BY <1>0, <1>18, WorkspaceAssumption DEF Move
  <2>2. used' = [used EXCEPT ![d] = used[d] - 1, ![e] = used[e] + 1]
    BY <1>0, <1>18 DEF Move
  <2>3. used' \in [Dirs -> 0 .. MaxUsed]
    <3>. DEFINE less == used[d] - 1  more == used[e] + 1
    <3>1. less \in 0 .. MaxUsed /\ more \in 0 .. MaxUsed
          /\ used' = [used EXCEPT ![d] = less, ![e] = more]
      BY <2>1, <2>2
    <3>. HIDE DEF less, more
    <3>. QED
      BY <1>0, <3>1
  <2>. QED
    BY <1>0, <1>18, <2>3 DEF Move
<1>19. CASE UNCHANGED monitorVars
  BY <1>0, <1>19 DEF monitorVars
<1>. QED
  BY <1>1, <1>2, <1>3, <1>4, <1>5, <1>6, <1>7, <1>8, <1>9, <1>10, <1>11, <1>12, <1>13, <1>14,
     <1>15, <1>16, <1>17, <1>18, <1>19, MonitorSteps

\* A reason to rebuild the watches goes only when they have been rebuilt: a new
\* directory is in the queue, a closed pkg was seen closed, and a failed addTree keeps
\* refreshWatches (workspaceMonitor.run).
LEMMA WatchesCoverStep == ASSUME MonitorInv, [MonitorNext]_monitorVars PROVE WatchesCover'
<1>. USE DEF workVars, walkVars, watchVars, Changes, Report, WatchesCover
<1>0. MonitorTypeOK /\ WatchesCover
  BY DEF MonitorInv
<1>1. CASE startWorkspaceMonitor
  BY <1>0, <1>1 DEF startWorkspaceMonitor, Visible, Hidden, MonitorTypeOK
<1>2. CASE LockPkg
  BY <1>0, <1>2 DEF LockPkg
<1>3. CASE FillDisk
  BY <1>0, <1>3 DEF FillDisk
<1>4. CASE Tick
  BY <1>0, <1>4 DEF Tick
<1>5. CASE Denied
  BY <1>0, <1>5 DEF Denied
<1>6. CASE RetryWalk
  BY <1>0, <1>6 DEF RetryWalk
<1>7. CASE RemainedUnstable
  BY <1>0, <1>7 DEF RemainedUnstable
<1>8. CASE WalkEnds
  BY <1>0, <1>8 DEF WalkEnds
<1>9. CASE AddTree
  <2>1. CASE mon' = "ended"
    BY <2>1
  <2>2. CASE mon' # "ended" /\ AddsAll
    BY <1>0, <1>9, <2>2 DEF AddTree, AddsAll, Visible, Hidden, MonitorTypeOK
  <2>3. CASE mon' # "ended" /\ ~AddsAll
    BY <1>9, <2>3 DEF AddTree
  <2>. QED
    BY <2>1, <2>2, <2>3
<1>10. CASE Poll
  BY <1>0, <1>10 DEF Poll
<1>11. CASE PollFails
  BY <1>0, <1>11 DEF PollFails
<1>12. CASE MonitorStops
  BY <1>0, <1>12 DEF MonitorStops
<1>13. CASE Stop
  BY <1>0, <1>13 DEF Stop
<1>14. ASSUME NEW d \in Dirs, Create(d) PROVE WatchesCover'
  BY <1>0, <1>14 DEF Create
<1>15. ASSUME NEW d \in Dirs, RemoveDir(d) PROVE WatchesCover'
  BY <1>0, <1>15 DEF RemoveDir
<1>16. ASSUME NEW d \in Dirs, Write(d) PROVE WatchesCover'
  BY <1>0, <1>16 DEF Write
<1>17. ASSUME NEW d \in Dirs, Visit(d) PROVE WatchesCover'
  BY <1>0, <1>17 DEF Visit
<1>18. ASSUME NEW d \in Dirs, NEW e \in Dirs, Move(d, e) PROVE WatchesCover'
  BY <1>0, <1>18 DEF Move
<1>19. CASE UNCHANGED monitorVars
  BY <1>0, <1>19 DEF monitorVars
<1>. QED
  BY <1>1, <1>2, <1>3, <1>4, <1>5, <1>6, <1>7, <1>8, <1>9, <1>10, <1>11, <1>12, <1>13, <1>14,
     <1>15, <1>16, <1>17, <1>18, <1>19, MonitorSteps

\* While nothing in the workspace changes, neither does what it holds.
LEMMA Still ==
  ASSUME UNCHANGED <<dirs, used, locked>>
  PROVE  /\ Visible' = Visible /\ Usage(Visible)' = Usage(Visible)
         /\ Usage(Visible \ todo)' = Usage(Visible \ todo')
<1>1. Visible' = Visible
  BY DEF Visible, Hidden
<1>2. Usage(Visible)' = Total(used', Visible')
  BY Zenon DEF Usage, Total, MapThenSumSet, MapThenFoldSet
<1>3. Usage(Visible \ todo)' = Total(used', Visible' \ todo')
  BY Zenon DEF Usage, Total, MapThenSumSet, MapThenFoldSet
<1>4. used' = used
  OBVIOUS
<1>. QED
  BY <1>1, <1>2, <1>3, <1>4, UsageIs, Zenon

Counts == WalkCounts /\ VerdictFits /\ (mon = "off" => ~stable)

\* What the package does, and a supervisor that stops the monitor, cannot make a walk
\* that nothing disturbed inexact.
LEMMA Disturbed == ASSUME stable' = FALSE PROVE Counts'
BY DEF Counts, WalkCounts, VerdictFits

LEMMA Kept ==
  ASSUME Counts, UNCHANGED <<dirs, used, locked, scarce, walkVars>>, mon # "off", mon' # "off",
         mon' \in {"walk", "denied"} => mon \in {"walk", "denied"},
         mon' \in {"select", "refresh", "adding"} => mon \in {"select", "refresh", "adding"},
         merr' = "limit" => merr = "limit"
  PROVE  Counts'
<1>1. /\ UNCHANGED <<dirs, used, locked, scarce, stable, todo, count>>
  BY DEF walkVars
<1>2. /\ Usage(Visible)' = Usage(Visible) /\ Usage(Visible \ todo)' = Usage(Visible \ todo')
      /\ Usage(Visible \ todo') = Usage(Visible \ todo)
  BY <1>1, Still
<1>3. WalkCounts'
  BY <1>1, <1>2 DEF Counts, WalkCounts
<1>4. VerdictFits'
  BY <1>1, <1>2 DEF Counts, VerdictFits, OverLimit
<1>. QED
  BY <1>3, <1>4 DEF Counts

\* A walk begins with nothing counted (reconcile).
LEMMA Begun ==
  ASSUME MonitorTypeOK, UNCHANGED <<workVars, merr>>, mon # "ended", mon' = "walk", todo' = dirs,
         count' = 0
  PROVE  Counts'
<1>1. Usage(Visible \ todo)' = 0
  <2>1. Usage(Visible \ todo)' = Usage(Visible \ todo')
    BY Still DEF workVars
  <2>2. Visible \ todo' = {}
    BY DEF Visible
  <2>3. Total(used, {}) = 0
    BY TotalGoesOn, FS_EmptySet
  <2>. QED
    BY <2>1, <2>2, <2>3, UsageIs, Zenon
<1>2. merr' = "none"
  BY DEF MonitorTypeOK, MonitorErrors
<1>3. 0 <= Limit
  BY WorkspaceAssumption
<1>4. WalkCounts'
  BY <1>1, <1>3 DEF WalkCounts
<1>. QED
  BY <1>2, <1>4 DEF Counts, VerdictFits

\* One directory more is counted once, hidden or not (reconcileOnce).
LEMMA Counted ==
  ASSUME MonitorTypeOK, Counts, NEW d \in Dirs, Visit(d)
  PROVE  Counts'
<1>0. /\ mon = "walk" /\ d \in todo /\ todo' = todo \ {d} /\ merr = "none"
      /\ UNCHANGED <<dirs, used, locked, scarce, stable>>
  BY DEF Visit, workVars, MonitorTypeOK, MonitorErrors
<1>1. CASE ~stable
  BY <1>0, <1>1, Disturbed, TypesAre DEF MonitorTypeOK
<1>2. CASE stable
  <2>1. /\ count = Usage(Visible \ todo) /\ count <= Limit
    BY <1>0, <1>2 DEF Counts, WalkCounts
  <2>2. Usage(Visible)' = Usage(Visible) /\ Usage(Visible \ todo)' = Usage(Visible \ todo')
    BY <1>0, Still
  <2>3. CASE d \in Visible /\ count' = count + used[d]
             /\ IF count' > Limit THEN Report("limit") ELSE UNCHANGED <<mon, merr>>
    <3>1. Usage(Visible \ todo') = used[d] + Usage(Visible \ todo)
      <4>1. d \in Visible \ todo' /\ (Visible \ todo') \ {d} = Visible \ todo
            /\ Visible \ todo' \in SUBSET Dirs
        BY <1>0, <2>3, TypesAre
      <4>2. Total(used, Visible \ todo') = used[d] + Total(used, (Visible \ todo') \ {d})
        BY <4>1, TotalSplits, TypesAre
      <4>. QED
        BY <4>1, <4>2, UsageIs, Zenon
    <3>2. used[d] \in Nat /\ Usage(Visible \ todo) \in Nat /\ Usage(Visible) \in Nat
          /\ Usage(Visible \ todo') \in Nat
      BY TypesAre
    <3>3. count' = Usage(Visible \ todo')
      <4>1. \A a, b \in Nat : a + b = b + a
        OBVIOUS
      <4>. QED
        BY <2>1, <2>3, <3>1, <3>2, <4>1, Zenon
    <3>4. CASE count' > Limit
      <4>1. Usage(Visible \ todo') <= Usage(Visible)
        <5>1. Visible \in SUBSET Dirs /\ Visible \ todo' \in SUBSET Visible
              /\ IsFiniteSet(Dirs) /\ used \in [Dirs -> Nat]
          BY TypesAre
        <5>2. Total(used, Visible \ todo') <= Total(used, Visible)
          BY <5>1, TotalGrows
        <5>. QED
          BY <5>2, UsageIs, Zenon
      <4>2. Usage(Visible) > Limit
        <5>1. Usage(Visible \ todo') > Limit
          BY <3>3, <3>4, Zenon
        <5>. QED
          BY <3>2, <4>1, <5>1, WorkspaceAssumption
      <4>3. mon' = "ended" /\ OverLimit'
        BY <2>2, <2>3, <3>4, <4>2 DEF Report, OverLimit
      <4>. QED
        BY <4>3 DEF Counts, WalkCounts, VerdictFits
    <3>5. CASE ~ (count' > Limit)
      <4>1. mon' = "walk" /\ merr' = "none"
        BY <1>0, <2>3, <3>5
      <4>2. count' <= Limit
        <5>1. \A a, b \in Nat : ~ (a > b) => a <= b
          OBVIOUS
        <5>. QED
          BY <3>2, <3>3, <3>5, <5>1, WorkspaceAssumption, Zenon
      <4>3. WalkCounts'
        BY <2>2, <3>3, <4>2 DEF WalkCounts
      <4>. QED
        BY <4>1, <4>3 DEF Counts, VerdictFits
    <3>. QED
      BY <3>4, <3>5
  <2>4. CASE d \in dirs \cap Hidden /\ mon' = "denied" /\ UNCHANGED <<count, merr>>
    <3>1. Visible \ todo' = Visible \ todo
      BY <1>0, <2>4 DEF Visible
    <3>2. WalkCounts'
      BY <2>1, <2>2, <2>4, <3>1 DEF WalkCounts
    <3>. QED
      BY <1>0, <2>4, <3>2 DEF Counts, VerdictFits
  <2>. QED
    BY <1>2, <2>3, <2>4 DEF Visit
<1>. QED
  BY <1>1, <1>2

\* A walk that nothing disturbed ends within the limit, or with the reason not to
\* (reconcileOnce).
LEMMA Walked ==
  ASSUME MonitorTypeOK, Counts, WalkEnds
  PROVE  Counts'
<1>0. /\ mon = "walk" /\ todo = {} /\ merr = "none"
      /\ UNCHANGED <<dirs, used, locked, scarce, stable, todo, count>>
  BY DEF WalkEnds, workVars, walkVars, MonitorTypeOK, MonitorErrors
<1>1. stable => Usage(Visible) <= Limit
  <2>1. Visible \ todo = Visible
    BY <1>0
  <2>2. stable => count = Usage(Visible \ todo) /\ count <= Limit
    BY <1>0 DEF Counts, WalkCounts
  <2>. QED
    BY <2>1, <2>2, Zenon
<1>2. Usage(Visible)' = Usage(Visible)
  BY <1>0, Still
<1>3. CASE scarce
  BY <1>0, <1>3 DEF WalkEnds, Report, Counts, WalkCounts, VerdictFits, OverLimit
<1>4. CASE ~scarce
  <2>1. mon' \in {"refresh", "select"} /\ merr' = "none"
    BY <1>0, <1>4 DEF WalkEnds
  <2>. QED
    BY <1>0, <1>1, <1>2, <2>1 DEF Counts, WalkCounts, VerdictFits
<1>. QED
  BY <1>3, <1>4

\* The count of a walk in a tree that keeps still is exact after every step.
LEMMA CountsStep == ASSUME MonitorInv, [MonitorNext]_monitorVars PROVE Counts'
<1>. USE DEF walkVars, Changes, Report
<1>0. MonitorTypeOK /\ Counts /\ stable \in BOOLEAN
  BY DEF MonitorInv, Counts, MonitorTypeOK
<1>a. workVars' = workVars => UNCHANGED <<dirs, used, locked, scarce>>
  BY DEF workVars
<1>1. CASE startWorkspaceMonitor
  <2>1. stable' = FALSE
    BY <1>0, <1>1 DEF startWorkspaceMonitor, Counts
  <2>. QED
    BY <2>1, Disturbed
<1>2. CASE LockPkg
  BY <1>2, Disturbed DEF LockPkg
<1>3. CASE FillDisk
  BY <1>3, Disturbed DEF FillDisk
<1>4. CASE Tick
  BY <1>0, <1>4, Begun DEF Tick
<1>5. CASE Denied
  BY <1>0, <1>a, <1>5, Kept DEF Denied
<1>6. CASE RetryWalk
  BY <1>0, <1>6, Begun DEF RetryWalk
<1>7. CASE RemainedUnstable
  BY <1>0, <1>a, <1>7, Kept DEF RemainedUnstable
<1>8. CASE WalkEnds
  BY <1>0, <1>8, Walked
<1>9. CASE AddTree
  <2>1. /\ UNCHANGED <<dirs, used, locked, scarce, walkVars>> /\ mon \in {"refresh", "adding"}
        /\ mon' \in {"ended", "select"} /\ (merr' = "limit" => merr = "limit")
    BY <1>a, <1>9 DEF AddTree
  <2>. QED
    BY <1>0, <2>1, Kept
<1>10. CASE Poll
  BY <1>0, <1>a, <1>10, Kept DEF Poll
<1>11. CASE PollFails
  BY <1>0, <1>a, <1>11, Kept DEF PollFails
<1>12. CASE MonitorStops
  BY <1>0, <1>a, <1>12, Kept DEF MonitorStops
<1>13. CASE Stop
  BY <1>0, <1>13, Kept DEF Stop
<1>14. ASSUME NEW d \in Dirs, Create(d) PROVE Counts'
  BY <1>14, Disturbed DEF Create
<1>15. ASSUME NEW d \in Dirs, RemoveDir(d) PROVE Counts'
  BY <1>15, Disturbed DEF RemoveDir
<1>16. ASSUME NEW d \in Dirs, Write(d) PROVE Counts'
  BY <1>16, Disturbed DEF Write
<1>17. ASSUME NEW d \in Dirs, Visit(d) PROVE Counts'
  BY <1>0, <1>17, Counted
<1>18. ASSUME NEW d \in Dirs, NEW e \in Dirs, Move(d, e) PROVE Counts'
  BY <1>18, Disturbed DEF Move
<1>19. CASE UNCHANGED monitorVars
  <2>1. UNCHANGED <<dirs, used, locked, scarce, mon, stable, todo, count, merr>>
    BY <1>19 DEF monitorVars, workVars
  <2>2. CASE mon = "off"
    <3>1. stable' = FALSE
      BY <1>0, <2>1, <2>2 DEF Counts
    <3>. QED
      BY <3>1, Disturbed
  <2>3. CASE mon # "off"
    BY <1>0, <2>1, <2>3, Kept
  <2>. QED
    BY <2>2, <2>3
<1>. QED
  BY <1>1, <1>2, <1>3, <1>4, <1>5, <1>6, <1>7, <1>8, <1>9, <1>10, <1>11, <1>12, <1>13, <1>14,
     <1>15, <1>16, <1>17, <1>18, <1>19, MonitorSteps

-----------------------------------------------------------------------------
(* The invariant, and what it is for.                                      *)

LEMMA MonitorInitially == MonitorInit => MonitorInv
<1>. SUFFICES ASSUME MonitorInit PROVE MonitorInv
  OBVIOUS
<1>1. mon = "off" /\ stable = FALSE
  BY DEF MonitorInit
<1>2. locked \in BOOLEAN
  <2>1. locked \in {FALSE, (Pkg \in dirs)}
    BY DEF MonitorInit
  <2>2. (Pkg \in dirs) \in BOOLEAN
    OBVIOUS
  <2>3. \A a, b : b \in BOOLEAN /\ a \in {FALSE, b} => a \in BOOLEAN
    OBVIOUS
  <2>. QED
    BY <2>1, <2>2, <2>3, Zenon
<1>3. MonitorTypeOK
  BY <1>2 DEF MonitorInit, MonitorTypeOK
<1>. QED
  BY <1>1, <1>3 DEF MonitorInv, WatchesCover, WalkCounts, VerdictFits

LEMMA MonitorInductively == MonitorInv /\ [MonitorNext]_monitorVars => MonitorInv'
<1>. SUFFICES ASSUME MonitorInv, [MonitorNext]_monitorVars PROVE MonitorInv'
  OBVIOUS
<1>1. MonitorTypeOK' /\ WatchesCover' /\ Counts'
  BY TypesStep, WatchesCoverStep, CountsStep
<1>. QED
  BY <1>1 DEF Counts, MonitorInv

\* The invariant holds for every set of directories and every limit, however package
\* code and makepkg interleave with the walks.
THEOREM MonitorInductive == MonitorSpec => []MonitorInv
BY MonitorInitially, MonitorInductively, PTL DEF MonitorSpec

\* Every variable keeps its type, and only a monitor that has ended has an error.
THEOREM MonitorTypeCorrect == MonitorSpec => []MonitorTypeOK
<1>1. MonitorInv => MonitorTypeOK
  BY DEF MonitorInv
<1>. QED
  BY <1>1, MonitorInductive, PTL

\* A walk that nothing disturbed counts every visible directory once, passes only
\* within the limits and fails with a limit only beyond them (reconcileOnce).
THEOREM ExactAccounting == MonitorSpec => []AccountingIsExact
<1>1. MonitorInv => AccountingIsExact
  BY DEF MonitorInv, WalkCounts, VerdictFits, AccountingIsExact
<1>. QED
  BY <1>1, MonitorInductive, PTL

\* Every directory that can be read is watched, or the monitor still has a reason to
\* rebuild its watches (workspaceMonitor.run).
THEOREM NothingForgotten == MonitorSpec => []NoDirectoryIsForgotten
<1>1. MonitorInv => NoDirectoryIsForgotten
  BY DEF MonitorInv, WatchesCover, NoDirectoryIsForgotten, Visible
<1>. QED
  BY <1>1, MonitorInductive, PTL
=============================================================================
