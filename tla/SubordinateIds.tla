--------------------------- MODULE SubordinateIds ---------------------------
(***************************************************************************)
(* Which subordinate ids a namespace is built from and what the kernel is  *)
(* found to have mapped (internal/contain/subid.go, userns.go): the lookup *)
(* in one of /etc/subuid and /etc/subgid, the arguments given to unshare,  *)
(* what unshare makes of them, and the reading back of the mapping.  A     *)
(* span maps `count` namespace ids from `ns` to host ids from `host`.      *)
(***************************************************************************)
EXTENDS Integers, Sequences, FiniteSets, FiniteSetsExt

CONSTANTS
  IdSpace,    \* ids an archive may name, 65536 in the code
  MaxSubId,   \* exclusive end of the mappable ids, 2^32 - 1 in the code
  MaxLines    \* bound on the lines of the file

ASSUME IdConstants == IdSpace \in Nat \ {0} /\ MaxSubId \in Nat /\ MaxLines \in Nat

minDelegation == IdSpace
Me == "me"
Other == "other"
NoRange == [start |-> 0, count |-> 0]
Ranges == [start : 0 .. MaxSubId - 1, count : 1 .. MaxSubId]
Lines == [owner : {Me, Other}, ids : Ranges]

VARIABLES
  step,      \* "lookup", "map", "verify", or how the attempt ended
  entries,   \* the lines of the file
  id,        \* the invoking id
  range,     \* the delegation that was chosen
  spans      \* what the kernel mapped

idsVars == <<step, entries, id, range, spans>>

subIDEnd(r) == r.start + r.count
Ids(r) == r.start .. subIDEnd(r) - 1
subIDRangesOverlap(a, b) == a.start < subIDEnd(b) /\ b.start < subIDEnd(a)

Own == {i \in DOMAIN entries : entries[i].owner = Me}
Foreign == DOMAIN entries \ Own

IdsInit ==
  /\ step = "lookup"
  /\ entries \in UNION {[1 .. n -> Lines] : n \in 0 .. MaxLines}
  /\ id \in 0 .. MaxSubId - 1
  /\ range = NoRange /\ spans = {}

----------------------------------------------------------------------------
\* What makes the lookup refuse the file.
Malformed == \E i \in DOMAIN entries : subIDEnd(entries[i].ids) > MaxSubId
Shared == \E i \in Own, j \in Foreign : subIDRangesOverlap(entries[i].ids, entries[j].ids)
ContainsCaller == \E i \in Own : id \in Ids(entries[i].ids)

\* The widest of the own ranges, the first of them where several are.
Widest == CHOOSE i \in Own :
  \A j \in Own : /\ entries[j].ids.count <= entries[i].ids.count
                 /\ entries[j].ids.count = entries[i].ids.count => i <= j

\* Mutant of lookupSubIDFile: only the range that is taken is held against others.
lookupSubIDFile_chosenOnly ==
  /\ step = "lookup"
  /\ IF \/ Malformed \/ Own = {} \/ ContainsCaller
        \/ \E j \in Foreign : entries[j].ids.start \in Ids(entries[Widest].ids)
        \/ entries[Widest].ids.count < minDelegation
     THEN step' = "refused" /\ UNCHANGED range
     ELSE step' = "map" /\ range' = entries[Widest].ids
  /\ UNCHANGED <<entries, id, spans>>

lookupSubIDFile ==
  /\ step = "lookup"
  /\ IF \/ Malformed \/ Own = {} \/ Shared \/ ContainsCaller
        \/ entries[Widest].ids.count < minDelegation
     THEN step' = "refused" /\ UNCHANGED range
     ELSE step' = "map" /\ range' = entries[Widest].ids
  /\ UNCHANGED <<entries, id, spans>>

\* Mutant of mapCount: the id just past the range is not asked for.
mapCount_exact == IF range.count < IdSpace THEN range.count ELSE IdSpace

\* How many ids mapArgs asks unshare to map from the start of the range.
mapCount ==
  LET count == IF range.count < IdSpace THEN range.count ELSE IdSpace
  IN  IF id = count THEN count + 1 ELSE count

Span(ns, host, count) == [ns |-> ns, host |-> host, count |-> count]

\* unshare takes the single id out of the range, also where it equals the
\* exclusive end, and shifts the rest of the range down.
Unshared ==
  LET count == IF id <= mapCount THEN mapCount - 1 ELSE mapCount
      below == IF id < count THEN id ELSE count
  IN  {Span(id, id, 1), Span(0, range.start, below),
       Span(id + 1, range.start + below, count - below)}

\* The kernel shows what unshare asked for, or a mapping it applied in part or at
\* another place.
Unshare ==
  /\ step = "map" /\ step' = "verify"
  /\ LET asked == {s \in Unshared : s.count > 0} IN
     \/ spans' = asked
     \/ \E s \in asked : spans' = asked \ {s}
     \/ \E s \in asked : spans' = (asked \ {s}) \cup {[s EXCEPT !.host = @ + 1]}
  /\ UNCHANGED <<entries, id, range>>

Covered == {n \in 0 .. IdSpace - 1 : \E s \in spans : n >= s.ns /\ n < s.ns + s.count}

\* The span of the lowest start that holds the id of the caller.
MapsCallerToItself ==
  \E s \in spans : /\ s.ns <= id /\ id < s.ns + s.count
                   /\ \A o \in spans : (o.ns <= id /\ id < o.ns + o.count) => s.ns <= o.ns
                   /\ s.host + (id - s.ns) = id

\* Mutant of verifyMappingText: only 0 and the caller are looked at.
verifyMappingText_samples ==
  /\ step = "verify"
  /\ step' = IF (\E s \in spans : s.ns = 0) /\ MapsCallerToItself THEN "accepted" ELSE "rejected"
  /\ UNCHANGED <<entries, id, range, spans>>

\* The sorted walk stops at the first gap, so what it covers is everything below it.
verifyMappingText ==
  /\ step = "verify"
  /\ step' = IF Cardinality(Covered) = IdSpace /\ MapsCallerToItself
             THEN "accepted" ELSE "rejected"
  /\ UNCHANGED <<entries, id, range, spans>>

IdsNext == lookupSubIDFile \/ Unshare \/ verifyMappingText

IdsSpec == IdsInit /\ [][IdsNext]_idsVars

----------------------------------------------------------------------------
HostIds == UNION {s.host .. s.host + s.count - 1 : s \in spans}

\* A range is used only where its owner is alone with every id of it, and no
\* id that is mapped belongs to somebody else or, but for the caller's own, was
\* not delegated (lookupSubIDFile, mapArgs).
NobodyElsesIds ==
  /\ step \in {"map", "verify", "accepted"} =>
       \A i \in Own, j \in Foreign : Ids(entries[i].ids) \cap Ids(entries[j].ids) = {}
  /\ step = "verify" /\ spans = {s \in Unshared : s.count > 0} =>
       HostIds \subseteq Ids(range) \cup {id}

\* In an accepted namespace every id an archive may name is mapped, so that no
\* chown in it fails with EINVAL, and the caller is itself (verifyMappingText).
EveryArchiveIdIsMapped ==
  step = "accepted" =>
    /\ Covered = 0 .. IdSpace - 1
    /\ \E s \in spans : s.ns <= id /\ id - s.ns < s.count /\ s.host + (id - s.ns) = id

\* What unshare makes of the arguments is never refused afterwards, wherever the
\* caller lies: inside the range, at its end or past it, and no namespace id is
\* mapped twice (mapArgs).
AskedMappingIsComplete ==
  step = "verify" /\ spans = {s \in Unshared : s.count > 0} =>
    /\ Covered = 0 .. IdSpace - 1 /\ MapsCallerToItself
    /\ \A s, o \in spans : s # o => s.ns + s.count <= o.ns \/ o.ns + o.count <= s.ns

\* No subordinate id is used that is not the caller's alone, the mapping asked for
\* is accepted wherever the caller's id lies, and in an accepted namespace every id
\* an archive may name is mapped (lookupSubIDFile, mapArgs, verifyMappingText).
NamespaceIdsAreSound == NobodyElsesIds /\ AskedMappingIsComplete /\ EveryArchiveIdIsMapped

----------------------------------------------------------------------------
(* The inductive invariant behind the three.                               *)

IdsTypeOK ==
  /\ step \in {"lookup", "map", "verify", "accepted", "rejected", "refused"}
  /\ \E n \in 0 .. MaxLines : entries \in [1 .. n -> Lines]
  /\ id \in 0 .. MaxSubId - 1
  /\ \A s \in spans : s.ns \in Nat /\ s.host \in Nat /\ s.count \in Nat

\* The range that is used is a line of the caller's own in a file that was not
\* refused, and wide enough.
RangeIsDelegated ==
  step \notin {"lookup", "refused"} =>
    /\ ~Malformed /\ ~Shared /\ ~ContainsCaller
    /\ \E i \in Own : range = entries[i].ids
    /\ range.count >= minDelegation

AcceptedIsComplete ==
  step = "accepted" => Covered = 0 .. IdSpace - 1 /\ MapsCallerToItself

IdsInv == IdsTypeOK /\ RangeIsDelegated /\ AcceptedIsComplete
=============================================================================
