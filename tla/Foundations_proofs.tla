------------------------- MODULE Foundations_proofs -------------------------
(***************************************************************************)
(* Proofs about the machines of Foundations.                               *)
(***************************************************************************)
EXTENDS Foundations, Texts_proofs

----------------------------------------------------------------------------
(* The ids of a namespace (SubordinateIds).                                *)

\* A caller with a line of his own has a widest one, and a first among the widest.
LEMMA WidestIsOwn ==
  ASSUME IdsTypeOK, Own # {}
  PROVE  Widest \in Own
<1>. DEFINE Rest(i) == MaxSubId - entries[i].ids.count
            Rests == {Rest(i) : i \in Own}
<1>1. PICK n \in 0 .. MaxLines : entries \in [1 .. n -> Lines]
  BY DEF IdsTypeOK
<1>2. Own \in SUBSET Nat
  BY <1>1, IdConstants DEF Own
<1>3. \A i \in Own : entries[i].ids.count \in 1 .. MaxSubId /\ Rest(i) \in Nat
  BY <1>1, IdConstants DEF Own, Lines, Ranges
<1>4. PICK least \in Rests : \A r \in Rests : least <= r
  <2>1. Rests \in SUBSET Nat /\ Rests # {}
    BY <1>3
  <2>. HIDE DEF Rests
  <2>. QED
    BY <2>1, LeastNat
<1>. DEFINE Wide == {i \in Own : Rest(i) = least}
<1>5. PICK w \in Wide : \A i \in Wide : w <= i
  <2>1. Wide \in SUBSET Nat /\ Wide # {}
    BY <1>2
  <2>. HIDE DEF Wide
  <2>. QED
    BY <2>1, LeastNat
<1>6. w \in Own /\ Rest(w) = least
  OBVIOUS
<1>7. ASSUME NEW j \in Own
      PROVE  /\ entries[j].ids.count <= entries[w].ids.count
             /\ entries[j].ids.count = entries[w].ids.count => w <= j
  <2>1. Rest(w) <= Rest(j)
    BY <1>4, <1>6
  <2>2. entries[j].ids.count = entries[w].ids.count => j \in Wide
    BY <1>6
  <2>3. entries[j].ids.count \in Int /\ entries[w].ids.count \in Int /\ MaxSubId \in Int
    BY <1>3, <1>6, IdConstants
  <2>4. entries[j].ids.count <= entries[w].ids.count
    BY <2>1, <2>3
  <2>. HIDE DEF Wide
  <2>. QED
    BY <1>5, <2>2, <2>4
<1>. DEFINE First(i) == \A j \in Own : /\ entries[j].ids.count <= entries[i].ids.count
                                       /\ entries[j].ids.count = entries[i].ids.count => i <= j
<1>8. First(w)
  BY <1>7
<1>9. Widest = CHOOSE i \in Own : First(i)
  BY DEF Widest
<1>. HIDE DEF First
<1>. QED
  BY <1>6, <1>8, <1>9, Zenon

LEMMA IdsInitially == IdsInit => IdsInv
BY DEF IdsInit, IdsInv, IdsTypeOK, RangeIsDelegated, AcceptedIsComplete

\* Covered says how many of the ids an archive may name are mapped; all of them are
\* when there are as many as that.
LEMMA CoveredIsAll ==
  ASSUME Cardinality(Covered) = IdSpace
  PROVE  Covered = 0 .. IdSpace - 1
<1>1. IdSpace \in Nat /\ IdSpace - 1 \in Int
  BY IdConstants
<1>2. IsFiniteSet(0 .. IdSpace - 1) /\ Cardinality(0 .. IdSpace - 1) = IdSpace
  <2>1. Cardinality(0 .. IdSpace - 1) = IF 0 > IdSpace - 1 THEN 0 ELSE (IdSpace - 1) - 0 + 1
    BY <1>1, FS_Interval
  <2>2. IdSpace # 0
    BY IdConstants
  <2>. QED
    BY <1>1, <2>1, <2>2, FS_Interval
<1>3. Covered \subseteq 0 .. IdSpace - 1
  BY DEF Covered
<1>. QED
  BY <1>2, <1>3, FS_Subset

\* The delegation that is used: inside the mappable ids, and not the caller's own id.
LEMMA RangeIs ==
  ASSUME IdsInv, step \notin {"lookup", "refused"}
  PROVE  /\ range.start \in Nat /\ range.count \in Nat /\ range.count >= IdSpace
         /\ id \in Nat /\ IdSpace \in Nat \ {0}
<1>1. PICK n \in 0 .. MaxLines : entries \in [1 .. n -> Lines]
  BY DEF IdsInv, IdsTypeOK
<1>2. PICK i \in Own : range = entries[i].ids
  BY DEF IdsInv, RangeIsDelegated
<1>3. range \in Ranges
  BY <1>1, <1>2 DEF Own, Lines
<1>4. range.start \in Nat /\ range.count \in Nat
  BY <1>3, IdConstants DEF Ranges
<1>5. range.count >= IdSpace /\ id \in Nat
  BY IdConstants DEF IdsInv, RangeIsDelegated, IdsTypeOK, minDelegation
<1>. QED
  BY <1>4, <1>5, IdConstants

\* The ids below the caller's, and those above it that an archive may name.
Below == IF id < IdSpace THEN id ELSE IdSpace
Above == IF id < IdSpace THEN IdSpace - 1 - id ELSE 0

\* What unshare makes of the arguments: the caller's id, what is below it and what
\* is above it, at the start of the range one after the other.
LEMMA UnsharedIs ==
  ASSUME IdsInv, step \notin {"lookup", "refused"}
  PROVE  Unshared = {Span(id, id, 1), Span(0, range.start, Below),
                     Span(id + 1, range.start + Below, Above)}
<1>0. /\ range.start \in Nat /\ range.count \in Nat /\ range.count >= IdSpace
      /\ id \in Nat /\ IdSpace \in Nat \ {0}
  BY RangeIs
<1>. DEFINE count == IF id <= mapCount THEN mapCount - 1 ELSE mapCount
            below == IF id < count THEN id ELSE count
<1>1. mapCount = IF id = IdSpace THEN IdSpace + 1 ELSE IdSpace
  BY <1>0 DEF mapCount
<1>2. below = Below /\ count - below = Above
  BY <1>0, <1>1 DEF Below, Above
<1>. QED
  BY <1>2, Zenon DEF Unshared

\* Together they are every id an archive may name, and fit into the range.
LEMMA PartsAre ==
  ASSUME IdsInv, step \notin {"lookup", "refused"}
  PROVE  /\ Below \in Nat /\ Above \in Nat /\ Below <= id /\ Below + Above <= range.count
         /\ Below + Above <= IdSpace
         /\ \A n \in 0 .. IdSpace - 1 : n < Below \/ n = id \/ (n >= id + 1 /\ n < id + 1 + Above)
BY RangeIs DEF Below, Above

\* The mapping has numbers in it, as it was asked for or as it was changed.
LEMMA SpansAreNumbers ==
  ASSUME IdsInv, Unshare
  PROVE  \A s \in spans' : s.ns \in Nat /\ s.host \in Nat /\ s.count \in Nat
<1>1. step \notin {"lookup", "refused"}
  BY DEF Unshare
<1>2. /\ id \in Nat /\ range.start \in Nat /\ Below \in Nat /\ Above \in Nat
  BY <1>1, RangeIs, PartsAre
<1>3. ASSUME NEW s \in Unshared
      PROVE  /\ s.ns \in Nat /\ s.host \in Nat /\ s.count \in Nat
             /\ s = [ns |-> s.ns, host |-> s.host, count |-> s.count]
  BY <1>1, <1>2, UnsharedIs DEF Span
<1>4. ASSUME NEW s \in Unshared, NEW t, t = [s EXCEPT !.host = @ + 1]
      PROVE  t.ns \in Nat /\ t.host \in Nat /\ t.count \in Nat
  <2>1. t.ns = s.ns /\ t.count = s.count /\ t.host = s.host + 1
    BY <1>3, <1>4
  <2>. QED
    BY <1>3, <2>1
<1>5. \A t \in spans' : t \in Unshared \/ \E s \in Unshared : t = [s EXCEPT !.host = @ + 1]
  BY DEF Unshare
<1>. QED
  BY <1>3, <1>4, <1>5

\* The three steps of an attempt keep the invariant.
LEMMA IdsInductively == IdsInv /\ [IdsNext]_idsVars => IdsInv'
<1>. SUFFICES ASSUME IdsInv, [IdsNext]_idsVars PROVE IdsInv'
  OBVIOUS
<1>1. CASE lookupSubIDFile
  <2>. USE DEF IdsInv, IdsTypeOK, RangeIsDelegated, AcceptedIsComplete, Malformed, Shared,
               ContainsCaller, Own, Foreign
  <2>1. CASE step' = "map"
    <3>1. /\ ~Malformed /\ Own # {} /\ ~Shared /\ ~ContainsCaller
          /\ ~ (entries[Widest].ids.count < minDelegation)
          /\ range' = entries[Widest].ids /\ UNCHANGED <<entries, id, spans>>
      BY <1>1, <2>1 DEF lookupSubIDFile
    <3>2. Widest \in Own
      BY <3>1, WidestIsOwn
    <3>3. \E i \in Own' : range' = entries'[i].ids
      BY <3>1, <3>2
    <3>4. range'.count >= minDelegation
      BY <3>1, <3>2, IdConstants DEF minDelegation, Lines, Ranges
    <3>. QED
      BY <2>1, <3>1, <3>3, <3>4
  <2>2. CASE step' # "map"
    BY <1>1, <2>2 DEF lookupSubIDFile
  <2>. QED
    BY <2>1, <2>2
<1>2. CASE Unshare
  <2>1. \A s \in spans' : s.ns \in Nat /\ s.host \in Nat /\ s.count \in Nat
    BY <1>2, SpansAreNumbers
  <2>2. step = "map" /\ step' = "verify" /\ UNCHANGED <<entries, id, range>>
    BY <1>2 DEF Unshare
  <2>. QED
    BY <2>1, <2>2 DEF IdsInv, IdsTypeOK, RangeIsDelegated, AcceptedIsComplete, Malformed, Shared,
       ContainsCaller, Own, Foreign
<1>3. CASE verifyMappingText
  <2>1. /\ step = "verify" /\ step' \in {"accepted", "rejected"}
        /\ UNCHANGED <<entries, id, range, spans>>
        /\ step' = "accepted" => Cardinality(Covered) = IdSpace /\ MapsCallerToItself
    BY <1>3 DEF verifyMappingText
  <2>2. AcceptedIsComplete'
    BY <2>1, CoveredIsAll DEF AcceptedIsComplete, Covered, MapsCallerToItself
  <2>. QED
    BY <2>1, <2>2 DEF IdsInv, IdsTypeOK, RangeIsDelegated, Malformed, Shared, ContainsCaller,
       Own, Foreign
<1>4. CASE UNCHANGED idsVars
  BY <1>4 DEF idsVars, Covered, MapsCallerToItself, IdsInv, IdsTypeOK, RangeIsDelegated,
     AcceptedIsComplete, Malformed, Shared, ContainsCaller, Own, Foreign
<1>. QED
  BY <1>1, <1>2, <1>3, <1>4 DEF IdsNext

\* The mapping as it was asked for: whoever reads it sees these spans only.
LEMMA AskedSpans ==
  ASSUME IdsInv, step = "verify", spans = {s \in Unshared : s.count > 0}
  PROVE  /\ \A s \in spans :
              \/ s.ns = id /\ s.host = id /\ s.count = 1
              \/ s.ns = 0 /\ s.host = range.start /\ s.count = Below
              \/ s.ns = id + 1 /\ s.host = range.start + Below /\ s.count = Above
         /\ Span(id, id, 1) \in spans
         /\ Below > 0 => Span(0, range.start, Below) \in spans
         /\ Above > 0 => Span(id + 1, range.start + Below, Above) \in spans
BY UnsharedIs DEF Span

\* What was asked for passes verifyMappingText, wherever the caller's id lies.
LEMMA AskedIsComplete == IdsInv => AskedMappingIsComplete
<1>. SUFFICES ASSUME IdsInv, step = "verify", spans = {s \in Unshared : s.count > 0}
              PROVE  /\ Covered = 0 .. IdSpace - 1 /\ MapsCallerToItself
                     /\ \A s, o \in spans : s # o => s.ns + s.count <= o.ns \/ o.ns + o.count <= s.ns
  BY DEF AskedMappingIsComplete
<1>1. /\ id \in Nat /\ IdSpace \in Nat \ {0} /\ Below \in Nat /\ Above \in Nat /\ Below <= id
      /\ range.start \in Nat
  BY RangeIs, PartsAre
<1>2. ASSUME NEW n \in 0 .. IdSpace - 1 PROVE \E s \in spans : n >= s.ns /\ n < s.ns + s.count
  <2>1. CASE n = id
    <3>1. Span(id, id, 1) \in spans
      BY AskedSpans
    <3>. QED
      BY <1>1, <2>1, <3>1 DEF Span
  <2>2. CASE n < Below
    <3>1. Span(0, range.start, Below) \in spans
      BY <1>1, <2>2, AskedSpans
    <3>. QED
      BY <1>1, <2>2, <3>1 DEF Span
  <2>3. CASE n >= id + 1 /\ n < id + 1 + Above
    <3>1. Span(id + 1, range.start + Below, Above) \in spans
      BY <1>1, <2>3, AskedSpans
    <3>. QED
      BY <1>1, <2>3, <3>1 DEF Span
  <2>. QED
    BY <2>1, <2>2, <2>3, PartsAre
<1>3. Covered = 0 .. IdSpace - 1
  BY <1>2 DEF Covered
<1>4. MapsCallerToItself
  <2>1. Span(id, id, 1) \in spans
    BY AskedSpans
  <2>2. ASSUME NEW o \in spans, o.ns <= id, id < o.ns + o.count PROVE id <= o.ns
    BY <1>1, <2>2, AskedSpans
  <2>. QED
    BY <1>1, <2>1, <2>2 DEF MapsCallerToItself, Span
<1>5. ASSUME NEW s \in spans, NEW o \in spans, s # o
      PROVE  s.ns + s.count <= o.ns \/ o.ns + o.count <= s.ns
  <2>1. /\ s = Span(id, id, 1) \/ s = Span(0, range.start, Below)
           \/ s = Span(id + 1, range.start + Below, Above)
        /\ o = Span(id, id, 1) \/ o = Span(0, range.start, Below)
           \/ o = Span(id + 1, range.start + Below, Above)
    BY UnsharedIs
  <2>. QED
    BY <1>1, <1>5, <2>1 DEF Span
<1>. QED
  BY <1>3, <1>4, <1>5

\* No id of the range is in a line of somebody else, and what is mapped is in the
\* range, but for the caller's own id.
LEMMA NobodyElse == IdsInv => NobodyElsesIds
<1>. SUFFICES ASSUME IdsInv PROVE NobodyElsesIds
  OBVIOUS
<1>1. ASSUME step \in {"map", "verify", "accepted"}, NEW i \in Own, NEW j \in Foreign
      PROVE  Ids(entries[i].ids) \cap Ids(entries[j].ids) = {}
  <2>1. PICK n \in 0 .. MaxLines : entries \in [1 .. n -> Lines]
    BY DEF IdsInv, IdsTypeOK
  <2>2. entries[i].ids \in Ranges /\ entries[j].ids \in Ranges
    BY <2>1 DEF Own, Foreign, Lines
  <2>3. ~ subIDRangesOverlap(entries[i].ids, entries[j].ids)
    BY <1>1 DEF IdsInv, RangeIsDelegated, Shared
  <2>. QED
    BY <2>2, <2>3, IdConstants DEF subIDRangesOverlap, subIDEnd, Ids, Ranges
<1>2. ASSUME step = "verify", spans = {s \in Unshared : s.count > 0}, NEW s \in spans,
             NEW h \in s.host .. s.host + s.count - 1
      PROVE  h \in Ids(range) \cup {id}
  <2>1. /\ id \in Nat /\ range.start \in Nat /\ range.count \in Nat
        /\ Below \in Nat /\ Above \in Nat /\ Below + Above <= range.count
    BY <1>2, RangeIs, PartsAre
  <2>2. \/ s.host = id /\ s.count = 1
        \/ s.host = range.start /\ s.count = Below
        \/ s.host = range.start + Below /\ s.count = Above
    BY <1>2, AskedSpans
  <2>. QED
    BY <2>1, <2>2 DEF Ids, subIDEnd
<1>. QED
  BY <1>1, <1>2 DEF NobodyElsesIds, HostIds

LEMMA EveryIdIsMapped == IdsInv => EveryArchiveIdIsMapped
<1>. SUFFICES ASSUME IdsInv, step = "accepted" PROVE
       /\ Covered = 0 .. IdSpace - 1
       /\ \E s \in spans : s.ns <= id /\ id - s.ns < s.count /\ s.host + (id - s.ns) = id
  BY DEF EveryArchiveIdIsMapped
<1>1. Covered = 0 .. IdSpace - 1 /\ MapsCallerToItself
  BY DEF IdsInv, AcceptedIsComplete
<1>2. id \in Nat /\ \A s \in spans : s.ns \in Nat /\ s.count \in Nat
  BY IdConstants DEF IdsInv, IdsTypeOK
<1>3. PICK s \in spans : s.ns <= id /\ id < s.ns + s.count /\ s.host + (id - s.ns) = id
  BY <1>1 DEF MapsCallerToItself
<1>4. id - s.ns < s.count
  BY <1>2, <1>3
<1>. QED
  BY <1>1, <1>3, <1>4

\* For any number of ids an archive may name, any file and any caller: no id is used
\* that is somebody else's, what unshare is asked for passes the check wherever the
\* caller's id lies, and what passes it maps every id (lookupSubIDFile, mapArgs,
\* verifyMappingText).
THEOREM NamespaceIds == IdsSpec => []NamespaceIdsAreSound
<1>1. IdsInv => NamespaceIdsAreSound
  BY AskedIsComplete, NobodyElse, EveryIdIsMapped DEF NamespaceIdsAreSound
<1>. QED
  BY IdsInitially, IdsInductively, <1>1, PTL DEF IdsSpec

----------------------------------------------------------------------------
(* The limits and the transcript of a command (ResourceLimits).            *)

LEMMA LimitsInitially == LimitsInit => LimitsInv
<1>. SUFFICES ASSUME LimitsInit PROVE LimitsInv
  OBVIOUS
<1>1. <<>> \in Seq(Nat) /\ Len(<<>>) = 0
  BY EmptySeq
<1>2. configured \in [Kinds -> Int]
  BY LimitConstants DEF LimitsInit
<1>3. written = 0 /\ buffer = <<>> /\ Limit \in Nat \ {0}
  BY LimitConstants DEF LimitsInit
<1>. QED
  BY <1>1, <1>2, <1>3 DEF LimitsInv, IsTailOf

\* One write more: the tail is longer.
LEMMA LongerTail ==
  ASSUME NEW w \in Nat, NEW b \in Seq(Nat), IsTailOf(b, w), NEW n \in Nat
  PROVE  LET longer == b \o [i \in 1 .. n |-> w + i] IN
         longer \in Seq(Nat) /\ Len(longer) = Len(b) + n /\ IsTailOf(longer, w + n)
<1>. DEFINE value == [i \in 1 .. n |-> w + i]
            longer == b \o value
<1>1. value \in Seq(Nat) /\ Len(value) = n /\ \A i \in 1 .. n : value[i] = w + i
  OBVIOUS
<1>2. Len(b) \in Nat /\ Len(b) <= w /\ \A i \in 1 .. Len(b) : b[i] = w - Len(b) + i
  BY LenProperties DEF IsTailOf
<1>. HIDE DEF value
<1>3. /\ longer \in Seq(Nat) /\ Len(longer) = Len(b) + n
      /\ \A i \in 1 .. Len(b) + n : longer[i] = IF i <= Len(b) THEN b[i] ELSE value[i - Len(b)]
  BY <1>1, ConcatProperties
<1>. HIDE DEF longer
<1>4. ASSUME NEW i \in 1 .. Len(b) + n
      PROVE  longer[i] = w + n - (Len(b) + n) + i
  <2>1. CASE i <= Len(b)
    <3>1. longer[i] = b[i] /\ i \in 1 .. Len(b)
      BY <1>2, <1>3, <2>1
    <3>2. b[i] = w - Len(b) + i
      BY <1>2, <3>1
    <3>. QED
      BY <1>2, <3>1, <3>2
  <2>2. CASE ~ (i <= Len(b))
    <3>1. i - Len(b) \in 1 .. n
      BY <1>2, <2>2
    <3>2. longer[i] = value[i - Len(b)]
      BY <1>3, <2>2
    <3>3. value[i - Len(b)] = w + (i - Len(b))
      BY <1>1, <3>1
    <3>. QED
      BY <1>2, <3>2, <3>3
  <2>. QED
    BY <2>1, <2>2
<1>5. IsTailOf(longer, w + n)
  BY <1>2, <1>3, <1>4 DEF IsTailOf
<1>. QED
  BY <1>3, <1>5, Zenon DEF longer, value

\* The tail of a tail.
LEMMA TailOfTail ==
  ASSUME NEW w \in Nat, NEW b \in Seq(Nat), IsTailOf(b, w), NEW k \in 0 .. Len(b)
  PROVE  Tail_(b, k) \in Seq(Nat) /\ Len(Tail_(b, k)) = k /\ IsTailOf(Tail_(b, k), w)
<1>1. Len(b) \in Nat /\ Len(b) <= w /\ \A i \in 1 .. Len(b) : b[i] = w - Len(b) + i /\ b[i] \in Nat
  BY LenProperties, ElementOfSeq DEF IsTailOf
<1>. DEFINE m == Len(b) - k + 1
            n == Len(b)
<1>2. m \in Int /\ n \in Int /\ n - m + 1 = k /\ m >= 1 /\ \A i \in m .. n : i \in 1 .. n
  BY <1>1
<1>. HIDE DEF m, n
<1>3. \A i \in m .. n : b[i] \in Nat
  BY <1>1, <1>2 DEF n
<1>4. /\ SubSeq(b, m, n) \in Seq(Nat) /\ Len(SubSeq(b, m, n)) = k
      /\ \A i \in 1 .. k : SubSeq(b, m, n)[i] = b[m + i - 1]
  BY <1>2, <1>3, SubSeqProperties
<1>5. Tail_(b, k) = SubSeq(b, m, n)
  BY DEF Tail_, m, n
<1>6. ASSUME NEW i \in 1 .. k PROVE Tail_(b, k)[i] = w - k + i
  <2>1. m + i - 1 \in 1 .. n /\ m + i - 1 = Len(b) - k + i
    BY <1>1, <1>2 DEF m, n
  <2>2. b[m + i - 1] = w - Len(b) + (Len(b) - k + i)
    BY <1>1, <2>1 DEF n
  <2>3. Tail_(b, k)[i] = b[m + i - 1]
    BY <1>4, <1>5
  <2>. QED
    BY <1>1, <2>2, <2>3
<1>. QED
  BY <1>1, <1>4, <1>5, <1>6 DEF IsTailOf

LEMMA LimitsStep == LimitsInv /\ [Observe]_limitVars => LimitsInv'
<1>1. SUFFICES ASSUME LimitsInv, Observe PROVE LimitsInv'
  BY DEF LimitsInv, limitVars, IsTailOf
<1>2. PICK n \in 1 .. MaxOutput - written :
        LET value == [i \in 1 .. n |-> written + i]
            longer == buffer \o value IN
        /\ written' = written + n
        /\ IF n >= Limit
           THEN buffer' = Tail_(value, Limit) /\ dropped' = TRUE
           ELSE /\ buffer' = IF Len(longer) >= 2 * Limit THEN Tail_(longer, Limit) ELSE longer
                /\ dropped' = (dropped \/ Len(longer) > Limit)
  BY <1>1 DEF Observe
<1>. DEFINE value == [i \in 1 .. n |-> written + i]
            longer == buffer \o value
            new == buffer'
            all == written'
<1>3. /\ written \in Nat /\ buffer \in Seq(Nat) /\ IsTailOf(buffer, written) /\ n \in Nat \ {0}
      /\ Len(buffer) \in Nat /\ Len(buffer) < 2 * Limit /\ Limit \in Nat \ {0}
      /\ Len(buffer) < Limit => Len(buffer) = written
      /\ written > Limit => dropped
  BY <1>1, LimitConstants, LenProperties DEF LimitsInv
<1>4. longer \in Seq(Nat) /\ Len(longer) = Len(buffer) + n /\ IsTailOf(longer, written + n)
  BY <1>3, LongerTail
<1>5. value \in Seq(Nat) /\ Len(value) = n /\ IsTailOf(value, written + n)
  BY <1>3 DEF IsTailOf
<1>. HIDE DEF value, longer
<1>6. all = written + n
  BY <1>2
<1>7. CASE n >= Limit
  <2>1. new = Tail_(value, Limit) /\ dropped' = TRUE
    BY <1>2, <1>7 DEF value
  <2>2. Limit \in 0 .. Len(value)
    BY <1>3, <1>5, <1>7
  <2>3. new \in Seq(Nat) /\ Len(new) = Limit /\ IsTailOf(new, all)
    BY <1>3, <1>5, <1>6, <2>1, <2>2, TailOfTail
  <2>. HIDE DEF new, all
  <2>4. all \in Nat /\ Len(new) < 2 * Limit /\ ~ (Len(new) < Limit)
    BY <1>3, <1>6, <2>3
  <2>. QED
    BY <1>1, <2>1, <2>3, <2>4 DEF LimitsInv, Observe, new, all
<1>8. CASE ~ (n >= Limit)
  <2>0. /\ new = IF Len(longer) >= 2 * Limit THEN Tail_(longer, Limit) ELSE longer
        /\ dropped' = (dropped \/ Len(longer) > Limit)
    BY <1>2, <1>8 DEF longer, value
  <2>. HIDE DEF new, all
  <2>1. all > Limit => dropped'
    <3>1. all > Limit => Len(longer) > Limit
      BY <1>3, <1>4, <1>6
    <3>. QED
      BY <2>0, <3>1, Zenon
  <2>a. all \in Nat /\ IsTailOf(longer, all)
    BY <1>3, <1>4, <1>6
  <2>2. CASE Len(longer) >= 2 * Limit
    <3>1. Limit \in 0 .. Len(longer)
      BY <1>3, <1>4, <2>2
    <3>2. new \in Seq(Nat) /\ Len(new) = Limit /\ IsTailOf(new, all)
      <4>1. new = Tail_(longer, Limit)
        BY <2>0, <2>2, Zenon
      <4>. QED
        BY <1>4, <2>a, <3>1, <4>1, TailOfTail
    <3>3. all \in Nat /\ Len(new) < 2 * Limit /\ ~ (Len(new) < Limit)
      BY <1>3, <1>6, <3>2
    <3>. QED
      BY <1>1, <2>1, <3>2, <3>3 DEF LimitsInv, Observe, new, all
  <2>3. CASE ~ (Len(longer) >= 2 * Limit)
    <3>1. new = longer
      BY <2>0, <2>3, Zenon
    <3>2. all \in Nat /\ new \in Seq(Nat) /\ IsTailOf(new, all)
      BY <1>4, <2>a, <3>1
    <3>3. Len(longer) \in Nat /\ Len(longer) = Len(buffer) + n /\ all = written + n
      BY <1>3, <1>4, <1>6
    <3>4. Len(longer) < 2 * Limit
      BY <1>3, <2>3, <3>3
    <3>5. Len(longer) < Limit => Len(longer) = all
      BY <1>3, <3>3
    <3>6. Len(new) < 2 * Limit /\ (Len(new) < Limit => Len(new) = all)
      BY <3>1, <3>4, <3>5, Zenon
    <3>. QED
      BY <1>1, <2>1, <3>2, <3>6 DEF LimitsInv, Observe, new, all
  <2>. QED
    BY <2>2, <2>3
<1>. QED
  BY <1>7, <1>8

\* The transcript, where it is asked for, is the tail of what was written.
LEMMA TranscriptIsATail == LimitsInv => TranscriptIsTheTail
<1>. SUFFICES ASSUME LimitsInv PROVE TranscriptIsTheTail
  OBVIOUS
<1>. DEFINE size == Smaller(Limit, written)
<1>1. /\ written \in Nat /\ buffer \in Seq(Nat) /\ IsTailOf(buffer, written)
      /\ Len(buffer) \in Nat /\ Len(buffer) < 2 * Limit /\ Limit \in Nat \ {0}
      /\ Len(buffer) < Limit => Len(buffer) = written
      /\ Len(buffer) <= written
  BY LimitConstants, LenProperties DEF LimitsInv, IsTailOf
<1>2. Bytes \in Seq(Nat) /\ Len(Bytes) = size /\ IsTailOf(Bytes, written)
  <2>1. CASE Len(buffer) > Limit
    <3>1. Limit \in 0 .. Len(buffer) /\ size = Limit
      BY <1>1, <2>1 DEF Smaller
    <3>2. Bytes = Tail_(buffer, Limit)
      BY <2>1 DEF Bytes
    <3>. QED
      BY <1>1, <3>1, <3>2, TailOfTail
  <2>2. CASE ~ (Len(buffer) > Limit)
    <3>1. Bytes = buffer
      BY <2>2 DEF Bytes
    <3>2. Len(buffer) = size
      BY <1>1, <2>2 DEF Smaller
    <3>. QED
      BY <1>1, <3>1, <3>2
  <2>. QED
    BY <2>1, <2>2
<1>3. size \in Nat
  BY <1>1 DEF Smaller
<1>. HIDE DEF size
<1>4. Bytes = [i \in 1 .. size |-> written - size + i]
  BY <1>1, <1>2, <1>3 DEF IsTailOf
<1>. QED
  BY <1>4 DEF TranscriptIsTheTail, LimitsInv, size

\* What an evaluation gets of each limit.
LEMMA FreezeIsNarrower == LimitsInv => FreezeIsNarrowerThanTheBuild
<1>. SUFFICES ASSUME LimitsInv, NEW k \in Kinds
              PROVE  /\ freezeLimits(configured)[k] \in 1 .. FreezeMax[k]
                     /\ effectiveBuildLimits(configured)[k] > 0 =>
                          freezeLimits(configured)[k] <= effectiveBuildLimits(configured)[k]
  BY DEF FreezeIsNarrowerThanTheBuild
<1>. DEFINE build == effectiveBuildLimits(configured)[k]
            narrowed == Smaller(build, FreezeMax[k])
<1>1. configured[k] \in Int /\ FreezeMax[k] \in Nat \ {0} /\ FreezeFloor[k] \in 1 .. FreezeMax[k]
  BY LimitConstants DEF LimitsInv
<1>2. build \in Int
  BY <1>1, LimitConstants DEF effectiveBuildLimits, Smaller
<1>3. freezeLimits(configured)[k] = IF narrowed <= 0 THEN FreezeFloor[k] ELSE narrowed
  BY DEF freezeLimits
<1>. HIDE DEF build
<1>. QED
  BY <1>1, <1>2, <1>3 DEF Smaller, build

----------------------------------------------------------------------------
(* A request and its answer (Dispatch).                                    *)

LEMMA DispatchInitially == DispatchInit => DispatchInv
<1>. SUFFICES ASSUME DispatchInit PROVE DispatchInv
  OBVIOUS
<1>. USE DEF DispatchInit
<1>1. WorkerRoutes /\ ProgramIsDescribed /\ ModelIsDescribed /\ AnswersAreAsConfigured
  BY DEF WorkerRoutes, ProgramIsDescribed, Describes, ModelIsDescribed, AnswersAreAsConfigured
<1>. QED
  BY <1>1 DEF DispatchInv

LEMMA DispatchStep == DispatchInv /\ [DispatchNext]_dispatchVars => DispatchInv'
<1>. SUFFICES ASSUME DispatchInv, [DispatchNext]_dispatchVars PROVE DispatchInv'
  OBVIOUS
<1>. USE DispatchConstants
<1>0. /\ mine \in Configs /\ worker \in Configs /\ installed \in Configs
      /\ program \in Programs /\ tag \in Models /\ twice \in Nat /\ again \in BOOLEAN
      /\ DOMAIN metadata = DOMAIN NoMetadata
      /\ WorkerRoutes /\ ProgramIsDescribed /\ ModelIsDescribed /\ AnswersAreAsConfigured
  BY DEF DispatchInv

<1>1. CASE Reconfigure
  <2>1. /\ mine' \in Configs /\ worker' \in Configs /\ installed' \in Configs
        /\ program' \in Programs /\ tag' \in Models /\ twice' \in Nat /\ again' \in BOOLEAN
        /\ DOMAIN metadata' = DOMAIN NoMetadata
    BY <1>0, <1>1 DEF Reconfigure, NoMetadata
  <2>2. WorkerRoutes'
    BY <1>0, <1>1 DEF Reconfigure, WorkerRoutes, CLI
  <2>3. ProgramIsDescribed'
    BY <1>0, <1>1 DEF Reconfigure, WorkerRoutes, ProgramIsDescribed, Describes, CLI, Disableable, NoMetadata
  <2>4. ModelIsDescribed'
    BY <1>0, <1>1 DEF Reconfigure, WorkerRoutes, ModelIsDescribed, CLI, NoMetadata
  <2>5. AnswersAreAsConfigured'
    BY <1>0, <1>1 DEF Reconfigure, AnswersAreAsConfigured, WorkerRoutes, ProgramIsDescribed, ModelIsDescribed, Describes, CLI, Accepts
  <2>. QED
    BY <2>1, <2>2, <2>3, <2>4, <2>5, Zenon DEF DispatchInv
<1>2. CASE Exchange
  <2>1. /\ mine' \in Configs /\ worker' \in Configs /\ installed' \in Configs
        /\ program' \in Programs /\ tag' \in Models /\ twice' \in Nat /\ again' \in BOOLEAN
        /\ DOMAIN metadata' = DOMAIN NoMetadata
    BY <1>0, <1>2 DEF Exchange, NoMetadata
  <2>2. WorkerRoutes'
    BY <1>0, <1>2 DEF Exchange, WorkerRoutes, CLI
  <2>3. ProgramIsDescribed'
    BY <1>0, <1>2 DEF Exchange, WorkerRoutes, ProgramIsDescribed, Describes, CLI, Disableable, NoMetadata
  <2>4. ModelIsDescribed'
    BY <1>0, <1>2 DEF Exchange, WorkerRoutes, ModelIsDescribed, CLI, NoMetadata
  <2>5. AnswersAreAsConfigured'
    BY <1>0, <1>2 DEF Exchange, AnswersAreAsConfigured, WorkerRoutes, ProgramIsDescribed, ModelIsDescribed, Describes, CLI, Accepts
  <2>. QED
    BY <2>1, <2>2, <2>3, <2>4, <2>5, Zenon DEF DispatchInv
<1>3. CASE PullTag
  <2>1. /\ mine' \in Configs /\ worker' \in Configs /\ installed' \in Configs
        /\ program' \in Programs /\ tag' \in Models /\ twice' \in Nat /\ again' \in BOOLEAN
        /\ DOMAIN metadata' = DOMAIN NoMetadata
    BY <1>0, <1>3 DEF PullTag, NoMetadata
  <2>2. WorkerRoutes'
    BY <1>0, <1>3 DEF PullTag, WorkerRoutes, CLI
  <2>3. ProgramIsDescribed'
    BY <1>0, <1>3 DEF PullTag, WorkerRoutes, ProgramIsDescribed, Describes, CLI, Disableable, NoMetadata
  <2>4. ModelIsDescribed'
    BY <1>0, <1>3 DEF PullTag, WorkerRoutes, ModelIsDescribed, CLI, NoMetadata
  <2>5. AnswersAreAsConfigured'
    BY <1>0, <1>3 DEF PullTag, AnswersAreAsConfigured, WorkerRoutes, ProgramIsDescribed, ModelIsDescribed, Describes, CLI, Accepts
  <2>. QED
    BY <2>1, <2>2, <2>3, <2>4, <2>5, Zenon DEF DispatchInv
<1>4. ASSUME NEW r, SendRequest(r) PROVE DispatchInv'
  <2>1. /\ mine' \in Configs /\ worker' \in Configs /\ installed' \in Configs
        /\ program' \in Programs /\ tag' \in Models /\ twice' \in Nat /\ again' \in BOOLEAN
        /\ DOMAIN metadata' = DOMAIN NoMetadata
    BY <1>0, <1>4 DEF SendRequest, others, NoMetadata
  <2>2. WorkerRoutes'
    BY <1>0, <1>4 DEF SendRequest, others, WorkerRoutes, CLI
  <2>3. ProgramIsDescribed'
    BY <1>0, <1>4 DEF SendRequest, others, WorkerRoutes, ProgramIsDescribed, Describes, CLI, Disableable, NoMetadata
  <2>4. ModelIsDescribed'
    BY <1>0, <1>4 DEF SendRequest, others, WorkerRoutes, ModelIsDescribed, CLI, NoMetadata
  <2>5. AnswersAreAsConfigured'
    BY <1>0, <1>4 DEF SendRequest, others, AnswersAreAsConfigured, WorkerRoutes, ProgramIsDescribed, ModelIsDescribed, Describes, CLI, Accepts
  <2>. QED
    BY <2>1, <2>2, <2>3, <2>4, <2>5, Zenon DEF DispatchInv
<1>5. CASE StartWorker
  <2>1. /\ mine' \in Configs /\ worker' \in Configs /\ installed' \in Configs
        /\ program' \in Programs /\ tag' \in Models /\ twice' \in Nat /\ again' \in BOOLEAN
        /\ DOMAIN metadata' = DOMAIN NoMetadata
    BY <1>0, <1>5 DEF StartWorker, Ended, others, NoMetadata
  <2>2. WorkerRoutes'
    BY <1>0, <1>5 DEF StartWorker, Ended, others, WorkerRoutes, CLI
  <2>3. ProgramIsDescribed'
    BY <1>0, <1>5 DEF StartWorker, Ended, others, WorkerRoutes, ProgramIsDescribed, Describes, CLI, Disableable, NoMetadata
  <2>4. ModelIsDescribed'
    BY <1>0, <1>5 DEF StartWorker, Ended, others, WorkerRoutes, ModelIsDescribed, CLI, NoMetadata
  <2>5. AnswersAreAsConfigured'
    BY <1>0, <1>5 DEF StartWorker, Ended, others, AnswersAreAsConfigured, WorkerRoutes, ProgramIsDescribed, ModelIsDescribed, Describes, CLI, Accepts
  <2>. QED
    BY <2>1, <2>2, <2>3, <2>4, <2>5, Zenon DEF DispatchInv
<1>6. CASE CheckVersion
  <2>1. /\ mine' \in Configs /\ worker' \in Configs /\ installed' \in Configs
        /\ program' \in Programs /\ tag' \in Models /\ twice' \in Nat /\ again' \in BOOLEAN
        /\ DOMAIN metadata' = DOMAIN NoMetadata
    BY <1>0, <1>6 DEF CheckVersion, Described, others, NoMetadata
  <2>2. WorkerRoutes'
    BY <1>0, <1>6 DEF CheckVersion, Described, others, WorkerRoutes, CLI
  <2>3. ProgramIsDescribed'
    BY <1>0, <1>6 DEF CheckVersion, Described, others, WorkerRoutes, ProgramIsDescribed, Describes, CLI, Disableable, NoMetadata
  <2>4. ModelIsDescribed'
    BY <1>0, <1>6 DEF CheckVersion, Described, others, WorkerRoutes, ModelIsDescribed, CLI, NoMetadata
  <2>5. AnswersAreAsConfigured'
    BY <1>0, <1>6 DEF CheckVersion, Described, others, AnswersAreAsConfigured, WorkerRoutes, ProgramIsDescribed, ModelIsDescribed, Describes, CLI, Accepts
  <2>. QED
    BY <2>1, <2>2, <2>3, <2>4, <2>5, Zenon DEF DispatchInv
<1>7. CASE EnumerateFeatures
  <2>1. /\ mine' \in Configs /\ worker' \in Configs /\ installed' \in Configs
        /\ program' \in Programs /\ tag' \in Models /\ twice' \in Nat /\ again' \in BOOLEAN
        /\ DOMAIN metadata' = DOMAIN NoMetadata
    BY <1>0, <1>7 DEF EnumerateFeatures, others, NoMetadata
  <2>2. WorkerRoutes'
    BY <1>0, <1>7 DEF EnumerateFeatures, others, WorkerRoutes, CLI
  <2>3. ProgramIsDescribed'
    BY <1>0, <1>7 DEF EnumerateFeatures, others, WorkerRoutes, ProgramIsDescribed, Describes, CLI, Disableable, NoMetadata
  <2>4. ModelIsDescribed'
    BY <1>0, <1>7 DEF EnumerateFeatures, others, WorkerRoutes, ModelIsDescribed, CLI, NoMetadata
  <2>5. AnswersAreAsConfigured'
    BY <1>0, <1>7 DEF EnumerateFeatures, others, AnswersAreAsConfigured, WorkerRoutes, ProgramIsDescribed, ModelIsDescribed, Describes, CLI, Accepts
  <2>. QED
    BY <2>1, <2>2, <2>3, <2>4, <2>5, Zenon DEF DispatchInv
<1>16. CASE DisableFeatures
  <2>1. /\ mine' \in Configs /\ worker' \in Configs /\ installed' \in Configs
        /\ program' \in Programs /\ tag' \in Models /\ twice' \in Nat /\ again' \in BOOLEAN
        /\ DOMAIN metadata' = DOMAIN NoMetadata
    BY <1>0, <1>16 DEF DisableFeatures, others
  <2>2. WorkerRoutes'
    BY <1>0, <1>16 DEF DisableFeatures, others, WorkerRoutes, CLI
  <2>3. ProgramIsDescribed'
    BY <1>0, <1>16 DEF DisableFeatures, others, WorkerRoutes, ProgramIsDescribed, Describes, CLI, Disableable
  <2>4. ModelIsDescribed'
    BY <1>0, <1>16 DEF DisableFeatures, others, WorkerRoutes, ModelIsDescribed, CLI
  <2>5. AnswersAreAsConfigured'
    BY <1>0, <1>16 DEF DisableFeatures, others, AnswersAreAsConfigured
  <2>. QED
    BY <2>1, <2>2, <2>3, <2>4, <2>5, Zenon DEF DispatchInv
<1>8. CASE ListModel
  <2>1. /\ mine' \in Configs /\ worker' \in Configs /\ installed' \in Configs
        /\ program' \in Programs /\ tag' \in Models /\ twice' \in Nat /\ again' \in BOOLEAN
        /\ DOMAIN metadata' = DOMAIN NoMetadata
    BY <1>0, <1>8 DEF ListModel, others, NoMetadata
  <2>2. WorkerRoutes'
    BY <1>0, <1>8 DEF ListModel, others, WorkerRoutes, CLI
  <2>3. ProgramIsDescribed'
    BY <1>0, <1>8 DEF ListModel, others, WorkerRoutes, ProgramIsDescribed, Describes, CLI, Disableable, NoMetadata
  <2>4. ModelIsDescribed'
    BY <1>0, <1>8 DEF ListModel, others, WorkerRoutes, ModelIsDescribed, CLI, NoMetadata
  <2>5. AnswersAreAsConfigured'
    BY <1>0, <1>8 DEF ListModel, others, AnswersAreAsConfigured, WorkerRoutes, ProgramIsDescribed, ModelIsDescribed, Describes, CLI, Accepts
  <2>. QED
    BY <2>1, <2>2, <2>3, <2>4, <2>5, Zenon DEF DispatchInv
<1>9. CASE ShowModel
  <2>1. /\ mine' \in Configs /\ worker' \in Configs /\ installed' \in Configs
        /\ program' \in Programs /\ tag' \in Models /\ twice' \in Nat /\ again' \in BOOLEAN
        /\ DOMAIN metadata' = DOMAIN NoMetadata
    BY <1>0, <1>9 DEF ShowModel, others, NoMetadata
  <2>2. WorkerRoutes'
    BY <1>0, <1>9 DEF ShowModel, others, WorkerRoutes, CLI
  <2>3. ProgramIsDescribed'
    BY <1>0, <1>9 DEF ShowModel, others, WorkerRoutes, ProgramIsDescribed, Describes, CLI, Disableable, NoMetadata
  <2>4. ModelIsDescribed'
    BY <1>0, <1>9 DEF ShowModel, others, WorkerRoutes, ModelIsDescribed, CLI, NoMetadata
  <2>5. AnswersAreAsConfigured'
    BY <1>0, <1>9 DEF ShowModel, others, AnswersAreAsConfigured, WorkerRoutes, ProgramIsDescribed, ModelIsDescribed, Describes, CLI, Accepts
  <2>. QED
    BY <2>1, <2>2, <2>3, <2>4, <2>5, Zenon DEF DispatchInv
<1>10. CASE ConfirmModel
  <2>1. /\ mine' \in Configs /\ worker' \in Configs /\ installed' \in Configs
        /\ program' \in Programs /\ tag' \in Models /\ twice' \in Nat /\ again' \in BOOLEAN
        /\ DOMAIN metadata' = DOMAIN NoMetadata
    BY <1>0, <1>10 DEF ConfirmModel, Described, others, NoMetadata
  <2>2. WorkerRoutes'
    BY <1>0, <1>10 DEF ConfirmModel, Described, others, WorkerRoutes, CLI
  <2>3. ProgramIsDescribed'
    BY <1>0, <1>10 DEF ConfirmModel, Described, others, WorkerRoutes, ProgramIsDescribed, Describes, CLI, Disableable, NoMetadata
  <2>4. ModelIsDescribed'
    BY <1>0, <1>10 DEF ConfirmModel, Described, others, WorkerRoutes, ModelIsDescribed, CLI, NoMetadata
  <2>5. AnswersAreAsConfigured'
    BY <1>0, <1>10 DEF ConfirmModel, Described, others, AnswersAreAsConfigured, WorkerRoutes, ProgramIsDescribed, ModelIsDescribed, Describes, CLI, Accepts
  <2>. QED
    BY <2>1, <2>2, <2>3, <2>4, <2>5, Zenon DEF DispatchInv
<1>11. CASE Operate
  <2>1. /\ mine' \in Configs /\ worker' \in Configs /\ installed' \in Configs
        /\ program' \in Programs /\ tag' \in Models /\ twice' \in Nat /\ again' \in BOOLEAN
        /\ DOMAIN metadata' = DOMAIN NoMetadata
    BY <1>0, <1>11 DEF Operate, others, NoMetadata
  <2>2. WorkerRoutes'
    BY <1>0, <1>11 DEF Operate, others, WorkerRoutes, CLI
  <2>3. ProgramIsDescribed'
    BY <1>0, <1>11 DEF Operate, others, WorkerRoutes, ProgramIsDescribed, Describes, CLI, Disableable, NoMetadata
  <2>4. ModelIsDescribed'
    BY <1>0, <1>11 DEF Operate, others, WorkerRoutes, ModelIsDescribed, CLI, NoMetadata
  <2>5. AnswersAreAsConfigured'
    BY <1>0, <1>11 DEF Operate, others, AnswersAreAsConfigured, WorkerRoutes, ProgramIsDescribed, ModelIsDescribed, Describes, CLI, Accepts
  <2>. QED
    BY <2>1, <2>2, <2>3, <2>4, <2>5, Zenon DEF DispatchInv
<1>12. CASE RunProgram
  <2>1. /\ mine' \in Configs /\ worker' \in Configs /\ installed' \in Configs
        /\ program' \in Programs /\ tag' \in Models /\ twice' \in Nat /\ again' \in BOOLEAN
        /\ DOMAIN metadata' = DOMAIN NoMetadata
    BY <1>0, <1>12 DEF RunProgram, others, NoMetadata
  <2>2. WorkerRoutes'
    BY <1>0, <1>12 DEF RunProgram, others, WorkerRoutes, CLI
  <2>3. ProgramIsDescribed'
    BY <1>0, <1>12 DEF RunProgram, others, WorkerRoutes, ProgramIsDescribed, Describes, CLI, Disableable, NoMetadata
  <2>4. ModelIsDescribed'
    BY <1>0, <1>12 DEF RunProgram, others, WorkerRoutes, ModelIsDescribed, CLI, NoMetadata
  <2>5. AnswersAreAsConfigured'
    BY <1>0, <1>12 DEF RunProgram, others, AnswersAreAsConfigured, WorkerRoutes, ProgramIsDescribed, ModelIsDescribed, Describes, CLI, Accepts
  <2>. QED
    BY <2>1, <2>2, <2>3, <2>4, <2>5, Zenon DEF DispatchInv
<1>13. CASE WorkerFails
  <2>1. /\ mine' \in Configs /\ worker' \in Configs /\ installed' \in Configs
        /\ program' \in Programs /\ tag' \in Models /\ twice' \in Nat /\ again' \in BOOLEAN
        /\ DOMAIN metadata' = DOMAIN NoMetadata
    BY <1>0, <1>13 DEF WorkerFails, Ended, others, NoMetadata
  <2>2. WorkerRoutes'
    BY <1>0, <1>13 DEF WorkerFails, Ended, others, WorkerRoutes, CLI
  <2>3. ProgramIsDescribed'
    BY <1>0, <1>13 DEF WorkerFails, Ended, others, WorkerRoutes, ProgramIsDescribed, Describes, CLI, Disableable, NoMetadata
  <2>4. ModelIsDescribed'
    BY <1>0, <1>13 DEF WorkerFails, Ended, others, WorkerRoutes, ModelIsDescribed, CLI, NoMetadata
  <2>5. AnswersAreAsConfigured'
    BY <1>0, <1>13 DEF WorkerFails, Ended, others, AnswersAreAsConfigured, WorkerRoutes, ProgramIsDescribed, ModelIsDescribed, Describes, CLI, Accepts
  <2>. QED
    BY <2>1, <2>2, <2>3, <2>4, <2>5, Zenon DEF DispatchInv
<1>14. CASE ReceiveAnswer
  <2>1. /\ mine' \in Configs /\ worker' \in Configs /\ installed' \in Configs
        /\ program' \in Programs /\ tag' \in Models /\ twice' \in Nat /\ again' \in BOOLEAN
        /\ DOMAIN metadata' = DOMAIN NoMetadata
    BY <1>0, <1>14 DEF ReceiveAnswer, Ended, others, NoMetadata
  <2>2. WorkerRoutes'
    BY <1>0, <1>14 DEF ReceiveAnswer, Ended, others, WorkerRoutes, CLI
  <2>3. ProgramIsDescribed'
    BY <1>0, <1>14 DEF ReceiveAnswer, Ended, others, WorkerRoutes, ProgramIsDescribed, Describes, CLI, Disableable, NoMetadata
  <2>4. ModelIsDescribed'
    BY <1>0, <1>14 DEF ReceiveAnswer, Ended, others, WorkerRoutes, ModelIsDescribed, CLI, NoMetadata
  <2>5. AnswersAreAsConfigured'
    BY <1>0, <1>14 DEF ReceiveAnswer, Ended, others, AnswersAreAsConfigured, WorkerRoutes, ProgramIsDescribed, ModelIsDescribed, Describes, CLI, Accepts
  <2>. QED
    BY <2>1, <2>2, <2>3, <2>4, <2>5, Zenon DEF DispatchInv
<1>15. CASE UNCHANGED dispatchVars
  <2>1. WorkerRoutes' /\ ProgramIsDescribed' /\ ModelIsDescribed' /\ AnswersAreAsConfigured'
    BY <1>0, <1>15 DEF dispatchVars, WorkerRoutes, ProgramIsDescribed, Describes, ModelIsDescribed,
       AnswersAreAsConfigured, CLI, Disableable
  <2>. QED
    BY <1>0, <1>15, <2>1 DEF DispatchInv, dispatchVars
<1>. QED
  BY <1>1, <1>2, <1>3, <1>4, <1>5, <1>6, <1>7, <1>8, <1>9, <1>10, <1>11, <1>12, <1>13, <1>14, <1>15, <1>16 DEF DispatchNext

----------------------------------------------------------------------------
(* The files of the audit state (StableFiles).                             *)

LEMMA FilesInitially == FilesInit => FilesInv
<1>. SUFFICES ASSUME FilesInit PROVE FilesInv
  OBVIOUS
<1>. USE DEF FilesInit
<1>1. Named = {}
  BY DEF Named
<1>2. <<>> \in Seq(Nat) /\ <<>> \in Seq(Seq(Nat)) /\ <<>> \in Seq(Inodes) /\ Len(<<>>) = 0
  BY EmptySeq
<1>3. FileTypes
  <2>1. /\ inodes \in Seq(Inodes) /\ durable \in Disks
        /\ Len(durable.blocks) = Len(inodes)
    BY <1>2 DEF Disks
  <2>2. /\ writer \in [Writers -> WriterStates]
        /\ reader \in [Readers -> ReaderStates]
        /\ renamed \in Seq(DOMAIN inodes) /\ seen \in [Readers -> SUBSET Seq(Nat)]
    BY <1>2, EmptySeq DEF Idle, Closed, WriterStates, ReaderStates
  <2>. QED
    BY <2>1, <2>2 DEF FileTypes
<1>4. DocumentsAreOwned
  <2>1. \A w \in Writers : writer[w].at = "idle"
    BY DEF Idle
  <2>2. durable.entry = 0 /\ DOMAIN renamed = {}
    OBVIOUS
  <2>. QED
    BY <1>1, <2>1, <2>2 DEF DocumentsAreOwned, Writing
<1>5. DocumentsAreWhole
  BY <1>1 DEF DocumentsAreWhole, Idle
<1>6. ReturnedIsNoNewer
  BY DEF ReturnedIsNoNewer
<1>7. \A r \in Readers : ReaderIsConsistent(r)
  BY DEF ReaderIsConsistent, Closed
<1>. QED
  BY <1>3, <1>4, <1>5, <1>6, <1>7 DEF FilesInv

LEMMA FileFacts ==
  ASSUME FileTypes
  PROVE  /\ inodes \in Seq(Inodes) /\ Len(inodes) \in Nat /\ DOMAIN inodes = 1 .. Len(inodes)
         /\ \A i \in DOMAIN inodes : inodes[i].blocks \in Seq(Nat) /\ inodes[i].ctime \in Nat
         /\ durable.blocks \in Seq(Seq(Nat)) /\ DOMAIN durable.blocks = DOMAIN inodes
         /\ \A w \in Writers : writer[w] \in WriterStates /\ writer[w].inode \in Nat
         /\ \A r \in Readers : /\ reader[r] \in ReaderStates /\ reader[r].inode \in Nat
                               /\ reader[r].before \in Seq(Nat) /\ reader[r].got \in Seq(Nat)
         /\ renamed \in Seq(DOMAIN inodes) /\ DOMAIN renamed = 1 .. Len(renamed) /\ Len(renamed) \in Nat
         /\ Named \subseteq DOMAIN inodes /\ 0 \notin Named
<1>1. inodes \in Seq(Inodes) /\ Len(inodes) \in Nat /\ DOMAIN inodes = 1 .. Len(inodes)
  BY LenProperties DEF FileTypes
<1>2. ASSUME NEW i \in DOMAIN inodes PROVE inodes[i].blocks \in Seq(Nat) /\ inodes[i].ctime \in Nat
  <2>1. inodes[i] \in Inodes
    BY <1>1, ElementOfSeq
  <2>. QED
    BY <2>1 DEF Inodes
<1>3. durable.blocks \in Seq(Seq(Nat)) /\ Len(durable.blocks) = Len(inodes)
  BY DEF FileTypes, Disks
<1>4. DOMAIN durable.blocks = DOMAIN inodes
  BY <1>1, <1>3, LenProperties
<1>5. \A w \in Writers : writer[w] \in WriterStates /\ writer[w].inode \in Nat
  BY DEF FileTypes, WriterStates
<1>6. \A r \in Readers : /\ reader[r] \in ReaderStates /\ reader[r].inode \in Nat
                         /\ reader[r].before \in Seq(Nat) /\ reader[r].got \in Seq(Nat)
  BY DEF FileTypes, ReaderStates
<1>7. renamed \in Seq(DOMAIN inodes)
  BY DEF FileTypes
<1>8. DOMAIN renamed = 1 .. Len(renamed) /\ Len(renamed) \in Nat /\ \A k \in DOMAIN renamed : renamed[k] \in DOMAIN inodes
  BY <1>7, LenProperties, ElementOfSeq
<1>9. Named \subseteq DOMAIN inodes
  BY <1>8 DEF Named
<1>10. 0 \notin Named
  BY <1>1, <1>9
<1>. QED
  BY <1>1, <1>2, <1>3, <1>4, <1>5, <1>6, <1>7, <1>8, <1>9, <1>10

\* The inode that changes is another for every reader that has it open, and for
\* those alone.
LEMMA ChangeOfInode ==
  ASSUME FileTypes, NEW i \in DOMAIN inodes, NEW new \in Inodes, new.ctime = inodes[i].ctime,
         Change(i, new)
  PROVE  /\ inodes' \in Seq(Inodes) /\ DOMAIN inodes' = DOMAIN inodes /\ Len(inodes') = Len(inodes)
         /\ inodes'[i].blocks = new.blocks /\ inodes'[i].ctime = inodes[i].ctime + 1
         /\ \A j \in DOMAIN inodes \ {i} : inodes'[j] = inodes[j]
         /\ seen' \in [Readers -> SUBSET Seq(Nat)]
         /\ \A r \in Readers : /\ seen[r] \subseteq seen'[r]
                               /\ reader[r].inode = i => new.blocks \in seen'[r]
<1>1. inodes \in Seq(Inodes) /\ seen \in [Readers -> SUBSET Seq(Nat)]
  BY DEF FileTypes, Inodes
<1>. DEFINE changed == [new EXCEPT !.ctime = @ + 1]
<1>2. inodes' = [inodes EXCEPT ![i] = changed] /\ changed \in Inodes
      /\ changed.blocks = new.blocks /\ changed.ctime = new.ctime + 1
  BY DEF Change, Inodes
<1>3. seen' = [r \in Readers |-> IF reader[r].inode = i THEN seen[r] \cup {new.blocks} ELSE seen[r]]
      /\ new.blocks \in Seq(Nat)
  BY DEF Change, Inodes
<1>. HIDE DEF changed
<1>4. inodes' \in Seq(Inodes) /\ DOMAIN inodes' = DOMAIN inodes /\ Len(inodes') = Len(inodes)
      /\ inodes'[i] = changed /\ \A j \in DOMAIN inodes \ {i} : inodes'[j] = inodes[j]
  BY <1>1, <1>2, ExceptSeq, LenProperties
<1>. QED
  BY <1>1, <1>2, <1>3, <1>4

\* A reader sees the change in the change time.
LEMMA ReadersMeetAChange ==
  ASSUME FileTypes, NEW i \in DOMAIN inodes, NEW new \in Inodes, new.ctime = inodes[i].ctime,
         Change(i, new), reader' = reader, NEW r \in Readers, ReaderIsConsistent(r)
  PROVE  ReaderIsConsistent(r)'
<1>1. /\ inodes' \in Seq(Inodes) /\ DOMAIN inodes' = DOMAIN inodes
      /\ inodes'[i].blocks = new.blocks /\ inodes'[i].ctime = inodes[i].ctime + 1
      /\ \A j \in DOMAIN inodes \ {i} : inodes'[j] = inodes[j]
      /\ seen[r] \subseteq seen'[r] /\ (reader[r].inode = i => new.blocks \in seen'[r])
  BY ChangeOfInode
<1>2. inodes[i].ctime \in Nat /\ inodes[i].ctime + 1 \in Nat
  BY FileFacts
<1>. DEFINE time == inodes[i].ctime
            later == inodes'[i].ctime
            b == reader[r].before[3]
<1>3. time \in Nat /\ later = time + 1
  BY <1>1, <1>2
<1>. SUFFICES ASSUME reader[r].at # "closed"
     PROVE  ReaderIsConsistent(r)'
  BY DEF ReaderIsConsistent
<1>4. /\ reader[r].inode \in DOMAIN inodes /\ inodes[reader[r].inode].blocks \in seen[r]
      /\ reader[r].at = "stat" => reader[r].got = <<>>
      /\ reader[r].at = "accepted" => reader[r].got \in seen[r]
  BY DEF ReaderIsConsistent
<1>5. CASE reader[r].inode # i
  <2>1. inodes'[reader[r].inode] = inodes[reader[r].inode]
    BY <1>1, <1>4, <1>5
  <2>. QED
    BY <1>1, <1>4, <2>1 DEF ReaderIsConsistent
<1>6. CASE reader[r].inode = i
  <2>1. reader[r].at \in {"read", "check"} => b \in Int /\ b <= later /\ b # later
    <3>1. reader[r].at \in {"read", "check"} => b <= time
      BY <1>6 DEF ReaderIsConsistent
    <3>2. reader[r].at \in {"read", "check"} => b \in Int
      BY <1>6 DEF ReaderIsConsistent
    <3>. HIDE DEF time, later, b
    <3>. QED
      BY <1>3, <3>1, <3>2
  <2>. QED
    BY <1>1, <1>4, <1>6, <2>1 DEF ReaderIsConsistent
<1>. QED
  BY <1>5, <1>6


\* What a step leaves alone it keeps.
LEMMA OwnersAreKept ==
  ASSUME DocumentsAreOwned, DOMAIN inodes' = DOMAIN inodes, writer' = writer, renamed' = renamed,
         entry' = entry, durable'.entry = durable.entry
  PROVE  DocumentsAreOwned' /\ Named' = Named
BY DEF DocumentsAreOwned, Writing, Named

LEMMA ReadersAreKept ==
  ASSUME NEW r \in Readers, ReaderIsConsistent(r), reader'[r] = reader[r], seen'[r] = seen[r],
         DOMAIN inodes \subseteq DOMAIN inodes', \A j \in DOMAIN inodes : inodes'[j] = inodes[j]
  PROVE  ReaderIsConsistent(r)'
BY DEF ReaderIsConsistent

LEMMA QuietFiles ==
  ASSUME UNCHANGED <<inodes, entry, durable, writer, returned, renamed, tampered, crashes>>,
         FilesInv, FileTypes', \A r \in Readers : ReaderIsConsistent(r)'
  PROVE  FilesInv'
<1>1. /\ DocumentsAreOwned /\ DOMAIN inodes' = DOMAIN inodes /\ durable'.entry = durable.entry
      /\ tampered = 0 => DocumentsAreWhole
      /\ crashes = 0 => ReturnedIsNoNewer
  BY DEF FilesInv
<1>2. DocumentsAreOwned' /\ Named' = Named
  BY <1>1, OwnersAreKept
<1>3. DocumentsAreWhole => DocumentsAreWhole'
  BY <1>2 DEF DocumentsAreWhole
<1>4. ReturnedIsNoNewer => ReturnedIsNoNewer'
  BY DEF ReturnedIsNoNewer
<1>. QED
  BY <1>1, <1>2, <1>3, <1>4 DEF FilesInv

LEMMA WriterMoves ==
  ASSUME FileTypes, NEW w \in Writers,
         NEW p \in {"idle", "write", "sync", "rename", "sync directory"}, Goto(w, p)
  PROVE  /\ writer' \in [Writers -> WriterStates]
         /\ writer'[w].at = p /\ writer'[w].inode = writer[w].inode
         /\ \A v \in Writers \ {w} : writer'[v] = writer[v]
BY DEF FileTypes, Goto, WriterStates

LEMMA WiderSeq ==
  ASSUME NEW S, NEW T, S \subseteq T, NEW t \in Seq(S)
  PROVE  t \in Seq(T)
OBVIOUS

LEMMA CreateTempStep == ASSUME FilesInv, NEW w \in Writers, CreateTemp(w) PROVE FilesInv'
<1>0. /\ FileTypes /\ DocumentsAreOwned
      /\ tampered = 0 => DocumentsAreWhole
      /\ crashes = 0 => ReturnedIsNoNewer
      /\ \A r \in Readers : ReaderIsConsistent(r)
  BY DEF FilesInv
<1>. DEFINE n == Len(inodes) + 1
            new == [blocks |-> <<>>, ctime |-> 0, links |-> 1]
<1>1. new \in Inodes /\ new.blocks = <<>>
  BY EmptySeq DEF Inodes
<1>2. /\ inodes \in Seq(Inodes) /\ n \in Nat /\ Len(inodes) \in Nat /\ DOMAIN inodes = 1 .. Len(inodes)
      /\ durable \in Disks
      /\ durable.blocks \in Seq(Seq(Nat)) /\ Len(durable.blocks) = Len(inodes)
  <2>1. durable \in Disks /\ Len(durable.blocks) = Len(inodes)
    BY <1>0 DEF FileTypes
  <2>. QED
    BY <1>0, <2>1, FileFacts
<1>3. /\ inodes' = Append(inodes, new)
      /\ durable' = [durable EXCEPT !.blocks = Append(durable.blocks, <<>>)]
      /\ writer' = [writer EXCEPT ![w] = [at |-> "write", inode |-> n]]
      /\ UNCHANGED <<entry, reader, returned, renamed, seen, tampered, crashes, bounds>>
  BY DEF CreateTemp
<1>. HIDE DEF new
<1>4. /\ inodes' \in Seq(Inodes) /\ Len(inodes') = n /\ DOMAIN inodes' = 1 .. n
      /\ \A j \in 1 .. Len(inodes) : inodes'[j] = inodes[j]
      /\ inodes'[n] = new
  BY <1>1, <1>2, <1>3, AppendProperties, LenProperties
<1>. DEFINE old == durable.blocks
            longer == Append(old, <<>>)
<1>5. /\ longer \in Seq(Seq(Nat)) /\ Len(longer) = n /\ \A j \in 1 .. Len(inodes) : longer[j] = old[j]
  <2>1. old \in Seq(Seq(Nat)) /\ Len(old) = Len(inodes) /\ <<>> \in Seq(Nat)
    BY <1>2, EmptySeq
  <2>. HIDE DEF old
  <2>. QED
    BY <1>2, <2>1, AppendProperties
<1>6. durable' \in Disks /\ durable'.blocks = longer
      /\ durable'.entry = durable.entry
  <2>. HIDE DEF longer
  <2>. QED
    BY <1>2, <1>3, <1>5 DEF longer, Disks
<1>. HIDE DEF longer
<1>7. /\ writer' \in [Writers -> WriterStates]
      /\ writer'[w].at = "write" /\ writer'[w].inode = n
      /\ \A v \in Writers \ {w} : writer'[v] = writer[v]
  BY <1>0, <1>2, <1>3 DEF FileTypes, WriterStates
<1>8. Named' = Named /\ Named \subseteq DOMAIN inodes /\ renamed \in Seq(DOMAIN inodes)
  BY <1>0, <1>3, FileFacts DEF Named
<1>9. renamed' \in Seq(DOMAIN inodes')
  <2>1. DOMAIN inodes \subseteq DOMAIN inodes'
    BY <1>2, <1>4
  <2>. QED
    BY <1>3, <1>8, <2>1, WiderSeq
<1>10. FileTypes'
  BY <1>0, <1>3, <1>4, <1>5, <1>6, <1>7, <1>9 DEF FileTypes, Inodes
<1>11. DocumentsAreOwned'
  <2>1. DOMAIN inodes \subseteq DOMAIN inodes' /\ n \in DOMAIN inodes' /\ n \notin DOMAIN inodes
    BY <1>2, <1>4
  <2>2. ASSUME NEW v \in Writers, Writing(v)'
        PROVE  /\ writer'[v].inode \in DOMAIN inodes' \ Named
               /\ \A u \in Writers \ {v} : Writing(u)' => writer'[u].inode # writer'[v].inode
    <3>. HIDE DEF n
    <3>1. \A u \in Writers \ {w} : Writing(u)' <=> Writing(u)
      BY <1>7 DEF Writing
    <3>2. \A u \in Writers \ {w} : Writing(u) => writer[u].inode \in DOMAIN inodes \ Named
      BY <1>0 DEF DocumentsAreOwned
    <3>3. \A u \in Writers \ {w} : Writing(u)' => writer'[u].inode \in DOMAIN inodes \ Named
      BY <1>7, <3>1, <3>2
    <3>4. \A u \in Writers \ {w}, x \in Writers \ {w} : u # x /\ Writing(u)' /\ Writing(x)' => writer'[u].inode # writer'[x].inode
      BY <1>0, <1>7, <3>1 DEF DocumentsAreOwned
    <3>. QED
      BY <1>7, <1>8, <2>1, <2>2, <3>3, <3>4
  <2>3. \A v \in Writers : writer'[v].at = "sync directory" => writer'[v].inode \in Named
    BY <1>0, <1>7 DEF DocumentsAreOwned
  <2>4. /\ \A p, q \in DOMAIN renamed' : renamed'[p] = renamed'[q] => p = q
        /\ entry' \in Named \cup {0} /\ durable'.entry \in Named \cup {0}
    BY <1>0, <1>3, <1>6 DEF DocumentsAreOwned
  <2>. QED
    BY <1>8, <2>2, <2>3, <2>4 DEF DocumentsAreOwned
<1>12. ASSUME tampered' = 0 PROVE DocumentsAreWhole'
  <2>1. DocumentsAreWhole
    BY <1>0, <1>3, <1>12
  <2>2. \A i \in Named : inodes'[i].blocks = Whole(i) /\ durable'.blocks[i] = Whole(i)
    BY <1>2, <1>4, <1>5, <1>6, <1>8, <2>1 DEF DocumentsAreWhole
  <2>3. ASSUME NEW v \in Writers
        PROVE  LET i == writer'[v].inode IN
               /\ writer'[v].at = "write" =>
                    Len(inodes'[i].blocks) < Length /\ \A b \in DOMAIN inodes'[i].blocks : inodes'[i].blocks[b] = i
               /\ writer'[v].at \in {"sync", "rename"} => inodes'[i].blocks = Whole(i)
               /\ writer'[v].at = "rename" => durable'.blocks[i] = Whole(i)
    <3>1. CASE v = w
      <4>1. inodes'[n].blocks = <<>> /\ Len(<<>>) = 0 /\ DOMAIN <<>> = {}
        BY <1>1, <1>4
      <4>. QED
        BY <1>7, <3>1, <4>1, FileConstants
    <3>2. CASE v # w /\ Writing(v)
      <4>1. writer'[v] = writer[v] /\ writer[v].inode \in 1 .. Len(inodes)
        BY <1>0, <1>2, <1>7, <3>2 DEF DocumentsAreOwned
      <4>2. inodes'[writer[v].inode] = inodes[writer[v].inode]
            /\ durable'.blocks[writer[v].inode] = durable.blocks[writer[v].inode]
        BY <1>4, <1>5, <1>6, <4>1
      <4>. QED
        BY <2>1, <4>1, <4>2 DEF DocumentsAreWhole
    <3>3. CASE v # w /\ ~ Writing(v)
      BY <1>7, <3>3 DEF Writing
    <3>. QED
      BY <3>1, <3>2, <3>3
  <2>. QED
    BY <1>8, <2>2, <2>3, Zenon DEF DocumentsAreWhole, Whole
<1>13. crashes' = 0 => ReturnedIsNoNewer'
  BY <1>0, <1>3, <1>6 DEF ReturnedIsNoNewer
<1>14. \A r \in Readers : ReaderIsConsistent(r)'
  BY <1>0, <1>2, <1>3, <1>4, ReadersAreKept
<1>. QED
  BY <1>10, <1>11, <1>12, <1>13, <1>14 DEF FilesInv

\* A writer goes on, or stops: the others keep their documents.
LEMMA OwnersMove ==
  ASSUME DocumentsAreOwned, NEW w \in Writers, \A v \in Writers \ {w} : writer'[v] = writer[v],
         Writing(w)' => Writing(w) /\ writer'[w].inode = writer[w].inode,
         writer'[w].at # "sync directory", renamed' = renamed, DOMAIN inodes' = DOMAIN inodes,
         entry' \in Named \cup {0}, durable'.entry \in Named \cup {0}
  PROVE  DocumentsAreOwned' /\ Named' = Named
<1>1. Named' = Named
  BY DEF Named
<1>2. \A v \in Writers : Writing(v)' => Writing(v) /\ writer'[v].inode = writer[v].inode
  BY DEF Writing
<1>3. \A v \in Writers : Writing(v)' =>
        /\ writer'[v].inode \in DOMAIN inodes' \ Named
        /\ \A u \in Writers \ {v} : Writing(u)' => writer'[u].inode # writer'[v].inode
  BY <1>2 DEF DocumentsAreOwned
<1>4. \A v \in Writers : writer'[v].at = "sync directory" => writer'[v].inode \in Named
  BY DEF DocumentsAreOwned
<1>5. \A p, q \in DOMAIN renamed' : renamed'[p] = renamed'[q] => p = q
  BY DEF DocumentsAreOwned
<1>. QED
  BY <1>1, <1>3, <1>4, <1>5 DEF DocumentsAreOwned

\* What holds of the document of a writer.
DocumentOf(w) ==
  LET i == writer[w].inode IN
  /\ writer[w].at = "write" =>
       Len(inodes[i].blocks) < Length /\ \A b \in DOMAIN inodes[i].blocks : inodes[i].blocks[b] = i
  /\ writer[w].at \in {"sync", "rename"} => inodes[i].blocks = Whole(i)
  /\ writer[w].at = "rename" => durable.blocks[i] = Whole(i)

LEMMA DocumentsMove ==
  ASSUME DocumentsAreOwned, DocumentsAreWhole, NEW w \in Writers,
         \A v \in Writers \ {w} : writer'[v] = writer[v], Named' = Named, Named \subseteq DOMAIN inodes,
         \A j \in DOMAIN inodes : (Writing(w) /\ writer[w].inode = j) \/
           (inodes'[j].blocks = inodes[j].blocks /\ durable'.blocks[j] = durable.blocks[j]),
         DocumentOf(w)'
  PROVE  DocumentsAreWhole'
<1>1. ASSUME NEW v \in Writers PROVE DocumentOf(v)'
  <2>1. CASE v = w
    BY <2>1
  <2>2. CASE v # w /\ Writing(v)
    <3>1. /\ writer'[v] = writer[v] /\ writer[v].inode \in DOMAIN inodes
          /\ ~ (Writing(w) /\ writer[w].inode = writer[v].inode)
      BY <2>2 DEF DocumentsAreOwned
    <3>2. /\ inodes'[writer[v].inode].blocks = inodes[writer[v].inode].blocks
          /\ durable'.blocks[writer[v].inode] = durable.blocks[writer[v].inode]
      BY <3>1
    <3>3. DocumentOf(v)
      BY DEF DocumentOf, DocumentsAreWhole
    <3>. QED
      BY <3>1, <3>2, <3>3 DEF DocumentOf, Whole
  <2>3. CASE v # w /\ ~ Writing(v)
    BY <2>3 DEF DocumentOf, Writing
  <2>. QED
    BY <2>1, <2>2, <2>3
<1>2. \A i \in Named : inodes'[i].blocks = Whole(i) /\ durable'.blocks[i] = Whole(i)
  BY DEF DocumentsAreOwned, DocumentsAreWhole
<1>. QED
  BY <1>1, <1>2, Zenon DEF DocumentsAreWhole, DocumentOf, Whole

LEMMA WriteBlockStep == ASSUME FilesInv, NEW w \in Writers, WriteBlock(w) PROVE FilesInv'
<1>0. /\ FileTypes /\ DocumentsAreOwned
      /\ tampered = 0 => DocumentsAreWhole
      /\ crashes = 0 => ReturnedIsNoNewer
      /\ \A r \in Readers : ReaderIsConsistent(r)
  BY DEF FilesInv
<1>. DEFINE i == writer[w].inode
            old == inodes[i].blocks
            longer == Append(old, i)
            new == [inodes[i] EXCEPT !.blocks = longer]
            next == IF Len(old) + 1 = Length THEN "sync" ELSE "write"
<1>1. /\ writer[w].at = "write" /\ Change(i, new) /\ Goto(w, next)
      /\ UNCHANGED <<entry, durable, reader, returned, renamed, tampered, crashes, bounds>>
  BY DEF WriteBlock, At
<1>2. Writing(w) /\ i \in DOMAIN inodes /\ i \in Nat /\ inodes[i] \in Inodes
  BY <1>0, <1>1, FileFacts, ElementOfSeq DEF Writing, DocumentsAreOwned
<1>3. old \in Seq(Nat) /\ Len(old) \in Nat /\ DOMAIN old = 1 .. Len(old)
  BY <1>0, <1>2, FileFacts, LenProperties
<1>4. /\ longer \in Seq(Nat) /\ Len(longer) = Len(old) + 1 /\ DOMAIN longer = 1 .. Len(old) + 1
      /\ longer[Len(old) + 1] = i /\ \A b \in 1 .. Len(old) : longer[b] = old[b]
  <2>. HIDE DEF old, i
  <2>. QED
    BY <1>2, <1>3, AppendProperties, LenProperties
<1>5. new \in Inodes /\ new.ctime = inodes[i].ctime /\ new.blocks = longer
  <2>. HIDE DEF longer, i
  <2>. QED
    BY <1>2, <1>4 DEF Inodes
<1>. HIDE DEF new, longer, next, old
<1>6. /\ inodes' \in Seq(Inodes) /\ DOMAIN inodes' = DOMAIN inodes /\ Len(inodes') = Len(inodes)
      /\ inodes'[i].blocks = longer
      /\ \A j \in DOMAIN inodes \ {i} : inodes'[j] = inodes[j]
      /\ seen' \in [Readers -> SUBSET Seq(Nat)]
  BY <1>0, <1>1, <1>2, <1>5, ChangeOfInode
<1>7. /\ next \in {"sync", "write"} /\ writer' \in [Writers -> WriterStates]
      /\ writer'[w].at = next /\ writer'[w].inode = i
      /\ \A v \in Writers \ {w} : writer'[v] = writer[v]
  <2>1. next \in {"sync", "write"}
    BY DEF next
  <2>. QED
    BY <1>0, <1>1, <2>1, WriterMoves
<1>8. FileTypes'
  BY <1>0, <1>1, <1>6, <1>7 DEF FileTypes
<1>9. DocumentsAreOwned' /\ Named' = Named
  <2>1. entry' \in Named \cup {0} /\ durable'.entry \in Named \cup {0}
    BY <1>0, <1>1 DEF DocumentsAreOwned
  <2>2. writer'[w].at # "sync directory"
    BY <1>7
  <2>. QED
    BY <1>0, <1>1, <1>2, <1>6, <1>7, <2>1, <2>2, OwnersMove
<1>10. ASSUME tampered' = 0 PROVE DocumentsAreWhole'
  <2>1. DocumentsAreWhole
    BY <1>0, <1>1, <1>10
  <2>2. Len(old) < Length /\ \A b \in 1 .. Len(old) : old[b] = i
    BY <1>1, <1>3, <2>1 DEF DocumentsAreWhole, old
  <2>3. \A b \in DOMAIN longer : longer[b] = i
    BY <1>3, <1>4, <2>2
  <2>4. ASSUME Len(old) + 1 = Length PROVE DocumentOf(w)'
    <3>1. next = "sync" /\ Len(longer) = Length
      BY <1>4, <2>4 DEF next
    <3>2. longer = Whole(i)
      BY <1>4, <2>3, <2>4 DEF Whole
    <3>. QED
      BY <1>6, <1>7, <3>1, <3>2 DEF DocumentOf, Whole
  <2>5. ASSUME Len(old) + 1 # Length PROVE DocumentOf(w)'
    <3>1. next = "write" /\ Len(longer) < Length
      BY <1>3, <1>4, <2>2, <2>5, FileConstants DEF next
    <3>. QED
      BY <1>6, <1>7, <2>3, <3>1 DEF DocumentOf
  <2>6. DocumentOf(w)'
    BY <2>4, <2>5
  <2>7. \A j \in DOMAIN inodes : (Writing(w) /\ writer[w].inode = j) \/
           (inodes'[j].blocks = inodes[j].blocks /\ durable'.blocks[j] = durable.blocks[j])
    BY <1>1, <1>2, <1>6
  <2>8. Named \subseteq DOMAIN inodes
    BY <1>0, FileFacts
  <2>. QED
    BY <1>0, <1>7, <1>9, <2>1, <2>6, <2>7, <2>8, DocumentsMove
<1>11. crashes' = 0 => ReturnedIsNoNewer'
  BY <1>0, <1>1 DEF ReturnedIsNoNewer
<1>12. ASSUME NEW r \in Readers PROVE ReaderIsConsistent(r)'
  BY <1>0, <1>1, <1>2, <1>5, ReadersMeetAChange
<1>. QED
  BY <1>8, <1>9, <1>10, <1>11, <1>12 DEF FilesInv

\* The disk takes a document of the kernel.
LEMMA BlocksAreSynced ==
  ASSUME FileTypes, NEW i \in DOMAIN inodes,
         durable' = [durable EXCEPT !.blocks[i] = inodes[i].blocks]
  PROVE  /\ durable' \in Disks /\ Len(durable'.blocks) = Len(inodes)
         /\ durable'.entry = durable.entry /\ durable'.linked = durable.linked
         /\ durable'.blocks[i] = inodes[i].blocks
         /\ \A j \in DOMAIN inodes \ {i} : durable'.blocks[j] = durable.blocks[j]
<1>. DEFINE old == durable.blocks
            t == inodes[i].blocks
            new == [old EXCEPT ![i] = t]
<1>1. /\ old \in Seq(Seq(Nat)) /\ DOMAIN old = DOMAIN inodes /\ t \in Seq(Nat)
      /\ Len(old) = Len(inodes) /\ durable \in Disks
  BY FileFacts DEF FileTypes
<1>2. durable' = [durable EXCEPT !.blocks = new]
  OBVIOUS
<1>. HIDE DEF old, t
<1>3. /\ new \in Seq(Seq(Nat)) /\ Len(new) = Len(old) /\ new[i] = t
      /\ \A j \in DOMAIN inodes \ {i} : new[j] = old[j]
  BY <1>1, ExceptSeq
<1>. HIDE DEF new
<1>4. /\ durable' \in Disks /\ durable'.blocks = new
      /\ durable'.entry = durable.entry /\ durable'.linked = durable.linked
  BY <1>1, <1>2, <1>3 DEF Disks
<1>. QED
  BY <1>1, <1>3, <1>4 DEF old, t

LEMMA SyncStep == ASSUME FilesInv, NEW w \in Writers, Sync(w) PROVE FilesInv'
<1>0. /\ FileTypes /\ DocumentsAreOwned
      /\ tampered = 0 => DocumentsAreWhole
      /\ crashes = 0 => ReturnedIsNoNewer
      /\ \A r \in Readers : ReaderIsConsistent(r)
  BY DEF FilesInv
<1>. DEFINE i == writer[w].inode
<1>1. /\ writer[w].at = "sync" /\ Goto(w, "rename")
      /\ durable' = [durable EXCEPT !.blocks[i] = inodes[i].blocks]
      /\ UNCHANGED <<inodes, entry, reader, returned, renamed, seen, tampered, crashes, bounds>>
  BY DEF Sync, At
<1>2. Writing(w) /\ i \in DOMAIN inodes
  BY <1>0, <1>1 DEF Writing, DocumentsAreOwned
<1>3. /\ writer' \in [Writers -> WriterStates]
      /\ writer'[w].at = "rename" /\ writer'[w].inode = i
      /\ \A v \in Writers \ {w} : writer'[v] = writer[v]
  BY <1>0, <1>1, WriterMoves
<1>4. /\ durable' \in Disks /\ Len(durable'.blocks) = Len(inodes) /\ durable'.entry = durable.entry
      /\ durable'.blocks[i] = inodes[i].blocks
      /\ \A j \in DOMAIN inodes \ {i} : durable'.blocks[j] = durable.blocks[j]
  BY <1>0, <1>1, <1>2, BlocksAreSynced
<1>5. FileTypes'
  BY <1>0, <1>1, <1>3, <1>4 DEF FileTypes
<1>6. DocumentsAreOwned' /\ Named' = Named
  <2>1. entry' \in Named \cup {0} /\ durable'.entry \in Named \cup {0}
    BY <1>0, <1>1, <1>4 DEF DocumentsAreOwned
  <2>2. writer'[w].at # "sync directory" /\ DOMAIN inodes' = DOMAIN inodes
    BY <1>1, <1>3
  <2>. QED
    BY <1>0, <1>1, <1>2, <1>3, <2>1, <2>2, OwnersMove
<1>7. ASSUME tampered' = 0 PROVE DocumentsAreWhole'
  <2>1. DocumentsAreWhole
    BY <1>0, <1>1, <1>7
  <2>2. DocumentOf(w)'
    <3>1. inodes[i].blocks = Whole(i)
      BY <1>1, <2>1 DEF DocumentsAreWhole
    <3>2. inodes'[i].blocks = Whole(i) /\ durable'.blocks[i] = Whole(i)
      BY <1>1, <1>4, <3>1
    <3>. QED
      BY <1>3, <3>2 DEF DocumentOf, Whole
  <2>3. \A j \in DOMAIN inodes : (Writing(w) /\ writer[w].inode = j) \/
           (inodes'[j].blocks = inodes[j].blocks /\ durable'.blocks[j] = durable.blocks[j])
    BY <1>1, <1>2, <1>4
  <2>4. Named \subseteq DOMAIN inodes
    BY <1>0, FileFacts
  <2>. QED
    BY <1>0, <1>3, <1>6, <2>1, <2>2, <2>3, <2>4, DocumentsMove
<1>8. crashes' = 0 => ReturnedIsNoNewer'
  BY <1>0, <1>1, <1>4 DEF ReturnedIsNoNewer
<1>9. \A r \in Readers : ReaderIsConsistent(r)'
  BY <1>0, <1>1, ReadersAreKept
<1>. QED
  BY <1>5, <1>6, <1>7, <1>8, <1>9 DEF FilesInv

LEMMA RenameStep == ASSUME FilesInv, NEW w \in Writers, Rename(w) PROVE FilesInv'
<1>0. /\ FileTypes /\ DocumentsAreOwned
      /\ tampered = 0 => DocumentsAreWhole
      /\ crashes = 0 => ReturnedIsNoNewer
      /\ \A r \in Readers : ReaderIsConsistent(r)
  BY DEF FilesInv
<1>. DEFINE i == writer[w].inode
            n == Len(renamed) + 1
            new == [inodes[entry] EXCEPT !.links = 0]
<1>1. /\ writer[w].at = "rename" /\ Goto(w, "sync directory")
      /\ entry' = i /\ renamed' = Append(renamed, i)
      /\ \/ entry = 0 /\ UNCHANGED <<inodes, seen>>
         \/ entry # 0 /\ Change(entry, new)
      /\ UNCHANGED <<durable, reader, returned, tampered, crashes, bounds>>
  BY DEF Rename, At
<1>2. Writing(w) /\ i \in DOMAIN inodes \ Named /\ i \in Nat
  BY <1>0, <1>1, FileFacts DEF Writing, DocumentsAreOwned
<1>3. /\ writer' \in [Writers -> WriterStates]
      /\ writer'[w].at = "sync directory" /\ writer'[w].inode = i
      /\ \A v \in Writers \ {w} : writer'[v] = writer[v]
  BY <1>0, <1>1, WriterMoves
<1>4. entry # 0 => /\ entry \in DOMAIN inodes /\ new \in Inodes
                   /\ new.ctime = inodes[entry].ctime /\ new.blocks = inodes[entry].blocks
  <2>1. SUFFICES ASSUME entry # 0
                 PROVE  /\ entry \in DOMAIN inodes /\ new \in Inodes
                        /\ new.ctime = inodes[entry].ctime /\ new.blocks = inodes[entry].blocks
    OBVIOUS
  <2>2. entry \in DOMAIN inodes
    BY <1>0, <2>1, FileFacts DEF DocumentsAreOwned
  <2>3. inodes[entry] \in Inodes
    BY <1>0, <2>2, FileFacts, ElementOfSeq
  <2>. QED
    BY <2>2, <2>3 DEF Inodes
<1>. HIDE DEF new
<1>5. /\ inodes' \in Seq(Inodes) /\ DOMAIN inodes' = DOMAIN inodes /\ Len(inodes') = Len(inodes)
      /\ \A j \in DOMAIN inodes : inodes'[j].blocks = inodes[j].blocks
      /\ seen' \in [Readers -> SUBSET Seq(Nat)]
  <2>1. CASE entry = 0
    BY <1>0, <1>1, <2>1 DEF FileTypes
  <2>2. CASE entry # 0
    <3>1. Change(entry, new)
      BY <1>1, <2>2
    <3>2. /\ inodes' \in Seq(Inodes) /\ DOMAIN inodes' = DOMAIN inodes /\ Len(inodes') = Len(inodes)
          /\ inodes'[entry].blocks = new.blocks
          /\ \A j \in DOMAIN inodes \ {entry} : inodes'[j] = inodes[j]
          /\ seen' \in [Readers -> SUBSET Seq(Nat)]
      BY <1>0, <1>4, <2>2, <3>1, ChangeOfInode
    <3>. QED
      BY <1>4, <2>2, <3>2
  <2>. QED
    BY <2>1, <2>2
<1>6. /\ renamed \in Seq(DOMAIN inodes) /\ Len(renamed) \in Nat /\ DOMAIN renamed = 1 .. Len(renamed)
      /\ Named \subseteq DOMAIN inodes
  BY <1>0, FileFacts
<1>7. /\ renamed' \in Seq(DOMAIN inodes') /\ Len(renamed') = n /\ DOMAIN renamed' = 1 .. n
      /\ renamed'[n] = i /\ \A k \in 1 .. Len(renamed) : renamed'[k] = renamed[k]
  <2>1. Append(renamed, i) \in Seq(DOMAIN inodes) /\ Len(Append(renamed, i)) = n
        /\ Append(renamed, i)[n] = i /\ \A k \in 1 .. Len(renamed) : Append(renamed, i)[k] = renamed[k]
    <3>. HIDE DEF i
    <3>. QED
      BY <1>2, <1>6, AppendProperties
  <2>. HIDE DEF i
  <2>2. renamed' = Append(renamed, i)
    BY <1>1
  <2>. QED
    BY <1>5, <2>1, <2>2, LenProperties
<1>8. Named' = Named \cup {i}
  <2>1. \A k \in 1 .. n : k = n \/ k \in 1 .. Len(renamed)
    BY <1>6
  <2>2. n \in 1 .. n /\ 1 .. Len(renamed) \subseteq 1 .. n
    BY <1>6
  <2>3. ASSUME NEW x \in Named' PROVE x \in Named \cup {i}
    BY <1>6, <1>7, <2>1 DEF Named
  <2>4. ASSUME NEW x \in Named \cup {i} PROVE x \in Named'
    BY <1>6, <1>7, <2>2 DEF Named
  <2>. QED
    BY <2>3, <2>4
<1>9. FileTypes'
  <2>1. entry' \in Nat
    BY <1>1, <1>2
  <2>. QED
    BY <1>0, <1>1, <1>3, <1>5, <1>7, <2>1 DEF FileTypes
<1>10. DocumentsAreOwned'
  <2>1. ASSUME NEW v \in Writers, Writing(v)'
        PROVE  /\ writer'[v].inode \in DOMAIN inodes' \ Named'
               /\ \A u \in Writers \ {v} : Writing(u)' => writer'[u].inode # writer'[v].inode
    <3>1. \A u \in Writers : Writing(u)' => u # w /\ Writing(u) /\ writer'[u] = writer[u]
      BY <1>3 DEF Writing
    <3>2. writer[v].inode \in DOMAIN inodes \ Named /\ writer[v].inode # i
      BY <1>0, <1>2, <2>1, <3>1 DEF DocumentsAreOwned
    <3>. QED
      BY <1>0, <1>5, <1>8, <2>1, <3>1, <3>2 DEF DocumentsAreOwned
  <2>2. \A v \in Writers : writer'[v].at = "sync directory" => writer'[v].inode \in Named'
    BY <1>0, <1>3, <1>8 DEF DocumentsAreOwned
  <2>3. ASSUME NEW p \in 1 .. n, NEW q \in 1 .. n, renamed'[p] = renamed'[q] PROVE p = q
    <3>1. \A k \in 1 .. Len(renamed) : renamed[k] # i
      BY <1>2, <1>6 DEF Named
    <3>2. \A k \in 1 .. n : k = n \/ k \in 1 .. Len(renamed)
      BY <1>6
    <3>. QED
      BY <1>0, <1>6, <1>7, <2>3, <3>1, <3>2 DEF DocumentsAreOwned
  <2>4. entry' \in Named' /\ durable'.entry \in Named' \cup {0}
    BY <1>0, <1>1, <1>8 DEF DocumentsAreOwned
  <2>. QED
    BY <1>7, <2>1, <2>2, <2>3, <2>4 DEF DocumentsAreOwned
<1>11. ASSUME tampered' = 0 PROVE DocumentsAreWhole'
  <2>1. DocumentsAreWhole
    BY <1>0, <1>1, <1>11
  <2>2. ASSUME NEW v \in Writers PROVE DocumentOf(v)'
    <3>1. CASE v = w
      BY <1>3, <3>1 DEF DocumentOf
    <3>2. CASE v # w /\ Writing(v)
      <4>1. writer'[v] = writer[v] /\ writer[v].inode \in DOMAIN inodes
        BY <1>0, <1>3, <3>2 DEF DocumentsAreOwned
      <4>2. inodes'[writer[v].inode].blocks = inodes[writer[v].inode].blocks /\ durable' = durable
        BY <1>1, <1>5, <4>1
      <4>3. DocumentOf(v)
        BY <2>1 DEF DocumentOf, DocumentsAreWhole
      <4>. QED
        BY <4>1, <4>2, <4>3 DEF DocumentOf, Whole
    <3>3. CASE v # w /\ ~ Writing(v)
      BY <1>3, <3>3 DEF DocumentOf, Writing
    <3>. QED
      BY <3>1, <3>2, <3>3
  <2>3. inodes[i].blocks = Whole(i) /\ durable.blocks[i] = Whole(i)
    BY <1>1, <2>1 DEF DocumentsAreWhole
  <2>4. \A j \in Named' : inodes'[j].blocks = Whole(j) /\ durable'.blocks[j] = Whole(j)
    <3>1. durable' = durable
      BY <1>1
    <3>. QED
      BY <1>2, <1>5, <1>6, <1>8, <2>1, <2>3, <3>1 DEF DocumentsAreWhole
  <2>. QED
    BY <2>2, <2>4, Zenon DEF DocumentsAreWhole, DocumentOf, Whole
<1>12. ASSUME crashes' = 0 PROVE ReturnedIsNoNewer'
  <2>1. ReturnedIsNoNewer /\ durable' = durable /\ returned' = returned
    BY <1>0, <1>1, <1>12
  <2>2. renamed' # <<>> /\ entry' = renamed'[Len(renamed')]
    <3>1. entry' = renamed'[Len(renamed')]
      BY <1>1, <1>7
    <3>2. n # 0 /\ Len(<<>>) = 0
      BY <1>6
    <3>. HIDE DEF n
    <3>. QED
      BY <1>7, <3>1, <3>2
  <2>3. DOMAIN renamed \subseteq DOMAIN renamed' /\ \A k \in DOMAIN renamed : renamed'[k] = renamed[k]
    BY <1>6, <1>7
  <2>4. ASSUME NEW k \in returned'
        PROVE  \E p, q \in DOMAIN renamed' :
                 renamed'[p] = k /\ renamed'[q] = durable'.entry /\ p <= q
    <3>1. PICK p \in DOMAIN renamed, q \in DOMAIN renamed :
            renamed[p] = k /\ renamed[q] = durable.entry /\ p <= q
      BY <2>1 DEF ReturnedIsNoNewer
    <3>2. renamed'[p] = k /\ renamed'[q] = durable'.entry
      BY <2>1, <2>3, <3>1
    <3>. QED
      BY <2>3, <3>1, <3>2
  <2>. QED
    BY <2>2, <2>4 DEF ReturnedIsNoNewer
<1>13. ASSUME NEW r \in Readers PROVE ReaderIsConsistent(r)'
  <2>1. CASE entry = 0
    BY <1>0, <1>1, <2>1, ReadersAreKept
  <2>2. CASE entry # 0
    BY <1>0, <1>1, <1>4, <2>2, ReadersMeetAChange
  <2>. QED
    BY <2>1, <2>2
<1>. QED
  BY <1>9, <1>10, <1>11, <1>12, <1>13 DEF FilesInv

LEMMA SyncDirectoryStep == ASSUME FilesInv, NEW w \in Writers, SyncDirectory(w) PROVE FilesInv'
<1>0. /\ FileTypes /\ DocumentsAreOwned
      /\ tampered = 0 => DocumentsAreWhole
      /\ crashes = 0 => ReturnedIsNoNewer
      /\ \A r \in Readers : ReaderIsConsistent(r)
  BY DEF FilesInv
<1>. DEFINE i == writer[w].inode
<1>1. /\ writer[w].at = "sync directory" /\ writer' = [writer EXCEPT ![w] = Idle]
      /\ durable' = [durable EXCEPT !.entry = entry]
      /\ returned' = returned \cup {i}
      /\ UNCHANGED <<inodes, entry, reader, renamed, seen, tampered, crashes, bounds>>
  BY DEF SyncDirectory, At
<1>2. /\ writer' \in [Writers -> WriterStates]
      /\ writer'[w].at = "idle" /\ \A v \in Writers \ {w} : writer'[v] = writer[v]
  BY <1>0, <1>1 DEF FileTypes, WriterStates, Idle
<1>3. ~ Writing(w)' /\ writer'[w].at # "sync directory"
  BY <1>2 DEF Writing
<1>4. /\ durable' \in Disks /\ durable'.entry = entry /\ durable'.blocks = durable.blocks
  BY <1>0, <1>1 DEF FileTypes, Disks
<1>5. FileTypes'
  BY <1>0, <1>1, <1>2, <1>4 DEF FileTypes
<1>6. DocumentsAreOwned' /\ Named' = Named
  <2>1. entry' \in Named \cup {0} /\ durable'.entry \in Named \cup {0}
    BY <1>0, <1>1, <1>4 DEF DocumentsAreOwned
  <2>. QED
    BY <1>0, <1>1, <1>2, <1>3, <2>1, OwnersMove
<1>7. ASSUME tampered' = 0 PROVE DocumentsAreWhole'
  <2>1. DocumentsAreWhole
    BY <1>0, <1>1, <1>7
  <2>2. DocumentOf(w)'
    BY <1>2 DEF DocumentOf
  <2>3. \A j \in DOMAIN inodes : inodes'[j].blocks = inodes[j].blocks /\ durable'.blocks[j] = durable.blocks[j]
    BY <1>1, <1>4
  <2>4. Named \subseteq DOMAIN inodes
    BY <1>0, FileFacts
  <2>. QED
    BY <1>0, <1>2, <1>6, <2>1, <2>2, <2>3, <2>4, DocumentsMove
<1>8. ASSUME crashes' = 0 PROVE ReturnedIsNoNewer'
  <2>1. ReturnedIsNoNewer /\ i \in Named
    BY <1>0, <1>1, <1>8 DEF DocumentsAreOwned
  <2>2. DOMAIN renamed = 1 .. Len(renamed) /\ Len(renamed) \in Nat
    BY <1>0, FileFacts
  <2>3. PICK k \in DOMAIN renamed : renamed[k] = i
    BY <2>1 DEF Named
  <2>4. renamed # <<>> /\ entry = renamed[Len(renamed)] /\ Len(renamed) \in DOMAIN renamed
    BY <2>1, <2>2, <2>3 DEF ReturnedIsNoNewer
  <2>5. ASSUME NEW x \in returned'
        PROVE  \E p, q \in DOMAIN renamed : renamed[p] = x /\ renamed[q] = entry /\ p <= q
    <3>1. \E p \in DOMAIN renamed : renamed[p] = x
      BY <1>1, <2>1, <2>3 DEF ReturnedIsNoNewer
    <3>2. PICK p \in DOMAIN renamed : renamed[p] = x
      BY <3>1
    <3>3. p <= Len(renamed)
      BY <2>2
    <3>. QED
      BY <2>4, <3>2, <3>3
  <2>6. renamed' = renamed /\ entry' = entry /\ durable'.entry = entry
    BY <1>1, <1>4
  <2>. QED
    BY <2>4, <2>5, <2>6 DEF ReturnedIsNoNewer
<1>9. \A r \in Readers : ReaderIsConsistent(r)'
  BY <1>0, <1>1, ReadersAreKept
<1>. QED
  BY <1>5, <1>6, <1>7, <1>8, <1>9 DEF FilesInv

LEMMA WriteFailsStep == ASSUME FilesInv, NEW w \in Writers, WriteFails(w) PROVE FilesInv'
<1>0. /\ FileTypes /\ DocumentsAreOwned
      /\ tampered = 0 => DocumentsAreWhole
      /\ crashes = 0 => ReturnedIsNoNewer
      /\ \A r \in Readers : ReaderIsConsistent(r)
  BY DEF FilesInv
<1>1. /\ writer' = [writer EXCEPT ![w] = Idle]
      /\ UNCHANGED <<inodes, entry, durable, reader, returned, renamed, seen, tampered, crashes, bounds>>
  BY DEF WriteFails
<1>2. /\ writer' \in [Writers -> WriterStates]
      /\ writer'[w].at = "idle" /\ \A v \in Writers \ {w} : writer'[v] = writer[v]
  BY <1>0, <1>1 DEF FileTypes, WriterStates, Idle
<1>3. ~ Writing(w)' /\ writer'[w].at # "sync directory"
  BY <1>2 DEF Writing
<1>5. FileTypes'
  BY <1>0, <1>1, <1>2 DEF FileTypes
<1>6. DocumentsAreOwned' /\ Named' = Named
  <2>1. entry' \in Named \cup {0} /\ durable'.entry \in Named \cup {0}
    BY <1>0, <1>1 DEF DocumentsAreOwned
  <2>. QED
    BY <1>0, <1>1, <1>2, <1>3, <2>1, OwnersMove
<1>7. ASSUME tampered' = 0 PROVE DocumentsAreWhole'
  <2>1. DocumentsAreWhole
    BY <1>0, <1>1, <1>7
  <2>2. DocumentOf(w)'
    BY <1>2 DEF DocumentOf
  <2>3. \A j \in DOMAIN inodes : inodes'[j].blocks = inodes[j].blocks /\ durable'.blocks[j] = durable.blocks[j]
    BY <1>1
  <2>4. Named \subseteq DOMAIN inodes
    BY <1>0, FileFacts
  <2>. QED
    BY <1>0, <1>2, <1>6, <2>1, <2>2, <2>3, <2>4, DocumentsMove
<1>8. crashes' = 0 => ReturnedIsNoNewer'
  BY <1>0, <1>1 DEF ReturnedIsNoNewer
<1>9. \A r \in Readers : ReaderIsConsistent(r)'
  BY <1>0, <1>1, ReadersAreKept
<1>. QED
  BY <1>5, <1>6, <1>7, <1>8, <1>9 DEF FilesInv

\* A reader takes a step: the files stay.
LEMMA ReaderStep ==
  ASSUME FilesInv, NEW s \in Readers,
         OpenFile(s) \/ FstatBefore(s) \/ ReadBlock(s) \/ FstatAfter(s) \/ CloseFile(s)
  PROVE  FilesInv'
<1>0. /\ FileTypes /\ DocumentsAreOwned
      /\ tampered = 0 => DocumentsAreWhole
      /\ crashes = 0 => ReturnedIsNoNewer
      /\ \A r \in Readers : ReaderIsConsistent(r)
  BY DEF FilesInv
<1>1. /\ UNCHANGED <<inodes, entry, durable, writer, returned, renamed, tampered, crashes, bounds>>
      /\ \A r \in Readers \ {s} : reader'[r] = reader[r] /\ seen'[r] = seen[r]
  BY <1>0 DEF FileTypes, OpenFile, FstatBefore, ReadBlock, FstatAfter, CloseFile
<1>. DEFINE i == reader[s].inode
<1>2. reader'[s] \in ReaderStates /\ seen' \in [Readers -> SUBSET Seq(Nat)] /\ ReaderIsConsistent(s)'
  <2>0. /\ reader \in [Readers -> ReaderStates] /\ seen \in [Readers -> SUBSET Seq(Nat)]
        /\ reader[s] \in ReaderStates /\ ReaderIsConsistent(s)
        /\ reader[s].at # "closed" => i \in DOMAIN inodes /\ i \in Nat
        /\ reader[s].got \in Seq(Nat)
    BY <1>0, FileFacts DEF FileTypes, ReaderIsConsistent
  <2>1. CASE OpenFile(s)
    <3>1. /\ reader' = [reader EXCEPT ![s] = [at |-> "stat", inode |-> entry, before |-> <<>>, got |-> <<>>]]
          /\ seen' = [seen EXCEPT ![s] = {inodes[entry].blocks}] /\ entry # 0
      BY <2>1 DEF OpenFile
    <3>2. entry \in DOMAIN inodes /\ inodes[entry].blocks \in Seq(Nat) /\ entry \in Nat
      <4>1. entry \in Named
        BY <1>0, <3>1 DEF DocumentsAreOwned
      <4>2. entry \in DOMAIN inodes
        BY <1>0, <4>1, FileFacts
      <4>. QED
        BY <1>0, <4>2, FileFacts
    <3>3. <<>> \in Seq(Nat)
      BY EmptySeq
    <3>. QED
      BY <1>1, <2>0, <3>1, <3>2, <3>3 DEF ReaderStates, ReaderIsConsistent
  <2>2. CASE FstatBefore(s)
    <3>1. /\ reader[s].at = "stat" /\ seen' = seen
          /\ reader' = [reader EXCEPT ![s].at = "read", ![s].before = Stat(i)]
      BY <2>2 DEF FstatBefore
    <3>2. /\ i \in DOMAIN inodes /\ inodes[i].ctime \in Nat /\ inodes[i].blocks \in Seq(Nat)
          /\ inodes[i] \in Inodes
      BY <1>0, <2>0, <3>1, FileFacts, ElementOfSeq
    <3>3. Stat(i) \in Seq(Nat) /\ Stat(i)[3] = inodes[i].ctime
      <4>1. Len(inodes[i].blocks) \in Nat /\ inodes[i].links \in Nat /\ i \in Nat
        BY <2>0, <3>1, <3>2, LenProperties DEF Inodes
      <4>. QED
        BY <3>2, <4>1 DEF Stat
    <3>4. /\ reader'[s].at = "read" /\ reader'[s].inode = i /\ reader'[s].before = Stat(i)
          /\ reader'[s].got = reader[s].got /\ reader'[s] \in ReaderStates
      BY <2>0, <3>1, <3>3 DEF ReaderStates
    <3>5. reader[s].got = <<>> /\ inodes[i].blocks \in seen[s]
      BY <2>0, <3>1 DEF ReaderIsConsistent
    <3>6. Begins(<<>>, inodes[i].blocks)
      BY <3>2, LenProperties DEF Begins
    <3>7. /\ reader'[s].before[3] = inodes[i].ctime /\ reader'[s].got = <<>>
          /\ inodes[i].ctime \in Nat /\ inodes[i].ctime <= inodes[i].ctime
      BY <3>2, <3>3, <3>4, <3>5
    <3>8. inodes' = inodes /\ seen'[s] = seen[s]
      BY <1>1, <3>1
    <3>. HIDE DEF i
    <3>. QED
      BY <2>0, <3>1, <3>2, <3>4, <3>5, <3>6, <3>7, <3>8 DEF ReaderIsConsistent, Begins
  <2>3. CASE ReadBlock(s)
    <3>. DEFINE blocks == inodes[i].blocks
                got == reader[s].got
                n == Len(got) + 1
                longer == Append(got, blocks[n])
                next == IF n = Len(blocks) THEN "check" ELSE "read"
    <3>1. /\ reader[s].at = "read" /\ seen' = seen /\ n <= Len(blocks)
          /\ reader' = [reader EXCEPT ![s].got = longer, ![s].at = next]
      BY <2>3 DEF ReadBlock
    <3>2. i \in DOMAIN inodes /\ blocks \in Seq(Nat) /\ Len(blocks) \in Nat /\ got \in Seq(Nat) /\ Len(got) \in Nat
      BY <1>0, <2>0, <3>1, FileFacts, LenProperties
    <3>. HIDE DEF blocks, got
    <3>3. n \in 1 .. Len(blocks) /\ blocks[n] \in Nat
      BY <3>1, <3>2, ElementOfSeq, LenProperties
    <3>4. /\ longer \in Seq(Nat) /\ Len(longer) = n /\ longer[n] = blocks[n]
          /\ \A k \in 1 .. Len(got) : longer[k] = got[k]
      BY <3>2, <3>3, AppendProperties
    <3>5. Begins(got, blocks) => Begins(longer, blocks)
      <4>1. \A k \in 1 .. n : k = n \/ k \in 1 .. Len(got)
        BY <3>2
      <4>. QED
        BY <3>1, <3>4, <4>1 DEF Begins
    <3>. HIDE DEF longer, n, next
    <3>6. next \in {"check", "read"}
      BY DEF next
    <3>7. /\ reader'[s].at = next /\ reader'[s].inode = i /\ reader'[s].before = reader[s].before
          /\ reader'[s].got = longer /\ reader'[s] \in ReaderStates
      BY <2>0, <3>1, <3>4, <3>6 DEF ReaderStates
    <3>8. /\ blocks \in seen[s]
          /\ reader[s].before[3] \in Nat /\ reader[s].before[3] <= inodes[i].ctime
          /\ reader[s].before[3] = inodes[i].ctime => Begins(got, blocks)
      BY <2>0, <3>1 DEF ReaderIsConsistent, blocks, got
    <3>. QED
      BY <1>1, <2>0, <3>1, <3>2, <3>5, <3>6, <3>7, <3>8 DEF ReaderIsConsistent, blocks
  <2>4. CASE FstatAfter(s)
    <3>. DEFINE same == /\ SameStat(reader[s].before, Stat(i))
                        /\ Len(reader[s].got) = Len(inodes[i].blocks)
    <3>1. /\ reader[s].at = "check" /\ seen' = seen
          /\ reader' = [reader EXCEPT ![s] = IF same THEN [reader[s] EXCEPT !.at = "accepted"] ELSE Closed]
      BY <2>4 DEF FstatAfter
    <3>2. CASE same
      <4>1. reader'[s] = [reader[s] EXCEPT !.at = "accepted"]
        BY <2>0, <3>1, <3>2
      <4>2. /\ reader'[s].at = "accepted" /\ reader'[s].inode = i
            /\ reader'[s].got = reader[s].got /\ reader'[s] \in ReaderStates
        BY <2>0, <4>1 DEF ReaderStates
      <4>3. reader[s].before[3] = inodes[i].ctime
        BY <3>2 DEF SameStat, Stat
      <4>4. i \in DOMAIN inodes /\ inodes[i].blocks \in seen[s] /\ Begins(reader[s].got, inodes[i].blocks)
        BY <2>0, <3>1, <4>3 DEF ReaderIsConsistent
      <4>5. inodes[i].blocks \in Seq(Nat)
        BY <1>0, <4>4, FileFacts
      <4>6. reader[s].got = inodes[i].blocks
        <5>. DEFINE a == reader[s].got
                    b == inodes[i].blocks
        <5>1. a \in Seq(Nat) /\ b \in Seq(Nat) /\ Len(a) = Len(b) /\ Begins(a, b)
          BY <2>0, <3>2, <4>4, <4>5
        <5>. HIDE DEF a, b
        <5>2. \A k \in 1 .. Len(a) : a[k] = b[k]
          BY <5>1 DEF Begins
        <5>3. a = b
          BY <5>1, <5>2, SeqEqual
        <5>. QED
          BY <5>3 DEF a, b
      <4>. QED
        BY <1>1, <2>0, <3>1, <4>2, <4>4, <4>6 DEF ReaderIsConsistent
    <3>3. CASE ~ same
      <4>1. reader'[s] = Closed
        BY <2>0, <3>1, <3>3
      <4>2. Closed \in ReaderStates /\ Closed.at = "closed"
        BY EmptySeq DEF Closed, ReaderStates
      <4>. QED
        BY <2>0, <3>1, <4>1, <4>2 DEF ReaderIsConsistent
    <3>. QED
      BY <3>2, <3>3
  <2>5. CASE CloseFile(s)
    <3>1. reader'[s] = Closed /\ seen' = seen
      BY <2>0, <2>5 DEF CloseFile
    <3>2. Closed \in ReaderStates /\ Closed.at = "closed"
      BY EmptySeq DEF Closed, ReaderStates
    <3>. QED
      BY <2>0, <3>1, <3>2 DEF ReaderIsConsistent
  <2>. QED
    BY <2>1, <2>2, <2>3, <2>4, <2>5
<1>3. reader' \in [Readers -> ReaderStates]
  <2>1. \A r \in Readers : reader'[r] \in ReaderStates
    BY <1>0, <1>1, <1>2 DEF FileTypes
  <2>2. reader' = [r \in Readers |-> reader'[r]]
    BY <1>0 DEF FileTypes, OpenFile, FstatBefore, ReadBlock, FstatAfter, CloseFile
  <2>. QED
    BY <2>1, <2>2
<1>4. FileTypes'
  BY <1>0, <1>1, <1>2, <1>3 DEF FileTypes
<1>5. ASSUME NEW r \in Readers PROVE ReaderIsConsistent(r)'
  <2>1. CASE r = s
    BY <1>2, <2>1
  <2>2. CASE r # s
    BY <1>0, <1>1, <2>2, ReadersAreKept
  <2>. QED
    BY <2>1, <2>2
<1>. QED
  BY <1>1, <1>4, <1>5, QuietFiles

LEMMA EditBlockStep == ASSUME FilesInv, NEW b \in 1 .. Length, EditBlock(b) PROVE FilesInv'
<1>0. /\ FileTypes /\ DocumentsAreOwned
      /\ tampered = 0 => DocumentsAreWhole
      /\ crashes = 0 => ReturnedIsNoNewer
      /\ \A r \in Readers : ReaderIsConsistent(r)
  BY DEF FilesInv
<1>1. PICK document \in {0, entry} : Change(entry, [inodes[entry] EXCEPT !.blocks[b] = document])
  BY DEF EditBlock
<1>. DEFINE old == inodes[entry].blocks
            edited == [old EXCEPT ![b] = document]
            new == [inodes[entry] EXCEPT !.blocks = edited]
<1>2. /\ entry # 0 /\ tampered' = tampered + 1 /\ Change(entry, new)
      /\ UNCHANGED <<entry, durable, writer, reader, returned, renamed, crashes, bounds>>
  BY <1>1 DEF EditBlock
<1>3. /\ entry \in DOMAIN inodes /\ entry \in Nat /\ inodes[entry] \in Inodes /\ old \in Seq(Nat)
  <2>1. entry \in DOMAIN inodes
    BY <1>0, <1>2, FileFacts DEF DocumentsAreOwned
  <2>. QED
    BY <1>0, <2>1, FileFacts, ElementOfSeq
<1>4. edited \in Seq(Nat)
  <2>1. document \in Nat
    BY <1>3
  <2>2. old = [k \in 1 .. Len(old) |-> old[k]] /\ Len(old) \in Nat /\ \A k \in 1 .. Len(old) : old[k] \in Nat
    BY <1>3, LenProperties, ElementOfSeq
  <2>. DEFINE n == Len(old)
              f == [k \in 1 .. n |-> IF k = b THEN document ELSE old[k]]
  <2>. HIDE DEF old
  <2>3. edited = f
    BY <2>2
  <2>4. f \in [1 .. n -> Nat] /\ n \in Nat
    BY <2>1, <2>2
  <2>. HIDE DEF f, n
  <2>5. f \in Seq(Nat)
    BY <2>4
  <2>. QED
    BY <2>3, <2>5
<1>. HIDE DEF edited
<1>5. new \in Inodes /\ new.ctime = inodes[entry].ctime /\ new.blocks = edited
  BY <1>3, <1>4 DEF Inodes
<1>. HIDE DEF new
<1>6. /\ inodes' \in Seq(Inodes) /\ DOMAIN inodes' = DOMAIN inodes /\ Len(inodes') = Len(inodes)
      /\ seen' \in [Readers -> SUBSET Seq(Nat)]
  BY <1>0, <1>2, <1>3, <1>5, ChangeOfInode
<1>7. tampered \in Nat /\ tampered' \in Nat /\ tampered' # 0
  BY <1>0, <1>2 DEF FileTypes
<1>8. FileTypes'
  BY <1>0, <1>2, <1>6, <1>7 DEF FileTypes
<1>9. DocumentsAreOwned'
  BY <1>0, <1>2, <1>6, OwnersAreKept
<1>10. crashes' = 0 => ReturnedIsNoNewer'
  BY <1>0, <1>2 DEF ReturnedIsNoNewer
<1>11. ASSUME NEW r \in Readers PROVE ReaderIsConsistent(r)'
  BY <1>0, <1>2, <1>3, <1>5, ReadersMeetAChange
<1>. QED
  BY <1>7, <1>8, <1>9, <1>10, <1>11 DEF FilesInv

LEMMA WritebackStep == ASSUME FilesInv, Writeback PROVE FilesInv'
<1>0. /\ FileTypes /\ DocumentsAreOwned
      /\ tampered = 0 => DocumentsAreWhole
      /\ crashes = 0 => ReturnedIsNoNewer
      /\ \A r \in Readers : ReaderIsConsistent(r)
  BY DEF FilesInv
<1>1. UNCHANGED <<inodes, entry, writer, reader, returned, renamed, seen, tampered, crashes, bounds>>
  BY DEF Writeback
<1>2. /\ durable' \in Disks /\ Len(durable'.blocks) = Len(inodes) /\ durable'.entry \in {durable.entry, entry}
      /\ \A j \in DOMAIN inodes : durable'.blocks[j] \in {durable.blocks[j], inodes[j].blocks}
  <2>0. durable \in Disks /\ Len(durable.blocks) = Len(inodes) /\ entry \in Nat
    BY <1>0 DEF FileTypes
  <2>1. CASE durable' = [durable EXCEPT !.entry = entry]
    BY <2>0, <2>1 DEF Disks
  <2>2. CASE durable' = [durable EXCEPT !.linked = TRUE]
    BY <2>0, <2>2 DEF Disks
  <2>3. CASE \E i \in DOMAIN inodes : durable' = [durable EXCEPT !.blocks[i] = inodes[i].blocks]
    <3>1. PICK i \in DOMAIN inodes : durable' = [durable EXCEPT !.blocks[i] = inodes[i].blocks]
      BY <2>3
    <3>2. /\ durable' \in Disks /\ Len(durable'.blocks) = Len(inodes)
          /\ durable'.entry = durable.entry /\ durable'.blocks[i] = inodes[i].blocks
          /\ \A j \in DOMAIN inodes \ {i} : durable'.blocks[j] = durable.blocks[j]
      BY <1>0, <3>1, BlocksAreSynced
    <3>. QED
      BY <3>2
  <2>. QED
    BY <2>1, <2>2, <2>3 DEF Writeback
<1>3. FileTypes'
  BY <1>0, <1>1, <1>2 DEF FileTypes
<1>4. DocumentsAreOwned' /\ Named' = Named
  <2>1. durable'.entry \in Named \cup {0}
    BY <1>0, <1>2 DEF DocumentsAreOwned
  <2>2. Named' = Named /\ renamed' = renamed /\ entry' = entry /\ inodes' = inodes /\ writer' = writer
    BY <1>1 DEF Named
  <2>3. \A v \in Writers : Writing(v)' <=> Writing(v)
    BY <2>2 DEF Writing
  <2>. QED
    BY <1>0, <2>1, <2>2, <2>3 DEF DocumentsAreOwned
<1>5. ASSUME tampered' = 0 PROVE DocumentsAreWhole'
  <2>1. DocumentsAreWhole
    BY <1>0, <1>1, <1>5
  <2>2. ASSUME NEW v \in Writers PROVE DocumentOf(v)'
    <3>1. DocumentOf(v)
      BY <2>1 DEF DocumentOf, DocumentsAreWhole
    <3>2. CASE writer[v].at = "rename"
      <4>1. writer[v].inode \in DOMAIN inodes
        BY <1>0, <3>2 DEF DocumentsAreOwned, Writing
      <4>2. durable'.blocks[writer[v].inode] \in {durable.blocks[writer[v].inode], inodes[writer[v].inode].blocks}
        BY <1>2, <4>1
      <4>. QED
        BY <1>1, <3>1, <3>2, <4>2 DEF DocumentOf, Whole
    <3>3. CASE writer[v].at # "rename"
      BY <1>1, <3>1, <3>3 DEF DocumentOf, Whole
    <3>. QED
      BY <3>2, <3>3
  <2>3. \A i \in Named : inodes'[i].blocks = Whole(i) /\ durable'.blocks[i] = Whole(i)
    <3>1. Named \subseteq DOMAIN inodes
      BY <1>0, FileFacts
    <3>. QED
      BY <1>1, <1>2, <2>1, <3>1 DEF DocumentsAreWhole
  <2>. QED
    BY <1>4, <2>2, <2>3, Zenon DEF DocumentsAreWhole, DocumentOf, Whole
<1>6. ASSUME crashes' = 0 PROVE ReturnedIsNoNewer'
  <2>1. ReturnedIsNoNewer
    BY <1>0, <1>1, <1>6
  <2>2. DOMAIN renamed = 1 .. Len(renamed) /\ Len(renamed) \in Nat
    BY <1>0, FileFacts
  <2>3. CASE durable'.entry = durable.entry
    BY <1>1, <2>1, <2>3 DEF ReturnedIsNoNewer
  <2>4. CASE durable'.entry = entry
    <3>1. ASSUME NEW x \in returned
          PROVE  \E p, q \in DOMAIN renamed : renamed[p] = x /\ renamed[q] = entry /\ p <= q
      <4>1. PICK p \in DOMAIN renamed : renamed[p] = x
        BY <2>1 DEF ReturnedIsNoNewer
      <4>2. p <= Len(renamed) /\ Len(renamed) \in DOMAIN renamed
        BY <2>2
      <4>3. renamed # <<>>
        BY <4>1
      <4>. QED
        BY <2>1, <4>1, <4>2, <4>3 DEF ReturnedIsNoNewer
    <3>. QED
      BY <1>1, <2>1, <2>4, <3>1 DEF ReturnedIsNoNewer
  <2>. QED
    BY <1>2, <2>3, <2>4
<1>7. \A r \in Readers : ReaderIsConsistent(r)'
  BY <1>0, <1>1, ReadersAreKept
<1>. QED
  BY <1>3, <1>4, <1>5, <1>6, <1>7 DEF FilesInv

LEMMA CrashStep == ASSUME FilesInv, Crash PROVE FilesInv'
<1>0. /\ FileTypes /\ DocumentsAreOwned
      /\ tampered = 0 => DocumentsAreWhole
      /\ crashes = 0 => ReturnedIsNoNewer
      /\ \A r \in Readers : ReaderIsConsistent(r)
  BY DEF FilesInv
<1>1. /\ crashes' = crashes + 1
      /\ inodes' = [i \in DOMAIN inodes |-> [inodes[i] EXCEPT !.blocks = durable.blocks[i]]]
      /\ entry' = IF durable.linked THEN durable.entry ELSE 0
      /\ durable' = [durable EXCEPT !.entry = entry', !.linked = TRUE]
      /\ writer' = [w \in Writers |-> Idle] /\ reader' = [r \in Readers |-> Closed]
      /\ seen' = [r \in Readers |-> {}]
      /\ UNCHANGED <<returned, renamed, tampered, bounds>>
  BY DEF Crash
<1>2. /\ Len(inodes) \in Nat /\ DOMAIN inodes = 1 .. Len(inodes) /\ inodes \in Seq(Inodes)
      /\ DOMAIN durable.blocks = DOMAIN inodes /\ durable.blocks \in Seq(Seq(Nat))
      /\ durable \in Disks /\ Len(durable.blocks) = Len(inodes) /\ crashes \in Nat
  BY <1>0, FileFacts DEF FileTypes
<1>3. ASSUME NEW i \in DOMAIN inodes
      PROVE  inodes'[i] \in Inodes /\ inodes'[i].blocks = durable.blocks[i]
  <2>1. inodes[i] \in Inodes /\ durable.blocks[i] \in Seq(Nat)
    BY <1>2, ElementOfSeq
  <2>2. inodes'[i] = [inodes[i] EXCEPT !.blocks = durable.blocks[i]]
    BY <1>1
  <2>. QED
    BY <2>1, <2>2 DEF Inodes
<1>4. inodes' \in Seq(Inodes) /\ DOMAIN inodes' = DOMAIN inodes /\ Len(inodes') = Len(inodes)
  <2>1. inodes' \in [1 .. Len(inodes) -> Inodes]
    BY <1>1, <1>2, <1>3
  <2>. DEFINE n == Len(inodes)
              new == inodes'
  <2>2. n \in Nat /\ new \in [1 .. n -> Inodes]
    BY <1>2, <2>1
  <2>. HIDE DEF n, new
  <2>3. new \in Seq(Inodes) /\ DOMAIN new = 1 .. n /\ Len(new) = n
    BY <2>2, LenProperties
  <2>. QED
    BY <1>2, <2>3 DEF n, new
<1>5. /\ entry' \in {0, durable.entry} /\ entry' \in Nat
      /\ durable' \in Disks /\ durable'.blocks = durable.blocks /\ durable'.entry = entry'
  BY <1>1, <1>2 DEF Disks
<1>6. /\ writer' \in [Writers -> WriterStates] /\ reader' \in [Readers -> ReaderStates]
      /\ seen' \in [Readers -> SUBSET Seq(Nat)] /\ crashes' \in Nat /\ crashes' # 0
      /\ \A w \in Writers : writer'[w].at = "idle"
      /\ \A r \in Readers : reader'[r].at = "closed"
  BY <1>1, <1>2, EmptySeq DEF Idle, Closed, WriterStates, ReaderStates
<1>7. FileTypes'
  BY <1>0, <1>1, <1>2, <1>4, <1>5, <1>6 DEF FileTypes
<1>8. DocumentsAreOwned' /\ Named' = Named
  <2>1. Named' = Named /\ renamed' = renamed
    BY <1>1 DEF Named
  <2>2. \A w \in Writers : ~ Writing(w)' /\ writer'[w].at # "sync directory"
    BY <1>6 DEF Writing
  <2>3. entry' \in Named \cup {0} /\ durable'.entry \in Named \cup {0}
    BY <1>0, <1>5 DEF DocumentsAreOwned
  <2>4. \A p, q \in DOMAIN renamed : renamed[p] = renamed[q] => p = q
    BY <1>0 DEF DocumentsAreOwned
  <2>. QED
    BY <2>1, <2>2, <2>3, <2>4 DEF DocumentsAreOwned
<1>9. ASSUME tampered' = 0 PROVE DocumentsAreWhole'
  <2>1. DocumentsAreWhole /\ Named \subseteq DOMAIN inodes
    BY <1>0, <1>1, <1>9, FileFacts
  <2>2. \A i \in Named : inodes'[i].blocks = Whole(i) /\ durable'.blocks[i] = Whole(i)
    BY <1>3, <1>5, <2>1 DEF DocumentsAreWhole
  <2>. QED
    BY <1>6, <1>8, <2>2 DEF DocumentsAreWhole, Whole
<1>10. \A r \in Readers : ReaderIsConsistent(r)'
  BY <1>6 DEF ReaderIsConsistent
<1>. QED
  BY <1>6, <1>7, <1>8, <1>9, <1>10 DEF FilesInv

LEMMA FilesStep == FilesInv /\ [FilesNext]_fileVars => FilesInv'
<1>. SUFFICES ASSUME FilesInv, [FilesNext]_fileVars PROVE FilesInv'
  OBVIOUS
<1>1. CASE UNCHANGED fileVars
  <2>1. FileTypes' /\ \A r \in Readers : ReaderIsConsistent(r)'
    BY <1>1 DEF fileVars, FilesInv, FileTypes, ReaderIsConsistent
  <2>. QED
    BY <1>1, <2>1, QuietFiles DEF fileVars
<1>2. CASE \E w \in Writers : CreateTemp(w) \/ WriteBlock(w) \/ Sync(w) \/ Rename(w)
                                \/ SyncDirectory(w) \/ WriteFails(w)
  BY <1>2, CreateTempStep, WriteBlockStep, SyncStep, RenameStep, SyncDirectoryStep, WriteFailsStep
<1>3. CASE \E r \in Readers : OpenFile(r) \/ FstatBefore(r) \/ ReadBlock(r) \/ FstatAfter(r)
                                \/ CloseFile(r)
  BY <1>3, ReaderStep
<1>4. CASE \E b \in 1 .. Length : EditBlock(b)
  BY <1>4, EditBlockStep
<1>. QED
  BY <1>1, <1>2, <1>3, <1>4, WritebackStep, CrashStep DEF FilesNext

\* What the invariant says of a reader and of a power loss.
LEMMA FilesAreSound == FilesInv => ReadsAreOfOneInstant /\ WritesSurvive
<1>. SUFFICES ASSUME FilesInv PROVE ReadsAreOfOneInstant /\ WritesSurvive
  OBVIOUS
<1>0. /\ FileTypes /\ DocumentsAreOwned
      /\ tampered = 0 => DocumentsAreWhole
      /\ crashes = 0 => ReturnedIsNoNewer
      /\ \A r \in Readers : ReaderIsConsistent(r)
  BY DEF FilesInv
<1>1. ReadsAreOfOneInstant
  BY <1>0 DEF ReadsAreOfOneInstant, ReaderIsConsistent
<1>2. /\ renamed \in Seq(DOMAIN inodes) /\ DOMAIN renamed = 1 .. Len(renamed) /\ Len(renamed) \in Nat
      /\ 0 \notin Named
  BY <1>0, FileFacts
<1>3. ASSUME NEW p \in DOMAIN renamed PROVE Place(renamed[p]) = p
  <2>. DEFINE S == {k \in DOMAIN renamed : renamed[k] = renamed[p]}
  <2>1. S = {p}
    BY <1>0 DEF DocumentsAreOwned
  <2>2. S \in SUBSET Int /\ p \in S /\ \A x \in S : x <= p
    BY <1>2, <2>1
  <2>. HIDE DEF S
  <2>3. Max(S) = p
    BY <2>2, MaxIs
  <2>. QED
    BY <2>3 DEF Place, S
<1>4. ASSUME tampered = 0
      PROVE  /\ durable.entry # 0 => durable.blocks[durable.entry] = Whole(durable.entry)
             /\ entry # 0 => inodes[entry].blocks = Whole(entry)
  BY <1>0, <1>4 DEF DocumentsAreOwned, DocumentsAreWhole
<1>5. ASSUME crashes = 0, NEW i \in returned
      PROVE  durable.entry # 0 /\ Place(i) <= Place(durable.entry)
  <2>1. PICK p \in DOMAIN renamed, q \in DOMAIN renamed :
          renamed[p] = i /\ renamed[q] = durable.entry /\ p <= q
    BY <1>0, <1>5 DEF ReturnedIsNoNewer
  <2>2. durable.entry \in Named
    BY <2>1 DEF Named
  <2>. QED
    BY <1>2, <1>3, <2>1, <2>2
<1>6. WritesSurvive
  BY <1>4, <1>5 DEF WritesSurvive
<1>. QED
  BY <1>1, <1>6

----------------------------------------------------------------------------
(* A stream judged as text (ContentStream).                                *)

\* f says of every beginning of the text whether it is a sequence of characters.
IsCuts(text, f) ==
  /\ f \in [0 .. Len(text) -> BOOLEAN]
  /\ \A n \in 0 .. Len(text) :
       f[n] = (n = 0 \/ \E k \in 1 .. 3 : k <= n /\ f[n - k] /\ SubSeq(text, n - k + 1, n) \in Characters)

LEMMA CutsExist ==
  ASSUME NEW text, Len(text) \in Nat
  PROVE  \E f : IsCuts(text, f)
<1>. DEFINE N == Len(text)
            P(f, m) == \A n \in 0 .. m :
              f[n] = (n = 0 \/ \E k \in 1 .. 3 : k <= n /\ f[n - k] /\ SubSeq(text, n - k + 1, n) \in Characters)
            Bad == {m \in 0 .. N : ~ \E f \in [0 .. m -> BOOLEAN] : P(f, m)}
<1>1. ASSUME NEW m \in Bad, \A k \in Bad : m <= k PROVE FALSE
  <2>0. m \in 0 .. N /\ ~ \E f \in [0 .. m -> BOOLEAN] : P(f, m)
    <3>. HIDE DEF P
    <3>. QED
      OBVIOUS
  <2>1. CASE m = 0
    <3>. DEFINE f == [n \in 0 .. 0 |-> TRUE]
    <3>1. f \in [0 .. 0 -> BOOLEAN] /\ \A n \in 0 .. 0 : n = 0 /\ f[n]
      OBVIOUS
    <3>2. P(f, 0)
      BY <3>1
    <3>. QED
      BY <2>0, <2>1, <3>1, <3>2
  <2>2. CASE m # 0
    <3>1. m \in Nat /\ m - 1 \in 0 .. N /\ ~ (m <= m - 1)
      BY <2>0, <2>2
    <3>2. m - 1 \notin Bad
      <4>. HIDE DEF Bad
      <4>. QED
        BY <1>1, <3>1
    <3>3. PICK g \in [0 .. m - 1 -> BOOLEAN] : P(g, m - 1)
      BY <3>1, <3>2
    <3>. DEFINE last == \E k \in 1 .. 3 : k <= m /\ g[m - k] /\ SubSeq(text, m - k + 1, m) \in Characters
                f == [n \in 0 .. m |-> IF n = m THEN last ELSE g[n]]
    <3>4. last \in BOOLEAN
      BY Zenon
    <3>. HIDE DEF last
    <3>5. f \in [0 .. m -> BOOLEAN] /\ f[m] = last /\ \A n \in 0 .. m - 1 : f[n] = g[n]
      BY <3>1, <3>3, <3>4
    <3>. HIDE DEF f
    <3>6. ASSUME NEW n \in 0 .. m
          PROVE  f[n] = (n = 0 \/ \E k \in 1 .. 3 : k <= n /\ f[n - k] /\ SubSeq(text, n - k + 1, n) \in Characters)
      <4>1. \A k \in 1 .. 3 : k <= n => f[n - k] = g[n - k]
        BY <3>1, <3>5
      <4>2. CASE n = m
        BY <2>2, <3>5, <4>1, <4>2 DEF last
      <4>3. CASE n # m
        <5>1. n \in 0 .. m - 1
          BY <3>1, <4>3
        <5>2. g[n] = (n = 0 \/ \E k \in 1 .. 3 : k <= n /\ g[n - k] /\ SubSeq(text, n - k + 1, n) \in Characters)
          BY <3>3, <5>1
        <5>. QED
          BY <3>5, <4>1, <5>1, <5>2
      <4>. QED
        BY <4>2, <4>3
    <3>7. P(f, m)
      BY <3>6
    <3>. HIDE DEF P
    <3>. QED
      BY <2>0, <3>5, <3>7
  <2>. QED
    BY <2>1, <2>2
<1>2. N \notin Bad
  <2>1. Bad = {}
    <3>1. Bad \in SUBSET Nat
      OBVIOUS
    <3>. HIDE DEF Bad
    <3>. QED
      BY <1>1, <3>1, LeastNat
  <2>. HIDE DEF Bad
  <2>. QED
    BY <2>1
<1>3. PICK f \in [0 .. N -> BOOLEAN] : P(f, N)
  <2>1. N \in 0 .. N
    OBVIOUS
  <2>. HIDE DEF P
  <2>. QED
    BY <1>2, <2>1
<1>4. IsCuts(text, f)
  BY <1>3 DEF IsCuts
<1>. QED
  BY <1>4

\* What WellFormed returns is what any such function says of the whole text.
LEMMA WellFormedByCuts ==
  ASSUME NEW text, Len(text) \in Nat
  PROVE  \E f : IsCuts(text, f) /\ WellFormed(text) = f[Len(text)]
<1>. DEFINE Ends(f) == f = [n \in 0 .. Len(text) |->
              n = 0 \/ \E k \in 1 .. 3 : k <= n /\ f[n - k] /\ SubSeq(text, n - k + 1, n) \in Characters]
            g == CHOOSE f : Ends(f)
<1>1. PICK f : IsCuts(text, f)
  BY CutsExist
<1>2. Ends(f)
  BY <1>1 DEF IsCuts
<1>3. Ends(g)
  <2>. HIDE DEF Ends
  <2>. QED
    BY <1>2
<1>4. WellFormed(text) = g[Len(text)]
  BY DEF WellFormed
<1>5. \A h : Ends(h) => IsCuts(text, h)
  <2>. SUFFICES ASSUME NEW h, Ends(h) PROVE IsCuts(text, h)
    OBVIOUS
  <2>1. DOMAIN h = 0 .. Len(text) /\ \A n \in 0 .. Len(text) :
          h[n] = (n = 0 \/ \E k \in 1 .. 3 : k <= n /\ h[n - k] /\ SubSeq(text, n - k + 1, n) \in Characters)
    OBVIOUS
  <2>2. \A n \in 0 .. Len(text) : h[n] \in BOOLEAN
    BY <2>1
  <2>3. h = [n \in 0 .. Len(text) |-> h[n]]
    OBVIOUS
  <2>4. h \in [0 .. Len(text) -> BOOLEAN]
    BY <2>2, <2>3
  <2>. QED
    BY <2>1, <2>4 DEF IsCuts
<1>6. IsCuts(text, g)
  <2>. HIDE DEF Ends, g
  <2>. QED
    BY <1>3, <1>5
<1>. HIDE DEF g
<1>. QED
  BY <1>4, <1>6

Alike(t, u, M) ==
  /\ M \in Nat /\ Len(t) \in Nat /\ Len(u) \in Nat /\ M <= Len(t) /\ M <= Len(u)
  /\ \A i, j \in 1 .. M : SubSeq(t, i, j) = SubSeq(u, i, j)

\* Two texts that agree up to a place are cut alike up to it.
LEMMA CutsAgree ==
  ASSUME NEW t, NEW u, NEW f, NEW g, NEW M, IsCuts(t, f), IsCuts(u, g), Alike(t, u, M)
  PROVE  \A n \in 0 .. M : f[n] = g[n]
<1>. USE DEF Alike
<1>. DEFINE Bad == {n \in 0 .. M : f[n] # g[n]}
<1>1. ASSUME NEW m \in Bad, \A k \in Bad : m <= k PROVE FALSE
  <2>1. m \in 0 .. M /\ f[m] # g[m]
    OBVIOUS
  <2>2. \A k \in 1 .. 3 : k <= m => f[m - k] = g[m - k]
    <3>. SUFFICES ASSUME NEW k \in 1 .. 3, k <= m PROVE f[m - k] = g[m - k]
      OBVIOUS
    <3>1. m - k \in 0 .. M /\ ~ (m <= m - k)
      BY <2>1
    <3>2. m - k \notin Bad
      <4>. HIDE DEF Bad
      <4>. QED
        BY <1>1, <3>1
    <3>. QED
      BY <3>1, <3>2
  <2>3. \A k \in 1 .. 3 : k <= m => SubSeq(t, m - k + 1, m) = SubSeq(u, m - k + 1, m)
    <3>. SUFFICES ASSUME NEW k \in 1 .. 3, k <= m
                  PROVE  SubSeq(t, m - k + 1, m) = SubSeq(u, m - k + 1, m)
      OBVIOUS
    <3>. DEFINE i == m - k + 1
    <3>1. i \in 1 .. M /\ m \in 1 .. M
      BY <2>1
    <3>. HIDE DEF i, Bad
    <3>2. SubSeq(t, i, m) = SubSeq(u, i, m)
      BY <3>1
    <3>. QED
      BY <3>2 DEF i
  <2>4. m \in 0 .. Len(t) /\ m \in 0 .. Len(u)
    BY <2>1
  <2>5. f[m] = (m = 0 \/ \E k \in 1 .. 3 : k <= m /\ f[m - k] /\ SubSeq(t, m - k + 1, m) \in Characters)
    BY <2>4 DEF IsCuts
  <2>6. g[m] = (m = 0 \/ \E k \in 1 .. 3 : k <= m /\ g[m - k] /\ SubSeq(u, m - k + 1, m) \in Characters)
    BY <2>4 DEF IsCuts
  <2>7. (\E k \in 1 .. 3 : k <= m /\ f[m - k] /\ SubSeq(t, m - k + 1, m) \in Characters)
          <=> (\E k \in 1 .. 3 : k <= m /\ g[m - k] /\ SubSeq(u, m - k + 1, m) \in Characters)
    BY <2>2, <2>3
  <2>. QED
    BY <2>1, <2>5, <2>6, <2>7
<1>2. Bad = {}
  <2>1. Bad \in SUBSET Nat
    OBVIOUS
  <2>. HIDE DEF Bad
  <2>. QED
    BY <1>1, <2>1, LeastNat
<1>. QED
  BY <1>2

----------------------------------------------------------------------------
\* Of the first m bytes.
Upto(text, m) == SubSeq(text, 1, m)
IsText(text, m) == WellFormed(Upto(text, m))

LEMMA UptoIs ==
  ASSUME NEW text \in Seq(ByteClasses), NEW m \in 0 .. Len(text)
  PROVE  /\ Upto(text, m) \in Seq(ByteClasses) /\ Len(Upto(text, m)) = m
         /\ \A k \in 1 .. m : Upto(text, m)[k] = text[k]
         /\ \A i, j \in 1 .. m : SubSeq(Upto(text, m), i, j) = SubSeq(text, i, j)
<1>1. Upto(text, m) \in Seq(ByteClasses) /\ Len(Upto(text, m)) = m
      /\ \A k \in 1 .. m : Upto(text, m)[k] = text[k]
  BY DEF Upto
<1>2. ASSUME NEW i \in 1 .. m, NEW j \in 1 .. m
      PROVE  SubSeq(Upto(text, m), i, j) = SubSeq(text, i, j)
  <2>1. SubSeq(Upto(text, m), i, j) = [k \in 1 .. j - i + 1 |-> Upto(text, m)[i + k - 1]]
    BY <1>1
  <2>2. SubSeq(text, i, j) = [k \in 1 .. j - i + 1 |-> text[i + k - 1]]
    OBVIOUS
  <2>3. \A k \in 1 .. j - i + 1 : Upto(text, m)[i + k - 1] = text[i + k - 1]
    BY <1>1
  <2>. QED
    BY <2>1, <2>2, <2>3
<1>. QED
  BY <1>1, <1>2

LEMMA TextsByTheirEnds ==
  ASSUME NEW text \in Seq(ByteClasses), NEW m \in 0 .. Len(text)
  PROVE  IsText(text, m) = (m = 0 \/ \E k \in 1 .. 3 : k <= m /\ IsText(text, m - k)
                                                  /\ SubSeq(text, m - k + 1, m) \in Characters)
<1>. DEFINE t == Upto(text, m)
<1>1. t \in Seq(ByteClasses) /\ Len(t) = m /\ \A i, j \in 1 .. m : SubSeq(t, i, j) = SubSeq(text, i, j)
  BY UptoIs
<1>2. PICK f : IsCuts(t, f) /\ WellFormed(t) = f[Len(t)]
  <2>1. Len(t) \in Nat
    BY <1>1
  <2>. HIDE DEF t
  <2>. QED
    BY <2>1, WellFormedByCuts
<1>3. ASSUME NEW p \in 0 .. m PROVE IsText(text, p) = f[p]
  <2>. DEFINE u == Upto(text, p)
  <2>0. p \in 0 .. Len(text) /\ 0 <= p /\ p <= m /\ p \in Nat /\ m \in Nat
    OBVIOUS
  <2>1. u \in Seq(ByteClasses) /\ Len(u) = p /\ \A i, j \in 1 .. p : SubSeq(u, i, j) = SubSeq(text, i, j)
    BY <2>0, UptoIs
  <2>2. PICK g : IsCuts(u, g) /\ WellFormed(u) = g[Len(u)]
    <3>1. Len(u) \in Nat
      BY <2>1
    <3>. HIDE DEF u
    <3>. QED
      BY <3>1, WellFormedByCuts
  <2>3. \A i, j \in 1 .. p : SubSeq(u, i, j) = SubSeq(t, i, j)
    <3>. HIDE DEF u, t
    <3>. SUFFICES ASSUME NEW i \in 1 .. p, NEW j \in 1 .. p PROVE SubSeq(u, i, j) = SubSeq(t, i, j)
      OBVIOUS
    <3>1. i \in 1 .. m /\ j \in 1 .. m
      BY <2>0
    <3>. QED
      BY <1>1, <2>1, <3>1
  <2>4. Len(u) \in Nat /\ Len(t) \in Nat /\ p \in Nat /\ p <= Len(u) /\ p <= Len(t)
    <3>. HIDE DEF u, t
    <3>. QED
      BY <1>1, <2>1
  <2>7. Alike(u, t, p)
    <3>. HIDE DEF u, t
    <3>. QED
      BY <2>3, <2>4 DEF Alike
  <2>5. \A n \in 0 .. p : g[n] = f[n]
    <3>. HIDE DEF u, t
    <3>. QED
      BY <1>2, <2>2, <2>7, CutsAgree
  <2>6. p \in 0 .. p
    OBVIOUS
  <2>. QED
    BY <2>1, <2>2, <2>5, <2>6 DEF IsText
<1>4. f[m] = (m = 0 \/ \E k \in 1 .. 3 : k <= m /\ f[m - k] /\ SubSeq(t, m - k + 1, m) \in Characters)
  <2>. HIDE DEF t
  <2>. QED
    BY <1>1, <1>2 DEF IsCuts
<1>5. \A k \in 1 .. 3 : k <= m => IsText(text, m - k) = f[m - k]
  BY <1>3
<1>6. \A k \in 1 .. 3 : k <= m => SubSeq(t, m - k + 1, m) = SubSeq(text, m - k + 1, m)
  <2>. HIDE DEF t
  <2>. SUFFICES ASSUME NEW k \in 1 .. 3, k <= m
                PROVE  SubSeq(t, m - k + 1, m) = SubSeq(text, m - k + 1, m)
    OBVIOUS
  <2>. DEFINE i == m - k + 1
  <2>1. i \in 1 .. m /\ m \in 1 .. m
    OBVIOUS
  <2>. HIDE DEF i
  <2>2. SubSeq(t, i, m) = SubSeq(text, i, m)
    BY <1>1, <2>1
  <2>. QED
    BY <2>2 DEF i
<1>7. IsText(text, m) = f[m]
  BY <1>3
<1>8. f[m] \in BOOLEAN
  <2>. HIDE DEF t
  <2>. QED
    BY <1>1, <1>2 DEF IsCuts
<1>. HIDE DEF t
<1>. QED
  BY <1>4, <1>5, <1>6, <1>7

LEMMA CharacterHere ==
  ASSUME NEW text \in Seq(ByteClasses), NEW q \in Nat, NEW k \in 1 .. 3, q + k <= Len(text)
  PROVE  (SubSeq(text, q + 1, q + k) \in Characters) <=> CharacterAt(text, q, k)
<1>. DEFINE d == SubSeq(text, q + 1, q + k)
<1>1. d \in Seq(ByteClasses) /\ Len(d) = k /\ \A j \in 1 .. k : d[j] = text[q + j]
  <2>. DEFINE m == q + 1
              n == q + k
  <2>1. m \in Int /\ n \in Int /\ m <= n /\ n - m + 1 = k /\ \A j \in 1 .. k : m + j - 1 = q + j
    OBVIOUS
  <2>2. \A i \in m .. n : text[i] \in ByteClasses
    <3>1. \A i \in m .. n : i \in 1 .. Len(text)
      BY LenProperties
    <3>. QED
      BY <3>1, ElementOfSeq
  <2>. HIDE DEF m, n
  <2>3. /\ SubSeq(text, m, n) \in Seq(ByteClasses) /\ Len(SubSeq(text, m, n)) = k
        /\ \A j \in 1 .. k : SubSeq(text, m, n)[j] = text[q + j]
    BY <2>1, <2>2, SubSeqProperties
  <2>. QED
    BY <2>3 DEF m, n
<1>2. \A j \in 1 .. k : text[q + j] \in ByteClasses
  OBVIOUS
<1>. HIDE DEF d
<1>3. CASE k = 1
  <2>1. d = <<text[q + 1]>>
    BY <1>1, <1>3
  <2>2. 1 \in 1 .. k
    OBVIOUS
  <2>3. d \in Characters <=> text[q + 1] \in {"a", "0"}
    BY <2>1 DEF Characters
  <2>4. CharacterAt(text, q, k) <=> text[q + 1] \in {"a", "0"}
    BY <1>2, <1>3, <2>2 DEF CharacterAt, FitsAt, Size, Continuation, ByteClasses
  <2>. QED
    BY <2>3, <2>4 DEF d
<1>4. CASE k = 2
  <2>1. d = <<text[q + 1], text[q + 2]>>
    BY <1>1, <1>4
  <2>2. 1 \in 1 .. k /\ 2 \in 1 .. k /\ 2 .. k = {2}
    BY <1>4
  <2>3. d \in Characters <=> text[q + 1] = "2" /\ text[q + 2] \in {"l", "h"}
    BY <2>1 DEF Characters, Continuation
  <2>4. CharacterAt(text, q, k) <=> text[q + 1] = "2" /\ text[q + 2] \in {"l", "h"}
    BY <1>2, <1>4, <2>2 DEF CharacterAt, FitsAt, Size, Continuation, ByteClasses
  <2>. QED
    BY <2>3, <2>4 DEF d
<1>5. CASE k = 3
  <2>. DEFINE a == text[q + 1]
              b == text[q + 2]
              c == text[q + 3]
  <2>1. d = <<a, b, c>>
    BY <1>1, <1>5
  <2>2. 1 \in 1 .. k /\ 2 \in 1 .. k /\ 3 \in 1 .. k /\ 2 .. k = {2, 3}
    BY <1>5
  <2>. HIDE DEF a, b, c
  <2>3. d \in Characters <=> \/ a = "3" /\ b \in {"l", "h"} /\ c \in {"l", "h"}
                             \/ a = "E" /\ b = "h" /\ c \in {"l", "h"}
    BY <2>1 DEF Characters, Continuation
  <2>4. a \in ByteClasses
    BY <1>2, <2>2 DEF a
  <2>5. (\A j \in 2 .. k : FitsAt(text, q, j)) <=> FitsAt(text, q, 2) /\ FitsAt(text, q, 3)
    BY <2>2
  <2>6. FitsAt(text, q, 2) <=> b \in {"l", "h"} /\ (a = "E" => b = "h")
    BY DEF FitsAt, Continuation, a, b
  <2>7. FitsAt(text, q, 3) <=> c \in {"l", "h"}
    BY DEF FitsAt, Continuation, c
  <2>8. CharacterAt(text, q, k) <=> a \in {"3", "E"} /\ FitsAt(text, q, 2) /\ FitsAt(text, q, 3)
    BY <1>5, <2>4, <2>5 DEF CharacterAt, Size, Continuation, ByteClasses, a
  <2>. QED
    BY <2>3, <2>6, <2>7, <2>8 DEF d
<1>. QED
  BY <1>3, <1>4, <1>5

LEMMA TextsByCharacters ==
  ASSUME NEW text \in Seq(ByteClasses), NEW m \in 0 .. Len(text)
  PROVE  IsText(text, m) = (m = 0 \/ \E k \in 1 .. 3 : k <= m /\ IsText(text, m - k)
                                                          /\ CharacterAt(text, m - k, k))
<1>1. ASSUME NEW k \in 1 .. 3, k <= m
      PROVE  (SubSeq(text, m - k + 1, m) \in Characters) <=> CharacterAt(text, m - k, k)
  <2>. DEFINE q == m - k
  <2>1. q \in Nat /\ q + k = m /\ q + k <= Len(text)
    BY <1>1
  <2>. HIDE DEF q
  <2>2. (SubSeq(text, q + 1, q + k) \in Characters) <=> CharacterAt(text, q, k)
    BY <2>1, CharacterHere
  <2>. QED
    BY <2>1, <2>2 DEF q
<1>. QED
  BY <1>1, TextsByTheirEnds

\* A character begins wherever a text ends that is the beginning of a longer one.
LEMMA TextsGoOn ==
  ASSUME NEW text \in Seq(ByteClasses), NEW p \in 0 .. Len(text), NEW n \in 0 .. Len(text),
         IsText(text, p), IsText(text, n), p < n
  PROVE  \E k \in 1 .. 3 : p + k <= n /\ CharacterAt(text, p, k)
<1>. DEFINE Goes(r, o) == \E k \in 1 .. 3 : r + k <= o /\ CharacterAt(text, r, k)
            Bad == {o \in 0 .. Len(text) : \E r \in 0 .. o - 1 : IsText(text, r) /\ IsText(text, o) /\ ~Goes(r, o)}
<1>1. ASSUME NEW o \in Bad, \A j \in Bad : o <= j PROVE FALSE
  <2>1. o \in 0 .. Len(text) /\ IsText(text, o)
    OBVIOUS
  <2>2. PICK r \in 0 .. o - 1 : IsText(text, r) /\ ~Goes(r, o)
    <3>. HIDE DEF Goes
    <3>. QED
      OBVIOUS
  <2>3. PICK k \in 1 .. 3 : k <= o /\ IsText(text, o - k) /\ CharacterAt(text, o - k, k)
    <3>1. IsText(text, o) = (o = 0 \/ \E k \in 1 .. 3 : k <= o /\ IsText(text, o - k)
                                                        /\ CharacterAt(text, o - k, k))
      <4>. HIDE DEF Bad
      <4>. QED
        BY <2>1, TextsByCharacters
    <3>2. o # 0
      BY <2>2
    <3>. HIDE DEF Bad, Goes
    <3>. QED
      BY <2>1, <3>1, <3>2
  <2>. DEFINE q == o - k
  <2>4. q \in 0 .. Len(text) /\ q < o /\ q + k = o /\ r < o /\ IsText(text, q) /\ CharacterAt(text, q, k)
    BY <2>1, <2>2, <2>3
  <2>. HIDE DEF q
  <2>5. \A x \in 0 .. Len(text), y \in 0 .. Len(text) :
          y < o /\ x < y /\ IsText(text, x) /\ IsText(text, y) => Goes(x, y)
    <3>. HIDE DEF Goes
    <3>. SUFFICES ASSUME NEW x \in 0 .. Len(text), NEW y \in 0 .. Len(text),
                         y < o, x < y, IsText(text, x), IsText(text, y), ~Goes(x, y)
                  PROVE  FALSE
      OBVIOUS
    <3>1. x \in 0 .. y - 1
      OBVIOUS
    <3>2. y \in Bad
      BY <3>1
    <3>. HIDE DEF Bad
    <3>. QED
      BY <1>1, <2>1, <3>2
  <2>6. CASE r < q
    <3>1. Goes(r, q)
      <4>. HIDE DEF Goes
      <4>. QED
        BY <2>2, <2>4, <2>5, <2>6
    <3>. QED
      BY <2>1, <2>2, <2>4, <3>1
  <2>7. CASE r = q
    BY <2>2, <2>4, <2>7
  <2>8. CASE q < r
    <3>1. Goes(q, r)
      <4>1. r \in 0 .. Len(text)
        BY <2>1, <2>2
      <4>. HIDE DEF Goes
      <4>. QED
        BY <2>2, <2>4, <2>5, <2>8, <4>1
    <3>2. PICK j \in 1 .. 3 : q + j <= r /\ CharacterAt(text, q, j)
      BY <3>1
    <3>3. j = k
      BY <2>4, <3>2 DEF CharacterAt
    <3>. QED
      BY <2>2, <2>4, <3>2, <3>3
  <2>. QED
    BY <2>2, <2>4, <2>6, <2>7, <2>8
<1>2. Bad = {}
  <2>1. Bad \in SUBSET Nat
    <3>. HIDE DEF Goes
    <3>. QED
      OBVIOUS
  <2>. HIDE DEF Bad
  <2>. QED
    BY <1>1, <2>1, LeastNat
<1>3. p \in 0 .. n - 1
  OBVIOUS
<1>. QED
  BY <1>2, <1>3

\* No text goes on from a place that is broken.
LEMMA BrokenIsNoText ==
  ASSUME NEW text \in Seq(ByteClasses), NEW q \in 0 .. Len(text), IsText(text, q), BrokenAt(text, q)
  PROVE  ~IsText(text, Len(text))
<1>. SUFFICES ASSUME IsText(text, Len(text)) PROVE FALSE
  OBVIOUS
<1>1. q < Len(text) /\ Len(text) \in 0 .. Len(text)
  BY DEF BrokenAt
<1>2. PICK k \in 1 .. 3 : q + k <= Len(text) /\ CharacterAt(text, q, k)
  BY <1>1, TextsGoOn
<1>3. k = Size(text[q + 1]) /\ text[q + 1] \notin Continuation /\ \A j \in 2 .. k : FitsAt(text, q, j)
  BY <1>2 DEF CharacterAt
<1>4. \A j \in 2 .. Size(text[q + 1]) : FitsAt(text, q, j)
  BY <1>3
<1>. QED
  BY <1>3, <1>4 DEF BrokenAt

----------------------------------------------------------------------------
LEMMA StreamInitially == StreamInit => StreamInv
<1>. SUFFICES ASSUME StreamInit PROVE StreamInv
  OBVIOUS
<1>1. streamed = <<>> /\ pending = <<>> /\ carry = <<>> /\ nul = FALSE /\ invalid = FALSE /\ stream = "open"
  BY DEF StreamInit
<1>2. Contains(streamed, "0") = FALSE
  BY <1>1 DEF Contains
<1>3. Undecoded = <<>> /\ Decoded = 0
  BY <1>1 DEF Undecoded, Decoded
<1>4. IsText(streamed, 0)
  <2>1. streamed \in Seq(ByteClasses) /\ 0 \in 0 .. Len(streamed)
    BY <1>1
  <2>. QED
    BY <2>1, TextsByCharacters
<1>5. WellFormed(SubSeq(streamed, 1, Decoded))
  BY <1>3, <1>4 DEF IsText, Upto
<1>6. \A i \in DOMAIN Undecoded : Undecoded[i] = streamed[Decoded + i]
  <2>1. DOMAIN Undecoded = {}
    BY <1>3, EmptySeq
  <2>. QED
    BY <2>1
<1>7. streamed \in Seq(ByteClasses) /\ pending \in Seq(ByteClasses) /\ carry \in Seq(ByteClasses)
      /\ nul = Contains(streamed, "0")
  <2>1. <<>> \in Seq(ByteClasses)
    BY EmptySeq
  <2>. QED
    BY <1>1, <1>2, <2>1, Zenon
<1>8. ChunkingChangesNothing
  BY <1>1 DEF ChunkingChangesNothing
<1>9. stream = "open" /\ pending = <<>> /\ carry = <<>> /\ invalid = FALSE /\ Decoded >= 0
  BY <1>1, <1>3
<1>. QED
  BY <1>5, <1>6, <1>7, <1>8, <1>9, Zenon DEF StreamInv

\* Whether the bytes still to decode are the last of the stream.
Rest(text, rest) ==
  /\ Len(rest) <= Len(text)
  /\ \A i \in DOMAIN rest : rest[i] = text[Len(text) - Len(rest) + i]

Stuck(text) == \E q \in 0 .. Len(text) : IsText(text, q) /\ BrokenAt(text, q)

Judged(text, rest, bad) ==
  /\ Rest(text, rest)
  /\ ~bad => IsText(text, Len(text) - Len(rest))
  /\ bad => Stuck(text)

\* What is judged stays judged when the stream goes on.
LEMMA JudgedGoesOn ==
  ASSUME NEW text \in Seq(ByteClasses), NEW rest \in Seq(ByteClasses), NEW bad \in BOOLEAN,
         NEW chunk \in Seq(ByteClasses), Judged(text, rest, bad)
  PROVE  Judged(text \o chunk, rest \o chunk, bad)
<1>. DEFINE t == text \o chunk
            r == rest \o chunk
<1>1. t \in Seq(ByteClasses) /\ Len(t) = Len(text) + Len(chunk) /\ (\A i \in 1 .. Len(text) : t[i] = text[i])
      /\ \A i \in 1 .. Len(chunk) : t[Len(text) + i] = chunk[i]
  OBVIOUS
<1>2. r \in Seq(ByteClasses) /\ Len(r) = Len(rest) + Len(chunk) /\ (\A i \in 1 .. Len(rest) : r[i] = rest[i])
      /\ \A i \in 1 .. Len(chunk) : r[Len(rest) + i] = chunk[i]
  BY ConcatProperties
<1>. HIDE DEF t, r
<1>3. Rest(t, r)
  <2>1. Len(rest) <= Len(text) /\ \A i \in 1 .. Len(rest) : rest[i] = text[Len(text) - Len(rest) + i]
    BY DEF Judged, Rest
  <2>2. ASSUME NEW i \in 1 .. Len(r) PROVE r[i] = t[Len(t) - Len(r) + i]
    <3>1. CASE i <= Len(rest)
      <4>. DEFINE o == Len(text) - Len(rest) + i
      <4>1. i \in 1 .. Len(rest) /\ o \in 1 .. Len(text) /\ Len(t) - Len(r) + i = o
        BY <1>1, <1>2, <2>1, <3>1
      <4>2. rest[i] = text[o]
        BY <2>1, <4>1
      <4>. HIDE DEF o
      <4>. QED
        BY <1>1, <1>2, <4>1, <4>2
    <3>2. CASE i > Len(rest)
      <4>. DEFINE j == i - Len(rest)
      <4>1. j \in 1 .. Len(chunk) /\ i = Len(rest) + j /\ Len(t) - Len(r) + i = Len(text) + j
        BY <1>1, <1>2, <3>2
      <4>. HIDE DEF j
      <4>. QED
        BY <1>1, <1>2, <4>1
    <3>. QED
      BY <3>1, <3>2
  <2>. QED
    BY <1>1, <1>2, <2>1, <2>2 DEF Rest
<1>4. ASSUME NEW q \in 0 .. Len(text) PROVE IsText(t, q) = IsText(text, q)
  <2>. DEFINE a == Upto(t, q)
              b == Upto(text, q)
  <2>1. q \in 0 .. Len(t)
    BY <1>1
  <2>2. a \in Seq(ByteClasses) /\ Len(a) = q /\ \A k \in 1 .. q : a[k] = t[k]
    BY <1>1, <2>1, UptoIs
  <2>3. b \in Seq(ByteClasses) /\ Len(b) = q /\ \A k \in 1 .. q : b[k] = text[k]
    BY UptoIs
  <2>4. \A k \in 1 .. q : t[k] = text[k]
    <3>. SUFFICES ASSUME NEW k \in 1 .. q PROVE t[k] = text[k]
      OBVIOUS
    <3>1. k \in 1 .. Len(text)
      OBVIOUS
    <3>. QED
      BY <1>1, <3>1
  <2>5. a = b
    <3>. HIDE DEF a, b
    <3>. QED
      BY <2>2, <2>3, <2>4, SeqEqual
  <2>. QED
    BY <2>5 DEF IsText
<1>5. ASSUME NEW q \in 0 .. Len(text), BrokenAt(text, q) PROVE BrokenAt(t, q)
  <2>1. q < Len(text) /\ q + 1 \in 1 .. Len(text) /\ t[q + 1] = text[q + 1] /\ q < Len(t)
    BY <1>1, <1>5 DEF BrokenAt
  <2>2. CASE text[q + 1] \in Continuation
    BY <2>1, <2>2 DEF BrokenAt
  <2>3. CASE \E j \in 2 .. Size(text[q + 1]) : q + j <= Len(text) /\ ~FitsAt(text, q, j)
    <3>1. PICK j \in 2 .. Size(text[q + 1]) : q + j <= Len(text) /\ ~FitsAt(text, q, j)
      BY <2>3
    <3>2. Size(text[q + 1]) \in Nat
      BY DEF Size
    <3>3. t[q + j] = text[q + j] /\ q + j <= Len(t)
      <4>. DEFINE i == q + j
      <4>1. i \in 1 .. Len(text) /\ i <= Len(text)
        BY <3>1, <3>2
      <4>. HIDE DEF i
      <4>2. t[i] = text[i] /\ i <= Len(t)
        BY <1>1, <4>1
      <4>. QED
        BY <4>2 DEF i
    <3>4. ~FitsAt(t, q, j)
      BY <2>1, <3>1, <3>3 DEF FitsAt
    <3>. QED
      BY <2>1, <3>1, <3>3, <3>4 DEF BrokenAt
  <2>. QED
    BY <1>5, <2>2, <2>3 DEF BrokenAt
<1>6. Len(t) - Len(r) = Len(text) - Len(rest) /\ Len(text) - Len(rest) \in 0 .. Len(text)
  BY <1>1, <1>2 DEF Judged, Rest
<1>7. ~bad => IsText(t, Len(t) - Len(r))
  BY <1>4, <1>6 DEF Judged
<1>8. bad => Stuck(t)
  <2>1. 0 .. Len(text) \subseteq 0 .. Len(t)
    BY <1>1
  <2>. SUFFICES ASSUME bad PROVE Stuck(t)
    OBVIOUS
  <2>2. PICK q \in 0 .. Len(text) : IsText(text, q) /\ BrokenAt(text, q)
    BY DEF Judged, Stuck
  <2>3. IsText(t, q) /\ BrokenAt(t, q) /\ q \in 0 .. Len(t)
    BY <1>4, <1>5, <2>1, <2>2
  <2>. QED
    BY <2>3 DEF Stuck
<1>. QED
  BY <1>3, <1>7, <1>8 DEF Judged, t, r

\* The part of the invariant that speaks of one moment of the decoding.
LEMMA JudgedIs ==
  ASSUME streamed \in Seq(ByteClasses), Undecoded \in Seq(ByteClasses), invalid \in BOOLEAN
  PROVE  Judged(streamed, Undecoded, invalid) <=>
           /\ Decoded >= 0 /\ \A i \in DOMAIN Undecoded : Undecoded[i] = streamed[Decoded + i]
           /\ ~invalid => WellFormed(SubSeq(streamed, 1, Decoded))
           /\ invalid => \E q \in 0 .. Len(streamed) :
                           WellFormed(SubSeq(streamed, 1, q)) /\ BrokenAt(streamed, q)
<1>1. Len(Undecoded) \in Nat /\ Len(streamed) \in Nat
  OBVIOUS
<1>2. Decoded >= 0 <=> Len(Undecoded) <= Len(streamed)
  BY <1>1 DEF Decoded
<1>3. (\A i \in DOMAIN Undecoded : Undecoded[i] = streamed[Decoded + i])
        <=> (\A i \in DOMAIN Undecoded : Undecoded[i] = streamed[Len(streamed) - Len(Undecoded) + i])
  BY DEF Decoded
<1>4. IsText(streamed, Len(streamed) - Len(Undecoded)) = WellFormed(SubSeq(streamed, 1, Decoded))
  BY DEF IsText, Upto, Decoded
<1>5. Stuck(streamed) <=> \E q \in 0 .. Len(streamed) :
                           WellFormed(SubSeq(streamed, 1, q)) /\ BrokenAt(streamed, q)
  BY Zenon DEF Stuck, IsText, Upto
<1>. QED
  BY <1>2, <1>3, <1>4, <1>5, Zenon DEF Judged, Rest

\* Its later form, for a step that leaves the machine open or decoding.
LEMMA JudgedIsKept ==
  ASSUME streamed' \in Seq(ByteClasses), pending' \in Seq(ByteClasses), carry' \in Seq(ByteClasses),
         invalid' \in BOOLEAN, nul' = Contains(streamed', "0"), stream' \in {"open", "decode"},
         stream' = "open" => pending' = <<>> /\ (carry' # <<>> => ~FullRune(carry')),
         stream' = "decode" => carry' = <<>>,
         Judged(streamed', carry' \o pending', invalid')
  PROVE  StreamInv'
<1>1. Len(carry' \o pending') \in Nat /\ Len(streamed') \in Nat
  BY ConcatProperties
<1>. DEFINE d == Len(streamed') - Len(carry' \o pending')
            u == carry' \o pending'
<1>2. d >= 0 <=> Len(u) <= Len(streamed')
  BY <1>1
<1>3. d >= 0 /\ \A i \in DOMAIN u : u[i] = streamed'[d + i]
  BY <1>1, <1>2 DEF Judged, Rest
<1>4. ~invalid' => WellFormed(SubSeq(streamed', 1, d))
  BY DEF Judged, IsText, Upto
<1>5. invalid' => \E q \in 0 .. Len(streamed') :
                    WellFormed(SubSeq(streamed', 1, q)) /\ BrokenAt(streamed', q)
  BY Zenon DEF Judged, Stuck, IsText, Upto
<1>6. Undecoded' = u /\ Decoded' = d
  BY DEF Undecoded, Decoded
<1>7. stream' # "finished"
  OBVIOUS
<1>8. ChunkingChangesNothing'
  BY <1>7 DEF ChunkingChangesNothing
<1>. HIDE DEF d, u
<1>9. /\ Decoded' >= 0 /\ \A i \in DOMAIN Undecoded' : Undecoded'[i] = streamed'[Decoded' + i]
      /\ ~invalid' => WellFormed(SubSeq(streamed', 1, Decoded'))
      /\ invalid' => \E q \in 0 .. Len(streamed') :
                       WellFormed(SubSeq(streamed', 1, q)) /\ BrokenAt(streamed', q)
  BY <1>3, <1>4, <1>5, <1>6, Zenon
<1>. QED
  BY <1>8, <1>9, Zenon DEF StreamInv

LEMMA StreamFacts ==
  ASSUME StreamInv, stream \in {"open", "decode"}
  PROVE  /\ streamed \in Seq(ByteClasses) /\ pending \in Seq(ByteClasses) /\ carry \in Seq(ByteClasses)
         /\ invalid \in BOOLEAN /\ nul = Contains(streamed, "0")
         /\ stream = "open" => pending = <<>> /\ (carry # <<>> => ~FullRune(carry))
         /\ stream = "decode" => carry = <<>>
         /\ stream = "open" => Judged(streamed, carry, invalid)
         /\ stream = "decode" => Judged(streamed, pending, invalid)
<1>1. /\ streamed \in Seq(ByteClasses) /\ pending \in Seq(ByteClasses) /\ carry \in Seq(ByteClasses)
      /\ invalid \in BOOLEAN /\ nul = Contains(streamed, "0")
      /\ stream = "open" => pending = <<>> /\ (carry # <<>> => ~FullRune(carry))
      /\ stream = "decode" => carry = <<>>
  BY Zenon DEF StreamInv
<1>2. Undecoded \in Seq(ByteClasses) /\ (stream = "open" => Undecoded = carry)
        /\ (stream = "decode" => Undecoded = pending)
  BY <1>1, ConcatProperties, ConcatEmptySeq DEF Undecoded
<1>3. Judged(streamed, Undecoded, invalid)
  <2>1. /\ Decoded >= 0 /\ \A i \in DOMAIN Undecoded : Undecoded[i] = streamed[Decoded + i]
        /\ ~invalid => WellFormed(SubSeq(streamed, 1, Decoded))
        /\ invalid => \E q \in 0 .. Len(streamed) :
                        WellFormed(SubSeq(streamed, 1, q)) /\ BrokenAt(streamed, q)
    BY Zenon DEF StreamInv
  <2>. QED
    BY <1>1, <1>2, <2>1, JudgedIs, Zenon
<1>. QED
  BY <1>1, <1>2, <1>3, Zenon

----------------------------------------------------------------------------
LEMMA RuneSizeIs ==
  ASSUME NEW d \in Seq(ByteClasses), d # <<>>
  PROVE  /\ Len(d) \in Nat /\ Len(d) >= 1 /\ d[1] \in ByteClasses
         /\ Size(d[1]) \in 1 .. 3 /\ RuneSize(d) \in 1 .. Len(d)
         /\ (RuneSize(d) = Size(d[1]) /\ Size(d[1]) # 1) => Continues(SubSeq(d, 1, Size(d[1])))
         /\ RuneSize(d) # Size(d[1]) =>
              RuneSize(d) = 1 /\ (Len(d) < Size(d[1]) \/ ~Continues(SubSeq(d, 1, Size(d[1]))))
<1>1. Len(d) \in Nat /\ Len(d) >= 1
  BY EmptySeq, LenProperties
<1>2. d[1] \in ByteClasses
  BY <1>1
<1>3. Size(d[1]) \in 1 .. 3
  BY DEF Size
<1>. QED
  BY <1>1, <1>2, <1>3 DEF RuneSize

\* Where the bytes of rest are those of the text after the first q, continuing is fitting.
LEMMA ContinuesIsFitting ==
  ASSUME NEW text \in Seq(ByteClasses), NEW rest \in Seq(ByteClasses), NEW q \in Nat, NEW k \in Nat,
         k <= Len(rest), 1 <= Len(rest), \A i \in 1 .. Len(rest) : rest[i] = text[q + i]
  PROVE  Continues(SubSeq(rest, 1, k)) <=> \A j \in 2 .. k : FitsAt(text, q, j)
<1>. DEFINE d == SubSeq(rest, 1, k)
<1>1. Len(d) = k /\ \A j \in 1 .. k : d[j] = rest[j]
  OBVIOUS
<1>. HIDE DEF d
<1>2. ASSUME NEW j \in 2 .. k
      PROVE  FitsAt(text, q, j) <=> (d[j] \in Continuation /\ (j = 2 /\ d[1] = "E" => d[j] = "h"))
  <2>1. j \in 1 .. k /\ 1 \in 1 .. k /\ j \in 1 .. Len(rest) /\ 1 \in 1 .. Len(rest)
    OBVIOUS
  <2>2. d[j] = text[q + j] /\ d[1] = text[q + 1]
    BY <1>1, <2>1
  <2>. QED
    BY <2>2 DEF FitsAt
<1>3. Continues(d) <=> \A j \in 2 .. k : d[j] \in Continuation /\ (j = 2 /\ d[1] = "E" => d[j] = "h")
  BY <1>1, Zenon DEF Continues
<1>4. Continues(d) <=> \A j \in 2 .. k : FitsAt(text, q, j)
  <2>. HIDE DEF Continues
  <2>. QED
    BY <1>2, <1>3, Zenon
<1>. QED
  BY <1>4 DEF d

LEMMA RuneIsDecoded ==
  ASSUME NEW text \in Seq(ByteClasses), NEW rest \in Seq(ByteClasses), NEW bad \in BOOLEAN,
         Judged(text, rest, bad), rest # <<>>, FullRune(rest)
  PROVE  Judged(text, SubSeq(rest, RuneSize(rest) + 1, Len(rest)), bad \/ RuneError(rest))
<1>. DEFINE L == Len(rest)
            z == Size(rest[1])
            k == RuneSize(rest)
            q == Len(text) - Len(rest)
            s == SubSeq(rest, k + 1, L)
<1>1. L \in Nat /\ L >= 1 /\ rest[1] \in ByteClasses /\ z \in 1 .. 3 /\ k \in 1 .. L
      /\ (k = z /\ z # 1 => Continues(SubSeq(rest, 1, z)))
      /\ (k # z => k = 1 /\ (L < z \/ ~Continues(SubSeq(rest, 1, z))))
  BY RuneSizeIs
<1>2. Len(text) \in Nat /\ L <= Len(text) /\ \A i \in 1 .. L : rest[i] = text[q + i]
  BY DEF Judged, Rest
<1>3. (L >= z \/ ~Continues(rest))
  BY DEF FullRune
<1>4. q \in Nat /\ q + L = Len(text) /\ q + 1 <= Len(text) /\ q < Len(text) /\ rest[1] = text[q + 1]
  BY <1>1, <1>2
<1>5. SubSeq(rest, 1, L) = rest
  BY SeqEqual, SubSeqProperties
<1>6. \A n \in Nat : n <= L => (Continues(SubSeq(rest, 1, n)) <=> \A j \in 2 .. n : FitsAt(text, q, j))
  <2>. SUFFICES ASSUME NEW n \in Nat, n <= L
                PROVE  Continues(SubSeq(rest, 1, n)) <=> \A j \in 2 .. n : FitsAt(text, q, j)
    OBVIOUS
  <2>1. n <= Len(rest) /\ 1 <= Len(rest) /\ \A i \in 1 .. Len(rest) : rest[i] = text[q + i]
    BY <1>1, <1>2
  <2>. HIDE DEF q
  <2>. QED
    BY <1>4, <2>1, ContinuesIsFitting
<1>7. Len(s) = L - k /\ s \in Seq(ByteClasses) /\ \A i \in 1 .. L - k : s[i] = rest[k + i]
  <2>1. \A i \in k + 1 .. L : rest[i] \in ByteClasses
    BY <1>1
  <2>. HIDE DEF k
  <2>2. Len(s) = L - k /\ \A i \in 1 .. L - k : s[i] = rest[k + i]
    BY <1>1
  <2>. QED
    BY <1>1, <2>1, <2>2
<1>. HIDE DEF L, z, k, q, s
<1>15. L \in Nat /\ k \in 1 .. L /\ Len(text) \in Nat /\ q \in Nat /\ q + L = Len(text) /\ Len(s) = L - k
  BY <1>1, <1>2, <1>4, <1>7
<1>16. Len(text) - Len(s) = q + k
  BY <1>15
<1>8. Rest(text, s)
  <2>1. ASSUME NEW i \in 1 .. L - k PROVE s[i] = text[Len(text) - Len(s) + i]
    <3>. DEFINE j == k + i
    <3>1. j \in 1 .. L /\ Len(text) - Len(s) + i = q + j
      BY <1>15, <1>16
    <3>2. s[i] = rest[j]
      BY <1>7
    <3>. HIDE DEF j
    <3>. QED
      BY <1>2, <3>1, <3>2
  <2>. QED
    BY <1>1, <1>2, <1>7, <2>1 DEF Rest
<1>9. bad \/ ~RuneError(rest) \/ BrokenAt(text, q)
  <2>. SUFFICES ASSUME RuneError(rest) PROVE BrokenAt(text, q)
    OBVIOUS
  <2>1. rest[1] \in Continuation \/ k < z
    BY DEF RuneError, k, z
  <2>2. CASE rest[1] \in Continuation
    BY <1>4, <2>2 DEF BrokenAt
  <2>3. CASE k < z
    <3>1. L < z \/ ~Continues(SubSeq(rest, 1, z))
      BY <1>1, <2>3
    <3>2. \E j \in 2 .. z : j <= L /\ ~FitsAt(text, q, j)
      <4>1. CASE L < z
        <5>1. ~Continues(SubSeq(rest, 1, L))
          <6>1. ~(L >= z)
            BY <1>1, <4>1
          <6>. QED
            BY <1>3, <1>5, <6>1, Zenon
        <5>2. ~ \A j \in 2 .. L : FitsAt(text, q, j)
          BY <1>1, <1>6, <5>1
        <5>. QED
          BY <1>1, <4>1, <5>2
      <4>2. CASE ~(L < z)
        <5>1. ~ \A j \in 2 .. z : FitsAt(text, q, j)
          BY <1>1, <1>6, <3>1, <4>2
        <5>. QED
          BY <1>1, <4>2, <5>1
      <4>. QED
        BY <4>1, <4>2
    <3>3. PICK j \in 2 .. z : j <= L /\ ~FitsAt(text, q, j)
      BY <3>2
    <3>4. q + j <= Len(text) /\ j \in 2 .. Size(text[q + 1])
      BY <1>1, <1>4, <3>3 DEF z
    <3>. QED
      BY <1>4, <3>3, <3>4 DEF BrokenAt
  <2>. QED
    BY <2>1, <2>2, <2>3
<1>10. RuneError(rest) \/ (CharacterAt(text, q, k) /\ k \in 1 .. 3)
  <2>. SUFFICES ASSUME ~RuneError(rest) PROVE CharacterAt(text, q, k) /\ k \in 1 .. 3
    OBVIOUS
  <2>1. rest[1] \notin Continuation /\ ~(k < z)
    BY DEF RuneError, k, z
  <2>2. k = z
    BY <1>1, <2>1
  <2>3. \A j \in 2 .. k : FitsAt(text, q, j)
    <3>1. CASE z = 1
      BY <2>2, <3>1
    <3>2. CASE z # 1
      BY <1>1, <1>6, <2>2, <3>2
    <3>. QED
      BY <3>1, <3>2
  <2>4. q + k <= Len(text)
    BY <1>1, <1>4
  <2>. QED
    BY <1>1, <1>4, <2>1, <2>2, <2>3, <2>4 DEF CharacterAt, z
<1>11. Len(text) - Len(s) = q + k /\ q + k \in 0 .. Len(text) /\ q \in 0 .. Len(text) /\ q + k - k = q
  BY <1>15, <1>16
<1>12. (~bad => IsText(text, q)) /\ (bad => Stuck(text))
  BY DEF Judged, q
<1>13. ~(bad \/ RuneError(rest)) => IsText(text, Len(text) - Len(s))
  <2>. SUFFICES ASSUME ~bad, ~RuneError(rest) PROVE IsText(text, q + k)
    BY <1>11
  <2>1. CharacterAt(text, q, k) /\ k \in 1 .. 3 /\ k <= q + k /\ IsText(text, q)
    BY <1>1, <1>4, <1>10, <1>12
  <2>. DEFINE m == q + k
  <2>2. m \in 0 .. Len(text) /\ m - k = q /\ k <= m
    BY <1>11, <2>1
  <2>. HIDE DEF m
  <2>3. IsText(text, m) = (m = 0 \/ \E c \in 1 .. 3 : c <= m /\ IsText(text, m - c)
                                                      /\ CharacterAt(text, m - c, c))
    BY <2>2, TextsByCharacters
  <2>4. IsText(text, m)
    BY <2>1, <2>2, <2>3
  <2>. QED
    BY <2>4 DEF m
<1>14. (bad \/ RuneError(rest)) => Stuck(text)
  <2>1. bad \/ IsText(text, q)
    BY <1>12
  <2>. QED
    BY <1>9, <1>11, <1>12, <2>1 DEF Stuck
<1>. QED
  BY <1>8, <1>13, <1>14, Zenon DEF Judged, s, k, L

\* What is left over at the end is no character, so the text is none.
LEMMA StreamIsJudged ==
  ASSUME NEW text \in Seq(ByteClasses), NEW rest \in Seq(ByteClasses), NEW bad \in BOOLEAN,
         Judged(text, rest, bad), rest # <<>> => ~FullRune(rest)
  PROVE  (bad \/ rest # <<>>) <=> ~IsText(text, Len(text))
<1>1. CASE bad
  <2>1. PICK q \in 0 .. Len(text) : IsText(text, q) /\ BrokenAt(text, q)
    BY <1>1 DEF Judged, Stuck
  <2>. QED
    BY <1>1, <2>1, BrokenIsNoText
<1>2. CASE ~bad /\ rest = <<>>
  <2>1. Len(rest) = 0 /\ Len(text) - 0 = Len(text)
    BY <1>2, EmptySeq
  <2>. QED
    BY <1>2, <2>1 DEF Judged
<1>3. CASE ~bad /\ rest # <<>>
  <2>. DEFINE q == Len(text) - Len(rest)
  <2>1. Len(rest) \in Nat /\ Len(rest) >= 1 /\ Size(rest[1]) \in 1 .. 3 /\ 1 \in 1 .. Len(rest)
    BY <1>3, RuneSizeIs
  <2>2. Len(text) \in Nat /\ Len(rest) <= Len(text) /\ \A i \in 1 .. Len(rest) : rest[i] = text[q + i]
    BY DEF Judged, Rest
  <2>3. q \in 0 .. Len(text) /\ q < Len(text) /\ rest[1] = text[q + 1] /\ q + Len(rest) = Len(text)
    BY <2>1, <2>2
  <2>4. Len(rest) < Size(rest[1])
    BY <1>3, <2>1 DEF FullRune
  <2>5. IsText(text, q)
    BY <1>3 DEF Judged
  <2>. HIDE DEF q
  <2>6. SUFFICES ASSUME IsText(text, Len(text)) PROVE FALSE
    BY <1>3
  <2>7. Len(text) \in 0 .. Len(text)
    BY <2>2
  <2>8. PICK k \in 1 .. 3 : q + k <= Len(text) /\ CharacterAt(text, q, k)
    BY <2>3, <2>5, <2>6, <2>7, TextsGoOn
  <2>9. k = Size(rest[1])
    BY <2>3, <2>8 DEF CharacterAt
  <2>. QED
    BY <2>1, <2>3, <2>4, <2>8, <2>9
<1>. QED
  BY <1>1, <1>2, <1>3

LEMMA ContainsInEither ==
  ASSUME NEW s \in Seq(ByteClasses), NEW t \in Seq(ByteClasses)
  PROVE  Contains(s \o t, "0") = (Contains(s, "0") \/ Contains(t, "0"))
<1>. DEFINE u == s \o t
<1>1. Len(s) \in Nat /\ Len(t) \in Nat /\ Len(u) = Len(s) + Len(t)
      /\ (\A i \in 1 .. Len(s) : u[i] = s[i]) /\ \A i \in 1 .. Len(t) : u[Len(s) + i] = t[i]
  OBVIOUS
<1>. HIDE DEF u
<1>2. ASSUME NEW i \in 1 .. Len(u), u[i] = "0"
      PROVE  (\E j \in 1 .. Len(s) : s[j] = "0") \/ (\E j \in 1 .. Len(t) : t[j] = "0")
  <2>1. CASE i <= Len(s)
    BY <1>1, <1>2, <2>1
  <2>2. CASE i > Len(s)
    <3>. DEFINE j == i - Len(s)
    <3>1. j \in 1 .. Len(t) /\ i = Len(s) + j
      BY <1>1, <2>2
    <3>. HIDE DEF j
    <3>. QED
      BY <1>1, <1>2, <3>1
  <2>. QED
    BY <1>1, <2>1, <2>2
<1>3. ASSUME NEW j \in 1 .. Len(s), s[j] = "0" PROVE \E i \in 1 .. Len(u) : u[i] = "0"
  <2>1. j \in 1 .. Len(u) /\ u[j] = "0"
    BY <1>1, <1>3
  <2>. QED
    BY <2>1
<1>4. ASSUME NEW j \in 1 .. Len(t), t[j] = "0" PROVE \E i \in 1 .. Len(u) : u[i] = "0"
  <2>. DEFINE i == Len(s) + j
  <2>1. i \in 1 .. Len(u) /\ u[i] = "0"
    BY <1>1, <1>4
  <2>. QED
    BY <2>1
<1>5. (\E i \in 1 .. Len(u) : u[i] = "0")
        <=> (\E j \in 1 .. Len(s) : s[j] = "0") \/ (\E j \in 1 .. Len(t) : t[j] = "0")
  BY <1>2, <1>3, <1>4
<1>. QED
  BY <1>5, Zenon DEF Contains, u

LEMMA StreamStep == StreamInv /\ [StreamNext]_streamVars => StreamInv'
<1>. SUFFICES ASSUME StreamInv, [StreamNext]_streamVars PROVE StreamInv'
  OBVIOUS
<1>1. ASSUME NEW n \in 1 .. 3, NEW chunk \in [1 .. n -> ByteClasses], WriteChunk(chunk)
      PROVE  StreamInv'
  <2>1. chunk \in Seq(ByteClasses)
    OBVIOUS
  <2>2. /\ stream = "open" /\ streamed' = streamed \o chunk /\ pending' = carry \o chunk
        /\ carry' = <<>> /\ stream' = "decode" /\ invalid' = invalid
        /\ nul' = (nul \/ Contains(chunk, "0"))
    BY <1>1, Zenon DEF WriteChunk
  <2>3. /\ streamed \in Seq(ByteClasses) /\ carry \in Seq(ByteClasses) /\ invalid \in BOOLEAN
        /\ nul = Contains(streamed, "0") /\ Judged(streamed, carry, invalid)
    BY <2>2, StreamFacts, Zenon
  <2>4. Judged(streamed \o chunk, carry \o chunk, invalid)
    BY <2>1, <2>3, JudgedGoesOn
  <2>5. streamed' \in Seq(ByteClasses) /\ pending' \in Seq(ByteClasses) /\ carry' \in Seq(ByteClasses)
    BY <2>1, <2>2, <2>3, ConcatProperties, EmptySeq
  <2>6. carry' \o pending' = pending'
    BY <2>2, <2>5, ConcatEmptySeq
  <2>7. Judged(streamed', carry' \o pending', invalid')
    BY <2>2, <2>4, <2>6, Zenon
  <2>8. nul' = Contains(streamed', "0")
    BY <2>1, <2>2, <2>3, ContainsInEither, Zenon
  <2>9. invalid' \in BOOLEAN /\ stream' # "open" /\ stream' \in {"open", "decode"}
    BY <2>2, <2>3
  <2>. QED
    BY <2>2, <2>5, <2>7, <2>8, <2>9, JudgedIsKept, Zenon
<1>2. CASE DecodeRune
  <2>2. /\ stream = "decode" /\ pending # <<>> /\ FullRune(pending)
        /\ invalid' = (invalid \/ RuneError(pending))
        /\ pending' = SubSeq(pending, RuneSize(pending) + 1, Len(pending))
        /\ streamed' = streamed /\ carry' = carry /\ nul' = nul /\ stream' = "decode"
    BY <1>2, Zenon DEF DecodeRune
  <2>3. /\ streamed \in Seq(ByteClasses) /\ pending \in Seq(ByteClasses) /\ carry = <<>>
        /\ carry \in Seq(ByteClasses) /\ invalid \in BOOLEAN
        /\ nul = Contains(streamed, "0") /\ Judged(streamed, pending, invalid)
    BY <2>2, StreamFacts, Zenon
  <2>4. Judged(streamed', pending', invalid')
    BY <2>2, <2>3, RuneIsDecoded, Zenon
  <2>5. pending' \in Seq(ByteClasses)
    <3>1. RuneSize(pending) \in 1 .. Len(pending) /\ Len(pending) \in Nat
      BY <2>2, <2>3, RuneSizeIs
    <3>2. \A i \in RuneSize(pending) + 1 .. Len(pending) : pending[i] \in ByteClasses
      BY <2>3, <3>1
    <3>. QED
      BY <2>2, <2>3, <3>1, <3>2, SubSeqProperties
  <2>6. carry' \o pending' = pending'
    BY <2>2, <2>3, <2>5, ConcatEmptySeq
  <2>7. Judged(streamed', carry' \o pending', invalid')
    BY <2>4, <2>6, Zenon
  <2>8. streamed' \in Seq(ByteClasses) /\ carry' \in Seq(ByteClasses) /\ carry' = <<>>
        /\ nul' = Contains(streamed', "0")
    BY <2>2, <2>3, Zenon
  <2>9. invalid' \in BOOLEAN /\ stream' # "open" /\ stream' \in {"open", "decode"}
    BY <2>2
  <2>. QED
    BY <2>5, <2>7, <2>8, <2>9, JudgedIsKept, Zenon
<1>3. CASE EndOfChunk
  <2>2. /\ stream = "decode" /\ (pending # <<>> => ~FullRune(pending)) /\ carry' = pending
        /\ pending' = <<>> /\ streamed' = streamed /\ nul' = nul /\ invalid' = invalid /\ stream' = "open"
    BY <1>3, Zenon DEF EndOfChunk
  <2>3. /\ streamed \in Seq(ByteClasses) /\ pending \in Seq(ByteClasses) /\ invalid \in BOOLEAN
        /\ nul = Contains(streamed, "0") /\ Judged(streamed, pending, invalid)
    BY <2>2, StreamFacts, Zenon
  <2>4. carry' \o pending' = pending /\ <<>> \in Seq(ByteClasses)
    BY <2>2, <2>3, ConcatEmptySeq, EmptySeq
  <2>5. Judged(streamed', carry' \o pending', invalid')
    BY <2>2, <2>3, <2>4, Zenon
  <2>6. streamed' \in Seq(ByteClasses) /\ carry' \in Seq(ByteClasses) /\ pending' \in Seq(ByteClasses)
        /\ nul' = Contains(streamed', "0") /\ invalid' \in BOOLEAN
        /\ pending' = <<>> /\ (carry' # <<>> => ~FullRune(carry'))
    BY <2>2, <2>3, <2>4, Zenon
  <2>7. stream' # "decode" /\ stream' \in {"open", "decode"}
    BY <2>2
  <2>. QED
    BY <2>5, <2>6, <2>7, JudgedIsKept, Zenon
<1>4. CASE FinishStream
  <2>2. /\ stream = "open" /\ invalid' = (invalid \/ carry # <<>>) /\ stream' = "finished"
        /\ streamed' = streamed /\ carry' = carry /\ pending' = pending /\ nul' = nul
    BY <1>4, Zenon DEF FinishStream
  <2>3. /\ streamed \in Seq(ByteClasses) /\ pending \in Seq(ByteClasses) /\ carry \in Seq(ByteClasses)
        /\ invalid \in BOOLEAN /\ nul = Contains(streamed, "0")
        /\ (carry # <<>> => ~FullRune(carry)) /\ Judged(streamed, carry, invalid)
    BY <2>2, StreamFacts, Zenon
  <2>4. (invalid \/ carry # <<>>) <=> ~IsText(streamed, Len(streamed))
    BY <2>3, StreamIsJudged, Zenon
  <2>5. IsText(streamed, Len(streamed)) = WellFormed(streamed)
    <3>1. SubSeq(streamed, 1, Len(streamed)) = streamed
      BY <2>3, SeqEqual, SubSeqProperties
    <3>. QED
      BY <3>1 DEF IsText, Upto
  <2>6. (invalid \/ carry # <<>>) = ~WellFormed(streamed)
    BY <2>4, <2>5, Zenon
  <2>7. ChunkingChangesNothing'
    BY <2>2, <2>3, <2>6, Zenon DEF ChunkingChangesNothing
  <2>8. stream' \notin {"open", "decode"} /\ stream' # "open" /\ stream' # "decode" /\ invalid' \in BOOLEAN
    BY <2>2
  <2>9. streamed' \in Seq(ByteClasses) /\ carry' \in Seq(ByteClasses) /\ pending' \in Seq(ByteClasses)
        /\ nul' = Contains(streamed', "0")
    BY <2>2, <2>3, Zenon
  <2>. QED
    BY <2>7, <2>8, <2>9, Zenon DEF StreamInv
<1>5. CASE UNCHANGED streamVars
  <2>1. streamed' = streamed /\ pending' = pending /\ carry' = carry /\ nul' = nul
        /\ invalid' = invalid /\ stream' = stream
    BY <1>5 DEF streamVars
  <2>2. Undecoded' = Undecoded /\ Decoded' = Decoded
    BY <2>1 DEF Undecoded, Decoded
  <2>3. ChunkingChangesNothing' = ChunkingChangesNothing
    BY <2>1 DEF ChunkingChangesNothing
  <2>. QED
    BY <2>1, <2>2, <2>3, Zenon DEF StreamInv
<1>. QED
  BY <1>1, <1>2, <1>3, <1>4, <1>5, Zenon DEF StreamNext

----------------------------------------------------------------------------
(* The checksum array of a recipe (RecipeChecksums).                       *)

\* One string for every word: the strings are the words.
OneEach(seqs, n, t) == seqs = [i \in 1 .. n |-> <<t[i]>>]

LEMMA FirstOnes ==
  ASSUME NEW Q, NEW t, NEW m \in Nat, \A k \in 1 .. m : t[k] \in Q
  PROVE  LET a == [k \in 1 .. m |-> t[k]]
         IN  a \in Seq(Q) /\ Len(a) = m /\ \A k \in 1 .. m : a[k] = t[k]
OBVIOUS

LEMMA FlattenOfOnes ==
  ASSUME NEW Q, NEW n \in Nat, NEW t \in [1 .. n -> Q], NEW seqs, OneEach(seqs, n, t)
  PROVE  FlattenSeq(seqs) = t
<1>0. seqs = [i \in 1 .. n |-> <<t[i]>>]
  BY DEF OneEach
<1>1. seqs \in Seq(Seq(Q)) /\ Len(seqs) = n
  BY <1>0
<1>2. PICK h : Flattens(Q, seqs, h) /\ FlattenSeq(seqs) = h[Len(seqs)]
  BY <1>1, FlattenIs
<1>. DEFINE g == [i \in 0 .. n |-> [k \in 1 .. i |-> t[k]]]
<1>3. h[0] = <<>> /\ \A i \in 1 .. n : h[i] = h[i - 1] \o <<t[i]>>
  BY <1>0, <1>1, <1>2 DEF Flattens
<1>4. g[0] = h[0]
  BY <1>3
<1>5. \A i \in 1 .. n : g[i - 1] = h[i - 1] => g[i] = h[i]
  <2>. SUFFICES ASSUME NEW i \in 1 .. n, g[i - 1] = h[i - 1] PROVE g[i] = h[i]
    OBVIOUS
  <2>. DEFINE a == g[i - 1]
              b == <<t[i]>>
              c == g[i]
              j == i - 1
  <2>1. j \in Nat /\ j + 1 = i /\ j \in 0 .. n /\ i \in 0 .. n /\ \A k \in 1 .. i : t[k] \in Q
    <3>. HIDE DEF g
    <3>1. \A k \in 1 .. i : k \in 1 .. n
      OBVIOUS
    <3>2. \A k \in 1 .. i : t[k] \in Q
      BY <3>1
    <3>. QED
      BY <3>2
  <2>2. a = [k \in 1 .. j |-> t[k]] /\ c = [k \in 1 .. i |-> t[k]]
    BY <2>1
  <2>3. a \in Seq(Q) /\ Len(a) = j /\ \A k \in 1 .. j : a[k] = t[k]
    <3>1. j \in Nat /\ \A k \in 1 .. j : t[k] \in Q
      BY <2>1
    <3>. HIDE DEF a, j
    <3>. QED
      BY <2>2, <3>1, FirstOnes
  <2>4. c \in Seq(Q) /\ Len(c) = i /\ \A k \in 1 .. i : c[k] = t[k]
    <3>1. i \in Nat
      OBVIOUS
    <3>. HIDE DEF c
    <3>. QED
      BY <2>1, <2>2, <3>1, FirstOnes
  <2>5. b \in Seq(Q) /\ Len(b) = 1 /\ b[1] = t[i]
    BY <2>1
  <2>6. h[i] = a \o b
    BY <1>3
  <2>. HIDE DEF a, b, c, g
  <2>7. /\ a \o b \in Seq(Q) /\ Len(a \o b) = i /\ (\A k \in 1 .. j : (a \o b)[k] = a[k])
        /\ (a \o b)[i] = b[1]
    <3>1. /\ a \o b \in Seq(Q) /\ Len(a \o b) = j + 1 /\ (\A k \in 1 .. j : (a \o b)[k] = a[k])
          /\ \A k \in 1 .. 1 : (a \o b)[j + k] = b[k]
      <4>. HIDE DEF j
      <4>1. /\ a \o b \in Seq(Q) /\ Len(a \o b) = Len(a) + Len(b)
            /\ \A k \in 1 .. Len(a) : (a \o b)[k] = a[k]
            /\ \A k \in 1 .. Len(b) : (a \o b)[Len(a) + k] = b[k]
        <5>1. a \in Seq(Q) /\ b \in Seq(Q)
          BY <2>3, <2>5
        <5>. QED
          BY <5>1, ConcatIs
      <4>. QED
        BY <2>3, <2>5, <4>1
    <3>2. 1 \in 1 .. 1
      OBVIOUS
    <3>. HIDE DEF j
    <3>. QED
      BY <2>1, <3>1, <3>2
  <2>8. \A k \in 1 .. i : c[k] = (a \o b)[k]
    <3>. SUFFICES ASSUME NEW k \in 1 .. i PROVE c[k] = (a \o b)[k]
      OBVIOUS
    <3>1. k \in 1 .. j \/ k = i
      BY <2>1
    <3>. QED
      BY <2>3, <2>4, <2>5, <2>7, <3>1
  <2>9. c = a \o b
    BY <2>4, <2>7, <2>8, SeqEqual
  <2>. QED
    BY <2>6, <2>9 DEF c
<1>. HIDE DEF g
<1>6. \A i \in 0 .. n : g[i] = h[i]
  <2>1. GoOnAlike(n, g, h)
    BY <1>4, <1>5 DEF GoOnAlike
  <2>. QED
    BY <2>1, SameRecursion
<1>7. g[n] = t
  BY DEF g
<1>. QED
  BY <1>1, <1>2, <1>6, <1>7

\* What the analysis takes a word for is what Bash has before it expands it.
LEMMA WordIs ==
  ASSUME RecipeInv, NEW word \in Word, ~("scalar" \in stray /\ Variable(word))
  PROVE  evaluateStaticShellScalar(word) \subseteq {Text(word)}
<1>1. CASE Variable(word)
  <2>1. evaluateStaticShellScalar(word) = variables /\ Text(word) = bashScalar
    BY <1>1 DEF Variable, evaluateStaticShellScalar, Text
  <2>. QED
    BY <1>1, <2>1 DEF RecipeInv
<1>2. CASE ~Variable(word)
  <2>1. word.form \in {"literal", "pattern", "dynamic"} /\ Text(word) = word.text
    BY <1>2 DEF Word, Variable, Text
  <2>. QED
    BY <2>1 DEF evaluateStaticShellScalar
<1>. QED
  BY <1>1, <1>2

\* The elements Bash makes of an array literal it does not expand are the ones the
\* analysis has.
LEMMA LiteralIs ==
  ASSUME RecipeInv, NEW literal \in Literals, NEW made \in Expanded(literal), Unexpanded(literal, made),
         ~("scalar" \in stray /\ \E i \in DOMAIN literal : Variable(literal[i]))
  PROVE  evaluateStaticChecksumArray(literal) \subseteq {FlattenSeq(made)}
<1>1. PICK n \in Nat : literal \in [1 .. n -> Word]
  BY RecipeConstants DEF Literals, Several
<1>. DEFINE t == [i \in 1 .. n |-> Text(literal[i])]
            known == [i \in DOMAIN literal |-> CHOOSE s \in evaluateStaticShellScalar(literal[i]) : TRUE]
<1>2. DOMAIN literal = 1 .. n
  BY <1>1
<1>3. ASSUME NEW i \in 1 .. n PROVE evaluateStaticShellScalar(literal[i]) \subseteq {t[i]}
  <2>1. literal[i] \in Word /\ ~("scalar" \in stray /\ Variable(literal[i]))
    BY <1>1, <1>2
  <2>. QED
    BY <2>1, WordIs
<1>4. \A i \in 1 .. n : made[i] = <<t[i]>>
  BY <1>2 DEF Unexpanded
<1>. DEFINE Q == {t[i] : i \in 1 .. n}
<1>5. t \in [1 .. n -> Q]
  <2>1. \A i \in 1 .. n : t[i] \in Q
    OBVIOUS
  <2>2. t = [i \in 1 .. n |-> t[i]]
    OBVIOUS
  <2>. HIDE DEF t, Q
  <2>. QED
    BY <2>1, <2>2
<1>. HIDE DEF t, Q
<1>6. FlattenSeq(made) = t
  <2>0. PICK S : made \in [1 .. n -> S]
    BY <1>2 DEF Expanded
  <2>1. made = [i \in 1 .. n |-> <<t[i]>>]
    BY <1>4, <2>0
  <2>2. OneEach(made, n, t)
    BY <2>1 DEF OneEach
  <2>. QED
    BY <1>5, <2>2, FlattenOfOnes
<1>7. ASSUME \A i \in DOMAIN literal : evaluateStaticShellScalar(literal[i]) # {}
      PROVE  known = t
  <2>1. ASSUME NEW i \in 1 .. n
        PROVE  (CHOOSE s \in evaluateStaticShellScalar(literal[i]) : TRUE) = t[i]
    BY <1>2, <1>3, <1>7
  <2>2. known = [i \in 1 .. n |-> t[i]]
    BY <1>2, <2>1
  <2>. QED
    BY <1>5, <2>2
<1>8. evaluateStaticChecksumArray(literal) \subseteq {t}
  BY <1>7 DEF evaluateStaticChecksumArray
<1>. QED
  BY <1>6, <1>8

LEMMA RecipeInitially == RecipeInit => RecipeInv
BY DEF RecipeInit, RecipeInv, Unresolved

\* One value appended to one value is one value.
LEMMA OneJoined ==
  ASSUME NEW A, NEW B, NEW a, NEW b, A \subseteq {a}, B \subseteq {b}
  PROVE  Joined(A, B) \subseteq {a \o b}
BY DEF Joined

LEMMA ScalarStep == ASSUME RecipeInv, applyStaticScalarAssignment PROVE RecipeInv'
<1>1. PICK word \in Word, append \in BOOLEAN, manner \in Manners :
        LET known == evaluateStaticShellScalar(word) IN
        /\ variables' = IF ~parsed THEN {}
                        ELSE IF append THEN Joined(variables, known) ELSE known
        /\ \E text \in ScalarTexts(word) :
             LET value == IF append THEN bashScalar \o text ELSE text IN
             Stray("scalar", \/ text # Text(word) \/ bashScalar' # value
                             \/ "scalar" \in stray /\ (append \/ Variable(word)))
  BY Zenon DEF applyStaticScalarAssignment
<1>. DEFINE known == evaluateStaticShellScalar(word)
            both == Joined(variables, known)
<1>2. PICK text \in ScalarTexts(word) :
        LET value == IF append THEN bashScalar \o text ELSE text IN
        Stray("scalar", \/ text # Text(word) \/ bashScalar' # value
                        \/ "scalar" \in stray /\ (append \/ Variable(word)))
  BY <1>1
<1>. DEFINE value == IF append THEN bashScalar \o text ELSE text
<1>3. variables' = IF ~parsed THEN {} ELSE IF append THEN both ELSE known
  BY <1>1
<1>4. "array" \notin stray' => "array" \notin stray
  BY <1>2 DEF Stray
<1>5. ASSUME "scalar" \notin stray' PROVE variables' \subseteq {bashScalar'}
  <2>1. /\ text = Text(word) /\ bashScalar' = value
        /\ ~("scalar" \in stray /\ (append \/ Variable(word)))
    BY <1>2, <1>5 DEF Stray
  <2>2. known \subseteq {text}
    BY <2>1, WordIs
  <2>3. append => both \subseteq {bashScalar \o text}
    <3>. HIDE DEF known
    <3>1. append => variables \subseteq {bashScalar}
      BY <2>1 DEF RecipeInv
    <3>. QED
      BY <2>2, <3>1, OneJoined
  <2>. HIDE DEF known, both
  <2>. QED
    BY <1>3, <2>1, <2>2, <2>3
<1>6. ~parsed => variables' = {}
  BY <1>3
<1>7. UNCHANGED <<parsed, srcinfo, binding, values, unresolved, unknownAll, bashArray>> /\ binding = "undecided"
  BY DEF applyStaticScalarAssignment, Statement
<1>. QED
  BY <1>4, <1>5, <1>6, <1>7 DEF RecipeInv

LEMMA ArrayStep == ASSUME RecipeInv, AssignArray PROVE RecipeInv'
<1>. DEFINE old == IF bashArray = {} THEN <<>> ELSE CHOOSE a \in bashArray : TRUE
            Value(append, made) == {IF append THEN old \o FlattenSeq(made) ELSE FlattenSeq(made)}
            Astray(literal, append, made) ==
              \/ ~Unexpanded(literal, made) \/ bashArray' # Value(append, made)
              \/ append /\ "array" \in stray
              \/ "scalar" \in stray /\ \E i \in DOMAIN literal : Variable(literal[i])
<1>1. PICK literal \in Literals, append \in BOOLEAN, manner \in Manners :
        /\ \E made \in Expanded(literal) :
             /\ bashArray' \in Assigns("array", manner, bashArray, Value(append, made), Maybe(Arrays))
             /\ Stray("array", Astray(literal, append, made))
        /\ IF parsed THEN /\ values' = Assigned(evaluateStaticChecksumArray(literal), append)
                          /\ unresolved' = (Assigned(evaluateStaticChecksumArray(literal), append) = {})
           ELSE UNCHANGED <<values, unresolved>>
  BY Zenon DEF AssignArray
<1>2. PICK made \in Expanded(literal) :
        /\ bashArray' \in Assigns("array", manner, bashArray, Value(append, made), Maybe(Arrays))
        /\ Stray("array", Astray(literal, append, made))
  BY <1>1
<1>. DEFINE resolved == evaluateStaticChecksumArray(literal)
            words == FlattenSeq(made)
            value == Value(append, made)
<1>3. /\ parsed => values' = Assigned(resolved, append) /\ unresolved' = (Assigned(resolved, append) = {})
      /\ ~parsed => values' = values /\ unresolved' = unresolved
  BY <1>1
<1>4. UNCHANGED <<parsed, srcinfo, binding, variables, unknownAll, bashScalar>> /\ binding = "undecided"
  BY DEF AssignArray, Statement
<1>5. "scalar" \notin stray' => "scalar" \notin stray
  <2>. HIDE DEF Astray
  <2>. QED
    BY <1>2 DEF Stray
<1>6. \A a, b \in bashArray' : a = b
  <2>1. \A a, b \in value : a = b
    OBVIOUS
  <2>. HIDE DEF value
  <2>2. bashArray' \in {bashArray, value} \cup Maybe(Arrays)
    BY <1>2 DEF Assigns, Manners, value
  <2>3. \A m \in Maybe(Arrays) : \A a, b \in m : a = b
    BY DEF Maybe
  <2>. QED
    BY <2>1, <2>2, <2>3 DEF RecipeInv
<1>7. ASSUME "array" \notin stray' PROVE values' # {} => values' = bashArray'
  <2>1. ~Astray(literal, append, made)
    <3>. HIDE DEF Astray
    <3>. QED
      BY <1>2, <1>7 DEF Stray
  <2>2. /\ Unexpanded(literal, made)
        /\ ~("scalar" \in stray /\ \E i \in DOMAIN literal : Variable(literal[i]))
        /\ bashArray' = value /\ ~(append /\ "array" \in stray)
    BY <2>1, Zenon
  <2>3. resolved \subseteq {words}
    BY <2>2, LiteralIs, Zenon
  <2>4. append => values \subseteq {old}
    <3>1. append /\ values # {} => values = bashArray
      BY <2>2 DEF RecipeInv
    <3>. QED
      BY <3>1 DEF RecipeInv
  <2>5. value = {IF append THEN old \o words ELSE words}
    OBVIOUS
  <2>. HIDE DEF old, resolved, words, value
  <2>. DEFINE both == Joined(values, resolved)
  <2>6. append => both \subseteq {old \o words}
    BY <2>3, <2>4, OneJoined
  <2>7. parsed => values' = (IF append THEN both ELSE resolved)
    BY <1>3, Zenon DEF Assigned
  <2>8. ~parsed => values' = {}
    BY <1>3 DEF RecipeInv
  <2>. HIDE DEF both
  <2>. QED
    BY <2>2, <2>3, <2>5, <2>6, <2>7, <2>8
<1>. HIDE DEF resolved
<1>8. parsed => unresolved' \in BOOLEAN /\ (values' = {} => unresolved')
  BY <1>3
<1>9. unresolved' \in BOOLEAN /\ (~parsed => values' = {})
  BY <1>3, <1>8 DEF RecipeInv
<1>. QED
  BY <1>4, <1>5, <1>6, <1>7, <1>8, <1>9 DEF RecipeInv

\* What the analysis gives up on, and what it does not see.
LEMMA OtherwiseStep ==
  ASSUME RecipeInv, ForgetScalar \/ AssignOtherwise \/ AssignBesides \/ OtherCommand PROVE RecipeInv'
<1>1. \A a, b \in bashArray' : a = b
  <2>1. bashArray' \in {bashArray} \cup Maybe(Arrays)
    BY DEF ForgetScalar, AssignOtherwise, AssignBesides, OtherCommand
  <2>. QED
    BY <2>1 DEF RecipeInv, Maybe
<1>2. CASE ForgetScalar
  <2>1. UNCHANGED <<parsed, srcinfo, binding, values, unresolved, unknownAll, bashArray>>
        /\ binding = "undecided" /\ variables' = {} /\ stray' = stray \ {"scalar"}
    BY <1>2 DEF ForgetScalar, Statement, Stray
  <2>. QED
    BY <2>1 DEF RecipeInv
<1>3. CASE AssignOtherwise
  <2>1. UNCHANGED <<parsed, srcinfo, binding, variables, unknownAll, bashScalar>> /\ binding = "undecided"
        /\ values' = {} /\ unresolved' = parsed /\ stray' = stray \ {"array"}
    BY <1>3 DEF AssignOtherwise, Statement, Stray
  <2>. QED
    BY <1>1, <2>1 DEF RecipeInv
<1>4. CASE AssignBesides
  <2>1. UNCHANGED <<parsed, srcinfo, binding, variables, values, unresolved, unknownAll>>
        /\ binding = "undecided"
        /\ stray' = stray \cup (IF bashScalar' # bashScalar THEN {"scalar"} ELSE {})
                         \cup (IF bashArray' # bashArray THEN {"array"} ELSE {})
    BY <1>4 DEF AssignBesides, Statement
  <2>2. /\ "scalar" \notin stray' => "scalar" \notin stray /\ bashScalar' = bashScalar
        /\ "array" \notin stray' => "array" \notin stray /\ bashArray' = bashArray
    BY <2>1
  <2>. QED
    BY <1>1, <2>1, <2>2 DEF RecipeInv
<1>5. CASE OtherCommand
  <2>1. UNCHANGED <<parsed, srcinfo, binding, unresolved>> /\ binding = "undecided"
        /\ values' = {} /\ variables' = {} /\ unknownAll' = TRUE
    BY <1>5 DEF OtherCommand, Statement
  <2>. QED
    BY <1>1, <2>1 DEF RecipeInv
<1>. QED
  BY <1>2, <1>3, <1>4, <1>5

LEMMA CompareStep ==
  ASSUME RecipeInv, compareSRCINFO PROVE RecipeInv'
<1>1. UNCHANGED <<parsed, variables, values, unresolved, unknownAll, bashScalar, bashArray, stray, srcinfo>>
  BY DEF compareSRCINFO
<1>2. srcinfo # {} => (binding' = "fixed-digest" <=> (Unresolved \/ values = srcinfo))
  BY DEF compareSRCINFO
<1>3. Unresolved' <=> Unresolved
  BY <1>1 DEF Unresolved
<1>. QED
  BY <1>1, <1>2, <1>3 DEF RecipeInv

LEMMA RecipeStep == RecipeInv /\ [RecipeNext]_recipeVars => RecipeInv'
<1>. SUFFICES ASSUME RecipeInv, [RecipeNext]_recipeVars PROVE RecipeInv'
  OBVIOUS
<1>1. CASE DeclareFunction \/ UNCHANGED recipeVars
  <2>1. UNCHANGED <<parsed, variables, values, unresolved, unknownAll, bashScalar, bashArray, stray,
                    srcinfo, binding>>
    BY <1>1 DEF DeclareFunction, Statement, recipeVars
  <2>2. Unresolved' <=> Unresolved
    BY <2>1 DEF Unresolved
  <2>. QED
    BY <2>1, <2>2 DEF RecipeInv
<1>. QED
  BY <1>1, ScalarStep, ArrayStep, OtherwiseStep, CompareStep, Zenon DEF RecipeNext

LEMMA BashAgrees == RecipeInv => StaticChecksumsAreBashs
BY DEF RecipeInv, StaticChecksumsAreBashs, Unresolved

----------------------------------------------------------------------------
(* The reading of an archive (ArchiveScan).                                *)

\* What a scan of a reader is, and keeps being whatever is added to it.
Kept(s) == s \in Scans /\ s.archives > 0 /\ Told(s) /\ InAllowance(s)
Same(t, s) == Kept(t) /\ t.entries = s.entries /\ t.archives = s.archives

LEMMA HardKeeps == ASSUME NEW s, Kept(s) PROVE Same(Hard(s), s)
<1>. DEFINE x == s.hard + 1
            y == s.met + 1
<1>1. s \in Scans /\ x \in Nat /\ y \in Nat
  BY DEF Kept, Scans
<1>2. Hard(s) = [s EXCEPT !.hard = x, !.met = y]
  BY DEF Hard
<1>. HIDE DEF x, y
<1>3. [s EXCEPT !.hard = x, !.met = y] \in Scans
  BY <1>1 DEF Scans
<1>. USE DEF x, y
<1>. QED
  BY <1>1, <1>2, <1>3 DEF Kept, Same, Scans, Told, InAllowance, Hard

LEMMA IncompleteKeeps == ASSUME NEW s, Kept(s) PROVE Same(Incomplete(s), s)
<1>1. s \in Scans /\ Incomplete(s) \in Scans
  BY DEF Kept, Scans, Incomplete
<1>. QED
  BY <1>1 DEF Kept, Same, Scans, Told, InAllowance, Incomplete

\* What a reader leaves unread, by design or with a gap.
LEMMA LeavesIs ==
  ASSUME NEW s \in Scans, NEW why \in ByDesign \cup {"gap"}
  PROVE  /\ Leaves(s, why) \in Scans /\ Leaves(s, why).unread = s.unread \cup {why}
         /\ Leaves(s, why).entries = s.entries /\ Leaves(s, why).bytes = s.bytes
         /\ Leaves(s, why).archives = s.archives /\ Leaves(s, why).hard = s.hard
         /\ Leaves(s, why).coverage = s.coverage /\ Leaves(s, why).complete = s.complete
         /\ Leaves(s, why).met = s.met /\ Leaves(s, why).redone = s.redone
<1>. DEFINE u == s.unread \cup {why}
<1>1. u \in SUBSET (ByDesign \cup {"gap"})
  BY DEF Scans
<1>2. Leaves(s, why) = [s EXCEPT !.unread = u]
  BY DEF Leaves
<1>. HIDE DEF u
<1>3. [s EXCEPT !.unread = u] \in Scans
  BY <1>1 DEF Scans
<1>. QED
  BY <1>2, <1>3 DEF Scans, u

LEMMA LeavesKeeps ==
  ASSUME NEW s, Kept(s), NEW why \in ByDesign
  PROVE  Same(Leaves(s, why), s)
<1>1. why # "gap" /\ s \in Scans /\ why \in ByDesign \cup {"gap"}
  BY DEF ByDesign, Kept
<1>2. Told(Leaves(s, why)) /\ InAllowance(Leaves(s, why))
  BY <1>1, LeavesIs DEF Kept, Told, InAllowance
<1>. QED
  BY <1>1, <1>2, LeavesIs DEF Kept, Same

\* A gap excuses whatever it is reported of.
LEMMA GapIs ==
  ASSUME NEW s \in Scans
  PROVE  /\ Gap(s) \in Scans /\ Told(Gap(s)) /\ InAllowance(Gap(s))
         /\ Gap(s).entries = s.entries /\ Gap(s).archives = s.archives
         /\ Gap(s).bytes = s.bytes /\ Gap(s).hard = s.hard
<1>. DEFINE x == s.coverage + 1
<1>1. x \in Nat /\ x # 0 /\ Gap(s) = [s EXCEPT !.coverage = x]
  BY DEF Scans, Gap
<1>. HIDE DEF x
<1>2. [s EXCEPT !.coverage = x] \in Scans
  BY <1>1 DEF Scans
<1>3. Gap(s).coverage = x
  BY <1>1 DEF Scans
<1>. QED
  BY <1>1, <1>2, <1>3 DEF Scans, Told, InAllowance

LEMMA GapKeeps == ASSUME NEW s, Kept(s) PROVE Same(Gap(s), s)
BY GapIs DEF Kept, Same

\* Whatever was left unread, a gap tells of it.
LEMMA UnreadKeeps ==
  ASSUME NEW s \in Scans, s.archives > 0
  PROVE  Same(Gap(Unread(s)), s)
<1>1. /\ Unread(s) \in Scans /\ Unread(s).entries = s.entries
      /\ Unread(s).archives = s.archives
  BY LeavesIs DEF Unread
<1>. QED
  BY <1>1, GapIs DEF Kept, Same

LEMMA UnsupportedKeeps ==
  ASSUME NEW s \in Scans, s.archives > 0
  PROVE  Same(unsupportedArchive(Unread(s)), s)
<1>1. /\ Unread(s) \in Scans /\ Unread(s).entries = s.entries
      /\ Unread(s).archives = s.archives
  BY LeavesIs DEF Unread
<1>. DEFINE t == [Unread(s) EXCEPT !.supported = FALSE, !.complete = FALSE]
<1>2. t \in Scans /\ t.entries = s.entries /\ t.archives = s.archives
  BY <1>1 DEF Scans
<1>3. unsupportedArchive(Unread(s)) = Gap(t)
  BY DEF unsupportedArchive
<1>. HIDE DEF t
<1>. QED
  BY <1>2, <1>3, GapIs DEF Kept, Same

\* A member counted: within the limits, or to be told of as a gap.
LEMMA CountedKeeps ==
  ASSUME NEW s, Kept(s), NEW size \in Int
  PROVE  /\ Counted(s, size) \in Scans /\ Counted(s, size).archives > 0
         /\ Counted(s, size).entries = s.entries + 1 /\ Counted(s, size).archives = s.archives
         /\ WithinLimits(Counted(s, size), size) => Kept(Counted(s, size))
<1>. DEFINE x == s.entries + 1
            y == s.bytes + (IF size > 0 THEN size ELSE 0)
            t == [s EXCEPT !.entries = x, !.bytes = y]
<1>1. s \in Scans /\ x \in Nat /\ y \in Nat
  BY DEF Kept, Scans
<1>2. Counted(s, size) = t
  BY DEF Counted
<1>. HIDE DEF x, y
<1>3. t \in Scans
  BY <1>1 DEF Scans
<1>4. /\ t.entries = x /\ t.bytes = y /\ t.archives = s.archives /\ t.complete = s.complete
      /\ t.coverage = s.coverage /\ t.hard = s.hard /\ t.met = s.met /\ t.unread = s.unread
      /\ t.redone = s.redone
  BY <1>1 DEF Scans
<1>. HIDE DEF t
<1>5. Told(t)
  BY <1>4 DEF Kept, Told
<1>6. ASSUME WithinLimits(t, size) PROVE InAllowance(t)
  BY <1>4, <1>6 DEF Kept, InAllowance, WithinLimits
<1>. QED
  BY <1>2, <1>3, <1>4, <1>5, <1>6 DEF Kept, x

LEMMA MergedIs ==
  ASSUME NEW s \in Scans, NEW n \in Scans
  PROVE  /\ Merged(s, n) \in Scans
         /\ Merged(s, n).entries = s.entries + n.entries
         /\ Merged(s, n).bytes = s.bytes + n.bytes
         /\ Merged(s, n).archives = s.archives + n.archives
         /\ Merged(s, n).hard = s.hard + n.hard
         /\ Merged(s, n).coverage = s.coverage + n.coverage
         /\ Merged(s, n).complete = (s.complete /\ n.complete)
         /\ Merged(s, n).met = s.met + n.met
         /\ Merged(s, n).unread = s.unread \cup n.unread
         /\ Merged(s, n).redone = (s.redone \/ n.redone)
<1>. DEFINE e == s.entries + n.entries
            b == s.bytes + n.bytes
            a == s.archives + n.archives
            h == s.hard + n.hard
            g == s.coverage + n.coverage
            m == s.met + n.met
            c == s.complete /\ n.complete
            p == s.supported /\ n.supported
            u == s.unread \cup n.unread
            r == s.redone \/ n.redone
<1>1. {e, b, a, h, g, m} \subseteq Nat
  BY DEF Scans
<1>2. c \in BOOLEAN /\ p \in BOOLEAN /\ r \in BOOLEAN
  BY Zenon
<1>6. u \in SUBSET (ByDesign \cup {"gap"})
  BY DEF Scans
<1>3. Merged(s, n) =
        [s EXCEPT !.entries = e, !.bytes = b, !.archives = a, !.hard = h, !.coverage = g,
                  !.complete = c, !.supported = p, !.met = m, !.unread = u, !.redone = r]
  BY Zenon DEF Merged
<1>. HIDE DEF e, b, a, h, g, m, c, p, u, r
<1>4. Merged(s, n) \in Scans
  BY <1>1, <1>2, <1>3, <1>6 DEF Scans
<1>5. /\ Merged(s, n).entries = e /\ Merged(s, n).bytes = b /\ Merged(s, n).archives = a
      /\ Merged(s, n).hard = h /\ Merged(s, n).coverage = g /\ Merged(s, n).complete = c
      /\ Merged(s, n).met = m /\ Merged(s, n).unread = u /\ Merged(s, n).redone = r
  BY <1>3 DEF Scans
<1>. QED
  BY <1>4, <1>5, Zenon DEF e, b, a, h, g, m, c, p, u, r

LEMMA MergedTells ==
  ASSUME NEW s \in Scans, NEW n \in Scans, Told(s), Told(n)
  PROVE  Told(Merged(s, n))
<1>1. ASSUME Merged(s, n).complete, Merged(s, n).coverage = 0, ~Merged(s, n).redone
      PROVE  Merged(s, n).hard = Merged(s, n).met /\ "gap" \notin Merged(s, n).unread
  <2>1. s.complete /\ n.complete /\ ~s.redone /\ ~n.redone
    BY <1>1, MergedIs, Zenon
  <2>2. s.coverage = 0 /\ n.coverage = 0
    <3>1. s.coverage \in Nat /\ n.coverage \in Nat /\ s.coverage + n.coverage = 0
      <4>1. s.coverage + n.coverage = 0
        BY <1>1, MergedIs, Zenon
      <4>. QED
        BY <4>1 DEF Scans
    <3>. QED
      BY <3>1
  <2>3. s.hard = s.met /\ "gap" \notin s.unread /\ n.hard = n.met /\ "gap" \notin n.unread
    BY <2>1, <2>2, Zenon DEF Told
  <2>4. "gap" \notin Merged(s, n).unread
    BY <2>3, MergedIs
  <2>. QED
    BY <2>3, <2>4, MergedIs
<1>. QED
  BY <1>1, Zenon DEF Told

\* A nested result is accumulated, and checked against the limits.
LEMMA AggregateKeeps ==
  ASSUME NEW s, Kept(s), NEW n, Kept(n),
         allowed.entries \in Nat, allowed.bytes \in Nat, allowed.archives \in Nat
  PROVE  LET t == Aggregate(Merged(s, n)) IN Kept(t) /\ t.entries = s.entries + n.entries
<1>. DEFINE m == Merged(s, n)
            over == m.entries > allowed.entries \/ m.bytes > allowed.bytes
            a == IF over THEN Incomplete(Gap(m)) ELSE m
<1>1. s \in Scans /\ n \in Scans /\ m \in Scans /\ Told(m)
  BY MergedIs, MergedTells DEF Kept
<1>2. /\ m.archives = s.archives + n.archives /\ m.entries = s.entries + n.entries
  BY <1>1, MergedIs, Zenon
<1>3. s.archives \in Nat /\ n.archives \in Nat /\ s.archives > 0
  BY <1>1 DEF Scans, Kept
<1>4. m.archives > 0
  BY <1>2, <1>3
<1>. HIDE DEF m
<1>5. ASSUME NEW t \in Scans, t.archives > 0 PROVE Same(Incomplete(Gap(t)), t)
  <2>1. Same(Gap(t), t)
    BY <1>5, GapIs DEF Kept, Same
  <2>. QED
    BY <2>1, IncompleteKeeps DEF Same
<1>6. Aggregate(m) = IF m.archives > allowed.archives THEN Incomplete(Gap(a)) ELSE a
  BY Zenon DEF Aggregate
<1>7. a \in Scans /\ a.archives = m.archives /\ a.entries = m.entries /\ Told(a)
  BY <1>1, <1>4, <1>5 DEF Same, Kept
<1>8. CASE m.archives > allowed.archives
  <2>1. Aggregate(m) = Incomplete(Gap(a))
    BY <1>6, <1>8
  <2>2. Same(Incomplete(Gap(a)), a)
    BY <1>4, <1>5, <1>7
  <2>. QED
    BY <1>2, <1>7, <2>1, <2>2 DEF Same, m
<1>9. CASE ~(m.archives > allowed.archives)
  <2>1. Aggregate(m) = a
    BY <1>6, <1>9
  <2>2. CASE over
    <3>1. Same(a, m)
      BY <1>1, <1>4, <1>5, <2>2
    <3>. QED
      BY <1>2, <2>1, <3>1 DEF Same, m
  <2>3. CASE ~over
    <3>1. a = m
      BY <2>3
    <3>2. m.entries \in Nat /\ m.bytes \in Nat /\ m.archives \in Nat
      BY <1>1 DEF Scans
    <3>3. m.entries <= allowed.entries /\ m.bytes <= allowed.bytes /\ m.archives <= allowed.archives
      BY <1>9, <2>3, <3>2
    <3>4. InAllowance(m)
      BY <3>3 DEF InAllowance
    <3>5. Kept(m)
      BY <1>1, <1>4, <3>4 DEF Kept
    <3>. QED
      BY <1>2, <2>1, <3>1, <3>5 DEF m
  <2>. QED
    BY <2>2, <2>3
<1>. QED
  BY <1>8, <1>9

LEMMA RoomIs ==
  ASSUME allowed.entries \in Nat, NEW n \in 1 .. MaxArchiveDepth
  PROVE  /\ Room(n) \in Nat /\ Room(n) > allowed.entries
         /\ n < MaxArchiveDepth => Room(n) = Room(n + 1) + allowed.entries + 1
<1>. DEFINE x == allowed.entries + 1
            d == MaxArchiveDepth - n
<1>1. x \in Nat /\ x > 0 /\ d \in Nat /\ MaxArchiveDepth \in Nat
  BY ArchiveConstants
<1>2. Room(n) = (d + 1) * x
  BY <1>1 DEF Room
<1>3. n < MaxArchiveDepth => Room(n + 1) = d * x
  BY <1>1 DEF Room
<1>. HIDE DEF x, d
<1>4. (d + 1) * x = d * x + x /\ d * x \in Nat
  BY <1>1
<1>. QED
  BY <1>1, <1>2, <1>3, <1>4 DEF x

\* The reader at work.
LEMMA TopIs ==
  ASSUME ArchiveInv, stack # <<>>
  PROVE  /\ stack \in Seq(Frames) /\ Len(stack) \in 1 .. MaxArchiveDepth
         /\ Top = stack[Len(stack)] /\ Standing(Top, Len(stack)) /\ Innermost(Top, Len(stack))
         /\ allowed.entries \in Nat /\ allowed.bytes \in Nat
         /\ allowed.archives \in Nat \ {0} /\ report = NoReport
         /\ Kept(Top.scan)
<1>1. stack \in Seq(Frames) /\ Len(stack) \in Nat \ {0} /\ DOMAIN stack = 1 .. Len(stack)
  BY EmptySeq, LenProperties DEF ArchiveInv
<1>2. Top = stack[Len(stack)]
  BY <1>1 DEF Top, Last
<1>3. Len(stack) \in DOMAIN stack /\ ~(Len(stack) < Len(stack))
  BY <1>1
<1>4. Standing(Top, Len(stack)) /\ Innermost(Top, Len(stack))
  BY <1>2, <1>3, Zenon DEF ArchiveInv
<1>5. Len(stack) <= MaxArchiveDepth
  BY <1>1, <1>4, ArchiveConstants DEF Standing, Frames
<1>. QED
  BY <1>1, <1>2, <1>4, <1>5, ArchiveConstants DEF ArchiveInv, Standing, Frames, Kept

\* A new innermost reader, the others as they were.
LEMMA NewTop ==
  ASSUME allowed.entries \in Nat, allowed.bytes \in Nat, allowed.archives \in Nat \ {0},
         UNCHANGED allowed, report' = NoReport,
         NEW n \in Nat \ {0}, NEW st \in Seq(Frames), stack' = st, Len(st) = n,
         Standing(st[n], n), Innermost(st[n], n),
         \A i \in 1 .. n - 1 : Standing(st[i], i) /\ Waiting(st[i])
  PROVE  ArchiveInv'
<1>1. DOMAIN st = 1 .. n
  BY LenProperties
<1>. DEFINE In(i) == IF i < n THEN Waiting(st[i]) ELSE Innermost(st[i], i)
<1>5. \A i \in 1 .. n : Standing(st[i], i)'
  <2>. SUFFICES ASSUME NEW i \in 1 .. n PROVE Standing(st[i], i)'
    OBVIOUS
  <2>1. Standing(st[i], i)
    <3>1. i = n \/ i \in 1 .. n - 1
      OBVIOUS
    <3>. QED
      BY <3>1
  <2>. QED
    BY <2>1 DEF Standing, InAllowance
<1>2. ASSUME NEW i \in DOMAIN st
      PROVE  Standing(st[i], i)' /\ In(i)'
  <2>1. CASE i = n
    <3>1. Innermost(st[n], n)'
      BY DEF Innermost, Room
    <3>. QED
      BY <1>1, <1>5, <2>1, <3>1
  <2>2. CASE i # n
    <3>1. i \in 1 .. n - 1 /\ i < n
      BY <1>1, <2>2
    <3>2. Standing(st[i], i) /\ Waiting(st[i])
      BY <3>1
    <3>3. Waiting(st[i])'
      BY <3>2 DEF Waiting
    <3>. QED
      BY <1>1, <1>5, <3>1, <3>3
  <2>. QED
    BY <2>1, <2>2
<1>3. NoReport \in Scans /\ Told(NoReport)
  BY DEF NoReport, Fresh, Scans, Told
<1>4. (\A i \in DOMAIN stack : Standing(stack[i], i)
          /\ IF i < Len(stack) THEN Waiting(stack[i]) ELSE Innermost(stack[i], i))'
  BY <1>2, Zenon
<1>. QED
  BY <1>3, <1>4, Zenon DEF ArchiveInv

LEMMA SetTopKeeps ==
  ASSUME ArchiveInv, stack # <<>>, NEW f, Standing(f, Len(stack)), Innermost(f, Len(stack)),
         SetTop(f), UNCHANGED <<allowed, report>>
  PROVE  ArchiveInv' /\ stack' # <<>>
<1>. DEFINE n == Len(stack)
            st == [stack EXCEPT ![n] = f]
<1>1. /\ stack \in Seq(Frames) /\ n \in Nat \ {0} /\ DOMAIN stack = 1 .. n
      /\ allowed.entries \in Nat /\ allowed.bytes \in Nat /\ allowed.archives \in Nat \ {0}
      /\ report = NoReport
  BY TopIs, LenProperties
<1>2. stack' = st
  BY DEF SetTop, ReplaceAt
<1>3. f \in Frames
  BY DEF Standing
<1>4. st \in Seq(Frames) /\ Len(st) = n /\ st[n] = f /\ \A i \in 1 .. n - 1 : st[i] = stack[i]
  <2>1. n \in 1 .. Len(stack) /\ stack \in Seq(Frames) /\ Len(stack) = n
    BY <1>1
  <2>. HIDE DEF n
  <2>2. /\ st \in Seq(Frames) /\ Len(st) = Len(stack)
        /\ \A j \in 1 .. Len(stack) : st[j] = IF j = n THEN f ELSE stack[j]
    BY <1>3, <2>1, ExceptSeq
  <2>. HIDE DEF st
  <2>. QED
    BY <2>1, <2>2
<1>5. \A i \in 1 .. n - 1 : Standing(st[i], i) /\ Waiting(st[i])
  <2>. SUFFICES ASSUME NEW i \in 1 .. n - 1 PROVE Standing(st[i], i) /\ Waiting(st[i])
    OBVIOUS
  <2>1. i \in DOMAIN stack /\ i < Len(stack)
    BY <1>1
  <2>2. Standing(stack[i], i) /\ Waiting(stack[i])
    BY <2>1, Zenon DEF ArchiveInv
  <2>. QED
    BY <1>4, <2>2
<1>6. Standing(st[n], n) /\ Innermost(st[n], n)
  BY <1>4
<1>7. UNCHANGED allowed /\ report' = NoReport
  BY <1>1
<1>8. stack' # <<>>
  BY <1>1, <1>2, <1>4, EmptySeq
<1>. HIDE DEF n, st
<1>. QED
  BY <1>1, <1>2, <1>4, <1>5, <1>6, <1>7, <1>8, NewTop

\* The innermost reader goes on with another scan.
LEMMA GoesOn ==
  ASSUME ArchiveInv, stack # <<>>, NEW f \in Frames, f.depth = Top.depth, Kept(f.scan),
         f.mode \in {"reading", "failed"} /\ ~f.any => f.scan.met = 0 /\ f.scan.unread = {},
         f.mode = "reading" => f.scan.archives <= allowed.archives,
         Innermost(f, Len(stack)), SetTop(f), UNCHANGED <<allowed, report>>
  PROVE  ArchiveInv' /\ stack' # <<>>
<1>1. Standing(f, Len(stack))
  BY TopIs DEF Standing, Kept
<1>. QED
  BY <1>1, SetTopKeeps

LEMMA ContentKeeps ==
  ASSUME ArchiveInv, stack # <<>>, NEW b, NEW a, Kept(b), Kept(a),
         b.entries <= allowed.entries, a.entries <= allowed.entries,
         b.archives <= allowed.archives, a.archives <= allowed.archives,
         SetTop(Content(Top, b, a)), UNCHANGED <<allowed, report>>
  PROVE  ArchiveInv' /\ stack' # <<>>
<1>. DEFINE f == Content(Top, b, a)
            n == Len(stack)
<1>1. Top \in Frames /\ n \in 1 .. MaxArchiveDepth /\ allowed.entries \in Nat
  BY TopIs DEF Standing
<1>2. PICK mode \in {"reading", "failed"}, s \in {a, b} :
        f = [Top EXCEPT !.any = TRUE, !.mode = mode, !.scan = s]
  BY Zenon DEF Content
<1>3. Kept(s) /\ s.entries <= allowed.entries /\ s.archives <= allowed.archives
  BY <1>2
<1>4. s \in Scans /\ s.entries \in Nat
  BY <1>3 DEF Kept, Scans
<1>. HIDE DEF f, n
<1>5. f \in Frames /\ f.depth = Top.depth /\ f.any /\ f.scan = s
  BY <1>1, <1>2, <1>4 DEF Frames
<1>6. Room(n) \in Nat /\ Room(n) > allowed.entries
  BY <1>1, RoomIs
<1>7. Innermost(f, n)
  BY <1>1, <1>3, <1>4, <1>5, <1>6 DEF Innermost
<1>8. SetTop(f)
  BY DEF f
<1>. QED
  BY <1>3, <1>5, <1>7, <1>8, GoesOn DEF n

\* A member, counted: by one more than the limits, where it is over them.
LEMMA MemberIsCounted ==
  ASSUME ArchiveInv, stack # <<>>, Top.mode = "reading", NEW size \in Int
  PROVE  LET s == Counted(Top.scan, size) IN
         /\ s \in Scans /\ s.archives > 0 /\ s.archives <= allowed.archives
         /\ s.entries \in Nat /\ s.entries <= Room(Len(stack))
         /\ WithinLimits(s, size) =>
              Kept(s) /\ s.entries <= allowed.entries /\ s.bytes <= allowed.bytes
<1>1. /\ Kept(Top.scan) /\ Top.scan.entries \in Nat /\ Room(Len(stack)) \in Nat
      /\ Top.scan.entries < Room(Len(stack)) /\ Top.scan.archives <= allowed.archives
  BY TopIs, RoomIs DEF Standing, Frames, Scans, Kept, Innermost
<1>. DEFINE s == Counted(Top.scan, size)
<1>2. /\ s \in Scans /\ s.archives > 0 /\ s.archives = Top.scan.archives
      /\ s.entries = Top.scan.entries + 1 /\ (WithinLimits(s, size) => Kept(s))
  BY <1>1, CountedKeeps
<1>. HIDE DEF s
<1>3. s.entries \in Nat /\ s.entries <= Room(Len(stack)) /\ s.archives <= allowed.archives
  BY <1>1, <1>2
<1>4. WithinLimits(s, size) => s.entries <= allowed.entries /\ s.bytes <= allowed.bytes
  BY DEF WithinLimits
<1>. QED
  BY <1>2, <1>3, <1>4 DEF s

LEMMA ReadMemberKeeps == ASSUME ArchiveInv, ReadMember PROVE ArchiveInv' /\ stack' # <<>>
<1>1. PICK size \in Sizes, body \in Bodies(Top.format) :
        LET s == Counted(Top.scan, size)
            before == IF body = "privileged" THEN Hard(s) ELSE s IN
         \/ /\ ~WithinLimits(s, size)
            /\ SetTop([Top EXCEPT !.scan = Incomplete(Gap(Unread(s))), !.mode = "done"])
         \/ /\ WithinLimits(s, size) /\ body \in {"escape", "entry", "type"}
            /\ SetTop([Top EXCEPT !.scan = CASE body = "escape" -> Hard(s)
                                            [] body = "type"   -> Leaves(s, "type")
                                            [] body = "entry"  -> s,
                                  !.any = TRUE])
         \/ /\ WithinLimits(s, size) /\ body = "encrypted"
            /\ SetTop([Top EXCEPT !.scan = Gap(Unread(s)), !.any = TRUE])
         \/ /\ WithinLimits(s, size) /\ body \notin {"escape", "entry", "type", "encrypted"}
            /\ SetTop(Content(Top, before, Found(body, before)))
  BY Zenon DEF ReadMember
<1>2. stack # <<>> /\ Top.mode = "reading" /\ UNCHANGED <<allowed, report>> /\ size \in Int
  BY ArchiveConstants DEF ReadMember
<1>3. /\ Top \in Frames /\ Room(Len(stack)) \in Nat /\ Room(Len(stack)) > allowed.entries
      /\ allowed.entries \in Nat
  BY <1>2, TopIs, RoomIs DEF Standing
<1>. DEFINE s == Counted(Top.scan, size)
            before == IF body = "privileged" THEN Hard(s) ELSE s
<1>4. /\ s \in Scans /\ s.archives > 0 /\ s.archives <= allowed.archives
      /\ s.entries \in Nat /\ s.entries <= Room(Len(stack))
      /\ WithinLimits(s, size) => Kept(s) /\ s.entries <= allowed.entries
  BY <1>2, MemberIsCounted
<1>. HIDE DEF s
<1>7. CASE ~WithinLimits(s, size)
  <2>. DEFINE t == Incomplete(Gap(Unread(s)))
              f == [Top EXCEPT !.scan = t, !.mode = "done"]
  <2>1. Same(t, s)
    BY <1>4, UnreadKeeps, IncompleteKeeps DEF Same
  <2>2. SetTop(f)
    BY <1>1, <1>7 DEF s
  <2>. HIDE DEF t
  <2>3. t \in Scans /\ Kept(t) /\ t.entries = s.entries
    BY <2>1 DEF Same, Kept
  <2>4. f \in Frames /\ f.depth = Top.depth /\ f.scan = t /\ f.mode = "done"
    BY <1>3, <2>3 DEF Frames
  <2>. HIDE DEF f
  <2>5. Innermost(f, Len(stack))
    BY <1>4, <2>3, <2>4 DEF Innermost
  <2>. QED
    BY <1>2, <2>2, <2>3, <2>4, <2>5, GoesOn
<1>8. ASSUME WithinLimits(s, size), NEW t, Same(t, s),
             SetTop([Top EXCEPT !.scan = t, !.any = TRUE])
      PROVE  ArchiveInv' /\ stack' # <<>>
  <2>. DEFINE f == [Top EXCEPT !.scan = t, !.any = TRUE]
  <2>1. t \in Scans /\ Kept(t) /\ t.entries = s.entries /\ t.archives = s.archives
    BY <1>8 DEF Same, Kept
  <2>2. f \in Frames /\ f.depth = Top.depth /\ f.scan = t /\ f.any
    BY <1>3, <2>1 DEF Frames
  <2>3. SetTop(f)
    BY <1>8
  <2>. HIDE DEF f
  <2>4. Innermost(f, Len(stack))
    BY <1>3, <1>4, <1>8, <2>1, <2>2 DEF Innermost
  <2>. QED
    BY <1>2, <1>4, <2>1, <2>2, <2>3, <2>4, GoesOn
<1>9. CASE WithinLimits(s, size) /\ body \in {"escape", "entry", "type"}
  <2>. DEFINE t == CASE body = "escape" -> Hard(s)
                     [] body = "type"   -> Leaves(s, "type")
                     [] body = "entry"  -> s
  <2>1. Same(t, s)
    <3>1. Same(s, s) /\ Same(Hard(s), s)
      BY <1>4, <1>9, HardKeeps DEF Same
    <3>2. Same(Leaves(s, "type"), s)
      BY <1>4, <1>9, LeavesKeeps DEF ByDesign
    <3>. QED
      BY <1>9, <3>1, <3>2
  <2>2. SetTop([Top EXCEPT !.scan = t, !.any = TRUE])
    BY <1>1, <1>9 DEF s
  <2>. HIDE DEF t
  <2>. QED
    BY <1>8, <1>9, <2>1, <2>2
<1>10. CASE WithinLimits(s, size) /\ body = "encrypted"
  <2>1. Same(Gap(Unread(s)), s)
    BY <1>4, UnreadKeeps
  <2>2. SetTop([Top EXCEPT !.scan = Gap(Unread(s)), !.any = TRUE])
    BY <1>1, <1>10 DEF s
  <2>. QED
    BY <1>8, <1>10, <2>1, <2>2
<1>11. CASE WithinLimits(s, size) /\ body \notin {"escape", "entry", "type", "encrypted"}
  <2>1. SetTop(Content(Top, before, Found(body, before)))
    BY <1>1, <1>11 DEF s, before
  <2>. DEFINE after == Found(body, before)
  <2>2. Same(before, s)
    BY <1>4, <1>11, HardKeeps DEF Same
  <2>3. Same(after, s)
    <3>. HIDE DEF before
    <3>1. Same(Incomplete(Hard(before)), s)
      BY <2>2, HardKeeps, IncompleteKeeps DEF Same
    <3>2. Same(Incomplete(Gap(Unread(before))), s)
      BY <2>2, UnreadKeeps, IncompleteKeeps DEF Same, Kept
    <3>3. Same(Leaves(before, "binary"), s)
      BY <2>2, LeavesKeeps DEF Same, ByDesign
    <3>. QED
      BY <2>2, <3>1, <3>2, <3>3 DEF Found
  <2>. HIDE DEF after, before
  <2>4. /\ Kept(before) /\ before.entries <= allowed.entries /\ before.archives <= allowed.archives
        /\ Kept(after) /\ after.entries <= allowed.entries /\ after.archives <= allowed.archives
    BY <1>4, <1>11, <2>2, <2>3 DEF Same
  <2>5. SetTop(Content(Top, before, after))
    BY <2>1 DEF after
  <2>. QED
    BY <1>2, <2>4, <2>5, ContentKeeps
<1>. QED
  BY <1>1, <1>7, <1>9, <1>10, <1>11, Zenon DEF s

\* A reader that begins.
LEMMA FreshIs ==
  /\ Fresh \in Scans /\ Told(Fresh) /\ Fresh.entries = 0 /\ Fresh.bytes = 0 /\ Fresh.archives = 1
  /\ Fresh.met = 0 /\ Fresh.unread = {}
BY DEF Fresh, Scans, Told

LEMMA NewReader ==
  ASSUME NEW format \in Formats, NEW depth \in Nat, NEW n \in Nat \ {0},
         depth >= n - 1, n > 1 => depth < MaxArchiveDepth,
         allowed.entries \in Nat, allowed.bytes \in Nat, allowed.archives \in Nat \ {0}
  PROVE  LET f == scanArchive(format, depth) IN Standing(f, n) /\ f.scan.entries = 0
<1>. DEFINE f == NewFrame(format, depth)
            u == unsupportedArchive(Unread(f.scan))
<1>1. Fresh \in Scans /\ Kept(Fresh)
  BY FreshIs DEF Kept, InAllowance
<1>2. f \in Frames /\ f.depth = depth /\ f.mode = "reading" /\ f.scan = Fresh
  <2>. HIDE DEF Fresh
  <2>. QED
    BY <1>1 DEF NewFrame, Frames
<1>3. Standing(f, n) /\ f.scan.entries = 0
  BY <1>1, <1>2, FreshIs DEF Standing, Kept
<1>. HIDE DEF f
<1>4. u \in Scans /\ Kept(u) /\ u.entries = 0
  BY <1>1, <1>2, FreshIs, UnsupportedKeeps DEF Same, Kept
<1>. HIDE DEF u
<1>. DEFINE g == [f EXCEPT !.mode = "done", !.scan = u]
<1>5. g \in Frames /\ g.depth = depth /\ g.mode = "done" /\ g.scan = u
  BY <1>2, <1>4 DEF Frames
<1>6. scanArchive(format, depth) = IF format = "cpio" THEN g ELSE f
  BY DEF scanArchive, f, u
<1>. HIDE DEF g
<1>7. Standing(g, n) /\ g.scan.entries = 0
  BY <1>4, <1>5 DEF Standing, Kept
<1>. QED
  BY <1>3, <1>6, <1>7

\* The outermost reader begins with an allowance of its own.
LEMMA StartArchiveKeeps ==
  ASSUME NEW limits, limits.entries \in Nat, limits.bytes \in Nat, limits.archives \in Nat \ {0},
         limits.base \in Nat, StartArchive(limits)
  PROVE  ArchiveInv' /\ stack' # <<>>
<1>1. PICK format \in Formats, depth \in Nat : stack' = <<scanArchive(format, depth)>>
  BY DEF StartArchive
<1>2. allowed' = limits /\ report' = NoReport
  BY DEF StartArchive
<1>. DEFINE u == unsupportedArchive(Unread(Fresh))
<1>3. /\ u \in Scans /\ u.entries = 0 /\ u.archives = 1 /\ Told(u) /\ u.coverage # 0
  <2>1. /\ Unread(Fresh) \in Scans /\ Unread(Fresh).entries = 0 /\ Unread(Fresh).archives = 1
        /\ Unread(Fresh).coverage = 0
    BY FreshIs, LeavesIs DEF Unread, Fresh
  <2>. DEFINE t == [Unread(Fresh) EXCEPT !.supported = FALSE, !.complete = FALSE]
  <2>2. t \in Scans /\ t.entries = 0 /\ t.archives = 1 /\ t.coverage = 0
    BY <2>1 DEF Scans
  <2>3. u = Gap(t)
    BY DEF unsupportedArchive
  <2>. HIDE DEF t, u
  <2>4. Gap(t).coverage = 1
    BY <2>2 DEF Gap, Scans
  <2>. QED
    BY <2>2, <2>3, <2>4, GapIs
<1>4. /\ scanArchive(format, depth).scan \in {Fresh, u}
      /\ scanArchive(format, depth) \in Frames /\ scanArchive(format, depth).mode # "failed"
      /\ scanArchive(format, depth).mode = "reading" => scanArchive(format, depth).scan = Fresh
  <2>. DEFINE g == NewFrame(format, depth)
              h == [g EXCEPT !.mode = "done", !.scan = u]
  <2>1. g \in Frames /\ g.scan = Fresh /\ g.mode = "reading"
    BY FreshIs DEF NewFrame, Frames
  <2>2. scanArchive(format, depth) = IF format = "cpio" THEN h ELSE g
    BY <2>1 DEF scanArchive
  <2>. HIDE DEF u, g
  <2>3. h \in Frames /\ h.scan = u /\ h.mode = "done"
    BY <1>3, <2>1 DEF Frames
  <2>. HIDE DEF h
  <2>. QED
    BY <2>1, <2>2, <2>3
<1>. HIDE DEF u
<1>5. PICK f : /\ stack' = <<f>> /\ f.scan \in {Fresh, u} /\ f \in Frames
               /\ f.mode # "failed" /\ (f.mode = "reading" => f.scan = Fresh)
  BY <1>1, <1>4
<1>6. f.scan.archives = 1 /\ f.scan.entries = 0 /\ Told(f.scan)
  BY <1>3, <1>5, FreshIs
<1>7. InAllowance(f.scan)'
  BY <1>2, <1>3, <1>5, FreshIs DEF InAllowance
<1>8. Standing(f, 1)'
  BY <1>2, <1>5, <1>6, <1>7, FreshIs DEF Standing, Frames
<1>. PICK st : st = <<f>>
  OBVIOUS
<1>9. st \in Seq(Frames) /\ Len(st) = 1 /\ st[1] = f
  BY <1>5
<1>10. stack' = st
  BY <1>5
<1>11. Room(1)' \in Nat /\ Room(1)' > 0
  <2>. DEFINE x == limits.entries + 1
  <2>1. x \in Nat /\ x > 0 /\ MaxArchiveDepth \in Nat /\ MaxArchiveDepth > 0
    BY ArchiveConstants
  <2>2. Room(1)' = MaxArchiveDepth * x
    BY <1>2, <2>1 DEF Room
  <2>. HIDE DEF x
  <2>. QED
    BY <2>1, <2>2
<1>12. Innermost(f, 1)'
  BY <1>6, <1>11 DEF Innermost
<1>13. DOMAIN st = {1} /\ st # <<>>
  BY <1>9, LenProperties, EmptySeq
<1>14. NoReport \in Scans /\ Told(NoReport)
  BY DEF NoReport, Fresh, Scans, Told
<1>15. (\A n \in DOMAIN stack : Standing(stack[n], n)
          /\ IF n < Len(stack) THEN Waiting(stack[n]) ELSE Innermost(stack[n], n))'
  BY <1>8, <1>9, <1>10, <1>12, <1>13
<1>. QED
  BY <1>2, <1>9, <1>10, <1>13, <1>14, <1>15 DEF ArchiveInv

\* A reader that leaves the list of its members, or cannot go on.
LEMMA StopsKeeps ==
  ASSUME ArchiveInv, stack # <<>>, NEW mode \in {"done", "failed"},
         Top.mode = "reading", SetTop([Top EXCEPT !.mode = mode]), UNCHANGED <<allowed, report>>
  PROVE  ArchiveInv' /\ stack' # <<>>
<1>. DEFINE f == [Top EXCEPT !.mode = mode]
<1>1. Top \in Frames /\ Standing(Top, Len(stack)) /\ Innermost(Top, Len(stack))
  BY TopIs DEF Standing
<1>2. f \in Frames /\ f.depth = Top.depth /\ f.scan = Top.scan /\ f.any = Top.any /\ f.mode = mode
  BY <1>1 DEF Frames
<1>3. SetTop(f)
  OBVIOUS
<1>. HIDE DEF f
<1>4. /\ f.mode # "reading"
      /\ f.mode \in {"reading", "failed"} /\ ~f.any => f.scan.met = 0 /\ f.scan.unread = {}
  BY <1>1, <1>2 DEF Standing
<1>5. Innermost(f, Len(stack)) /\ Kept(f.scan)
  BY <1>1, <1>2 DEF Innermost, Standing, Kept, Frames
<1>. QED
  BY <1>2, <1>3, <1>4, <1>5, GoesOn

LEMMA EndKeeps == ASSUME ArchiveInv, EndOfMembers \/ BreaksOff PROVE ArchiveInv' /\ stack' # <<>>
<1>1. /\ stack # <<>> /\ Top.mode = "reading" /\ UNCHANGED <<allowed, report>>
      /\ \/ SetTop([Top EXCEPT !.mode = "done"])
         \/ SetTop([Top EXCEPT !.mode = "failed"])
  BY Zenon DEF EndOfMembers, BreaksOff
<1>. QED
  BY <1>1, StopsKeeps

LEMMA FallbackKeeps == ASSUME ArchiveInv, Fallback PROVE ArchiveInv' /\ stack' # <<>>
<1>1. stack # <<>> /\ Top.mode = "failed" /\ UNCHANGED <<allowed, report>>
  BY DEF Fallback
<1>2. /\ Top \in Frames /\ Kept(Top.scan) /\ Top.scan \in Scans /\ Innermost(Top, Len(stack))
      /\ Room(Len(stack)) \in Nat /\ Room(Len(stack)) > allowed.entries /\ allowed.entries \in Nat
      /\ allowed.bytes \in Nat /\ allowed.archives \in Nat \ {0}
  BY <1>1, TopIs, RoomIs DEF Standing, Kept, Frames
<1>3. CASE Top.format \in Compressed
  <2>. DEFINE t == [Fresh EXCEPT !.entries = 1, !.met = Top.scan.met,
                                 !.unread = Top.scan.unread, !.redone = Top.any]
              f == [Top EXCEPT !.mode = "stream", !.scan = t]
  <2>0. /\ Top.any \in BOOLEAN /\ Top.scan.unread \in SUBSET (ByDesign \cup {"gap"})
        /\ Top.scan.met \in Nat
    BY <1>2 DEF Frames, Scans
  <2>1. /\ t \in Scans /\ t.entries = 1 /\ t.archives = 1 /\ t.hard = 0 /\ t.met = Top.scan.met
        /\ t.bytes = 0
    BY <2>0 DEF Fresh, Scans
  <2>2. t.unread = Top.scan.unread /\ t.redone = Top.any
    BY <2>0 DEF Fresh
  <2>3. SetTop(f)
    BY <1>1, <1>3 DEF Fallback
  <2>. HIDE DEF t
  <2>4. f \in Frames /\ f.depth = Top.depth /\ f.scan = t /\ f.mode = "stream"
    BY <1>2, <2>1 DEF Frames
  <2>. HIDE DEF f
  <2>5. Top.any \/ (Top.scan.met = 0 /\ Top.scan.unread = {})
    BY <1>1, TopIs DEF Standing
  <2>6. Told(t)
    <3>1. CASE Top.any
      BY <2>2, <3>1, Zenon DEF Told
    <3>2. CASE ~Top.any
      <4>1. t.met = 0 /\ t.hard = 0
        BY <2>1, <2>5, <3>2
      <4>2. "gap" \notin t.unread
        BY <2>2, <2>5, <3>2
      <4>. QED
        BY <4>1, <4>2 DEF Told
    <3>. QED
      BY <3>1, <3>2
  <2>7. Kept(t) /\ Innermost(f, Len(stack))
    BY <1>2, <2>1, <2>4, <2>6 DEF Kept, Innermost, InAllowance
  <2>. QED
    BY <1>1, <2>3, <2>4, <2>7, GoesOn
<1>4. CASE Top.format \notin Compressed
  <2>. DEFINE t == unsupportedArchive(Unread(Top.scan))
              f == [Top EXCEPT !.mode = "done", !.scan = t]
  <2>1. SetTop(f)
    BY <1>1, <1>4 DEF Fallback
  <2>2. t \in Scans /\ Kept(t) /\ t.entries = Top.scan.entries
    BY <1>2, UnsupportedKeeps DEF Same, Kept
  <2>. HIDE DEF t
  <2>3. f \in Frames /\ f.depth = Top.depth /\ f.scan = t /\ f.mode = "done"
    BY <1>2, <2>2 DEF Frames
  <2>. HIDE DEF f
  <2>4. Innermost(f, Len(stack))
    BY <1>2, <2>2, <2>3 DEF Innermost
  <2>. QED
    BY <1>1, <2>1, <2>2, <2>3, <2>4, GoesOn
<1>. QED
  BY <1>3, <1>4

LEMMA BytesKeep ==
  ASSUME NEW s, Kept(s), NEW n \in Nat, n <= allowed.bytes
  PROVE  Same([s EXCEPT !.bytes = n], s)
<1>1. s \in Scans /\ [s EXCEPT !.bytes = n] \in Scans
  BY DEF Kept, Scans
<1>. QED
  BY <1>1 DEF Kept, Same, Scans, Told, InAllowance

LEMMA StreamKeeps ==
  ASSUME ArchiveInv, scanCompressedStream
  PROVE  ArchiveInv' /\ stack' # <<>>
<1>1. stack # <<>> /\ Top.mode = "stream" /\ UNCHANGED <<allowed, report>>
  BY DEF scanCompressedStream
<1>2. /\ Top \in Frames /\ Kept(Top.scan) /\ Top.scan.entries \in Nat
      /\ Innermost(Top, Len(stack)) /\ allowed.bytes \in Nat
  BY <1>1, TopIs DEF Standing, Kept, Frames, Scans
<1>. DEFINE s == Top.scan
            refused == unsupportedArchive(Unread(s))
            Read(t, n) == IF n > allowed.bytes
                          THEN unsupportedArchive(Unread([t EXCEPT !.bytes = n]))
                          ELSE [t EXCEPT !.bytes = n]
<1>3. PICK t \in {refused, Read(Hard(s), 1)}
                   \cup {Read(s, n) : n \in 0 .. allowed.bytes + 1}
                   \cup {Read(Leaves(s, "binary"), n) : n \in 0 .. allowed.bytes + 1}
                   \cup {Incomplete(Hard(s)), Read(Incomplete(Hard(s)), 1),
                         Incomplete(Gap(Unread(Read(s, 1))))} :
        SetTop([Top EXCEPT !.mode = "done", !.scan = t])
  BY Zenon DEF scanCompressedStream
<1>. HIDE DEF s
<1>4. Kept(s)
  BY <1>2 DEF s
<1>5. ASSUME NEW u, Kept(u), NEW n \in Nat PROVE Same(Read(u, n), u)
  <2>. DEFINE v == [u EXCEPT !.bytes = n]
  <2>1. v \in Scans /\ v.archives > 0 /\ v.archives = u.archives /\ v.entries = u.entries
    BY <1>5 DEF Kept, Scans
  <2>2. n <= allowed.bytes => Same(v, u)
    BY <1>5, BytesKeep
  <2>. HIDE DEF v
  <2>3. Same(unsupportedArchive(Unread(v)), v)
    BY <2>1, UnsupportedKeeps
  <2>4. Read(u, n) = IF n > allowed.bytes THEN unsupportedArchive(Unread(v)) ELSE v
    BY DEF v
  <2>. HIDE DEF Read
  <2>5. CASE n > allowed.bytes
    BY <2>1, <2>3, <2>4, <2>5 DEF Same
  <2>6. CASE ~(n > allowed.bytes)
    <3>1. n <= allowed.bytes
      BY <1>2, <1>5, <2>6
    <3>. QED
      BY <2>2, <2>4, <2>6, <3>1
  <2>. QED
    BY <2>5, <2>6
<1>6. Same(Hard(s), s) /\ Same(Incomplete(Hard(s)), s)
  BY <1>4, HardKeeps, IncompleteKeeps DEF Same
<1>. HIDE DEF Read
<1>7. Same(Read(Hard(s), 1), s) /\ Same(Read(Incomplete(Hard(s)), 1), s) /\ Same(Read(s, 1), s)
  BY <1>4, <1>5, <1>6 DEF Same
<1>8. ASSUME NEW u \in {s, Leaves(s, "binary")}, NEW n \in 0 .. allowed.bytes + 1
      PROVE  Same(Read(u, n), s)
  <2>1. Same(s, s) /\ Same(Leaves(s, "binary"), s)
    BY <1>4, LeavesKeeps DEF Same, ByDesign
  <2>2. Same(u, s) /\ n \in Nat
    BY <1>2, <2>1
  <2>. QED
    BY <1>5, <2>2 DEF Same
<1>9. Same(Incomplete(Gap(Unread(Read(s, 1)))), s) /\ Same(refused, s)
  BY <1>4, <1>7, UnreadKeeps, IncompleteKeeps, UnsupportedKeeps DEF Same, Kept
<1>. HIDE DEF refused
<1>10. Same(t, s)
  BY <1>3, <1>6, <1>7, <1>8, <1>9
<1>. DEFINE f == [Top EXCEPT !.mode = "done", !.scan = t]
<1>11. t \in Scans /\ Kept(t) /\ t.entries = Top.scan.entries
  BY <1>10 DEF Same, Kept, s
<1>12. f \in Frames /\ f.depth = Top.depth /\ f.scan = t /\ f.mode = "done"
  BY <1>2, <1>11 DEF Frames
<1>13. SetTop(f)
  BY <1>3
<1>. HIDE DEF f
<1>14. Innermost(f, Len(stack))
  BY <1>2, <1>11, <1>12 DEF Innermost
<1>. QED
  BY <1>1, <1>11, <1>12, <1>13, <1>14, GoesOn

LEMMA OpenNestedKeeps == ASSUME ArchiveInv, OpenNested PROVE ArchiveInv' /\ stack' # <<>>
<1>1. stack # <<>> /\ Top.mode = "reading" /\ UNCHANGED <<allowed, report>>
  BY DEF OpenNested
<1>. DEFINE n == Len(stack)
            below == Top.depth + 1
<1>2. PICK size \in Sizes :
        LET s == Counted(Top.scan, size) IN
        /\ WithinLimits(s, size)
        /\ \/ SetTop(Content(Top, s, Leaves(s, "policy")))
           \/ SetTop(Content(Top, s, Incomplete(Gap(Unread(s)))))
           \/ /\ ~(below >= MaxArchiveDepth)
              /\ \E format \in Formats :
                  stack' = Append(ReplaceAt(stack, n, [Top EXCEPT !.scan = s, !.any = TRUE]),
                                  scanArchive(format, below))
  BY Zenon DEF OpenNested
<1>3. /\ Top \in Frames /\ n \in 1 .. MaxArchiveDepth /\ Top.depth \in Nat
      /\ Standing(Top, n) /\ allowed.entries \in Nat /\ allowed.bytes \in Nat
      /\ allowed.archives \in Nat \ {0} /\ report = NoReport /\ stack \in Seq(Frames)
  BY <1>1, TopIs DEF Standing, Frames
<1>. DEFINE s == Counted(Top.scan, size)
<1>4. /\ Kept(s) /\ s.entries \in Nat /\ s.entries <= allowed.entries
      /\ s.bytes <= allowed.bytes /\ s.archives <= allowed.archives
  BY <1>1, <1>2, MemberIsCounted, ArchiveConstants
<1>. HIDE DEF s
<1>5. CASE SetTop(Content(Top, s, Leaves(s, "policy")))
  <2>1. Same(Leaves(s, "policy"), s)
    BY <1>4, LeavesKeeps DEF ByDesign
  <2>. DEFINE t == Leaves(s, "policy")
  <2>2. SetTop(Content(Top, s, t)) /\ Same(t, s)
    BY <1>5, <2>1
  <2>. HIDE DEF t
  <2>. QED
    BY <1>1, <1>4, <2>2, ContentKeeps DEF Same
<1>6. CASE SetTop(Content(Top, s, Incomplete(Gap(Unread(s)))))
  <2>. DEFINE t == Incomplete(Gap(Unread(s)))
  <2>1. Kept(t) /\ t.entries = s.entries /\ t.archives = s.archives
    BY <1>4, UnreadKeeps, IncompleteKeeps DEF Same, Kept
  <2>2. SetTop(Content(Top, s, t))
    BY <1>6
  <2>. HIDE DEF t
  <2>. QED
    BY <1>1, <1>4, <2>1, <2>2, ContentKeeps
<1>7. ASSUME ~(below >= MaxArchiveDepth), NEW format \in Formats,
             stack' = Append(ReplaceAt(stack, n, [Top EXCEPT !.scan = s, !.any = TRUE]),
                             scanArchive(format, below))
      PROVE  ArchiveInv' /\ stack' # <<>>
  <2>. DEFINE g == [Top EXCEPT !.scan = s, !.any = TRUE]
              h == scanArchive(format, below)
              old == [stack EXCEPT ![n] = g]
              st == Append(old, h)
  <2>1. below \in Nat /\ below >= n /\ n \in Nat \ {0} /\ n + 1 \in 1 .. MaxArchiveDepth
    BY <1>3, <1>7, ArchiveConstants DEF Standing
  <2>2. Standing(h, n + 1) /\ h.scan.entries = 0
    <3>. HIDE DEF below, n
    <3>1. below >= (n + 1) - 1 /\ (n + 1 > 1 => below < MaxArchiveDepth) /\ n + 1 \in Nat \ {0}
      BY <1>7, <2>1, ArchiveConstants
    <3>. QED
      BY <1>3, <2>1, <3>1, NewReader
  <2>3. g \in Frames /\ g.depth = Top.depth /\ g.scan = s /\ g.any /\ g.mode = "reading"
    <3>1. s \in Scans
      BY <1>4 DEF Kept
    <3>. QED
      BY <1>1, <1>3, <3>1 DEF Frames
  <2>4. stack' = st
    BY <1>7 DEF ReplaceAt
  <2>. HIDE DEF g, h
  <2>5. Standing(g, n) /\ Waiting(g)
    BY <1>3, <1>4, <2>3 DEF Standing, Kept, Waiting
  <2>6. n \in 1 .. Len(stack) /\ Len(stack) = n
    BY <1>3
  <2>. HIDE DEF n, below
  <2>7. /\ old \in Seq(Frames) /\ Len(old) = n
        /\ \A j \in 1 .. n : old[j] = IF j = n THEN g ELSE stack[j]
    <3>1. /\ old \in Seq(Frames) /\ Len(old) = Len(stack)
          /\ \A j \in 1 .. Len(stack) : old[j] = IF j = n THEN g ELSE stack[j]
      BY <1>3, <2>3, <2>6, ExceptSeq
    <3>. QED
      BY <2>6, <3>1
  <2>. HIDE DEF old
  <2>8. h \in Frames
    BY <2>2 DEF Standing
  <2>9. /\ st \in Seq(Frames) /\ st # <<>> /\ Len(st) = n + 1 /\ st[n + 1] = h
        /\ \A j \in 1 .. n : st[j] = old[j]
    <3>1. /\ st \in Seq(Frames) /\ st # <<>> /\ Len(st) = Len(old) + 1 /\ st[Len(old) + 1] = h
          /\ \A j \in 1 .. Len(old) : st[j] = old[j]
      BY <2>7, <2>8, AppendProperties
    <3>. QED
      BY <2>7, <3>1
  <2>. HIDE DEF st
  <2>10. ASSUME NEW i \in 1 .. (n + 1) - 1 PROVE Standing(st[i], i) /\ Waiting(st[i])
    <3>1. i \in 1 .. n
      BY <2>1
    <3>2. CASE i = n
      BY <2>5, <2>7, <2>9, <3>1, <3>2
    <3>3. CASE i # n
      <4>1. st[i] = stack[i]
        BY <2>7, <2>9, <3>1, <3>3
      <4>2. i \in DOMAIN stack /\ i < Len(stack)
        BY <1>3, <2>1, <2>6, <3>1, <3>3
      <4>. QED
        BY <4>1, <4>2, Zenon DEF ArchiveInv
    <3>. QED
      BY <3>2, <3>3
  <2>11. Innermost(h, n + 1)
    <3>1. Room(n + 1) \in Nat /\ Room(n + 1) > allowed.entries
      BY <1>3, <2>1, RoomIs
    <3>. QED
      BY <1>3, <2>2, <3>1 DEF Innermost
  <2>12. UNCHANGED allowed /\ report' = NoReport /\ n + 1 \in Nat \ {0}
    BY <1>1, <1>3, <2>1
  <2>13. stack' # <<>>
    BY <2>4, <2>9
  <2>14. Standing(st[n + 1], n + 1) /\ Innermost(st[n + 1], n + 1)
    BY <2>2, <2>9, <2>11
  <2>. QED
    BY <1>3, <2>4, <2>9, <2>10, <2>12, <2>13, <2>14, NewTop
<1>. QED
  BY <1>2, <1>5, <1>6, <1>7, Zenon DEF s

LEMMA ReturnNestedKeeps == ASSUME ArchiveInv, ReturnNested PROVE ArchiveInv' /\ stack' # <<>>
<1>. DEFINE n == Len(stack)
            outer == stack[n - 1]
            merged == Merged(outer.scan, Top.scan)
            s == Aggregate(merged)
            mode == IF OverBudget(s) THEN "failed" ELSE "reading"
            f == [outer EXCEPT !.scan = s, !.mode = mode]
            kept == SubSeq(stack, 1, n - 2)
            st == Append(kept, f)
<1>1. n > 1 /\ Top.mode = "done" /\ UNCHANGED <<allowed, report>> /\ stack' = st
  BY DEF ReturnNested
<1>2. stack # <<>>
  BY <1>1, EmptySeq
<1>3. /\ stack \in Seq(Frames) /\ n \in 1 .. MaxArchiveDepth /\ Top = stack[n]
      /\ Standing(Top, n) /\ Innermost(Top, n) /\ allowed.entries \in Nat /\ allowed.bytes \in Nat
      /\ allowed.archives \in Nat \ {0} /\ report = NoReport /\ DOMAIN stack = 1 .. n
  BY <1>2, TopIs, LenProperties
<1>4. \A i \in 1 .. n - 1 : Standing(stack[i], i) /\ Waiting(stack[i])
  <2>. SUFFICES ASSUME NEW i \in 1 .. n - 1 PROVE Standing(stack[i], i) /\ Waiting(stack[i])
    OBVIOUS
  <2>1. i \in DOMAIN stack /\ i < Len(stack)
    BY <1>3
  <2>. QED
    BY <2>1, Zenon DEF ArchiveInv
<1>5. n - 1 \in 1 .. n - 1 /\ n - 1 \in 1 .. MaxArchiveDepth /\ n - 1 < MaxArchiveDepth
      /\ (n - 1) + 1 = n /\ n - 1 \in Nat \ {0}
  BY <1>1, <1>3, ArchiveConstants
<1>6. Standing(outer, n - 1) /\ Waiting(outer)
  BY <1>4, <1>5, Zenon
<1>7. outer \in Frames /\ Kept(outer.scan) /\ Kept(Top.scan) /\ outer.any /\ outer.depth \in Nat
  BY <1>3, <1>6 DEF Standing, Waiting, Kept, Frames
<1>8. Kept(s) /\ s.entries = outer.scan.entries + Top.scan.entries
  <2>. HIDE DEF outer
  <2>. QED
    BY <1>3, <1>7, AggregateKeeps
<1>9. s.entries < Room(n - 1)
  <2>1. /\ outer.scan.entries \in Nat /\ Top.scan.entries \in Nat
        /\ outer.scan.entries <= allowed.entries /\ Top.scan.entries <= Room(n)
    BY <1>3, <1>6, <1>7 DEF Waiting, Innermost, Kept, Scans
  <2>2. Room(n - 1) = Room(n) + allowed.entries + 1 /\ Room(n) \in Nat
    BY <1>3, <1>5, RoomIs
  <2>. HIDE DEF n, s, outer
  <2>. QED
    BY <1>3, <1>8, <2>1, <2>2
<1>10. mode \in {"reading", "failed"} /\ (mode = "reading" => ~(s.archives > allowed.archives))
  BY DEF OverBudget
<1>11. s \in Scans /\ s.entries \in Nat /\ s.archives \in Nat /\ Room(n - 1) \in Nat
  BY <1>3, <1>5, <1>8, RoomIs DEF Kept, Scans
<1>. HIDE DEF s, mode, outer, merged
<1>12. f \in Frames /\ f.depth = outer.depth /\ f.any /\ f.scan = s /\ f.mode = mode
  BY <1>7, <1>10, <1>11 DEF Frames
<1>. HIDE DEF f
<1>13. Standing(f, n - 1) /\ Innermost(f, n - 1)
  <2>1. f.mode = "reading" => f.scan.archives <= allowed.archives
    BY <1>3, <1>10, <1>11, <1>12
  <2>. QED
    BY <1>6, <1>8, <1>9, <1>11, <1>12, <2>1 DEF Standing, Kept, Innermost
<1>14. /\ kept \in Seq(Frames) /\ Len(kept) = (n - 1) - 1
       /\ \A i \in 1 .. (n - 1) - 1 : kept[i] = stack[i]
  <2>1. n - 2 \in Int /\ 1 \in Int /\ \A i \in 1 .. n - 2 : stack[i] \in Frames
    BY <1>3
  <2>2. /\ kept \in Seq(Frames) /\ Len(kept) = IF 1 <= n - 2 THEN n - 2 - 1 + 1 ELSE 0
        /\ \A i \in 1 .. n - 2 - 1 + 1 : kept[i] = stack[1 + i - 1]
    <3>. HIDE DEF n
    <3>. QED
      BY <2>1, SubSeqProperties
  <2>3. n \in Nat /\ n > 1
    BY <1>1, <1>3, ArchiveConstants
  <2>. HIDE DEF kept, n
  <2>4. Len(kept) = (n - 1) - 1
    BY <2>2, <2>3
  <2>5. ASSUME NEW i \in 1 .. (n - 1) - 1 PROVE kept[i] = stack[i]
    <3>1. i \in 1 .. n - 2 - 1 + 1 /\ 1 + i - 1 = i
      BY <2>3
    <3>. QED
      BY <2>2, <3>1
  <2>. QED
    BY <2>2, <2>4, <2>5
<1>. HIDE DEF kept
<1>15. /\ st \in Seq(Frames) /\ st # <<>> /\ Len(st) = Len(kept) + 1 /\ st[Len(kept) + 1] = f
       /\ \A j \in 1 .. Len(kept) : st[j] = kept[j]
  BY <1>12, <1>14, AppendProperties
<1>. HIDE DEF st
<1>16. /\ Len(st) = n - 1 /\ st[n - 1] = f
       /\ \A i \in 1 .. (n - 1) - 1 : st[i] = stack[i]
  BY <1>3, <1>14, <1>15
<1>17. \A i \in 1 .. (n - 1) - 1 : Standing(st[i], i) /\ Waiting(st[i])
  <2>. SUFFICES ASSUME NEW i \in 1 .. (n - 1) - 1 PROVE Standing(st[i], i) /\ Waiting(st[i])
    OBVIOUS
  <2>1. i \in 1 .. n - 1 /\ st[i] = stack[i]
    BY <1>3, <1>16
  <2>. QED
    BY <1>4, <2>1
<1>18. UNCHANGED allowed /\ report' = NoReport /\ stack' # <<>>
  BY <1>1, <1>3, <1>15
<1>. HIDE DEF n
<1>. QED
  BY <1>1, <1>3, <1>5, <1>13, <1>15, <1>16, <1>17, <1>18, NewTop

LEMMA ReturnArchiveKeeps ==
  ASSUME ArchiveInv, ReturnArchive
  PROVE  ArchiveInv' /\ report' # NoReport
<1>1. Len(stack) = 1 /\ report' = Top.scan /\ stack' = <<>>
  BY DEF ReturnArchive
<1>2. stack # <<>>
  BY <1>1, EmptySeq
<1>3. Top.scan \in Scans /\ Told(Top.scan) /\ Top.scan.archives > 0 /\ InAllowance(Top.scan)
  BY <1>2, TopIs DEF Standing, Frames
<1>6. InAllowance(report)'
  BY <1>1, <1>3 DEF InAllowance, ReturnArchive
<1>4. NoReport.archives = 0
  BY DEF NoReport, Fresh
<1>5. <<>> \in Seq(Frames) /\ DOMAIN <<>> = {}
  BY EmptySeq
<1>. QED
  BY <1>1, <1>3, <1>4, <1>5, <1>6 DEF ArchiveInv

\* A step of a reader leaves a reader at work, or the report of the outermost.
LEMMA ArchiveStepKeeps ==
  ASSUME ArchiveInv, ArchiveStep
  PROVE  ArchiveInv' /\ UNCHANGED allowed /\ stack # <<>> /\ (stack' # <<>> \/ report' # NoReport)
<1>1. ArchiveInv' /\ (stack' # <<>> \/ report' # NoReport)
  BY ReadMemberKeeps, OpenNestedKeeps, EndKeeps, FallbackKeeps, StreamKeeps,
     ReturnNestedKeeps, ReturnArchiveKeeps, Zenon DEF ArchiveStep
<1>2. UNCHANGED allowed
  BY DEF ArchiveStep, ReadMember, OpenNested, EndOfMembers, BreaksOff, Fallback,
         scanCompressedStream, ReturnNested, ReturnArchive
<1>3. stack # <<>>
  <2>1. (Len(stack) > 1 \/ Len(stack) = 1) => stack # <<>>
    BY EmptySeq
  <2>. QED
    BY <2>1 DEF ArchiveStep, ReadMember, OpenNested, EndOfMembers, BreaksOff, Fallback,
         scanCompressedStream, ReturnNested, ReturnArchive
<1>. QED
  BY <1>1, <1>2, <1>3

\* A step that leaves the readers alone.
LEMMA ArchiveIdles == ASSUME ArchiveInv, UNCHANGED archiveVars PROVE ArchiveInv'
BY DEF ArchiveInv, archiveVars, Waiting, Innermost, Room, Standing, InAllowance

\* The members all readers at work have counted: those that wait at most what is
\* allowed, the innermost at most what room there is for it.
LEMMA EntriesAreShared ==
  ASSUME ArchiveInv, stack # <<>>
  PROVE  FoldLeft(LAMBDA n, f : n + f.scan.entries, 0, stack)
           <= MaxArchiveDepth * (allowed.entries + 1)
<1>. DEFINE n == Len(stack)
            x == allowed.entries + 1
            e(i) == stack[i].scan.entries
            most(k) == IF k < n THEN k * x ELSE MaxArchiveDepth * x
            W == [k \in 0 .. n |-> {m \in Nat : m <= most(k)}]
            adds == [y \in Nat \X (1 .. n) |-> y[1] + stack[y[2]].scan.entries]
            Iter(g) == g = [s \in SUBSET (DOMAIN stack) |->
                              IF s = {} THEN 0
                              ELSE g[s \ {Max(s)}] + stack[Max(s)].scan.entries]
            g == CHOOSE f : Iter(f)
<1>1. /\ stack \in Seq(Frames) /\ n \in 1 .. MaxArchiveDepth /\ n \in Nat /\ DOMAIN stack = 1 .. n
      /\ x \in Nat /\ x > 0 /\ allowed.entries \in Nat /\ MaxArchiveDepth \in Nat
  BY TopIs, LenProperties, ArchiveConstants
<1>2. \A i \in 1 .. n : e(i) \in Nat
  <2>. SUFFICES ASSUME NEW i \in 1 .. n PROVE e(i) \in Nat
    OBVIOUS
  <2>1. stack[i] \in Frames
    BY <1>1
  <2>. QED
    BY <2>1 DEF Frames, Scans
<1>3. \A i \in 1 .. n : i < n => e(i) < x
  <2>. SUFFICES ASSUME NEW i \in 1 .. n, i < n PROVE e(i) < x
    OBVIOUS
  <2>1. Waiting(stack[i])
    <3>1. i \in DOMAIN stack /\ i < Len(stack)
      BY <1>1
    <3>. QED
      BY <3>1, Zenon DEF ArchiveInv
  <2>2. e(i) \in Nat /\ e(i) <= allowed.entries
    BY <1>2, <2>1 DEF Waiting
  <2>. HIDE DEF e
  <2>. QED
    BY <1>1, <2>2
<1>4. (n - 1) * x + e(n) <= MaxArchiveDepth * x
  <2>1. e(n) <= (MaxArchiveDepth - n + 1) * x /\ e(n) \in Nat
    <3>1. e(n) <= Room(n) /\ n \in 1 .. n
      BY <1>1, TopIs DEF Innermost
    <3>. QED
      BY <1>2, <3>1 DEF Room
  <2>. HIDE DEF x, n, e
  <2>2. (n - 1) * x + (MaxArchiveDepth - n + 1) * x = MaxArchiveDepth * x
    BY <1>1
  <2>3. (n - 1) * x \in Int /\ (MaxArchiveDepth - n + 1) * x \in Int /\ MaxArchiveDepth * x \in Int
    BY <1>1
  <2>. QED
    BY <2>1, <2>2, <2>3
<1>5. \A k \in 1 .. n : \A m \in Nat : m <= most(k - 1) => m + e(k) <= most(k)
  <2>. SUFFICES ASSUME NEW k \in 1 .. n, NEW m \in Nat, m <= most(k - 1)
                PROVE  m + e(k) <= most(k)
    OBVIOUS
  <2>1. e(k) \in Nat /\ (k < n => e(k) < x)
    BY <1>2, <1>3
  <2>. HIDE DEF e, n
  <2>2. m <= (k - 1) * x
    BY <1>1
  <2>. HIDE DEF x
  <2>3. (k - 1) * x + x = k * x /\ (k - 1) * x \in Nat
    BY <1>1
  <2>. QED
    BY <1>1, <1>4, <2>1, <2>2, <2>3
<1>6. adds \in [Nat \X (1 .. n) -> Nat]
  BY <1>2
<1>7. PICK h : FoldsTo(n, Nat, 0, adds, h)
  <2>. HIDE DEF adds, n
  <2>. QED
    BY <1>1, <1>6, FoldExists
<1>8. Iter(h)
  <2>1. ASSUME NEW s \in SUBSET (1 .. n)
        PROVE  h[s] = IF s = {} THEN 0 ELSE h[s \ {Max(s)}] + stack[Max(s)].scan.entries
    <3>1. CASE s = {}
      BY <1>7, <3>1 DEF FoldsTo
    <3>2. CASE s # {}
      <4>1. Max(s) \in 1 .. n
        BY <1>1, <3>2, MaxExists
      <4>2. h[s \ {Max(s)}] \in Nat
        BY <1>7 DEF FoldsTo
      <4>. HIDE DEF n
      <4>. QED
        BY <1>7, <3>2, <4>1, <4>2 DEF FoldsTo
    <3>. QED
      BY <3>1, <3>2
  <2>. HIDE DEF n
  <2>. QED
    BY <1>1, <1>7, <2>1 DEF FoldsTo
<1>9. Iter(g)
  <2>. HIDE DEF Iter
  <2>. QED
    BY <1>8, Zenon
<1>10. FoldLeft(LAMBDA k, f : k + f.scan.entries, 0, stack) = g[DOMAIN stack]
  BY Zenon DEF FoldLeft, MapThenFoldSet
<1>11. g[1 .. n] = h[1 .. n]
  <2>. HIDE DEF g, n
  <2>1. g[{}] = h[{}]
    BY <1>8, <1>9
  <2>2. ASSUME NEW s \in SUBSET (1 .. n), s # {}, g[s \ {Max(s)}] = h[s \ {Max(s)}]
        PROVE  g[s] = h[s]
    BY <1>1, <1>8, <1>9, <2>2
  <2>. QED
    BY <1>1, <2>1, <2>2, SameFold
<1>12. 0 \in W[0]
  <2>. HIDE DEF n, x
  <2>1. 0 \in 0 .. n /\ most(0) = 0 * x /\ 0 * x = 0
    BY <1>1
  <2>. QED
    BY <2>1
<1>13. \A k \in 1 .. n : \A m \in Nat : m \in W[k - 1] => adds[<<m, k>>] \in W[k]
  <2>. SUFFICES ASSUME NEW k \in 1 .. n, NEW m \in Nat, m \in W[k - 1]
                PROVE  adds[<<m, k>>] \in W[k]
    OBVIOUS
  <2>1. k - 1 \in 0 .. n /\ k \in 0 .. n
    BY <1>1
  <2>2. m <= most(k - 1)
    <3>. HIDE DEF most
    <3>. QED
      BY <2>1
  <2>3. adds[<<m, k>>] = m + e(k)
    OBVIOUS
  <2>4. m + e(k) <= most(k) /\ m + e(k) \in Nat
    BY <1>2, <1>5, <2>2
  <2>. HIDE DEF adds, most, e
  <2>. QED
    BY <2>1, <2>3, <2>4
<1>14. h[1 .. n] \in W[n]
  <2>. HIDE DEF W, adds, n
  <2>. QED
    BY <1>1, <1>7, <1>12, <1>13, FoldKeeps
<1>15. h[1 .. n] <= MaxArchiveDepth * x
  <2>1. n \in 0 .. n /\ most(n) = MaxArchiveDepth * x
    BY <1>1
  <2>. HIDE DEF most
  <2>. QED
    BY <1>14, <2>1
<1>. HIDE DEF g
<1>. QED
  BY <1>1, <1>10, <1>11, <1>15

----------------------------------------------------------------------------
(* The inventory of a tree (TreeScan).                                     *)

LEMMA ItemsAre == ItemIndexes = 1 .. 5 /\ Len(Items) = 5 /\ IsFiniteSet(ItemIndexes)
<1>1. ItemIndexes = 1 .. 5 /\ Len(Items) = 5
  BY DEF ItemIndexes, Items
<1>2. IsFiniteSet(1 .. 5)
  <2>1. 1 \in Int /\ 5 \in Int
    OBVIOUS
  <2>. QED
    BY <2>1, FS_Interval
<1>. QED
  BY <1>1, <1>2, Zenon

\* What depends on the tree alone.
LEMMA WorldStays ==
  ASSUME UNCHANGED world
  PROVE  /\ \A i : Kind(i)' = Kind(i) /\ (Recorded(i)' <=> Recorded(i))
         /\ \A i, j : Clash(i, j)' <=> Clash(i, j)
         /\ Specials' = Specials
         /\ \A n : Candidates(n)' = Candidates(n)
<1>1. \A i : Kind(i)' = Kind(i)
  BY DEF Kind
<1>2. \A i : Recorded(i)' <=> Recorded(i)
  BY <1>1 DEF Recorded
<1>3. Specials' = Specials
  BY <1>1 DEF Specials
<1>4. \A i, j : Clash(i, j)' <=> Clash(i, j)
  BY <1>1 DEF Clash
<1>5. \A n : Candidates(n)' = Candidates(n)
  BY <1>1 DEF Candidates
<1>. QED
  BY <1>1, <1>2, <1>3, <1>4, <1>5

First(S) == CHOOSE i \in S : \A j \in S : i <= j

LEMMA SourceStays ==
  ASSUME UNCHANGED world, NEW n
  PROVE  SourceItem(n)' = SourceItem(n)
<1>1. SourceItem(n) = First(Candidates(n)) /\ SourceItem(n)' = First(Candidates(n)')
  BY Zenon DEF SourceItem, First
<1>2. Candidates(n)' = Candidates(n)
  BY WorldStays
<1>. QED
  BY <1>1, <1>2

\* What the result of the first pass has to be is said of the tree and the result.
ResultIsSound ==
  /\ CompleteMeansNothingWasMissed
  /\ reviewed # Nothing => checkBudget([reviewed.inv EXCEPT !.scan.hard = 0, !.scan.coverage = 0])

LEMMA ResultStays == ASSUME ResultIsSound, UNCHANGED <<world, reviewed>> PROVE ResultIsSound'
<1>1. CompleteMeansNothingWasMissed'
  <2>1. \A n : Candidates(n)' = Candidates(n) /\ Kind(SourceItem(n))' = Kind(SourceItem(n))
    BY WorldStays, SourceStays DEF Kind
  <2>. QED
    BY <2>1 DEF ResultIsSound, CompleteMeansNothingWasMissed
<1>2. (reviewed # Nothing =>
         checkBudget([reviewed.inv EXCEPT !.scan.hard = 0, !.scan.coverage = 0]))'
  BY DEF ResultIsSound, checkBudget
<1>. QED
  BY <1>1, <1>2, Zenon DEF ResultIsSound

\* The walk leaves out the same items in either pass: what is declared before the
\* sources are there is what .SRCINFO says.
LEMMA ExcludedIs ==
  ASSUME TreeTypeOK, NEW i
  PROVE  Recorded(i) <=> /\ ~Excluded(i)
                         /\ Kind(i) \in {"link", "escaping link", "special", "text", "bad control",
                                         "archive", "foreign", "directory"}
<1>1. world.phase = "pre" => vendorPaths = world.committed \ NoDeclaration
  BY TreeConstants DEF TreeTypeOK, vendorPaths, Declared
<1>. QED
  BY <1>1 DEF Recorded, Excluded

\* Counting the items.
LEMMA ItemsCount ==
  ASSUME NEW S \in SUBSET ItemIndexes
  PROVE  IsFiniteSet(S) /\ Cardinality(S) \in Nat
<1>1. IsFiniteSet(S)
  BY ItemsAre, FS_Subset
<1>2. Cardinality(S) \in Nat
  BY <1>1, FS_CardinalityType
<1>. QED
  BY <1>1, <1>2

LEMMA OneMoreItem ==
  ASSUME NEW S \in SUBSET ItemIndexes, NEW i \in ItemIndexes \ S
  PROVE  Cardinality(S \cup {i}) = Cardinality(S) + 1
<1>1. IsFiniteSet(S)
  BY ItemsCount
<1>. QED
  BY <1>1, FS_AddElement

LEMMA FewerItems ==
  ASSUME NEW S \in SUBSET ItemIndexes, NEW T \in SUBSET S
  PROVE  Cardinality(T) <= Cardinality(S)
<1>1. IsFiniteSet(S)
  BY ItemsCount
<1>. QED
  BY <1>1, FS_Subset

Held == {i \in ItemIndexes : Passed(i)}
SpecialsBefore(k) == {i \in Specials : i < k}
All == {i \in ItemIndexes : Recorded(i)}
ItemsBefore(k) == {i \in ItemIndexes : Recorded(i) /\ i < k}

\* A scan that has come upon n special files and nothing else.
OnlyBound(s, n) ==
  s = [NoReport EXCEPT !.hard = n, !.met = n, !.complete = s.complete]

LEMMA NoArchive == ASSUME stack' = <<>>, report' = NoReport PROVE ArchiveInv'
<1>1. <<>> \in Seq(Frames) /\ DOMAIN <<>> = {}
  BY EmptySeq
<1>2. NoReport \in Scans /\ Told(NoReport)
  BY DEF NoReport, Fresh, Scans, Told
<1>. QED
  BY <1>1, <1>2 DEF ArchiveInv

\* The second pass is within the limits the first was in.
LEMMA BoundIsWithin ==
  ASSUME TreeInv, pass = "bind", NEW v \in Inventory, NEW S \in SUBSET All, v.files = Cardinality(S),
         NEW k, v.scan.hard = Cardinality(SpecialsBefore(k)), OnlyBound(v.scan, v.scan.hard)
  PROVE  checkBudget(v)
<1>1. Cardinality(S) <= Cardinality(All) /\ Cardinality(S) \in Nat /\ Cardinality(All) \in Nat
  BY FewerItems, ItemsCount DEF All
<1>2. /\ Cardinality(SpecialsBefore(k)) <= Cardinality(Specials)
      /\ Cardinality(SpecialsBefore(k)) \in Nat /\ Cardinality(Specials) \in Nat
  <2>1. Specials \in SUBSET ItemIndexes /\ SpecialsBefore(k) \in SUBSET Specials
    BY DEF Specials, SpecialsBefore
  <2>. QED
    BY <2>1, FewerItems, ItemsCount
<1>3. Cardinality(All) <= MaxFiles /\ Cardinality(Specials) <= MaxFindings
  BY DEF TreeInv, SecondPass, All
<1>4. v.scan.coverage = 0 /\ v.scan.archives = 0 /\ v.scan.entries = 0 /\ v.scan.bytes = 0
  BY DEF OnlyBound, NoReport, Fresh
<1>5. {MaxFiles, MaxArchives, MaxEntries, MaxBytes, MaxFindings} \subseteq Nat
  BY TreeConstants, ArchiveConstants
<1>. HIDE DEF All
<1>. QED
  BY <1>1, <1>2, <1>3, <1>4, <1>5 DEF checkBudget

\* A pass that gives up.
LEMMA Refuses ==
  ASSUME TreeInv, reviewed # Nothing => edits > 0, Refuse,
         stack' = <<>>, report' = NoReport, reading' = NotOpen, records' \in Bindings,
         UNCHANGED <<world, content, edits, reviewed>>
  PROVE  TreeInv'
<1>1. TreeTypeOK'
  BY DEF TreeInv, TreeTypeOK, Refuse
<1>2. ArchiveInv'
  BY NoArchive
<1>3. checkBudget(inv)' /\ Told(inv.scan)'
  BY DEF TreeInv, Refuse, checkBudget, Told
<1>4. AtHand' /\ Counts' /\ SecondPass' /\ Outcome'
  BY DEF Refuse, AtHand, InArchive, Counts, SecondPass, Outcome
<1>5. ResultIsSound'
  BY ResultStays DEF TreeInv, ResultIsSound
<1>. QED
  BY <1>1, <1>2, <1>3, <1>4, <1>5, Zenon DEF TreeInv, ResultIsSound

\* A pass that is broken off.
LEMMA Breaks ==
  ASSUME TreeInv, Break,
         stack' = <<>>, report' = NoReport, reading' = NotOpen, records' \in Bindings,
         UNCHANGED <<world, content, edits, reviewed>>
  PROVE  TreeInv'
<1>1. TreeTypeOK'
  BY DEF TreeInv, TreeTypeOK, Break
<1>2. ArchiveInv'
  BY NoArchive
<1>3. checkBudget(inv)' /\ Told(inv.scan)'
  BY DEF TreeInv, Break, checkBudget, Told
<1>4. AtHand' /\ Counts' /\ SecondPass' /\ Outcome'
  BY DEF Break, AtHand, InArchive, Counts, SecondPass, Outcome
<1>5. ResultIsSound'
  BY ResultStays DEF TreeInv, ResultIsSound
<1>. QED
  BY <1>1, <1>2, <1>3, <1>4, <1>5, Zenon DEF TreeInv, ResultIsSound

LEMMA ScanBreaksKeeps == ASSUME TreeInv, ScanBreaks PROVE TreeInv'
<1>1. records \in Bindings
  BY DEF TreeInv, TreeTypeOK
<1>. QED
  BY <1>1, Breaks DEF ScanBreaks, archiveVars

\* An item is done, and the walk goes on, gives up or is broken off.
LEMMA Advances ==
  ASSUME TreeInv, pass \in {"full", "bind"}, at \in ItemIndexes,
         NEW v \in Inventory, Told(v.scan), v.files = Cardinality(ItemsBefore(at + 1)),
         v.scan.hard >= Cardinality(SpecialsBefore(at + 1)),
         pass = "bind" => /\ v.scan.hard = Cardinality(SpecialsBefore(at + 1))
                          /\ OnlyBound(v.scan, v.scan.hard),
         records' \in Bindings,
         \A i \in ItemIndexes : records'[i].sha # 0 <=> i \in ItemsBefore(at + 1),
         edits = 0 => \A i \in ItemIndexes : records'[i].sha < 2,
         Proceed(v), stack' = <<>>, report' = NoReport, reading' = NotOpen,
         UNCHANGED <<world, content, edits, reviewed>>
  PROVE  TreeInv'
<1>0. CASE Break
  BY <1>0, Breaks
<1>1. CASE ~checkBudget(v) /\ Refuse
  <2>1. Refuse
    BY <1>1
  <2>2. ItemsBefore(at + 1) \in SUBSET All
    BY DEF ItemsBefore, All
  <2>3. pass # "bind"
    BY <1>1, <2>2, BoundIsWithin
  <2>4. reviewed = Nothing
    BY <2>3 DEF TreeInv, SecondPass
  <2>. QED
    BY <2>1, <2>4, Refuses
<1>2. CASE checkBudget(v) /\ inv' = v /\ at' = at + 1 /\ UNCHANGED pass
  <2>1. inv' = v /\ at' = at + 1 /\ UNCHANGED pass
    BY <1>2
  <2>2. at \in 1 .. 5 /\ at + 1 \in 1 .. Len(Items) + 1
    BY ItemsAre
  <2>3. TreeTypeOK'
    BY <2>1, <2>2 DEF TreeInv, TreeTypeOK
  <2>4. ArchiveInv'
    BY NoArchive
  <2>5. checkBudget(inv)' /\ Told(inv.scan)'
    BY <1>2, <2>1 DEF checkBudget, Told
  <2>6. AtHand'
    BY DEF AtHand, InArchive
  <2>7. \A i : Recorded(i)' <=> Recorded(i)
    BY WorldStays
  <2>8. \A i \in ItemIndexes : Passed(i)' <=> i \in ItemsBefore(at + 1)
    <3>1. ~InArchive'
      BY DEF InArchive
    <3>2. at' = at + 1
      BY <2>1
    <3>. QED
      BY <2>7, <3>1, <3>2 DEF Passed, ItemsBefore
  <2>9. Held' = ItemsBefore(at + 1)
    <3>1. \A i : i \in Held' <=> i \in ItemIndexes /\ Passed(i)'
      BY DEF Held
    <3>2. \A i : i \in ItemsBefore(at + 1) => i \in ItemIndexes
      BY DEF ItemsBefore
    <3>. QED
      BY <2>8, <3>1, <3>2
  <2>10. SpecialsBefore(at)' = SpecialsBefore(at + 1)
    BY <2>1, WorldStays DEF SpecialsBefore
  <2>11. Counts'
    <3>1. Held' = {i \in ItemIndexes : Passed(i)}' /\ SpecialsBefore(at)' = {i \in Specials : i < at}'
      BY DEF Held, SpecialsBefore
    <3>2. (inv.files = Cardinality({i \in ItemIndexes : Passed(i)})
             /\ inv.scan.hard >= Cardinality({i \in Specials : i < at}))'
      BY <2>1, <2>9, <2>10, <3>1
    <3>3. (\A i \in ItemIndexes : records[i].sha # 0 <=> Passed(i))'
      BY <2>8
    <3>4. (edits = 0 => \A i \in ItemIndexes : content[i] = 1 /\ records[i].sha < 2)'
      BY DEF TreeInv, Counts
    <3>. QED
      BY <3>2, <3>3, <3>4, Zenon DEF Counts
  <2>12. SecondPass'
    <3>1. (pass = "full" => reviewed = Nothing)'
      BY <2>1 DEF TreeInv, SecondPass
    <3>2. ASSUME pass = "bind"
          PROVE  (/\ inv.scan = [NoReport EXCEPT !.hard = inv.scan.hard, !.met = inv.scan.hard,
                                                 !.complete = inv.scan.complete]
                  /\ inv.scan.hard = Cardinality({i \in Specials : i < at}))'
      BY <2>1, <2>10, <3>2 DEF OnlyBound, SpecialsBefore
    <3>3. ASSUME pass = "bind"
          PROVE  (/\ Cardinality({i \in ItemIndexes : Recorded(i)}) <= MaxFiles
                  /\ Cardinality(Specials) <= MaxFindings
                  /\ \A i \in ItemIndexes : reviewed.records[i].sha # 0 <=> Recorded(i)
                  /\ edits = 0 => \A i \in ItemIndexes : reviewed.records[i].sha < 2
                  /\ ~ \E i, j \in ItemIndexes : Clash(i, j) /\ Recorded(i) /\ Recorded(j))'
      BY <3>3, WorldStays DEF TreeInv, SecondPass
    <3>. QED
      BY <2>1, <3>1, <3>2, <3>3 DEF SecondPass
  <2>13. Outcome'
    BY <2>1 DEF Outcome
  <2>14. ResultIsSound'
    BY ResultStays DEF TreeInv, ResultIsSound
  <2>. QED
    BY <2>3, <2>4, <2>5, <2>6, <2>11, <2>12, <2>13, <2>14, Zenon DEF TreeInv, ResultIsSound
<1>. QED
  BY <1>0, <1>1, <1>2, Zenon DEF Proceed

\* What a finding leaves of the totals.
Beside(t, s) ==
  /\ t \in Scans /\ Told(t)
  /\ t.entries = s.entries /\ t.bytes = s.bytes /\ t.archives = s.archives
  /\ t.hard \in Nat /\ t.hard >= s.hard

LEMMA FoundBeside ==
  ASSUME NEW s \in Scans, Told(s)
  PROVE  /\ Beside(Hard(s), s) /\ Hard(s).hard = s.hard + 1
         /\ Beside(Incomplete(s), s) /\ Incomplete(s).hard = s.hard
         /\ Beside(Gap(s), s)
<1>. DEFINE x == s.hard + 1
            y == s.met + 1
            z == s.coverage + 1
<1>1. x \in Nat /\ y \in Nat /\ z \in Nat /\ s.hard \in Nat /\ s.met \in Nat /\ s.coverage \in Nat
  BY DEF Scans
<1>2. Hard(s) = [s EXCEPT !.hard = x, !.met = y] /\ Gap(s) = [s EXCEPT !.coverage = z]
  BY DEF Hard, Gap
<1>. HIDE DEF x, y, z
<1>3. [s EXCEPT !.hard = x, !.met = y] \in Scans
  BY <1>1 DEF Scans
<1>4. [s EXCEPT !.coverage = z] \in Scans
  BY <1>1 DEF Scans
<1>. USE DEF x, y, z
<1>5. Incomplete(s) \in Scans
  BY DEF Scans, Incomplete
<1>6. Told(Hard(s)) /\ Told(Gap(s)) /\ Told(Incomplete(s))
  <2>1. Told(Hard(s))
    BY <1>1, <1>3 DEF Scans, Told, Hard
  <2>2. Told(Gap(s))
    BY <1>1, <1>4 DEF Scans, Told, Gap
  <2>3. Told(Incomplete(s))
    BY <1>5 DEF Scans, Told, Incomplete
  <2>. QED
    BY <2>1, <2>2, <2>3
<1>7. /\ Hard(s).entries = s.entries /\ Hard(s).bytes = s.bytes /\ Hard(s).archives = s.archives
      /\ Hard(s).hard = s.hard + 1
  BY DEF Scans, Hard
<1>8. /\ Gap(s).entries = s.entries /\ Gap(s).bytes = s.bytes /\ Gap(s).archives = s.archives
      /\ Gap(s).hard = s.hard
  BY DEF Scans, Gap
<1>9. /\ Incomplete(s).entries = s.entries /\ Incomplete(s).bytes = s.bytes
      /\ Incomplete(s).archives = s.archives /\ Incomplete(s).hard = s.hard
  BY DEF Scans, Incomplete
<1>10. s.hard + 1 >= s.hard /\ s.hard + 1 \in Nat /\ s.hard >= s.hard
  BY <1>1
<1>11. Hard(s) \in Scans /\ Gap(s) \in Scans
  BY <1>2, <1>3, <1>4, Zenon
<1>. HIDE DEF x, y, z
<1>12. Beside(Hard(s), s)
  BY <1>6, <1>7, <1>10, <1>11, Zenon DEF Beside
<1>13. Beside(Gap(s), s)
  BY <1>1, <1>6, <1>8, <1>10, <1>11, Zenon DEF Beside
<1>14. Beside(Incomplete(s), s)
  BY <1>1, <1>5, <1>6, <1>9, <1>10, Zenon DEF Beside
<1>. QED
  BY <1>7, <1>9, <1>12, <1>13, <1>14

\* A special file is found in either pass.
LEMMA BoundHard ==
  ASSUME NEW s \in Scans, OnlyBound(s, s.hard)
  PROVE  OnlyBound(Incomplete(Hard(s)), s.hard + 1)
<1>1. s.hard \in Nat /\ s.met = s.hard
  BY DEF OnlyBound, NoReport, Fresh, Scans
<1>. DEFINE b == [NoReport EXCEPT !.hard = s.hard, !.met = s.hard, !.complete = s.complete]
<1>2. Incomplete(Hard(b)) = [NoReport EXCEPT !.hard = s.hard + 1, !.met = s.hard + 1, !.complete = FALSE]
  BY DEF Incomplete, Hard, NoReport, Fresh
<1>3. s = b
  BY DEF OnlyBound
<1>4. Incomplete(Hard(s)) = Incomplete(Hard(b)) /\ Incomplete(Hard(s)).complete = FALSE
  <2>. HIDE DEF b
  <2>1. Incomplete(Hard(s)) = Incomplete(Hard(b))
    BY <1>3
  <2>2. Incomplete(Hard(s)).complete = FALSE
    BY DEF Incomplete, Hard, Scans
  <2>. QED
    BY <2>1, <2>2
<1>. HIDE DEF b
<1>. QED
  BY <1>2, <1>4, Zenon DEF OnlyBound

LEMMA SpecialIsRecorded == ASSUME TreeTypeOK PROVE Specials \subseteq All
BY DEF Specials, All, Recorded

\* The special files up to an item.
LEMMA SpecialsTo ==
  ASSUME at \in ItemIndexes
  PROVE  /\ Cardinality(SpecialsBefore(at)) \in Nat
         /\ at \in Specials =>
              Cardinality(SpecialsBefore(at + 1)) = Cardinality(SpecialsBefore(at)) + 1
         /\ at \notin Specials => SpecialsBefore(at + 1) = SpecialsBefore(at)
<1>1. at \in Int /\ \A i \in Specials : i \in ItemIndexes /\ i \in Int
  BY ItemsAre DEF Specials
<1>. HIDE DEF Specials
<1>7. \A i \in Specials : i < at + 1 <=> i < at \/ i = at
  BY <1>1
<1>2. at \notin Specials => SpecialsBefore(at + 1) = SpecialsBefore(at)
  BY <1>7, Zenon DEF SpecialsBefore
<1>3. at \in Specials => SpecialsBefore(at + 1) = SpecialsBefore(at) \cup {at}
  <2>. SUFFICES ASSUME at \in Specials, NEW i
                PROVE  i \in SpecialsBefore(at + 1) <=> i \in SpecialsBefore(at) \/ i = at
    OBVIOUS
  <2>1. at < at + 1
    BY <1>1
  <2>. QED
    BY <1>7, <2>1 DEF SpecialsBefore
<1>4. SpecialsBefore(at) \in SUBSET ItemIndexes /\ at \notin SpecialsBefore(at)
  BY <1>1 DEF SpecialsBefore
<1>5. Cardinality(SpecialsBefore(at) \cup {at}) = Cardinality(SpecialsBefore(at)) + 1
  BY <1>4, OneMoreItem
<1>6. Cardinality(SpecialsBefore(at)) \in Nat
  BY <1>4, ItemsCount
<1>. QED
  BY <1>2, <1>3, <1>5, <1>6

\* The recorded items up to an item.
LEMMA ItemsTo ==
  ASSUME at \in ItemIndexes
  PROVE  /\ Recorded(at) => /\ Cardinality(ItemsBefore(at + 1)) = Cardinality(ItemsBefore(at)) + 1
                            /\ \A i : i \in ItemsBefore(at + 1) <=> i \in ItemsBefore(at) \/ i = at
         /\ ~Recorded(at) => ItemsBefore(at + 1) = ItemsBefore(at)
<1>1. at \in Int /\ \A i \in ItemIndexes : i \in Int
  BY ItemsAre
<1>2. \A i \in ItemIndexes : i < at + 1 <=> i < at \/ i = at
  BY <1>1
<1>3. at < at + 1 /\ ~(at < at)
  BY <1>1
<1>4. Recorded(at) => \A i : i \in ItemsBefore(at + 1) <=> i \in ItemsBefore(at) \/ i = at
  BY <1>2, <1>3 DEF ItemsBefore
<1>5. ~Recorded(at) => ItemsBefore(at + 1) = ItemsBefore(at)
  BY <1>2 DEF ItemsBefore
<1>6. ItemsBefore(at) \in SUBSET ItemIndexes /\ at \in ItemIndexes \ ItemsBefore(at)
  BY <1>3 DEF ItemsBefore
<1>7. Recorded(at) => ItemsBefore(at + 1) = ItemsBefore(at) \cup {at}
  BY <1>4
<1>. QED
  BY <1>4, <1>5, <1>6, <1>7, OneMoreItem

\* What the walk has before it looks at an item.
LEMMA Halfway ==
  ASSUME TreeInv, Walking
  PROVE  /\ inv.files = Cardinality(ItemsBefore(at)) /\ \A i \in ItemIndexes : Passed(i) <=> i \in ItemsBefore(at)
         /\ inv \in Inventory /\ inv.files \in Nat /\ inv.scan \in Scans /\ inv.scan.hard \in Nat
         /\ Told(inv.scan) /\ inv.scan.hard >= Cardinality(SpecialsBefore(at))
         /\ Recorded(at) => inv.files + 1 = Cardinality(ItemsBefore(at + 1))
         /\ pass = "bind" => /\ inv.scan.hard = Cardinality(SpecialsBefore(at))
                             /\ OnlyBound(inv.scan, inv.scan.hard)
                             /\ Recorded(at) => inv.files < MaxFiles
<1>1. /\ inv \in Inventory /\ inv.scan \in Scans /\ inv.files \in Nat /\ inv.scan.hard \in Nat
      /\ Told(inv.scan) /\ pass \in {"full", "bind"} /\ at \in ItemIndexes /\ ~InArchive
  BY DEF TreeInv, TreeTypeOK, Inventory, Scans, Walking, InArchive
<1>2. inv.files = Cardinality(Held) /\ inv.scan.hard >= Cardinality(SpecialsBefore(at))
  BY <1>1 DEF TreeInv, Counts, Held, SpecialsBefore
<1>3. \A i \in ItemIndexes : Passed(i) <=> i \in ItemsBefore(at)
  BY <1>1 DEF Passed, ItemsBefore
<1>4. Held = ItemsBefore(at)
  BY <1>3 DEF Held, ItemsBefore
<1>5. Recorded(at) => inv.files + 1 = Cardinality(ItemsBefore(at + 1))
  BY <1>1, <1>2, <1>4, ItemsTo
<1>6. ASSUME pass = "bind"
      PROVE  /\ inv.scan.hard = Cardinality(SpecialsBefore(at))
             /\ OnlyBound(inv.scan, inv.scan.hard)
             /\ Recorded(at) => inv.files < MaxFiles
  <2>1. inv.scan.hard = Cardinality(SpecialsBefore(at)) /\ OnlyBound(inv.scan, inv.scan.hard)
    BY <1>6, Zenon DEF TreeInv, SecondPass, SpecialsBefore, OnlyBound
  <2>2. Cardinality(All) <= MaxFiles
    BY <1>6 DEF TreeInv, SecondPass, All
  <2>3. All \in SUBSET ItemIndexes /\ ItemsBefore(at + 1) \in SUBSET All
    BY DEF All, ItemsBefore
  <2>4. Cardinality(ItemsBefore(at + 1)) <= Cardinality(All) /\ Cardinality(All) \in Nat
    BY <2>3, FewerItems, ItemsCount
  <2>5. MaxFiles \in Nat
    BY TreeConstants
  <2>. HIDE DEF All, ItemsBefore
  <2>. QED
    BY <1>1, <1>5, <2>1, <2>2, <2>4, <2>5
<1>. QED
  BY <1>1, <1>2, <1>3, <1>4, <1>5, <1>6

LEMMA SkipItemKeeps == ASSUME TreeInv, SkipItem PROVE TreeInv'
<1>1. Walking /\ ~Recorded(at) /\ at \in ItemIndexes /\ pass \in {"full", "bind"}
  BY ExcludedIs DEF SkipItem, TreeInv, Walking
<1>2. at \notin Specials
  BY <1>1, SpecialIsRecorded DEF TreeInv, All
<1>3. ItemsBefore(at + 1) = ItemsBefore(at) /\ SpecialsBefore(at + 1) = SpecialsBefore(at)
  BY <1>1, <1>2, ItemsTo, SpecialsTo
<1>4. Proceed(inv)
  BY DEF Proceed, TreeInv, SkipItem
<1>5. \A i \in ItemIndexes : records'[i].sha # 0 <=> i \in ItemsBefore(at + 1)
  BY <1>1, <1>3, Halfway DEF SkipItem, TreeInv, Counts
<1>6. records' \in Bindings /\ (edits = 0 => \A i \in ItemIndexes : records'[i].sha < 2)
  BY <1>1 DEF SkipItem, TreeInv, TreeTypeOK, Counts
<1>7. /\ stack' = <<>> /\ report' = NoReport /\ reading' = NotOpen
      /\ UNCHANGED <<world, content, edits, reviewed>>
  BY <1>1 DEF SkipItem, Walking, archiveVars
<1>. QED
  BY <1>1, <1>3, <1>4, <1>5, <1>6, <1>7, Halfway, Advances

\* What is recorded of an item.
LEMMA RecordIs ==
  ASSUME TreeInv, Walking, Recorded(at), NEW j \in 0 .. 2, Record(content[at], j)
  PROVE  /\ records' \in Bindings
         /\ \A i \in ItemIndexes : records'[i].sha # 0 <=> i \in ItemsBefore(at + 1)
         /\ edits = 0 => \A i \in ItemIndexes : records'[i].sha < 2
<1>1. /\ at \in ItemIndexes /\ content[at] \in 1 .. 2 /\ records \in Bindings
      /\ pass \in {"full", "bind"}
  BY DEF TreeInv, TreeTypeOK, Walking
<1>. DEFINE r == [sha |-> content[at], inspected |-> j]
<1>2. r \in [sha : 0 .. 2, inspected : 0 .. 2] /\ r.sha # 0 /\ r.sha = content[at]
  BY <1>1
<1>. HIDE DEF r
<1>3. records' = [records EXCEPT ![at] = r]
  BY DEF Record, r
<1>4. records' \in Bindings
  BY <1>1, <1>2, <1>3 DEF Bindings
<1>5. \A i \in ItemIndexes : records'[i] = IF i = at THEN r ELSE records[i]
  BY <1>1, <1>3 DEF Bindings
<1>6. \A i \in ItemIndexes : records[i].sha # 0 <=> i \in ItemsBefore(at)
  BY <1>1, Halfway DEF TreeInv, Counts
<1>7. \A i \in ItemIndexes : records'[i].sha # 0 <=> i \in ItemsBefore(at + 1)
  BY <1>1, <1>2, <1>5, <1>6, ItemsTo
<1>8. edits = 0 => \A i \in ItemIndexes : records'[i].sha < 2
  BY <1>1, <1>2, <1>5 DEF TreeInv, Counts
<1>. QED
  BY <1>4, <1>7, <1>8

\* An item counted as a file, with what was found.
LEMMA CountsOn ==
  ASSUME TreeInv, Walking, Recorded(at), NEW found \in Scans, Beside(found, inv.scan),
         found.hard >= Cardinality(SpecialsBefore(at + 1)),
         pass = "bind" => /\ found.hard = Cardinality(SpecialsBefore(at + 1))
                          /\ OnlyBound(found, found.hard),
         NEW j \in 0 .. 2, Record(content[at], j),
         Proceed([files |-> inv.files + 1, scan |-> found]),
         stack' = <<>>, report' = NoReport, reading' = NotOpen,
         UNCHANGED <<world, content, edits, reviewed>>
  PROVE  TreeInv'
<1>. DEFINE v == [files |-> inv.files + 1, scan |-> found]
<1>1. v \in Inventory /\ v.scan = found /\ v.files = Cardinality(ItemsBefore(at + 1)) /\ Proceed(v)
  BY Halfway DEF Inventory
<1>2. Told(found) /\ at \in ItemIndexes /\ pass \in {"full", "bind"}
  BY DEF Beside, Walking
<1>3. /\ records' \in Bindings
      /\ \A i \in ItemIndexes : records'[i].sha # 0 <=> i \in ItemsBefore(at + 1)
      /\ edits = 0 => \A i \in ItemIndexes : records'[i].sha < 2
  BY RecordIs
<1>. HIDE DEF v
<1>. QED
  BY <1>1, <1>2, <1>3, Advances

LEMMA RecordSpecialKeeps == ASSUME TreeInv, RecordSpecial PROVE TreeInv'
<1>. DEFINE found == CASE Kind(at) = "special" -> Incomplete(Hard(inv.scan))
                       [] Kind(at) = "escaping link" /\ contentInspectionEnabled(at) -> Hard(inv.scan)
                       [] OTHER -> inv.scan
            s == inv.scan
<1>1. /\ Walking /\ Kind(at) \in {"link", "escaping link", "special"} /\ Record(content[at], content[at])
      /\ Proceed([files |-> inv.files + 1, scan |-> found])
      /\ stack' = <<>> /\ report' = NoReport /\ reading' = NotOpen
      /\ UNCHANGED <<world, content, edits, reviewed>>
  BY DEF RecordSpecial, Walking, archiveVars
<1>2. at \in ItemIndexes /\ content[at] \in 0 .. 2
  <2>1. at \in ItemIndexes /\ content \in [ItemIndexes -> 1 .. 2]
    BY <1>1 DEF Walking, TreeInv, TreeTypeOK
  <2>2. content[at] \in 1 .. 2
    BY <2>1, Zenon
  <2>. QED
    BY <2>1, <2>2
<1>3. Recorded(at) /\ (at \in Specials <=> Kind(at) = "special")
  BY <1>1, <1>2 DEF Recorded, Specials
<1>4. /\ s \in Scans /\ Told(s) /\ s.hard \in Nat /\ s.hard >= Cardinality(SpecialsBefore(at))
      /\ pass = "bind" => s.hard = Cardinality(SpecialsBefore(at)) /\ OnlyBound(s, s.hard)
  BY <1>1, Halfway
<1>5. /\ Cardinality(SpecialsBefore(at)) \in Nat
      /\ at \in Specials => Cardinality(SpecialsBefore(at + 1)) = Cardinality(SpecialsBefore(at)) + 1
      /\ at \notin Specials => SpecialsBefore(at + 1) = SpecialsBefore(at)
  BY <1>2, SpecialsTo
<1>6. Beside(Hard(s), s) /\ Hard(s).hard = s.hard + 1 /\ Hard(s) \in Scans /\ Told(Hard(s))
  BY <1>4, FoundBeside DEF Beside
<1>7. /\ found \in Scans /\ Beside(found, s) /\ found.hard >= Cardinality(SpecialsBefore(at + 1))
      /\ pass = "bind" => /\ found.hard = Cardinality(SpecialsBefore(at + 1))
                          /\ OnlyBound(found, found.hard)
  <2>1. CASE Kind(at) = "special"
    <3>1. found = Incomplete(Hard(s))
      BY <2>1
    <3>2. Beside(found, Hard(s)) /\ found.hard = Hard(s).hard
      BY <1>6, <3>1, FoundBeside
    <3>3. Beside(found, s) /\ found \in Scans /\ found.hard = s.hard + 1
      BY <1>6, <3>2 DEF Beside
    <3>4. pass = "bind" => OnlyBound(found, found.hard)
      BY <1>4, <3>1, <3>3, BoundHard
    <3>. QED
      BY <1>3, <1>4, <1>5, <2>1, <3>3, <3>4
  <2>2. CASE Kind(at) = "escaping link" /\ contentInspectionEnabled(at)
    <3>1. found = Hard(s) /\ pass # "bind"
      BY <2>2 DEF contentInspectionEnabled, BindingOnly
    <3>2. SpecialsBefore(at + 1) = SpecialsBefore(at)
      BY <1>3, <1>5, <2>2
    <3>3. s.hard + 1 >= Cardinality(SpecialsBefore(at + 1))
      BY <1>4, <1>5, <3>2
    <3>. HIDE DEF found, s
    <3>. QED
      BY <1>6, <3>1, <3>3
  <2>3. CASE Kind(at) # "special" /\ ~(Kind(at) = "escaping link" /\ contentInspectionEnabled(at))
    <3>1. found = s
      BY <2>3
    <3>2. Beside(s, s)
      BY <1>4 DEF Beside
    <3>. QED
      BY <1>3, <1>4, <1>5, <2>3, <3>1, <3>2
  <2>. QED
    BY <2>1, <2>2, <2>3
<1>. HIDE DEF found
<1>. QED
  BY <1>1, <1>2, <1>3, <1>7, CountsOn

LEMMA OpenItemKeeps == ASSUME TreeInv, OpenItem PROVE TreeInv'
<1>1. /\ Walking /\ at \in ItemIndexes /\ pass \in {"full", "bind"} /\ stack = <<>> /\ report = NoReport
      /\ reading = NotOpen /\ UNCHANGED <<world, content, edits, records, reviewed, archiveVars>>
  BY DEF OpenItem, Walking
<1>2. Recorded(at) /\ at \notin Specials
  <2>1. Recorded(at)
    BY ExcludedIs DEF OpenItem, TreeInv
  <2>2. Kind(at) # "special"
    BY DEF OpenItem
  <2>. QED
    BY <2>1, <2>2 DEF Specials
<1>3. CASE inv.files >= MaxFiles /\ Refuse /\ UNCHANGED reading
  <2>1. inv.files \in Nat /\ MaxFiles \in Nat
    BY <1>1, Halfway, TreeConstants
  <2>2. pass # "bind"
    BY <1>1, <1>2, <1>3, <2>1, Halfway
  <2>3. reviewed = Nothing
    BY <1>1, <2>2 DEF TreeInv, SecondPass
  <2>4. records' \in Bindings /\ stack' = <<>> /\ report' = NoReport /\ reading' = NotOpen
    BY <1>1, <1>3 DEF TreeInv, TreeTypeOK, archiveVars
  <2>. QED
    BY <1>1, <1>3, <2>3, <2>4, Refuses
<1>4. CASE inv.files < MaxFiles /\ reading' = edits /\ UNCHANGED <<pass, at, inv>>
  <2>1. TreeTypeOK'
    BY <1>1, <1>4 DEF TreeInv, TreeTypeOK
  <2>2. ArchiveInv'
    BY <1>1, ArchiveIdles DEF TreeInv
  <2>3. /\ \A i : Recorded(i)' <=> Recorded(i)
        /\ \A i, j : Clash(i, j)' <=> Clash(i, j)
        /\ Specials' = Specials
    BY <1>1, WorldStays
  <2>4. InArchive' = InArchive /\ ~InArchive
    BY <1>1 DEF InArchive, archiveVars
  <2>5. AtHand'
    BY <1>1, <1>2, <1>4, <2>3, <2>4 DEF AtHand, archiveVars, InArchive
  <2>6. Counts'
    BY <1>1, <1>4, <2>3, <2>4 DEF TreeInv, Counts, Passed
  <2>7. SecondPass' /\ Outcome'
    BY <1>1, <1>4, <2>3 DEF TreeInv, SecondPass, Outcome
  <2>8. checkBudget(inv)' /\ Told(inv.scan)' /\ ResultIsSound'
    BY <1>1, <1>4, ResultStays DEF TreeInv, ResultIsSound, checkBudget, Told
  <2>. QED
    BY <2>1, <2>2, <2>5, <2>6, <2>7, <2>8, Zenon DEF TreeInv, ResultIsSound
<1>. QED
  BY <1>3, <1>4 DEF OpenItem

\* What the limits have left is no less than nothing.
LEMMA RemainingIs ==
  ASSUME TreeInv
  PROVE  /\ Remaining.entries \in Nat /\ Remaining.bytes \in Nat /\ Remaining.base \in Nat
         /\ Remaining.entries + inv.scan.entries <= MaxEntries
         /\ Remaining.bytes + inv.scan.bytes <= MaxBytes
         /\ Remaining.archives + inv.scan.archives <= MaxArchives
         /\ inv.scan.archives < MaxArchives => Remaining.archives \in Nat \ {0}
<1>1. inv.scan.entries \in Nat /\ inv.scan.bytes \in Nat /\ inv.scan.archives \in Nat
  BY DEF TreeInv, TreeTypeOK, Inventory, Scans
<1>2. inv.scan.entries <= MaxEntries /\ inv.scan.bytes <= MaxBytes
  BY DEF TreeInv, checkBudget
<1>3. MaxEntries \in Nat /\ MaxBytes \in Nat /\ MaxArchives \in Nat
  BY TreeConstants
<1>4. /\ Remaining.entries = MaxEntries - inv.scan.entries
      /\ Remaining.bytes = MaxBytes - inv.scan.bytes
      /\ Remaining.archives = MaxArchives - inv.scan.archives
      /\ Remaining.base \in Nat
  BY DEF Remaining, BaseDepth
<1>. QED
  BY <1>1, <1>2, <1>3, <1>4

\* The archive at hand is counted as a file and given to its reader.
LEMMA ArchiveBegins ==
  ASSUME TreeInv, Walking, reading # NotOpen, pass = "full", inv.scan.archives < MaxArchives,
         Record(content[at], 0),
         inv' = [files |-> inv.files + 1, scan |-> inv.scan], StartArchive(Remaining),
         reading' = NotOpen, UNCHANGED <<world, content, edits, reviewed, pass, at>>
  PROVE  TreeInv'
<1>1. /\ at \in ItemIndexes /\ Recorded(at) /\ at \notin Specials /\ inv.files < MaxFiles
      /\ reviewed = Nothing
  BY DEF Walking, TreeInv, AtHand, SecondPass
<1>2. ArchiveInv' /\ stack' # <<>>
  BY RemainingIs, StartArchiveKeeps
<1>3. /\ records' \in Bindings
      /\ \A i \in ItemIndexes : records'[i].sha # 0 <=> i \in ItemsBefore(at + 1)
      /\ edits = 0 => \A i \in ItemIndexes : records'[i].sha < 2
  BY <1>1, RecordIs
<1>4. /\ inv'.files = inv.files + 1 /\ inv'.scan = inv.scan /\ inv' \in Inventory
      /\ inv'.files = Cardinality(ItemsBefore(at + 1)) /\ inv.files \in Nat
      /\ inv.scan.hard >= Cardinality(SpecialsBefore(at)) /\ Told(inv.scan)
  BY <1>1, Halfway DEF Inventory
<1>5. TreeTypeOK'
  BY <1>3, <1>4 DEF TreeInv, TreeTypeOK
<1>6. checkBudget(inv)' /\ Told(inv.scan)'
  <2>1. inv.files + 1 <= MaxFiles
    BY <1>1, <1>4, TreeConstants
  <2>2. checkBudget(inv)'
    BY <1>4, <2>1 DEF TreeInv, checkBudget
  <2>3. Told(inv.scan)'
    BY <1>4 DEF Told
  <2>. QED
    BY <2>2, <2>3
<1>7. \A i : (Recorded(i)' <=> Recorded(i)) /\ Specials' = Specials
  BY WorldStays
<1>8. InArchive'
  BY <1>2 DEF InArchive
<1>9. AtHand'
  <2>1. allowed' = Remaining
    BY DEF StartArchive
  <2>. QED
    BY <1>1, <1>4, <1>7, <2>1, RemainingIs DEF AtHand
<1>10. \A i \in ItemIndexes : Passed(i)' <=> i \in ItemsBefore(at + 1)
  <2>1. at \in Int /\ \A i \in ItemIndexes : i \in Int
    BY <1>1, ItemsAre
  <2>2. \A i \in ItemIndexes : i < at + 1 <=> i < at \/ i = at
    BY <2>1
  <2>. QED
    BY <1>7, <1>8, <2>2 DEF Passed, ItemsBefore
<1>11. Counts'
  <2>1. Held' = ItemsBefore(at + 1)
    <3>1. \A i : i \in Held' <=> i \in ItemIndexes /\ Passed(i)'
      BY DEF Held
    <3>2. \A i : i \in ItemsBefore(at + 1) => i \in ItemIndexes
      BY DEF ItemsBefore
    <3>. QED
      BY <1>10, <3>1, <3>2
  <2>2. SpecialsBefore(at)' = SpecialsBefore(at)
    BY <1>7 DEF SpecialsBefore
  <2>3. Held' = {i \in ItemIndexes : Passed(i)}' /\ SpecialsBefore(at)' = {i \in Specials : i < at}'
    BY DEF Held, SpecialsBefore
  <2>4. (inv.files = Cardinality({i \in ItemIndexes : Passed(i)})
           /\ inv.scan.hard >= Cardinality({i \in Specials : i < at}))'
    BY <1>4, <2>1, <2>2, <2>3
  <2>5. (\A i \in ItemIndexes : records[i].sha # 0 <=> Passed(i))'
    BY <1>3, <1>10
  <2>6. (edits = 0 => \A i \in ItemIndexes : content[i] = 1 /\ records[i].sha < 2)'
    BY <1>3 DEF TreeInv, Counts
  <2>. QED
    BY <2>4, <2>5, <2>6, Zenon DEF Counts
<1>12. SecondPass' /\ Outcome'
  BY <1>1 DEF SecondPass, Outcome
<1>13. ResultIsSound'
  BY ResultStays DEF TreeInv, ResultIsSound
<1>. QED
  BY <1>2, <1>5, <1>6, <1>9, <1>11, <1>12, <1>13, Zenon DEF TreeInv, ResultIsSound

LEMMA HashItemKeeps == ASSUME TreeInv, HashItem PROVE TreeInv'
<1>. DEFINE s == inv.scan
            found == IF Kind(at) = "bad control" /\ ContentInspected(at)
                     THEN Incomplete(Hard(s)) ELSE s
<1>1. /\ Walking /\ at \in ItemIndexes /\ pass \in {"full", "bind"} /\ stack = <<>> /\ report = NoReport
      /\ reading # NotOpen /\ reading' = NotOpen /\ UNCHANGED <<world, content, edits, reviewed>>
  BY DEF HashItem, Walking
<1>2. Recorded(at) /\ at \notin Specials
  BY <1>1 DEF TreeInv, AtHand
<1>3. archiveInspection(at) => pass = "full" /\ Kind(at) = "archive"
  BY <1>1 DEF archiveInspection, BindingOnly
<1>4. CASE /\ reading # edits \/ (archiveInspection(at) /\ inv.scan.archives >= MaxArchives)
           /\ Refuse /\ UNCHANGED <<records, archiveVars>>
  <2>1. reading # edits => edits > 0
    BY <1>1 DEF TreeInv, TreeTypeOK
  <2>2. archiveInspection(at) => reviewed = Nothing
    BY <1>3 DEF TreeInv, SecondPass
  <2>3. records' \in Bindings /\ stack' = <<>> /\ report' = NoReport
    BY <1>1, <1>4 DEF TreeInv, TreeTypeOK, archiveVars
  <2>. QED
    BY <1>1, <1>4, <2>1, <2>2, <2>3, Refuses
<1>5. CASE /\ reading = edits /\ ~archiveInspection(at)
           /\ Record(content[at], IF ContentInspected(at) THEN content[at] ELSE 0)
           /\ Proceed([files |-> inv.files + 1, scan |-> found]) /\ UNCHANGED archiveVars
  <2>1. (IF ContentInspected(at) THEN content[at] ELSE 0) \in 0 .. 2
    <3>1. content \in [ItemIndexes -> 1 .. 2]
      BY DEF TreeInv, TreeTypeOK
    <3>2. content[at] \in 1 .. 2
      BY <1>1, <3>1, Zenon
    <3>. QED
      BY <3>2
  <2>2. /\ s \in Scans /\ Told(s) /\ s.hard \in Nat /\ s.hard >= Cardinality(SpecialsBefore(at))
        /\ pass = "bind" => s.hard = Cardinality(SpecialsBefore(at)) /\ OnlyBound(s, s.hard)
    BY <1>1, Halfway
  <2>3. SpecialsBefore(at + 1) = SpecialsBefore(at) /\ Cardinality(SpecialsBefore(at)) \in Nat
    BY <1>1, <1>2, SpecialsTo
  <2>4. /\ found \in Scans /\ Beside(found, s) /\ found.hard >= Cardinality(SpecialsBefore(at + 1))
        /\ pass = "bind" => /\ found.hard = Cardinality(SpecialsBefore(at + 1))
                            /\ OnlyBound(found, found.hard)
    <3>1. CASE Kind(at) = "bad control" /\ ContentInspected(at)
      <4>1. found = Incomplete(Hard(s)) /\ pass # "bind"
        BY <3>1 DEF ContentInspected, contentInspectionEnabled, BindingOnly
      <4>2. Beside(Hard(s), s) /\ Hard(s).hard = s.hard + 1 /\ Hard(s) \in Scans /\ Told(Hard(s))
        BY <2>2, FoundBeside DEF Beside
      <4>3. Beside(found, Hard(s)) /\ found.hard = Hard(s).hard
        BY <4>1, <4>2, FoundBeside
      <4>4. Beside(found, s) /\ found \in Scans /\ found.hard = s.hard + 1
        BY <4>2, <4>3 DEF Beside
      <4>. HIDE DEF found, s
      <4>. QED
        BY <2>2, <2>3, <4>1, <4>4
    <3>2. CASE ~(Kind(at) = "bad control" /\ ContentInspected(at))
      <4>1. found = s
        BY <3>2
      <4>2. Beside(s, s)
        BY <2>2 DEF Beside
      <4>. HIDE DEF found, s
      <4>. QED
        BY <2>2, <2>3, <4>1, <4>2
    <3>. QED
      BY <3>1, <3>2
  <2>5. stack' = <<>> /\ report' = NoReport
    BY <1>1, <1>5 DEF archiveVars
  <2>. HIDE DEF found
  <2>. QED
    BY <1>1, <1>2, <1>5, <2>1, <2>4, <2>5, CountsOn
<1>6. CASE /\ reading = edits /\ archiveInspection(at) /\ inv.scan.archives < MaxArchives
           /\ Record(content[at], 0)
           /\ inv' = [files |-> inv.files + 1, scan |-> found]
           /\ StartArchive(Remaining) /\ UNCHANGED <<pass, at>>
  <2>1. found = inv.scan /\ pass = "full"
    BY <1>3, <1>6
  <2>. HIDE DEF found
  <2>2. inv' = [files |-> inv.files + 1, scan |-> inv.scan]
    BY <1>6, <2>1
  <2>. QED
    BY <1>1, <1>6, <2>1, <2>2, ArchiveBegins
<1>. QED
  BY <1>4, <1>5, <1>6 DEF HashItem

\* While its archive is read, an item counts as recorded.
LEMMA Within ==
  ASSUME TreeInv, InArchive
  PROVE  /\ reading = NotOpen /\ pass = "full" /\ at \in ItemIndexes /\ at \notin Specials
         /\ reviewed = Nothing /\ inv.files = Cardinality(ItemsBefore(at + 1))
         /\ inv \in Inventory /\ inv.scan \in Scans /\ Told(inv.scan)
         /\ inv.scan.hard \in Nat /\ inv.scan.hard >= Cardinality(SpecialsBefore(at + 1))
         /\ \A i \in ItemIndexes : records[i].sha # 0 <=> i \in ItemsBefore(at + 1)
         /\ edits = 0 => \A i \in ItemIndexes : content[i] = 1 /\ records[i].sha < 2
<1>1. reading = NotOpen /\ pass = "full" /\ at \in ItemIndexes /\ Recorded(at) /\ at \notin Specials
  BY DEF TreeInv, AtHand
<1>2. reviewed = Nothing
  BY <1>1 DEF TreeInv, SecondPass
<1>3. inv \in Inventory /\ inv.scan \in Scans /\ Told(inv.scan) /\ inv.scan.hard \in Nat
  BY DEF TreeInv, TreeTypeOK, Inventory, Scans
<1>4. \A i \in ItemIndexes : Passed(i) <=> i \in ItemsBefore(at + 1)
  <2>1. at \in Int /\ \A i \in ItemIndexes : i \in Int
    BY <1>1, ItemsAre
  <2>2. \A i \in ItemIndexes : i < at + 1 <=> i < at \/ i = at
    BY <2>1
  <2>. QED
    BY <2>2 DEF Passed, ItemsBefore
<1>5. {i \in ItemIndexes : Passed(i)} = ItemsBefore(at + 1)
  <2>1. \A i \in ItemsBefore(at + 1) : i \in ItemIndexes
    BY DEF ItemsBefore
  <2>. QED
    BY <1>4, <2>1
<1>6. /\ inv.files = Cardinality(ItemsBefore(at + 1)) /\ inv.scan.hard >= Cardinality(SpecialsBefore(at))
      /\ \A i \in ItemIndexes : records[i].sha # 0 <=> i \in ItemsBefore(at + 1)
      /\ edits = 0 => \A i \in ItemIndexes : content[i] = 1 /\ records[i].sha < 2
  BY <1>1, <1>4, <1>5 DEF TreeInv, Counts, SpecialsBefore
<1>7. SpecialsBefore(at + 1) = SpecialsBefore(at)
  BY <1>1, SpecialsTo
<1>. QED
  BY <1>1, <1>2, <1>3, <1>6, <1>7

LEMMA InspectArchiveKeeps == ASSUME TreeInv, InspectArchive PROVE TreeInv'
<1>1. /\ ArchiveInv' /\ UNCHANGED allowed /\ stack # <<>> /\ (stack' # <<>> \/ report' # NoReport)
      /\ UNCHANGED <<world, content, edits, pass, at, reading, inv, reviewed>>
      /\ records' = [records EXCEPT ![at].inspected = content[at]]
  BY ArchiveStepKeeps DEF TreeInv, InspectArchive
<1>2. InArchive /\ InArchive'
  BY <1>1 DEF InArchive
<1>3. reading = NotOpen /\ pass = "full" /\ at \in ItemIndexes /\ reviewed = Nothing
  BY <1>2, Within
<1>4. records' \in Bindings /\ \A i \in ItemIndexes : records'[i].sha = records[i].sha
  <2>1. records \in Bindings /\ content \in [ItemIndexes -> 1 .. 2]
    BY DEF TreeInv, TreeTypeOK
  <2>2. content[at] \in 0 .. 2
    <3>1. content[at] \in 1 .. 2
      BY <1>3, <2>1, Zenon
    <3>. QED
      BY <3>1
  <2>. DEFINE r == [records[at] EXCEPT !.inspected = content[at]]
  <2>3. r \in [sha : 0 .. 2, inspected : 0 .. 2] /\ r.sha = records[at].sha
    <3>1. records[at] \in [sha : 0 .. 2, inspected : 0 .. 2]
      BY <1>3, <2>1, Zenon DEF Bindings
    <3>. QED
      BY <2>2, <3>1
  <2>4. records' = [records EXCEPT ![at] = r]
    BY <1>1
  <2>. HIDE DEF r
  <2>. QED
    BY <1>3, <2>1, <2>3, <2>4 DEF Bindings
<1>5. TreeTypeOK'
  BY <1>1, <1>4 DEF TreeInv, TreeTypeOK
<1>6. /\ \A i : Recorded(i)' <=> Recorded(i)
      /\ \A i, j : Clash(i, j)' <=> Clash(i, j)
      /\ Specials' = Specials
  BY <1>1, WorldStays
<1>7. AtHand'
  BY <1>1, <1>2, <1>6 DEF TreeInv, AtHand
<1>8. Counts'
  <2>1. \A i : Passed(i)' <=> Passed(i)
    BY <1>1, <1>2, <1>6 DEF Passed
  <2>2. /\ inv.files = Cardinality({i \in ItemIndexes : Passed(i)})
        /\ inv.scan.hard >= Cardinality({i \in Specials : i < at})
        /\ \A i \in ItemIndexes : records[i].sha # 0 <=> Passed(i)
        /\ edits = 0 => \A i \in ItemIndexes : content[i] = 1 /\ records[i].sha < 2
    BY <1>3, Zenon DEF TreeInv, Counts
  <2>3. {i \in ItemIndexes : Passed(i)}' = {i \in ItemIndexes : Passed(i)}
    BY <2>1
  <2>4. {i \in Specials : i < at}' = {i \in Specials : i < at}
    BY <1>1, <1>6
  <2>5. (inv.files = Cardinality({i \in ItemIndexes : Passed(i)})
           /\ inv.scan.hard >= Cardinality({i \in Specials : i < at}))'
    BY <1>1, <2>2, <2>3, <2>4
  <2>6. (\A i \in ItemIndexes : records[i].sha # 0 <=> Passed(i))'
    BY <1>4, <2>1, <2>2
  <2>7. (edits = 0 => \A i \in ItemIndexes : content[i] = 1 /\ records[i].sha < 2)'
    BY <1>1, <1>4, <2>2
  <2>. QED
    BY <2>5, <2>6, <2>7, Zenon DEF Counts
<1>9. SecondPass' /\ Outcome'
  BY <1>1, <1>3 DEF SecondPass, Outcome
<1>10. checkBudget(inv)' /\ Told(inv.scan)' /\ ResultIsSound'
  BY <1>1, ResultStays DEF TreeInv, ResultIsSound, checkBudget, Told
<1>. QED
  BY <1>1, <1>5, <1>7, <1>8, <1>9, <1>10, Zenon DEF TreeInv, ResultIsSound

LEMMA CollectArchiveKeeps == ASSUME TreeInv, CollectArchive PROVE TreeInv'
<1>. DEFINE s == inv.scan
            m == Merged(s, report)
            b == s.complete /\ report.complete /\ report.supported
            t == [m EXCEPT !.complete = b]
            v == [inv EXCEPT !.scan = t]
<1>1. /\ report # NoReport /\ InArchive /\ stack' = <<>> /\ report' = NoReport /\ Proceed(v)
      /\ UNCHANGED <<world, content, edits, reading, records, reviewed>>
  BY DEF CollectArchive, InArchive
<1>2. s \in Scans /\ Told(s) /\ report \in Scans /\ Told(report)
  BY <1>1, Within DEF TreeInv, ArchiveInv
<1>3. m \in Scans /\ Told(m)
  BY <1>2, MergedIs, MergedTells
<1>4. m.hard = s.hard + report.hard /\ m.complete = (s.complete /\ report.complete)
  BY <1>2, MergedIs, Zenon
<1>5. b \in BOOLEAN /\ (b => m.complete)
  <2>1. s.complete \in BOOLEAN /\ report.complete \in BOOLEAN /\ report.supported \in BOOLEAN
    BY <1>2 DEF Scans
  <2>. QED
    BY <1>4, <2>1, Zenon
<1>. HIDE DEF m, b
<1>6. t \in Scans /\ t.hard = m.hard
  BY <1>3, <1>5 DEF Scans
<1>7. Told(t)
  <2>1. /\ t.complete = b /\ t.coverage = m.coverage /\ t.redone = m.redone /\ t.met = m.met
        /\ t.unread = m.unread
    BY <1>3 DEF Scans
  <2>. HIDE DEF t
  <2>. QED
    BY <1>3, <1>5, <1>6, <2>1, Zenon DEF Told
<1>. HIDE DEF t
<1>8. v \in Inventory /\ v.scan = t /\ v.files = inv.files
  BY <1>1, <1>6, Within DEF Inventory
<1>9. t.hard >= Cardinality(SpecialsBefore(at + 1))
  <2>1. s.hard \in Nat /\ s.hard >= Cardinality(SpecialsBefore(at + 1)) /\ report.hard \in Nat
    BY <1>1, <1>2, Within DEF Scans
  <2>2. Cardinality(SpecialsBefore(at + 1)) \in Nat
    <3>1. SpecialsBefore(at + 1) \in SUBSET ItemIndexes
      BY DEF SpecialsBefore, Specials
    <3>. QED
      BY <3>1, ItemsCount
  <2>. QED
    BY <1>4, <1>6, <2>1, <2>2
<1>. HIDE DEF v
<1>10. records' \in Bindings
  BY <1>1 DEF TreeInv, TreeTypeOK
<1>. QED
  BY <1>1, <1>7, <1>8, <1>9, <1>10, Within, Advances

\* A rewriting by another process.
LEMMA EditKeeps == ASSUME TreeInv, Edit PROVE TreeInv'
<1>1. /\ edits' = edits + 1 /\ edits \in Nat /\ pass \in {"full", "bind"}
      /\ UNCHANGED <<world, pass, at, reading, records, inv, reviewed, archiveVars>>
      /\ content \in [ItemIndexes -> 1 .. 2]
  BY DEF Edit, TreeInv, TreeTypeOK
<1>2. PICK i \in ItemIndexes : content' = [content EXCEPT ![i] = 3 - @]
  BY DEF Edit
<1>3. content' \in [ItemIndexes -> 1 .. 2]
  <2>1. content[i] \in 1 .. 2
    BY <1>1, Zenon
  <2>2. 3 - content[i] \in 1 .. 2
    BY <2>1
  <2>. QED
    BY <1>1, <1>2, <2>2
<1>4. edits' # 0 /\ edits' > 0 /\ edits' \in Nat /\ reading \in {NotOpen} \cup 0 .. edits'
  BY <1>1 DEF TreeInv, TreeTypeOK
<1>5. TreeTypeOK'
  BY <1>1, <1>3, <1>4 DEF TreeInv, TreeTypeOK
<1>6. ArchiveInv'
  BY <1>1, ArchiveIdles DEF TreeInv
<1>7. /\ \A j : Recorded(j)' <=> Recorded(j)
      /\ \A j, k : Clash(j, k)' <=> Clash(j, k)
      /\ Specials' = Specials
  BY <1>1, WorldStays
<1>8. InArchive' = InArchive
  BY <1>1 DEF InArchive, archiveVars
<1>9. AtHand'
  BY <1>1, <1>7, <1>8 DEF TreeInv, AtHand, archiveVars
<1>10. Counts'
  BY <1>1, <1>4, <1>7, <1>8 DEF TreeInv, Counts, Passed
<1>11. SecondPass' /\ Outcome'
  BY <1>1, <1>4, <1>7 DEF TreeInv, SecondPass, Outcome
<1>12. checkBudget(inv)' /\ Told(inv.scan)' /\ ResultIsSound'
  BY <1>1, ResultStays DEF TreeInv, ResultIsSound, checkBudget, Told
<1>. QED
  BY <1>5, <1>6, <1>9, <1>10, <1>11, <1>12, Zenon DEF TreeInv, ResultIsSound

LEMMA TreeIdles == ASSUME TreeInv, UNCHANGED scanVars PROVE TreeInv'
<1>1. /\ UNCHANGED <<world, content, edits, pass, at, reading, records, inv, reviewed>>
      /\ UNCHANGED archiveVars
  BY DEF scanVars, treeVars
<1>2. TreeTypeOK' /\ ArchiveInv'
  BY <1>1, ArchiveIdles DEF TreeInv, TreeTypeOK
<1>3. /\ \A j : Recorded(j)' <=> Recorded(j)
      /\ \A j, k : Clash(j, k)' <=> Clash(j, k)
      /\ Specials' = Specials
  BY <1>1, WorldStays
<1>4. InArchive' = InArchive
  BY <1>1 DEF InArchive, archiveVars
<1>5. AtHand' /\ Counts'
  BY <1>1, <1>3, <1>4 DEF TreeInv, AtHand, Counts, Passed, archiveVars
<1>6. SecondPass' /\ Outcome'
  BY <1>1, <1>3 DEF TreeInv, SecondPass, Outcome
<1>7. checkBudget(inv)' /\ Told(inv.scan)' /\ ResultIsSound'
  BY <1>1, ResultStays DEF TreeInv, ResultIsSound, checkBudget, Told
<1>. QED
  BY <1>2, <1>5, <1>6, <1>7, Zenon DEF TreeInv, ResultIsSound

\* An inventory nothing was added to yet.
LEMMA NoInventory ==
  /\ EmptyInventory \in Inventory /\ checkBudget(EmptyInventory) /\ Told(EmptyInventory.scan)
  /\ EmptyInventory.files = 0 /\ EmptyInventory.scan.hard = 0
  /\ OnlyBound(EmptyInventory.scan, 0) /\ NoRecords \in Bindings
  /\ \A i \in ItemIndexes : NoRecords[i].sha = 0
<1>1. NoReport \in Scans /\ Told(NoReport) /\ NoReport.hard = 0 /\ NoReport.met = 0
  BY DEF NoReport, Fresh, Scans, Told
<1>2. EmptyInventory \in Inventory /\ EmptyInventory.scan = NoReport /\ EmptyInventory.files = 0
  BY <1>1 DEF EmptyInventory, Inventory
<1>3. checkBudget(EmptyInventory)
  BY <1>2, TreeConstants, ArchiveConstants DEF checkBudget, NoReport, Fresh
<1>4. OnlyBound(NoReport, 0)
  <2>. DEFINE t == [NoReport EXCEPT !.hard = 0, !.met = 0, !.complete = NoReport.complete]
  <2>1. t \in Scans
    BY <1>1 DEF Scans
  <2>2. /\ t.entries = NoReport.entries /\ t.bytes = NoReport.bytes
        /\ t.archives = NoReport.archives /\ t.hard = NoReport.hard
        /\ t.coverage = NoReport.coverage /\ t.complete = NoReport.complete
        /\ t.supported = NoReport.supported /\ t.met = NoReport.met
        /\ t.unread = NoReport.unread /\ t.redone = NoReport.redone
    BY <1>1 DEF Scans
  <2>. HIDE DEF t
  <2>3. NoReport = t
    BY <1>1, <2>1, <2>2 DEF Scans
  <2>. QED
    BY <2>3 DEF OnlyBound, t
<1>5. NoRecords \in Bindings /\ \A i \in ItemIndexes : NoRecords[i].sha = 0
  BY DEF NoRecords, Bindings
<1>. QED
  BY <1>1, <1>2, <1>3, <1>4, <1>5

LEMMA NothingBefore ==
  Cardinality(SpecialsBefore(1)) = 0 /\ \A i \in ItemIndexes : ~(i < 1)
<1>1. \A i \in ItemIndexes : ~(i < 1)
  BY ItemsAre
<1>2. SpecialsBefore(1) = {}
  BY <1>1 DEF SpecialsBefore, Specials
<1>. QED
  BY <1>1, <1>2, FS_EmptySet

\* A pass that begins.
LEMMA PassBegins ==
  ASSUME pass' \in {"full", "bind"}, at' = 1, inv' = EmptyInventory, records' = NoRecords,
         stack' = <<>>, report' = NoReport, edits' = 0 => \A i \in ItemIndexes : content'[i] = 1
  PROVE  Counts'
<1>1. {i \in ItemIndexes : Passed(i)}' = {}
  BY NothingBefore DEF Passed, InArchive
<1>2. {i \in Specials : i < at}' = {}
  BY NothingBefore DEF Specials
<1>3. inv'.files = 0 /\ inv'.scan.hard = 0 /\ \A i \in ItemIndexes : records'[i].sha = 0
  BY NoInventory
<1>4. (inv.files = Cardinality({i \in ItemIndexes : Passed(i)})
         /\ inv.scan.hard >= Cardinality({i \in Specials : i < at}))'
  <2>1. Cardinality({i \in ItemIndexes : Passed(i)})' = 0
    BY <1>1, FS_EmptySet
  <2>2. Cardinality({i \in Specials : i < at})' = 0
    BY <1>2, FS_EmptySet
  <2>. QED
    BY <1>3, <2>1, <2>2
<1>5. (\A i \in ItemIndexes : records[i].sha # 0 <=> Passed(i))'
  BY <1>1, <1>3
<1>6. (edits = 0 => \A i \in ItemIndexes : content[i] = 1 /\ records[i].sha < 2)'
  BY <1>3
<1>. QED
  BY <1>4, <1>5, <1>6, Zenon DEF Counts

LEMMA BesideAgain ==
  ASSUME NEW s, NEW t, NEW u, s.hard \in Nat, Beside(t, s), Beside(u, t)
  PROVE  Beside(u, s)
BY DEF Beside

\* The findings on the declared sources.
LEMMA VerifiedBeside ==
  ASSUME TreeTypeOK, NEW s \in Scans, Told(s)
  PROVE  /\ Beside(Verified(s), s)
         /\ Verified(s).complete => \A n \in vendorPaths : verifySource(n)
<1>. DEFINE bad == {n \in vendorPaths : ~verifySource(n)}
            c == Cardinality(bad)
            x == s.hard + c
            y == s.met + c
            t == [s EXCEPT !.hard = x, !.met = y]
<1>1. CASE bad = {}
  <2>1. Verified(s) = s
    BY <1>1 DEF Verified
  <2>2. \A n \in vendorPaths : verifySource(n)
    BY <1>1
  <2>3. Beside(s, s)
    BY DEF Beside, Scans
  <2>. QED
    BY <2>1, <2>2, <2>3
<1>2. CASE bad # {}
  <2>1. c \in Nat
    <3>1. IsFiniteSet(Declared)
      BY TreeConstants DEF TreeTypeOK, Declared
    <3>2. IsFiniteSet(bad)
      BY <3>1, FS_Subset DEF vendorPaths
    <3>. QED
      BY <3>2, FS_CardinalityType
  <2>2. Verified(s) = Incomplete(t)
    BY <1>2 DEF Verified
  <2>. HIDE DEF bad, c
  <2>3. x \in Nat /\ y \in Nat /\ s.hard \in Nat /\ x >= s.hard
    BY <2>1 DEF Scans
  <2>. HIDE DEF x, y
  <2>4. /\ t \in Scans /\ t.entries = s.entries /\ t.bytes = s.bytes /\ t.archives = s.archives
        /\ t.hard = x
    BY <2>3 DEF Scans
  <2>. HIDE DEF t
  <2>5. Incomplete(t) \in Scans /\ Incomplete(t).complete = FALSE
    BY <2>4 DEF Scans, Incomplete
  <2>6. /\ Incomplete(t).entries = t.entries /\ Incomplete(t).bytes = t.bytes
        /\ Incomplete(t).archives = t.archives /\ Incomplete(t).hard = t.hard
    BY <2>4 DEF Scans, Incomplete
  <2>7. Told(Incomplete(t))
    BY <2>5 DEF Told
  <2>. QED
    BY <2>2, <2>3, <2>4, <2>5, <2>6, <2>7 DEF Beside
<1>. QED
  BY <1>1, <1>2

\* The checks at the end of the first pass add findings only.
LEMMA CheckedBeside ==
  ASSUME TreeTypeOK, NEW s \in Scans, Told(s)
  PROVE  /\ Beside(Checked(s), s)
         /\ Checked(s).complete /\ world.phase = "post" =>
              Declared # NoDeclaration /\ \A n \in vendorPaths : verifySource(n)
<1>1. s.hard \in Nat /\ Beside(s, s)
  BY DEF Beside, Scans
<1>2. Beside(Incomplete(Gap(s)), s)
  <2>1. Beside(Gap(s), s)
    BY FoundBeside
  <2>2. Beside(Incomplete(Gap(s)), Gap(s))
    BY <2>1, FoundBeside DEF Beside
  <2>. QED
    BY <1>1, <2>1, <2>2, BesideAgain
<1>3. Beside(Incomplete(Hard(s)), s) /\ ~Incomplete(Hard(s)).complete
  <2>1. Beside(Hard(s), s)
    BY FoundBeside
  <2>2. Beside(Incomplete(Hard(s)), Hard(s)) /\ Hard(s) \in Scans
    BY <2>1, FoundBeside DEF Beside
  <2>3. ~Incomplete(Hard(s)).complete
    BY <2>2 DEF Incomplete, Scans
  <2>. QED
    BY <1>1, <2>1, <2>2, <2>3, BesideAgain
<1>4. CASE world.phase = "pre"
  <2>1. Checked(s) = Incomplete(Gap(s)) \/ Checked(s) = s
    BY <1>4 DEF Checked
  <2>. QED
    BY <1>1, <1>2, <1>4, <2>1
<1>5. CASE world.phase = "post" /\ Declared = NoDeclaration
  <2>1. Checked(s) = Incomplete(Hard(s))
    BY <1>5 DEF Checked
  <2>. QED
    BY <1>3, <2>1
<1>6. CASE world.phase # "pre" /\ ~(world.phase = "post" /\ Declared = NoDeclaration)
  <2>1. Checked(s) = Verified(s)
    BY <1>6 DEF Checked
  <2>. QED
    BY <1>6, <2>1, VerifiedBeside
<1>. QED
  BY <1>4, <1>5, <1>6

\* What the full pass makes of its totals.
LEMMA ResultBeside ==
  ASSUME TreeTypeOK, NEW r \in Scans, Told(r), NEW s \in {Checked(r), Gap(Checked(r))}
  PROVE  /\ Beside(finalize(s), r)
         /\ finalize(s).complete => finalize(s).coverage = 0 /\ Checked(r).complete
<1>1. Beside(Checked(r), r) /\ Checked(r) \in Scans /\ Told(Checked(r)) /\ r.hard \in Nat
  BY CheckedBeside DEF Beside, Scans
<1>2. Beside(Gap(Checked(r)), Checked(r)) /\ Gap(Checked(r)).complete = Checked(r).complete
  <2>1. Beside(Gap(Checked(r)), Checked(r))
    BY <1>1, FoundBeside
  <2>2. Gap(Checked(r)).complete = Checked(r).complete
    BY <1>1 DEF Gap, Scans
  <2>. QED
    BY <2>1, <2>2
<1>3. Beside(Gap(Checked(r)), r)
  BY <1>1, <1>2, BesideAgain
<1>4. Beside(s, r) /\ s \in Scans /\ Told(s) /\ s.complete = Checked(r).complete
  BY <1>1, <1>2, <1>3 DEF Beside
<1>5. CASE s.coverage > 0
  <2>1. finalize(s) = Incomplete(s) /\ ~Incomplete(s).complete
    BY <1>4, <1>5 DEF finalize, Incomplete, Scans
  <2>2. Beside(Incomplete(s), s)
    BY <1>4, FoundBeside
  <2>. QED
    BY <1>1, <1>4, <2>1, <2>2, BesideAgain
<1>6. CASE ~(s.coverage > 0)
  <2>1. finalize(s) = s
    BY <1>6 DEF finalize
  <2>2. s.coverage = 0
    BY <1>4, <1>6 DEF Scans
  <2>. QED
    BY <1>4, <2>1, <2>2
<1>. QED
  BY <1>5, <1>6

\* At the end of a pass every item there is is recorded.
LEMMA AtTheEnd ==
  ASSUME TreeInv, AtEnd
  PROVE  /\ stack = <<>> /\ report = NoReport /\ reading = NotOpen
         /\ \A i \in ItemIndexes : records[i].sha # 0 <=> Recorded(i)
         /\ Cardinality(All) <= MaxFiles /\ Cardinality(Specials) <= MaxFindings
         /\ edits = 0 => \A i \in ItemIndexes : content[i] = 1 /\ records[i].sha < 2
<1>1. at = 6 /\ pass \in {"full", "bind"} /\ \A i \in ItemIndexes : i < at
  BY ItemsAre DEF AtEnd
<1>2. at \notin ItemIndexes
  BY <1>1, ItemsAre
<1>3. stack = <<>> /\ report = NoReport /\ reading = NotOpen
  BY <1>2 DEF TreeInv, AtHand, InArchive
<1>4. \A i \in ItemIndexes : Passed(i) <=> Recorded(i)
  BY <1>1 DEF Passed
<1>5. {i \in ItemIndexes : Passed(i)} = All
  BY <1>4 DEF All
<1>6. {i \in Specials : i < at} = Specials
  BY <1>1 DEF Specials
<1>7. /\ inv.files = Cardinality(All) /\ inv.scan.hard >= Cardinality(Specials)
      /\ \A i \in ItemIndexes : records[i].sha # 0 <=> Recorded(i)
      /\ edits = 0 => \A i \in ItemIndexes : content[i] = 1 /\ records[i].sha < 2
  BY <1>1, <1>4, <1>5, <1>6 DEF TreeInv, Counts
<1>8. /\ inv.files <= MaxFiles /\ inv.scan.hard + inv.scan.coverage <= MaxFindings
      /\ inv.scan.hard \in Nat /\ inv.scan.coverage \in Nat
  BY DEF TreeInv, TreeTypeOK, checkBudget, Inventory, Scans
<1>9. Cardinality(Specials) \in Nat /\ MaxFindings \in Nat
  <2>1. Specials \in SUBSET ItemIndexes
    BY DEF Specials
  <2>. QED
    BY <2>1, ItemsCount, ArchiveConstants
<1>10. Cardinality(Specials) <= MaxFindings
  BY <1>7, <1>8, <1>9
<1>. QED
  BY <1>3, <1>7, <1>8, <1>10

\* What the first pass returns.
LEMMA ResultIs ==
  ASSUME TreeInv, pass = "full", NEW s \in {Checked(inv.scan), Gap(Checked(inv.scan))},
         reviewed' = [records |-> records, inv |-> [inv EXCEPT !.scan = finalize(s)]],
         UNCHANGED world
  PROVE  reviewed' \in [records : Bindings, inv : Inventory] /\ ResultIsSound'
<1>. DEFINE r == inv.scan
            t == finalize(s)
<1>1. TreeTypeOK /\ r \in Scans /\ Told(r) /\ inv \in Inventory /\ records \in Bindings
  BY DEF TreeInv, TreeTypeOK, Inventory
<1>2. /\ Beside(t, r)
      /\ t.complete => t.coverage = 0 /\ Checked(r).complete
  BY <1>1, ResultBeside
<1>3. t \in Scans /\ Told(t) /\ t.entries = r.entries /\ t.bytes = r.bytes /\ t.archives = r.archives
  BY <1>2 DEF Beside
<1>. HIDE DEF t
<1>4. /\ [inv EXCEPT !.scan = t] \in Inventory
      /\ [inv EXCEPT !.scan = t].files = inv.files /\ [inv EXCEPT !.scan = t].scan = t
  BY <1>1, <1>3 DEF Inventory
<1>5. reviewed' = [records |-> records, inv |-> [inv EXCEPT !.scan = t]]
  BY DEF t
<1>6. reviewed' \in [records : Bindings, inv : Inventory]
  BY <1>1, <1>4, <1>5
<1>7. reviewed'.inv.scan = t /\ reviewed'.inv.files = inv.files /\ reviewed'.inv \in Inventory
  <2>1. reviewed'.inv = [inv EXCEPT !.scan = t]
    BY <1>5
  <2>. QED
    BY <1>4, <2>1
<1>8. CompleteMeansNothingWasMissed'
  <2>1. ASSUME t.complete, ~t.redone PROVE t.hard = t.met /\ t.unread \subseteq ByDesign
    <3>1. t.hard = t.met /\ "gap" \notin t.unread
      BY <1>2, <1>3, <2>1, Zenon DEF Told
    <3>. QED
      BY <1>3, <3>1 DEF Scans
  <2>2. ASSUME t.complete, world.phase = "post", world.depth > 0, world.plan # NoDeclaration,
               NEW n \in world.plan
        PROVE  Candidates(n) # {} /\ Kind(SourceItem(n)) # "foreign"
    <3>1. \A m \in vendorPaths : verifySource(m)
      BY <1>1, <1>2, <2>2, CheckedBeside
    <3>2. n \in vendorPaths
      BY <1>1, <2>2, TreeConstants DEF TreeTypeOK, vendorPaths, Declared, NoDeclaration
    <3>. QED
      BY <2>2, <3>1, <3>2 DEF verifySource
  <2>3. \A n : Candidates(n)' = Candidates(n) /\ Kind(SourceItem(n))' = Kind(SourceItem(n))
    BY WorldStays, SourceStays DEF Kind
  <2>4. ASSUME t.complete
        PROVE  (world.phase = "post" /\ world.depth > 0 /\ world.plan # NoDeclaration =>
                  \A n \in world.plan : Candidates(n) # {} /\ Kind(SourceItem(n)) # "foreign")'
    BY <2>2, <2>3, <2>4
  <2>. QED
    BY <1>7, <2>1, <2>4 DEF CompleteMeansNothingWasMissed
<1>9. checkBudget([reviewed.inv EXCEPT !.scan.hard = 0, !.scan.coverage = 0])'
  <2>. DEFINE u == [t EXCEPT !.hard = 0, !.coverage = 0]
              v == [reviewed'.inv EXCEPT !.scan.hard = 0, !.scan.coverage = 0]
  <2>1. /\ u.hard = 0 /\ u.coverage = 0
        /\ u.entries = t.entries /\ u.bytes = t.bytes /\ u.archives = t.archives
    BY <1>3 DEF Scans
  <2>2. v.files = inv.files /\ v.scan = u
    BY <1>7 DEF Inventory
  <2>. HIDE DEF u, v
  <2>3. checkBudget(v)
    <3>1. /\ inv.files <= MaxFiles /\ r.archives <= MaxArchives /\ r.entries <= MaxEntries
          /\ r.bytes <= MaxBytes
      BY DEF TreeInv, checkBudget
    <3>2. v.scan.hard + v.scan.coverage <= MaxFindings
      BY <2>1, <2>2, ArchiveConstants
    <3>. QED
      BY <1>3, <2>1, <2>2, <3>1, <3>2, Zenon DEF checkBudget
  <2>. QED
    BY <2>3 DEF v, checkBudget
<1>. QED
  BY <1>6, <1>8, <1>9 DEF ResultIsSound

LEMMA ReturnInventoryKeeps == ASSUME TreeInv, ReturnInventory PROVE TreeInv'
<1>1. /\ AtEnd /\ pass = "full" /\ reviewed = Nothing
      /\ UNCHANGED <<world, content, edits, reading, archiveVars>>
  BY DEF ReturnInventory, TreeInv, SecondPass
<1>2. /\ stack = <<>> /\ report = NoReport /\ reading = NotOpen
      /\ \A i \in ItemIndexes : records[i].sha # 0 <=> Recorded(i)
      /\ Cardinality(All) <= MaxFiles /\ Cardinality(Specials) <= MaxFindings
      /\ edits = 0 => \A i \in ItemIndexes : content[i] = 1 /\ records[i].sha < 2
  BY <1>1, AtTheEnd
<1>3. stack' = <<>> /\ report' = NoReport /\ reading' = NotOpen
  BY <1>1, <1>2 DEF archiveVars
<1>4. CASE Refuse /\ UNCHANGED <<records, reviewed>>
  <2>1. records' \in Bindings
    BY <1>4 DEF TreeInv, TreeTypeOK
  <2>. QED
    BY <1>1, <1>3, <1>4, <2>1, Refuses
<1>5. ASSUME ~Collision, NEW s \in {Checked(inv.scan), Gap(Checked(inv.scan))},
             reviewed' = [records |-> records, inv |-> [inv EXCEPT !.scan = finalize(s)]],
             pass' = "bind", at' = 1, inv' = EmptyInventory, records' = NoRecords
      PROVE  TreeInv'
  <2>1. reviewed' \in [records : Bindings, inv : Inventory] /\ ResultIsSound'
    BY <1>1, <1>5, ResultIs
  <2>2. reviewed'.records = records
    BY <1>5
  <2>3. TreeTypeOK'
    <3>1. 1 \in 1 .. Len(Items) + 1
      BY ItemsAre
    <3>2. inv' \in Inventory /\ records' \in Bindings
      BY <1>5, NoInventory
    <3>. QED
      BY <1>1, <1>3, <1>5, <2>1, <3>1, <3>2 DEF TreeInv, TreeTypeOK
  <2>4. ArchiveInv'
    BY <1>3, NoArchive
  <2>5. checkBudget(inv)' /\ Told(inv.scan)'
    <3>1. checkBudget(inv') /\ Told(inv'.scan)
      BY <1>5, NoInventory
    <3>. QED
      BY <3>1 DEF checkBudget, Told
  <2>6. AtHand'
    BY <1>3 DEF AtHand, InArchive
  <2>7. Counts'
    BY <1>1, <1>2, <1>3, <1>5, PassBegins
  <2>8. SecondPass'
    <3>1. /\ \A i : Recorded(i)' <=> Recorded(i)
          /\ \A i, j : Clash(i, j)' <=> Clash(i, j)
          /\ Specials' = Specials
      BY <1>1, WorldStays
    <3>2. (/\ inv.scan = [NoReport EXCEPT !.hard = inv.scan.hard, !.met = inv.scan.hard,
                                           !.complete = inv.scan.complete]
           /\ inv.scan.hard = Cardinality({i \in Specials : i < at}))'
      <4>1. OnlyBound(inv'.scan, inv'.scan.hard) /\ inv'.scan.hard = 0
        BY <1>5, NoInventory
      <4>2. {i \in Specials : i < at}' = SpecialsBefore(1)
        BY <1>5, <3>1 DEF SpecialsBefore
      <4>3. Cardinality({i \in Specials : i < at})' = 0
        BY <4>2, NothingBefore
      <4>. QED
        BY <4>1, <4>3 DEF OnlyBound
    <3>3. (Cardinality({i \in ItemIndexes : Recorded(i)}) <= MaxFiles
             /\ Cardinality(Specials) <= MaxFindings)'
      BY <1>2, <3>1 DEF All
    <3>4. (\A i \in ItemIndexes : reviewed.records[i].sha # 0 <=> Recorded(i))'
      BY <1>2, <2>2, <3>1
    <3>5. (edits = 0 => \A i \in ItemIndexes : reviewed.records[i].sha < 2)'
      BY <1>1, <1>2, <2>2
    <3>6. ~ \E i, j \in ItemIndexes : Clash(i, j) /\ Recorded(i) /\ Recorded(j)
      BY <1>2, <1>5 DEF Collision, SamePath, Clash
    <3>7. (~ \E i, j \in ItemIndexes : Clash(i, j) /\ Recorded(i) /\ Recorded(j))'
      BY <3>1, <3>6
    <3>. QED
      BY <1>5, <3>2, <3>3, <3>4, <3>5, <3>7 DEF SecondPass
  <2>9. Outcome'
    BY <1>5 DEF Outcome
  <2>. QED
    BY <2>1, <2>3, <2>4, <2>5, <2>6, <2>7, <2>8, <2>9, Zenon DEF TreeInv, ResultIsSound
<1>. QED
  BY <1>4, <1>5 DEF ReturnInventory

LEMMA VerifyMarkerKeeps == ASSUME TreeInv, VerifyMarker PROVE TreeInv'
<1>1. /\ AtEnd /\ pass = "bind"
      /\ UNCHANGED <<world, content, edits, at, reading, records, inv, reviewed, archiveVars>>
      /\ pass' = IF Collision THEN "refused"
                 ELSE IF \A i \in ItemIndexes : records[i].sha = reviewed.records[i].sha
                 THEN "same" ELSE "changed"
  BY DEF VerifyMarker
<1>2. /\ stack = <<>> /\ report = NoReport /\ reading = NotOpen
      /\ \A i \in ItemIndexes : records[i].sha # 0 <=> Recorded(i)
      /\ edits = 0 => \A i \in ItemIndexes : records[i].sha < 2
  BY <1>1, AtTheEnd
<1>3. /\ \A i \in ItemIndexes : reviewed.records[i].sha # 0 <=> Recorded(i)
      /\ edits = 0 => \A i \in ItemIndexes : reviewed.records[i].sha < 2
      /\ ~ \E i, j \in ItemIndexes : Clash(i, j) /\ Recorded(i) /\ Recorded(j)
  BY <1>1 DEF TreeInv, SecondPass
<1>4. ~Collision
  BY <1>2, <1>3 DEF Collision, SamePath, Clash
<1>5. pass' \in {"same", "changed"}
  BY <1>1, <1>4
<1>6. TreeTypeOK'
  BY <1>1, <1>5 DEF TreeInv, TreeTypeOK
<1>7. ArchiveInv'
  BY <1>1, ArchiveIdles DEF TreeInv
<1>8. AtHand' /\ Counts' /\ SecondPass'
  BY <1>1, <1>2, <1>5 DEF AtHand, InArchive, Counts, SecondPass, archiveVars
<1>9. Outcome'
  <2>1. ASSUME pass' = "changed" PROVE edits > 0
    <3>1. edits \in Nat /\ records \in Bindings /\ reviewed.records \in Bindings
      BY DEF TreeInv, TreeTypeOK
    <3>2. PICK i \in ItemIndexes : records[i].sha # reviewed.records[i].sha
      BY <1>1, <1>4, <2>1
    <3>3. records[i].sha \in 0 .. 2 /\ reviewed.records[i].sha \in 0 .. 2
      BY <3>1 DEF Bindings
    <3>4. edits # 0
      BY <1>2, <1>3, <3>2, <3>3
    <3>. QED
      BY <3>1, <3>4
  <2>2. ASSUME pass' = "same"
        PROVE  \A i \in ItemIndexes : Recorded(i) =>
                 records[i].sha # 0 /\ records[i].sha = reviewed.records[i].sha
    BY <1>1, <1>2, <1>4, <2>2
  <2>3. \A i : Recorded(i)' <=> Recorded(i)
    BY <1>1, WorldStays
  <2>. QED
    BY <1>1, <1>5, <2>1, <2>2, <2>3 DEF Outcome
<1>10. checkBudget(inv)' /\ Told(inv.scan)' /\ ResultIsSound'
  BY <1>1, ResultStays DEF TreeInv, ResultIsSound, checkBudget, Told
<1>. QED
  BY <1>6, <1>7, <1>8, <1>9, <1>10, Zenon DEF TreeInv, ResultIsSound

LEMMA TreeInitially == ASSUME ScanInit PROVE TreeInv
<1>1. TreeTypeOK
  <2>1. 1 \in 1 .. Len(Items) + 1
    BY ItemsAre
  <2>2. content \in [ItemIndexes -> 1 .. 2]
    BY DEF ScanInit
  <2>. QED
    BY <2>1, <2>2, NoInventory DEF ScanInit, TreeTypeOK, Nothing
<1>2. ArchiveInv
  <2>1. <<>> \in Seq(Frames) /\ DOMAIN <<>> = {}
    BY EmptySeq
  <2>2. NoReport \in Scans /\ Told(NoReport)
    BY DEF NoReport, Fresh, Scans, Told
  <2>. QED
    BY <2>1, <2>2 DEF ArchiveInv, ScanInit
<1>3. checkBudget(inv) /\ Told(inv.scan)
  BY NoInventory DEF ScanInit
<1>4. AtHand /\ SecondPass /\ Outcome
  BY DEF ScanInit, AtHand, InArchive, SecondPass, Outcome
<1>5. Counts
  <2>1. {i \in ItemIndexes : Passed(i)} = {} /\ {i \in Specials : i < at} = {}
    BY NothingBefore DEF Passed, InArchive, Specials, ScanInit
  <2>2. /\ inv.files = Cardinality({i \in ItemIndexes : Passed(i)})
        /\ inv.scan.hard >= Cardinality({i \in Specials : i < at})
    <3>1. Cardinality({i \in ItemIndexes : Passed(i)}) = 0
      BY <2>1, FS_EmptySet
    <3>2. Cardinality({i \in Specials : i < at}) = 0
      BY <2>1, FS_EmptySet
    <3>. QED
      BY <3>1, <3>2, NoInventory DEF ScanInit
  <2>3. \A i \in ItemIndexes : records[i].sha = 0 /\ content[i] = 1
    BY NoInventory DEF ScanInit
  <2>4. \A i \in ItemIndexes : ~Passed(i)
    BY <2>1
  <2>. QED
    BY <2>2, <2>3, <2>4 DEF Counts
<1>6. ResultIsSound
  BY DEF ScanInit, ResultIsSound, CompleteMeansNothingWasMissed
<1>. QED
  BY <1>1, <1>2, <1>3, <1>4, <1>5, <1>6, Zenon DEF TreeInv, ResultIsSound

LEMMA TreeStep == ASSUME TreeInv, [ScanNext]_scanVars PROVE TreeInv'
BY SkipItemKeeps, RecordSpecialKeeps, OpenItemKeeps, HashItemKeeps, InspectArchiveKeeps,
   CollectArchiveKeeps, ScanBreaksKeeps, ReturnInventoryKeeps, VerifyMarkerKeeps, EditKeeps,
   TreeIdles, Zenon
   DEF ScanNext

\* What the walk promises.
LEMMA TreeIsSound ==
  ASSUME TreeInv
  PROVE  CompleteMeansNothingWasMissed /\ ArchivesShareTheLimits /\ BindingDecidesChange
<1>1. CompleteMeansNothingWasMissed
  BY DEF TreeInv
<1>2. ArchivesShareTheLimits
  <2>1. ASSUME stack # <<>>
        PROVE  /\ allowed.entries >= 0 /\ allowed.entries + inv.scan.entries <= MaxEntries
               /\ allowed.bytes >= 0 /\ allowed.bytes + inv.scan.bytes <= MaxBytes
               /\ allowed.archives + inv.scan.archives <= MaxArchives
    <3>1. allowed.entries \in Nat /\ allowed.bytes \in Nat
      BY <2>1 DEF TreeInv, ArchiveInv
    <3>2. /\ allowed.entries + inv.scan.entries <= MaxEntries
          /\ allowed.bytes + inv.scan.bytes <= MaxBytes
          /\ allowed.archives + inv.scan.archives <= MaxArchives
      BY <2>1 DEF TreeInv, AtHand
    <3>. QED
      BY <3>1, <3>2
  <2>2. ASSUME stack # <<>>
        PROVE  FoldLeft(LAMBDA n, f : n + f.scan.entries, 0, stack)
                 <= MaxArchiveDepth * (allowed.entries + 1)
    BY <2>2, EntriesAreShared DEF TreeInv
  <2>3. reviewed # Nothing =>
          checkBudget([reviewed.inv EXCEPT !.scan.hard = 0, !.scan.coverage = 0])
    BY Zenon DEF TreeInv
  <2>4. ASSUME stack # <<>>, NEW n \in 1 .. Len(stack) - 1
        PROVE  WithinLimits(stack[n].scan, 0) /\ stack[n].scan.archives <= allowed.archives
    <3>1. stack \in Seq(Frames)
      BY DEF TreeInv, ArchiveInv
    <3>2. n \in DOMAIN stack /\ n < Len(stack)
      BY <3>1
    <3>3. Standing(stack[n], n) /\ Waiting(stack[n])
      BY <3>2, Zenon DEF TreeInv, ArchiveInv
    <3>. QED
      BY <3>3 DEF Standing, Waiting, WithinLimits
  <2>5. report # NoReport => InAllowance(report)
    BY DEF TreeInv, ArchiveInv
  <2>. QED
    BY <2>1, <2>2, <2>3, <2>4, <2>5, Zenon DEF ArchivesShareTheLimits
<1>3. BindingDecidesChange
  <2>1. reviewed # Nothing /\ pass \in {"changed", "refused"} => edits > 0
    BY DEF TreeInv, Outcome
  <2>2. ASSUME pass = "same", NEW i \in ItemIndexes, ~Excluded(i),
               Kind(i) \in {"text", "archive", "foreign", "directory"}
        PROVE  records[i].sha \in {1, 2} /\ records[i].sha = reviewed.records[i].sha
    <3>1. Recorded(i) /\ records \in Bindings
      BY <2>2, ExcludedIs DEF TreeInv, TreeTypeOK
    <3>2. records[i].sha # 0 /\ records[i].sha = reviewed.records[i].sha
      BY <2>2, <3>1 DEF TreeInv, Outcome
    <3>3. records[i].sha \in 0 .. 2
      BY <3>1 DEF Bindings
    <3>. QED
      BY <3>2, <3>3
  <2>. QED
    BY <2>1, <2>2 DEF BindingDecidesChange
<1>. QED
  BY <1>1, <1>2, <1>3

----------------------------------------------------------------------------
(* The machines together (Foundations).                                    *)

FoundationsInv ==
  /\ IF part = "scan" THEN TreeInv ELSE ScanIdle
  /\ IF part = "ids" THEN IdsInv ELSE IdsIdle
  /\ IF part = "limits" THEN LimitsInv ELSE LimitsIdle
  /\ IF part = "files" THEN FilesInv ELSE FilesIdle
  /\ IF part = "stream" THEN StreamInv ELSE StreamIdle
  /\ IF part = "dispatch" THEN DispatchInv ELSE DispatchIdle
  /\ IF part = "batches" THEN selected \in Inventories /\ options \in Options ELSE BatchesIdle
  /\ part = "command" => command \in CommandLines \X Reports

LEMMA FoundationsInitially == Init => FoundationsInv
<1>. SUFFICES ASSUME Init PROVE FoundationsInv
  OBVIOUS
<1>1. IF part = "ids" THEN IdsInv ELSE IdsIdle
  BY IdsInitially, Zenon DEF Init
<1>2. IF part = "limits" THEN LimitsInv ELSE LimitsIdle
  BY LimitsInitially, Zenon DEF Init
<1>3. IF part = "files" THEN FilesInv ELSE FilesIdle
  BY FilesInitially, Zenon DEF Init
<1>4. IF part = "stream" THEN StreamInv ELSE StreamIdle
  BY StreamInitially, Zenon DEF Init
<1>5. IF part = "dispatch" THEN DispatchInv ELSE DispatchIdle
  BY DispatchInitially, Zenon DEF Init
<1>6. IF part = "batches" THEN selected \in Inventories /\ options \in Options ELSE BatchesIdle
  BY Zenon DEF Init
<1>7. part = "command" => command \in CommandLines \X Reports
  BY Zenon DEF Init
<1>8. IF part = "scan" THEN TreeInv ELSE ScanIdle
  BY TreeInitially, Zenon DEF Init
<1>. QED
  BY <1>1, <1>2, <1>3, <1>4, <1>5, <1>6, <1>7, <1>8, Zenon DEF FoundationsInv

\* A step is one of the machine that runs, and leaves every other as it is.
LEMMA OneMachineMoves ==
  ASSUME [Next]_vars
  PROVE  /\ UNCHANGED <<part, selected, options, command>>
         /\ (part = "scan" /\ ScanNext) \/ UNCHANGED scanVars
         /\ (part = "recipe" /\ RecipeNext) \/ UNCHANGED recipeVars
         /\ (part = "ids" /\ IdsNext) \/ UNCHANGED idsVars
         /\ (part = "limits" /\ Observe) \/ UNCHANGED limitVars
         /\ (part = "files" /\ FilesNext) \/ UNCHANGED fileVars
         /\ (part = "stream" /\ StreamNext) \/ UNCHANGED streamVars
         /\ (part = "dispatch" /\ DispatchNext) \/ UNCHANGED dispatchVars
<1>1. CASE UNCHANGED vars
  BY <1>1, Zenon DEF vars
<1>2. CASE Next
  BY <1>2, Zenon DEF Next
<1>. QED
  BY <1>1, <1>2, Zenon

LEMMA FoundationsStep == FoundationsInv /\ [Next]_vars => FoundationsInv'
<1>. SUFFICES ASSUME FoundationsInv, [Next]_vars PROVE FoundationsInv'
  OBVIOUS
<1>0. part' = part /\ selected' = selected /\ options' = options /\ command' = command
  BY OneMachineMoves, Zenon
<1>1. (IF part = "ids" THEN IdsInv ELSE IdsIdle)'
  <2>1. CASE part = "ids"
    BY <1>0, <2>1, OneMachineMoves, IdsInductively, Zenon DEF FoundationsInv
  <2>2. CASE part # "ids"
    <3>1. IdsIdle /\ UNCHANGED idsVars
      BY <2>2, OneMachineMoves, Zenon DEF FoundationsInv
    <3>2. IdsIdle'
      BY <3>1 DEF IdsIdle, idsVars
    <3>. QED
      BY <1>0, <2>2, <3>2, Zenon
  <2>. QED
    BY <2>1, <2>2, Zenon
<1>2. (IF part = "limits" THEN LimitsInv ELSE LimitsIdle)'
  <2>1. CASE part = "limits"
    BY <1>0, <2>1, OneMachineMoves, LimitsStep, Zenon DEF FoundationsInv
  <2>2. CASE part # "limits"
    <3>1. LimitsIdle /\ UNCHANGED limitVars
      BY <2>2, OneMachineMoves, Zenon DEF FoundationsInv
    <3>2. LimitsIdle'
      BY <3>1 DEF LimitsIdle, limitVars
    <3>. QED
      BY <1>0, <2>2, <3>2, Zenon
  <2>. QED
    BY <2>1, <2>2, Zenon
<1>3. (IF part = "files" THEN FilesInv ELSE FilesIdle)'
  <2>1. CASE part = "files"
    BY <1>0, <2>1, OneMachineMoves, FilesStep, Zenon DEF FoundationsInv
  <2>2. CASE part # "files"
    <3>1. FilesIdle /\ UNCHANGED fileVars
      BY <2>2, OneMachineMoves, Zenon DEF FoundationsInv
    <3>2. FilesIdle'
      BY <3>1 DEF FilesIdle, fileVars
    <3>. QED
      BY <1>0, <2>2, <3>2, Zenon
  <2>. QED
    BY <2>1, <2>2, Zenon
<1>4. (IF part = "stream" THEN StreamInv ELSE StreamIdle)'
  <2>1. CASE part = "stream"
    BY <1>0, <2>1, OneMachineMoves, StreamStep, Zenon DEF FoundationsInv
  <2>2. CASE part # "stream"
    <3>1. StreamIdle /\ UNCHANGED streamVars
      BY <2>2, OneMachineMoves, Zenon DEF FoundationsInv
    <3>2. StreamIdle'
      BY <3>1 DEF StreamIdle, streamVars
    <3>. QED
      BY <1>0, <2>2, <3>2, Zenon
  <2>. QED
    BY <2>1, <2>2, Zenon
<1>5. (IF part = "dispatch" THEN DispatchInv ELSE DispatchIdle)'
  <2>1. CASE part = "dispatch"
    BY <1>0, <2>1, OneMachineMoves, DispatchStep, Zenon DEF FoundationsInv
  <2>2. CASE part # "dispatch"
    <3>1. DispatchIdle /\ UNCHANGED dispatchVars
      BY <2>2, OneMachineMoves, Zenon DEF FoundationsInv
    <3>2. DispatchIdle'
      BY <3>1 DEF DispatchIdle, dispatchVars
    <3>. QED
      BY <1>0, <2>2, <3>2, Zenon
  <2>. QED
    BY <2>1, <2>2, Zenon
<1>6. (IF part = "batches" THEN selected \in Inventories /\ options \in Options ELSE BatchesIdle)'
  BY <1>0 DEF FoundationsInv, BatchesIdle
<1>7. (part = "command" => command \in CommandLines \X Reports)'
  BY <1>0 DEF FoundationsInv
<1>8. (IF part = "scan" THEN TreeInv ELSE ScanIdle)'
  <2>1. CASE part = "scan"
    BY <1>0, <2>1, OneMachineMoves, TreeStep, Zenon DEF FoundationsInv
  <2>2. CASE part # "scan"
    <3>1. ScanIdle /\ UNCHANGED scanVars
      BY <2>2, OneMachineMoves, Zenon DEF FoundationsInv
    <3>2. ScanIdle'
      BY <3>1 DEF ScanIdle, scanVars, treeVars, archiveVars
    <3>. QED
      BY <1>0, <2>2, <3>2, Zenon
  <2>. QED
    BY <2>1, <2>2, Zenon
<1>. QED
  BY <1>1, <1>2, <1>3, <1>4, <1>5, <1>6, <1>7, <1>8, Zenon DEF FoundationsInv

\* What the machines that do not run say is true of the values they keep.
LEMMA IdleLimits == LimitsIdle => LimitsInv
<1>1. <<>> \in Seq(Nat) /\ Len(<<>>) = 0
  BY EmptySeq
<1>. QED
  BY <1>1, LimitConstants DEF LimitsIdle, LimitsInv, IsTailOf

LEMMA IdleFiles == FilesIdle => ReadsAreOfOneInstant /\ WritesSurvive
BY DEF FilesIdle, ReadsAreOfOneInstant, WritesSurvive, Closed

LEMMA IdleScan ==
  ScanIdle => CompleteMeansNothingWasMissed /\ ArchivesShareTheLimits /\ BindingDecidesChange
BY DEF ScanIdle, CompleteMeansNothingWasMissed, ArchivesShareTheLimits, BindingDecidesChange

LEMMA NothingIsASelection == IsSelection(<<>>)
<1>1. ToSet(<<>>) = {} /\ DOMAIN <<>> = {} /\ <<>> \in Seq(ToSet(<<>>))
  BY EmptySeq DEF ToSet
<1>. QED
  BY <1>1, Zenon DEF IsSelection

LEMMA FoundationsInvariant == Spec => []FoundationsInv
BY FoundationsInitially, FoundationsStep, PTL DEF Spec

\* Whatever yay calls makepkg with, whatever the limits are and whatever a command
\* writes: the command line is let through only for what makepkg takes it for, the
\* evaluation of a recipe is held to less than the build, and the transcript is the
\* tail of the output (ClassifyInvocation, freezeLimits, outputTranscript).
THEOREM CommandsAreHeld == Spec => []CommandsKeepToTheirTerms
<1>1. FoundationsInv => CommandsKeepToTheirTerms
  <2>. SUFFICES ASSUME FoundationsInv PROVE CommandsKeepToTheirTerms
    OBVIOUS
  <2>1. ASSUME part = "command"
        PROVE  InvocationIsWhatItIsTakenFor(command[1], command[2])
    <3>1. command \in CommandLines \X Reports
      BY <2>1 DEF FoundationsInv
    <3>2. command[1] \in Seq(STRING)
      BY <3>1, FoundationConstants
    <3>. QED
      BY <3>2, InvocationIsTaken
  <2>2. FreezeIsNarrowerThanTheBuild /\ TranscriptIsTheTail
    <3>1. CASE part = "limits"
      BY <3>1, FreezeIsNarrower, TranscriptIsATail DEF FoundationsInv
    <3>2. CASE part # "limits"
      BY <3>2, IdleLimits, FreezeIsNarrower, TranscriptIsATail DEF FoundationsInv
    <3>. QED
      BY <3>1, <3>2
  <2>. QED
    BY <2>1, <2>2 DEF CommandsKeepToTheirTerms
<1>. QED
  BY <1>1, FoundationsInvariant, PTL

\* Whoever else writes, and wherever power is lost: what a reader of the audit state
\* takes is what one file held at one instant, what AtomicWrite returned as written
\* is there afterwards, and a stream is judged as text the same however it is cut into
\* chunks (ReadJSONFile, AtomicWrite, ContentValidator).
THEOREM FilesAreWhole == Spec => []FilesAreReadAndWrittenWhole
<1>1. FoundationsInv => FilesAreReadAndWrittenWhole
  <2>. SUFFICES ASSUME FoundationsInv PROVE FilesAreReadAndWrittenWhole
    OBVIOUS
  <2>1. ReadsAreOfOneInstant /\ WritesSurvive
    <3>1. CASE part = "files"
      BY <3>1, FilesAreSound DEF FoundationsInv
    <3>2. CASE part # "files"
      BY <3>2, IdleFiles DEF FoundationsInv
    <3>. QED
      BY <3>1, <3>2
  <2>2. ChunkingChangesNothing
    BY DEF FoundationsInv, StreamInv, StreamIdle, ChunkingChangesNothing
  <2>. QED
    BY <2>1, <2>2 DEF FilesAreReadAndWrittenWhole
<1>. QED
  BY <1>1, FoundationsInvariant, PTL

\* Whatever is selected for a review, for any limits and any provider: what is sent is
\* the selection, whole and in order, and an answer that is used was given under the
\* configuration the audit holds (batchesWithProviderOptions, dispatch).
THEOREM ReviewsAreExchanged == Spec => []ReviewsAreSoundlyExchanged
<1>1. FoundationsInv => ReviewsAreSoundlyExchanged
  <2>. SUFFICES ASSUME FoundationsInv PROVE ReviewsAreSoundlyExchanged
    OBVIOUS
  <2>1. IsSelection(selected) /\ options.ceiling \in Nat
    BY FoundationConstants, NothingIsASelection DEF FoundationsInv, BatchesIdle
  <2>2. BatchesAreSound(selected, options)
    BY <2>1, AnySelectionIsSent
  <2>3. AnswersAreAsConfigured
    BY DEF FoundationsInv, DispatchInv, DispatchIdle, AnswersAreAsConfigured
  <2>. QED
    BY <2>2, <2>3 DEF ReviewsAreSoundlyExchanged
<1>. QED
  BY <1>1, FoundationsInvariant, PTL

\* Whatever a recipe says and however long it is, background statements, readonly and
\* unquoted words among it: an array the static reading has a value for has that value
\* in Bash, and a checksum binding that survives the comparison with .SRCINFO is the
\* one makepkg enforces, or the array is unresolved, unless Bash itself expanded,
\* withheld or changed one of the assignments the value comes from
\* (analyzeStaticPKGBUILDChecksumArrays, compareSRCINFO).
THEOREM ChecksumsAreBashs == Spec => []StaticChecksumsAreBashs
<1>. DEFINE Reads == IF part = "recipe" THEN RecipeInv ELSE RecipeIdle
<1>1. Init => Reads
  BY RecipeInitially, Zenon DEF Init
<1>2. Reads /\ [Next]_vars => Reads'
  <2>. SUFFICES ASSUME Reads, [Next]_vars PROVE Reads'
    OBVIOUS
  <2>0. part' = part
    BY OneMachineMoves, Zenon
  <2>1. CASE part = "recipe"
    <3>1. RecipeInv /\ [RecipeNext]_recipeVars
      BY <2>1, OneMachineMoves, Zenon
    <3>2. RecipeInv'
      BY <3>1, RecipeStep, Zenon
    <3>. QED
      BY <2>0, <2>1, <3>2, Zenon
  <2>2. CASE part # "recipe"
    <3>1. RecipeIdle /\ UNCHANGED recipeVars
      BY <2>2, OneMachineMoves, Zenon
    <3>2. RecipeIdle'
      BY <3>1 DEF RecipeIdle, recipeVars
    <3>. QED
      BY <2>0, <2>2, <3>2, Zenon
  <2>. QED
    BY <2>1, <2>2, Zenon
<1>3. Reads => StaticChecksumsAreBashs
  <2>1. RecipeIdle => StaticChecksumsAreBashs
    BY DEF RecipeIdle, StaticChecksumsAreBashs
  <2>. QED
    BY <2>1, BashAgrees, Zenon
<1>. QED
  BY <1>1, <1>2, <1>3, PTL DEF Spec

\* Either way of the inventory of a tree to be sound.
LEMMA ScanIsSound ==
  FoundationsInv => CompleteMeansNothingWasMissed /\ ArchivesShareTheLimits /\ BindingDecidesChange
<1>1. FoundationsInv => TreeInv \/ ScanIdle
  BY Zenon DEF FoundationsInv
<1>. QED
  BY <1>1, TreeIsSound, IdleScan, Zenon

\* Whatever a tree and the archives in it hold, and whoever changes them meanwhile: an
\* inventory that is complete names every hazard a reader came across and left nothing
\* unread, and every declared source makepkg would extract is there and was read as
\* what makepkg takes it for (finalize, verifyExtractableSources, ScanArchive).
THEOREM NothingIsLeftUnread == Spec => []CompleteMeansNothingWasMissed
<1>1. FoundationsInv => CompleteMeansNothingWasMissed
  BY ScanIsSound, Zenon
<1>. QED
  BY <1>1, FoundationsInvariant, PTL

\* Whatever the limits are, and however archives are nested: the archives of a
\* transaction share them, readers that wait for one another go past what is left by
\* no more than a member each, and the inventory is within the limits (readRegular,
\* checkArchiveLimits, scanArchiveMember, checkBudget).
THEOREM LimitsAreShared == Spec => []ArchivesShareTheLimits
<1>1. FoundationsInv => ArchivesShareTheLimits
  BY ScanIsSound, Zenon
<1>. QED
  BY <1>1, FoundationsInvariant, PTL

\* Whatever a tree holds, and whichever declaration either pass reads: a binding that
\* differs or fails means that somebody changed the tree, and one that is the same
\* that every file has the bytes it had under review (ScanPhase, VerifyMarker).
THEOREM BindingDecides == Spec => []BindingDecidesChange
<1>1. FoundationsInv => BindingDecidesChange
  BY ScanIsSound, Zenon
<1>. QED
  BY <1>1, FoundationsInvariant, PTL
=============================================================================
